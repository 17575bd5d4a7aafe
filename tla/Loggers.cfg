SPECIFICATION Spec
CONSTANTS
  Levels = {3, 7}
  PmFaults <- MCPmFaults
  Callers = {t1, t2}
  LogLevels = {3, 7}
  FileSizes <- MCFileSizes
  FileCounts <- MCFileCounts
  MaxUint = 1073741824
INVARIANTS TypeOK LoggerIsFound
PROPERTIES LinesReachTheLog
CHECK_DEADLOCK FALSE
