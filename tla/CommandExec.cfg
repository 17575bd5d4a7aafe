CONSTANTS
  PipeSize = 3
  ReadSize = 2
  Outputs <- ShortOutputs
  Faults = {"actions_init", "pipe", "getfl", "actions_add", "posix_spawn"}
  StatusMayBeLost = TRUE
SPECIFICATION FairSpec
INVARIANTS
  LinesAreOutput
  SuccessIsExit
  CaptureIsComplete
  NothingLeaks
PROPERTIES
  SmallOutputReturns
