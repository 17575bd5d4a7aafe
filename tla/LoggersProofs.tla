----------------------------- MODULE LoggersProofs -----------------------------
(***************************************************************************)
(* Proofs about Loggers: which loggers are used, for any severities,       *)
(* threads of the client, sizes and numbers of files.                      *)
(***************************************************************************)
EXTENDS Loggers, TLAPS

-------------------------------------------------------------------------------
(* The package manager *)

\* Before initFileLogging() names the file, and after.
AtConsole ==
  {"arguments", "refused", "daemon", "options", "config", "level", "drop", "directory",
   "register", "name", "named"}
AtFile == {"handler", "pattern", "task", "running"}

\* The logger that is named is registered, unless there is no directory for the file.
PmInv ==
  /\ main \in {"init", "release", "ended"} \cup AtConsole \cup AtFile
  /\ naming <=> main = "named"
  /\ main = "init" => ~watching /\ \A t \in Threads : line[t] = "none"
  /\ main \in AtConsole => loggerName_ = "console" /\ "console" \in registry
  /\ main \in AtFile => loggerName_ = "file"
  /\ main \in AtFile \cup {"name", "named"} /\ bDirExists => "file" \in registry
  /\ crashed => ~bDirExists \/ torn \/ main \in {"release", "ended"}

\* At first nothing is registered and nobody logs.
LEMMA InitPm == PmInit => PmInv
  BY DEF PmInit, PmInv, AtConsole, AtFile

\* A line is written with the logger that is named, or with whichever a thread finds
\* that has read the name while it was replaced.
LEMMA WritePm == ASSUME PmInv, NEW t \in Threads, WriteLog(t) PROVE PmInv'
<1>1. PICK part, next : Use(t, part, next) /\ part # "none"
  BY DEF WriteLog, WriteError, WriteInfo, Flush
<1>2. UNCHANGED <<main, registry, loggerName_, naming, bDirExists, watching>>
  BY <1>1 DEF Use
<1>3. line[t] # "none" /\ main # "init"
  BY <1>1 DEF Use, PmInv
<1>4. crashed' => ~bDirExists' \/ torn' \/ main' \in {"release", "ended"}
  <2> SUFFICES ASSUME crashed', bDirExists, main \notin {"release", "ended"}, ~torn'
               PROVE  FALSE
    BY <1>2
  <2>1. ~(naming /\ t # "main")
    BY <1>1 DEF Use
  <2>2. loggerName_ \in registry
    BY <1>3 DEF PmInv, AtConsole, AtFile
  <2>3. loggerName_ # "none"
    BY <1>3 DEF PmInv, AtConsole, AtFile
  <2>4. Lookup(t) = {loggerName_}
    BY <2>1, <2>2 DEF Lookup
  <2> QED
    BY <1>1, <2>3, <2>4 DEF Use
<1> QED
  BY <1>2, <1>3, <1>4 DEF PmInv

\* Every step of the package manager keeps its invariant.
LEMMA StepPm == PmInv /\ PmNext => PmInv'
<1> SUFFICES ASSUME PmInv, PmNext PROVE PmInv'
  OBVIOUS
<1> USE DEF PmInv, AtConsole, AtFile, Main, NoLine, UnchangedNames
<1>1. CASE InitLogger
  BY <1>1 DEF InitLogger
<1>2. CASE CheckArguments
  BY <1>2 DEF CheckArguments
<1>3. CASE ConstructDaemon \/ Option \/ ReadConfig
  BY <1>3 DEF ConstructDaemon, Option, ReadConfig
<1>4. CASE WatchConfig \/ SetConfiguredLevel
  BY <1>4 DEF WatchConfig, SetConfiguredLevel
<1>5. CASE InitFileLogging
  <2>1. CASE DropOldFile \/ FindDirectory
    BY <1>5, <2>1 DEF DropOldFile, FindDirectory
  <2>2. CASE RegisterFile
    BY <1>5, <2>2 DEF RegisterFile
  <2>3. CASE BeginNaming \/ EndNaming
    BY <1>5, <2>3 DEF BeginNaming, EndNaming
  <2>4. CASE InitGlobalLogErrorHandler \/ InitMessagePattern
    <3>1. crashed' <=> loggerName_ \notin registry
      BY <2>4, Zenon DEF InitGlobalLogErrorHandler, InitMessagePattern, Configure
    <3>2. /\ UNCHANGED <<registry, loggerName_, naming, bDirExists>>
          /\ \/ main = "handler" /\ main' = "pattern"
             \/ main = "pattern" /\ main' = "task"
      BY <2>4 DEF InitGlobalLogErrorHandler, InitMessagePattern, Configure
    <3> QED
      BY <3>1, <3>2
  <2> QED
    BY <1>5, <2>1, <2>2, <2>3, <2>4 DEF InitFileLogging
<1>6. CASE StartTask \/ TaskEnds \/ ReleaseLogger
  BY <1>6 DEF StartTask, TaskEnds, ReleaseLogger
<1>7. ASSUME NEW t \in Threads, WriteLog(t)
      PROVE  PmInv'
  BY <1>7, WritePm
<1>8. ASSUME NEW t \in Threads, OtherLogs(t)
      PROVE  PmInv'
  BY <1>8 DEF OtherLogs
<1> QED
  BY <1>1, <1>2, <1>3, <1>4, <1>5, <1>6, <1>7, <1>8 DEF PmNext, MainStep

-------------------------------------------------------------------------------
(* The client *)

\* There is a logger while setLogConfig() does not replace it and has not failed to.
CmInv ==
  /\ step \in {"none", "exists", "flush", "make"}
  /\ mutex_ = "free" <=> step = "none"
  /\ instance = "constructed" /\ rotLog = None => step = "make" \/ failed = "logger"
  /\ dereferenced => failed = "logger"
  /\ lost \in BOOLEAN

\* At first there is no logger, and no instance that would need one.
LEMMA InitCm == CmInit => CmInv
  BY DEF CmInit, CmInv

\* Every step of the client keeps its invariant.
LEMMA StepCm == CmInv /\ CmNext => CmInv'
<1> SUFFICES ASSUME CmInv, CmNext PROVE CmInv'
  OBVIOUS
<1> USE DEF CmInv, Live, Idle, At, UnchangedLogger, UnchangedLines, Return
<1>0. ASSUME CanMake, Make
      PROVE  rotLog' # None
  <2>1. rotLog'.size = maxFileSize_ /\ maxFileSize_ # 0
    BY <1>0 DEF CanMake, Make
  <2>2. None.size = 0
    BY DEF None
  <2> QED
    BY <2>1, <2>2
<1>1. CASE Construct
  BY <1>0, <1>1 DEF Construct
<1>2. CASE ConstructThrows
  BY <1>2 DEF ConstructThrows
<1>9. CASE Destroy
  <2>1. UNCHANGED <<lost, mutex_, step, failed>>
    BY <1>9 DEF Destroy
  <2>2. CASE rotLog = None
    <3>1. failed = "logger" /\ UNCHANGED <<instance, rotLog>>
      BY <1>9, <2>2 DEF Destroy
    <3> QED
      BY <2>1, <3>1
  <2>3. CASE rotLog # None
    <3>1. instance' = "destroyed" /\ UNCHANGED dereferenced
      BY <1>9, <2>3 DEF Destroy
    <3> QED
      BY <2>1, <3>1
  <2> QED
    BY <2>2, <2>3
<1>3. ASSUME NEW t \in Callers, LogLine(t) \/ SetLevel(t) \/ WriteLogLine(t)
      PROVE  CmInv'
  <2>1. UnchangedLogger
    BY <1>3 DEF LogLine, SetLevel, WriteLogLine
  <2>2. lost' = lost \/ lost' = (lost \/ rotLog = None)
    BY <1>3 DEF LogLine, SetLevel, WriteLogLine
  <2>3. lost' \in BOOLEAN
    BY <2>2, Zenon
  <2> QED
    BY <2>1, <2>3
<1>4. ASSUME NEW t \in Callers, SetLogConfig(t)
      PROVE  CmInv'
  <2>1. t # "free"
    BY CMLoggerAssumption
  <2>2. /\ mutex_' = t /\ step' = "exists" /\ step = "none"
        /\ UNCHANGED <<instance, rotLog, failed, dereferenced, lost>>
    BY <1>4 DEF SetLogConfig
  <2> QED
    BY <2>1, <2>2
<1>5. CASE CheckDirectory
  BY <1>5 DEF CheckDirectory
<1>6. CASE FlushAndDrop
  BY <1>6 DEF FlushAndDrop
<1>7. CASE MakeLogger
  BY <1>0, <1>7 DEF MakeLogger
<1>8. CASE DirectoryChanges
  BY <1>8 DEF DirectoryChanges
<1> QED
  BY <1>1, <1>2, <1>3, <1>4, <1>5, <1>6, <1>7, <1>8, <1>9 DEF CmNext

-------------------------------------------------------------------------------
(* Both *)

\* A step of one of the programs leaves the logger of the other alone.
LEMMA StepLoggers == PmInv /\ CmInv /\ [Next]_vars => (PmInv /\ CmInv)'
<1> SUFFICES ASSUME PmInv, CmInv, [Next]_vars PROVE PmInv' /\ CmInv'
  OBVIOUS
<1>1. ASSUME UNCHANGED pmVars PROVE PmInv'
  BY <1>1 DEF PmInv, pmVars
<1>2. ASSUME UNCHANGED cmVars PROVE CmInv'
  BY <1>2 DEF CmInv, cmVars
<1>3. CASE PmNext /\ UNCHANGED cmVars
  BY <1>2, <1>3, StepPm
<1>4. CASE CmNext /\ UNCHANGED pmVars
  BY <1>1, <1>4, StepCm
<1>5. CASE UNCHANGED vars
  BY <1>1, <1>2, <1>5 DEF vars
<1> QED
  BY <1>3, <1>4, <1>5 DEF Next

\* What is known of the loggers of both programs holds in every state.
THEOREM LoggersCorrect == Spec => [](PmInv /\ CmInv)
<1>1. Init => PmInv /\ CmInv
  BY InitPm, InitCm DEF Init
<1> QED
  BY <1>1, StepLoggers, PTL DEF Spec

\* Neither program uses a logger that is not there, but for the two failures, the race
\* for the name and the end of the package manager.
THEOREM LoggersAreFound == Spec => []LoggerIsFound
<1>1. PmInv /\ CmInv => LoggerIsFound
  BY DEF PmInv, CmInv, LoggerIsFound
<1> QED
  BY <1>1, LoggersCorrect, PTL

\* The lines of the task go to the file, and none of the client's is lost but while
\* its logger is replaced or after that has failed.
THEOREM LinesAreLogged == Spec => LinesReachTheLog
<1> DEFINE Reaches ==
      /\ main = "running" => \A t \in Threads : sink'[t] # sink[t] => sink'[t] = "file"
      /\ lost' # lost => step = "make" \/ failed = "logger"
<1>1. ASSUME PmInv, PmNext, main = "running", NEW t \in Threads, sink'[t] # sink[t]
      PROVE  sink'[t] = "file"
  <2>1. PICK u \in Threads : WriteLog(u)
    BY <1>1 DEF PmNext, MainStep, InitLogger, CheckArguments, ConstructDaemon, Option, ReadConfig,
         WatchConfig, SetConfiguredLevel, InitFileLogging, DropOldFile, FindDirectory,
         RegisterFile, BeginNaming, EndNaming, InitGlobalLogErrorHandler, InitMessagePattern,
         Configure, StartTask, TaskEnds, ReleaseLogger, Main, UnchangedNames, OtherLogs
  <2>2. PICK logger \in Lookup(u) : sink' = [sink EXCEPT ![u] = logger] /\ logger # "none"
    BY <1>1, <2>1 DEF WriteLog, WriteError, WriteInfo, Flush, Use
  <2>3. loggerName_ = "file" /\ ~naming
    BY <1>1 DEF PmInv, AtFile
  <2>4. logger = "file"
    BY <2>2, <2>3 DEF Lookup
  <2> QED
    BY <1>1, <2>2, <2>4
<1>2. ASSUME CmInv, CmNext, lost' # lost
      PROVE  step = "make" \/ failed = "logger"
  <2>1. PICK t \in Callers : WriteLogLine(t)
    <3>1. ASSUME NEW t \in Callers, LogLine(t) \/ SetLevel(t) \/ SetLogConfig(t)
          PROVE  UNCHANGED lost
      BY <3>1 DEF LogLine, SetLevel, SetLogConfig, UnchangedLines
    <3>2. ASSUME Construct \/ ConstructThrows \/ Destroy \/ DirectoryChanges
          PROVE  UNCHANGED lost
      BY <3>2 DEF Construct, ConstructThrows, Destroy, DirectoryChanges
    <3>3. ASSUME CheckDirectory \/ FlushAndDrop \/ MakeLogger
          PROVE  UNCHANGED lost
      BY <3>3 DEF CheckDirectory, FlushAndDrop, MakeLogger, UnchangedLines
    <3> QED
      BY <1>2, <3>1, <3>2, <3>3 DEF CmNext
  <2>2. instance = "constructed" /\ rotLog = None
    <3>1. lost' = (lost \/ rotLog = None) /\ instance = "constructed"
      BY <2>1 DEF WriteLogLine, Live
    <3>2. lost \in BOOLEAN /\ lost' # lost
      BY <1>2 DEF CmInv
    <3> QED
      BY <3>1, <3>2, Zenon
  <2> QED
    BY <1>2, <2>2 DEF CmInv
<1>3. PmInv /\ CmInv /\ [Next]_vars => [Reaches]_vars
  BY <1>1, <1>2 DEF Next, pmVars, cmVars
<1> QED
  BY <1>3, LoggersCorrect, PTL DEF Spec, LinesReachTheLog

-------------------------------------------------------------------------------
(* Types *)

\* The types are there at first.
LEMMA InitTypes == Init => TypeOK
<1>1. PmInit => PmTypeOK
  BY DEF PmInit, PmTypeOK
<1>2. CmInit => CmTypeOK
  <2>1. DefaultSize \in Nat /\ DefaultFiles \in Nat
    BY SMT DEF DefaultSize, DefaultFiles
  <2>2. None \in Loggers
    BY DEF None, Loggers
  <2> QED
    BY <2>1, <2>2 DEF CmInit, CmTypeOK
<1> QED
  BY <1>1, <1>2 DEF Init, TypeOK

\* Every part of a line keeps them: what is looked up is a logger or none.
LEMMA WritePmTypes == ASSUME PmTypeOK, NEW t \in Threads, WriteLog(t) PROVE PmTypeOK'
<1>1. PICK part, next : Use(t, part, next) /\ next \in {"info", "flush", "none"}
  BY DEF WriteLog, WriteError, WriteInfo, Flush
<1>2. UNCHANGED <<main, registry, loggerName_, naming, curSeverity_, loggerDir_, bDirExists,
                  watching>>
  BY <1>1 DEF Use
<1>3. torn' \in BOOLEAN
  <2>1. torn' = (torn \/ (naming /\ t # "main"))
    BY <1>1 DEF Use
  <2> QED
    BY <2>1, Zenon
<1>4. \A logger \in Lookup(t) : logger \in Names \cup {"none"}
  BY DEF Lookup, PmTypeOK
<1>5. /\ line' \in [Threads -> {"none", "error", "info", "flush"}]
      /\ sink' \in [Threads -> Names \cup {"none"}] /\ crashed' \in BOOLEAN
  BY <1>1, <1>4 DEF Use, PmTypeOK
<1> QED
  BY <1>2, <1>3, <1>5 DEF PmTypeOK

\* So does every other step of the package manager.
LEMMA StepPmTypes == PmTypeOK /\ PmNext => PmTypeOK'
<1> SUFFICES ASSUME PmTypeOK, PmNext PROVE PmTypeOK'
  OBVIOUS
<1> USE DEF PmTypeOK, Main, NoLine, UnchangedNames
<1>1. \A t \in Threads : \A severity : Log(t, severity) \/ LogUnconvertible(t, severity) =>
        line' \in [Threads -> {"none", "error", "info", "flush"}]
  BY DEF Log, LogUnconvertible
<1>2. MainLogs => line' \in [Threads -> {"none", "error", "info", "flush"}]
  BY <1>1 DEF MainLogs, Threads
<1>3. \A t \in Threads : SetLogLevel(t) =>
        /\ line' \in [Threads -> {"none", "error", "info", "flush"}]
        /\ curSeverity_' \in Levels \cup {7}
  BY DEF SetLogLevel
<1>4. CASE InitLogger
  BY <1>4 DEF InitLogger, Names
<1>5. CASE CheckArguments \/ ReadConfig
  BY <1>2, <1>5 DEF CheckArguments, ReadConfig
<1>6. CASE ConstructDaemon \/ Option
  <2>1. loggerDir_' \in BOOLEAN /\ MainLogs
    BY <1>6 DEF ConstructDaemon, Option, SetLoggerDir
  <2> QED
    BY <1>2, <1>6, <2>1 DEF ConstructDaemon, Option
<1>7. CASE WatchConfig \/ SetConfiguredLevel
  BY <1>3, <1>7 DEF WatchConfig, SetConfiguredLevel, Threads
<1>8. CASE DropOldFile \/ FindDirectory
  <2>1. Log("main", curSeverity_) => line' \in [Threads -> {"none", "error", "info", "flush"}]
    BY <1>1 DEF Threads
  <2>2. bDirExists' \in BOOLEAN
    BY <1>8, Zenon DEF DropOldFile, FindDirectory
  <2>3. line' \in [Threads -> {"none", "error", "info", "flush"}]
    BY <1>8, <2>1, Zenon DEF DropOldFile, FindDirectory
  <2> HIDE DEF PmTypeOK
  <2>4. registry' \subseteq Names
    BY <1>8 DEF DropOldFile, FindDirectory, PmTypeOK
  <2>5. main' \in {"directory", "register"}
    BY <1>8 DEF DropOldFile, FindDirectory
  <2>6. UNCHANGED <<loggerName_, naming, curSeverity_, loggerDir_, watching, sink, torn, crashed>>
    BY <1>8 DEF DropOldFile, FindDirectory
  <2> QED
    BY <2>2, <2>3, <2>4, <2>5, <2>6 DEF PmTypeOK
<1>9. CASE RegisterFile
  <2>1. registry' \subseteq Names /\ watching' \in BOOLEAN
    BY <1>9 DEF RegisterFile, Names
  <2>2. line' \in [Threads -> {"none", "error", "info", "flush"}]
    BY <1>1, <1>9 DEF RegisterFile, Threads
  <2> QED
    BY <1>9, <2>1, <2>2 DEF RegisterFile
<1>10. CASE BeginNaming \/ EndNaming
  <2>1. naming' \in BOOLEAN /\ main' \in {"named", "handler"}
    BY <1>10 DEF BeginNaming, EndNaming
  <2>2. loggerName_' \in Names \cup {Unnamed}
    BY <1>10 DEF BeginNaming, EndNaming, Names
  <2>3. UNCHANGED <<line, registry, curSeverity_, loggerDir_, bDirExists, watching, sink, torn,
                    crashed>>
    BY <1>10 DEF BeginNaming, EndNaming
  <2> QED
    BY <2>1, <2>2, <2>3
<1>11. CASE InitGlobalLogErrorHandler \/ InitMessagePattern
  <2>1. crashed' \in BOOLEAN
    BY <1>11, Zenon DEF InitGlobalLogErrorHandler, InitMessagePattern, Configure
  <2>2. main' \in {"pattern", "task"}
    BY <1>11 DEF InitGlobalLogErrorHandler, InitMessagePattern, Configure
  <2>3. UNCHANGED <<line, registry, loggerName_, naming, curSeverity_, loggerDir_, bDirExists,
                    watching, sink, torn>>
    BY <1>11 DEF InitGlobalLogErrorHandler, InitMessagePattern, Configure
  <2> QED
    BY <2>1, <2>2, <2>3
<1>12. CASE StartTask \/ TaskEnds
  <2>1. watching' \in BOOLEAN
    BY <1>12, Zenon DEF StartTask, TaskEnds
  <2>2. main' \in {"running", "release"}
    BY <1>12 DEF StartTask, TaskEnds
  <2>3. UNCHANGED <<line, registry, loggerName_, naming, curSeverity_, loggerDir_, bDirExists,
                    sink, torn, crashed>>
    BY <1>12 DEF StartTask, TaskEnds
  <2> QED
    BY <2>1, <2>2, <2>3
<1>13. CASE ReleaseLogger
  <2>1. crashed' \in BOOLEAN
    BY <1>13, Zenon DEF ReleaseLogger
  <2>2. main' = "ended" /\ registry' \subseteq Names
    BY <1>13 DEF ReleaseLogger
  <2>3. UNCHANGED <<line, loggerName_, naming, curSeverity_, loggerDir_, bDirExists, watching,
                    sink, torn>>
    BY <1>13 DEF ReleaseLogger
  <2> QED
    BY <2>1, <2>2, <2>3
<1>14. ASSUME NEW t \in Threads, WriteLog(t)
       PROVE  PmTypeOK'
  <2> HIDE DEF PmTypeOK
  <2> QED
    BY <1>14, WritePmTypes
<1>15. ASSUME NEW t \in Threads, OtherLogs(t)
       PROVE  PmTypeOK'
  <2>1. /\ line' \in [Threads -> {"none", "error", "info", "flush"}]
        /\ curSeverity_' \in Levels \cup {7}
    BY <1>1, <1>3, <1>15 DEF OtherLogs
  <2> QED
    BY <1>15, <2>1 DEF OtherLogs
<1> QED
  BY <1>4, <1>5, <1>6, <1>7, <1>8, <1>9, <1>10, <1>11, <1>12, <1>13, <1>14, <1>15
  DEF PmNext, MainStep, InitFileLogging

\* The client's settings and its logger stay numbers, whatever setLogConfig() is
\* called with: of no files at all it makes the largest number of them.
LEMMA StepCmTypes == CmTypeOK /\ CmNext => CmTypeOK'
<1> SUFFICES ASSUME CmTypeOK, CmNext PROVE CmTypeOK'
  OBVIOUS
<1> USE DEF CmTypeOK, Live, Idle, At, UnchangedLogger, UnchangedLines, Return, Settings
<1>1. None \in Loggers
  BY DEF None, Loggers
<1>2. Make => rotLog' \in Loggers
  <2>1. Files(maxLogFiles_) \in Nat
    BY CMLoggerAssumption DEF Files
  <2> QED
    BY <2>1 DEF Make, Loggers
<1>3. CASE Construct
  BY <1>2, <1>3 DEF Construct
<1>4. CASE ConstructThrows \/ DirectoryChanges
  <2>1. parentExists' \in BOOLEAN
    BY <1>4, Zenon DEF ConstructThrows, DirectoryChanges
  <2>2. instance' \in {"none", "constructed", "destroyed"}
    BY <1>4 DEF ConstructThrows, DirectoryChanges
  <2>3. UNCHANGED <<rotLog, logLevel_, maxFileSize_, maxLogFiles_, mutex_, step, writing, lost,
                    failed, dereferenced>>
    BY <1>4 DEF ConstructThrows, DirectoryChanges
  <2> QED
    BY <2>1, <2>2, <2>3
<1>5. CASE Destroy
  <2>1. /\ instance' \in {"constructed", "destroyed"} /\ rotLog' \in Loggers
        /\ dereferenced' \in BOOLEAN
    BY <1>1, <1>5 DEF Destroy
  <2> QED
    BY <1>5, <2>1 DEF Destroy
<1>6. ASSUME NEW t \in Callers, LogLine(t) \/ SetLevel(t)
      PROVE  CmTypeOK'
  BY <1>6 DEF LogLine, SetLevel
<1>7. ASSUME NEW t \in Callers, WriteLogLine(t)
      PROVE  CmTypeOK'
  <2>1. lost' \in BOOLEAN
    BY <1>7, Zenon DEF WriteLogLine
  <2>2. writing' \subseteq Callers
    BY <1>7 DEF WriteLogLine
  <2> QED
    BY <1>7, <2>1, <2>2 DEF WriteLogLine
<1>8. ASSUME NEW t \in Callers, SetLogConfig(t)
      PROVE  CmTypeOK'
  <2>1. maxFileSize_' \in Nat /\ maxLogFiles_' \in Nat
    BY <1>8, CMLoggerAssumption DEF SetLogConfig
  <2> QED
    BY <1>8, <2>1 DEF SetLogConfig
<1>9. CASE CheckDirectory \/ FlushAndDrop
  <2>1. dereferenced' \in BOOLEAN
    BY <1>9, Zenon DEF CheckDirectory, FlushAndDrop
  <2>2. /\ rotLog' \in Loggers /\ mutex_' \in Callers \cup {"free"}
        /\ step' \in {"none", "exists", "flush", "make"}
        /\ failed' \in {"nothing", "settings", "logger"}
    BY <1>1, <1>9 DEF CheckDirectory, FlushAndDrop
  <2>3. UNCHANGED <<instance, parentExists, logLevel_, maxFileSize_, maxLogFiles_, writing, lost>>
    BY <1>9 DEF CheckDirectory, FlushAndDrop
  <2> QED
    BY <2>1, <2>2, <2>3
<1>10. CASE MakeLogger
  BY <1>2, <1>10 DEF MakeLogger
<1> QED
  BY <1>3, <1>4, <1>5, <1>6, <1>7, <1>8, <1>9, <1>10 DEF CmNext

\* Whatever the two programs log, and however setLogConfig() is called, every
\* variable of both loggers has its type.
THEOREM LoggersTypeOK == Spec => []TypeOK
<1>1. TypeOK /\ [Next]_vars => TypeOK'
  <2> SUFFICES ASSUME TypeOK, [Next]_vars PROVE TypeOK'
    OBVIOUS
  <2>1. UNCHANGED pmVars => PmTypeOK'
    BY DEF TypeOK, PmTypeOK, pmVars
  <2>2. UNCHANGED cmVars => CmTypeOK'
    BY DEF TypeOK, CmTypeOK, cmVars
  <2>3. CASE PmNext /\ UNCHANGED <<process, cmVars>>
    BY <2>2, <2>3, StepPmTypes DEF TypeOK
  <2>4. CASE CmNext /\ UNCHANGED <<process, pmVars>>
    BY <2>1, <2>4, StepCmTypes DEF TypeOK
  <2>5. CASE UNCHANGED vars
    BY <2>1, <2>2, <2>5 DEF vars, TypeOK
  <2> QED
    BY <2>3, <2>4, <2>5 DEF Next
<1> QED
  BY <1>1, InitTypes, PTL DEF Spec
===============================================================================
