------------------------------- MODULE CMLogger --------------------------------
(***************************************************************************)
(* CMLogger: the log of the client, one rotating logger in spdlog's        *)
(* registry.  setLogConfig() replaces that logger under a mutex which no   *)
(* thread that writes a line takes.                                        *)
(***************************************************************************)
EXTENDS Naturals

CONSTANTS
  Callers,   \* threads
  LogLevels, \* severities, a subset of 1..7
  FileSizes, \* sizes setLogConfig() is called with
  FileCounts,\* and numbers of files
  MaxUint    \* the largest uint32_t

DefaultSize == 52428800
DefaultFiles == 10

\* spdlog takes no more files than this for one logger.
MaxRotated == 200000

ASSUME CMLoggerAssumption ==
  /\ "free" \notin Callers /\ LogLevels \subseteq 1..7
  /\ MaxUint \in Nat /\ MaxUint > MaxRotated
  /\ FileSizes \subseteq 0..MaxUint /\ FileCounts \subseteq 0..MaxUint

VARIABLES
  instance,      \* "none", "constructed", "destroyed"
  parentExists,  \* the directory of the log file is there
  rotLog,        \* the registered logger: its size and number of files, or none
  logLevel_, maxFileSize_, maxLogFiles_,
  mutex_,        \* the thread in setLogConfig(), or "free"
  step,          \* where that is: "exists", "flush", "make"
  writing,       \* the threads that have a line to write
  lost,          \* a line has been dropped for want of a logger
  failed,        \* what setLogConfig() has left undone: "nothing", "settings", "logger"
  dereferenced   \* a logger was used that is not there

cmVars == <<instance, parentExists, rotLog, logLevel_, maxFileSize_, maxLogFiles_, mutex_,
            step, writing, lost, failed, dereferenced>>

Loggers == [size : Nat, files : Nat]
None == [size |-> 0, files |-> 0]

CmTypeOK ==
  /\ instance \in {"none", "constructed", "destroyed"} /\ parentExists \in BOOLEAN
  /\ rotLog \in Loggers /\ logLevel_ \in LogLevels \cup {7}
  /\ maxFileSize_ \in Nat /\ maxLogFiles_ \in Nat
  /\ mutex_ \in Callers \cup {"free"} /\ step \in {"none", "exists", "flush", "make"}
  /\ writing \subseteq Callers /\ lost \in BOOLEAN
  /\ failed \in {"nothing", "settings", "logger"} /\ dereferenced \in BOOLEAN

CmInit ==
  /\ instance = "none" /\ parentExists \in BOOLEAN /\ rotLog = None
  /\ logLevel_ = 7 /\ maxFileSize_ = DefaultSize /\ maxLogFiles_ = DefaultFiles
  /\ mutex_ = "free" /\ step = "none" /\ writing = {} /\ lost = FALSE
  /\ failed = "nothing" /\ dereferenced = FALSE

Settings == <<logLevel_, maxFileSize_, maxLogFiles_>>

-------------------------------------------------------------------------------
(* The logger *)

\* Mutant: it is an int.
SignedFiles(n) == n - 1

\* The number of files the rotating logger is made with is a uint32_t.
Files(n) == IF n = 0 THEN MaxUint ELSE n - 1

\* What spdlog makes of the settings; it may fail to open the file, and it refuses a
\* size of nought and a number of files beyond its limit.
CanMake == maxFileSize_ > 0 /\ Files(maxLogFiles_) <= MaxRotated
Make == rotLog' = [size |-> maxFileSize_, files |-> Files(maxLogFiles_)]

\* getInstance() in initLogging(); a constructor that throws ends the program.
Construct ==
  /\ instance = "none"
  /\ instance' = "constructed" /\ parentExists' = TRUE /\ CanMake /\ Make
  /\ UNCHANGED <<Settings, mutex_, step, writing, lost, failed, dereferenced>>

ConstructThrows ==
  /\ instance = "none"
  /\ instance' = "destroyed" /\ parentExists' \in {parentExists, TRUE}
  /\ UNCHANGED <<rotLog, Settings, mutex_, step, writing, lost, failed, dereferenced>>

Live == instance = "constructed" /\ ~dereferenced

\* The destructor, when main() has returned.
Destroy ==
  /\ Live /\ mutex_ = "free" /\ writing = {}
  /\ IF rotLog = None THEN dereferenced' = TRUE /\ UNCHANGED <<instance, rotLog>>
     ELSE instance' = "destroyed" /\ rotLog' = None /\ UNCHANGED dereferenced
  /\ UNCHANGED <<parentExists, Settings, mutex_, step, writing, lost, failed>>

-------------------------------------------------------------------------------
(* Lines *)

Idle(t) == Live /\ mutex_ # t /\ t \notin writing

UnchangedLogger == UNCHANGED <<instance, parentExists, rotLog, mutex_, step, failed, dereferenced>>

\* Log() leaves out what is beyond the level.
LogLine(t) ==
  /\ Idle(t)
  /\ \E severity \in LogLevels :
       logLevel_ >= severity /\ writing' = writing \cup {t}
  /\ UNCHANGED <<Settings, lost>> /\ UnchangedLogger

\* SetLogLevel() logs at the level it has set, and refuses one that is none.
SetLevel(t) ==
  /\ Idle(t)
  /\ \/ /\ logLevel_' \in LogLevels \ {logLevel_}
        /\ writing' = IF logLevel_' = 7 THEN writing \cup {t} ELSE writing
     \/ /\ logLevel_ >= 3
        /\ writing' = writing \cup {t} /\ UNCHANGED logLevel_
  /\ UNCHANGED <<maxFileSize_, maxLogFiles_, lost>> /\ UnchangedLogger

\* writeLogLine() holds on to the logger it has found.
WriteLogLine(t) ==
  /\ Live /\ t \in writing
  /\ writing' = writing \ {t}
  /\ lost' = (lost \/ rotLog = None)
  /\ UNCHANGED Settings /\ UnchangedLogger

-------------------------------------------------------------------------------
(* setLogConfig() *)

UnchangedLines == UNCHANGED <<instance, logLevel_, writing, lost>>

SetLogConfig(t) ==
  /\ Idle(t) /\ mutex_ = "free"
  /\ mutex_' = t /\ step' = "exists"
  /\ maxFileSize_' \in FileSizes /\ maxLogFiles_' \in FileCounts
  /\ UNCHANGED <<parentExists, rotLog, failed, dereferenced>> /\ UnchangedLines

Return(what) ==
  /\ mutex_' = "free" /\ step' = "none"
  /\ failed' = IF failed = "logger" /\ what = "settings" THEN failed ELSE what

At(place) == Live /\ mutex_ # "free" /\ step = place

\* Without the directory it returns false; the settings stay.
CheckDirectory ==
  /\ At("exists")
  /\ IF parentExists THEN step' = "flush" /\ UNCHANGED <<mutex_, failed>>
     ELSE Return("settings")
  /\ UNCHANGED <<parentExists, rotLog, maxFileSize_, maxLogFiles_, dereferenced>> /\ UnchangedLines

FlushAndDrop ==
  /\ At("flush")
  /\ IF rotLog = None THEN dereferenced' = TRUE /\ UNCHANGED <<rotLog, step>>
     ELSE rotLog' = None /\ step' = "make" /\ UNCHANGED dereferenced
  /\ UNCHANGED <<parentExists, maxFileSize_, maxLogFiles_, mutex_, failed>> /\ UnchangedLines

\* Mutant: a logger that could not be made passes for one that was.
MakeUnchecked ==
  /\ At("make")
  /\ Return("nothing")
  /\ rotLog' = (IF CanMake THEN [size |-> maxFileSize_, files |-> Files(maxLogFiles_)] ELSE None)
  /\ UNCHANGED <<parentExists, maxFileSize_, maxLogFiles_, dereferenced>> /\ UnchangedLines

MakeLogger ==
  /\ At("make")
  /\ \/ CanMake /\ Make /\ Return("nothing")
     \/ Return("logger") /\ UNCHANGED rotLog
  /\ UNCHANGED <<parentExists, maxFileSize_, maxLogFiles_, dereferenced>> /\ UnchangedLines

\* The directory is removed or made by someone else.
DirectoryChanges ==
  /\ Live
  /\ parentExists' = ~parentExists
  /\ UNCHANGED <<instance, rotLog, Settings, mutex_, step, writing, lost, failed, dereferenced>>

CmNext ==
  \/ Construct \/ ConstructThrows \/ Destroy
  \/ \E t \in Callers : LogLine(t) \/ SetLevel(t) \/ WriteLogLine(t) \/ SetLogConfig(t)
  \/ CheckDirectory \/ FlushAndDrop \/ MakeLogger
  \/ DirectoryChanges
===============================================================================
