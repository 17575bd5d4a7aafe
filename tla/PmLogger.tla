------------------------------- MODULE PmLogger --------------------------------
(***************************************************************************)
(* The log of the package manager: PmLogger over spdlog's registry of      *)
(* named loggers, and the start of the program up to the task that runs    *)
(* the package manager library (main() and Daemon).                        *)
(*                                                                         *)
(* Every line looks up loggerName_ in the registry anew, and again to      *)
(* flush it.  main() changes that name once, when the log file is opened,  *)
(* while the file watcher may make another thread log.                     *)
(***************************************************************************)
EXTENDS Naturals

CONSTANTS
  Levels,  \* severities, of lines and of the log, a subset of 1..7
  PmFaults \* what may fail: "directory", to create one, and "file", to open one

ASSUME PmLoggerAssumption == Levels \subseteq 1..7 /\ PmFaults \subseteq {"directory", "file"}

Names == {"console", "file"}
Threads == {"main", "watcher", "task"}

\* loggerName_ before a logger was made.
Unnamed == ""

VARIABLES
  main,         \* where main() is
  registry,     \* spdlog's loggers, by name
  loggerName_,
  naming,       \* loggerName_ is being replaced
  curSeverity_,
  loggerDir_,   \* the directory for logs: there is one, or "" was left
  bDirExists,   \* initFileLogging() has found or made it
  watching,     \* the file watcher calls back
  line,         \* the line each thread writes: "none", "error", "info", "flush"
  sink,         \* where its last line went
  torn,         \* a thread has read loggerName_ while it was replaced
  crashed       \* a logger was used that is not registered

pmVars == <<main, registry, loggerName_, naming, curSeverity_, loggerDir_, bDirExists,
            watching, line, sink, torn, crashed>>

PmTypeOK ==
  /\ main \in {"init", "arguments", "refused", "daemon", "options", "config", "level", "drop",
               "directory", "register", "name", "named", "handler", "pattern", "task",
               "running", "release", "ended"}
  /\ registry \subseteq Names /\ loggerName_ \in Names \cup {Unnamed} /\ naming \in BOOLEAN
  /\ curSeverity_ \in Levels \cup {7}
  /\ loggerDir_ \in BOOLEAN /\ bDirExists \in BOOLEAN /\ watching \in BOOLEAN
  /\ line \in [Threads -> {"none", "error", "info", "flush"}]
  /\ sink \in [Threads -> Names \cup {"none"}]
  /\ torn \in BOOLEAN /\ crashed \in BOOLEAN

PmInit ==
  /\ main = "init" /\ registry = {} /\ loggerName_ = Unnamed /\ naming = FALSE
  /\ curSeverity_ = 7 /\ loggerDir_ = FALSE /\ bDirExists = TRUE /\ watching = FALSE
  /\ line = [t \in Threads |-> "none"] /\ sink = [t \in Threads |-> "none"]
  /\ torn = FALSE /\ crashed = FALSE

-------------------------------------------------------------------------------
(* A line *)

\* Log() writes a line unless its severity is beyond the log's.
Log(t, severity) ==
  line' = IF severity > curSeverity_ THEN line ELSE [line EXCEPT ![t] = "info"]

\* Log() of wide characters may find that it cannot convert them; it writes a line
\* about that first.
LogUnconvertible(t, severity) ==
  line' = IF severity > curSeverity_ THEN line ELSE [line EXCEPT ![t] = "error"]

\* What spdlog::get(loggerName_) may find on thread t.  A name read while it is
\* replaced is any name.
Lookup(t) ==
  IF naming /\ t # "main" THEN registry \cup {"none"}
  ELSE IF loggerName_ \in registry THEN {loggerName_} ELSE {"none"}

\* A part of writeLog(): the logger is looked up and used without a look at what
\* was found.
Use(t, part, next) ==
  /\ line[t] = part /\ ~crashed
  /\ torn' = (torn \/ (naming /\ t # "main"))
  /\ \E logger \in Lookup(t) :
       IF logger = "none" THEN crashed' = TRUE /\ UNCHANGED <<line, sink>>
       ELSE /\ line' = [line EXCEPT ![t] = next]
            /\ sink' = [sink EXCEPT ![t] = logger]
            /\ UNCHANGED crashed
  /\ UNCHANGED <<main, registry, loggerName_, naming, curSeverity_, loggerDir_, bDirExists,
                 watching>>

WriteError(t) == Use(t, "error", "info")
WriteInfo(t) == Use(t, "info", "flush")
Flush(t) == Use(t, "flush", "none")

WriteLog(t) == WriteError(t) \/ WriteInfo(t) \/ Flush(t)

\* SetLogLevel() refuses a level that is none; it logs either.
SetLogLevel(t) ==
  /\ \E level \in Levels : curSeverity_' \in {level, curSeverity_}
  /\ line' = [line EXCEPT ![t] = "info"]

\* The watcher reports a change, and the configuration is read and its level set, or
\* a call of the library is under way.
OtherLogs(t) ==
  /\ (t = "watcher" /\ watching) \/ (t = "task" /\ main = "running")
  /\ line[t] = "none" /\ ~crashed
  /\ \/ /\ \E severity \in Levels : Log(t, severity) \/ LogUnconvertible(t, severity)
        /\ UNCHANGED curSeverity_
     \/ t = "watcher" /\ SetLogLevel(t)
  /\ UNCHANGED <<main, registry, loggerName_, naming, loggerDir_, bDirExists, watching, sink,
                 torn, crashed>>

-------------------------------------------------------------------------------
(* main() *)

\* A step of main(), once the line it has logged before is written.
Main(here, there) == main = here /\ main' = there /\ line["main"] = "none" /\ ~crashed

\* The line main() logs next.
MainLogs == \E severity \in Levels : Log("main", severity)
NoLine == UNCHANGED line

UnchangedNames == UNCHANGED <<registry, loggerName_, naming, sink, torn, crashed>>

\* initLogger() makes the logger of the console.
InitLogger ==
  /\ Main("init", "arguments")
  /\ registry' = registry \cup {"console"} /\ loggerName_' = "console"
  /\ NoLine
  /\ UNCHANGED <<naming, curSeverity_, loggerDir_, bDirExists, watching, sink, torn, crashed>>

\* Too few arguments end the program as it is.
CheckArguments ==
  /\ Main("arguments", "daemon") \/ Main("arguments", "refused")
  /\ MainLogs
  /\ UNCHANGED <<curSeverity_, loggerDir_, bDirExists, watching>> /\ UnchangedNames

\* setLoggerDir() makes the directory if it has to; if this throws, the directory
\* stays what it was.
SetLoggerDir ==
  /\ \/ loggerDir_' = TRUE
     \/ "directory" \in PmFaults /\ UNCHANGED loggerDir_
  /\ MainLogs

\* The constructor of Daemon.
ConstructDaemon ==
  /\ Main("daemon", "options")
  /\ SetLoggerDir
  /\ UNCHANGED <<curSeverity_, bDirExists, watching>> /\ UnchangedNames

\* --log-dir, and --config-file and --bootstrap, which change nothing here.
Option ==
  /\ Main("options", "options")
  /\ SetLoggerDir \/ (MainLogs /\ UNCHANGED loggerDir_)
  /\ UNCHANGED <<curSeverity_, bDirExists, watching>> /\ UnchangedNames

\* start() reads the configuration and on macOS watches it from then on.
ReadConfig ==
  /\ Main("options", "config")
  /\ MainLogs
  /\ UNCHANGED <<curSeverity_, loggerDir_, bDirExists, watching>> /\ UnchangedNames

WatchConfig ==
  /\ Main("config", "level")
  /\ watching' \in BOOLEAN
  /\ NoLine
  /\ UNCHANGED <<curSeverity_, loggerDir_, bDirExists>> /\ UnchangedNames

SetConfiguredLevel ==
  /\ Main("level", "drop")
  /\ SetLogLevel("main")
  /\ UNCHANGED <<loggerDir_, bDirExists, watching>> /\ UnchangedNames

-------------------------------------------------------------------------------
(* initFileLogging() *)

DropOldFile ==
  /\ Main("drop", "directory")
  /\ registry' = IF loggerName_ = "console" THEN registry ELSE registry \ {loggerName_}
  /\ NoLine
  /\ UNCHANGED <<loggerName_, naming, curSeverity_, loggerDir_, bDirExists, watching, sink,
                 torn, crashed>>

\* The directory may be gone again.  That it could not be made is logged.
FindDirectory ==
  /\ Main("directory", "register")
  /\ \/ loggerDir_ /\ bDirExists' = TRUE /\ NoLine
     \/ "directory" \in PmFaults /\ bDirExists' = FALSE /\ Log("main", curSeverity_)
  /\ UNCHANGED <<curSeverity_, loggerDir_, watching>> /\ UnchangedNames

\* Without a directory a logger is made that nobody can look up.  That the file
\* cannot be opened is thrown at main(), which ends the program.
RegisterFile ==
  /\ \/ /\ bDirExists /\ Main("register", "name")
        /\ registry' = registry \cup {"file"} /\ NoLine /\ UNCHANGED watching
     \/ /\ bDirExists /\ "file" \in PmFaults /\ Main("register", "release")
        /\ watching' = FALSE /\ NoLine /\ UNCHANGED registry
     \/ /\ ~bDirExists /\ Main("register", "name")
        /\ Log("main", curSeverity_) /\ UNCHANGED <<registry, watching>>
  /\ UNCHANGED <<loggerName_, naming, curSeverity_, loggerDir_, bDirExists, sink, torn, crashed>>

\* loggerName_ = logFileName, which other threads may see half done.
BeginNaming ==
  /\ Main("name", "named")
  /\ naming' = TRUE
  /\ NoLine
  /\ UNCHANGED <<registry, loggerName_, curSeverity_, loggerDir_, bDirExists, watching, sink,
                 torn, crashed>>

\* Mutant: loggerName_ is left as it was.
KeepName ==
  /\ Main("named", "handler")
  /\ naming' = FALSE
  /\ NoLine
  /\ UNCHANGED <<registry, loggerName_, curSeverity_, loggerDir_, bDirExists, watching, sink,
                 torn, crashed>>

EndNaming ==
  /\ Main("named", "handler")
  /\ naming' = FALSE /\ loggerName_' = "file"
  /\ NoLine
  /\ UNCHANGED <<registry, curSeverity_, loggerDir_, bDirExists, watching, sink, torn, crashed>>

\* initGlobalLogErrorHandler() and initMessagePattern() use what they look up.
Configure(here, there) ==
  /\ Main(here, there)
  /\ crashed' = (loggerName_ \notin registry)
  /\ NoLine
  /\ UNCHANGED <<registry, loggerName_, naming, curSeverity_, loggerDir_, bDirExists, watching,
                 sink, torn>>

InitGlobalLogErrorHandler == Configure("handler", "pattern")
InitMessagePattern == Configure("pattern", "task")

InitFileLogging ==
  \/ DropOldFile \/ FindDirectory \/ RegisterFile
  \/ BeginNaming \/ EndNaming
  \/ InitGlobalLogErrorHandler \/ InitMessagePattern

-------------------------------------------------------------------------------
(* The task, and the end *)

StartTask ==
  /\ Main("task", "running")
  /\ NoLine
  /\ UNCHANGED <<curSeverity_, loggerDir_, bDirExists, watching>> /\ UnchangedNames

\* isRunning_ is never reset: the task ends only by an exception, which it logs.
\* start() has waited for it and the Daemon is destroyed, and with it the watcher.
TaskEnds ==
  /\ Main("running", "release") /\ line["task"] = "none"
  /\ watching' = FALSE
  /\ NoLine
  /\ UNCHANGED <<curSeverity_, loggerDir_, bDirExists>> /\ UnchangedNames

\* releaseLogger(): the destructor drops the logger, and the console's, which it
\* expects to be there.
ReleaseLogger ==
  /\ Main("release", "ended")
  /\ registry' = registry \ {loggerName_, "console"}
  /\ crashed' = (loggerName_ # "console" /\ "console" \notin registry)
  /\ NoLine
  /\ UNCHANGED <<loggerName_, naming, curSeverity_, loggerDir_, bDirExists, watching, sink, torn>>

MainStep ==
  \/ InitLogger \/ CheckArguments \/ ConstructDaemon \/ Option
  \/ ReadConfig \/ WatchConfig \/ SetConfiguredLevel
  \/ InitFileLogging
  \/ StartTask \/ TaskEnds \/ ReleaseLogger

PmNext ==
  \/ MainStep
  \/ \E t \in Threads : WriteLog(t) \/ OtherLogs(t)
===============================================================================
