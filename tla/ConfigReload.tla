------------------------------ MODULE ConfigReload ----------------------------
(***************************************************************************)
(* How a change of cm_config.json reaches the log level and the crashpad   *)
(* settings on macOS: Config, ConfigWatchdog and FileWatcher, as the two   *)
(* services, the client and the package manager agent, put them together.  *)
(*                                                                         *)
(* Two threads: "main", which runs the constructor and start() of the      *)
(* Daemon, and "queue", the serial dispatch queue that FileWatcher gives   *)
(* its events.  Each runs a list of steps; "saw" and "got" are its locals. *)
(* A setting is abstracted to the version of the file that it came from:   *)
(* 0 is the default, -1 the level a logger has before any is set, and a    *)
(* negative pruneAge of version v is -v.                                   *)
(***************************************************************************)
EXTENDS Integers, Sequences

CONSTANTS
  Services,    \* which services to look at, of {"client", "agent"}
  Shapes,      \* what the file may be, of AllShapes
  MaxVersion   \* bound on the number of times the file is written

\* CrashKeys: pruneAge, pruneDbSize and uploadUrl, in the order they are parsed.
CrashKeys == 1..3

\* Whether the file has a valid level, which crashpad keys are valid, and the
\* sign of its pruneAge.  "scalar": JSON, but no object where one is expected.
AllShapes == [kind : {"absent", "garbage", "scalar", "object"},
              level : BOOLEAN, keys : SUBSET CrashKeys, age : {-1, 1}]

ASSUME ConfigAssumption ==
  /\ Services \subseteq {"client", "agent"}
  /\ Shapes \subseteq AllShapes
  /\ MaxVersion \in Nat \ {0}

VARIABLES
  service,      \* the service this is
  alive,        \* its process lives
  file,         \* cm_config.json: its shape and the version it was written as
  notice,       \* what the event stream has for the queue
  watching,     \* the event stream has been started
  subscribers,  \* of ConfigWatchdog
  level,        \* logLevel_
  crash,        \* crashpadConfig_, 0 for an empty optional
  logger,       \* the level the logger works with
  tuner,        \* the settings CrashpadTuner holds
  todo,         \* the steps a thread has still to take
  saw,          \* the file a thread has parsed
  got,          \* the level a thread has read out of Config
  turn          \* the subscriber being notified

config == <<level, crash>>
threads == <<saw, got, turn>>
vars == <<service, alive, file, notice, watching, subscribers, config, logger,
          tuner, todo, threads>>

Threads == {"main", "queue"}
Versions == 0..MaxVersion
Files == [shape : Shapes, version : Versions]

Steps == {"read", "parse", "fetch", "set", "crash", "subscribe", "watch", "notify"}

TypeOK ==
  /\ service \in Services
  /\ alive \in BOOLEAN
  /\ file \in Files
  /\ notice \in {"none", "changed", "dropped"}
  /\ watching \in BOOLEAN
  /\ subscribers \in Seq({"onConfigChanged", "configCallback"})
  /\ level \in Versions
  /\ crash \in [CrashKeys -> -MaxVersion..MaxVersion]
  /\ logger \in -1..MaxVersion
  /\ tuner \in [CrashKeys -> Versions]
  /\ todo \in [Threads -> Seq(Steps)]
  /\ saw \in [Threads -> Files]
  /\ got \in [Threads -> Versions]
  /\ turn \in Nat

-------------------------------------------------------------------------------
(* What the two services run *)

ApplyLoggerSettings == <<"fetch", "set">>

OnConfigChanged == <<"read", "parse">> \o ApplyLoggerSettings

ConfigCallback == ApplyLoggerSettings \o <<"crash">>

\* Mutant: the client applies its settings when the file is watched already.
ClientStartsWatchFirst ==
  OnConfigChanged \o <<"subscribe", "subscribe", "watch">> \o ConfigCallback

\* The client: the constructor of its Daemon, then start().
ClientStarts ==
  OnConfigChanged \o ConfigCallback \o <<"subscribe", "subscribe", "watch">>

\* The agent watches the file before anything is subscribed, and reads the
\* level once more while the queue may already be at work.
AgentStarts ==
  OnConfigChanged \o <<"watch", "subscribe">> \o ApplyLoggerSettings

\* Mutant: the crashpad settings are applied before Config is reloaded.
SubscribersInReverse ==
  IF service = "client" THEN <<"configCallback", "onConfigChanged">>
                        ELSE <<"onConfigChanged">>

\* What addSubscriber() is given, in the order of the calls.
SubscribersInOrder ==
  IF service = "client" THEN <<"onConfigChanged", "configCallback">>
                        ELSE <<"onConfigChanged">>

Body(subscriber) ==
  IF subscriber = "onConfigChanged" THEN OnConfigChanged ELSE ConfigCallback

Init ==
  /\ service \in Services
  /\ alive = TRUE
  /\ file \in [shape : Shapes, version : {1}]
  /\ notice = "none"
  /\ watching = FALSE
  /\ subscribers = << >>
  /\ level = 0
  /\ crash = [k \in CrashKeys |-> 0]
  /\ logger = -1
  /\ tuner = [k \in CrashKeys |-> 0]
  /\ todo = [t \in Threads |->
               IF t = "queue" THEN << >>
               ELSE IF service = "client" THEN ClientStarts ELSE AgentStarts]
  /\ saw = [t \in Threads |-> file]
  /\ got = [t \in Threads |-> 0]
  /\ turn = 1

-------------------------------------------------------------------------------
(* The steps of a thread *)

\* Thread t takes its next step, which is s, and goes on with the one after.
Takes(t, s) ==
  /\ alive
  /\ todo[t] # << >> /\ Head(todo[t]) = s
  /\ todo' = [todo EXCEPT ![t] = Tail(@)]

\* reload() and readConfig(): a file that is missing or does not parse ends
\* onConfigChanged() with nothing changed.
Read(t) ==
  /\ alive
  /\ todo[t] # << >> /\ Head(todo[t]) = "read"
  /\ IF file.shape.kind \in {"absent", "garbage"}
     THEN /\ todo' = [todo EXCEPT ![t] = SubSeq(@, Len(OnConfigChanged) + 1, Len(@))]
          /\ UNCHANGED saw
     ELSE /\ todo' = [todo EXCEPT ![t] = Tail(@)]
          /\ saw' = [saw EXCEPT ![t] = file]
  /\ UNCHANGED <<service, alive, file, notice, watching, subscribers, config,
                 logger, tuner, got, turn>>

\* parseLogLevel(): a level that is missing or not in 1..7 keeps the old one.
ParsedLevel(f) == IF f.shape.level THEN f.version ELSE level

\* The value of key k in file f.
CrashValue(f, k) == IF k = 1 THEN f.shape.age * f.version ELSE f.version

\* parseCrashPadSettings(): the first key that is missing or invalid ends it.
ParsedCrash(f) ==
  [k \in CrashKeys |-> IF 1..k \subseteq f.shape.keys THEN CrashValue(f, k)
                                                      ELSE crash[k]]

\* isMember() on what is no object throws.  The constructor's caller, main(),
\* ends the service then, and on the queue nothing catches it.
Parse(t) ==
  /\ Takes(t, "parse")
  /\ IF saw[t].shape.kind = "scalar"
     THEN alive' = FALSE /\ UNCHANGED config
     ELSE /\ level' = ParsedLevel(saw[t])
          /\ crash' = ParsedCrash(saw[t])
          /\ UNCHANGED alive
  /\ UNCHANGED <<service, file, notice, watching, subscribers, logger, tuner,
                 threads>>

\* Mutant: a level is passed on before there is one.
FetchUninitialised(t) ==
  /\ Takes(t, "fetch")
  /\ got' = [got EXCEPT ![t] = logger]
  /\ UNCHANGED <<service, alive, file, notice, watching, subscribers, config,
                 logger, tuner, saw, turn>>

\* getLogLevel(), as an argument of SetLogLevel().
Fetch(t) ==
  /\ Takes(t, "fetch")
  /\ got' = [got EXCEPT ![t] = level]
  /\ UNCHANGED <<service, alive, file, notice, watching, subscribers, config,
                 logger, tuner, saw, turn>>

\* SetLogLevel() of the logger.  It takes 1..7, all that Config can hold.
SetLogLevel(t) ==
  /\ Takes(t, "set")
  /\ logger' = got[t]
  /\ UNCHANGED <<service, alive, file, notice, watching, subscribers, config,
                 tuner, threads>>

\* applyCrashpadSettings(): options without a value are left alone, and a
\* negative pruneAge, as an unsigned number, is too large for setPruneAge().
ApplyCrashpadSettings(t) ==
  /\ Takes(t, "crash")
  /\ tuner' = [k \in CrashKeys |-> IF crash[k] > 0 THEN crash[k] ELSE tuner[k]]
  /\ UNCHANGED <<service, alive, file, notice, watching, subscribers, config,
                 logger, threads>>

AddSubscriber ==
  /\ Takes("main", "subscribe")
  /\ subscribers' = Append(subscribers, SubscribersInOrder[Len(subscribers) + 1])
  /\ UNCHANGED <<service, alive, file, notice, watching, config, logger, tuner,
                 threads>>

\* FileWatcher::add(): the stream tells of changes from now on.
Watch ==
  /\ Takes("main", "watch")
  /\ watching' = TRUE
  /\ UNCHANGED <<service, alive, file, notice, subscribers, config, logger,
                 tuner, threads>>

\* CallbackFunction() with a modifying event: detectedConfigChanges().
Deliver ==
  /\ alive
  /\ notice = "changed" /\ todo["queue"] = << >>
  /\ notice' = "none"
  /\ turn' = 1
  /\ todo' = [todo EXCEPT !["queue"] = <<"notify">>]
  /\ UNCHANGED <<service, alive, file, watching, subscribers, config, logger,
                 tuner, saw, got>>

\* Mutant: only the first subscriber is notified.
NotifyOne ==
  /\ Takes("queue", "notify")
  /\ turn <= Len(subscribers)
  /\ todo' = [todo EXCEPT !["queue"] = Body(subscribers[turn])]
  /\ UNCHANGED <<service, alive, file, notice, watching, subscribers, config,
                 logger, tuner, threads>>

\* One round of the loop of notify_subscribers(): the list is not locked, so
\* each round sees it with or without what main adds meanwhile.
Notify ==
  /\ alive
  /\ todo["queue"] = <<"notify">>
  /\ IF turn <= Len(subscribers)
     THEN /\ todo' = [todo EXCEPT !["queue"] = Append(Body(subscribers[turn]), "notify")]
          /\ turn' = turn + 1
     ELSE /\ todo' = [todo EXCEPT !["queue"] = << >>]
          /\ UNCHANGED turn
  /\ UNCHANGED <<service, alive, file, notice, watching, subscribers, config,
                 logger, tuner, saw, got>>

-------------------------------------------------------------------------------
(* The file and its events *)

\* Another program writes or removes the file.  The removal is no event the
\* callback reacts to, and before the stream is started nobody is told.
Write(shape) ==
  /\ file.version < MaxVersion
  /\ file' = [shape |-> shape, version |-> file.version + 1]
  /\ notice' = IF watching /\ shape.kind # "absent" THEN "changed" ELSE notice
  /\ UNCHANGED <<service, alive, watching, subscribers, config, logger, tuner,
                 todo, threads>>

\* The system drops events and says only that it did, which CallbackFunction()
\* passes over.
Drop ==
  /\ notice = "changed"
  /\ notice' = "dropped"
  /\ UNCHANGED <<service, alive, file, watching, subscribers, config, logger,
                 tuner, todo, threads>>

ThreadStep(t) ==
  Read(t) \/ Parse(t) \/ Fetch(t) \/ SetLogLevel(t) \/ ApplyCrashpadSettings(t)

MainStep == ThreadStep("main") \/ AddSubscriber \/ Watch
QueueStep == ThreadStep("queue") \/ Deliver \/ Notify

Next ==
  \/ MainStep
  \/ QueueStep
  \/ \E shape \in Shapes : Write(shape)
  \/ Drop

Spec == Init /\ [][Next]_vars

\* Each thread goes on.
FairSpec == Spec /\ WF_vars(MainStep) /\ WF_vars(QueueStep)

-------------------------------------------------------------------------------
(* Properties *)

\* start() has done its work and no event is being handled.
Settled == alive /\ \A t \in Threads : todo[t] = << >>

\* Once settled the logger works with the level Config holds, and in the client the
\* crashpad tuner with what Config holds, but for a pruneAge that it does not accept:
\* the subscriber that applies the settings runs after the one that reloads them.
\* The agent's logger is an exception: a reload between the two calls of line 70 of
\* its Daemon.cpp is overwritten by the level that start() had read before.
SettingsAgree ==
  Settled =>
    /\ \/ logger = level
       \/ /\ service = "agent"
          /\ got["queue"] = level /\ logger = got["main"] /\ logger < level
    /\ service = "client" => \A k \in CrashKeys : crash[k] > 0 => tuner[k] = crash[k]

\* In the client no setting in use gives way to one of an older file: main has
\* applied the first file before the queue can hear of the second.
ClientNeverGoesBack ==
  [][service = "client" => /\ logger' >= logger
                           /\ \A k \in CrashKeys : tuner'[k] >= tuner[k]]_vars

\* The settings of file f that the service can use are in use.
InUse(f) ==
  /\ f.shape.level => logger = f.version
  /\ service = "client"
       => \A k \in CrashKeys : 1..k \subseteq f.shape.keys /\ CrashValue(f, k) > 0
                                 => tuner[k] = f.version

\* A reason not to expect the settings of version v: the file has changed
\* again, the system has dropped the event, or the service has ended.
Overtaken(v) == file.version # v \/ notice = "dropped" \/ ~alive

\* A change that the stream reports when start() has done its work is in use
\* sooner or later, unless it is overtaken.
ReportedChangeIsUsed ==
  \A v \in 1..MaxVersion :
    (todo["main"] = << >> /\ notice = "changed" /\ file.version = v
       /\ file.shape.kind = "object")
      ~> InUse(file) \/ Overtaken(v)

===============================================================================
