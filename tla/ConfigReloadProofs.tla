--------------------------- MODULE ConfigReloadProofs --------------------------
(***************************************************************************)
(* Proofs about ConfigReload for both services, any number of versions and *)
(* any shapes of the file: types, that what is in use is what was read     *)
(* last, and that the client never goes back to an older file.             *)
(***************************************************************************)
EXTENDS ConfigReload, SequenceTheorems, TLAPS

-------------------------------------------------------------------------------
(* The lists of steps *)

\* s is what is left of the list l.
EndOf(s, l) ==
  /\ s \in Seq(Steps) /\ Len(s) <= Len(l)
  /\ \A i \in 1..Len(s) : s[i] = l[Len(l) - Len(s) + i]

\* What the two threads began with: main in Init, the queue when turn was set.
Starts == IF service = "client" THEN ClientStarts ELSE AgentStarts

Handles(n) == IF n = 1 THEN <<"notify">>
              ELSE Append(Body(IF n = 2 THEN "onConfigChanged" ELSE "configCallback"), "notify")

\* What the two callbacks of ConfigWatchdog consist of, step by step.
LEMMA ListsAre ==
  /\ OnConfigChanged \in Seq(Steps) /\ Len(OnConfigChanged) = 4
  /\ OnConfigChanged[1] = "read" /\ OnConfigChanged[2] = "parse"
  /\ OnConfigChanged[3] = "fetch" /\ OnConfigChanged[4] = "set"
  /\ ConfigCallback \in Seq(Steps) /\ Len(ConfigCallback) = 3
  /\ ConfigCallback[1] = "fetch" /\ ConfigCallback[2] = "set" /\ ConfigCallback[3] = "crash"
BY DEF OnConfigChanged, ConfigCallback, ApplyLoggerSettings, Steps

\* Each part of a list that is put together is found in its place.
LEMMA Joined ==
  ASSUME NEW a \in Seq(Steps), NEW b \in Seq(Steps)
  PROVE  /\ a \o b \in Seq(Steps) /\ Len(a \o b) = Len(a) + Len(b)
         /\ \A i \in 1..Len(a) : (a \o b)[i] = a[i]
         /\ \A i \in 1..Len(b) : (a \o b)[Len(a) + i] = b[i]
<1>1. Len(a) \in Nat /\ Len(b) \in Nat
  OBVIOUS
<1>2. /\ a \o b \in Seq(Steps) /\ Len(a \o b) = Len(a) + Len(b)
      /\ \A i \in 1..(Len(a) + Len(b)) : (a \o b)[i] = IF i <= Len(a) THEN a[i] ELSE b[i - Len(a)]
  BY ConcatProperties
<1>3. \A i \in 1..Len(a) : (a \o b)[i] = a[i]
  BY <1>1, <1>2
<1>4. \A i \in 1..Len(b) : (a \o b)[Len(a) + i] = b[i]
  BY <1>1, <1>2
<1> QED
  BY <1>2, <1>3, <1>4

\* What start() consists of in the client and in the agent, step by step.
LEMMA StartsAre ==
  /\ ClientStarts \in Seq(Steps) /\ Len(ClientStarts) = 10
  /\ ClientStarts[1] = "read" /\ ClientStarts[2] = "parse" /\ ClientStarts[3] = "fetch"
  /\ ClientStarts[4] = "set" /\ ClientStarts[5] = "fetch" /\ ClientStarts[6] = "set"
  /\ ClientStarts[7] = "crash" /\ ClientStarts[8] = "subscribe"
  /\ ClientStarts[9] = "subscribe" /\ ClientStarts[10] = "watch"
  /\ AgentStarts \in Seq(Steps) /\ Len(AgentStarts) = 8
  /\ AgentStarts[1] = "read" /\ AgentStarts[2] = "parse" /\ AgentStarts[3] = "fetch"
  /\ AgentStarts[4] = "set" /\ AgentStarts[5] = "watch" /\ AgentStarts[6] = "subscribe"
  /\ AgentStarts[7] = "fetch" /\ AgentStarts[8] = "set"
<1> DEFINE reload == OnConfigChanged \o ConfigCallback
           watch == <<"watch", "subscribe">>
           last == <<"subscribe", "subscribe", "watch">>
           again == <<"fetch", "set">>
<1>1. /\ last \in Seq(Steps) /\ Len(last) = 3 /\ last[1] = "subscribe"
      /\ last[2] = "subscribe" /\ last[3] = "watch"
      /\ watch \in Seq(Steps) /\ Len(watch) = 2 /\ watch[1] = "watch" /\ watch[2] = "subscribe"
      /\ again \in Seq(Steps) /\ Len(again) = 2 /\ again[1] = "fetch" /\ again[2] = "set"
  BY DEF Steps
<1>2. ClientStarts = reload \o last
  BY DEF ClientStarts
<1>3. AgentStarts = (OnConfigChanged \o watch) \o again
  BY DEF AgentStarts, ApplyLoggerSettings
<1>4. reload = OnConfigChanged \o ConfigCallback
  OBVIOUS
<1> DEFINE watched == OnConfigChanged \o watch
<1>5. watched = OnConfigChanged \o watch
  OBVIOUS
<1> HIDE DEF reload, watch, watched, last, again
<1>6. /\ reload \in Seq(Steps) /\ Len(reload) = 7
      /\ \A i \in 1..4 : reload[i] = OnConfigChanged[i]
      /\ \A i \in 1..3 : reload[4 + i] = ConfigCallback[i]
  <2>1. /\ OnConfigChanged \in Seq(Steps) /\ Len(OnConfigChanged) = 4
        /\ ConfigCallback \in Seq(Steps) /\ Len(ConfigCallback) = 3
    BY ListsAre
  <2>2. /\ reload \in Seq(Steps) /\ Len(reload) = Len(OnConfigChanged) + Len(ConfigCallback)
        /\ \A i \in 1..Len(OnConfigChanged) : reload[i] = OnConfigChanged[i]
        /\ \A i \in 1..Len(ConfigCallback) : reload[Len(OnConfigChanged) + i] = ConfigCallback[i]
    BY ONLY <1>4, <2>1, Joined, Zenon
  <2> QED
    BY ONLY <2>1, <2>2
<1>7. /\ watched \in Seq(Steps) /\ Len(watched) = 6
      /\ \A i \in 1..4 : watched[i] = OnConfigChanged[i]
      /\ \A i \in 1..2 : watched[4 + i] = watch[i]
  <2>1. /\ OnConfigChanged \in Seq(Steps) /\ Len(OnConfigChanged) = 4
        /\ watch \in Seq(Steps) /\ Len(watch) = 2
    BY <1>1, ListsAre
  <2>2. /\ watched \in Seq(Steps) /\ Len(watched) = Len(OnConfigChanged) + Len(watch)
        /\ \A i \in 1..Len(OnConfigChanged) : watched[i] = OnConfigChanged[i]
        /\ \A i \in 1..Len(watch) : watched[Len(OnConfigChanged) + i] = watch[i]
    BY ONLY <1>5, <2>1, Joined, Zenon
  <2> QED
    BY ONLY <2>1, <2>2
<1>8. /\ ClientStarts \in Seq(Steps) /\ Len(ClientStarts) = 10
      /\ \A i \in 1..7 : ClientStarts[i] = reload[i]
      /\ \A i \in 1..3 : ClientStarts[7 + i] = last[i]
  <2>1. reload \in Seq(Steps) /\ last \in Seq(Steps) /\ Len(reload) = 7 /\ Len(last) = 3
    BY <1>1, <1>6
  <2>2. /\ ClientStarts \in Seq(Steps) /\ Len(ClientStarts) = Len(reload) + Len(last)
        /\ \A i \in 1..Len(reload) : ClientStarts[i] = reload[i]
        /\ \A i \in 1..Len(last) : ClientStarts[Len(reload) + i] = last[i]
    BY ONLY <1>2, <2>1, Joined, Zenon
  <2> QED
    BY ONLY <2>1, <2>2
<1>9. /\ AgentStarts \in Seq(Steps) /\ Len(AgentStarts) = 8
      /\ \A i \in 1..6 : AgentStarts[i] = watched[i]
      /\ \A i \in 1..2 : AgentStarts[6 + i] = again[i]
  <2>1. watched \in Seq(Steps) /\ again \in Seq(Steps) /\ Len(watched) = 6 /\ Len(again) = 2
    BY <1>1, <1>7
  <2>2. /\ AgentStarts \in Seq(Steps) /\ Len(AgentStarts) = Len(watched) + Len(again)
        /\ \A i \in 1..Len(watched) : AgentStarts[i] = watched[i]
        /\ \A i \in 1..Len(again) : AgentStarts[Len(watched) + i] = again[i]
    BY ONLY <1>3, <1>5, <2>1, Joined, Zenon
  <2> QED
    BY ONLY <2>1, <2>2
<1>10. /\ 1 \in 1..4 /\ 2 \in 1..4 /\ 3 \in 1..4 /\ 4 \in 1..4
       /\ 1 \in 1..3 /\ 2 \in 1..3 /\ 3 \in 1..3 /\ 1 \in 1..2 /\ 2 \in 1..2
       /\ \A i \in 1..4 : i \in 1..6 /\ i \in 1..7
       /\ 5 \in 1..6 /\ 6 \in 1..6 /\ 5 \in 1..7 /\ 6 \in 1..7 /\ 7 \in 1..7
       /\ 4 + 1 = 5 /\ 4 + 2 = 6 /\ 4 + 3 = 7 /\ 7 + 1 = 8 /\ 7 + 2 = 9 /\ 7 + 3 = 10
       /\ 6 + 1 = 7 /\ 6 + 2 = 8
  OBVIOUS
<1>11. /\ ClientStarts[1] = "read" /\ ClientStarts[2] = "parse" /\ ClientStarts[3] = "fetch"
       /\ ClientStarts[4] = "set" /\ ClientStarts[5] = "fetch" /\ ClientStarts[6] = "set"
       /\ ClientStarts[7] = "crash"
  BY <1>6, <1>8, <1>10, ListsAre
<1>12. /\ ClientStarts[8] = "subscribe" /\ ClientStarts[9] = "subscribe"
       /\ ClientStarts[10] = "watch"
  BY <1>1, <1>8, <1>10
<1>13. /\ AgentStarts[1] = "read" /\ AgentStarts[2] = "parse" /\ AgentStarts[3] = "fetch"
       /\ AgentStarts[4] = "set"
  BY <1>7, <1>9, <1>10, ListsAre
<1>14. /\ AgentStarts[5] = "watch" /\ AgentStarts[6] = "subscribe"
       /\ AgentStarts[7] = "fetch" /\ AgentStarts[8] = "set"
  BY <1>1, <1>7, <1>9, <1>10
<1> QED
  BY <1>8, <1>9, <1>11, <1>12, <1>13, <1>14

\* A list that ends in the next round of notify_subscribers().
LEMMA Notified ==
  ASSUME NEW a \in Seq(Steps)
  PROVE  /\ Append(a, "notify") \in Seq(Steps) /\ Len(Append(a, "notify")) = Len(a) + 1
         /\ \A i \in 1..Len(a) : Append(a, "notify")[i] = a[i]
         /\ Append(a, "notify")[Len(a) + 1] = "notify"
BY AppendProperties DEF Steps

\* What the queue runs in each round of notify_subscribers(), step by step.
LEMMA HandlesAre ==
  /\ \A n \in 1..3 : Handles(n) \in Seq(Steps)
  /\ Len(Handles(1)) = 1 /\ Handles(1)[1] = "notify"
  /\ Len(Handles(2)) = 5 /\ Handles(2)[1] = "read" /\ Handles(2)[2] = "parse"
  /\ Handles(2)[3] = "fetch" /\ Handles(2)[4] = "set" /\ Handles(2)[5] = "notify"
  /\ Len(Handles(3)) = 4 /\ Handles(3)[1] = "fetch" /\ Handles(3)[2] = "set"
  /\ Handles(3)[3] = "crash" /\ Handles(3)[4] = "notify"
<1>1. <<"notify">> \in Seq(Steps) /\ Len(<<"notify">>) = 1 /\ <<"notify">>[1] = "notify"
  BY DEF Steps
<1>2. /\ Handles(1) = <<"notify">> /\ Handles(2) = Append(OnConfigChanged, "notify")
      /\ Handles(3) = Append(ConfigCallback, "notify")
  BY DEF Handles, Body
<1>3. /\ Handles(2) \in Seq(Steps) /\ Len(Handles(2)) = 5
      /\ \A i \in 1..4 : Handles(2)[i] = OnConfigChanged[i]
      /\ Handles(2)[5] = "notify"
  <2>1. OnConfigChanged \in Seq(Steps) /\ Len(OnConfigChanged) = 4
    BY ListsAre
  <2>2. /\ Handles(2) \in Seq(Steps) /\ Len(Handles(2)) = Len(OnConfigChanged) + 1
        /\ \A i \in 1..Len(OnConfigChanged) : Handles(2)[i] = OnConfigChanged[i]
        /\ Handles(2)[Len(OnConfigChanged) + 1] = "notify"
    BY ONLY <1>2, <2>1, Notified, Zenon
  <2> QED
    BY ONLY <2>1, <2>2
<1>4. /\ Handles(3) \in Seq(Steps) /\ Len(Handles(3)) = 4
      /\ \A i \in 1..3 : Handles(3)[i] = ConfigCallback[i]
      /\ Handles(3)[4] = "notify"
  <2>1. ConfigCallback \in Seq(Steps) /\ Len(ConfigCallback) = 3
    BY ListsAre
  <2>2. /\ Handles(3) \in Seq(Steps) /\ Len(Handles(3)) = Len(ConfigCallback) + 1
        /\ \A i \in 1..Len(ConfigCallback) : Handles(3)[i] = ConfigCallback[i]
        /\ Handles(3)[Len(ConfigCallback) + 1] = "notify"
    BY ONLY <1>2, <2>1, Notified, Zenon
  <2> QED
    BY ONLY <2>1, <2>2
<1>5. /\ 1 \in 1..4 /\ 2 \in 1..4 /\ 3 \in 1..4 /\ 4 \in 1..4
      /\ 1 \in 1..3 /\ 2 \in 1..3 /\ 3 \in 1..3
      /\ \A n \in 1..3 : n = 1 \/ n = 2 \/ n = 3
  OBVIOUS
<1> QED
  BY <1>1, <1>2, <1>3, <1>4, <1>5, ListsAre

\* Taking a step leaves the end of the list.
LEMMA TailEnds ==
  ASSUME NEW l \in Seq(Steps), NEW s, EndOf(s, l), s # << >>
  PROVE  /\ Len(s) \in 1..Len(l) /\ Head(s) = l[Len(l) - Len(s) + 1]
         /\ EndOf(Tail(s), l) /\ Len(Tail(s)) = Len(s) - 1
BY DEF EndOf

\* What is left when readConfig() gives up a reload with four steps to go.
LEMMA Skips ==
  ASSUME NEW s \in Seq(Steps), Len(s) >= 4
  PROVE  /\ SubSeq(s, 5, Len(s)) \in Seq(Steps) /\ Len(SubSeq(s, 5, Len(s))) = Len(s) - 4
         /\ \A i \in 1..(Len(s) - 4) : SubSeq(s, 5, Len(s))[i] = s[i + 4]
<1>1. Len(s) \in Nat
  OBVIOUS
<1>2. \A i \in 5..Len(s) : s[i] \in Steps
  BY <1>1
<1>3. /\ SubSeq(s, 5, Len(s)) \in Seq(Steps)
      /\ Len(SubSeq(s, 5, Len(s))) = IF 5 <= Len(s) THEN Len(s) - 5 + 1 ELSE 0
      /\ \A i \in 1..(Len(s) - 5 + 1) : SubSeq(s, 5, Len(s))[i] = s[5 + i - 1]
  <2>1. 5 \in Int /\ Len(s) \in Int
    BY <1>1
  <2> QED
    BY <1>2, <2>1, SubSeqProperties
<1>4. \A i \in 1..(Len(s) - 4) : SubSeq(s, 5, Len(s))[i] = s[i + 4]
  <2> TAKE i \in 1..(Len(s) - 4)
  <2>1. i \in 1..(Len(s) - 5 + 1) /\ 5 + i - 1 = i + 4
    BY <1>1
  <2> QED
    BY <1>3, <2>1
<1>5. Len(s) - 5 + 1 = Len(s) - 4
  BY <1>1
<1> QED
  BY <1>3, <1>4, <1>5

\* Giving up a reload leaves the end of the list too.
LEMMA SkipEnds ==
  ASSUME NEW l \in Seq(Steps), NEW s, EndOf(s, l), Len(s) >= 4
  PROVE  EndOf(SubSeq(s, 5, Len(s)), l) /\ Len(SubSeq(s, 5, Len(s))) = Len(s) - 4
<1> DEFINE rest == SubSeq(s, 5, Len(s))
<1>1. s \in Seq(Steps) /\ Len(s) \in Nat /\ Len(l) \in Nat /\ Len(s) <= Len(l)
  BY DEF EndOf
<1>2. /\ rest \in Seq(Steps) /\ Len(rest) = Len(s) - 4
      /\ \A i \in 1..(Len(s) - 4) : rest[i] = s[i + 4]
  BY <1>1, Skips
<1> HIDE DEF rest
<1>3. \A i \in 1..Len(rest) : rest[i] = l[Len(l) - Len(rest) + i]
  <2> TAKE i \in 1..Len(rest)
  <2>1. /\ i \in 1..(Len(s) - 4) /\ i + 4 \in 1..Len(s)
        /\ Len(l) - Len(s) + (i + 4) = Len(l) - Len(rest) + i
    BY <1>1, <1>2
  <2> QED
    BY <1>2, <2>1 DEF EndOf
<1>4. EndOf(rest, l) /\ Len(rest) = Len(s) - 4
  BY <1>1, <1>2, <1>3 DEF EndOf
<1> QED
  BY <1>4 DEF rest

-------------------------------------------------------------------------------
(* The inductive invariant.  A place in a list is told by what is left of it. *)

Main == Len(todo["main"])
Queue == Len(todo["queue"])

\* Where thread t is about to parse the file, or to set the level it has got.
AtParse(t) == IF t = "main" THEN Main = (IF service = "client" THEN 9 ELSE 7)
                            ELSE turn = 2 /\ Queue = 4
AtSet(t) == IF t = "main" THEN Main \in (IF service = "client" THEN {7, 5} ELSE {5, 1})
                          ELSE (turn = 2 /\ Queue = 2) \/ (turn = 3 /\ Queue = 3)

\* Thread t has still to set the level, whatever it finds in the file.
WillSet(t) == IF t = "main" THEN Main >= (IF service = "client" THEN 5 ELSE 1)
                            ELSE (turn = 2 /\ Queue \in 2..4) \/ (turn = 3 /\ Queue >= 3)

\* Somebody has still to apply the crashpad settings.
WillApply == Main >= 4 \/ (turn = 2 /\ Queue >= 1) \/ (turn = 3 /\ Queue >= 2)

\* Each thread is in one of its lists, and nothing is told before main has read
\* the file and is watching it.
PlaceInv ==
  /\ service \in {"client", "agent"}
  /\ turn \in 1..3 /\ (turn = 3 => service = "client")
  /\ todo \in [Threads -> Seq(Steps)]
  /\ EndOf(todo["main"], Starts) /\ EndOf(todo["queue"], Handles(turn))
  /\ subscribers \in Seq({"onConfigChanged", "configCallback"})
  /\ Len(subscribers) = IF Main >= 3 THEN 0
                        ELSE IF service = "client" /\ Main <= 1 THEN 2 ELSE 1
  /\ \A i \in 1..Len(subscribers) : subscribers[i] = SubscribersInOrder[i]
  /\ watching \in BOOLEAN
  /\ watching <=> Main < IF service = "client" THEN 1 ELSE 4
  /\ ~watching => notice = "none" /\ Queue = 0

ValueTypeOK ==
  /\ service \in Services /\ alive \in BOOLEAN /\ file \in Files /\ file.version >= 1
  /\ notice \in {"none", "changed", "dropped"}
  /\ level \in Versions
  /\ crash \in [CrashKeys -> -MaxVersion..MaxVersion]
  /\ logger \in -1..MaxVersion
  /\ tuner \in [CrashKeys -> Versions]
  /\ saw \in [Threads -> Files]
  /\ got \in [Threads -> Versions]

\* The version a value of a crashpad setting is of.
Of(value) == IF value < 0 THEN -value ELSE value

\* Nothing is newer than the file, and what has been read to be parsed is not
\* older than what Config holds.
AgeInv ==
  /\ level <= file.version
  /\ \A k \in CrashKeys : Of(crash[k]) <= file.version /\ tuner[k] <= Of(crash[k])
  /\ \A t \in Threads : AtParse(t) =>
       /\ level <= saw[t].version /\ saw[t].version <= file.version
       /\ \A k \in CrashKeys : Of(crash[k]) <= saw[t].version
  /\ service = "client" => logger <= level

\* The agent's main thread may have got a level that the queue has replaced.
Overwritten(l) == service = "agent" /\ l < level /\ (got["queue"] = level \/ WillSet("queue"))

\* The logger works with the level of Config, or it will.
LevelInv ==
  /\ AtSet("queue") => got["queue"] = level
  /\ AtSet("main") => got["main"] = level \/ Overwritten(got["main"])
  /\ \/ logger = level \/ WillSet("main") \/ WillSet("queue")
     \/ logger = got["main"] /\ Overwritten(logger)

\* So does the tuner, as far as it accepts the settings.
TunerInv ==
  service = "client" =>
    WillApply \/ \A k \in CrashKeys : crash[k] > 0 => tuner[k] = crash[k]

ReloadInv == PlaceInv /\ ValueTypeOK /\ AgeInv /\ LevelInv /\ TunerInv

\* The next step of each thread, as what is left of its list tells it.
LEMMA NextSteps ==
  ASSUME PlaceInv
  PROVE  /\ Main \in 0..10 /\ Queue \in 0..5 /\ Starts \in Seq(Steps) /\ Handles(turn) \in Seq(Steps)
         /\ Main # 0 <=> todo["main"] # << >>
         /\ Queue # 0 <=> todo["queue"] # << >>
         /\ Main # 0 /\ service = "client" => Head(todo["main"]) = ClientStarts[11 - Main]
         /\ Main # 0 /\ service = "agent" => Main <= 8 /\ Head(todo["main"]) = AgentStarts[9 - Main]
         /\ Queue # 0 => /\ watching
                         /\ turn = 1 => Queue = 1 /\ Head(todo["queue"]) = "notify"
                         /\ turn = 2 => Head(todo["queue"]) = Handles(2)[6 - Queue]
                         /\ turn = 3 => Queue <= 4 /\ Head(todo["queue"]) = Handles(3)[5 - Queue]
<1>1. /\ EndOf(todo["main"], Starts) /\ EndOf(todo["queue"], Handles(turn))
      /\ todo["main"] \in Seq(Steps) /\ todo["queue"] \in Seq(Steps)
      /\ turn \in 1..3 /\ service \in {"client", "agent"}
  BY DEF PlaceInv, EndOf
<1>2. /\ Starts \in Seq(Steps) /\ Len(Starts) \in Nat
      /\ service = "client" => Starts = ClientStarts /\ Len(Starts) = 10
      /\ service = "agent" => Starts = AgentStarts /\ Len(Starts) = 8
  BY <1>1, StartsAre DEF Starts
<1>3. /\ Handles(turn) \in Seq(Steps) /\ Len(Handles(turn)) \in Nat
      /\ turn = 1 => Len(Handles(turn)) = 1
      /\ turn = 2 => Len(Handles(turn)) = 5
      /\ turn = 3 => Len(Handles(turn)) = 4
  BY <1>1, HandlesAre
<1>4. /\ Main \in Nat /\ Main <= Len(Starts) /\ Queue \in Nat /\ Queue <= Len(Handles(turn))
      /\ (Main # 0 <=> todo["main"] # << >>) /\ (Queue # 0 <=> todo["queue"] # << >>)
  BY <1>1 DEF EndOf, Main, Queue
<1>5. Main # 0 => Head(todo["main"]) = Starts[Len(Starts) - Main + 1]
  BY <1>1, <1>2, <1>4, TailEnds DEF Main
<1>6. Queue # 0 => Head(todo["queue"]) = Handles(turn)[Len(Handles(turn)) - Queue + 1]
  BY <1>1, <1>3, <1>4, TailEnds DEF Queue
<1>7. ASSUME service = "client"
      PROVE  Main <= 10 /\ (Main # 0 => Head(todo["main"]) = ClientStarts[11 - Main])
  <2>1. Starts = ClientStarts /\ Len(Starts) = 10
    BY <1>2, <1>7
  <2>2. Len(Starts) - Main + 1 = 11 - Main /\ Main <= 10
    BY <1>4, <2>1
  <2> QED
    BY <1>5, <2>1, <2>2
<1>8. ASSUME service = "agent"
      PROVE  Main <= 8 /\ (Main # 0 => Head(todo["main"]) = AgentStarts[9 - Main])
  <2>1. Starts = AgentStarts /\ Len(Starts) = 8
    BY <1>2, <1>8
  <2>2. Len(Starts) - Main + 1 = 9 - Main /\ Main <= 8
    BY <1>4, <2>1
  <2> QED
    BY <1>5, <2>1, <2>2
<1>9. /\ turn = 1 => Queue <= 1 /\ (Queue # 0 => Head(todo["queue"]) = "notify")
      /\ turn = 2 => Queue <= 5 /\ (Queue # 0 => Head(todo["queue"]) = Handles(2)[6 - Queue])
      /\ turn = 3 => Queue <= 4 /\ (Queue # 0 => Head(todo["queue"]) = Handles(3)[5 - Queue])
  <2>1. ASSUME turn = 1
        PROVE  Queue <= 1 /\ (Queue # 0 => Head(todo["queue"]) = "notify")
    <3>1. Len(Handles(turn)) = 1
      BY <1>3, <2>1
    <3>2. Queue <= 1 /\ (Queue # 0 => Len(Handles(turn)) - Queue + 1 = 1)
      BY <1>4, <3>1
    <3> QED
      BY <1>6, <2>1, <3>2, HandlesAre
  <2>2. ASSUME turn = 2
        PROVE  Queue <= 5 /\ (Queue # 0 => Head(todo["queue"]) = Handles(2)[6 - Queue])
    <3>1. Len(Handles(turn)) = 5
      BY <1>3, <2>2
    <3>2. Queue <= 5 /\ Len(Handles(turn)) - Queue + 1 = 6 - Queue
      BY <1>4, <3>1
    <3> QED
      BY <1>6, <2>2, <3>2
  <2>3. ASSUME turn = 3
        PROVE  Queue <= 4 /\ (Queue # 0 => Head(todo["queue"]) = Handles(3)[5 - Queue])
    <3>1. Len(Handles(turn)) = 4
      BY <1>3, <2>3
    <3>2. Queue <= 4 /\ Len(Handles(turn)) - Queue + 1 = 5 - Queue
      BY <1>4, <3>1
    <3> QED
      BY <1>6, <2>3, <3>2
  <2> QED
    BY <2>1, <2>2, <2>3
<1>10. Queue # 0 => watching
  BY DEF PlaceInv
<1>11. Main <= 10 /\ Queue <= 5
  BY <1>1, <1>4, <1>7, <1>8, <1>9
<1>12. Main \in 0..10 /\ Queue \in 0..5
  BY <1>4, <1>11
<1>13. turn = 1 /\ Queue # 0 => Queue = 1
  BY <1>4, <1>9
<1> QED
  BY <1>12, <1>13, <1>2, <1>3, <1>4, <1>7, <1>8, <1>9, <1>10

\* Where each step is taken.
LEMMA Places ==
  ASSUME PlaceInv
  PROVE  /\ \A s : todo["main"] # << >> /\ Head(todo["main"]) = s =>
              /\ s = "read" => Main = IF service = "client" THEN 10 ELSE 8
              /\ s = "parse" <=> AtParse("main")
              /\ s = "fetch" <=> Main \in IF service = "client" THEN {8, 6} ELSE {6, 2}
              /\ s = "set" <=> AtSet("main")
              /\ s = "crash" <=> service = "client" /\ Main = 4
              /\ s = "subscribe" <=> Main = 3 \/ (service = "client" /\ Main = 2)
              /\ s = "watch" <=> Main = IF service = "client" THEN 1 ELSE 4
              /\ s # "notify" /\ s \in Steps
         /\ \A s : todo["queue"] # << >> /\ Head(todo["queue"]) = s =>
              /\ s = "read" => turn = 2 /\ Queue = 5
              /\ s = "parse" <=> AtParse("queue")
              /\ s = "fetch" <=> (turn = 2 /\ Queue = 3) \/ (turn = 3 /\ Queue = 4)
              /\ s = "set" <=> AtSet("queue")
              /\ s = "crash" <=> turn = 3 /\ Queue = 2
              /\ s = "notify" <=> Queue = 1
              /\ s \notin {"subscribe", "watch"} /\ s \in Steps
<1>1. service \in {"client", "agent"} /\ turn \in 1..3
  BY DEF PlaceInv
<1> USE DEF AtParse, AtSet, Steps
<1>2. ASSUME service = "client", todo["main"] # << >>
      PROVE  LET s == Head(todo["main"]) IN
             \/ (Main = 10 /\ s = "read") \/ (Main = 9 /\ s = "parse") \/ (Main = 8 /\ s = "fetch")
             \/ (Main = 7 /\ s = "set") \/ (Main = 6 /\ s = "fetch") \/ (Main = 5 /\ s = "set")
             \/ (Main = 4 /\ s = "crash") \/ (Main = 3 /\ s = "subscribe")
             \/ (Main = 2 /\ s = "subscribe") \/ (Main = 1 /\ s = "watch")
  <2>1. Main \in 1..10 /\ Head(todo["main"]) = ClientStarts[11 - Main]
    BY <1>2, NextSteps
  <2>3. /\ 11 - 1 = 10 /\ 11 - 2 = 9 /\ 11 - 3 = 8 /\ 11 - 4 = 7 /\ 11 - 5 = 6 /\ 11 - 6 = 5
        /\ 11 - 7 = 4 /\ 11 - 8 = 3 /\ 11 - 9 = 2 /\ 11 - 10 = 1
    OBVIOUS
  <2>2. Main \in {1, 2, 3, 4, 5, 6, 7, 8, 9, 10}
    BY <2>1
  <2> QED
    BY <2>1, <2>2, <2>3, StartsAre
<1>3. ASSUME service = "agent", todo["main"] # << >>
      PROVE  LET s == Head(todo["main"]) IN
             \/ (Main = 8 /\ s = "read") \/ (Main = 7 /\ s = "parse") \/ (Main = 6 /\ s = "fetch")
             \/ (Main = 5 /\ s = "set") \/ (Main = 4 /\ s = "watch") \/ (Main = 3 /\ s = "subscribe")
             \/ (Main = 2 /\ s = "fetch") \/ (Main = 1 /\ s = "set")
  <2>1. Main \in 1..8 /\ Head(todo["main"]) = AgentStarts[9 - Main]
    BY <1>3, NextSteps
  <2>2. Main \in {1, 2, 3, 4, 5, 6, 7, 8}
    BY <2>1
  <2> QED
    BY <2>1, <2>2, StartsAre
<1>4. ASSUME todo["queue"] # << >>
      PROVE  LET s == Head(todo["queue"]) IN
             \/ (turn = 1 /\ Queue = 1 /\ s = "notify")
             \/ /\ turn = 2
                /\ \/ (Queue = 5 /\ s = "read") \/ (Queue = 4 /\ s = "parse")
                   \/ (Queue = 3 /\ s = "fetch") \/ (Queue = 2 /\ s = "set")
                   \/ (Queue = 1 /\ s = "notify")
             \/ /\ turn = 3
                /\ \/ (Queue = 4 /\ s = "fetch") \/ (Queue = 3 /\ s = "set")
                   \/ (Queue = 2 /\ s = "crash") \/ (Queue = 1 /\ s = "notify")
  <2>1. /\ Queue \in 1..5
        /\ turn = 1 => Queue = 1 /\ Head(todo["queue"]) = "notify"
        /\ turn = 2 => Head(todo["queue"]) = Handles(2)[6 - Queue]
        /\ turn = 3 => Queue <= 4 /\ Head(todo["queue"]) = Handles(3)[5 - Queue]
    BY <1>4, NextSteps
  <2>2. Queue \in {1, 2, 3, 4, 5}
    BY <2>1
  <2> QED
    BY <1>1, <2>1, <2>2, HandlesAre
<1>5. ASSUME NEW s, todo["main"] # << >>, Head(todo["main"]) = s
      PROVE  /\ s = "read" => Main = IF service = "client" THEN 10 ELSE 8
             /\ s = "parse" <=> AtParse("main")
             /\ s = "fetch" <=> Main \in IF service = "client" THEN {8, 6} ELSE {6, 2}
             /\ s = "set" <=> AtSet("main")
             /\ s = "crash" <=> service = "client" /\ Main = 4
             /\ s = "subscribe" <=> Main = 3 \/ (service = "client" /\ Main = 2)
             /\ s = "watch" <=> Main = IF service = "client" THEN 1 ELSE 4
             /\ s # "notify" /\ s \in Steps
  BY <1>1, <1>2, <1>3, <1>5
<1>6. ASSUME NEW s, todo["queue"] # << >>, Head(todo["queue"]) = s
      PROVE  /\ s = "read" => turn = 2 /\ Queue = 5
             /\ s = "parse" <=> AtParse("queue")
             /\ s = "fetch" <=> (turn = 2 /\ Queue = 3) \/ (turn = 3 /\ Queue = 4)
             /\ s = "set" <=> AtSet("queue")
             /\ s = "crash" <=> turn = 3 /\ Queue = 2
             /\ s = "notify" <=> Queue = 1
             /\ s \notin {"subscribe", "watch"} /\ s \in Steps
  BY <1>4, <1>6
<1> QED
  BY <1>5, <1>6

-------------------------------------------------------------------------------
(* Every step keeps the threads in their places *)

\* Thread t goes n steps on in its list.
Moves(t, n) ==
  /\ service' = service /\ turn' = turn
  /\ IF t = "main" THEN Main' = Main - n /\ Queue' = Queue
                   ELSE Main' = Main /\ Queue' = Queue - n

\* A list that is replaced by its end, and the other one, are where they should be.
LEMMA ListsKept ==
  ASSUME PlaceInv, NEW t \in Threads, NEW rest,
         EndOf(rest, IF t = "main" THEN Starts ELSE Handles(turn)),
         todo' = [todo EXCEPT ![t] = rest]
  PROVE  /\ todo' \in [Threads -> Seq(Steps)]
         /\ EndOf(todo'["main"], Starts) /\ EndOf(todo'["queue"], Handles(turn))
         /\ IF t = "main" THEN Main' = Len(rest) /\ Queue' = Queue
                          ELSE Main' = Main /\ Queue' = Len(rest)
<1>1. /\ todo \in [Threads -> Seq(Steps)] /\ rest \in Seq(Steps)
      /\ EndOf(todo["main"], Starts) /\ EndOf(todo["queue"], Handles(turn))
  BY DEF PlaceInv, EndOf
<1>2. t = "main" \/ t = "queue"
  BY DEF Threads
<1>3. /\ todo' \in [Threads -> Seq(Steps)]
      /\ t = "main" => todo'["main"] = rest /\ todo'["queue"] = todo["queue"]
      /\ t = "queue" => todo'["queue"] = rest /\ todo'["main"] = todo["main"]
  BY <1>1, <1>2 DEF Threads
<1>4. CASE t = "main"
  BY <1>1, <1>3, <1>4 DEF Main, Queue
<1>5. CASE t = "queue"
  BY <1>1, <1>3, <1>5 DEF Main, Queue
<1> QED
  BY <1>2, <1>4, <1>5

\* Taking a step moves its thread one on and leaves the other where it is.
LEMMA Taken ==
  ASSUME PlaceInv, NEW t \in Threads, NEW s, Takes(t, s), service' = service, turn' = turn
  PROVE  /\ todo' \in [Threads -> Seq(Steps)] /\ Moves(t, 1)
         /\ EndOf(todo'["main"], Starts) /\ EndOf(todo'["queue"], Handles(turn))
         /\ todo[t] # << >> /\ Head(todo[t]) = s
<1> DEFINE l == IF t = "main" THEN Starts ELSE Handles(turn)
<1>1. /\ todo[t] # << >> /\ Head(todo[t]) = s
      /\ todo' = [todo EXCEPT ![t] = Tail(todo[t])]
  BY DEF Takes
<1>2. l \in Seq(Steps) /\ EndOf(todo[t], l)
  BY NextSteps DEF PlaceInv, Threads
<1> HIDE DEF l
<1>3. EndOf(Tail(todo[t]), l) /\ Len(Tail(todo[t])) = Len(todo[t]) - 1
  BY <1>1, <1>2, TailEnds
<1>4. /\ todo' \in [Threads -> Seq(Steps)]
      /\ EndOf(todo'["main"], Starts) /\ EndOf(todo'["queue"], Handles(turn))
      /\ IF t = "main" THEN Main' = Len(Tail(todo[t])) /\ Queue' = Queue
                       ELSE Main' = Main /\ Queue' = Len(Tail(todo[t]))
  BY <1>1, <1>3, ListsKept, Zenon DEF l
<1>5. Moves(t, 1)
  BY <1>3, <1>4 DEF Moves, Main, Queue, Threads
<1> QED
  BY <1>1, <1>4, <1>5

\* PlaceInv of the next state, from where the lists are in it.
LEMMA PlaceKept ==
  ASSUME PlaceInv,
         UNCHANGED <<service, subscribers, watching>>,
         todo' \in [Threads -> Seq(Steps)],
         turn' \in 1..3, turn' = 3 => service = "client",
         EndOf(todo'["main"], Starts), EndOf(todo'["queue"], Handles(turn')),
         Len(subscribers) = IF Main' >= 3 THEN 0
                            ELSE IF service = "client" /\ Main' <= 1 THEN 2 ELSE 1,
         watching <=> Main' < IF service = "client" THEN 1 ELSE 4,
         ~watching => notice' = "none" /\ Queue' = 0
  PROVE  PlaceInv'
<1>1. Starts' = Starts /\ SubscribersInOrder' = SubscribersInOrder
  BY DEF Starts, SubscribersInOrder
<1>2. EndOf(todo["main"], Starts)' /\ EndOf(todo["queue"], Handles(turn))'
  BY <1>1
<1> QED
  BY <1>1, <1>2 DEF PlaceInv

\* A step that neither reads the file, subscribes nor watches keeps the places.
LEMMA StepPlace ==
  ASSUME PlaceInv, NEW t \in Threads, NEW s \in {"parse", "fetch", "set", "crash"},
         Takes(t, s), UNCHANGED <<service, notice, watching, subscribers, turn>>
  PROVE  PlaceInv' /\ Moves(t, 1) /\ todo[t] # << >> /\ Head(todo[t]) = s
<1>1. /\ todo' \in [Threads -> Seq(Steps)] /\ Moves(t, 1)
      /\ EndOf(todo'["main"], Starts) /\ EndOf(todo'["queue"], Handles(turn'))
      /\ todo[t] # << >> /\ Head(todo[t]) = s
  BY Taken
<1>2. /\ turn' \in 1..3 /\ (turn' = 3 => service = "client")
      /\ service \in {"client", "agent"} /\ Main \in 0..10 /\ Queue \in 0..5
      /\ Len(subscribers) = IF Main >= 3 THEN 0
                            ELSE IF service = "client" /\ Main <= 1 THEN 2 ELSE 1
      /\ watching <=> Main < IF service = "client" THEN 1 ELSE 4
      /\ ~watching => notice' = "none" /\ Queue = 0
  BY NextSteps DEF PlaceInv
<1>3. ASSUME t = "main"
      PROVE  /\ Main' = Main - 1 /\ Queue' = Queue
             /\ service = "client" => Main \in 4..9
             /\ service = "agent" => Main \in {7, 6, 5, 2, 1}
  BY <1>1, <1>2, <1>3, Places DEF Moves, AtParse, AtSet
<1>4. ASSUME t = "queue"
      PROVE  Main' = Main /\ Queue # 0 /\ watching
  BY <1>1, <1>4, NextSteps DEF Moves
<1>5. /\ Len(subscribers) = IF Main' >= 3 THEN 0
                            ELSE IF service = "client" /\ Main' <= 1 THEN 2 ELSE 1
      /\ watching <=> Main' < IF service = "client" THEN 1 ELSE 4
      /\ ~watching => notice' = "none" /\ Queue' = 0
  <2>1. CASE t = "main"
    BY <1>2, <1>3, <2>1
  <2>2. CASE t = "queue"
    BY <1>2, <1>4, <2>2
  <2> QED
    BY <2>1, <2>2 DEF Threads
<1>6. PlaceInv'
  BY <1>1, <1>2, <1>5, PlaceKept
<1> QED
  BY <1>1, <1>6

\* So does reload(), which goes on to the parsing or gives up.
LEMMA ReadPlace ==
  ASSUME PlaceInv, NEW t \in Threads, Read(t)
  PROVE  /\ PlaceInv' /\ todo[t] # << >> /\ Head(todo[t]) = "read"
         /\ \/ Moves(t, 4) /\ saw' = saw
            \/ Moves(t, 1) /\ saw' = [saw EXCEPT ![t] = file]
<1> DEFINE l == IF t = "main" THEN Starts ELSE Handles(turn)
           n == IF file.shape.kind \in {"absent", "garbage"} THEN 4 ELSE 1
           rest == IF file.shape.kind \in {"absent", "garbage"}
                   THEN SubSeq(todo[t], 5, Len(todo[t])) ELSE Tail(todo[t])
<1>1. /\ alive /\ todo[t] # << >> /\ Head(todo[t]) = "read"
      /\ UNCHANGED <<service, notice, watching, subscribers, turn>>
  BY DEF Read
<1>2. l \in Seq(Steps) /\ EndOf(todo[t], l)
  BY NextSteps DEF PlaceInv, Threads
<1>3. /\ t = "main" => Len(todo[t]) = Main /\ Main = IF service = "client" THEN 10 ELSE 8
      /\ t = "queue" => Len(todo[t]) = Queue /\ turn = 2 /\ Queue = 5
  BY <1>1, Places, Zenon DEF Main, Queue
<1>4. Len(todo[t]) >= 4 /\ Len(todo[t]) \in Nat
  BY <1>3 DEF Threads
<1>5. todo' = [todo EXCEPT ![t] = rest]
  BY <1>4, ListsAre DEF Read
<1> HIDE DEF l
<1>6. EndOf(rest, l) /\ Len(rest) = Len(todo[t]) - n
  BY <1>1, <1>2, <1>4, TailEnds, SkipEnds
<1>7. \/ n = 4 /\ saw' = saw
      \/ n = 1 /\ saw' = [saw EXCEPT ![t] = file]
  BY DEF Read
<1>8. n \in {1, 4}
  OBVIOUS
<1> HIDE DEF rest, n
<1>9. /\ todo' \in [Threads -> Seq(Steps)]
      /\ EndOf(todo'["main"], Starts) /\ EndOf(todo'["queue"], Handles(turn))
      /\ IF t = "main" THEN Main' = Len(rest) /\ Queue' = Queue
                       ELSE Main' = Main /\ Queue' = Len(rest)
  BY <1>5, <1>6, ListsKept, Zenon DEF l
<1>10. Moves(t, n)
  BY <1>1, <1>3, <1>6, <1>9 DEF Moves, Threads
<1>11. /\ turn' \in 1..3 /\ (turn' = 3 => service = "client")
       /\ service \in {"client", "agent"} /\ Main \in 0..10 /\ Queue \in 0..5
       /\ Len(subscribers) = IF Main >= 3 THEN 0
                             ELSE IF service = "client" /\ Main <= 1 THEN 2 ELSE 1
       /\ watching <=> Main < IF service = "client" THEN 1 ELSE 4
       /\ ~watching => notice' = "none" /\ Queue = 0
  BY <1>1, NextSteps DEF PlaceInv
<1>12. /\ Len(subscribers) = IF Main' >= 3 THEN 0
                             ELSE IF service = "client" /\ Main' <= 1 THEN 2 ELSE 1
       /\ watching <=> Main' < IF service = "client" THEN 1 ELSE 4
       /\ ~watching => notice' = "none" /\ Queue' = 0
  <2>1. CASE t = "main"
    BY <1>3, <1>8, <1>10, <1>11, <2>1 DEF Moves
  <2>2. CASE t = "queue"
    BY <1>3, <1>10, <1>11, <2>2 DEF Moves
  <2> QED
    BY <2>1, <2>2 DEF Threads
<1>13. EndOf(todo'["queue"], Handles(turn'))
  BY <1>1, <1>9
<1>14. PlaceInv'
  BY <1>1, <1>9, <1>11, <1>12, <1>13, PlaceKept
<1> QED
  BY <1>1, <1>7, <1>10, <1>14

\* addSubscriber() adds the subscriber whose turn it is, after main has set the level.
LEMMA AddPlace ==
  ASSUME PlaceInv, AddSubscriber
  PROVE  PlaceInv' /\ Moves("main", 1) /\ (Main = 3 \/ (service = "client" /\ Main = 2))
<1>1. "main" \in Threads
  BY DEF Threads
<1>2. /\ Takes("main", "subscribe") /\ UNCHANGED <<service, notice, watching, turn>>
      /\ subscribers' = Append(subscribers, SubscribersInOrder[Len(subscribers) + 1])
  BY DEF AddSubscriber, threads
<1>3. /\ todo' \in [Threads -> Seq(Steps)] /\ Moves("main", 1)
      /\ EndOf(todo'["main"], Starts) /\ EndOf(todo'["queue"], Handles(turn))
      /\ todo["main"] # << >> /\ Head(todo["main"]) = "subscribe"
  BY <1>1, <1>2, Taken
<1>4. Main = 3 \/ (service = "client" /\ Main = 2)
  BY <1>3, Places
<1>5. Main' = Main - 1 /\ Queue' = Queue
  BY <1>3 DEF Moves
<1>6. /\ service \in {"client", "agent"} /\ subscribers \in Seq({"onConfigChanged", "configCallback"})
      /\ Len(subscribers) = IF Main >= 3 THEN 0
                            ELSE IF service = "client" /\ Main <= 1 THEN 2 ELSE 1
      /\ \A i \in 1..Len(subscribers) : subscribers[i] = SubscribersInOrder[i]
      /\ watching <=> Main < IF service = "client" THEN 1 ELSE 4
      /\ watching \in BOOLEAN
      /\ ~watching => notice = "none" /\ Queue = 0
      /\ turn \in 1..3 /\ (turn = 3 => service = "client")
  BY DEF PlaceInv
<1>7. Starts' = Starts /\ SubscribersInOrder' = SubscribersInOrder
  BY <1>2 DEF Starts, SubscribersInOrder
<1>8. /\ Len(subscribers) \in 0..1 /\ (Len(subscribers) = 1 => service = "client")
      /\ Len(subscribers) + 1 = IF Main' >= 3 THEN 0
                            ELSE IF service = "client" /\ Main' <= 1 THEN 2 ELSE 1
  BY <1>4, <1>5, <1>6
<1>9. SubscribersInOrder[Len(subscribers) + 1] \in {"onConfigChanged", "configCallback"}
  BY <1>6, <1>8 DEF SubscribersInOrder
<1>10. /\ subscribers' \in Seq({"onConfigChanged", "configCallback"})
       /\ Len(subscribers') = Len(subscribers) + 1
       /\ \A i \in 1..Len(subscribers') : subscribers'[i] = SubscribersInOrder[i]
  BY <1>2, <1>6, <1>9
<1>11. /\ watching' <=> Main' < IF service = "client" THEN 1 ELSE 4
       /\ ~watching' => notice' = "none" /\ Queue' = 0
       /\ Len(subscribers') = IF Main' >= 3 THEN 0
                              ELSE IF service = "client" /\ Main' <= 1 THEN 2 ELSE 1
  BY <1>2, <1>4, <1>5, <1>6, <1>8, <1>10
<1>12. EndOf(todo["main"], Starts)' /\ EndOf(todo["queue"], Handles(turn))'
  BY <1>2, <1>3, <1>7
<1>13. PlaceInv'
  BY <1>2, <1>3, <1>6, <1>7, <1>10, <1>11, <1>12 DEF PlaceInv
<1> QED
  BY <1>3, <1>4, <1>13

\* FileWatcher::add() comes after main has read the file.
LEMMA WatchPlace ==
  ASSUME PlaceInv, Watch
  PROVE  PlaceInv' /\ Moves("main", 1) /\ Main = IF service = "client" THEN 1 ELSE 4
<1>1. "main" \in Threads
  BY DEF Threads
<1>2. /\ Takes("main", "watch") /\ UNCHANGED <<service, notice, subscribers, turn>>
      /\ watching' = TRUE
  BY DEF Watch, threads
<1>3. /\ todo' \in [Threads -> Seq(Steps)] /\ Moves("main", 1)
      /\ EndOf(todo'["main"], Starts) /\ EndOf(todo'["queue"], Handles(turn))
      /\ todo["main"] # << >> /\ Head(todo["main"]) = "watch"
  BY <1>1, <1>2, Taken
<1>4. Main = IF service = "client" THEN 1 ELSE 4
  BY <1>3, Places
<1>5. Main' = Main - 1 /\ Queue' = Queue
  BY <1>3 DEF Moves
<1>6. Starts' = Starts /\ SubscribersInOrder' = SubscribersInOrder
  BY <1>2 DEF Starts, SubscribersInOrder
<1>7. EndOf(todo["main"], Starts)' /\ EndOf(todo["queue"], Handles(turn))'
  BY <1>2, <1>3, <1>6
<1>8. /\ Len(subscribers') = IF Main' >= 3 THEN 0
                             ELSE IF service = "client" /\ Main' <= 1 THEN 2 ELSE 1
      /\ watching' <=> Main' < IF service = "client" THEN 1 ELSE 4
  BY <1>2, <1>4, <1>5 DEF PlaceInv
<1>9. PlaceInv'
  BY <1>2, <1>3, <1>6, <1>7, <1>8 DEF PlaceInv
<1> QED
  BY <1>3, <1>4, <1>9

\* An event finds the queue idle and begins with the first subscriber.
LEMMA DeliverPlace ==
  ASSUME PlaceInv, Deliver
  PROVE  /\ PlaceInv' /\ service' = service /\ Main' = Main /\ Queue = 0
         /\ turn' = 1 /\ Queue' = 1
<1>1. /\ notice = "changed" /\ todo["queue"] = << >> /\ notice' = "none" /\ turn' = 1
      /\ todo' = [todo EXCEPT !["queue"] = <<"notify">>]
      /\ UNCHANGED <<service, watching, subscribers>>
  BY DEF Deliver
<1>2. /\ todo \in [Threads -> Seq(Steps)] /\ <<"notify">> \in Seq(Steps)
      /\ EndOf(todo["main"], Starts) /\ watching
  BY <1>1 DEF PlaceInv, Steps
<1>3. /\ todo' \in [Threads -> Seq(Steps)]
      /\ todo'["main"] = todo["main"] /\ todo'["queue"] = <<"notify">>
  BY <1>1, <1>2 DEF Threads
<1>4. Main' = Main /\ Queue = 0 /\ Queue' = 1
  BY <1>1, <1>3 DEF Main, Queue
<1>5. EndOf(<<"notify">>, <<"notify">>)
  BY <1>2 DEF EndOf
<1>6. EndOf(todo'["queue"], Handles(turn')) /\ EndOf(todo'["main"], Starts)
  BY <1>1, <1>2, <1>3, <1>5 DEF Handles
<1>7. /\ Len(subscribers) = IF Main' >= 3 THEN 0
                            ELSE IF service = "client" /\ Main' <= 1 THEN 2 ELSE 1
      /\ watching <=> Main' < IF service = "client" THEN 1 ELSE 4
      /\ ~watching => notice' = "none" /\ Queue' = 0
      /\ turn' \in 1..3 /\ (turn' = 3 => service = "client")
  BY <1>1, <1>2, <1>4 DEF PlaceInv
<1>8. PlaceInv'
  BY <1>1, <1>3, <1>6, <1>7, PlaceKept
<1> QED
  BY <1>1, <1>4, <1>8

\* A round runs onConfigChanged() first and configCallback() second, which only the
\* client has, and ends when there is no further subscriber.
LEMMA NotifyPlace ==
  ASSUME PlaceInv, Notify
  PROVE  /\ PlaceInv' /\ service' = service /\ Main' = Main /\ Queue = 1
         /\ \/ turn = 1 /\ turn' = 2 /\ Queue' = 5
            \/ turn = 2 /\ turn' = 3 /\ Queue' = 4
            \/ turn' = turn /\ Queue' = 0 /\ (turn = 2 => service = "agent")
<1>1. /\ todo["queue"] = <<"notify">>
      /\ UNCHANGED <<service, notice, watching, subscribers>>
  BY DEF Notify
<1>2. /\ todo \in [Threads -> Seq(Steps)] /\ EndOf(todo["main"], Starts)
      /\ service \in {"client", "agent"} /\ turn \in 1..3 /\ (turn = 3 => service = "client")
      /\ Len(subscribers) = IF Main >= 3 THEN 0
                            ELSE IF service = "client" /\ Main <= 1 THEN 2 ELSE 1
      /\ \A i \in 1..Len(subscribers) : subscribers[i] = SubscribersInOrder[i]
      /\ watching <=> Main < IF service = "client" THEN 1 ELSE 4
      /\ ~watching => notice = "none" /\ Queue = 0
  BY DEF PlaceInv
<1>3. Queue = 1 /\ Main \in 0..10
  BY <1>1, NextSteps DEF Queue
<1>4. watching /\ (service = "client" => Len(subscribers) = 2)
      /\ (service = "agent" => Len(subscribers) \in 0..1)
  BY <1>2, <1>3
<1>5. /\ 1 <= Len(subscribers) => subscribers[1] = "onConfigChanged"
      /\ 2 <= Len(subscribers) => service = "client" /\ subscribers[2] = "configCallback"
  BY <1>2, <1>4 DEF SubscribersInOrder
<1>6. /\ Handles(2) = Append(Body("onConfigChanged"), "notify") /\ Handles(2) \in Seq(Steps)
      /\ Handles(3) = Append(Body("configCallback"), "notify") /\ Handles(3) \in Seq(Steps)
      /\ Len(Handles(2)) = 5 /\ Len(Handles(3)) = 4
  BY HandlesAre DEF Handles
<1>7. ASSUME NEW new \in Seq(Steps), todo' = [todo EXCEPT !["queue"] = new]
      PROVE  /\ todo' \in [Threads -> Seq(Steps)]
             /\ Main' = Main /\ Queue' = Len(new) /\ todo'["queue"] = new
             /\ EndOf(todo'["main"], Starts)
  BY <1>2, <1>7 DEF Threads, Main, Queue
<1>8. ASSUME EndOf(todo'["queue"], Handles(turn')), Main' = Main,
             todo' \in [Threads -> Seq(Steps)], EndOf(todo'["main"], Starts),
             turn' \in 1..3, turn' = 3 => service = "client"
      PROVE  PlaceInv'
  <2>1. /\ Len(subscribers) = IF Main' >= 3 THEN 0
                              ELSE IF service = "client" /\ Main' <= 1 THEN 2 ELSE 1
        /\ watching <=> Main' < IF service = "client" THEN 1 ELSE 4
        /\ ~watching => notice' = "none" /\ Queue' = 0
    BY <1>2, <1>4, <1>8
  <2> QED
    BY <1>1, <1>8, <2>1, PlaceKept
<1>9. ASSUME NEW s \in Seq(Steps)
      PROVE  EndOf(s, s)
  BY DEF EndOf
<1>10. CASE turn <= Len(subscribers)
  <2>1. /\ todo' = [todo EXCEPT !["queue"] = Append(Body(subscribers[turn]), "notify")]
        /\ turn' = turn + 1
    BY <1>10 DEF Notify
  <2>2. (turn = 1 /\ turn' = 2) \/ (turn = 2 /\ turn' = 3 /\ service = "client")
    BY <1>2, <1>4, <1>10, <2>1
  <2>3. Append(Body(subscribers[turn]), "notify") = Handles(turn')
    BY <1>5, <1>6, <1>10, <2>2
  <2>4. /\ todo' \in [Threads -> Seq(Steps)] /\ EndOf(todo'["main"], Starts)
        /\ Main' = Main /\ Queue' = Len(Handles(turn')) /\ todo'["queue"] = Handles(turn')
    BY <1>6, <1>7, <2>1, <2>2, <2>3
  <2>5. EndOf(todo'["queue"], Handles(turn'))
    BY <1>6, <1>9, <2>2, <2>4
  <2>6. PlaceInv'
    BY <1>8, <2>2, <2>4, <2>5
  <2> QED
    BY <1>1, <1>3, <1>6, <2>2, <2>4, <2>6
<1>11. CASE ~(turn <= Len(subscribers))
  <2>1. todo' = [todo EXCEPT !["queue"] = << >>] /\ turn' = turn
    BY <1>11 DEF Notify
  <2>2. /\ todo' \in [Threads -> Seq(Steps)] /\ EndOf(todo'["main"], Starts)
        /\ Main' = Main /\ Queue' = 0 /\ todo'["queue"] = << >>
    <3>1. << >> \in Seq(Steps) /\ Len(<< >>) = 0
      OBVIOUS
    <3> QED
      BY <1>7, <2>1, <3>1
  <2>3. Handles(turn') \in Seq(Steps) /\ turn' \in 1..3
    BY <1>2, <2>1, HandlesAre
  <2>4. EndOf(todo'["queue"], Handles(turn'))
    BY <2>2, <2>3 DEF EndOf
  <2>5. PlaceInv'
    BY <1>2, <1>8, <2>1, <2>2, <2>4
  <2>6. turn = 2 => service = "agent"
    BY <1>2, <1>4, <1>11
  <2> QED
    BY <1>1, <1>3, <2>1, <2>2, <2>5, <2>6
<1> QED
  BY <1>10, <1>11

\* What happens to the file moves no thread.
LEMMA FilePlace ==
  ASSUME PlaceInv, (\E shape \in Shapes : Write(shape)) \/ Drop \/ UNCHANGED vars
  PROVE  PlaceInv' /\ service' = service /\ turn' = turn /\ Main' = Main /\ Queue' = Queue
<1>1. UNCHANGED <<service, watching, subscribers, todo, turn>>
  BY DEF Write, Drop, vars, threads
<1>2. ~watching => notice' = "none"
  BY DEF PlaceInv, Write, Drop, vars
<1>3. Main' = Main /\ Queue' = Queue
  BY <1>1 DEF Main, Queue
<1>4. PlaceInv'
  BY <1>1, <1>2, <1>3, PlaceKept DEF PlaceInv
<1> QED
  BY <1>1, <1>3, <1>4

-------------------------------------------------------------------------------
(* Every step keeps the values *)

\* The value of a key is of the version of the file that it is read from.
LEMMA ValuesOfFile ==
  ASSUME NEW f \in Files, NEW k \in CrashKeys
  PROVE  /\ CrashValue(f, k) \in -MaxVersion..MaxVersion
         /\ Of(CrashValue(f, k)) = f.version
<1>1. f.version \in 0..MaxVersion /\ MaxVersion \in Nat /\ f.shape.age \in {-1, 1}
  BY ConfigAssumption DEF Files, Versions, AllShapes
<1>2. f.shape.age * f.version = f.version \/ f.shape.age * f.version = -f.version
  <2>1. CASE f.shape.age = 1
    BY <1>1, <2>1
  <2>2. CASE f.shape.age = -1
    BY <1>1, <2>2
  <2> QED
    BY <1>1, <2>1, <2>2
<1>3. CrashValue(f, k) = f.version \/ CrashValue(f, k) = -f.version
  BY <1>2 DEF CrashValue
<1> QED
  BY <1>1, <1>3 DEF Of

\* The numbers that the invariant compares are numbers.
LEMMA Numbers ==
  ASSUME ValueTypeOK
  PROVE  /\ MaxVersion \in Nat /\ file.version \in 1..MaxVersion /\ level \in 0..MaxVersion
         /\ logger \in -1..MaxVersion
         /\ \A k \in CrashKeys : /\ crash[k] \in -MaxVersion..MaxVersion
                                 /\ tuner[k] \in 0..MaxVersion
                                 /\ Of(crash[k]) \in 0..MaxVersion
         /\ \A t \in Threads : saw[t] \in Files /\ saw[t].version \in 0..MaxVersion
                               /\ got[t] \in 0..MaxVersion
BY ConfigAssumption DEF ValueTypeOK, Files, Versions, Of

\* The invariant holds before main has taken a step.
LEMMA ReloadStart ==
  ASSUME Init
  PROVE  ReloadInv
<1>1. /\ service \in {"client", "agent"} /\ "main" \in Threads /\ "queue" \in Threads
      /\ MaxVersion \in Nat \ {0} /\ file \in [shape : Shapes, version : {1}]
  BY ConfigAssumption DEF Init, Threads
<1>2. Starts \in Seq(Steps) /\ Len(Starts) = IF service = "client" THEN 10 ELSE 8
  BY StartsAre DEF Starts
<1>3. << >> \in Seq(Steps) /\ Len(<< >>) = 0
  OBVIOUS
<1>4. /\ todo["main"] = Starts /\ todo["queue"] = << >>
      /\ todo \in [Threads -> Seq(Steps)]
  BY <1>1, <1>2, <1>3, StartsAre DEF Init, Threads, Starts
<1>5. Main = (IF service = "client" THEN 10 ELSE 8) /\ Queue = 0 /\ turn = 1
  BY <1>2, <1>3, <1>4 DEF Main, Queue, Init
<1>6. EndOf(todo["main"], Starts) /\ EndOf(todo["queue"], Handles(turn))
  <2>1. Handles(turn) \in Seq(Steps)
    BY <1>5, HandlesAre
  <2>2. EndOf(Starts, Starts)
    BY <1>2 DEF EndOf
  <2>3. EndOf(<< >>, Handles(turn))
    BY <1>3, <2>1 DEF EndOf
  <2> QED
    BY <1>4, <2>2, <2>3
<1>7. PlaceInv
  <2>1. /\ subscribers \in Seq({"onConfigChanged", "configCallback"}) /\ Len(subscribers) = 0
        /\ watching = FALSE /\ notice = "none"
    BY DEF Init
  <2>2. /\ Len(subscribers) = IF Main >= 3 THEN 0
                              ELSE IF service = "client" /\ Main <= 1 THEN 2 ELSE 1
        /\ watching <=> Main < IF service = "client" THEN 1 ELSE 4
    BY <1>1, <1>5, <2>1
  <2>3. \A i \in 1..Len(subscribers) : subscribers[i] = SubscribersInOrder[i]
    <3>1. \A i \in 1..0 : FALSE
      OBVIOUS
    <3> QED
      BY <2>1, <3>1
  <2>4. /\ watching \in BOOLEAN /\ (~watching => notice = "none" /\ Queue = 0)
    BY <1>5, <2>1, Zenon
  <2>5. turn \in 1..3 /\ (turn = 3 => service = "client")
    BY <1>5
  <2> QED
    BY <1>1, <1>4, <1>6, <2>1, <2>2, <2>3, <2>4, <2>5, Zenon DEF PlaceInv
<1>8. /\ file \in Files /\ file.version = 1 /\ level = 0 /\ logger = -1 /\ alive = TRUE
      /\ notice = "none" /\ service \in Services
      /\ \A k \in CrashKeys : crash[k] = 0 /\ tuner[k] = 0 /\ Of(crash[k]) = 0
      /\ \A t \in Threads : saw[t] = file /\ got[t] = 0
      /\ crash = [k \in CrashKeys |-> 0] /\ tuner = [k \in CrashKeys |-> 0]
      /\ saw = [t \in Threads |-> file] /\ got = [t \in Threads |-> 0]
  BY <1>1 DEF Init, Files, Versions, Of
<1>9. ValueTypeOK
  <2>1. 0 \in Versions /\ 0 \in -MaxVersion..MaxVersion /\ -1 \in -1..MaxVersion /\ 1 >= 1
    BY <1>1 DEF Versions
  <2> QED
    BY <1>8, <2>1 DEF ValueTypeOK
<1>10. AgeInv
  BY <1>5, <1>8 DEF AgeInv, AtParse, Threads
<1>11. LevelInv
  BY <1>1, <1>5 DEF LevelInv, AtSet, WillSet
<1>12. TunerInv
  BY <1>5 DEF TunerInv, WillApply
<1> QED
  BY <1>7, <1>9, <1>10, <1>11, <1>12 DEF ReloadInv

\* reload() and readConfig(): what is to be parsed is the file as it is.
LEMMA ReadKeeps ==
  ASSUME ReloadInv, NEW t \in Threads, Read(t)
  PROVE  ReloadInv'
<1>1. /\ PlaceInv /\ PlaceInv' /\ todo[t] # << >> /\ Head(todo[t]) = "read"
      /\ \/ Moves(t, 4) /\ saw' = saw
         \/ Moves(t, 1) /\ saw' = [saw EXCEPT ![t] = file]
      /\ ValueTypeOK /\ AgeInv /\ LevelInv /\ TunerInv
      /\ UNCHANGED <<service, alive, file, notice, level, crash, logger, tuner, got, turn>>
  BY ReadPlace DEF ReloadInv, Read, config
<1>2. /\ Main \in 0..10 /\ Queue \in 0..5 /\ turn \in 1..3 /\ service \in {"client", "agent"}
  BY <1>1, NextSteps DEF PlaceInv
<1>3. ASSUME t = "main"
      PROVE  /\ Main = (IF service = "client" THEN 10 ELSE 8) /\ Queue' = Queue
             /\ Main' = Main - 4 \/ Main' = Main - 1
  BY <1>1, <1>3, Places DEF Moves
<1>4. ASSUME t = "queue"
      PROVE  /\ turn = 2 /\ Queue = 5 /\ Main' = Main
             /\ Queue' = 1 \/ Queue' = 4
  BY <1>1, <1>4, Places DEF Moves
<1>5. /\ saw' \in [Threads -> Files] /\ \A u \in Threads : saw'[u] = saw[u] \/ saw'[u] = file
      /\ file \in Files
  BY <1>1 DEF ValueTypeOK
<1>6. ValueTypeOK'
  BY <1>1, <1>5 DEF ValueTypeOK
<1>7. AgeInv'
  <2>1. ASSUME NEW u \in Threads, AtParse(u)'
        PROVE  AtParse(u) \/ saw'[u] = file
    <3>1. CASE u = t
      <4>1. ~(Moves(t, 4) /\ saw' = saw)
        BY <1>2, <1>3, <1>4, <1>1, <2>1, <3>1 DEF AtParse, Moves, Threads
      <4> QED
        BY <1>1, <3>1, <4>1 DEF ValueTypeOK
    <3>2. CASE u # t
      BY <1>1, <1>3, <1>4, <2>1, <3>2 DEF AtParse, Threads
    <3> QED
      BY <3>1, <3>2
  <2>2. ASSUME NEW u \in Threads, AtParse(u)'
        PROVE  /\ level <= saw'[u].version /\ saw'[u].version <= file.version
               /\ \A k \in CrashKeys : Of(crash[k]) <= saw'[u].version
    <3>1. CASE saw'[u] = file
      BY <1>1, <3>1, Numbers DEF AgeInv
    <3>2. CASE saw'[u] = saw[u] /\ AtParse(u)
      BY <1>1, <3>2 DEF AgeInv
    <3> QED
      BY <1>5, <2>1, <2>2, <3>1, <3>2
  <2> QED
    BY <1>1, <2>2 DEF AgeInv
<1>8. LevelInv'
  <2>1. CASE t = "main"
    <3>1. WillSet("main")' /\ ~AtSet("main")'
      BY <1>1, <1>2, <1>3, <2>1 DEF WillSet, AtSet
    <3>2. AtSet("queue")' <=> AtSet("queue")
      BY <1>1, <1>3, <2>1 DEF AtSet
    <3> QED
      BY <1>1, <3>1, <3>2 DEF LevelInv
  <2>2. CASE t = "queue"
    <3>1. ~WillSet("queue") /\ ~AtSet("queue")'
      BY <1>1, <1>4, <2>2 DEF WillSet, AtSet
    <3>2. (AtSet("main")' <=> AtSet("main")) /\ (WillSet("main")' <=> WillSet("main"))
      BY <1>1, <1>4, <2>2 DEF AtSet, WillSet
    <3> QED
      BY <1>1, <3>1, <3>2 DEF LevelInv, Overwritten
  <2> QED
    BY <2>1, <2>2 DEF Threads
<1>9. TunerInv'
  <2>1. CASE t = "main"
    BY <1>1, <1>3, <2>1 DEF TunerInv, WillApply
  <2>2. CASE t = "queue"
    BY <1>1, <1>4, <2>2 DEF TunerInv, WillApply
  <2> QED
    BY <2>1, <2>2 DEF Threads
<1> QED
  BY <1>1, <1>6, <1>7, <1>8, <1>9 DEF ReloadInv

\* parseLogLevel() and parseCrashPadSettings(): Config gets no older, and the thread
\* has still to pass on what it has changed.
LEMMA ParseKeeps ==
  ASSUME ReloadInv, NEW t \in Threads, Parse(t)
  PROVE  ReloadInv'
<1>1. /\ PlaceInv /\ ValueTypeOK /\ AgeInv /\ LevelInv /\ TunerInv /\ Takes(t, "parse")
      /\ UNCHANGED <<service, file, notice, watching, subscribers, logger, tuner, saw, got, turn>>
  BY DEF ReloadInv, Parse, threads
<1>2. PlaceInv' /\ Moves(t, 1) /\ todo[t] # << >> /\ Head(todo[t]) = "parse"
  BY <1>1, StepPlace
<1>3. /\ Main \in 0..10 /\ Queue \in 0..5 /\ turn \in 1..3 /\ service \in {"client", "agent"}
      /\ (Queue # 0 => watching)
      /\ watching <=> Main < IF service = "client" THEN 1 ELSE 4
  BY <1>1, NextSteps DEF PlaceInv
<1>4. AtParse(t)
  BY <1>1, <1>2, Places DEF Threads
<1>5. ASSUME t = "main"
      PROVE  /\ Main = (IF service = "client" THEN 9 ELSE 7)
             /\ Queue = 0 /\ Queue' = 0 /\ Main' = Main - 1
  BY <1>2, <1>3, <1>4, <1>5 DEF Moves, AtParse
<1>6. ASSUME t = "queue"
      PROVE  /\ turn = 2 /\ Queue = 4 /\ Queue' = 3 /\ Main' = Main
             /\ Main < IF service = "client" THEN 1 ELSE 4
  BY <1>2, <1>3, <1>4, <1>6 DEF Moves, AtParse
<1>7. \A u \in Threads : ~AtParse(u)'
  <2>1. CASE t = "main"
    BY <1>1, <1>5, <2>1 DEF AtParse
  <2>2. CASE t = "queue"
    BY <1>1, <1>3, <1>6, <2>2 DEF AtParse
  <2> QED
    BY <2>1, <2>2 DEF Threads
<1>8. /\ saw[t] \in Files /\ level <= saw[t].version /\ saw[t].version <= file.version
      /\ \A k \in CrashKeys : Of(crash[k]) <= saw[t].version /\ tuner[k] <= Of(crash[k])
  BY <1>1, <1>4, Numbers DEF AgeInv
<1>9. level' = level \/ level' = saw[t].version
  BY <1>1 DEF Parse, config, ParsedLevel
<1>10. /\ crash' \in [CrashKeys -> -MaxVersion..MaxVersion]
       /\ \A k \in CrashKeys : crash'[k] = crash[k] \/ crash'[k] = CrashValue(saw[t], k)
  <2>1. \A k \in CrashKeys : crash[k] \in -MaxVersion..MaxVersion
                             /\ CrashValue(saw[t], k) \in -MaxVersion..MaxVersion
    BY <1>1, <1>8, Numbers, ValuesOfFile
  <2>2. CASE saw[t].shape.kind = "scalar"
    BY <1>1, <2>2 DEF Parse, config, ValueTypeOK
  <2>3. CASE saw[t].shape.kind # "scalar"
    <3>1. crash' = ParsedCrash(saw[t])
      BY <2>3 DEF Parse
    <3> QED
      BY <2>1, <3>1 DEF ParsedCrash
  <2> QED
    BY <2>2, <2>3
<1>11. alive' \in BOOLEAN /\ level' \in Versions
  BY <1>1, <1>8, <1>9 DEF Parse, ValueTypeOK, Files
<1>12. level' \in 0..MaxVersion /\ level <= level' /\ level' <= file.version
  BY <1>1, <1>8, <1>9, Numbers DEF AgeInv
<1>13. \A k \in CrashKeys : Of(crash[k]) <= Of(crash'[k]) /\ Of(crash'[k]) <= file.version
                            /\ tuner[k] <= Of(crash'[k])
  <2> TAKE k \in CrashKeys
  <2>1. /\ Of(crash[k]) \in 0..MaxVersion /\ tuner[k] \in 0..MaxVersion
        /\ saw[t].version \in 0..MaxVersion /\ file.version \in 0..MaxVersion
        /\ Of(CrashValue(saw[t], k)) = saw[t].version
        /\ Of(crash[k]) <= saw[t].version /\ tuner[k] <= Of(crash[k])
        /\ crash'[k] = crash[k] \/ crash'[k] = CrashValue(saw[t], k)
    BY <1>1, <1>8, <1>10, Numbers, ValuesOfFile
  <2>2. CASE crash'[k] = crash[k]
    BY <1>8, <2>1, <2>2
  <2>3. CASE crash'[k] = CrashValue(saw[t], k)
    BY <1>8, <2>1, <2>3
  <2> QED
    BY <2>1, <2>2, <2>3
<1>14. ValueTypeOK'
  BY <1>1, <1>10, <1>11 DEF ValueTypeOK
<1>15. AgeInv'
  BY <1>1, <1>7, <1>12, <1>13, Numbers DEF AgeInv
<1>16. LevelInv'
  <2>1. CASE t = "main"
    <3>1. WillSet("main")' /\ ~AtSet("main")' /\ ~AtSet("queue")'
      BY <1>1, <1>3, <1>5, <2>1 DEF WillSet, AtSet
    <3> QED
      BY <3>1 DEF LevelInv
  <2>2. CASE t = "queue"
    <3>1. WillSet("queue")' /\ ~AtSet("queue")' /\ (AtSet("main")' <=> AtSet("main"))
      BY <1>1, <1>3, <1>6, <2>2 DEF WillSet, AtSet
    <3>2. ASSUME AtSet("main")
          PROVE  service = "agent" /\ got["main"] <= level /\ got["main"] \in 0..MaxVersion
      <4>1. service = "agent"
        BY <1>3, <1>6, <2>2, <3>2 DEF AtSet
      <4>2. got["main"] \in 0..MaxVersion /\ level \in 0..MaxVersion
        BY <1>1, Numbers DEF Threads
      <4>3. got["main"] = level \/ got["main"] < level
        BY <1>1, <3>2 DEF LevelInv, Overwritten
      <4> QED
        BY <4>1, <4>2, <4>3
    <3>3. AtSet("main")' => got'["main"] = level' \/ Overwritten(got["main"])'
      <4>1. SUFFICES ASSUME AtSet("main"), got["main"] # level'
                     PROVE  Overwritten(got["main"])'
        BY <1>1, <3>1
      <4>2. got["main"] < level'
        BY <1>1, <1>12, <3>2, <4>1, Numbers
      <4> QED
        BY <1>1, <3>1, <3>2, <4>1, <4>2 DEF Overwritten
    <3> QED
      BY <3>1, <3>3 DEF LevelInv
  <2> QED
    BY <2>1, <2>2 DEF Threads
<1>17. TunerInv'
  <2>1. CASE t = "main"
    BY <1>1, <1>5, <2>1 DEF TunerInv, WillApply
  <2>2. CASE t = "queue"
    BY <1>1, <1>6, <2>2 DEF TunerInv, WillApply
  <2> QED
    BY <2>1, <2>2 DEF Threads
<1> QED
  BY <1>2, <1>14, <1>15, <1>16, <1>17 DEF ReloadInv

\* getLogLevel(): the thread has the level of Config in hand.
LEMMA FetchKeeps ==
  ASSUME ReloadInv, NEW t \in Threads, Fetch(t)
  PROVE  ReloadInv'
<1>1. /\ PlaceInv /\ ValueTypeOK /\ AgeInv /\ LevelInv /\ TunerInv /\ Takes(t, "fetch")
      /\ UNCHANGED <<service, alive, file, notice, watching, subscribers, level, crash,
                     logger, tuner, saw, turn>>
      /\ got' = [got EXCEPT ![t] = level]
  BY DEF ReloadInv, Fetch, config
<1>2. PlaceInv' /\ Moves(t, 1) /\ todo[t] # << >> /\ Head(todo[t]) = "fetch"
  BY <1>1, StepPlace
<1>3. Main \in 0..10 /\ Queue \in 0..5 /\ turn \in 1..3 /\ service \in {"client", "agent"}
  BY <1>1, NextSteps DEF PlaceInv
<1>4. ASSUME t = "main"
      PROVE  /\ Main \in (IF service = "client" THEN {8, 6} ELSE {6, 2})
             /\ Queue' = Queue /\ Main' = Main - 1
  BY <1>2, <1>4, <1>1, Places DEF Moves
<1>5. ASSUME t = "queue"
      PROVE  /\ (turn = 2 /\ Queue = 3) \/ (turn = 3 /\ Queue = 4)
             /\ Queue' = Queue - 1 /\ Main' = Main
  BY <1>2, <1>5, <1>1, Places DEF Moves
<1>6. /\ got' \in [Threads -> Versions] /\ got'[t] = level
      /\ \A u \in Threads : u # t => got'[u] = got[u]
  BY <1>1 DEF ValueTypeOK
<1>7. ValueTypeOK'
  BY <1>1, <1>6 DEF ValueTypeOK
<1>8. AgeInv'
  <2>1. \A u \in Threads : AtParse(u)' => AtParse(u)
    <3>1. CASE t = "main"
      BY <1>1, <1>4, <3>1 DEF AtParse
    <3>2. CASE t = "queue"
      BY <1>1, <1>5, <3>2 DEF AtParse
    <3> QED
      BY <3>1, <3>2 DEF Threads
  <2> QED
    BY <1>1, <2>1 DEF AgeInv
<1>9. LevelInv'
  <2>1. CASE t = "main"
    <3>1. WillSet("main")' /\ got'["main"] = level' /\ got'["queue"] = got["queue"]
      BY <1>1, <1>3, <1>4, <1>6, <2>1 DEF WillSet, Threads
    <3>2. AtSet("queue")' <=> AtSet("queue")
      BY <1>1, <1>4, <2>1 DEF AtSet
    <3> QED
      BY <1>1, <3>1, <3>2 DEF LevelInv
  <2>2. CASE t = "queue"
    <3>1. WillSet("queue")' /\ got'["queue"] = level' /\ got'["main"] = got["main"]
      BY <1>1, <1>3, <1>5, <1>6, <2>2 DEF WillSet, Threads
    <3>2. AtSet("main")' <=> AtSet("main")
      BY <1>1, <1>5, <2>2 DEF AtSet
    <3> QED
      BY <1>1, <3>1, <3>2 DEF LevelInv, Overwritten
  <2> QED
    BY <2>1, <2>2 DEF Threads
<1>10. TunerInv'
  <2>1. CASE t = "main"
    BY <1>1, <1>3, <1>4, <2>1 DEF TunerInv, WillApply
  <2>2. CASE t = "queue"
    BY <1>1, <1>3, <1>5, <2>2 DEF TunerInv, WillApply
  <2> QED
    BY <2>1, <2>2 DEF Threads
<1> QED
  BY <1>2, <1>7, <1>8, <1>9, <1>10 DEF ReloadInv

\* SetLogLevel(): the logger gets the level of Config, but in the agent perhaps one
\* that the queue has replaced; in the client it gets no older.
LEMMA SetKeeps ==
  ASSUME ReloadInv, NEW t \in Threads, SetLogLevel(t)
  PROVE  ReloadInv' /\ (service = "client" => logger' >= logger) /\ tuner' = tuner
<1>1. /\ PlaceInv /\ ValueTypeOK /\ AgeInv /\ LevelInv /\ TunerInv /\ Takes(t, "set")
      /\ UNCHANGED <<service, alive, file, notice, watching, subscribers, level, crash,
                     tuner, saw, got, turn>>
      /\ logger' = got[t]
  BY DEF ReloadInv, SetLogLevel, config, threads
<1>2. PlaceInv' /\ Moves(t, 1) /\ todo[t] # << >> /\ Head(todo[t]) = "set"
  BY <1>1, StepPlace
<1>3. Main \in 0..10 /\ Queue \in 0..5 /\ turn \in 1..3 /\ service \in {"client", "agent"}
  BY <1>1, NextSteps DEF PlaceInv
<1>4. AtSet(t)
  BY <1>1, <1>2, Places DEF Threads
<1>5. ASSUME t = "main"
      PROVE  /\ Main \in (IF service = "client" THEN {7, 5} ELSE {5, 1})
             /\ Queue' = Queue /\ Main' = Main - 1
  BY <1>2, <1>4, <1>5 DEF Moves, AtSet
<1>6. ASSUME t = "queue"
      PROVE  /\ (turn = 2 /\ Queue = 2) \/ (turn = 3 /\ Queue = 3)
             /\ Queue' = Queue - 1 /\ Main' = Main
  BY <1>2, <1>4, <1>6 DEF Moves, AtSet
<1>7. logger' = level \/ (t = "main" /\ Overwritten(got["main"]))
  BY <1>1, <1>4 DEF LevelInv, Threads
<1>8. /\ level \in 0..MaxVersion /\ got[t] \in 0..MaxVersion /\ logger \in -1..MaxVersion
      /\ MaxVersion \in Nat
  BY <1>1, Numbers
<1>9. ASSUME service = "client"
      PROVE  logger' = level /\ logger <= level /\ logger' >= logger
  <2>1. logger' = level
    BY <1>7, <1>9 DEF Overwritten
  <2> QED
    BY <1>1, <1>8, <1>9, <2>1 DEF AgeInv
<1>10. ValueTypeOK'
  <2>1. logger' \in -1..MaxVersion
    BY <1>1, <1>8
  <2> QED
    BY <1>1, <2>1 DEF ValueTypeOK
<1>11. AgeInv'
  <2>1. \A u \in Threads : AtParse(u)' => AtParse(u)
    <3>1. CASE t = "main"
      BY <1>1, <1>5, <3>1 DEF AtParse
    <3>2. CASE t = "queue"
      BY <1>1, <1>6, <3>2 DEF AtParse
    <3> QED
      BY <3>1, <3>2 DEF Threads
  <2>2. service = "client" => logger' <= level
    BY <1>8, <1>9
  <2> QED
    BY <1>1, <2>1, <2>2 DEF AgeInv
<1>12. LevelInv'
  <2>1. CASE t = "main"
    <3>1. ~AtSet("main")' /\ (AtSet("queue")' <=> AtSet("queue"))
          /\ (WillSet("queue")' <=> WillSet("queue"))
      BY <1>1, <1>3, <1>5, <2>1 DEF WillSet, AtSet
    <3>2. logger' = level' \/ (logger' = got'["main"] /\ Overwritten(logger)')
      <4>1. CASE logger' = level
        BY <1>1, <4>1
      <4>2. CASE Overwritten(got["main"])
        BY <1>1, <2>1, <3>1, <4>2 DEF Overwritten
      <4> QED
        BY <1>7, <4>1, <4>2
    <3> QED
      BY <1>1, <3>1, <3>2 DEF LevelInv
  <2>2. CASE t = "queue"
    <3>1. ~AtSet("queue")' /\ (AtSet("main")' <=> AtSet("main"))
      BY <1>1, <1>3, <1>6, <2>2 DEF AtSet
    <3>2. logger' = level' /\ got'["queue"] = level'
      BY <1>1, <1>4, <1>7, <2>2 DEF LevelInv
    <3>3. Overwritten(got["main"]) => Overwritten(got["main"])'
      BY <1>1, <3>2 DEF Overwritten
    <3> QED
      BY <1>1, <3>1, <3>2, <3>3 DEF LevelInv
  <2> QED
    BY <2>1, <2>2 DEF Threads
<1>13. TunerInv'
  <2>1. CASE t = "main"
    BY <1>1, <1>3, <1>5, <2>1 DEF TunerInv, WillApply
  <2>2. CASE t = "queue"
    BY <1>1, <1>3, <1>6, <2>2 DEF TunerInv, WillApply
  <2> QED
    BY <2>1, <2>2 DEF Threads
<1> QED
  BY <1>1, <1>2, <1>9, <1>10, <1>11, <1>12, <1>13 DEF ReloadInv

\* applyCrashpadSettings(): the tuner gets what Config holds and no setting gets older.
LEMMA ApplyKeeps ==
  ASSUME ReloadInv, NEW t \in Threads, ApplyCrashpadSettings(t)
  PROVE  ReloadInv' /\ logger' = logger /\ \A k \in CrashKeys : tuner'[k] >= tuner[k]
<1>1. /\ PlaceInv /\ ValueTypeOK /\ AgeInv /\ LevelInv /\ TunerInv /\ Takes(t, "crash")
      /\ UNCHANGED <<service, alive, file, notice, watching, subscribers, level, crash,
                     logger, saw, got, turn>>
      /\ tuner' = [k \in CrashKeys |-> IF crash[k] > 0 THEN crash[k] ELSE tuner[k]]
  BY DEF ReloadInv, ApplyCrashpadSettings, config, threads
<1>2. PlaceInv' /\ Moves(t, 1) /\ todo[t] # << >> /\ Head(todo[t]) = "crash"
  BY <1>1, StepPlace
<1>3. Main \in 0..10 /\ Queue \in 0..5 /\ turn \in 1..3 /\ service \in {"client", "agent"}
  BY <1>1, NextSteps DEF PlaceInv
<1>4. ASSUME t = "main"
      PROVE  Main = 4 /\ service = "client" /\ Queue' = Queue /\ Main' = 3
  BY <1>2, <1>4, <1>1, Places DEF Moves
<1>5. ASSUME t = "queue"
      PROVE  turn = 3 /\ Queue = 2 /\ Queue' = 1 /\ Main' = Main
  BY <1>2, <1>5, <1>1, Places DEF Moves
<1>6. \A k \in CrashKeys : /\ tuner'[k] \in Versions /\ tuner'[k] >= tuner[k]
                           /\ tuner'[k] <= Of(crash[k])
                           /\ crash[k] > 0 => tuner'[k] = crash[k]
  <2> TAKE k \in CrashKeys
  <2>1. /\ tuner'[k] = IF crash[k] > 0 THEN crash[k] ELSE tuner[k]
        /\ MaxVersion \in Nat /\ crash[k] \in -MaxVersion..MaxVersion
        /\ tuner[k] \in 0..MaxVersion /\ tuner[k] <= Of(crash[k])
    BY <1>1, Numbers DEF AgeInv
  <2> QED
    BY <2>1 DEF Of, Versions
<1>7. ValueTypeOK'
  BY <1>1, <1>6 DEF ValueTypeOK
<1>8. AgeInv'
  <2>1. \A u \in Threads : AtParse(u)' => AtParse(u)
    <3>1. CASE t = "main"
      BY <1>1, <1>4, <3>1 DEF AtParse
    <3>2. CASE t = "queue"
      BY <1>1, <1>5, <3>2 DEF AtParse
    <3> QED
      BY <3>1, <3>2 DEF Threads
  <2> QED
    BY <1>1, <1>6, <2>1 DEF AgeInv
<1>9. LevelInv'
  <2>1. CASE t = "main"
    BY <1>1, <1>4, <2>1 DEF LevelInv, AtSet, WillSet, Overwritten
  <2>2. CASE t = "queue"
    BY <1>1, <1>5, <2>2 DEF LevelInv, AtSet, WillSet, Overwritten
  <2> QED
    BY <2>1, <2>2 DEF Threads
<1>10. TunerInv'
  BY <1>1, <1>6 DEF TunerInv
<1> QED
  BY <1>1, <1>2, <1>6, <1>7, <1>8, <1>9, <1>10 DEF ReloadInv

\* A step that changes no value, but for the file, and leaves the threads where they
\* have as much to do with them as before.
LEMMA ValuesKeep ==
  ASSUME ReloadInv, PlaceInv',
         UNCHANGED <<service, level, crash, logger, tuner, saw, got>>,
         alive' \in BOOLEAN, notice' \in {"none", "changed", "dropped"},
         file' \in Files, file'.version >= file.version,
         \A t \in Threads : (AtParse(t)' => AtParse(t)) /\ (AtSet(t)' => AtSet(t))
                            /\ (WillSet(t) => WillSet(t)'),
         service = "client" /\ WillApply => WillApply'
  PROVE  ReloadInv'
<1>1. /\ ValueTypeOK /\ AgeInv /\ LevelInv /\ TunerInv
      /\ "main" \in Threads /\ "queue" \in Threads
  BY DEF ReloadInv, Threads
<1>2. /\ file.version \in 1..MaxVersion /\ file'.version \in 0..MaxVersion /\ MaxVersion \in Nat
      /\ level \in 0..MaxVersion
      /\ \A k \in CrashKeys : Of(crash[k]) \in 0..MaxVersion
      /\ \A t \in Threads : saw[t].version \in 0..MaxVersion
  BY <1>1, Numbers DEF Files, Versions
<1>3. ValueTypeOK'
  BY <1>1, <1>2 DEF ValueTypeOK
<1>4. AgeInv'
  BY <1>1, <1>2 DEF AgeInv
<1>5. LevelInv'
  BY <1>1 DEF LevelInv, Overwritten
<1>6. TunerInv'
  BY <1>1 DEF TunerInv
<1> QED
  BY <1>3, <1>4, <1>5, <1>6 DEF ReloadInv

\* The subscriptions and the watch change no value.
LEMMA StartKeeps ==
  ASSUME ReloadInv, AddSubscriber \/ Watch
  PROVE  ReloadInv'
<1>1. PlaceInv /\ ValueTypeOK
  BY DEF ReloadInv
<1>2. /\ UNCHANGED <<service, alive, file, notice, level, crash, logger, tuner, saw, got, turn>>
      /\ file' \in Files /\ file'.version >= file.version /\ alive' \in BOOLEAN
      /\ notice' \in {"none", "changed", "dropped"}
  BY <1>1, Numbers DEF ValueTypeOK, AddSubscriber, Watch, config, threads
<1>3. /\ PlaceInv' /\ Moves("main", 1)
      /\ IF service = "client" THEN Main \in {1, 2, 3} ELSE Main \in {3, 4}
  <2>1. CASE AddSubscriber
    BY <1>1, <2>1, AddPlace DEF PlaceInv
  <2>2. CASE Watch
    BY <1>1, <2>2, WatchPlace DEF PlaceInv
  <2> QED
    BY <2>1, <2>2
<1>4. Main' = Main - 1 /\ Queue' = Queue /\ turn' = turn /\ service \in {"client", "agent"}
  BY <1>1, <1>3 DEF Moves, PlaceInv
<1>5. \A t \in Threads : (AtParse(t)' => AtParse(t)) /\ (AtSet(t)' => AtSet(t))
                         /\ (WillSet(t) => WillSet(t)')
  BY <1>2, <1>3, <1>4 DEF Threads, AtParse, AtSet, WillSet
<1>6. service = "client" /\ WillApply => WillApply'
  BY <1>3, <1>4 DEF WillApply
<1> QED
  BY <1>2, <1>3, <1>5, <1>6, ValuesKeep

\* Nor do the rounds of notify_subscribers(), and one ends with nothing left to apply.
LEMMA EventKeeps ==
  ASSUME ReloadInv, Deliver \/ Notify
  PROVE  ReloadInv'
<1>1. PlaceInv /\ ValueTypeOK
  BY DEF ReloadInv
<1>2. /\ UNCHANGED <<service, alive, file, level, crash, logger, tuner, saw, got>>
      /\ file' \in Files /\ file'.version >= file.version /\ alive' \in BOOLEAN
      /\ notice' \in {"none", "changed", "dropped"}
  BY <1>1, Numbers DEF ValueTypeOK, Deliver, Notify, config, threads
<1>3. /\ PlaceInv' /\ Main' = Main
      /\ \/ Queue = 0 /\ turn' = 1 /\ Queue' = 1
         \/ Queue = 1 /\ turn = 1 /\ turn' = 2 /\ Queue' = 5
         \/ Queue = 1 /\ turn = 2 /\ turn' = 3 /\ Queue' = 4
         \/ Queue = 1 /\ turn' = turn /\ Queue' = 0 /\ (turn = 2 => service = "agent")
  <2>1. CASE Deliver
    BY <1>1, <2>1, DeliverPlace
  <2>2. CASE Notify
    BY <1>1, <2>2, NotifyPlace
  <2> QED
    BY <2>1, <2>2
<1>4. \A t \in Threads : (AtParse(t)' => AtParse(t)) /\ (AtSet(t)' => AtSet(t))
                         /\ (WillSet(t) => WillSet(t)')
  BY <1>2, <1>3 DEF Threads, AtParse, AtSet, WillSet
<1>5. service = "client" /\ WillApply => WillApply'
  BY <1>3 DEF WillApply
<1> QED
  BY <1>2, <1>3, <1>4, <1>5, ValuesKeep

\* A file that is written, and an event that is dropped, change nothing in the service.
LEMMA FileKeeps ==
  ASSUME ReloadInv, (\E shape \in Shapes : Write(shape)) \/ Drop \/ UNCHANGED vars
  PROVE  ReloadInv'
<1>1. PlaceInv /\ ValueTypeOK
  BY DEF ReloadInv
<1>2. PlaceInv' /\ service' = service /\ turn' = turn /\ Main' = Main /\ Queue' = Queue
  BY <1>1, FilePlace
<1>3. /\ UNCHANGED <<alive, level, crash, logger, tuner, saw, got>>
      /\ notice' \in {"none", "changed", "dropped"} /\ alive' \in BOOLEAN
  BY <1>1 DEF ValueTypeOK, Write, Drop, vars, config, threads
<1>4. file' \in Files /\ file'.version >= file.version
  <2>1. file.version \in 1..MaxVersion /\ MaxVersion \in Nat /\ file \in Files
    BY <1>1, Numbers DEF ValueTypeOK
  <2>2. CASE \E shape \in Shapes : Write(shape)
    BY <2>1, <2>2 DEF Write, Files, Versions
  <2>3. CASE Drop \/ UNCHANGED vars
    BY <2>1, <2>3 DEF Drop, vars
  <2> QED
    BY <2>2, <2>3
<1>5. \A t \in Threads : (AtParse(t)' <=> AtParse(t)) /\ (AtSet(t)' <=> AtSet(t))
                         /\ (WillSet(t)' <=> WillSet(t))
  BY <1>2 DEF AtParse, AtSet, WillSet
<1>6. WillApply' <=> WillApply
  BY <1>2 DEF WillApply
<1> QED
  BY <1>2, <1>3, <1>4, <1>5, <1>6, ValuesKeep

-------------------------------------------------------------------------------
(* Theorems *)

\* Every step keeps the invariant, and in the client no setting in use gets older.
LEMMA ReloadStep ==
  ASSUME ReloadInv, [Next]_vars
  PROVE  /\ ReloadInv'
         /\ service = "client" => /\ logger' >= logger
                                  /\ \A k \in CrashKeys : tuner'[k] >= tuner[k]
<1>1. /\ logger \in Int /\ \A k \in CrashKeys : tuner[k] \in Int
      /\ "main" \in Threads /\ "queue" \in Threads
  BY Numbers DEF ReloadInv, Threads
<1>2. ASSUME NEW t \in Threads, ThreadStep(t)
      PROVE  /\ ReloadInv'
             /\ service = "client" => /\ logger' >= logger
                                      /\ \A k \in CrashKeys : tuner'[k] >= tuner[k]
  <2>1. CASE Read(t)
    BY <1>1, <2>1, ReadKeeps DEF Read
  <2>2. CASE Parse(t)
    <3>1. logger' = logger /\ tuner' = tuner
      BY <2>2 DEF Parse
    <3> QED
      BY <1>1, <2>2, <3>1, ParseKeeps
  <2>3. CASE Fetch(t)
    <3>1. logger' = logger /\ tuner' = tuner
      BY <2>3 DEF Fetch
    <3> QED
      BY <1>1, <2>3, <3>1, FetchKeeps
  <2>4. CASE SetLogLevel(t)
    BY <1>1, <2>4, SetKeeps
  <2>5. CASE ApplyCrashpadSettings(t)
    BY <1>1, <2>5, ApplyKeeps
  <2> QED
    BY <1>2, <2>1, <2>2, <2>3, <2>4, <2>5 DEF ThreadStep
<1>3. CASE AddSubscriber \/ Watch
  <2>1. logger' = logger /\ tuner' = tuner
    BY <1>3 DEF AddSubscriber, Watch
  <2> QED
    BY <1>1, <1>3, <2>1, StartKeeps
<1>4. CASE Deliver \/ Notify
  BY <1>1, <1>4, EventKeeps DEF Deliver, Notify
<1>5. CASE (\E shape \in Shapes : Write(shape)) \/ Drop \/ UNCHANGED vars
  BY <1>1, <1>5, FileKeeps DEF Write, Drop, vars
<1> QED
  BY <1>1, <1>2, <1>3, <1>4, <1>5 DEF Next, MainStep, QueueStep

\* Wherever the two threads are, what Config, the logger and the crashpad tuner hold
\* is what was read last, or a step that is still to come makes it so.
THEOREM ReloadCorrect == Spec => []ReloadInv
<1>1. Init => ReloadInv
  BY ReloadStart
<1>2. ReloadInv /\ [Next]_vars => ReloadInv'
  BY ReloadStep
<1> QED
  BY <1>1, <1>2, PTL DEF Spec

\* Every variable has its type, in the steps of either service: no value is used
\* before it has been given one, and no thread falls off its list.
THEOREM ReloadTypes == Spec => []TypeOK
<1>1. ReloadInv => TypeOK
  <2> SUFFICES ASSUME ReloadInv
               PROVE  TypeOK
    OBVIOUS
  <2>1. turn \in Nat
    BY DEF ReloadInv, PlaceInv
  <2> QED
    BY <2>1 DEF ReloadInv, PlaceInv, ValueTypeOK, TypeOK
<1> QED
  BY <1>1, ReloadCorrect, PTL

\* Once start() has done its work and no event is being handled, the logger and the
\* crashpad tuner work with what Config holds, but for the exception that
\* SettingsAgree names.
THEOREM SettledSettingsAgree == Spec => []SettingsAgree
<1>1. ReloadInv => SettingsAgree
  <2> SUFFICES ASSUME ReloadInv, Settled
               PROVE  /\ \/ logger = level
                         \/ /\ service = "agent" /\ got["queue"] = level
                            /\ logger = got["main"] /\ logger < level
                      /\ service = "client" =>
                           \A k \in CrashKeys : crash[k] > 0 => tuner[k] = crash[k]
    BY DEF SettingsAgree
  <2>1. PlaceInv /\ LevelInv /\ TunerInv
    BY DEF ReloadInv
  <2>2. Main = 0 /\ Queue = 0
    BY <2>1, NextSteps DEF Settled, Threads
  <2>3. ~WillSet("main") /\ ~WillSet("queue") /\ ~WillApply
    BY <2>1, <2>2 DEF WillSet, WillApply
  <2> QED
    BY <2>1, <2>3 DEF LevelInv, TunerInv, Overwritten
<1> QED
  BY <1>1, ReloadCorrect, PTL

\* In the client no setting in use gives way to one of an older file.
THEOREM ClientGoesForward == Spec => ClientNeverGoesBack
<1>1. ReloadInv /\ [Next]_vars =>
        [service = "client" => /\ logger' >= logger
                               /\ \A k \in CrashKeys : tuner'[k] >= tuner[k]]_vars
  BY ReloadStep
<1> QED
  BY <1>1, ReloadCorrect, PTL DEF Spec, ClientNeverGoesBack
===============================================================================
