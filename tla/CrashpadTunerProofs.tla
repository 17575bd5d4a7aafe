-------------------------- MODULE CrashpadTunerProofs --------------------------
(***************************************************************************)
(* What holds of CrashpadTuner for every list of proxies, every set of     *)
(* settings and whatever fails: the settings of the database are those of  *)
(* the tuner (StoredAgrees), and an accepted proxy is in use, whole        *)
(* (AcceptedIsInUse).                                                      *)
(***************************************************************************)
EXTENDS CrashpadTuner, TLAPS

-------------------------------------------------------------------------------
(* Proxies *)

\* The indices of a list are natural numbers.
LEMMA ListIndices == \A list \in Lists : DOMAIN list \subseteq Nat
<1> TAKE list \in Lists
<1>1. list \in Seq(Records)
  BY TunerAssumption
<1> QED
  BY <1>1

\* What a list leads to are found proxies, at places of the list.
LEMMA CandidatesAreFound ==
  ASSUME NEW list \in Lists
  PROVE  /\ DOMAIN Candidates(list) \subseteq Nat
         /\ \A i \in DOMAIN Candidates(list) : Candidates(list)[i] \in Found
<1>1. DOMAIN Candidates(list) \subseteq Nat
  BY ListIndices DEF Candidates
<1>2. \A i \in DOMAIN Candidates(list) : Candidates(list)[i] \in Found
  BY DEF Found
<1> QED
  BY <1>1, <1>2

\* A proxy found is the one that is none, or what a record was converted to.
LEMMA FoundIsConverted ==
  ASSUME NEW p \in Found, p # NoProxy
  PROVE  \E r : Supported(r) /\ p = Convert(r)
<1>1. PICK list \in Lists :
        p \in {Candidates(list)[i] : i \in DOMAIN Candidates(list)}
  BY DEF Found
<1>2. PICK i \in DOMAIN Candidates(list) : p = Candidates(list)[i]
  BY <1>1
<1> DEFINE supported == {j \in DOMAIN list : Supported(list[j])}
<1>3. supported # {}
  BY <1>2 DEF Candidates
<1>4. i \in supported /\ p = Convert(list[i])
  BY <1>2, <1>3 DEF Candidates
<1> QED
  BY <1>4

\* Converting never gives the type that is none.
LEMMA ConvertedHasType ==
  ASSUME NEW r, Supported(r) PROVE CrashpadType[r.type] # "none"
BY DEF Supported, CrashpadType

\* A proxy found has the four fields, and if its type is none it is NoProxy.
LEMMA FoundIsProxy ==
  ASSUME NEW p \in Found
  PROVE  p \in Proxies /\ (p.type = "none" => p = NoProxy)
<1>1. CASE p = NoProxy
  BY <1>1 DEF NoProxy, Proxies
<1>2. CASE p # NoProxy
  <2>1. PICK r : Supported(r) /\ p = Convert(r)
    BY <1>2, FoundIsConverted
  <2>2. p.type # "none"
    BY <2>1, ConvertedHasType DEF Convert
  <2>3. p = [type |-> p.type, host |-> p.host, port |-> p.port, auth |-> p.auth]
    BY <2>1 DEF Convert
  <2>4. p \in Proxies
    BY <2>3 DEF Proxies
  <2> QED
    BY <2>2, <2>4
<1> QED
  BY <1>1, <1>2

\* Two proxies with the same fields are the same.
LEMMA SameProxy ==
  ASSUME NEW p \in Proxies, NEW q \in Proxies,
         p["type"] = q["type"], p["host"] = q["host"],
         p["port"] = q["port"], p["auth"] = q["auth"]
  PROVE  p = q
BY DEF Proxies

-------------------------------------------------------------------------------
(* The inductive invariant *)

\* Where main() is says what can be there, getUploadUrl() is called between two
\* searches, and with a database the member proxy_ is never anything but none.
PhaseInv ==
  /\ main \in {"init", "ended"} => database = "none"
  /\ main \in {"init", "watch", "ended"} => engine = "idle" /\ watcher = "off"
  /\ watcher = "asking" => engine = "idle"
  /\ main \in {"init", "ended"} \/ database # "none" => proxy = NoProxy

\* The fields of p that have been written when those of l are left.
HasWritten(p, l) ==
  \/ l = Writes(p)
  \/ /\ p.type # "none" /\ fields.type = p.type
     /\ \/ l = <<"host", "port", "auth">>
        \/ l = <<"port", "auth">> /\ fields.host = p.host
        \/ l = <<"auth">> /\ fields.host = p.host /\ fields.port = p.port

\* While fields are left, the others are those of the proxy that is being set.
WritingInv ==
  /\ left # << >> => /\ engine = "updating" /\ database # "none"
                     /\ HasWritten(answer[turn], left)
  /\ engine = "updating" => ~accepted

\* An accepted proxy is one of the answer, and the first unless a write failed.
TurnInv ==
  engine = "updating" \/ accepted =>
    /\ turn \in DOMAIN answer
    /\ "write" \notin faults => IsFirst(turn, DOMAIN answer)

\* As AcceptedIsInUse, in the words of the prover.
AcceptedInv ==
  accepted => InUse = answer[turn] \/ ("read" \in faults /\ answer[turn] = NoProxy)

ProxyInv == TypeOK /\ PhaseInv /\ WritingInv /\ TurnInv /\ AcceptedInv

\* ProxyInv holds before the service starts for the first time.
LEMMA InitProxyInv == Init => ProxyInv
<1> SUFFICES ASSUME Init PROVE ProxyInv
  OBVIOUS
<1>1. NoProxy \in Found
  BY DEF Found
<1>2. NoProxy \in Proxies
  BY <1>1, FoundIsProxy
<1>3. member \in [Settings -> 0..MaxValue] /\ stored \in [Settings -> 0..MaxValue]
  BY TunerAssumption DEF Init
<1>4. DOMAIN answer = {} /\ left \in Seq(Fields)
  BY DEF Init
<1>5. TypeOK
  BY <1>1, <1>2, <1>3, <1>4, TunerAssumption DEF Init, TypeOK
<1>6. PhaseInv /\ WritingInv /\ TurnInv /\ AcceptedInv
  BY DEF Init, PhaseInv, WritingInv, TurnInv, AcceptedInv
<1> QED
  BY <1>5, <1>6 DEF ProxyInv

\* Starting the service keeps the invariant.
LEMMA StartKeepsProxyInv ==
  ASSUME ProxyInv, MainStep PROVE ProxyInv'
<1> USE DEF ProxyInv, TypeOK, PhaseInv, WritingInv, TurnInv, AcceptedInv
<1>1. CASE InitDatabase
  <2>1. PICK saved \in SUBSET (Settings \cup {"proxy"}) : SetupSettings(saved)
    BY <1>1 DEF InitDatabase
  <2>2. NoProxy \in Found /\ NoProxy.type = "none"
    BY DEF Found, NoProxy
  <2>3. fields' \in Proxies
    BY <2>1, <2>2 DEF Proxies, SetupSettings
  <2>4. /\ database' \in {"open", "served"} /\ stored' \in [Settings -> 0..MaxValue]
        /\ unsaved' \subseteq Settings /\ faults' \subseteq {"read", "write"}
        /\ accepted' \in BOOLEAN
    BY <1>1, <2>1 DEF InitDatabase, SetupSettings
  <2>5. /\ answer' = <<NoProxy>> /\ turn' = 1 /\ left' = << >>
        /\ main = "init" /\ main' = "watch" /\ platform = "macOS"
        /\ UNCHANGED <<platform, member, applying, proxy, network, notice, watcher,
                       engine, asked>>
    BY <1>1 DEF InitDatabase
  <2>6. DOMAIN answer' = {1} /\ answer'[1] = NoProxy
    BY <2>5
  <2>7. TypeOK'
    BY <2>2, <2>3, <2>4, <2>5, <2>6
  <2>8. PhaseInv' /\ WritingInv'
    BY <2>4, <2>5
  <2>9. TurnInv'
    BY <2>5, <2>6 DEF IsFirst
  <2>10. AcceptedInv'
    <3>1. accepted' => fields'.type = "none"
      BY <2>1 DEF Proxies, SetupSettings
    <3> QED
      BY <2>4, <2>5, <2>6, <3>1 DEF InUse
  <2> QED
    BY <2>7, <2>8, <2>9, <2>10
<1>2. CASE NoDatabase
  BY <1>2 DEF NoDatabase, InUse, HasWritten, settings, update
<1>3. CASE StartWatcher
  BY <1>3 DEF StartWatcher, InUse, HasWritten, settings, update
<1>4. CASE Subscribe
  BY <1>4 DEF Subscribe, InUse, HasWritten, settings, update
<1> QED
  BY <1>1, <1>2, <1>3, <1>4 DEF MainStep

\* So does setting a value, asking for proxies, a change of the network and
\* the end of the service.
LEMMA OthersKeepProxyInv ==
  ASSUME ProxyInv,
         \/ WatcherStep \/ Crash \/ Restart
         \/ SaveSetting \/ \E s \in Settings, v \in 0..MaxValue : AssignSetting(s, v)
         \/ \E list \in Lists : ChangeNetwork(list)
  PROVE  ProxyInv'
<1> USE DEF ProxyInv, TypeOK, PhaseInv, WritingInv, TurnInv, AcceptedInv,
            settings, update
<1>1. CASE Wake
  BY <1>1 DEF Wake, InUse, HasWritten
<1>2. CASE Ask
  <2>1. asked' \in 0..MaxValue
    BY <1>2, TunerAssumption DEF Ask, UploadUrl
  <2> QED
    BY <1>2, <2>1 DEF Ask, InUse, HasWritten
<1>3. CASE Crash
  <2>1. member' \in [Settings -> 0..MaxValue] /\ asked' \in 0..MaxValue
    BY <1>3, TunerAssumption DEF Crash
  <2>2. DOMAIN answer' = {} /\ left' \in Seq(Fields) /\ NoProxy \in Found
    BY <1>3 DEF Crash, Found
  <2> QED
    BY <1>3, <2>1, <2>2 DEF Crash
<1>4. CASE Restart
  BY <1>4 DEF Restart, InUse, HasWritten
<1>5. ASSUME NEW s \in Settings, NEW v \in 0..MaxValue, AssignSetting(s, v)
      PROVE  ProxyInv'
  <2>1. member' \in [Settings -> 0..MaxValue] /\ applying' \in Settings \cup {"none"}
    BY <1>5 DEF AssignSetting
  <2> QED
    BY <1>5, <2>1 DEF AssignSetting, InUse, HasWritten
<1>6. CASE SaveSetting
  <2>1. /\ stored' \in [Settings -> 0..MaxValue] /\ unsaved' \subseteq Settings
        /\ applying' \in Settings \cup {"none"}
    BY <1>6 DEF SaveSetting
  <2> QED
    BY <1>6, <2>1 DEF SaveSetting, InUse, HasWritten
<1>7. ASSUME NEW list \in Lists, ChangeNetwork(list) PROVE ProxyInv'
  BY <1>7 DEF ChangeNetwork, InUse, HasWritten
<1>8. CASE CopyUrl
  <2>1. asked' \in 0..MaxValue
    BY <1>8, TunerAssumption DEF CopyUrl
  <2> QED
    BY <1>8, <2>1 DEF CopyUrl, InUse, HasWritten
<1> QED
  BY <1>1, <1>2, <1>3, <1>4, <1>5, <1>6, <1>7, <1>8 DEF WatcherStep

\* And so does the callback of the library.
LEMMA EngineKeepsProxyInv ==
  ASSUME ProxyInv, EngineStep PROVE ProxyInv'
<1> USE DEF ProxyInv, TypeOK, PhaseInv, WritingInv, TurnInv, AcceptedInv,
            settings, update
<1>1. CASE Answer
  <2>1. DOMAIN answer' \subseteq Nat /\ \A i \in DOMAIN answer' : answer'[i] \in Found
    BY <1>1, CandidatesAreFound DEF Answer
  <2>2. \/ engine' = "updating" /\ IsFirst(turn', DOMAIN answer')
        \/ engine' = "idle"
    BY <1>1 DEF Answer
  <2>3. IsFirst(turn', DOMAIN answer') => turn' \in DOMAIN answer'
    BY DEF IsFirst
  <2>4. left' = << >> /\ left' \in Seq(Fields) /\ faults' = {} /\ accepted' = FALSE
    BY <1>1 DEF Answer
  <2>5. UNCHANGED <<platform, main, database, settings, proxy, fields, network,
                    notice, watcher>> /\ engine = "searching"
    BY <1>1 DEF Answer
  <2>6. asked' \in 0..MaxValue
    BY <1>1, TunerAssumption DEF Answer
  <2> QED
    BY <2>1, <2>2, <2>3, <2>4, <2>5, <2>6
<1>2. CASE SetProxy
  <2> DEFINE p == answer[turn]
  <2>1. p \in Found /\ p \in Proxies /\ (p.type = "none" => p = NoProxy)
    BY <1>2, FoundIsProxy DEF SetProxy
  <2>2. PICK reads \in BOOLEAN :
          LET writing == database # "none" /\ CurrentProxy(reads) # p IN
          /\ proxy' = IF database = "none" THEN p ELSE proxy
          /\ left' = IF writing THEN Writes(p) ELSE << >>
          /\ engine' = IF writing THEN "updating" ELSE "idle"
          /\ accepted' = ~writing
          /\ faults' = IF database # "none" /\ ~reads THEN faults \cup {"read"}
                                                      ELSE faults
    BY <1>2 DEF SetProxy, May
  <2>3. /\ engine = "updating" /\ left = << >>
        /\ UNCHANGED <<platform, main, database, settings, fields, network, notice,
                       watcher, asked, answer, turn>>
    BY <1>2 DEF SetProxy
  <2>4. Writes(p) \in Seq(Fields) /\ << >> \in Seq(Fields)
    <3>1. <<"type">> \in Seq(Fields) /\ << >> \in Seq(Fields)
      BY DEF Fields
    <3>2. <<"type", "host", "port", "auth">> \in Seq(Fields)
      BY DEF Fields
    <3> QED
      BY <3>1, <3>2 DEF Writes
  <2>5. TypeOK'
    BY <2>1, <2>2, <2>3, <2>4
  <2>6. PhaseInv' /\ TurnInv'
    BY <2>2, <2>3
  <2>7. WritingInv'
    BY <2>2, <2>3 DEF HasWritten
  <2>8. AcceptedInv'
    BY <2>1, <2>2, <2>3 DEF InUse, CurrentProxy
  <2> QED
    BY <2>5, <2>6, <2>7, <2>8
<1>3. CASE WriteField
  <2> DEFINE p == answer[turn]
  <2>1. p \in Proxies /\ (p.type = "none" => p = NoProxy)
    BY <1>3, FoundIsProxy DEF WriteField
  <2>2. HasWritten(p, left) /\ database # "none" /\ left # << >>
    BY <1>3 DEF WriteField
  <2>3. Head(left) \in Fields /\ Tail(left) \in Seq(Fields)
    BY <2>2
  <2>4. fields' \in Proxies
    BY <1>3, <2>1, <2>3 DEF WriteField, Proxies, Fields
  <2>5. \A f \in Fields : fields'[f] = IF f = Head(left) THEN p[f] ELSE fields[f]
    BY <1>3, <2>3 DEF WriteField, Proxies, Fields
  <2>6. CASE p.type = "none"
    <3>1. left = <<"type">>
      BY <2>2, <2>6 DEF HasWritten, Writes
    <3>2. Head(left) = "type" /\ Tail(left) = << >>
      BY <3>1
    <3>3. fields'.type = "none"
      BY <1>3, <2>6, <3>2 DEF WriteField, Proxies
    <3> QED
      BY <1>3, <2>1, <2>2, <2>4, <2>6, <3>2, <3>3 DEF WriteField, InUse
  <2>7. CASE p.type # "none" /\ left = <<"auth">>
    <3>1. Head(left) = "auth" /\ Tail(left) = << >>
      BY <2>7
    <3>2. fields.type = p.type /\ fields.host = p.host /\ fields.port = p.port
      BY <2>2, <2>7 DEF HasWritten, Writes
    <3>3. /\ fields'["type"] = p["type"] /\ fields'["host"] = p["host"]
          /\ fields'["port"] = p["port"] /\ fields'["auth"] = p["auth"]
      BY <2>5, <3>1, <3>2 DEF Fields
    <3>4. fields' = p
      BY <2>1, <2>4, <3>3, SameProxy
    <3>5. /\ left' = << >> /\ accepted' = TRUE /\ engine' = "idle"
          /\ UNCHANGED <<platform, main, database, settings, proxy, network, notice,
                         watcher, asked, answer, turn, faults>>
      BY <1>3, <3>1 DEF WriteField
    <3>6. InUse' = answer'[turn']
      BY <2>2, <2>7, <3>4, <3>5 DEF InUse
    <3> QED
      BY <2>2, <2>3, <2>4, <3>1, <3>5, <3>6
  <2>8. CASE p.type # "none" /\ left # <<"auth">>
    <3>1. /\ Tail(left) # << >>
          /\ \/ /\ Head(left) = "type" /\ Tail(left) = <<"host", "port", "auth">>
             \/ /\ Head(left) = "host" /\ Tail(left) = <<"port", "auth">>
                /\ fields.type = p.type
             \/ /\ Head(left) = "port" /\ Tail(left) = <<"auth">>
                /\ fields.type = p.type /\ fields.host = p.host
      <4>1. CASE left = <<"type", "host", "port", "auth">>
        BY <4>1
      <4>2. CASE left = <<"host", "port", "auth">> /\ fields.type = p.type
        BY <4>2
      <4>3. CASE /\ left = <<"port", "auth">>
                 /\ fields.type = p.type /\ fields.host = p.host
        BY <4>3
      <4> QED
        BY <2>2, <2>8, <4>1, <4>2, <4>3 DEF HasWritten, Writes
    <3>2. /\ left' = Tail(left) /\ accepted' = FALSE /\ engine' = "updating"
          /\ UNCHANGED <<platform, main, database, settings, proxy, network, notice,
                         watcher, asked, answer, turn, faults>>
      BY <1>3, <3>1 DEF WriteField
    <3>3. /\ fields'["type"] = IF Head(left) = "type" THEN p["type"] ELSE fields["type"]
          /\ fields'["host"] = IF Head(left) = "host" THEN p["host"] ELSE fields["host"]
          /\ fields'["port"] = IF Head(left) = "port" THEN p["port"] ELSE fields["port"]
      BY <2>5 DEF Fields
    <3>4. HasWritten(answer[turn], left)'
      BY <2>8, <3>1, <3>2, <3>3 DEF HasWritten
    <3> QED
      BY <2>2, <2>3, <2>4, <3>2, <3>4
  <2> QED
    BY <2>6, <2>7, <2>8
<1>4. CASE FailToWrite
  BY <1>4 DEF FailToWrite, IsFirst, InUse
<1> QED
  BY <1>1, <1>2, <1>3, <1>4 DEF EngineStep

\* And every step keeps it.
LEMMA StepProxyInv == ProxyInv /\ [Next]_vars => ProxyInv'
<1> SUFFICES ASSUME ProxyInv, [Next]_vars PROVE ProxyInv'
  OBVIOUS
<1>1. CASE UNCHANGED vars
  BY <1>1 DEF vars, settings, update, ProxyInv, TypeOK, PhaseInv, WritingInv,
              TurnInv, AcceptedInv, HasWritten, InUse
<1>2. CASE MainStep
  BY <1>2, StartKeepsProxyInv
<1>3. CASE EngineStep
  BY <1>3, EngineKeepsProxyInv
<1> QED
  BY <1>1, <1>2, <1>3, OthersKeepProxyInv DEF Next

\* Whatever the network offers and whatever fails, main(), the watcher and the
\* callback of the library stay within ProxyInv.
THEOREM ProxyCorrect == Spec => []ProxyInv
<1> QED
  BY InitProxyInv, StepProxyInv, PTL DEF Spec

\* Every variable of CrashpadTuner keeps its type.
THEOREM TypeCorrect == Spec => []TypeOK
<1>1. ProxyInv => TypeOK
  BY DEF ProxyInv
<1> QED
  BY <1>1, ProxyCorrect, PTL

\* An accepted proxy is in use, whole, and is the first valid one unless a
\* write failed: updateProxyList(), setProxy() and setProxySettings().
THEOREM AcceptedProxyIsInUse == Spec => []AcceptedIsInUse
<1>1. ProxyInv => AcceptedIsInUse
  BY DEF ProxyInv, TurnInv, AcceptedInv, AcceptedIsInUse
<1> QED
  BY <1>1, ProxyCorrect, PTL

-------------------------------------------------------------------------------
(* The settings *)

\* A step keeps the agreement of member and database: init() writes them all, a
\* setter is applying the one it assigns until it has written it, and nothing
\* else touches them.
LEMMA StepStoredAgrees ==
  TypeOK /\ StoredAgrees /\ [Next]_vars => StoredAgrees'
<1> SUFFICES ASSUME TypeOK, StoredAgrees, [Next]_vars PROVE StoredAgrees'
  OBVIOUS
<1> USE DEF StoredAgrees, settings
<1>1. CASE InitDatabase
  BY <1>1 DEF InitDatabase, SetupSettings
<1>2. ASSUME NEW s \in Settings, NEW v \in 0..MaxValue, AssignSetting(s, v)
      PROVE  StoredAgrees'
  <2>1. CASE database # "served"
    BY <1>2, <2>1 DEF AssignSetting
  <2>2. CASE database = "served"
    <3> SUFFICES ASSUME NEW t \in Settings, t \notin unsaved, t # s
                 PROVE  stored[t] = member'[t]
      BY <1>2, <2>2 DEF AssignSetting
    <3>1. t # applying
      BY <1>2, TunerAssumption DEF AssignSetting, AllSettings
    <3> QED
      BY <1>2, <2>2, <3>1 DEF AssignSetting, TypeOK
  <2> QED
    BY <2>1, <2>2
<1>3. CASE SaveSetting
  <2> DEFINE s == applying
  <2>1. PICK reads \in BOOLEAN, writes \in BOOLEAN :
          LET same == reads /\ stored[s] = member[s] IN
          /\ stored' = IF ~same /\ writes THEN [stored EXCEPT ![s] = member[s]] ELSE stored
          /\ unsaved' = IF same \/ writes THEN unsaved \ {s} ELSE unsaved \cup {s}
    BY <1>3 DEF SaveSetting, May
  <2>2. s \in Settings /\ UNCHANGED <<database, member>>
    BY <1>3 DEF SaveSetting, TypeOK
  <2> QED
    BY <2>1, <2>2 DEF TypeOK
<1>4. CASE NoDatabase \/ StartWatcher \/ Subscribe
  BY <1>4 DEF NoDatabase, StartWatcher, Subscribe
<1>5. CASE WatcherStep
  BY <1>5 DEF WatcherStep, Wake, CopyUrl, Ask
<1>6. CASE EngineStep
  BY <1>6 DEF EngineStep, Answer, SetProxy, WriteField, FailToWrite
<1>7. CASE Crash \/ Restart \/ \E list \in Lists : ChangeNetwork(list)
  BY <1>7 DEF Crash, Restart, ChangeNetwork
<1>8. CASE UNCHANGED vars
  BY <1>8 DEF vars
<1> QED
  BY <1>1, <1>2, <1>3, <1>4, <1>5, <1>6, <1>7, <1>8 DEF Next, MainStep

\* What the handler takes from the database is what the tuner holds, but for
\* settings that could not be written and the one that is being written: the
\* setters and setupSettings().
THEOREM SettingsAgree == Spec => []StoredAgrees
<1>1. Init => StoredAgrees
  BY DEF Init, StoredAgrees
<1> QED
  BY <1>1, StepStoredAgrees, TypeCorrect, PTL DEF Spec

\* startProxyDiscoveryAsync() asks for the upload URL the tuner holds or held when
\* it was copied, with the exceptions that AsksForUploadUrl states.
THEOREM UploadUrlIsAsked == Spec => AsksForUploadUrl
<1>1. ASSUME TypeOK, StoredAgrees, [Next]_vars
      PROVE  [engine = "idle" /\ engine' = "searching" =>
                \/ asked' \in {member["uploadUrl"], asked}
                \/ database = "open"
                \/ "uploadUrl" \in unsaved
                \/ applying = "uploadUrl" /\ asked' = stored["uploadUrl"]]_vars
  <2> SUFFICES ASSUME Next, engine = "idle", engine' = "searching"
               PROVE  \/ asked' \in {member["uploadUrl"], asked}
                      \/ database = "open"
                      \/ "uploadUrl" \in unsaved
                      \/ applying = "uploadUrl" /\ asked' = stored["uploadUrl"]
    BY <1>1
  <2>1. Ask
    BY DEF Next, MainStep, InitDatabase, NoDatabase, StartWatcher, Subscribe,
           WatcherStep, Wake, CopyUrl, EngineStep, Answer, SetProxy, WriteField,
           FailToWrite, AssignSetting, SaveSetting, ChangeNetwork, Crash, Restart
  <2>2. PICK reads \in BOOLEAN : asked' = UploadUrl(reads)
    BY <2>1 DEF Ask, May
  <2>3. CASE asked' = asked
    BY <2>3
  <2>4. CASE database # "none" /\ asked' = stored["uploadUrl"]
    BY <1>1, <2>4, TunerAssumption DEF StoredAgrees, TypeOK
  <2> QED
    BY <2>2, <2>3, <2>4 DEF UploadUrl
<1> QED
  BY <1>1, TypeCorrect, SettingsAgree, PTL DEF Spec, AsksForUploadUrl
===============================================================================
