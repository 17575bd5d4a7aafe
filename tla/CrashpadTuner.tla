----------------------------- MODULE CrashpadTuner ----------------------------
(***************************************************************************)
(* CrashpadTuner and ProxyWatcher: how the client's settings and the       *)
(* proxies of the network get into the settings of crashpad's database,    *)
(* from which cmreport_handler, a process of its own, takes them.          *)
(*                                                                         *)
(* The database outlives the service, and each of its fields is written by *)
(* a call that may fail.  Without it, always so on Linux, which does not   *)
(* call init(), the tuner keeps one proxy in memory.  The search for       *)
(* proxies is a library's: it is asked for one and answers on a thread of  *)
(* its own.  A setter assigns its member and then writes the database,     *)
(* without a lock, and getUploadUrl() reads both, on the watcher's thread. *)
(* Crash at any time stands for what ends the service, the copy of         *)
(* uploadUrl_ while another thread assigns it included.                    *)
(***************************************************************************)
EXTENDS Integers, Sequences

CONSTANTS
  Platforms,  \* which to look at, of {"macOS", "Linux"}
  Lists,      \* the lists of proxies the network may have: sequences of Records
  Settings,   \* which settings to look at, of AllSettings
  MaxValue,   \* bound on the values of a setting, 0 is the default
  Faults      \* the calls that may fail, of {"init", "read", "write"}

AllSettings == {"uploadUrl", "pruneAge", "pruneDbSize"}

\* A ProxyRecord of the library, its url shortened to a host.
Records == [type : {"HTTP", "HTTPS", "SOCKS", "FTP", "None", "other"},
            host : STRING, port : Nat]

ASSUME TunerAssumption ==
  /\ Platforms \subseteq {"macOS", "Linux"}
  /\ Lists \subseteq Seq(Records)
  /\ "uploadUrl" \in Settings /\ Settings \subseteq AllSettings
  /\ MaxValue \in Nat
  /\ Faults \subseteq {"init", "read", "write"}

VARIABLES
  platform,
  main,      \* where the service's main() is
  database,  \* pDatabase_: "none", "open", or "served" once bRunning_
  member,    \* the settings the tuner holds
  stored,    \* the settings in the database
  unsaved,   \* the settings whose last write failed
  applying,  \* the setting that has been assigned and is to be written, or "none"
  proxy,     \* proxy_
  fields,    \* the proxy settings in the database
  network,   \* the proxies of the network
  notice,    \* the system has a change of them to tell
  watcher,   \* the thread that asks for a search, "asking" in getUploadUrl()
  engine,    \* the library: "idle", "searching" or, in the callback, "updating"
  asked,     \* the upload URL of the search, or getUploadUrl()'s copy; 0 without
  answer,    \* the valid proxies of the last answer, or the one that is none
  turn,      \* which of them is being set
  left,      \* the fields of it that are still to be written
  faults,    \* what has failed while it was set
  accepted   \* the last update has set a proxy

settings == <<member, stored, unsaved, applying>>
update == <<answer, turn, left, faults, accepted>>
vars == <<platform, main, database, settings, proxy, fields, network, notice,
          watcher, engine, asked, update>>

-------------------------------------------------------------------------------
(* Proxies *)

MaxPort == 65535
Fields == {"type", "host", "port", "auth"}

\* makeEmptyProxy().
NoProxy == [type |-> "none", host |-> "", port |-> 0, auth |-> "none"]

\* Crashpad's name of a type of the library, for the types it knows.
CrashpadType ==
  [t \in {"SOCKS", "HTTPS", "HTTP", "None"} |->
     CASE t = "SOCKS" -> "socks5" [] t = "HTTPS" -> "https" [] OTHER -> "http"]

Supported(r) == r.type \in DOMAIN CrashpadType /\ r.port <= MaxPort

\* convertProxies(), for one proxy: none needs authentication.
Convert(r) ==
  [type |-> CrashpadType[r.type], host |-> r.host, port |-> r.port, auth |-> "none"]

IsProxyValid(p) == p.type = "none" \/ (p.host # "" /\ p.port # 0)

\* What updateProxyList() tries to set, in the order of the list: its valid
\* proxies, or the one that is none if none is supported.
Candidates(list) ==
  LET supported == {i \in DOMAIN list : Supported(list[i])} IN
  IF supported = {} THEN <<NoProxy>>
  ELSE [i \in {j \in supported : IsProxyValid(Convert(list[j]))} |-> Convert(list[i])]

IsFirst(i, indices) == i \in indices /\ \A j \in indices : i <= j

\* Mutant: the type comes last, and is left as it is if there is no proxy.
WritesTypeLast(p) ==
  IF p.type = "none" THEN <<"host", "port", "auth">>
                     ELSE <<"host", "port", "auth", "type">>

\* setProxySettings(): the fields it writes, one by one.  It ends after the
\* type if that is none, and after "auth", since there is no authentication.
Writes(p) ==
  IF p.type = "none" THEN <<"type">> ELSE <<"type", "host", "port", "auth">>

\* The proxy in use: where the type is none the other fields do not count.
InUse ==
  IF database = "none" THEN proxy
  ELSE IF fields.type = "none" THEN NoProxy ELSE fields

\* The proxies a list can lead to, and what their fields can be.
Found == {NoProxy} \cup UNION {{Candidates(list)[i] : i \in DOMAIN Candidates(list)} :
                               list \in Lists}
Proxies == [type : {p.type : p \in Found}, host : {p.host : p \in Found},
            port : {p.port : p \in Found}, auth : {p.auth : p \in Found}]

TypeOK ==
  /\ platform \in Platforms
  /\ main \in {"init", "watch", "subscribe", "running", "ended"}
  /\ database \in {"none", "open", "served"}
  /\ platform = "Linux" => database = "none"
  /\ member \in [Settings -> 0..MaxValue]
  /\ stored \in [Settings -> 0..MaxValue]
  /\ unsaved \subseteq Settings
  /\ applying \in Settings \cup {"none"}
  /\ proxy \in Found
  /\ fields \in Proxies
  /\ network \in Lists
  /\ notice \in BOOLEAN
  /\ watcher \in {"off", "waiting", "asking", "free"}
  /\ engine \in {"idle", "searching", "updating"}
  /\ asked \in 0..MaxValue
  /\ DOMAIN answer \subseteq Nat /\ \A i \in DOMAIN answer : answer[i] \in Found
  /\ engine = "updating" => turn \in DOMAIN answer
  /\ left \in Seq(Fields)
  /\ faults \subseteq {"read", "write"}
  /\ accepted \in BOOLEAN

Init ==
  /\ platform \in Platforms
  /\ main = "init"
  /\ database = "none"
  /\ member = [s \in Settings |-> 0]
  /\ stored = [s \in Settings |-> 0]
  /\ unsaved = Settings
  /\ applying = "none"
  /\ proxy = NoProxy
  /\ fields = NoProxy
  /\ network \in Lists
  /\ notice = FALSE
  /\ watcher = "off"
  /\ engine = "idle"
  /\ asked = 0
  /\ answer = << >> /\ turn = 1 /\ left = << >>
  /\ faults = {} /\ accepted = FALSE

May(fault) == IF fault \in Faults THEN BOOLEAN ELSE {TRUE}

-------------------------------------------------------------------------------
(* Starting the service *)

\* Mutant: what an earlier life of the service has left is taken as it is.
SetupSettingsKeepsStored(saved) ==
  /\ stored' = stored /\ unsaved' = Settings \ saved
  /\ fields' = fields
  /\ faults' = IF "proxy" \in saved THEN {} ELSE {"write"}
  /\ accepted' = ("proxy" \in saved)

\* setupSettings() writes each setting, and of the proxy, which is none at that
\* time, the type.  It does not look at what of it could be saved.
SetupSettings(saved) ==
  /\ stored' = [s \in Settings |-> IF s \in saved THEN member[s] ELSE stored[s]]
  /\ unsaved' = Settings \ saved
  /\ fields' = IF "proxy" \in saved THEN [fields EXCEPT !["type"] = "none"] ELSE fields
  /\ faults' = IF "proxy" \in saved THEN {} ELSE {"write"}
  /\ accepted' = ("proxy" \in saved)

\* init(): the database is opened and set up, and the handler started.
InitDatabase ==
  /\ main = "init" /\ platform = "macOS"
  /\ main' = "watch"
  /\ \E starts \in May("init") : database' = IF starts THEN "served" ELSE "open"
  /\ \E saved \in SUBSET (Settings \cup {"proxy"}) :
       /\ "write" \in Faults \/ saved = Settings \cup {"proxy"}
       /\ SetupSettings(saved)
  /\ answer' = <<NoProxy>> /\ turn' = 1 /\ left' = << >>
  /\ UNCHANGED <<platform, member, applying, proxy, network, notice, watcher,
                 engine, asked>>

\* There is no database: this is Linux, or the agent's id, the handler's
\* executable, the directory or the database cannot be had.
NoDatabase ==
  /\ main = "init"
  /\ platform = "Linux" \/ "init" \in Faults
  /\ main' = "watch"
  /\ UNCHANGED <<platform, database, settings, proxy, fields, network, notice,
                 watcher, engine, asked, update>>

\* The constructor of ProxyWatcher: a thread on Linux, on macOS main itself,
\* wants a first search.
StartWatcher ==
  /\ main = "watch"
  /\ main' = IF platform = "macOS" THEN "subscribe" ELSE "running"
  /\ watcher' = "waiting"
  /\ UNCHANGED <<platform, database, settings, proxy, fields, network, notice,
                 engine, asked, update>>

\* On macOS the system tells of changes from now on.
Subscribe ==
  /\ main = "subscribe" /\ watcher = "free"
  /\ main' = "running"
  /\ UNCHANGED <<platform, database, settings, proxy, fields, network, notice,
                 watcher, engine, asked, update>>

\* setUploadUrl(), setPruneAge() and setPruneDatabaseSize() with a value they
\* take: from applyCrashpadSettings(), which main calls once the watcher is there
\* and the watch queue after that.  Without bRunning_ there is no more to it, and
\* the database keeps what it has.
AssignSetting(s, v) ==
  /\ main = "running" /\ platform = "macOS" /\ applying = "none"
  /\ member' = [member EXCEPT ![s] = v]
  /\ applying' = IF database = "served" THEN s ELSE "none"
  /\ UNCHANGED <<platform, main, database, stored, unsaved, proxy, fields,
                 network, notice, watcher, engine, asked, update>>

\* Mutant: the new value is compared with the member, which has it already.
SaveSettingIfMemberDiffers ==
  /\ applying # "none"
  /\ \E reads \in May("read") :
       stored' = IF reads THEN stored ELSE [stored EXCEPT ![applying] = member[applying]]
  /\ unsaved' = unsaved \ {applying}
  /\ applying' = "none"
  /\ UNCHANGED <<platform, main, database, member, proxy, fields, network,
                 notice, watcher, engine, asked, update>>

\* The rest of the setter: the database is written unless it has the value.
SaveSetting ==
  /\ applying # "none"
  /\ \E reads \in May("read"), writes \in May("write") :
       LET s == applying
           same == reads /\ stored[s] = member[s] IN
       /\ stored' = IF ~same /\ writes THEN [stored EXCEPT ![s] = member[s]] ELSE stored
       /\ unsaved' = IF same \/ writes THEN unsaved \ {s} ELSE unsaved \cup {s}
  /\ applying' = "none"
  /\ UNCHANGED <<platform, main, database, member, proxy, fields, network,
                 notice, watcher, engine, asked, update>>

-------------------------------------------------------------------------------
(* Asking for proxies *)

\* Mutant: what happens during a search is passed over instead of waited for.
WakeUnlessSearching ==
  /\ watcher = "free"
  /\ platform = "macOS" => notice /\ main = "running"
  /\ notice' = FALSE
  /\ watcher' = IF engine = "idle" THEN "waiting" ELSE "free"
  /\ UNCHANGED <<platform, main, database, settings, proxy, fields, network,
                 engine, asked, update>>

\* The callback of SCDynamicStore, or the next round of the loop, which does
\* not need a change.
Wake ==
  /\ watcher = "free"
  /\ platform = "macOS" => notice /\ main = "running"
  /\ notice' = FALSE
  /\ watcher' = "waiting"
  /\ UNCHANGED <<platform, main, database, settings, proxy, fields, network,
                 engine, asked, update>>

\* startProxyDiscoveryAsync() waits for the search before it, and getUploadUrl()
\* copies the member.
CopyUrl ==
  /\ watcher = "waiting" /\ engine = "idle"
  /\ watcher' = "asking"
  /\ asked' = member["uploadUrl"]
  /\ UNCHANGED <<platform, main, database, settings, proxy, fields, network,
                 notice, engine, update>>

\* getUploadUrl() goes on: what the database has, if there is one and it can be
\* read, or else the copy.
UploadUrl(reads) ==
  IF database # "none" /\ reads THEN stored["uploadUrl"] ELSE asked

\* The library is asked to search.
Ask ==
  /\ watcher = "asking"
  /\ watcher' = "free" /\ engine' = "searching"
  /\ \E reads \in May("read") : asked' = UploadUrl(reads)
  /\ UNCHANGED <<platform, main, database, settings, proxy, fields, network,
                 notice, update>>

\* updateProxyList() begins, with an answer to the tuner's search (the guid is
\* empty).  If no proxy of the list is valid there is nothing to do.
Answer ==
  /\ engine = "searching"
  /\ answer' = Candidates(network)
  /\ \/ \E i \in DOMAIN answer' :
           /\ IsFirst(i, DOMAIN answer')
           /\ turn' = i /\ engine' = "updating"
     \/ DOMAIN answer' = {} /\ turn' = turn /\ engine' = "idle"
  /\ left' = << >> /\ faults' = {} /\ accepted' = FALSE
  /\ asked' = 0
  /\ UNCHANGED <<platform, main, database, settings, proxy, fields, network,
                 notice, watcher>>

\* What getProxy() finds in the database: proxy_ if one of its reads fails.
CurrentProxy(reads) == IF reads THEN fields ELSE proxy

\* setProxy() up to its writes: without a database, or if this proxy is set
\* already, there are none.
SetProxy ==
  /\ engine = "updating" /\ left = << >>
  /\ \E reads \in May("read") :
       LET p == answer[turn]
           writing == database # "none" /\ CurrentProxy(reads) # p IN
       /\ proxy' = IF database = "none" THEN p ELSE proxy
       /\ left' = IF writing THEN Writes(p) ELSE << >>
       /\ engine' = IF writing THEN "updating" ELSE "idle"
       /\ accepted' = ~writing
       /\ faults' = IF database # "none" /\ ~reads THEN faults \cup {"read"} ELSE faults
  /\ UNCHANGED <<platform, main, database, settings, fields, network, notice,
                 watcher, asked, answer, turn>>

\* setProxySettings() writes the next field.
WriteField ==
  /\ engine = "updating" /\ left # << >>
  /\ fields' = [fields EXCEPT ![Head(left)] = answer[turn][Head(left)]]
  /\ left' = Tail(left)
  /\ accepted' = (Tail(left) = << >>)
  /\ engine' = IF Tail(left) = << >> THEN "idle" ELSE "updating"
  /\ UNCHANGED <<platform, main, database, settings, proxy, network, notice,
                 watcher, asked, answer, turn, faults>>

\* Mutant: a failed write goes on with the next proxy, whether there is one or not.
FailToWriteGoesOn ==
  /\ "write" \in Faults
  /\ engine = "updating" /\ left # << >>
  /\ left' = << >>
  /\ faults' = faults \cup {"write"}
  /\ turn' = turn + 1
  /\ UNCHANGED <<platform, main, database, settings, proxy, fields, network,
                 notice, watcher, engine, asked, answer, accepted>>

\* A write fails: setProxy() fails, and updateProxyList() goes on with the
\* next proxy if there is one.
FailToWrite ==
  /\ "write" \in Faults
  /\ engine = "updating" /\ left # << >>
  /\ left' = << >>
  /\ faults' = faults \cup {"write"}
  /\ LET remaining == {i \in DOMAIN answer : turn < i} IN
       \/ \E i \in remaining : IsFirst(i, remaining) /\ turn' = i /\ engine' = engine
       \/ remaining = {} /\ engine' = "idle" /\ turn' = turn
  /\ UNCHANGED <<platform, main, database, settings, proxy, fields, network,
                 notice, watcher, asked, answer, accepted>>

-------------------------------------------------------------------------------
(* The network, and the end of the service *)

ChangeNetwork(list) ==
  /\ network' = list /\ list # network
  /\ notice' = (notice \/ (main = "running" /\ platform = "macOS"))
  /\ UNCHANGED <<platform, main, database, settings, proxy, fields, watcher,
                 engine, asked, update>>

\* The service ends at any point.  What the database holds remains.
Crash ==
  /\ main # "ended"
  /\ main' = "ended"
  /\ database' = "none" /\ watcher' = "off" /\ engine' = "idle" /\ notice' = FALSE
  /\ member' = [s \in Settings |-> 0] /\ unsaved' = Settings /\ applying' = "none"
  /\ proxy' = NoProxy /\ asked' = 0
  /\ answer' = << >> /\ turn' = 1 /\ left' = << >>
  /\ faults' = {} /\ accepted' = FALSE
  /\ UNCHANGED <<platform, stored, fields, network>>

Restart ==
  /\ main = "ended"
  /\ main' = "init"
  /\ UNCHANGED <<platform, database, settings, proxy, fields, network, notice,
                 watcher, engine, asked, update>>

EngineStep == Answer \/ SetProxy \/ WriteField \/ FailToWrite
MainStep == InitDatabase \/ NoDatabase \/ StartWatcher \/ Subscribe
WatcherStep == Wake \/ CopyUrl \/ Ask

Next ==
  \/ MainStep
  \/ WatcherStep
  \/ EngineStep
  \/ \E s \in Settings, v \in 0..MaxValue : AssignSetting(s, v)
  \/ SaveSetting
  \/ \E list \in Lists : ChangeNetwork(list)
  \/ Crash
  \/ Restart

Spec == Init /\ [][Next]_vars

\* Each thread goes on; the library answers.  Of the setters nothing is asked.
FairSpec ==
  Spec /\ WF_vars(MainStep) /\ WF_vars(WatcherStep) /\ WF_vars(EngineStep)

-------------------------------------------------------------------------------
(* Properties *)

\* When setProxy() has said yes, the proxy in use is one the network has
\* offered, whole: also after a write that failed half way, after the service
\* was ended between two writes, and when a proxy gives way to none.  It is the
\* first that is valid unless writing that has failed.  One exception: if the
\* current proxy cannot be read it is taken for none, and then none is not set.
AcceptedIsInUse ==
  engine = "idle" /\ accepted =>
    \/ /\ InUse = answer[turn]
       /\ "write" \notin faults => IsFirst(turn, DOMAIN answer)
    \/ "read" \in faults /\ answer[turn] = NoProxy

\* What the handler takes from the database is what the tuner holds, for each
\* setting whose last write did not fail, in this life of the service and
\* whatever an earlier one has left in the database.  Not so between the two
\* steps of a setter, while the database has the value before.
StoredAgrees ==
  database = "served" =>
    \A s \in Settings \ (unsaved \cup {applying}) : stored[s] = member[s]

\* Proxies are searched for the upload URL that the tuner holds, or held when
\* getUploadUrl() began, also when it is changed meanwhile.  The exceptions: the
\* URL could not be saved; the handler did not start, when the tuner changes its
\* URL and the database, which it asks for the URL, does not; and the setter has
\* assigned the URL and not yet written it.  Then it may be the stored one, the
\* one before, and no other search is made because of the new one.
AsksForUploadUrl ==
  [][engine = "idle" /\ engine' = "searching" =>
       \/ asked' \in {member["uploadUrl"], asked}
       \/ database = "open"
       \/ "uploadUrl" \in unsaved
       \/ applying = "uploadUrl" /\ asked' = stored["uploadUrl"]]_vars

\* A change of the proxies that is reported, or that the next round on Linux
\* will find, is followed, unless the network changes again, a call fails or
\* the service ends.  If no proxy of the list is valid nothing is.
ChangeIsFollowed ==
  \A list \in Lists : \A i \in DOMAIN Candidates(list) :
    (/\ network = list /\ IsFirst(i, DOMAIN Candidates(list))
     /\ main = "running" /\ (notice \/ platform = "Linux"))
      ~> \/ InUse = Candidates(list)[i]
         \/ network # list \/ faults # {} \/ main # "running"
===============================================================================
