------------------------ MODULE PmPlatformConfiguration ------------------------
(***************************************************************************)
(* PmPlatformConfiguration: what the package manager library learns from   *)
(* the platform.  It passes on the identity CMID has, the certificates     *)
(* PmCertManager has, and the proxies the discovery engine finds, which    *)
(* works on a thread of its own and calls back.                            *)
(*                                                                         *)
(* The library makes one call after the other; what CMID has, what the     *)
(* system trusts and which proxies there are changes meanwhile.            *)
(***************************************************************************)
EXTENDS PmCertManager, Integers, Sequences, SequencesExt

CONSTANTS
  Identities,  \* identities CMID may have; a token, an id and the URLs belong to each
  Length,      \* how long these are
  ProxyLists,  \* what the engine may find: sequences of proxy types
  MaxRequests, \* bound: proxies asked for
  Uses         \* bound: sets of calls, one of which a behaviour is made of

NoIdentity == "none"
Urls == <<"event", "checkin", "catalog">>
Items == {"token", "id"} \cup Range(Urls)

\* What a caller's string holds: what CMID wrote into it, cut off nowhere, and how
\* many NULs follow it; "before" if the call has left it alone.
Texts == [of : Identities, padding : Nat]
Untouched == [of |-> "before", padding |-> 0]

Operations ==
  {"GetIdentityToken", "GetUcIdentity", "GetPmUrls", "RefreshIdentity",
   "ReloadSslCertificates", "GetSslCertificates", "ReleaseSslCertificates",
   "StartProxyDiscovery", "StartProxyDiscoveryAsync"}

Guids == 1..MaxRequests

ProxyTypes == {"http", "https", "socks4", "socks5"}

ASSUME ConfigurationAssumption ==
  /\ NoIdentity \notin Identities /\ "before" \notin Identities
  /\ Length \in [Identities -> Nat \ {0}]
  /\ MaxRequests \in Nat
  /\ Uses \subseteq SUBSET Operations
  /\ ProxyLists \subseteq Seq(ProxyTypes)

VARIABLES
  cmid,            \* the identity CMID has
  uses,            \* the calls the library makes
  op, at, answer,  \* the call, where it is and what it has returned
  buflen,          \* the length CMID has asked for
  item,            \* what the call asks CMID for
  text,            \* the strings the call fills in
  rtn,             \* CMID has given the call all it has asked for so far
  known,           \* the identities CMID had during the call
  requests,        \* requests for proxies made
  proxyCallbacks_, \* the requests whose callback is to be called
  engine,          \* its thread: "idle", "searching", or reporting: "updating", "calling"
  search,          \* the guid it searches for and the proxies it has found
  called           \* what each callback was called with

identityVars == <<buflen, item, text, rtn, known>>
proxyVars == <<requests, proxyCallbacks_, engine, search, called>>
vars == <<certVars, cmid, uses, op, at, answer, identityVars, proxyVars>>

TypeOK ==
  /\ CertTypeOK
  /\ cmid \in Identities \cup {NoIdentity}
  /\ uses \in Uses /\ op \in Operations \cup {"none"}
  /\ at \in {"construct", "idle", "length", "value", "free", "load", "wait", "insert", "request"}
  /\ answer \in {"none", "0", "-1", "false", "true", "list"}
  /\ buflen \in Nat /\ item \in Items /\ rtn \in BOOLEAN
  /\ text \in [Items -> Texts \cup {Untouched}]
  /\ known \subseteq Identities \cup {NoIdentity}
  /\ requests \in 0..MaxRequests
  /\ proxyCallbacks_ \subseteq Guids
  /\ engine \in {"idle", "searching", "updating", "calling"}
  /\ search \in [guid : Guids \cup {0}, list : ProxyLists \cup {<< >>}]
  /\ called \in [Guids -> Seq(Seq(ProxyTypes))]

-------------------------------------------------------------------------------
(* Calls *)

UnchangedCall == UNCHANGED <<uses, op, at, answer>>

\* A call, which leaves all else to its steps.
Begin(name, place) ==
  /\ at = "idle" /\ name \in uses
  /\ op' = name /\ at' = place /\ answer' = "none" /\ UNCHANGED uses

GoTo(place) == at' = place /\ UNCHANGED <<uses, op, answer>>
Answer(a) == at' = "idle" /\ answer' = a /\ UNCHANGED <<uses, op>>

\* A call that is one step.
Call(name, a) ==
  /\ at = "idle" /\ name \in uses
  /\ op' = name /\ at' = "idle" /\ answer' = a /\ UNCHANGED uses

-------------------------------------------------------------------------------
(* Identity *)

Others == <<certVars, proxyVars>>

\* A call that asks CMID for nothing.
NoIdentityAsked ==
  /\ buflen' = 0 /\ item' = "token" /\ text' = [i \in Items |-> Untouched]
  /\ rtn' = TRUE /\ known' = {}

Ask(name, first) ==
  /\ Begin(name, "length")
  /\ item' = first /\ text' = [i \in Items |-> Untouched] /\ buflen' = 0
  /\ rtn' = TRUE /\ known' = {cmid}
  /\ UNCHANGED <<cmid, Others>>

GetIdentityToken == Ask("GetIdentityToken", "token")
GetUcIdentity == Ask("GetUcIdentity", "id")

\* GetPmUrls() asks for one URL after the other.
GetPmUrls == Ask("GetPmUrls", Head(Urls))

\* With an item the call has got or not got, it goes on with the next URL or ends.
Continue(got) ==
  LET next == SelectInSeq(Urls, LAMBDA url : url = item) + 1 IN
  /\ rtn' = (rtn /\ got)
  /\ IF op = "GetPmUrls" /\ next <= Len(Urls)
     THEN GoTo("length") /\ item' = Urls[next]
     ELSE Answer(IF rtn' THEN "true" ELSE "false") /\ UNCHANGED item

\* CMID is asked without a buffer: it says how long one has to be for the item,
\* with its NUL.
AskLength ==
  /\ at = "length"
  /\ IF cmid = NoIdentity THEN Continue(FALSE) /\ UNCHANGED buflen
     ELSE /\ buflen' = Length[cmid] + 1
          /\ GoTo("value") /\ UNCHANGED <<item, rtn>>
  /\ UNCHANGED <<cmid, text, known, Others>>

\* Mutant: whether the second call succeeds is not looked at.
AskValueUnchecked ==
  /\ at = "value"
  /\ Continue(TRUE)
  /\ text' = IF cmid # NoIdentity /\ Length[cmid] < buflen
             THEN [text EXCEPT ![item] = [of |-> cmid, padding |-> buflen - 1 - Length[cmid]]]
             ELSE text
  /\ UNCHANGED <<cmid, buflen, known, Others>>

\* Mutant: CMID does not look at the length of the buffer.
AskValueOverflows ==
  /\ at = "value"
  /\ text' = IF cmid = NoIdentity THEN text
             ELSE [text EXCEPT ![item] = [of |-> cmid, padding |-> buflen - 1 - Length[cmid]]]
  /\ Continue(cmid # NoIdentity)
  /\ UNCHANGED <<cmid, buflen, known, Others>>

\* Then CMID is asked with a buffer of that length, which may be too short by now,
\* or too long: then the string keeps the NULs it was made of.
AskValue ==
  /\ at = "value"
  /\ LET fits == cmid # NoIdentity /\ Length[cmid] < buflen IN
     /\ text' = IF fits
                THEN [text EXCEPT ![item] = [of |-> cmid, padding |-> buflen - 1 - Length[cmid]]]
                ELSE text
     /\ Continue(fits)
  /\ UNCHANGED <<cmid, buflen, known, Others>>

\* CMID gets another identity from the cloud, or loses it.
Becomes(i) ==
  /\ cmid' = i
  /\ known' = IF at \in {"length", "value"} THEN known \cup {i} ELSE known

\* RefreshIdentity() says whether CMID has tried with success.
RefreshIdentity ==
  /\ \/ Call("RefreshIdentity", "true") /\ cmid' \in Identities
     \/ Call("RefreshIdentity", "false") /\ UNCHANGED cmid
  /\ NoIdentityAsked
  /\ UNCHANGED <<certVars, proxyVars>>

IdentityChanges ==
  /\ \E i \in (Identities \cup {NoIdentity}) \ {cmid} : Becomes(i)
  /\ UnchangedCall /\ UNCHANGED <<certVars, buflen, item, text, rtn, proxyVars>>

IdentityStep ==
  \/ GetIdentityToken \/ GetUcIdentity \/ GetPmUrls
  \/ AskLength \/ AskValue
  \/ RefreshIdentity

-------------------------------------------------------------------------------
(* Certificates *)

NoCertificates == UNCHANGED <<cmid, identityVars, proxyVars>>
CertificatesAlone == NoIdentityAsked /\ UNCHANGED <<cmid, proxyVars>>

\* The constructor loads them; whether this succeeds is not looked at.
Construct ==
  /\ at = "construct"
  /\ LoadSystemSslCertificates
  /\ GoTo("idle")
  /\ NoCertificates

ReloadSslCertificates ==
  /\ Begin("ReloadSslCertificates", "free")
  /\ UnchangedCerts /\ CertificatesAlone

ReloadFrees ==
  /\ at = "free"
  /\ FreeSystemSslCertificates
  /\ GoTo("load")
  /\ NoCertificates

\* A load that has failed is answered with false, and false is 0 as an int32_t.
FalseAsInt32 == "0"

ReloadLoads ==
  /\ at = "load"
  /\ LoadSystemSslCertificates
  /\ Answer(IF HasLoaded THEN "0" ELSE FalseAsInt32)
  /\ NoCertificates

GetCertificates ==
  /\ IF certificates = {}
     THEN Call("GetSslCertificates", "-1") /\ UnchangedCerts
     ELSE Call("GetSslCertificates", "0") /\ GetSslCertificates
  /\ CertificatesAlone

ReleaseCertificates ==
  /\ Call("ReleaseSslCertificates", "none")
  /\ \E array \in held : ReleaseSslCertificates(array)
  /\ CertificatesAlone

CertificateStep ==
  \/ Construct
  \/ ReloadSslCertificates \/ ReloadFrees \/ ReloadLoads
  \/ GetCertificates \/ ReleaseCertificates

SystemChanges ==
  /\ TrustChanges
  /\ UnchangedCall /\ UNCHANGED <<cmid, identityVars, proxyVars>>
-------------------------------------------------------------------------------
(* Proxies *)

NoProxies == UNCHANGED <<certVars, cmid, identityVars>>
ProxiesAlone == NoIdentityAsked /\ UNCHANGED <<certVars, cmid>>

\* convertProxyList(): on macOS a proxy for https is one of type http.
ConvertProxyList(list) ==
  IF platform = "linux" THEN list
  ELSE [i \in DOMAIN list |-> IF list[i] = "https" THEN "http" ELSE list[i]]

\* StartProxyDiscovery() gives the caller what the engine finds at once.
StartProxyDiscovery ==
  /\ Call("StartProxyDiscovery", "list")
  /\ UNCHANGED proxyVars /\ ProxiesAlone

StartProxyDiscoveryAsync ==
  /\ requests < MaxRequests
  /\ Begin("StartProxyDiscoveryAsync", "wait")
  /\ requests' = requests + 1
  /\ UNCHANGED <<proxyCallbacks_, engine, search, called>> /\ ProxiesAlone

\* Mutant: it does not wait.
DoNotWait ==
  /\ at = "wait"
  /\ GoTo("insert")
  /\ UNCHANGED proxyVars /\ NoProxies

\* waitPrevOpCompleted()
WaitPrevOpCompleted ==
  /\ at = "wait" /\ engine = "idle"
  /\ GoTo("insert")
  /\ UNCHANGED proxyVars /\ NoProxies

\* A new GUID and, under it, the callback with its context.  Requests are numbered;
\* the number stands for the GUID, the callback and its context.
Insert ==
  /\ at = "insert"
  /\ proxyCallbacks_' = proxyCallbacks_ \cup {requests}
  /\ GoTo("request")
  /\ UNCHANGED <<requests, engine, search, called>> /\ NoProxies

\* requestProxiesAsync() begins a search, which takes the place of one under way.
Request ==
  /\ at = "request"
  /\ engine' = "searching" /\ search' = [guid |-> requests, list |-> << >>]
  /\ Answer("true")
  /\ UNCHANGED <<requests, proxyCallbacks_, called>> /\ NoProxies

Find ==
  /\ engine = "searching"
  /\ engine' = "updating"
  /\ \E list \in ProxyLists : search' = [search EXCEPT !.list = list]
  /\ UNCHANGED <<requests, proxyCallbacks_, called>>
  /\ UnchangedCall /\ NoProxies

\* Mutant: it erases before it has looked.
EraseFirst ==
  /\ engine = "updating"
  /\ proxyCallbacks_' = proxyCallbacks_ \ {search.guid}
  /\ engine' = IF search.guid \in proxyCallbacks_' THEN "calling" ELSE "idle"
  /\ UNCHANGED <<requests, search, called>>
  /\ UnchangedCall /\ NoProxies

\* updateProxyList() on the engine's thread: it takes the callback out of the map;
\* it only logs that there is none.
UpdateProxyList ==
  /\ engine = "updating"
  /\ proxyCallbacks_' = proxyCallbacks_ \ {search.guid}
  /\ engine' = IF search.guid \in proxyCallbacks_ THEN "calling" ELSE "idle"
  /\ UNCHANGED <<requests, search, called>>
  /\ UnchangedCall /\ NoProxies

\* And calls it.
CallBack ==
  /\ engine = "calling"
  /\ called' = [called EXCEPT ![search.guid] = Append(@, ConvertProxyList(search.list))]
  /\ engine' = "idle"
  /\ UNCHANGED <<requests, proxyCallbacks_, search>>
  /\ UnchangedCall /\ NoProxies

RequestStep == WaitPrevOpCompleted \/ Insert \/ Request
EngineStep == Find \/ UpdateProxyList \/ CallBack

-------------------------------------------------------------------------------
Init ==
  /\ platform \in Platforms /\ trust \in Trusts
  /\ heap = [o \in Objects |-> "free"]
  /\ certificates = {} /\ held = {} /\ promise = {}
  /\ cmid \in Identities \cup {NoIdentity}
  /\ uses \in Uses /\ op = "none" /\ at = "construct" /\ answer = "none"
  /\ buflen = 0 /\ item = "token" /\ text = [i \in Items |-> Untouched]
  /\ rtn = TRUE /\ known = {}
  /\ requests = 0 /\ proxyCallbacks_ = {}
  /\ engine = "idle" /\ search = [guid |-> 0, list |-> << >>]
  /\ called = [g \in Guids |-> << >>]

Next ==
  \/ IdentityStep \/ IdentityChanges
  \/ CertificateStep \/ SystemChanges
  \/ StartProxyDiscovery \/ StartProxyDiscoveryAsync \/ RequestStep
  \/ EngineStep

Spec == Init /\ [][Next]_vars

\* A call that has begun goes on, and so does the engine.
FairSpec == Spec /\ WF_vars(RequestStep) /\ WF_vars(EngineStep)

-------------------------------------------------------------------------------
(* Properties *)

\* A call that succeeds gives what CMID had for its item at some time during the
\* call, whole, and followed by NULs only if CMID had something longer meanwhile;
\* GetPmUrls() does so for each URL.  One that fails for a token or an id leaves
\* the caller's string alone.
IdentityIsTrue ==
  at = "idle" /\ op \in {"GetIdentityToken", "GetUcIdentity", "GetPmUrls"} =>
    LET asked == IF op = "GetPmUrls" THEN Range(Urls) ELSE {item}
        given == {i \in Items : text[i] # Untouched} IN
    /\ answer = "true" <=> given = asked
    /\ \A i \in given :
         /\ text[i].of \in known
         /\ text[i].padding # 0 =>
              \E j \in known \ {NoIdentity} :
                Length[j] = Length[text[i].of] + text[i].padding

\* The callbacks that wait in the map are those of requests that are made or under
\* way, and no two threads are at the map at a time.
CallbackMapIsSafe ==
  /\ ~(at = "insert" /\ engine = "updating")
  /\ Cardinality(proxyCallbacks_) <= 1
  /\ \A g \in proxyCallbacks_ : g <= requests /\ called[g] = << >>
  /\ engine \in {"searching", "updating"} => search.guid \in proxyCallbacks_

\* The callback of each request is called in the end, and only once, in the order of
\* the requests, with proxies found and converted as the platform does; the map, the
\* search and the thread that calls back are not seen.
Requests == INSTANCE ProxyRequests
              WITH lists <- {ConvertProxyList(list) : list \in ProxyLists}

ImplementsRequests == Requests!Spec
===============================================================================
