--------------------- MODULE PmPlatformConfigurationProofs ---------------------
(***************************************************************************)
(* Proofs about PmPlatformConfiguration: the map of callbacks for any      *)
(* number of requests and whatever proxies are found, the certificates for *)
(* any of them and any heap, and the identity for any lengths.             *)
(***************************************************************************)
EXTENDS PmPlatformConfiguration, FiniteSetTheorems, SequenceTheorems, TLAPS

-------------------------------------------------------------------------------
(* The callbacks *)

\* Between waitPrevOpCompleted() and the request to the engine.
Requesting == {"wait", "insert", "request"}

\* The callbacks that have still to be called.
Pending ==
  {g \in Guids : \/ g > requests \/ g \in proxyCallbacks_
                 \/ engine = "calling" /\ g = search.guid
                 \/ at \in {"wait", "insert"} /\ g = requests}

\* The engine is idle whenever the library is at the map; at most one callback is in
\* it, that of the request under way.
ProxyInv ==
  /\ requests \in 0..MaxRequests /\ search \in [guid : Nat, list : Seq(ProxyTypes)]
  /\ engine \in {"idle", "searching", "updating", "calling"}
  /\ at \in {"insert", "request"} => engine = "idle"
  /\ at \in Requesting => requests > 0
  /\ engine # "idle" => /\ search.guid \in Guids /\ search.guid <= requests
                        /\ at \in Requesting => search.guid # requests
  /\ proxyCallbacks_ = IF engine \in {"searching", "updating"} THEN {search.guid}
                       ELSE IF at = "request" THEN {requests} ELSE {}
  /\ DOMAIN called = Guids
  /\ \A g \in Guids : called[g] \in Seq(Seq(ProxyTypes)) /\ Len(called[g]) <= 1
  /\ \A g \in Pending : called[g] = << >>

\* The steps that have to do with no callback.
Elsewhere ==
  IdentityStep \/ IdentityChanges \/ CertificateStep \/ SystemChanges \/ StartProxyDiscovery

\* They leave the callbacks alone and neither begin nor end a request for proxies.
LEMMA ElsewhereKeeps ==
  Elsewhere => /\ UNCHANGED proxyVars
               /\ at' = at \/ (at \notin Requesting /\ at' \notin Requesting)
<1> USE DEF Requesting
<1>1. ASSUME IdentityStep
      PROVE  UNCHANGED proxyVars /\ at \notin Requesting /\ at' \notin Requesting
  BY <1>1 DEF IdentityStep, GetIdentityToken, GetUcIdentity, GetPmUrls, Ask, Begin, AskLength,
       AskValue, Continue, GoTo, Answer, RefreshIdentity, Call, Others
<1>2. ASSUME IdentityChanges \/ SystemChanges
      PROVE  UNCHANGED proxyVars /\ at' = at
  BY <1>2 DEF IdentityChanges, SystemChanges, UnchangedCall
<1>3. ASSUME CertificateStep
      PROVE  UNCHANGED proxyVars /\ at \notin Requesting /\ at' \notin Requesting
  BY <1>3 DEF CertificateStep, Construct, ReloadSslCertificates, ReloadFrees, ReloadLoads,
       GetCertificates, ReleaseCertificates, Begin, GoTo, Answer, Call, NoCertificates,
       CertificatesAlone
<1>4. ASSUME StartProxyDiscovery
      PROVE  UNCHANGED proxyVars /\ at \notin Requesting /\ at' \notin Requesting
  BY <1>4 DEF StartProxyDiscovery, Call
<1> QED
  BY <1>1, <1>2, <1>3, <1>4 DEF Elsewhere

\* What is converted is again a list of proxies.
LEMMA ConvertedType ==
  ASSUME NEW list \in Seq(ProxyTypes)
  PROVE  ConvertProxyList(list) \in Seq(ProxyTypes)
<1>1. DOMAIN list = 1..Len(list) /\ Len(list) \in Nat /\ \A i \in DOMAIN list : list[i] \in ProxyTypes
  OBVIOUS
<1>2. [i \in DOMAIN list |-> IF list[i] = "https" THEN "http" ELSE list[i]]
        \in [1..Len(list) -> ProxyTypes]
  BY <1>1 DEF ProxyTypes
<1> QED
  BY <1>1, <1>2 DEF ConvertProxyList

\* ProxyInv holds before the first call and every step keeps it.
LEMMA InitProxy == Init => ProxyInv
<1> SUFFICES ASSUME Init PROVE ProxyInv
  OBVIOUS
<1>1. MaxRequests \in Nat
  BY ConfigurationAssumption
<1>2. << >> \in Seq(ProxyTypes) /\ << >> \in Seq(Seq(ProxyTypes)) /\ Len(<< >>) = 0
  OBVIOUS
<1>3. \A g \in Guids : called[g] = << >>
  BY DEF Init
<1> QED
  BY <1>1, <1>2, <1>3 DEF Init, ProxyInv, Pending, Requesting

\* A request waits until the engine is idle, so no step puts a second callback in the map.
LEMMA StepProxy == ProxyInv /\ [Next]_vars => ProxyInv'
<1> SUFFICES ASSUME ProxyInv, [Next]_vars PROVE ProxyInv'
  OBVIOUS
<1>a. /\ MaxRequests \in Nat /\ Guids = 1..MaxRequests
      /\ ProxyLists \subseteq Seq(ProxyTypes)
  BY ConfigurationAssumption DEF Guids
<1>b. Guids' = Guids
  BY DEF Guids
<1> USE <1>a, <1>b DEF Requesting
<1>1. CASE Elsewhere
  <2>1. /\ UNCHANGED proxyVars
        /\ at' = at \/ (at \notin Requesting /\ at' \notin Requesting)
    BY <1>1, ElsewhereKeeps
  <2> QED
    BY <2>1 DEF ProxyInv, Pending, proxyVars
<1>2. CASE StartProxyDiscoveryAsync
  <2>1. /\ at = "idle" /\ at' = "wait" /\ requests < MaxRequests /\ requests' = requests + 1
        /\ UNCHANGED <<proxyCallbacks_, engine, search, called>>
    BY <1>2 DEF StartProxyDiscoveryAsync, Begin
  <2>2. \A g \in Pending' : g \in Pending
    BY <2>1 DEF Pending, ProxyInv
  <2>3. engine # "idle" => search.guid # requests'
    BY <2>1 DEF ProxyInv
  <2> QED
    BY <2>1, <2>2, <2>3 DEF ProxyInv
<1>3. CASE WaitPrevOpCompleted
  <2>1. /\ at = "wait" /\ at' = "insert" /\ engine = "idle" /\ UNCHANGED proxyVars
    BY <1>3 DEF WaitPrevOpCompleted, GoTo
  <2>2. Pending' = Pending
    BY <2>1 DEF Pending, proxyVars
  <2> QED
    BY <2>1, <2>2 DEF ProxyInv, proxyVars
<1>4. CASE Insert
  <2>1. /\ at = "insert" /\ at' = "request" /\ proxyCallbacks_' = proxyCallbacks_ \cup {requests}
        /\ UNCHANGED <<requests, engine, search, called>>
    BY <1>4 DEF Insert, GoTo
  <2>2. engine = "idle" /\ proxyCallbacks_ = {}
    BY <2>1 DEF ProxyInv
  <2>3. Pending' \subseteq Pending
    BY <2>1, <2>2 DEF Pending
  <2> QED
    BY <2>1, <2>2, <2>3 DEF ProxyInv
<1>5. CASE Request
  <2>1. /\ at = "request" /\ at' = "idle" /\ engine' = "searching"
        /\ search' = [guid |-> requests, list |-> << >>]
        /\ UNCHANGED <<requests, proxyCallbacks_, called>>
    BY <1>5 DEF Request, Answer
  <2>2. engine = "idle" /\ proxyCallbacks_ = {requests} /\ requests \in Guids
    BY <2>1 DEF ProxyInv
  <2>3. Pending' \subseteq Pending
    BY <2>1, <2>2 DEF Pending
  <2>4. search' \in [guid : Nat, list : Seq(ProxyTypes)] /\ search'.guid = requests
    BY <2>1, <2>2
  <2> QED
    BY <2>1, <2>2, <2>3, <2>4 DEF ProxyInv
<1>6. CASE Find
  <2>1. /\ engine = "searching" /\ engine' = "updating" /\ at' = at
        /\ \E list \in ProxyLists : search' = [search EXCEPT !.list = list]
        /\ UNCHANGED <<requests, proxyCallbacks_, called>>
    BY <1>6 DEF Find, UnchangedCall
  <2>2. search' \in [guid : Nat, list : Seq(ProxyTypes)] /\ search'.guid = search.guid
    BY <2>1 DEF ProxyInv
  <2>3. Pending' = Pending
    BY <2>1, <2>2 DEF Pending
  <2> QED
    BY <2>1, <2>2, <2>3 DEF ProxyInv
<1>7. CASE UpdateProxyList
  <2>1. /\ engine = "updating" /\ at' = at
        /\ proxyCallbacks_' = proxyCallbacks_ \ {search.guid}
        /\ engine' = IF search.guid \in proxyCallbacks_ THEN "calling" ELSE "idle"
        /\ UNCHANGED <<requests, search, called>>
    BY <1>7 DEF UpdateProxyList, UnchangedCall
  <2>2. proxyCallbacks_ = {search.guid} /\ engine' = "calling" /\ proxyCallbacks_' = {}
    BY <2>1 DEF ProxyInv
  <2>3. Pending' \subseteq Pending
    BY <2>1, <2>2 DEF Pending
  <2>4. at \notin {"insert", "request"}
    BY <2>1 DEF ProxyInv
  <2> QED
    BY <2>1, <2>2, <2>3, <2>4 DEF ProxyInv
<1>8. CASE CallBack
  <2>1. /\ engine = "calling" /\ engine' = "idle" /\ at' = at
        /\ called' = [called EXCEPT ![search.guid] = Append(@, ConvertProxyList(search.list))]
        /\ UNCHANGED <<requests, proxyCallbacks_, search>>
    BY <1>8 DEF CallBack, UnchangedCall
  <2>2. search.guid \in Guids /\ search.guid <= requests /\ at \notin {"insert", "request"}
        /\ (at = "wait" => search.guid # requests)
    BY <2>1 DEF ProxyInv
  <2>3. search.guid \in Pending /\ called[search.guid] = << >>
    BY <2>1, <2>2 DEF Pending, ProxyInv
  <2>4. called'[search.guid] = <<ConvertProxyList(search.list)>>
    BY <2>1, <2>2, <2>3 DEF ProxyInv
  <2>5. called'[search.guid] \in Seq(Seq(ProxyTypes)) /\ Len(called'[search.guid]) = 1
    BY <2>4, ConvertedType DEF ProxyInv
  <2>6. \A g \in Guids : g # search.guid => called'[g] = called[g]
    BY <2>1 DEF ProxyInv
  <2>7. Pending' \subseteq Pending /\ search.guid \notin Pending'
    BY <2>1, <2>2 DEF Pending, ProxyInv
  <2>8. \A g \in Pending' : called'[g] = << >>
    BY <2>6, <2>7 DEF ProxyInv, Pending
  <2>9. \A g \in Guids : called'[g] \in Seq(Seq(ProxyTypes)) /\ Len(called'[g]) <= 1
    <3>1. \A g \in Guids : called[g] \in Seq(Seq(ProxyTypes)) /\ Len(called[g]) <= 1
      BY DEF ProxyInv
    <3>2. ASSUME NEW g \in Guids
          PROVE  called'[g] \in Seq(Seq(ProxyTypes)) /\ Len(called'[g]) <= 1
      <4>1. CASE g = search.guid
        <5>1. called'[g] \in Seq(Seq(ProxyTypes)) /\ Len(called'[g]) = 1
          BY <2>5, <4>1, Zenon
        <5> QED
          BY <5>1
      <4>2. CASE g # search.guid
        <5>1. called'[g] = called[g]
          BY <2>6, <4>2
        <5> QED
          BY <3>1, <5>1
      <4> QED
        BY <4>1, <4>2
    <3> QED
      BY <3>2
  <2>10. DOMAIN called' = Guids
    BY <2>1 DEF ProxyInv
  <2> QED
    BY <2>1, <2>2, <2>8, <2>9, <2>10 DEF ProxyInv
<1>9. CASE UNCHANGED vars
  BY <1>9 DEF vars, proxyVars, ProxyInv, Pending
<1> QED
  BY <1>1, <1>2, <1>3, <1>4, <1>5, <1>6, <1>7, <1>8, <1>9
     DEF Next, Elsewhere, RequestStep, EngineStep

\* However many requests are made and whatever the engine finds, the map and the engine
\* stay within ProxyInv.
THEOREM CallbacksCorrect == Spec => []ProxyInv
  BY InitProxy, StepProxy, PTL DEF Spec

\* The library and the engine's thread are never at the map at the same time, and
\* what waits in it is the callback of the request under way, not called yet.
THEOREM MapIsSafe == Spec => []CallbackMapIsSafe
<1>1. ProxyInv => CallbackMapIsSafe
  <2> SUFFICES ASSUME ProxyInv PROVE CallbackMapIsSafe
    OBVIOUS
  <2>1. proxyCallbacks_ = {} \/ proxyCallbacks_ = {search.guid} \/ proxyCallbacks_ = {requests}
    BY DEF ProxyInv
  <2>2. Cardinality(proxyCallbacks_) <= 1
    <3>1. \A x : Cardinality({x}) = 1
      BY FS_Singleton
    <3>2. Cardinality({}) = 0
      BY FS_EmptySet
    <3>3. Cardinality(proxyCallbacks_) \in {0, 1}
      BY <2>1, <3>1, <3>2, Zenon
    <3> QED
      BY <3>3
  <2>3. \A g \in proxyCallbacks_ : g \in Guids /\ g <= requests
    BY ConfigurationAssumption DEF ProxyInv, Requesting, Guids
  <2>4. \A g \in proxyCallbacks_ : called[g] = << >>
    BY <2>3 DEF ProxyInv, Pending
  <2> QED
    BY <2>2, <2>3, <2>4 DEF ProxyInv, CallbackMapIsSafe
<1> QED
  BY <1>1, CallbacksCorrect, PTL

\* No callback is called twice.
CalledOnce == \A g \in Guids : Len(called[g]) <= 1

\* updateProxyList() takes a callback out of the map before it calls it, so that none is
\* called twice.
THEOREM NoneIsCalledTwice == Spec => []CalledOnce
<1>1. ProxyInv => CalledOnce
  BY DEF ProxyInv, CalledOnce
<1> QED
  BY <1>1, CallbacksCorrect, PTL

-------------------------------------------------------------------------------
(* The certificates *)

\* The retriever has no certificates when it loads some.
CertInv ==
  /\ heap \in [Objects -> Certs \cup {"free"}]
  /\ certificates \subseteq Objects
  /\ \A a \in held : a.places \subseteq Objects
  /\ trust \in TrustStores
  /\ CertificatesStayValid

\* What the system trusts are certificates.
LEMMA TrustedAreCerts ==
  ASSUME trust \in TrustStores
  PROVE  InBundles \subseteq Certs /\ InKeychain \subseteq Certs
  BY DEF TrustStores, InBundles, InKeychain

\* An object belongs to the retriever or to a caller, and is one of theirs only.
LEMMA Owned ==
  ASSUME CertificatesStayValid
  PROVE  /\ \A o \in Objects : heap[o] # "free" <=>
              (o \in certificates \/ \E a \in held : o \in a.places)
         /\ \A o \in certificates : o \in Objects /\ heap[o] # "free"
         /\ \A a \in held : \A o \in a.places :
              o \in Objects /\ heap[o] # "free" /\ o \notin certificates
         /\ \A a, b \in held : a = b \/ a.places \cap b.places = {}
         /\ \A a \in held : CertsAt(a.places) = a.certs
         /\ CertsAt(certificates) = promise
         /\ \A o, p \in certificates : heap[o] = heap[p] => o = p
<1> DEFINE owners == {certificates} \cup {a.places : a \in held}
<1>1. UNION owners = {o \in Objects : heap[o] # "free"}
  BY DEF CertificatesStayValid
<1>2. \A o : o \in UNION owners <=> (o \in certificates \/ \E a \in held : o \in a.places)
  OBVIOUS
<1> QED
  BY <1>1, <1>2 DEF CertificatesStayValid, IsInjective

\* And that suffices, for any heap h, certificates c and arrays hl.
LEMMA OwnedSuffices ==
  ASSUME NEW h, NEW c, NEW hl,
         \A o \in Objects : h[o] # "free" <=> (o \in c \/ \E a \in hl : o \in a.places),
         c \subseteq Objects, \A a \in hl : a.places \subseteq Objects,
         \A o, p \in c : h[o] = h[p] => o = p
  PROVE  /\ UNION ({c} \cup {a.places : a \in hl}) = {o \in Objects : h[o] # "free"}
         /\ IsInjective([o \in c |-> h[o]])
<1>1. \A o : o \in UNION ({c} \cup {a.places : a \in hl})
               <=> (o \in c \/ \E a \in hl : o \in a.places)
  OBVIOUS
<1>2. UNION ({c} \cup {a.places : a \in hl}) = {o \in Objects : h[o] # "free"}
  BY <1>1
<1> QED
  BY <1>2 DEF IsInjective

\* Objects placed with an injection hold what was placed there, each once.
LEMMA Placing ==
  ASSUME NEW h \in [Objects -> Certs \cup {"free"}], NEW xs, NEW f \in Places(h, xs)
  PROVE  /\ Range(f) \subseteq Objects /\ \A o \in Range(f) : h[o] = "free"
         /\ \A o \in Range(f) : Inside(f, o) \in xs /\ f[Inside(f, o)] = o
         /\ \A x \in xs : f[x] \in Range(f) /\ Inside(f, f[x]) = x
<1>1. f \in [xs -> Free(h)] /\ \A a, b \in xs : f[a] = f[b] => a = b
  BY DEF Places, IsInjective
<1>2. Range(f) \subseteq Objects /\ \A o \in Range(f) : h[o] = "free"
  BY <1>1 DEF Range, Free
<1>3. ASSUME NEW o \in Range(f)
      PROVE  Inside(f, o) \in xs /\ f[Inside(f, o)] = o
  <2>1. \E x \in DOMAIN f : f[x] = o
    BY DEF Range
  <2> QED
    BY <1>1, <2>1 DEF Inside
<1>4. \A x \in xs : f[x] \in Range(f)
  BY <1>1 DEF Range
<1> QED
  BY <1>1, <1>2, <1>3, <1>4

\* A load into an empty retriever.
LEMMA StoreStep ==
  ASSUME CertInv, certificates = {}, NEW cs \in SUBSET Certs, Store(heap, {}, cs),
         promise' = cs, UNCHANGED <<held, trust>>
  PROVE  CertInv'
<1>0. heap \in [Objects -> Certs \cup {"free"}] /\ "free" \notin Certs
  BY CertAssumption DEF CertInv
<1>1. PICK f \in Places(heap, cs) :
        /\ heap' = [o \in Objects |-> IF o \in Range(f) THEN Inside(f, o) ELSE heap[o]]
        /\ certificates' = Range(f)
  BY DEF Store
<1>2. /\ Range(f) \subseteq Objects /\ \A o \in Range(f) : heap[o] = "free"
      /\ \A o \in Range(f) : Inside(f, o) \in cs /\ f[Inside(f, o)] = o
      /\ \A x \in cs : f[x] \in Range(f) /\ Inside(f, f[x]) = x
  BY <1>0, Placing
<1>3. /\ \A o \in Objects : heap[o] # "free" <=> \E a \in held : o \in a.places
      /\ \A a \in held : \A o \in a.places : o \in Objects /\ heap[o] # "free"
      /\ \A a, b \in held : a = b \/ a.places \cap b.places = {}
      /\ \A a \in held : CertsAt(a.places) = a.certs
  BY Owned DEF CertInv
<1>4. /\ \A o \in Range(f) : heap'[o] = Inside(f, o)
      /\ \A o \in Objects \ Range(f) : heap'[o] = heap[o]
  BY <1>1, <1>2
<1>5. \A o \in Range(f) : heap'[o] \in cs /\ heap'[o] # "free"
  BY <1>0, <1>2, <1>4
<1>6. \A a \in held : \A o \in a.places : o \notin Range(f) /\ heap'[o] = heap[o]
  BY <1>2, <1>3, <1>4
<1>7. \A o \in Objects : heap'[o] # "free" <=>
        (o \in certificates' \/ \E a \in held' : o \in a.places)
  BY <1>1, <1>3, <1>4, <1>5
<1>8. \A a \in held' : CertsAt(a.places)' = a.certs
  <2>1. ASSUME NEW a \in held PROVE CertsAt(a.places)' = CertsAt(a.places)
    BY <1>6 DEF CertsAt
  <2> QED
    BY <2>1, <1>3
<1>9. CertsAt(certificates)' = promise'
  <2>1. \A x \in cs : f[x] \in Range(f) /\ heap'[f[x]] = x
    BY <1>2, <1>4
  <2>2. {heap'[o] : o \in Range(f)} = cs
    BY <2>1, <1>5
  <2> QED
    BY <1>1, <2>2 DEF CertsAt
<1>10. \A o, p \in certificates' : heap'[o] = heap'[p] => o = p
  BY <1>1, <1>2, <1>4
<1>11. \A a \in held' : a.places \subseteq Objects /\ a.places \cap certificates' = {}
  BY <1>1, <1>3, <1>6
<1>12. certificates' \subseteq Objects
  BY <1>1, <1>2
<1>13. CertificatesStayValid'
  <2>1. \A a, b \in held' : a = b \/ a.places \cap b.places = {}
    BY <1>3
  <2>9. /\ UNION ({certificates'} \cup {a.places : a \in held'}) = {o \in Objects : heap'[o] # "free"}
        /\ IsInjective([o \in certificates' |-> heap'[o]])
    <3>1. \A a \in held' : a.places \subseteq Objects
      BY <1>11
    <3> QED
      BY <1>7, <1>10, <1>12, <3>1, OwnedSuffices
  <2> QED
    BY <1>7, <1>8, <1>9, <1>10, <1>11, <1>12, <2>1, <2>9 DEF CertificatesStayValid
<1>14. heap' \in [Objects -> Certs \cup {"free"}]
  BY <1>0, <1>1, <1>4, <1>5
<1> QED
  BY <1>11, <1>12, <1>13, <1>14 DEF CertInv

\* The retriever frees its objects.
LEMMA FreeStep ==
  ASSUME CertInv, FreeSystemSslCertificates
  PROVE  CertInv' /\ certificates' = {}
<1>0. heap \in [Objects -> Certs \cup {"free"}]
  BY DEF CertInv
<1>1. /\ heap' = [o \in Objects |-> IF o \in certificates THEN "free" ELSE heap[o]]
      /\ certificates' = {} /\ promise' = {} /\ UNCHANGED <<held, trust>>
  BY DEF FreeSystemSslCertificates, Freed
<1>2. /\ \A o \in Objects : heap[o] # "free" <=>
           (o \in certificates \/ \E a \in held : o \in a.places)
      /\ \A a \in held : \A o \in a.places :
           o \in Objects /\ heap[o] # "free" /\ o \notin certificates
      /\ \A a, b \in held : a = b \/ a.places \cap b.places = {}
      /\ \A a \in held : CertsAt(a.places) = a.certs
  BY Owned DEF CertInv
<1>3. \A a \in held : \A o \in a.places : heap'[o] = heap[o]
  BY <1>1, <1>2
<1>4. \A o \in Objects : heap'[o] # "free" <=>
        (o \in certificates' \/ \E a \in held' : o \in a.places)
  BY <1>1, <1>2
<1>5. \A a \in held' : CertsAt(a.places)' = a.certs
  <2>1. ASSUME NEW a \in held PROVE CertsAt(a.places)' = CertsAt(a.places)
    BY <1>3 DEF CertsAt
  <2> QED
    BY <2>1, <1>1, <1>2
<1>6. CertsAt(certificates)' = promise'
  BY <1>1 DEF CertsAt
<1>7. CertificatesStayValid'
  <2>1. /\ \A a \in held' : a.places \subseteq Objects /\ a.places \cap certificates' = {}
        /\ \A a, b \in held' : a = b \/ a.places \cap b.places = {}
        /\ certificates' \subseteq Objects
        /\ \A o, p \in certificates' : heap'[o] = heap'[p] => o = p
    BY <1>1, <1>2
  <2>9. /\ UNION ({certificates'} \cup {a.places : a \in held'}) = {o \in Objects : heap'[o] # "free"}
        /\ IsInjective([o \in certificates' |-> heap'[o]])
    BY <1>4, <1>5, <1>6, <2>1, OwnedSuffices
  <2> QED
    BY <1>4, <1>5, <1>6, <2>1, <2>9 DEF CertificatesStayValid
<1>8. heap' \in [Objects -> Certs \cup {"free"}]
  BY <1>0, <1>1
<1> QED
  BY <1>1, <1>7, <1>8 DEF CertInv

\* A caller gets copies.
LEMMA GetStep ==
  ASSUME CertInv, GetSslCertificates
  PROVE  CertInv' /\ certificates' = certificates
<1>0. heap \in [Objects -> Certs \cup {"free"}]
  BY DEF CertInv
<1>1. PICK f \in Places(heap, certificates) :
        /\ heap' = [o \in Objects |-> IF o \in Range(f) THEN heap[Inside(f, o)] ELSE heap[o]]
        /\ held' = held \cup {[places |-> Range(f), certs |-> CertsAt(certificates)]}
  BY DEF GetSslCertificates
<1>2. UNCHANGED <<certificates, promise, trust>>
  BY DEF GetSslCertificates
<1>3. /\ Range(f) \subseteq Objects /\ \A o \in Range(f) : heap[o] = "free"
      /\ \A o \in Range(f) : Inside(f, o) \in certificates /\ f[Inside(f, o)] = o
      /\ \A x \in certificates : f[x] \in Range(f) /\ Inside(f, f[x]) = x
  BY <1>0, Placing
<1>4. /\ \A o \in Objects : heap[o] # "free" <=>
           (o \in certificates \/ \E a \in held : o \in a.places)
      /\ \A o \in certificates : o \in Objects /\ heap[o] # "free"
      /\ \A a \in held : \A o \in a.places :
           o \in Objects /\ heap[o] # "free" /\ o \notin certificates
      /\ \A a, b \in held : a = b \/ a.places \cap b.places = {}
      /\ \A a \in held : CertsAt(a.places) = a.certs
      /\ CertsAt(certificates) = promise
      /\ \A o, p \in certificates : heap[o] = heap[p] => o = p
  BY Owned DEF CertInv
<1>5. PICK new : /\ new.places = Range(f) /\ new.certs = CertsAt(certificates)
                 /\ held' = held \cup {new}
  <2>1. [places |-> Range(f), certs |-> CertsAt(certificates)].places = Range(f)
    OBVIOUS
  <2>2. [places |-> Range(f), certs |-> CertsAt(certificates)].certs = CertsAt(certificates)
    OBVIOUS
  <2> QED
    BY <1>1, <2>1, <2>2
<1>6. /\ \A o \in Range(f) : heap'[o] = heap[Inside(f, o)]
      /\ \A o \in Objects \ Range(f) : heap'[o] = heap[o]
  BY <1>1, <1>3
<1>7. /\ \A o \in Range(f) : heap'[o] # "free"
      /\ \A o \in certificates : o \notin Range(f) /\ heap'[o] = heap[o]
      /\ \A a \in held : \A o \in a.places : o \notin Range(f) /\ heap'[o] = heap[o]
  BY <1>3, <1>4, <1>6
<1>8. \A o \in Objects : heap'[o] # "free" <=>
        (o \in certificates' \/ \E a \in held' : o \in a.places)
  BY <1>2, <1>4, <1>5, <1>6, <1>7
<1>9. CertsAt(certificates)' = CertsAt(certificates)
  BY <1>2, <1>7 DEF CertsAt
<1>10. \A a \in held' : CertsAt(a.places)' = a.certs
  <2>1. ASSUME NEW a \in held PROVE CertsAt(a.places)' = CertsAt(a.places)
    BY <1>7 DEF CertsAt
  <2>2. {heap'[o] : o \in Range(f)} = {heap[o] : o \in certificates}
    <3>1. \A o \in Range(f) : heap'[o] \in {heap[x] : x \in certificates}
      BY <1>3, <1>6
    <3>2. \A x \in certificates : heap[x] \in {heap'[o] : o \in Range(f)}
      BY <1>3, <1>6
    <3> QED
      BY <3>1, <3>2
  <2>3. CertsAt(new.places)' = new.certs
    BY <2>2, <1>5 DEF CertsAt
  <2> QED
    BY <2>1, <2>3, <1>4, <1>5
<1>11. \A a, b \in held' : a = b \/ a.places \cap b.places = {}
  <2>1. \A a \in held : a.places \cap new.places = {}
    BY <1>5, <1>7
  <2> QED
    BY <2>1, <1>4, <1>5
<1>12. \A a \in held' : a.places \subseteq Objects /\ a.places \cap certificates' = {}
  BY <1>2, <1>3, <1>4, <1>5, <1>7
<1>13. CertificatesStayValid'
  <2>1. CertsAt(certificates)' = promise' /\ certificates' \subseteq Objects
    BY <1>2, <1>4, <1>9
  <2>2. \A o, p \in certificates' : heap'[o] = heap'[p] => o = p
    BY <1>2, <1>4, <1>7
  <2>9. /\ UNION ({certificates'} \cup {a.places : a \in held'}) = {o \in Objects : heap'[o] # "free"}
        /\ IsInjective([o \in certificates' |-> heap'[o]])
    BY <1>8, <1>10, <1>11, <1>12, <2>1, <2>2, OwnedSuffices
  <2> QED
    BY <1>8, <1>10, <1>11, <1>12, <2>1, <2>2, <2>9 DEF CertificatesStayValid
<1>14. heap' \in [Objects -> Certs \cup {"free"}]
  <2>1. \A o \in Objects : heap'[o] \in Certs \cup {"free"}
    BY <1>0, <1>3, <1>4, <1>6
  <2> QED
    BY <2>1, <1>1
<1> QED
  BY <1>2, <1>12, <1>13, <1>14 DEF CertInv

\* And gives them back.
LEMMA ReleaseStep ==
  ASSUME CertInv, NEW array \in held, ReleaseSslCertificates(array)
  PROVE  CertInv' /\ certificates' = certificates
<1>0. heap \in [Objects -> Certs \cup {"free"}]
  BY DEF CertInv
<1>1. /\ heap' = [o \in Objects |-> IF o \in array.places THEN "free" ELSE heap[o]]
      /\ held' = held \ {array} /\ UNCHANGED <<certificates, promise, trust>>
  BY DEF ReleaseSslCertificates, Freed
<1>2. /\ \A o \in Objects : heap[o] # "free" <=>
           (o \in certificates \/ \E a \in held : o \in a.places)
      /\ \A o \in certificates : o \in Objects /\ heap[o] # "free"
      /\ \A a \in held : \A o \in a.places :
           o \in Objects /\ heap[o] # "free" /\ o \notin certificates
      /\ \A a, b \in held : a = b \/ a.places \cap b.places = {}
      /\ \A a \in held : CertsAt(a.places) = a.certs
      /\ CertsAt(certificates) = promise
      /\ \A o, p \in certificates : heap[o] = heap[p] => o = p
  BY Owned DEF CertInv
<1>3. /\ \A o \in certificates : o \notin array.places /\ heap'[o] = heap[o]
      /\ \A a \in held' : \A o \in a.places : o \notin array.places /\ heap'[o] = heap[o]
  BY <1>1, <1>2
<1>4. \A o \in Objects : heap'[o] # "free" <=>
        (o \in certificates' \/ \E a \in held' : o \in a.places)
  BY <1>1, <1>2, <1>3
<1>5. \A a \in held' : CertsAt(a.places)' = a.certs
  <2>1. ASSUME NEW a \in held' PROVE CertsAt(a.places)' = CertsAt(a.places)
    BY <1>3 DEF CertsAt
  <2> QED
    BY <2>1, <1>1, <1>2
<1>6. CertsAt(certificates)' = promise'
  BY <1>1, <1>2, <1>3 DEF CertsAt
<1>7. CertificatesStayValid'
  <2>1. /\ \A a \in held' : a.places \subseteq Objects /\ a.places \cap certificates' = {}
        /\ \A a, b \in held' : a = b \/ a.places \cap b.places = {}
        /\ certificates' \subseteq Objects
        /\ \A o, p \in certificates' : heap'[o] = heap'[p] => o = p
    BY <1>1, <1>2, <1>3
  <2>9. /\ UNION ({certificates'} \cup {a.places : a \in held'}) = {o \in Objects : heap'[o] # "free"}
        /\ IsInjective([o \in certificates' |-> heap'[o]])
    BY <1>4, <1>5, <1>6, <2>1, OwnedSuffices
  <2> QED
    BY <1>4, <1>5, <1>6, <2>1, <2>9 DEF CertificatesStayValid
<1>8. heap' \in [Objects -> Certs \cup {"free"}]
  BY <1>0, <1>1
<1> QED
  BY <1>1, <1>2, <1>7, <1>8 DEF CertInv

\* The retriever is empty when it loads.
LoadsIntoNothing == at \in {"construct", "load"} => certificates = {}

\* Before the constructor loads anything there is no object.
LEMMA InitCert == Init => CertInv /\ LoadsIntoNothing
<1> SUFFICES ASSUME Init PROVE CertInv /\ LoadsIntoNothing
  OBVIOUS
<1>1. /\ heap = [o \in Objects |-> "free"] /\ certificates = {} /\ held = {} /\ promise = {}
      /\ trust \in TrustStores
  BY CertAssumption DEF Init
<1>2. UNION ({certificates} \cup {a.places : a \in held}) = {o \in Objects : heap[o] # "free"}
  BY <1>1
<1>3. CertsAt(certificates) = promise /\ IsInjective([o \in certificates |-> heap[o]])
  BY <1>1 DEF CertsAt, IsInjective
<1>4. CertificatesStayValid
  BY <1>1, <1>2, <1>3 DEF CertificatesStayValid
<1> QED
  BY <1>1, <1>4 DEF CertInv, LoadsIntoNothing

\* A load, of either platform, that succeeds or fails.
LEMMA LoadStep ==
  ASSUME CertInv, certificates = {}, LoadSystemSslCertificates
  PROVE  CertInv'
<1>1. InBundles \in SUBSET Certs /\ InKeychain \in SUBSET Certs
  BY TrustedAreCerts DEF CertInv
<1>2. CASE LoadFromBundles
  <2>1. Store(heap, {}, InBundles) /\ promise' = InBundles /\ UNCHANGED <<held, trust>>
    BY <1>2 DEF LoadFromBundles
  <2> QED
    BY <1>1, <2>1, StoreStep
<1>3. CASE LoadFromKeychain /\ KeychainIsUsable
  <2>1. Freed(certificates) = heap
    BY DEF Freed, CertInv
  <2>2. Store(heap, {}, InKeychain) /\ promise' = InKeychain /\ UNCHANGED <<held, trust>>
    BY <1>3, <2>1 DEF LoadFromKeychain
  <2> QED
    BY <1>1, <2>2, StoreStep
<1>4. CASE LoadFromKeychain /\ ~KeychainIsUsable
  <2>1. UNCHANGED <<heap, certificates, held, promise, trust>>
    BY <1>4 DEF LoadFromKeychain
  <2> QED
    BY <2>1 DEF CertInv, CertificatesStayValid, CertsAt
<1> QED
  BY <1>2, <1>3, <1>4 DEF LoadSystemSslCertificates

\* The steps that have nothing to do with certificates.
NoCertificateStep ==
  \/ IdentityStep \/ IdentityChanges
  \/ StartProxyDiscovery \/ StartProxyDiscoveryAsync \/ RequestStep
  \/ EngineStep

\* They leave the certificates alone and bring no call to a load.
LEMMA NoCertificateStepKeeps ==
  ASSUME NoCertificateStep
  PROVE  UNCHANGED certVars /\ (at' = at \/ at' \notin {"construct", "load"})
<1>1. CASE IdentityStep
  BY <1>1 DEF IdentityStep, GetIdentityToken, GetUcIdentity, GetPmUrls, Ask, Begin, AskLength,
       AskValue, Continue, GoTo, Answer, RefreshIdentity, Call, Others
<1>2. CASE IdentityChanges
  BY <1>2 DEF IdentityChanges, UnchangedCall
<1>3. CASE StartProxyDiscovery \/ StartProxyDiscoveryAsync
  BY <1>3 DEF StartProxyDiscovery, StartProxyDiscoveryAsync, Call, Begin, ProxiesAlone
<1>4. CASE RequestStep
  BY <1>4 DEF RequestStep, WaitPrevOpCompleted, Insert, Request, GoTo, Answer, NoProxies
<1>5. CASE EngineStep
  BY <1>5 DEF EngineStep, Find, UpdateProxyList, CallBack, UnchangedCall, NoProxies
<1> QED
  BY <1>1, <1>2, <1>3, <1>4, <1>5 DEF NoCertificateStep

\* Every load finds the retriever empty and every object keeps its one owner.
LEMMA StepCert == CertInv /\ LoadsIntoNothing /\ [Next]_vars => (CertInv /\ LoadsIntoNothing)'
<1> SUFFICES ASSUME CertInv, LoadsIntoNothing, [Next]_vars
             PROVE  CertInv' /\ LoadsIntoNothing'
  OBVIOUS
<1>0. ASSUME UNCHANGED <<heap, certificates, held, promise>>, trust' \in TrustStores
      PROVE  CertInv'
  BY <1>0 DEF CertInv, CertificatesStayValid, CertsAt
<1>1. CASE Construct
  <2>1. certificates = {} /\ LoadSystemSslCertificates /\ at' = "idle"
    BY <1>1 DEF Construct, LoadsIntoNothing, GoTo
  <2> QED
    BY <2>1, LoadStep DEF LoadsIntoNothing
<1>2. CASE ReloadSslCertificates
  <2>1. UNCHANGED <<heap, certificates, held, promise, trust>> /\ at' = "free"
    BY <1>2 DEF ReloadSslCertificates, Begin, UnchangedCerts, certVars
  <2> QED
    BY <1>0, <2>1 DEF LoadsIntoNothing, CertInv
<1>3. CASE ReloadFrees
  <2>1. FreeSystemSslCertificates
    BY <1>3 DEF ReloadFrees
  <2> QED
    BY <2>1, FreeStep DEF LoadsIntoNothing
<1>4. CASE ReloadLoads
  <2>1. certificates = {} /\ LoadSystemSslCertificates /\ at' = "idle"
    BY <1>4 DEF ReloadLoads, LoadsIntoNothing, Answer
  <2> QED
    BY <2>1, LoadStep DEF LoadsIntoNothing
<1>5. CASE GetCertificates
  <2>1. at' = "idle"
    BY <1>5 DEF GetCertificates, Call
  <2>2. CASE certificates = {}
    <3>1. UNCHANGED <<heap, certificates, held, promise, trust>>
      BY <1>5, <2>2 DEF GetCertificates, UnchangedCerts, certVars
    <3> QED
      BY <1>0, <2>1, <3>1 DEF LoadsIntoNothing, CertInv
  <2>3. CASE certificates # {}
    <3>1. GetSslCertificates
      BY <1>5, <2>3 DEF GetCertificates
    <3> QED
      BY <2>1, <3>1, GetStep DEF LoadsIntoNothing
  <2> QED
    BY <2>2, <2>3
<1>6. CASE ReleaseCertificates
  <2>1. at' = "idle"
    BY <1>6 DEF ReleaseCertificates, Call
  <2>2. PICK array \in held : ReleaseSslCertificates(array)
    BY <1>6 DEF ReleaseCertificates
  <2> QED
    BY <2>1, <2>2, ReleaseStep DEF LoadsIntoNothing
<1>7. CASE SystemChanges
  <2>1. UNCHANGED <<heap, certificates, held, promise, at>> /\ trust' \in TrustStores
    BY <1>7, CertAssumption DEF SystemChanges, TrustChanges, UnchangedCall
  <2> QED
    BY <1>0, <2>1 DEF LoadsIntoNothing
<1>8. CASE NoCertificateStep
  <2>1. UNCHANGED <<heap, certificates, held, promise, trust>>
        /\ (at' = at \/ at' \notin {"construct", "load"})
    BY <1>8, NoCertificateStepKeeps DEF certVars
  <2> QED
    BY <1>0, <2>1 DEF LoadsIntoNothing, CertInv
<1>9. CASE UNCHANGED vars
  <2>1. UNCHANGED <<heap, certificates, held, promise, trust, at>>
    BY <1>9 DEF vars, certVars
  <2> QED
    BY <1>0, <2>1 DEF LoadsIntoNothing, CertInv
<1> QED
  BY <1>1, <1>2, <1>3, <1>4, <1>5, <1>6, <1>7, <1>8, <1>9
     DEF Next, CertificateStep, NoCertificateStep

\* Each X509 object has one owner, the retriever or a caller, who frees it once;
\* callers keep what they were given through every reload.
THEOREM CertificatesAreOwned == Spec => []CertificatesStayValid
<1>1. Spec => [](CertInv /\ LoadsIntoNothing)
  BY InitCert, StepCert, PTL DEF Spec
<1>2. CertInv /\ LoadsIntoNothing => CertificatesStayValid
  BY DEF CertInv
<1> QED
  BY <1>1, <1>2, PTL

-------------------------------------------------------------------------------
(* The identity *)

\* The calls that ask CMID for something.
Asking == {"GetIdentityToken", "GetUcIdentity", "GetPmUrls"}

\* What a call asks for, all of it and before it comes to item i.
Asked == IF op = "GetPmUrls" THEN Range(Urls) ELSE {item}
Before(i) ==
  IF i = "checkin" THEN {"event"} ELSE IF i = "catalog" THEN {"event", "checkin"} ELSE {}

Given == {i \in Items : text[i] # Untouched}

\* What was given for item i is true.
TrueFor(i) ==
  text[i] # Untouched =>
    /\ text[i].of \in known
    /\ text[i].padding # 0 =>
         \E j \in known \ {NoIdentity} : Length[j] = Length[text[i].of] + text[i].padding

\* While rtn is TRUE, what has been asked for so far has been given, and nothing else.
ItemInv ==
  /\ at \in {"length", "value"} =>
       /\ op \in Asking
       /\ item \in IF op = "GetPmUrls" THEN Range(Urls) ELSE {"token", "id"}
       /\ Given \subseteq Before(item) /\ (rtn <=> Given = Before(item))
  /\ at \notin {"length", "value", "idle"} => op \notin Asking
  /\ at = "idle" /\ op \in Asking => (answer = "true" <=> Given = Asked)

\* The buffer is as long as something that CMID had during the call.
TextInv ==
  /\ cmid \in Identities \cup {NoIdentity} /\ known \subseteq Identities \cup {NoIdentity}
  /\ buflen \in Nat /\ rtn \in BOOLEAN
  /\ text \in [Items -> Texts \cup {Untouched}]
  /\ at \in {"length", "value"} => cmid \in known
  /\ at = "value" => \E j \in known \ {NoIdentity} : buflen = Length[j] + 1
  /\ \A i \in Items : TrueFor(i)

IdentityInv == ItemInv /\ TextInv

\* The items there are, in so many words.
LEMMA UrlItems ==
  /\ Range(Urls) = {"event", "checkin", "catalog"}
  /\ Items = {"token", "id", "event", "checkin", "catalog"}
<1>1. Len(Urls) = 3 /\ Urls[1] = "event" /\ Urls[2] = "checkin" /\ Urls[3] = "catalog"
      /\ DOMAIN Urls = 1..3
  BY DEF Urls
<1>2. Range(Urls) = {Urls[i] : i \in 1..3}
  BY <1>1 DEF Range
<1>3. 1..3 = {1, 2, 3}
  OBVIOUS
<1>4. Range(Urls) = {"event", "checkin", "catalog"}
  BY <1>1, <1>2, <1>3
<1> QED
  BY <1>4 DEF Items

\* With an item a call goes on with the next or ends.
LEMMA Continuing ==
  ASSUME NEW got, Continue(got)
  PROVE  /\ rtn' = (rtn /\ got) /\ op' = op
         /\ op = "GetPmUrls" /\ item = "event" => at' = "length" /\ item' = "checkin"
         /\ op = "GetPmUrls" /\ item = "checkin" => at' = "length" /\ item' = "catalog"
         /\ op # "GetPmUrls" \/ item = "catalog" =>
              at' = "idle" /\ item' = item /\ (answer' = IF rtn' THEN "true" ELSE "false")
<1> DEFINE I == {i \in 1..Len(Urls) : Urls[i] = item}
           next == (IF I # {} THEN Min(I) ELSE 0) + 1
<1>1. /\ rtn' = (rtn /\ got)
      /\ IF op = "GetPmUrls" /\ next <= Len(Urls)
         THEN GoTo("length") /\ item' = Urls[next]
         ELSE Answer(IF rtn' THEN "true" ELSE "false") /\ UNCHANGED item
  BY DEF Continue, SelectInSeq
<1>2. Len(Urls) = 3 /\ Urls[1] = "event" /\ Urls[2] = "checkin" /\ Urls[3] = "catalog"
  BY DEF Urls
<1>3. ASSUME NEW k \in 1..3, item = Urls[k]
      PROVE  next = k + 1
  <2>1. I = {k}
    BY <1>2, <1>3
  <2>2. Min({k}) = k
    BY DEF Min
  <2> QED
    BY <2>1, <2>2
<1>4. /\ item = "event" => next = 2
      /\ item = "checkin" => next = 3
      /\ item = "catalog" => next = 4
  BY <1>2, <1>3
<1> HIDE DEF next
<1> QED
  BY <1>1, <1>2, <1>4 DEF GoTo, Answer

\* It comes to the next item with that item given if it has got it.
LEMMA Advancing ==
  ASSUME ItemInv, rtn \in BOOLEAN, at \in {"length", "value"}, NEW got \in BOOLEAN, Continue(got),
         Given' = IF got THEN Given \cup {item} ELSE Given
  PROVE  ItemInv' /\ op' = op /\ at' \in {"length", "idle"} /\ rtn' \in BOOLEAN
<1>1. /\ op \in Asking
      /\ item \in IF op = "GetPmUrls" THEN {"event", "checkin", "catalog"} ELSE {"token", "id"}
      /\ Given \subseteq Before(item) /\ (rtn <=> Given = Before(item))
  BY UrlItems DEF ItemInv
<1>2. item \notin Before(item)
  BY DEF Before
<1>3. rtn' \in BOOLEAN /\ (rtn' <=> rtn /\ got)
  <2>1. rtn' = (rtn /\ got)
    BY Continuing
  <2> QED
    BY <2>1, Zenon
<1>4. op' = op
  BY Continuing
<1>5. Given' \subseteq Before(item) \cup {item} /\ (rtn' <=> Given' = Before(item) \cup {item})
  BY <1>1, <1>2, <1>3
<1>6. CASE op = "GetPmUrls" /\ item \in {"event", "checkin"}
  <2>1. at' = "length" /\ item' \in {"checkin", "catalog"}
    BY <1>6, Continuing
  <2>2. Before(item)' = Before(item) \cup {item}
    BY <1>6, Continuing DEF Before
  <2>3. Given' \subseteq Before(item)' /\ (rtn' <=> Given' = Before(item)')
    BY <1>5, <2>2
  <2> QED
    <3>1. item' \in Range(Urls) /\ op' \in Asking /\ op' = "GetPmUrls"
      BY <1>1, <1>4, <1>6, <2>1, UrlItems
    <3>2. ItemInv'
      BY <2>1, <2>3, <3>1 DEF ItemInv
    <3> QED
      BY <1>3, <1>4, <2>1, <3>2
<1>7. CASE op # "GetPmUrls" \/ item = "catalog"
  <2>1. at' = "idle" /\ item' = item /\ (answer' = IF rtn' THEN "true" ELSE "false")
    BY <1>7, Continuing
  <2>2. answer' = "true" <=> rtn'
    BY <2>1
  <2>3. Asked' = Before(item) \cup {item}
    BY <1>1, <1>4, <1>7, <2>1, UrlItems DEF Asked, Before
  <2> QED
    BY <1>3, <1>4, <1>5, <2>1, <2>2, <2>3 DEF ItemInv
<1> QED
  BY <1>1, <1>6, <1>7

\* Before the first call nothing has been asked for or given.
LEMMA InitIdentity == Init => IdentityInv
<1> SUFFICES ASSUME Init PROVE IdentityInv
  OBVIOUS
<1>1. \A i \in Items : TrueFor(i)
  BY DEF Init, TrueFor
<1>2. ItemInv
  BY DEF Init, ItemInv, Asking
<1> QED
  BY <1>1, <1>2 DEF Init, IdentityInv, TextInv

\* A call begins with nothing given.
LEMMA AskStep ==
  ASSUME IdentityInv, NEW name \in Asking, NEW first, Ask(name, first), Before(first) = {},
         first \in IF name = "GetPmUrls" THEN Range(Urls) ELSE {"token", "id"}
  PROVE  IdentityInv'
<1>1. /\ op' = name /\ at' = "length" /\ item' = first
      /\ text' = [i \in Items |-> Untouched] /\ buflen' = 0 /\ rtn' = TRUE
      /\ known' = {cmid} /\ cmid' = cmid
  BY DEF Ask, Begin
<1>2. Given' = {}
  BY <1>1 DEF Given
<1>3. Before(item)' = {}
  BY <1>1 DEF Before
<1>4. ItemInv'
  BY <1>1, <1>2, <1>3 DEF ItemInv
<1>5. \A i \in Items : TrueFor(i)'
  BY <1>1 DEF TrueFor
<1>6. TextInv'
  BY <1>1, <1>5 DEF TextInv, IdentityInv
<1> QED
  BY <1>4, <1>6 DEF IdentityInv

\* A length that CMID has given is that of an identity it had during the call.
LEMMA AskLengthStep == ASSUME IdentityInv, AskLength PROVE IdentityInv'
<1>1. UNCHANGED <<cmid, text, known>> /\ at = "length"
  BY DEF AskLength
<1>2. (\A i \in Items : TrueFor(i)') /\ Given' = Given
  BY <1>1 DEF TrueFor, Given, IdentityInv, TextInv
<1>3. CASE cmid = NoIdentity
  <2>1. Continue(FALSE) /\ buflen' = buflen
    BY <1>3 DEF AskLength
  <2>2. ItemInv' /\ at' \in {"length", "idle"} /\ rtn' \in BOOLEAN
    BY <1>1, <1>2, <2>1, Advancing DEF IdentityInv, TextInv
  <2> QED
    BY <1>1, <1>2, <2>1, <2>2 DEF IdentityInv, TextInv
<1>4. CASE cmid # NoIdentity
  <2>1. /\ buflen' = Length[cmid] + 1 /\ at' = "value"
        /\ UNCHANGED <<op, answer, item, rtn>>
    BY <1>4 DEF AskLength, GoTo
  <2>2. cmid \in known \ {NoIdentity} /\ Length[cmid] \in Nat
    BY <1>1, <1>4, ConfigurationAssumption DEF IdentityInv, TextInv
  <2>3. ItemInv'
    BY <1>1, <1>2, <2>1 DEF ItemInv, IdentityInv, Before
  <2> QED
    BY <1>1, <1>2, <2>1, <2>2, <2>3 DEF IdentityInv, TextInv
<1> QED
  BY <1>3, <1>4

\* What fits the buffer is an identity of the call, and as much longer the buffer is than
\* it, as much longer was another.
LEMMA AskValueStep == ASSUME IdentityInv, AskValue PROVE IdentityInv'
<1> DEFINE fits == cmid # NoIdentity /\ Length[cmid] < buflen
           given == [of |-> cmid, padding |-> buflen - 1 - Length[cmid]]
<1>1. /\ UNCHANGED <<cmid, buflen, known>> /\ at = "value" /\ Continue(fits)
      /\ text' = IF fits THEN [text EXCEPT ![item] = given] ELSE text
  BY DEF AskValue
<1>2. /\ item \in Items /\ cmid \in known
      /\ text \in [Items -> Texts \cup {Untouched}]
      /\ \A i \in Items : TrueFor(i)
  BY <1>1, UrlItems DEF IdentityInv, ItemInv, TextInv
<1>3. PICK j \in known \ {NoIdentity} : buflen = Length[j] + 1
  BY <1>1 DEF IdentityInv, TextInv
<1>4. Length[j] \in Nat
  BY <1>3, ConfigurationAssumption DEF IdentityInv, TextInv
<1>5. ASSUME fits
      PROVE  /\ text' \in [Items -> Texts \cup {Untouched}] /\ \A i \in Items : TrueFor(i)'
             /\ Given' = Given \cup {item}
  <2>1. cmid \in Identities /\ Length[cmid] \in Nat
    BY <1>5, ConfigurationAssumption DEF IdentityInv, TextInv
  <2>2. given \in Texts /\ given # Untouched
    BY <1>3, <1>4, <1>5, <2>1, ConfigurationAssumption DEF Texts, Untouched
  <2>3. text' = [text EXCEPT ![item] = given]
    BY <1>1, <1>5
  <2>4. text' \in [Items -> Texts \cup {Untouched}]
    BY <1>2, <2>2, <2>3
  <2>5. text'[item] = given /\ \A i \in Items : i # item => text'[i] = text[i]
    BY <1>2, <2>3
  <2>6. Given' = Given \cup {item}
    BY <1>2, <2>2, <2>5 DEF Given
  <2>7. given.of = cmid /\ Length[j] = Length[given.of] + given.padding
    BY <1>3, <1>4, <2>1
  <2> HIDE DEF given
  <2>8. \A i \in Items : TrueFor(i)'
    BY <1>1, <1>2, <2>5, <2>7 DEF TrueFor
  <2> QED
    BY <2>4, <2>6, <2>8
<1>6. ASSUME ~fits
      PROVE  /\ text' \in [Items -> Texts \cup {Untouched}] /\ \A i \in Items : TrueFor(i)'
             /\ Given' = Given
  <2>1. text' = text
    BY <1>1, <1>6
  <2> QED
    BY <1>1, <1>2, <2>1 DEF TrueFor, Given
<1>7. /\ text' \in [Items -> Texts \cup {Untouched}] /\ \A i \in Items : TrueFor(i)'
      /\ Given' = IF fits THEN Given \cup {item} ELSE Given
  BY <1>5, <1>6
<1>8. fits \in BOOLEAN
  OBVIOUS
<1> HIDE DEF fits
<1>9. ItemInv' /\ at' \in {"length", "idle"} /\ rtn' \in BOOLEAN
  BY <1>1, <1>7, <1>8, Advancing DEF IdentityInv, TextInv
<1> QED
  BY <1>1, <1>7, <1>9 DEF IdentityInv, TextInv

\* The steps that have to do with no identity: of other calls, and of others.
NoIdentityStep ==
  CertificateStep \/ SystemChanges \/ StartProxyDiscovery \/ StartProxyDiscoveryAsync
    \/ RequestStep \/ EngineStep

\* They leave the call that asks for one alone, or begin or end another.
LEMMA NoIdentityStepKeeps ==
  ASSUME IdentityInv, NoIdentityStep
  PROVE  /\ UNCHANGED cmid
         /\ \/ UNCHANGED <<op, at, answer, buflen, item, text, rtn, known>>
            \/ /\ op' \notin Asking /\ at' \notin {"length", "value"}
               /\ UNCHANGED identityVars \/ NoIdentityAsked
<1>0. at \notin {"length", "value", "idle"} => op \notin Asking
  BY DEF IdentityInv, ItemInv
<1>1. CASE CertificateStep
  <2>1. CASE Construct \/ ReloadFrees \/ ReloadLoads
    BY <1>0, <2>1 DEF Construct, ReloadFrees, ReloadLoads, GoTo, Answer, NoCertificates
  <2>2. CASE ReloadSslCertificates \/ GetCertificates \/ ReleaseCertificates
    BY <2>2 DEF ReloadSslCertificates, GetCertificates, ReleaseCertificates, Begin, Call, Asking,
         CertificatesAlone
  <2> QED
    BY <1>1, <2>1, <2>2 DEF CertificateStep
<1>2. CASE SystemChanges \/ EngineStep
  BY <1>2 DEF SystemChanges, EngineStep, Find, UpdateProxyList, CallBack, UnchangedCall, NoProxies,
       identityVars
<1>3. CASE StartProxyDiscovery \/ StartProxyDiscoveryAsync
  BY <1>3 DEF StartProxyDiscovery, StartProxyDiscoveryAsync, Begin, Call, Asking, ProxiesAlone
<1>4. CASE RequestStep
  BY <1>0, <1>4 DEF RequestStep, WaitPrevOpCompleted, Insert, Request, GoTo, Answer, NoProxies
<1> QED
  BY <1>1, <1>2, <1>3, <1>4 DEF NoIdentityStep

\* Every step keeps the invariant: CMID may change at any of them.
LEMMA StepIdentity == IdentityInv /\ [Next]_vars => IdentityInv'
<1> SUFFICES ASSUME IdentityInv, [Next]_vars PROVE IdentityInv'
  OBVIOUS
<1>1. ASSUME UNCHANGED <<cmid, op, at, answer, buflen, item, text, rtn, known>>
      PROVE  IdentityInv'
  BY <1>1 DEF IdentityInv, ItemInv, TextInv, TrueFor, Given, Asked, Before
<1>2. ASSUME op' \notin Asking, at' \notin {"length", "value"}, UNCHANGED cmid,
             UNCHANGED identityVars \/ NoIdentityAsked
      PROVE  IdentityInv'
  <2>1. ItemInv'
    BY <1>2 DEF ItemInv
  <2>2. CASE UNCHANGED identityVars
    BY <1>2, <2>1, <2>2 DEF IdentityInv, TextInv, TrueFor, identityVars
  <2>3. CASE NoIdentityAsked
    BY <1>2, <2>1, <2>3 DEF IdentityInv, TextInv, TrueFor, NoIdentityAsked
  <2> QED
    BY <1>2, <2>2, <2>3
<1>3. CASE NoIdentityStep
  BY <1>1, <1>2, <1>3, NoIdentityStepKeeps
<1>4. CASE GetIdentityToken \/ GetUcIdentity \/ GetPmUrls
  <2>1. Head(Urls) = "event" /\ Head(Urls) \in Range(Urls)
    BY UrlItems DEF Urls
  <2>2. Before("token") = {} /\ Before("id") = {} /\ Before(Head(Urls)) = {}
    BY <2>1 DEF Before
  <2>3. CASE GetIdentityToken
    BY <2>2, <2>3, AskStep DEF GetIdentityToken, Asking
  <2>4. CASE GetUcIdentity
    BY <2>2, <2>4, AskStep DEF GetUcIdentity, Asking
  <2>5. CASE GetPmUrls
    BY <2>1, <2>2, <2>5, AskStep DEF GetPmUrls, Asking
  <2> QED
    BY <1>4, <2>3, <2>4, <2>5
<1>5. CASE RefreshIdentity
  <2>1. /\ op' = "RefreshIdentity" /\ at' = "idle" /\ NoIdentityAsked
        /\ cmid' \in Identities \cup {NoIdentity}
    BY <1>5 DEF RefreshIdentity, Call, IdentityInv, TextInv
  <2>2. ItemInv'
    BY <2>1 DEF ItemInv, Asking
  <2>3. TextInv'
    BY <2>1 DEF TextInv, TrueFor, NoIdentityAsked
  <2> QED
    BY <2>2, <2>3 DEF IdentityInv
<1>6. CASE IdentityChanges
  <2>1. /\ UNCHANGED <<op, at, answer, buflen, item, text, rtn>>
        /\ cmid' \in Identities \cup {NoIdentity}
        /\ known' = IF at \in {"length", "value"} THEN known \cup {cmid'} ELSE known
    BY <1>6 DEF IdentityChanges, Becomes, UnchangedCall
  <2>2. ItemInv'
    BY <2>1 DEF IdentityInv, ItemInv, Given, Asked, Before
  <2>3. \A i \in Items : TrueFor(i)'
    BY <2>1 DEF IdentityInv, TextInv, TrueFor
  <2> QED
    BY <2>1, <2>2, <2>3 DEF IdentityInv, TextInv
<1>7. CASE AskLength \/ AskValue
  BY <1>7, AskLengthStep, AskValueStep
<1>8. CASE UNCHANGED vars
  BY <1>1, <1>8 DEF vars, identityVars
<1> QED
  BY <1>3, <1>4, <1>5, <1>6, <1>7, <1>8 DEF Next, IdentityStep, NoIdentityStep

\* What a call gives is what CMID had during the call, all that was asked for if it
\* says so, however often CMID's identity changes and however long each is.
THEOREM IdentitiesAreTrue == Spec => []IdentityIsTrue
<1>1. IdentityInv => IdentityIsTrue
  BY DEF IdentityInv, ItemInv, TextInv, TrueFor, IdentityIsTrue, Given, Asked, Asking
<1> QED
  BY <1>1, InitIdentity, StepIdentity, PTL DEF Spec
-------------------------------------------------------------------------------
(* Types *)

\* Where a call is, what it is and what it has returned.
CallTypes ==
  /\ uses \in Uses /\ op \in Operations \cup {"none"}
  /\ at \in {"construct", "idle", "length", "value", "free", "load", "wait", "insert", "request"}
  /\ answer \in {"none", "0", "-1", "false", "true", "list"}
  /\ item \in Items

\* What the other invariants do not say of the certificates and of the proxies.
CertTypes ==
  /\ platform \in Platforms /\ trust \in Trusts
  /\ held \subseteq [places : SUBSET Objects, certs : SUBSET Certs]

FoundTypes ==
  /\ search \in [guid : Guids \cup {0}, list : ProxyLists \cup {<< >>}]
  /\ called \in [Guids -> Seq(Seq(ProxyTypes))]

\* Every step of a call leads to a place of one, and it answers with what a call can
\* return.
LEMMA StepCallTypes == CallTypes /\ IdentityInv /\ [Next]_vars => CallTypes'
<1> SUFFICES ASSUME CallTypes, IdentityInv, [Next]_vars PROVE CallTypes'
  OBVIOUS
<1> USE DEF CallTypes, Begin, GoTo, Answer, Call, UnchangedCall
<1>0. "token" \in Items /\ "id" \in Items /\ Head(Urls) \in Items
  BY UrlItems DEF Urls
<1>1. NoIdentityAsked => item' \in Items
  BY <1>0 DEF NoIdentityAsked
<1>2. CASE GetIdentityToken \/ GetUcIdentity \/ GetPmUrls
  BY <1>0, <1>2 DEF GetIdentityToken, GetUcIdentity, GetPmUrls, Ask, Operations
<1>3. ASSUME NEW got, Continue(got), at \in {"length", "value"}
      PROVE  CallTypes'
  <2>1. item \in IF op = "GetPmUrls" THEN {"event", "checkin", "catalog"} ELSE {"token", "id"}
    BY <1>3, UrlItems DEF IdentityInv, ItemInv
  <2>2. op' = op /\ at' \in {"length", "idle"} /\ item' \in {item, "checkin", "catalog"}
    BY <1>3, <2>1, Continuing
  <2>3. UNCHANGED uses /\ answer' \in {answer, "true", "false"}
    BY <1>3 DEF Continue
  <2> QED
    BY <2>2, <2>3, UrlItems
<1>4. CASE AskLength
  <2>1. CASE cmid = NoIdentity
    BY <1>3, <1>4, <2>1 DEF AskLength
  <2>2. CASE cmid # NoIdentity
    BY <1>4, <2>2 DEF AskLength
  <2> QED
    BY <2>1, <2>2
<1>5. CASE AskValue
  BY <1>3, <1>5 DEF AskValue
<1>6. CASE RefreshIdentity
  BY <1>1, <1>6 DEF RefreshIdentity, Operations
<1>7. CASE IdentityChanges \/ SystemChanges \/ EngineStep
  BY <1>7 DEF IdentityChanges, SystemChanges, EngineStep, Find, UpdateProxyList, CallBack,
     NoProxies, identityVars
<1>8. CASE CertificateStep
  <2>1. CASE Construct \/ ReloadFrees \/ ReloadLoads
    BY <2>1 DEF Construct, ReloadFrees, ReloadLoads, NoCertificates, identityVars, FalseAsInt32
  <2>2. CASE ReloadSslCertificates \/ GetCertificates \/ ReleaseCertificates
    BY <1>1, <2>2 DEF ReloadSslCertificates, GetCertificates, ReleaseCertificates,
       CertificatesAlone, Operations
  <2> QED
    BY <1>8, <2>1, <2>2 DEF CertificateStep
<1>9. CASE StartProxyDiscovery \/ StartProxyDiscoveryAsync
  BY <1>1, <1>9 DEF StartProxyDiscovery, StartProxyDiscoveryAsync, ProxiesAlone, Operations
<1>10. CASE RequestStep
  BY <1>10 DEF RequestStep, WaitPrevOpCompleted, Insert, Request, NoProxies, identityVars
<1>11. CASE UNCHANGED vars
  BY <1>11 DEF vars, identityVars
<1> QED
  BY <1>2, <1>4, <1>5, <1>6, <1>7, <1>8, <1>9, <1>10, <1>11 DEF Next, IdentityStep

\* An array that is handed out is of places and of certificates.
LEMMA StepCertTypes == CertTypes /\ CertInv /\ [Next]_vars => CertTypes'
<1> SUFFICES ASSUME CertTypes, CertInv, [Next]_vars PROVE CertTypes'
  OBVIOUS
<1>1. CASE UNCHANGED <<platform, trust, held>>
  BY <1>1 DEF CertTypes
<1>2. CASE GetSslCertificates
  <2>1. heap \in [Objects -> Certs \cup {"free"}]
    BY DEF CertInv
  <2>2. PICK f \in Places(heap, certificates) :
          held' = held \cup {[places |-> Range(f), certs |-> CertsAt(certificates)]}
    BY <1>2 DEF GetSslCertificates
  <2>3. Range(f) \subseteq Objects
    BY <2>1, <2>2, Placing
  <2>4. CertsAt(certificates) \subseteq Certs
    BY <2>1, Owned DEF CertInv, CertsAt
  <2>5. UNCHANGED <<platform, trust>>
    BY <1>2 DEF GetSslCertificates
  <2> QED
    BY <2>2, <2>3, <2>4, <2>5 DEF CertTypes
<1>3. CASE \E array \in held : ReleaseSslCertificates(array)
  BY <1>3 DEF ReleaseSslCertificates, CertTypes
<1>4. CASE SystemChanges
  BY <1>4 DEF SystemChanges, TrustChanges, CertTypes
<1>5. CASE LoadSystemSslCertificates \/ FreeSystemSslCertificates
  BY <1>1, <1>5 DEF LoadSystemSslCertificates, LoadFromBundles, LoadFromKeychain,
     FreeSystemSslCertificates
<1>6. CASE CertificateStep
  <2>1. UnchangedCerts => CertTypes'
    BY DEF UnchangedCerts, certVars, CertTypes
  <2> QED
    BY <1>2, <1>3, <1>5, <1>6, <2>1 DEF CertificateStep, Construct, ReloadSslCertificates,
       ReloadFrees, ReloadLoads, GetCertificates, ReleaseCertificates
<1>7. CASE NoCertificateStep
  <2>1. UNCHANGED certVars
    BY <1>7, NoCertificateStepKeeps
  <2> QED
    BY <1>1, <2>1 DEF certVars
<1>8. CASE UNCHANGED vars
  BY <1>1, <1>8 DEF vars, certVars
<1> QED
  BY <1>4, <1>6, <1>7, <1>8 DEF Next, NoCertificateStep

\* What the engine searches for is a request, and what it finds is passed on as a list
\* of proxies.
LEMMA StepFoundTypes == FoundTypes /\ ProxyInv /\ [Next]_vars => FoundTypes'
<1> SUFFICES ASSUME FoundTypes, ProxyInv, [Next]_vars PROVE FoundTypes'
  OBVIOUS
<1>1. CASE UNCHANGED <<search, called>>
  BY <1>1 DEF FoundTypes, Guids
<1>2. CASE Elsewhere \/ UNCHANGED vars
  <2>1. UNCHANGED proxyVars
    BY <1>2, ElsewhereKeeps DEF vars
  <2> QED
    BY <1>1, <2>1 DEF proxyVars
<1>3. CASE StartProxyDiscoveryAsync \/ WaitPrevOpCompleted \/ Insert \/ UpdateProxyList
  BY <1>1, <1>3 DEF StartProxyDiscoveryAsync, WaitPrevOpCompleted, Insert, UpdateProxyList, proxyVars
<1>4. CASE Request
  <2>1. requests \in Guids
    BY <1>4, ConfigurationAssumption DEF Request, ProxyInv, Requesting, Guids
  <2>2. search' = [guid |-> requests, list |-> << >>] /\ UNCHANGED called
    BY <1>4 DEF Request
  <2> QED
    BY <2>1, <2>2 DEF FoundTypes, Guids
<1>5. CASE Find
  <2>1. PICK list \in ProxyLists : search' = [search EXCEPT !.list = list]
    BY <1>5 DEF Find
  <2>2. UNCHANGED called
    BY <1>5 DEF Find
  <2> QED
    BY <2>1, <2>2 DEF FoundTypes, Guids
<1>6. CASE CallBack
  <2>1. /\ called' = [called EXCEPT ![search.guid] = Append(@, ConvertProxyList(search.list))]
        /\ UNCHANGED search
    BY <1>6 DEF CallBack
  <2>2. ConvertProxyList(search.list) \in Seq(ProxyTypes)
    BY ConvertedType DEF ProxyInv
  <2>3. ASSUME NEW g \in Guids
        PROVE  Append(called[g], ConvertProxyList(search.list)) \in Seq(Seq(ProxyTypes))
    BY <2>2 DEF FoundTypes
  <2>4. called' \in [Guids -> Seq(Seq(ProxyTypes))]
    BY <2>1, <2>3 DEF FoundTypes
  <2> QED
    BY <2>1, <2>4 DEF FoundTypes, Guids
<1> QED
  BY <1>2, <1>3, <1>4, <1>5, <1>6 DEF Next, Elsewhere, RequestStep, EngineStep

\* Whatever CMID has, the system trusts and the engine finds, every variable has its
\* type: of the certificates because each object has an owner, of the callbacks
\* because at most one waits.
THEOREM ConfigurationTypeOK == Spec => []TypeOK
<1>1. Init => CallTypes /\ CertTypes /\ FoundTypes
  <2> SUFFICES ASSUME Init PROVE CallTypes /\ CertTypes /\ FoundTypes
    OBVIOUS
  <2>1. CallTypes
    BY UrlItems DEF Init, CallTypes
  <2>2. CertTypes
    BY DEF Init, CertTypes
  <2>3. FoundTypes
    BY DEF Init, FoundTypes
  <2> QED
    BY <2>1, <2>2, <2>3
<1>2. /\ CallTypes /\ CertTypes /\ FoundTypes /\ IdentityInv /\ CertInv /\ ProxyInv /\ [Next]_vars
      => CallTypes' /\ CertTypes' /\ FoundTypes'
  BY StepCallTypes, StepCertTypes, StepFoundTypes
<1>3. CallTypes /\ CertTypes /\ FoundTypes /\ IdentityInv /\ CertInv /\ ProxyInv => TypeOK
  <2> SUFFICES ASSUME CallTypes, CertTypes, FoundTypes, IdentityInv, CertInv, ProxyInv
               PROVE  TypeOK
    OBVIOUS
  <2>1. CertTypeOK
    <3>1. heap \in [Objects -> Certs \cup {"free"}] /\ certificates \subseteq Objects
      BY DEF CertInv
    <3>2. promise \subseteq Certs
      BY <3>1, Owned DEF CertInv, CertsAt
    <3> QED
      BY <3>1, <3>2 DEF CertTypes, CertTypeOK
  <2>2. /\ cmid \in Identities \cup {NoIdentity} /\ known \subseteq Identities \cup {NoIdentity}
        /\ buflen \in Nat /\ rtn \in BOOLEAN /\ text \in [Items -> Texts \cup {Untouched}]
    BY DEF IdentityInv, TextInv
  <2>3. requests \in 0..MaxRequests /\ engine \in {"idle", "searching", "updating", "calling"}
    BY DEF ProxyInv
  <2>4. proxyCallbacks_ \subseteq Guids
    BY ConfigurationAssumption DEF ProxyInv, Requesting, Guids
  <2> QED
    BY <2>1, <2>2, <2>3, <2>4 DEF CallTypes, FoundTypes, TypeOK
<1>4. Spec => []IdentityInv /\ [](CertInv /\ LoadsIntoNothing)
  BY InitIdentity, StepIdentity, InitCert, StepCert, PTL DEF Spec
<1> QED
  BY <1>1, <1>2, <1>3, <1>4, CallbacksCorrect, PTL DEF Spec
-------------------------------------------------------------------------------
(* PmPlatformConfiguration implements ProxyRequests, fairness aside. *)

\* A request that waits for no answer has had one, and what is passed on was found.
OrderInv ==
  /\ \A g \in Guids \ Pending : called[g] # << >>
  /\ engine \in {"updating", "calling"} => search.list \in ProxyLists

\* The lists a callback may be called with.
PlatformLists == {ConvertProxyList(list) : list \in ProxyLists}

\* They are of the platform, which no step changes.
LEMMA ListsStay == [Next]_vars => UNCHANGED PlatformLists
<1> SUFFICES ASSUME [Next]_vars PROVE UNCHANGED platform
  BY DEF PlatformLists, ConvertProxyList
<1>1. CASE NoCertificateStep \/ UNCHANGED vars
  BY <1>1, NoCertificateStepKeeps DEF vars, certVars
<1>2. CASE CertificateStep
  BY <1>2 DEF CertificateStep, Construct, ReloadSslCertificates, ReloadFrees, ReloadLoads,
     GetCertificates, ReleaseCertificates, LoadSystemSslCertificates, LoadFromBundles,
     LoadFromKeychain, FreeSystemSslCertificates, GetSslCertificates, ReleaseSslCertificates,
     UnchangedCerts, certVars
<1>3. CASE SystemChanges
  BY <1>3 DEF SystemChanges, TrustChanges
<1> QED
  BY <1>1, <1>2, <1>3 DEF Next, NoCertificateStep

\* Only a request for proxies and the thread that calls back are seen from outside.
LEMMA HiddenSteps ==
  ASSUME Elsewhere \/ WaitPrevOpCompleted \/ Insert \/ Request \/ Find \/ UpdateProxyList
           \/ UNCHANGED vars
  PROVE  UNCHANGED <<requests, called>>
<1>1. CASE Elsewhere \/ UNCHANGED vars
  BY <1>1, ElsewhereKeeps DEF vars, proxyVars
<1>2. CASE WaitPrevOpCompleted \/ Insert \/ Request \/ Find \/ UpdateProxyList
  BY <1>2 DEF WaitPrevOpCompleted, Insert, Request, Find, UpdateProxyList, proxyVars
<1> QED
  BY <1>1, <1>2

\* A request leaves Pending only when its callback is called.
LEMMA StepOrder == ProxyInv /\ OrderInv /\ [Next]_vars => OrderInv'
<1> SUFFICES ASSUME ProxyInv, OrderInv, [Next]_vars PROVE OrderInv'
  OBVIOUS
<1>0. /\ MaxRequests \in Nat /\ Guids = 1..MaxRequests /\ Guids' = Guids
  BY ConfigurationAssumption DEF Guids
<1>1. ASSUME UNCHANGED called, Pending \subseteq Pending',
             engine' \in {"updating", "calling"} =>
               engine \in {"updating", "calling"} /\ UNCHANGED search
      PROVE  OrderInv'
  BY <1>0, <1>1 DEF OrderInv
<1>2. CASE Elsewhere
  <2>1. /\ UNCHANGED <<requests, proxyCallbacks_, engine, search, called>>
        /\ at' = at \/ (at \notin Requesting /\ at' \notin Requesting)
    BY <1>2, ElsewhereKeeps DEF proxyVars
  <2> QED
    BY <1>1, <2>1 DEF Pending, Requesting, Guids
<1>3. CASE StartProxyDiscoveryAsync
  <2>1. /\ at = "idle" /\ at' = "wait" /\ requests' = requests + 1
        /\ UNCHANGED <<proxyCallbacks_, engine, search, called>>
    BY <1>3 DEF StartProxyDiscoveryAsync, Begin
  <2> QED
    BY <1>0, <1>1, <2>1 DEF Pending, ProxyInv
<1>4. CASE WaitPrevOpCompleted
  BY <1>1, <1>4 DEF WaitPrevOpCompleted, GoTo, proxyVars, Pending, Guids
<1>5. CASE Insert
  BY <1>1, <1>5 DEF Insert, GoTo, Pending, Guids
<1>6. CASE Request
  BY <1>1, <1>6 DEF Request, Answer, ProxyInv, Pending, Guids
<1>7. CASE Find
  <2>1. PICK list \in ProxyLists : search' = [search EXCEPT !.list = list]
    BY <1>7 DEF Find
  <2>2. search'.list \in ProxyLists /\ search'.guid = search.guid
    BY <2>1 DEF ProxyInv
  <2>3. engine = "searching" /\ at' = at /\ UNCHANGED <<requests, proxyCallbacks_, called>>
    BY <1>7 DEF Find, UnchangedCall
  <2>4. Pending \subseteq Pending'
    BY <1>0, <2>2, <2>3 DEF Pending
  <2> QED
    BY <1>0, <2>2, <2>3, <2>4 DEF OrderInv
<1>8. CASE UpdateProxyList
  <2>1. /\ engine = "updating" /\ proxyCallbacks_ = {search.guid} /\ engine' = "calling"
        /\ at' = at /\ UNCHANGED <<requests, search, called>>
    BY <1>8 DEF UpdateProxyList, UnchangedCall, ProxyInv
  <2>2. Pending \subseteq Pending'
    BY <1>0, <2>1 DEF Pending
  <2> QED
    BY <1>1, <2>1, <2>2
<1>9. CASE CallBack
  <2>1. /\ engine = "calling" /\ engine' = "idle" /\ at' = at
        /\ called' = [called EXCEPT ![search.guid] = Append(@, ConvertProxyList(search.list))]
        /\ UNCHANGED <<requests, proxyCallbacks_, search>>
    BY <1>9 DEF CallBack, UnchangedCall
  <2>2. search.guid \in Guids /\ search.guid \in Pending
    BY <2>1 DEF ProxyInv, Pending
  <2>3. called'[search.guid] = <<ConvertProxyList(search.list)>>
    <3>1. called[search.guid] = << >> /\ search.guid \in DOMAIN called
      BY <2>2 DEF ProxyInv
    <3> QED
      BY <2>1, <3>1
  <2>4. \A g \in Guids : g # search.guid => called'[g] = called[g]
    BY <2>1 DEF ProxyInv
  <2>5. \A g \in Guids \ Pending' : g = search.guid \/ g \notin Pending
    BY <1>0, <2>1 DEF Pending
  <2>6. called'[search.guid] # << >>
    BY <2>3
  <2>7. \A g \in Guids \ Pending' : called'[g] # << >>
    BY <2>4, <2>5, <2>6 DEF OrderInv
  <2> QED
    BY <1>0, <2>1, <2>7 DEF OrderInv
<1>10. CASE UNCHANGED vars
  BY <1>1, <1>10 DEF vars, proxyVars, Pending, Guids
<1> QED
  BY <1>2, <1>3, <1>4, <1>5, <1>6, <1>7, <1>8, <1>9, <1>10
     DEF Next, Elsewhere, RequestStep, EngineStep

\* The callback that is called is the first that has not been called.
LEMMA CallBackAnswers ==
  ASSUME ProxyInv, OrderInv, CallBack, UNCHANGED PlatformLists
  PROVE  Requests!AnswerOne
<1>1. /\ engine = "calling" /\ UNCHANGED requests
      /\ called' = [called EXCEPT ![search.guid] = Append(@, ConvertProxyList(search.list))]
  BY DEF CallBack
<1>2. /\ search.guid \in 1..requests /\ requests \in 0..MaxRequests /\ MaxRequests \in Nat
      /\ search.guid \in Pending
  BY <1>1, ConfigurationAssumption DEF ProxyInv, Pending, Guids
<1>3. called[search.guid] = << >>
  BY <1>2 DEF ProxyInv
<1>4. ASSUME NEW h \in 1..requests, h < search.guid
      PROVE  called[h] # << >>
  <2>1. h \in Guids \ Pending
    BY <1>1, <1>2, <1>4 DEF Pending, ProxyInv, Guids
  <2> QED
    BY <2>1 DEF OrderInv
<1>5. called' = [called EXCEPT ![search.guid] = <<ConvertProxyList(search.list)>>]
  BY <1>1, <1>3
<1>6. ConvertProxyList(search.list) \in PlatformLists
  BY <1>1 DEF OrderInv, PlatformLists
<1>7. Requests!Answer(search.guid)
  BY <1>1, <1>3, <1>4, <1>5, <1>6 DEF Requests!Answer, Requests!Answered, PlatformLists
<1> QED
  BY <1>2, <1>7 DEF Requests!AnswerOne

\* Every step is one of ProxyRequests or changes nothing there.
LEMMA NextRequests ==
  ASSUME ProxyInv, OrderInv, [Next]_vars
  PROVE  [Requests!Next]_(Requests!vars)
<1>0. UNCHANGED PlatformLists
  BY ListsStay
<1>1. CASE StartProxyDiscoveryAsync
  BY <1>0, <1>1 DEF StartProxyDiscoveryAsync, Requests!Next, Requests!Ask, PlatformLists
<1>2. CASE CallBack
  BY <1>0, <1>2, CallBackAnswers DEF Requests!Next
<1>3. CASE UNCHANGED <<requests, called>>
  BY <1>0, <1>3 DEF Requests!vars, PlatformLists
<1> QED
  BY <1>1, <1>2, <1>3, HiddenSteps DEF Next, Elsewhere, RequestStep, EngineStep

\* For any number of requests, any lists of proxies and any order of the steps of the
\* library and of the engine, what the library sees is ProxyRequests: the callbacks
\* are called once each, in the order of the requests, with what was found.
THEOREM SafelyImplementsRequests == Spec => Requests!Init /\ [][Requests!Next]_(Requests!vars)
<1>1. Init => Requests!Init /\ OrderInv
  BY ConfigurationAssumption DEF Init, Requests!Init, OrderInv, Pending, Guids
<1>2. ProxyInv /\ OrderInv /\ [Next]_vars => OrderInv' /\ [Requests!Next]_(Requests!vars)
  BY StepOrder, NextRequests
<1> QED
  BY <1>1, <1>2, CallbacksCorrect, PTL DEF Spec
===============================================================================
