----------------------------- MODULE PmCertManager -----------------------------
(***************************************************************************)
(* PmCertManager and PmCertRetrieverImpl, which keep the certificates the  *)
(* system trusts as X509 objects of OpenSSL and hand out copies of them.   *)
(* An object is allocated, holds a certificate, and is freed by whoever    *)
(* owns it: the retriever its own, a caller the array it was given.        *)
(*                                                                         *)
(* On Linux the certificates come from the first bundle that can be read,  *)
(* on macOS from the keychain of the system's roots.                       *)
(***************************************************************************)
EXTENDS FiniteSets, Functions, Naturals

CONSTANTS
  Platforms, \* {"linux", "macOS"}
  Certs,     \* certificates
  Objects,   \* places an X509 object can be allocated at
  Trusts,    \* what the system can trust: a set of TrustStores
  MaxHeld    \* bound: arrays of certificates held by callers at a time

\* A bundle that is missing or cannot be parsed has no certificates.  What may be
\* wrong with the keychain: it cannot be opened or asked, its permissions are not
\* those of a keychain nobody has touched, or a certificate in it cannot be parsed.
TrustStores ==
  [rhel : SUBSET Certs, ubuntu : SUBSET Certs, default : SUBSET Certs,
   keychain : SUBSET Certs, fault : {"none", "open", "status", "locked", "writable"},
   unparsed : SUBSET Certs]

ASSUME CertAssumption ==
  /\ Platforms \subseteq {"linux", "macOS"}
  /\ Trusts \subseteq TrustStores /\ IsFiniteSet(Certs)
  /\ "free" \notin Certs

VARIABLES
  platform,
  trust,        \* what the system trusts
  heap,         \* the certificate in each place, or "free"
  certificates, \* certificates_: the places of the retriever's objects
  held,         \* the arrays callers hold, each with what was promised to be in it
  promise       \* the certificates the last load found

certVars == <<platform, trust, heap, certificates, held, promise>>
UnchangedCerts == UNCHANGED certVars

CertTypeOK ==
  /\ platform \in Platforms /\ trust \in Trusts
  /\ heap \in [Objects -> Certs \cup {"free"}]
  /\ certificates \subseteq Objects
  /\ held \subseteq [places : SUBSET Objects, certs : SUBSET Certs]
  /\ promise \subseteq Certs


-------------------------------------------------------------------------------
(* What the system trusts *)

\* X509_STORE_load_locations() of one bundle after the other until one can be
\* read, X509_STORE_set_default_paths() at last.
InBundles ==
  IF trust.rhel # {} THEN trust.rhel
  ELSE IF trust.ubuntu # {} THEN trust.ubuntu ELSE trust.default

\* SecKeychainOpen(), its status, which must let read but neither write nor be
\* unlocked, and SecItemCopyMatching(), which must find something.
KeychainIsUsable == trust.fault = "none" /\ trust.keychain # {}
InKeychain == trust.keychain \ trust.unparsed

-------------------------------------------------------------------------------
(* Objects *)

\* Each x of xs in a free place of its own, in a heap h.
Free(h) == {o \in Objects : h[o] = "free"}
Places(h, xs) == {f \in [xs -> Free(h)] : IsInjective(f)}
Inside(f, o) == CHOOSE x \in DOMAIN f : f[x] = o

Freed(places) == [o \in Objects |-> IF o \in places THEN "free" ELSE heap[o]]
CertsAt(places) == {heap[o] : o \in places}

\* An object for each certificate of cs, beside those in kept.
Store(h, kept, cs) ==
  /\ Places(h, cs) # {}
  /\ LET f == CHOOSE g \in Places(h, cs) : TRUE IN
       /\ heap' = [o \in Objects |-> IF o \in Range(f) THEN Inside(f, o) ELSE h[o]]
       /\ certificates' = kept \cup Range(f)

\* FreeSystemSslCertificates(), which cannot fail.
FreeSystemSslCertificates ==
  /\ heap' = Freed(certificates) /\ certificates' = {}
  /\ promise' = {}
  /\ UNCHANGED <<platform, trust, held>>

\* LoadSystemSslCertificates() of Linux adds to what is there; it has loaded
\* something if anything is there.
LoadFromBundles ==
  /\ platform = "linux"
  /\ Store(heap, certificates, InBundles)
  /\ promise' = InBundles
  /\ UNCHANGED <<platform, trust, held>>

\* That of macOS replaces what is there, once it knows that there is something.
LoadFromKeychain ==
  /\ platform = "macOS"
  /\ IF KeychainIsUsable
     THEN Store(Freed(certificates), {}, InKeychain) /\ promise' = InKeychain
     ELSE UNCHANGED <<heap, certificates, promise>>
  /\ UNCHANGED <<platform, trust, held>>

LoadSystemSslCertificates == LoadFromBundles \/ LoadFromKeychain

\* Whether the load that is a step reports success.
HasLoaded == IF platform = "linux" THEN certificates' # {} ELSE KeychainIsUsable

\* Mutant: the array holds the retriever's objects, not copies of them.
GetWithoutCopying ==
  /\ Cardinality(held) < MaxHeld /\ certificates # {}
  /\ held' = held \cup {[places |-> certificates, certs |-> CertsAt(certificates)]}
  /\ UNCHANGED <<platform, trust, heap, certificates, promise>>

\* GetSslCertificates() copies each object with X509_dup() into an array of the
\* caller's; without certificates there is no array.
GetSslCertificates ==
  /\ Cardinality(held) < MaxHeld /\ certificates # {}
  /\ Places(heap, certificates) # {}
  /\ LET f == CHOOSE g \in Places(heap, certificates) : TRUE IN
       /\ heap' = [o \in Objects |-> IF o \in Range(f) THEN heap[Inside(f, o)] ELSE heap[o]]
       /\ held' = held \cup {[places |-> Range(f), certs |-> CertsAt(certificates)]}
  /\ UNCHANGED <<platform, trust, certificates, promise>>

\* ReleaseSslCertificates() frees the copies and the array.
ReleaseSslCertificates(array) ==
  /\ heap' = Freed(array.places)
  /\ held' = held \ {array}
  /\ UNCHANGED <<platform, trust, certificates, promise>>

\* An administrator or an update of the system changes what it trusts.
TrustChanges ==
  /\ trust' \in Trusts \ {trust}
  /\ UNCHANGED <<platform, heap, certificates, held, promise>>

-------------------------------------------------------------------------------
(* Properties *)

\* Each object is owned by exactly one of the retriever and its callers: none is
\* used after it was freed, freed twice or left over.  What a caller was given stays
\* what it was, whatever is reloaded meanwhile, and the retriever has what its last
\* load found, each certificate once.
CertificatesStayValid ==
  LET owners == {certificates} \cup {a.places : a \in held} IN
  /\ UNION owners = {o \in Objects : heap[o] # "free"}
  /\ \A a, b \in held : a = b \/ a.places \cap b.places = {}
  /\ \A a \in held : a.places \cap certificates = {} /\ CertsAt(a.places) = a.certs
  /\ CertsAt(certificates) = promise /\ IsInjective([o \in certificates |-> heap[o]])
===============================================================================
