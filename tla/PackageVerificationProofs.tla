------------------------ MODULE PackageVerificationProofs ------------------------
(***************************************************************************)
(* Proofs about PackageVerification, for all sets of keys, public keys and *)
(* names of directories, and every choice of what may fail.                *)
(***************************************************************************)
EXTENDS PackageVerification, FiniteSetTheorems, SequenceTheorems, TLAPS

\* Where a key is looked for, where the public key at hand is, and where its home is.
Searching == {"pubkey", "context", "create", "home", "import", "remove", "compare"}
AtHand == Searching \ {"pubkey"}
WithHome == {"home", "import", "remove"}

Typed ==
  /\ platform \in {"rpm", "deb"}
  /\ signatures \in Seq(Keys) /\ signerKeyID \in (Keys \ ShortKeys) \cup {"none"}
  /\ at \in {"idle", "query", "dpkg-sig", "list", "signer"} \cup Searching
  /\ answer \in {"none", "true", "false", "throws"}
  /\ imported \subseteq Pubkeys /\ pubkeys \in Seq(Pubkeys)
  /\ others \subseteq DirNames /\ left \subseteq DirNames
  /\ gnupg_dir \in DirNames \cup {"none"}

\* The home is made and removed with the context, and is nobody else's.
HomeInv ==
  /\ gnupg_dir # "none" <=> at \in WithHome
  /\ gnupg_dir \notin others \cup left

\* The key that signed is one of the signatures' and no public key but one that rpm
\* or gpg has known passes for it.
TrustInv ==
  /\ at # "idle" => Known \subseteq everKnown
  /\ at \in Searching \cup {"list", "signer"} => keyId \in Range(signatures)
  /\ at = "dpkg-sig" => signerKeyID # "none"
  /\ at \in AtHand => pubkeys # << >> /\ IsOf[Head(pubkeys)] \in everKnown
  /\ at \in {"remove", "compare"} => trusted_keyid \in everKnown \cup {"none"}
  /\ at = "signer" => keyId \in everKnown
  /\ VerifiedIsTrusted

\* As long as nothing goes wrong the public keys of the signer are still to be looked
\* at, and the one at hand gives its id.
OfSigner(p) == p \in atStart /\ IsOf[p] = signerKeyID
Undisturbed ==
  platform = "rpm" /\ ~failed /\ ~removed /\ signatures = <<signerKeyID>>
SearchInv ==
  Undisturbed =>
    /\ atStart \subseteq imported /\ at # "dpkg-sig"
    /\ at \in Searching \cup {"list", "signer"} => keyId = signerKeyID
    /\ at \in Searching => Range(pubkeys) \subseteq imported
    /\ at \in Searching => \A p \in Pubkeys : OfSigner(p) => p \in Range(pubkeys)
    /\ at \in {"remove", "compare"} =>
         (IsOf[Head(pubkeys)] = signerKeyID => trusted_keyid = keyId)
    /\ TrustedIsVerified

VerifyInv == Typed /\ HomeInv /\ TrustInv /\ SearchInv

-------------------------------------------------------------------------------
\* A sequence's first and last elements are of its range, and what is of its range
\* but not its head is of its tail's.
LEMMA Ends ==
  ASSUME NEW S, NEW s \in Seq(S), s # << >>
  PROVE  /\ Head(s) \in Range(s) /\ Last(s) \in Range(s)
         /\ Tail(s) \in Seq(S) /\ Range(Tail(s)) \subseteq Range(s)
         /\ \A x \in Range(s) : x # Head(s) => x \in Range(Tail(s))
<1>1. /\ Len(s) \in Nat /\ Len(s) # 0 /\ DOMAIN s = 1..Len(s)
      /\ Head(s) = s[1]
  OBVIOUS
<1>2. /\ Tail(s) \in Seq(S) /\ Len(Tail(s)) = Len(s) - 1
      /\ \A i \in 1..(Len(s) - 1) : Tail(s)[i] = s[i + 1]
  BY <1>1
<1>3. Head(s) \in Range(s) /\ Last(s) \in Range(s)
  BY <1>1 DEF Range, Last
<1>4. Range(Tail(s)) \subseteq Range(s)
  <2>1. ASSUME NEW i \in 1..(Len(s) - 1)
        PROVE  Tail(s)[i] \in Range(s)
    BY <1>1, <1>2 DEF Range
  <2> QED
    BY <2>1, <1>1, <1>2 DEF Range
<1>5. ASSUME NEW x \in Range(s), x # Head(s)
      PROVE  x \in Range(Tail(s))
  <2>1. PICK i \in 1..Len(s) : x = s[i]
    BY <1>1 DEF Range
  <2>2. i # 1 /\ i - 1 \in 1..(Len(s) - 1)
    BY <2>1, <1>1, <1>5
  <2>3. Tail(s)[i - 1] = x
    BY <2>1, <2>2, <1>1, <1>2
  <2>4. i - 1 \in DOMAIN Tail(s)
    BY <2>2, <1>1, <1>2
  <2> QED
    BY <2>3, <2>4 DEF Range
<1> QED
  BY <1>2, <1>3, <1>4, <1>5

\* A listing of a finite set is a sequence of all of its elements.
LEMMA Listing ==
  ASSUME NEW S, IsFiniteSet(S), NEW s \in SetToSeqs(S)
  PROVE  s \in Seq(S) /\ Range(s) = S
<1> DEFINE D == 1..Cardinality(S)
<1>1. Cardinality(S) \in Nat
  BY FS_CardinalityType
<1>2. s \in [D -> S] /\ \A i, j \in D : i # j => s[i] # s[j]
  BY DEF SetToSeqs
<1>3. s \in Injection(D, S)
  BY <1>2 DEF Injection, IsInjective
<1>4. Cardinality(D) = Cardinality(S)
  BY <1>1, FS_Interval
<1>5. s \in Surjection(D, S)
  BY <1>3, <1>4, FS_Injection
<1>6. Range(s) = S
  BY <1>2, <1>5 DEF Range, Surjection
<1>7. s \in Seq(S)
  BY <1>1, <1>2
<1> QED
  BY <1>6, <1>7

-------------------------------------------------------------------------------
\* Typed holds from the start and every step keeps it.
LEMMA InitTyped == Init => Typed
BY VerificationAssumption, EmptySeq DEF Init, Typed, Searching

\* A key is a key, a list of signatures one of keys, whatever rpm, gpg and others do.
LEMMA StepTyped == Typed /\ HomeInv /\ [Next]_vars => Typed'
<1> SUFFICES ASSUME Typed, HomeInv, [Next]_vars PROVE Typed'
  OBVIOUS
<1> USE VerificationAssumption DEF Typed, Searching, Succeeds
<1>0. << >> \in Seq(Pubkeys)
  BY EmptySeq
<1>1. CASE VerifyPackage
  <2>1. signatures' \in Seq(Keys)
    <3>1. PICK m \in 0..2 : signatures' \in [1..m -> Keys]
      BY <1>1 DEF VerifyPackage, Packages, SeqOf
    <3> QED
      BY <3>1
  <2> QED
    BY <1>0, <1>1, <2>1 DEF VerifyPackage
<1>2. CASE VerifyWithDpkgSig
  BY <1>2 DEF VerifyWithDpkgSig, Return, system, directory
<1>3. CASE QueryKeyId
  BY <1>3 DEF QueryKeyId, Return, GoTo, system, directory
<1>4. CASE ListPubkeys
  <2>1. pubkeys' \in Seq(Pubkeys)
    <3>1. pubkeys' = pubkeys \/ pubkeys' \in SetToSeqs(imported)
      BY <1>4 DEF ListPubkeys
    <3>2. IsFiniteSet(imported)
      BY FS_Subset
    <3>3. pubkeys' \in SetToSeqs(imported) => pubkeys' \in Seq(imported)
      BY <3>2, Listing
    <3> QED
      BY <3>1, <3>3
  <2> QED
    BY <1>4, <2>1 DEF ListPubkeys, Return, GoTo, system, directory
<1>5. CASE QueryPubkey
  BY <1>5 DEF QueryPubkey, Return, GoTo, system, search
<1>6. CASE Compare
  <2>1. pubkeys # << >> => Tail(pubkeys) \in Seq(Pubkeys)
    BY HeadTailProperties
  <2>2. pubkeys = << >> => Tail(pubkeys) \in Seq(Pubkeys)
    OBVIOUS
  <2> QED
    BY <1>6, <2>1, <2>2 DEF Compare, GoTo, system, directory
<1>7. CASE AskGpg
  BY <1>7 DEF AskGpg, Return, GoTo, system, search, directory
<1>8. CASE CompareSigner
  BY <1>8 DEF CompareSigner, Return, system, search, directory
<1>9. CASE NewContext
  BY <1>9 DEF NewContext, GoTo, system, directory
<1>10. CASE CreateDirectory
  BY <1>10 DEF CreateDirectory, Return, GoTo, system, search
<1>11. CASE SetHome
  BY <1>11 DEF SetHome, GoTo, system, directory
<1>12. CASE Import
  BY <1>12 DEF Import, GoTo, system, directory
<1>13. CASE RemoveDirectory
  BY <1>13 DEF RemoveDirectory, GoTo, system, search, HomeInv, WithHome
<1>14. CASE Others
  BY <1>14 DEF Others, Event, ChangePubkey, ChangeKeyring, ChangeOthers, call,
               search, directory
<1>15. CASE UNCHANGED vars
  BY <1>15 DEF vars, system, call, search, directory
<1> QED
  BY <1>1, <1>2, <1>3, <1>4, <1>5, <1>6, <1>7, <1>8, <1>9, <1>10, <1>11, <1>12,
     <1>13, <1>14, <1>15 DEF Next, CallStep, GpgStep

\* The same for HomeInv.
LEMMA InitHome == Init => HomeInv
BY VerificationAssumption DEF Init, HomeInv, WithHome

\* A home directory is made and removed with its context and collides with no other.
LEMMA StepHome == Typed /\ HomeInv /\ [Next]_vars => HomeInv'
<1> SUFFICES ASSUME Typed, HomeInv, [Next]_vars PROVE HomeInv'
  OBVIOUS
<1> USE VerificationAssumption DEF Typed, HomeInv, Searching, WithHome
<1>1. CASE VerifyPackage
  BY <1>1 DEF VerifyPackage
<1>2. CASE VerifyWithDpkgSig
  BY <1>2 DEF VerifyWithDpkgSig, Return, system, directory
<1>3. CASE QueryKeyId \/ ListPubkeys \/ AskGpg \/ Compare \/ CompareSigner
  BY <1>3 DEF QueryKeyId, ListPubkeys, AskGpg, Compare, CompareSigner, Return, GoTo,
              system, search, directory
<1>4. CASE QueryPubkey
  BY <1>4 DEF QueryPubkey, Return, GoTo, system, search
<1>5. CASE NewContext \/ SetHome \/ Import
  BY <1>5 DEF NewContext, SetHome, Import, GoTo, system, directory
<1>6. CASE CreateDirectory
  BY <1>6 DEF CreateDirectory, Return, GoTo, system, search
<1>7. CASE RemoveDirectory
  BY <1>7 DEF RemoveDirectory, GoTo, system, search
<1>8. CASE Others
  BY <1>8 DEF Others, Event, ChangePubkey, ChangeKeyring, ChangeOthers, call,
              search, directory
<1>9. CASE UNCHANGED vars
  BY <1>9 DEF vars, system, call, search, directory
<1> QED
  BY <1>1, <1>2, <1>3, <1>4, <1>5, <1>6, <1>7, <1>8, <1>9
     DEF Next, CallStep, GpgStep

-------------------------------------------------------------------------------
\* TrustInv holds from the start and every step keeps it.
LEMMA InitTrust == Init => TrustInv
BY DEF Init, TrustInv, Searching, AtHand, VerifiedIsTrusted

\* A step of a call leaves what is known alone.
LEMMA CallKeepsKnown == CallStep => Known' = Known /\ everKnown' = everKnown
BY DEF CallStep, GpgStep, VerifyWithDpkgSig, QueryKeyId, ListPubkeys, QueryPubkey,
       Compare, AskGpg, CompareSigner, NewContext, CreateDirectory, SetHome, Import,
       RemoveDirectory, Known, system, history, May, Succeeds

\* What others change is known from then on, and nothing is forgotten.
LEMMA OthersAdd ==
  Others /\ Known \subseteq everKnown =>
    Known' \subseteq everKnown' /\ everKnown \subseteq everKnown'
<1>1. ASSUME NEW p \in Pubkeys, ChangePubkey(p)
      PROVE  Known' \subseteq everKnown' /\ everKnown \subseteq everKnown'
  BY <1>1 DEF ChangePubkey
<1>2. ASSUME NEW k \in Keys, ChangeKeyring(k)
      PROVE  Known' \subseteq everKnown' /\ everKnown \subseteq everKnown'
  BY <1>2 DEF ChangeKeyring
<1>3. ASSUME NEW name \in DirNames, ChangeOthers(name), Known \subseteq everKnown
      PROVE  Known' \subseteq everKnown' /\ everKnown \subseteq everKnown'
  BY <1>3 DEF ChangeOthers, Known
<1> QED
  BY <1>1, <1>2, <1>3 DEF Others

\* In any case nothing is forgotten.
LEMMA OthersForgetNothing == Others => everKnown \subseteq everKnown'
BY DEF Others, ChangePubkey, ChangeKeyring, ChangeOthers

\* No step lets a key pass that rpm or gpg has never had while the call lasted.
LEMMA StepTrust == Typed /\ TrustInv /\ [Next]_vars => TrustInv'
<1> SUFFICES ASSUME Typed, TrustInv, [Next]_vars PROVE TrustInv'
  OBVIOUS
<1> USE VerificationAssumption DEF Searching, AtHand, Succeeds
<1>a. /\ at \in {"idle", "query", "dpkg-sig", "list", "signer"} \cup Searching
      /\ signatures \in Seq(Keys) /\ pubkeys \in Seq(Pubkeys)
      /\ \A key \in Keys : LongId(key) \in {key, "none"}
  BY DEF Typed, LongId
<1>b. /\ at # "idle" => Known \subseteq everKnown
      /\ VerifiedIsTrusted
  BY DEF TrustInv
<1>c. ASSUME CallStep PROVE Known' = Known /\ everKnown' = everKnown
  BY <1>c, CallKeepsKnown
<1>d. signatures # << >> =>
        /\ Head(signatures) \in Range(signatures)
        /\ Last(signatures) \in Range(signatures)
        /\ Range(signatures) \subseteq Keys
  BY <1>a, Ends DEF Range
<1>e. keyId \in Range(signatures) => keyId # "none"
  BY <1>a, <1>d, VerificationAssumption DEF Range
<1>1. CASE VerifyPackage
  BY <1>1 DEF VerifyPackage, TrustInv, VerifiedIsTrusted, Known
<1>2. CASE VerifyWithDpkgSig
  <2>0. CallStep /\ at = "dpkg-sig"
    BY <1>2 DEF CallStep, VerifyWithDpkgSig
  <2>1. at' = "idle" /\ UNCHANGED <<signatures, signerKeyID>>
    BY <1>2 DEF VerifyWithDpkgSig, Return
  <2>2. ASSUME answer' = "true"
        PROVE  /\ signatures # << >> /\ Range(signatures) \subseteq keyring
               /\ LongId(Last(signatures)) = signerKeyID
    BY <1>2, <2>2 DEF VerifyWithDpkgSig, Return
  <2>3. ASSUME answer' = "true"
        PROVE  signerKeyID \in Range(signatures) /\ signerKeyID \in everKnown
    <3>1. signerKeyID # "none"
      BY <2>0 DEF TrustInv
    <3>2. signerKeyID = Last(signatures)
      BY <2>2, <2>3, <1>a, <1>d, <3>1
    <3>3. keyring \subseteq everKnown
      BY <1>b, <2>0 DEF Known
    <3> QED
      BY <2>2, <2>3, <1>d, <3>2, <3>3
  <2> QED
    BY <2>0, <2>1, <2>3, <1>c DEF TrustInv, VerifiedIsTrusted
<1>3. CASE QueryKeyId
  <2>0. CallStep /\ at = "query"
    BY <1>3 DEF CallStep, QueryKeyId
  <2>1. /\ UNCHANGED <<signatures, signerKeyID>>
        /\ \/ at' = "idle" /\ answer' = "false"
           \/ at' = "list" /\ signatures # << >> /\ keyId' = Head(signatures)
    BY <1>3 DEF QueryKeyId, Return, GoTo
  <2> QED
    BY <2>0, <2>1, <1>b, <1>c, <1>d DEF TrustInv, VerifiedIsTrusted
<1>4. CASE ListPubkeys
  <2>0. CallStep /\ at = "list"
    BY <1>4 DEF CallStep, ListPubkeys
  <2>1. /\ UNCHANGED <<signatures, signerKeyID, keyId>>
        /\ (at' = "idle" /\ answer' = "false") \/ at' = "pubkey"
    BY <1>4 DEF ListPubkeys, Return, GoTo
  <2> QED
    BY <2>0, <2>1, <1>b, <1>c DEF TrustInv, VerifiedIsTrusted
<1>5. CASE QueryPubkey
  <2>0. CallStep /\ at = "pubkey"
    BY <1>5 DEF CallStep, QueryPubkey
  <2>1. /\ UNCHANGED <<signatures, signerKeyID, keyId, pubkeys>>
        /\ \/ at' = "idle" /\ answer' = "false"
           \/ at' = "context" /\ pubkeys # << >> /\ Head(pubkeys) \in imported
    BY <1>5 DEF QueryPubkey, Return, GoTo, search
  <2>2. Head(pubkeys) \in imported => IsOf[Head(pubkeys)] \in everKnown
    BY <2>0, <1>b DEF Known
  <2> QED
    BY <2>0, <2>1, <2>2, <1>b, <1>c DEF TrustInv, VerifiedIsTrusted
<1>6. CASE Compare
  <2>0. CallStep /\ at = "compare"
    BY <1>6 DEF CallStep, Compare
  <2>1. /\ UNCHANGED <<signatures, signerKeyID, keyId>>
        /\ (at' = "signer" /\ trusted_keyid = keyId) \/ at' = "pubkey"
    BY <1>6 DEF Compare, GoTo
  <2>2. trusted_keyid = keyId => keyId \in everKnown
    BY <2>0, <1>e DEF TrustInv
  <2> QED
    BY <2>0, <2>1, <2>2, <1>b, <1>c DEF TrustInv, VerifiedIsTrusted
<1>7. CASE AskGpg
  <2>0. CallStep /\ at = "pubkey"
    BY <1>7 DEF CallStep, AskGpg
  <2>1. /\ UNCHANGED <<signatures, signerKeyID, keyId>>
        /\ (at' = "idle" /\ answer' = "false") \/ (at' = "signer" /\ keyId \in keyring)
    BY <1>7 DEF AskGpg, Return, GoTo, search
  <2>2. keyId \in keyring => keyId \in everKnown
    BY <2>0, <1>b DEF Known
  <2> QED
    BY <2>0, <2>1, <2>2, <1>b, <1>c DEF TrustInv, VerifiedIsTrusted
<1>8. CASE CompareSigner
  <2>0. CallStep /\ at = "signer"
    BY <1>8 DEF CallStep, CompareSigner
  <2>1. /\ UNCHANGED <<signatures, signerKeyID, keyId>>
        /\ at' = "idle" /\ (answer' = "true" => signerKeyID = keyId)
    BY <1>8 DEF CompareSigner, Return, search
  <2> QED
    BY <2>0, <2>1, <1>b, <1>c DEF TrustInv, VerifiedIsTrusted
<1>9. CASE NewContext \/ CreateDirectory \/ SetHome \/ RemoveDirectory
  <2>0. CallStep /\ at \in AtHand
    BY <1>9 DEF CallStep, GpgStep, NewContext, CreateDirectory, SetHome, RemoveDirectory
  <2>1. /\ UNCHANGED <<signatures, signerKeyID, keyId, pubkeys>>
        /\ at' \in AtHand \/ (at' = "idle" /\ answer' = "throws")
        /\ at' \in {"remove", "compare"} =>
             trusted_keyid' = "none" \/ (at = "remove" /\ trusted_keyid' = trusted_keyid)
    BY <1>9 DEF NewContext, CreateDirectory, SetHome, RemoveDirectory, Return, GoTo,
                NoFingerprint, search
  <2> QED
    BY <2>0, <2>1, <1>b, <1>c DEF TrustInv, VerifiedIsTrusted
<1>10. CASE Import
  <2>0. CallStep /\ at = "import"
    BY <1>10 DEF CallStep, GpgStep, Import
  <2>1. /\ UNCHANGED <<signatures, signerKeyID, keyId, pubkeys>> /\ at' = "remove"
        /\ trusted_keyid' \in {"none", LongId(IsOf[Head(pubkeys)])}
    BY <1>10 DEF Import, GoTo, NoFingerprint
  <2>2. LongId(IsOf[Head(pubkeys)]) \in {"none", IsOf[Head(pubkeys)]}
    BY DEF LongId
  <2> QED
    BY <2>0, <2>1, <2>2, <1>b, <1>c DEF TrustInv, VerifiedIsTrusted
<1>11. CASE Others
  <2>1. /\ UNCHANGED <<signatures, signerKeyID, at, answer, keyId, pubkeys, trusted_keyid>>
        /\ everKnown \subseteq everKnown'
    BY <1>11, OthersForgetNothing
       DEF Others, Event, ChangePubkey, ChangeKeyring, ChangeOthers, call, search
  <2>2. at # "idle" => Known' \subseteq everKnown'
    BY <1>11, <1>b, OthersAdd
  <2> QED
    BY <2>1, <2>2 DEF TrustInv, VerifiedIsTrusted
<1>12. CASE UNCHANGED vars
  BY <1>12 DEF vars, system, call, search, history, TrustInv, VerifiedIsTrusted, Known
<1> QED
  BY <1>1, <1>2, <1>3, <1>4, <1>5, <1>6, <1>7, <1>8, <1>9, <1>10, <1>11, <1>12
     DEF Next, CallStep, GpgStep

-------------------------------------------------------------------------------
\* SearchInv holds from the start and every step keeps it.
LEMMA InitSearch == Init => SearchInv
BY DEF Init, SearchInv, Undisturbed, TrustedIsVerified, Searching

\* A step of a call after which all is well is one before which it was, and which
\* has not failed.
LEMMA CallUndisturbed ==
  CallStep /\ Undisturbed' =>
    /\ Undisturbed /\ UNCHANGED <<imported, atStart, signatures, signerKeyID>>
<1> SUFFICES ASSUME CallStep, Undisturbed'
             PROVE  Undisturbed /\ UNCHANGED <<imported, atStart, signatures, signerKeyID>>
  OBVIOUS
<1>1. UNCHANGED <<platform, imported, signatures, signerKeyID>>
  BY DEF CallStep, GpgStep, VerifyWithDpkgSig, QueryKeyId, ListPubkeys, QueryPubkey,
         Compare, AskGpg, CompareSigner, NewContext, CreateDirectory, SetHome, Import,
         RemoveDirectory, system, Return, GoTo
<1>2. Succeeds \/ \E fails \in BOOLEAN : \/ May("command", fails) \/ May("gpgme", fails)
                                           \/ May("create", fails) \/ May("remove", fails)
  BY DEF CallStep, GpgStep, VerifyWithDpkgSig, QueryKeyId, ListPubkeys, QueryPubkey,
         Compare, AskGpg, CompareSigner, NewContext, CreateDirectory, SetHome, Import,
         RemoveDirectory
<1>3. UNCHANGED <<atStart, removed>>
  BY <1>2 DEF history, May, Succeeds
<1>4. ~failed' => ~failed
  BY <1>2 DEF history, May, Succeeds
<1> QED
  BY <1>1, <1>3, <1>4 DEF Undisturbed

\* As long as nothing goes wrong no public key of the signer is passed over.
LEMMA StepSearch == Typed /\ TrustInv /\ SearchInv /\ [Next]_vars => SearchInv'
<1> SUFFICES ASSUME Typed, TrustInv, SearchInv, [Next]_vars, Undisturbed'
             PROVE  SearchInv'
  BY DEF SearchInv
<1> USE VerificationAssumption DEF Searching, Succeeds
<1>a. /\ at \in {"idle", "query", "dpkg-sig", "list", "signer"} \cup Searching
      /\ signatures \in Seq(Keys) /\ pubkeys \in Seq(Pubkeys) /\ imported \subseteq Pubkeys
      /\ signerKeyID \in (Keys \ ShortKeys) \cup {"none"}
  BY DEF Typed
<1>b. ASSUME CallStep
      PROVE  Undisturbed /\ UNCHANGED <<imported, atStart, signatures, signerKeyID>>
  BY <1>b, CallUndisturbed
<1>c. Undisturbed =>
        /\ atStart \subseteq imported /\ at # "dpkg-sig"
        /\ at \in Searching \cup {"list", "signer"} => keyId = signerKeyID
        /\ at \in Searching => Range(pubkeys) \subseteq imported
        /\ at \in Searching => \A p \in Pubkeys : OfSigner(p) => p \in Range(pubkeys)
        /\ at \in {"remove", "compare"} =>
             (IsOf[Head(pubkeys)] = signerKeyID => trusted_keyid = keyId)
  BY DEF SearchInv
<1>d. Undisturbed /\ at = "idle" /\ answer = "false" =>
        \A p \in atStart : IsOf[p] # signerKeyID
  BY DEF SearchInv, TrustedIsVerified, Undisturbed
<1>e. Undisturbed =>
        /\ signatures # << >> /\ Head(signatures) = signerKeyID
        /\ signerKeyID \in Keys \ ShortKeys
  BY <1>a DEF Undisturbed
<1>f. pubkeys # << >> =>
        /\ Head(pubkeys) \in Range(pubkeys)
        /\ Range(Tail(pubkeys)) \subseteq Range(pubkeys)
        /\ \A x \in Range(pubkeys) : x # Head(pubkeys) => x \in Range(Tail(pubkeys))
  BY <1>a, Ends
<1>g. ~failed'
  BY DEF Undisturbed
<1>1. CASE VerifyPackage
  <2>1. /\ at' \in {"query", "dpkg-sig", "idle"} /\ (platform = "rpm" => at' = "query")
        /\ atStart' = imported /\ UNCHANGED <<platform, imported>>
    BY <1>1 DEF VerifyPackage
  <2> QED
    BY <2>1 DEF SearchInv, TrustedIsVerified, Undisturbed
<1>2. CASE VerifyWithDpkgSig
  BY <1>2, <1>b, <1>c DEF CallStep, VerifyWithDpkgSig
<1>3. CASE QueryKeyId
  <2>1. CallStep /\ Undisturbed /\ at = "query"
    BY <1>3, <1>b DEF CallStep, QueryKeyId
  <2>2. at' = "list" /\ keyId' = signerKeyID
    BY <1>3, <2>1, <1>e, <1>g DEF QueryKeyId, May, GoTo
  <2> QED
    BY <2>1, <2>2, <1>b, <1>c DEF SearchInv, TrustedIsVerified
<1>4. CASE ListPubkeys
  <2>1. CallStep /\ Undisturbed /\ at = "list"
    BY <1>4, <1>b DEF CallStep, ListPubkeys
  <2>2. UNCHANGED keyId
    BY <1>4 DEF ListPubkeys
  <2>3. CASE imported = {}
    <3>1. at' = "idle"
      BY <1>4, <2>3 DEF ListPubkeys, Return
    <3> QED
      BY <2>1, <2>3, <3>1, <1>b, <1>c DEF SearchInv, TrustedIsVerified
  <2>4. CASE imported # {}
    <3>1. at' = "pubkey" /\ pubkeys' \in SetToSeqs(imported)
      BY <1>4, <2>4, <1>g DEF ListPubkeys, May, GoTo
    <3>2. Range(pubkeys') = imported
      <4>1. IsFiniteSet(imported)
        BY <1>a, FS_Subset
      <4> QED
        BY <4>1, <3>1, Listing
    <3> QED
      BY <2>1, <2>2, <3>1, <3>2, <1>b, <1>c
         DEF SearchInv, TrustedIsVerified, OfSigner
  <2> QED
    BY <2>3, <2>4
<1>5. CASE QueryPubkey
  <2>1. CallStep /\ Undisturbed /\ at = "pubkey" /\ pubkeys # << >>
    BY <1>5, <1>b DEF CallStep, QueryPubkey
  <2>2. Head(pubkeys) \in imported
    BY <2>1, <1>c, <1>f
  <2>3. at' = "context" /\ UNCHANGED <<keyId, pubkeys>>
    BY <1>5, <2>2, <1>g DEF QueryPubkey, May, GoTo, search
  <2> QED
    BY <2>1, <2>3, <1>b, <1>c DEF SearchInv, TrustedIsVerified, OfSigner
<1>6. CASE Compare
  <2>1. CallStep /\ Undisturbed /\ at = "compare" /\ pubkeys # << >>
    BY <1>6, <1>b DEF CallStep, Compare, TrustInv, AtHand
  <2>2. CASE trusted_keyid = keyId
    <3>1. at' = "signer" /\ UNCHANGED keyId
      BY <1>6, <2>2 DEF Compare, GoTo
    <3> QED
      BY <2>1, <3>1, <1>b, <1>c DEF SearchInv, TrustedIsVerified
  <2>3. CASE trusted_keyid # keyId
    <3>1. at' = "pubkey" /\ pubkeys' = Tail(pubkeys) /\ UNCHANGED keyId
      BY <1>6, <2>3 DEF Compare, GoTo
    <3>2. IsOf[Head(pubkeys)] # signerKeyID
      BY <2>1, <2>3, <1>c
    <3>3. ASSUME NEW p \in Pubkeys, OfSigner(p) PROVE p \in Range(pubkeys')
      BY <2>1, <3>1, <3>2, <3>3, <1>c, <1>f DEF OfSigner
    <3>4. Range(pubkeys') \subseteq imported
      BY <2>1, <3>1, <1>c, <1>f
    <3> QED
      BY <2>1, <3>1, <3>3, <3>4, <1>b, <1>c
         DEF SearchInv, TrustedIsVerified, OfSigner
  <2> QED
    BY <2>2, <2>3
<1>7. CASE AskGpg
  <2>1. CallStep /\ Undisturbed /\ at = "pubkey" /\ pubkeys = << >>
    BY <1>7, <1>b DEF CallStep, AskGpg
  <2>2. at' \in {"idle", "signer"} /\ UNCHANGED keyId
    BY <1>7 DEF AskGpg, Return, GoTo, search
  <2>3. \A p \in atStart : IsOf[p] # signerKeyID
    <3>1. Range(pubkeys) = {}
      BY <2>1 DEF Range
    <3> QED
      BY <2>1, <3>1, <1>a, <1>c DEF OfSigner
  <2> QED
    BY <2>1, <2>2, <2>3, <1>b, <1>c DEF SearchInv, TrustedIsVerified
<1>8. CASE CompareSigner
  <2>1. CallStep /\ Undisturbed /\ at = "signer"
    BY <1>8, <1>b DEF CallStep, CompareSigner
  <2>2. at' = "idle" /\ answer' = "true"
    BY <1>8, <2>1, <1>c DEF CompareSigner, Return
  <2> QED
    BY <2>1, <2>2, <1>b, <1>c DEF SearchInv, TrustedIsVerified
<1>9. CASE NewContext \/ CreateDirectory \/ SetHome
  <2>1. CallStep /\ Undisturbed /\ at \in {"context", "create", "home"}
    BY <1>9, <1>b DEF CallStep, GpgStep, NewContext, CreateDirectory, SetHome
  <2>2. /\ UNCHANGED <<keyId, pubkeys>>
        /\ at' \in {"create", "home", "import"} \/ (at' = "idle" /\ answer' = "throws")
    BY <1>9, <1>g DEF NewContext, CreateDirectory, SetHome, May, Return, GoTo, search
  <2> QED
    BY <2>1, <2>2, <1>b, <1>c DEF SearchInv, TrustedIsVerified, OfSigner
<1>10. CASE Import
  <2>1. CallStep /\ Undisturbed /\ at = "import"
    BY <1>10, <1>b DEF CallStep, GpgStep, Import
  <2>2. at' = "remove" /\ UNCHANGED <<keyId, pubkeys>>
    BY <1>10 DEF Import, GoTo
  <2>3. IsOf[Head(pubkeys)] = signerKeyID => trusted_keyid' = signerKeyID
    BY <1>10, <2>1, <1>e, <1>g DEF Import, May, LongId
  <2> QED
    BY <2>1, <2>2, <2>3, <1>b, <1>c DEF SearchInv, TrustedIsVerified, OfSigner
<1>11. CASE RemoveDirectory
  <2>1. CallStep /\ Undisturbed /\ at = "remove"
    BY <1>11, <1>b DEF CallStep, GpgStep, RemoveDirectory
  <2>2. at' = "compare" /\ UNCHANGED <<keyId, pubkeys, trusted_keyid>>
    BY <1>11 DEF RemoveDirectory, GoTo, search
  <2> QED
    BY <2>1, <2>2, <1>b, <1>c DEF SearchInv, TrustedIsVerified, OfSigner
<1>12. CASE Others
  <2>1. UNCHANGED <<platform, signatures, signerKeyID, at, answer, keyId, pubkeys,
                    trusted_keyid, atStart, failed>>
    BY <1>12 DEF Others, Event, ChangePubkey, ChangeKeyring, ChangeOthers, call, search
  <2>2. ~removed /\ imported \subseteq imported'
    <3>0. ~removed'
      BY DEF Undisturbed
    <3>1. CASE \E p \in Pubkeys : ChangePubkey(p)
      <4>1. PICK p \in Pubkeys : ChangePubkey(p)
        BY <3>1
      <4>2. ~removed /\ p \notin imported
        BY <4>1, <3>0 DEF ChangePubkey
      <4> QED
        BY <4>1, <4>2 DEF ChangePubkey
    <3>2. CASE (\E k \in Keys : ChangeKeyring(k)) \/ \E name \in DirNames : ChangeOthers(name)
      BY <3>0, <3>2 DEF ChangeKeyring, ChangeOthers
    <3> QED
      BY <1>12, <3>1, <3>2 DEF Others
  <2>3. Undisturbed
    BY <2>1, <2>2 DEF Undisturbed
  <2> QED
    BY <2>1, <2>2, <2>3, <1>c, <1>d DEF SearchInv, TrustedIsVerified, OfSigner
<1>13. CASE UNCHANGED vars
  <2>1. UNCHANGED <<platform, signatures, signerKeyID, at, answer, keyId, pubkeys,
                    trusted_keyid, atStart, failed, removed, imported>>
    BY <1>13 DEF vars, system, call, search, history
  <2>2. Undisturbed
    BY <2>1 DEF Undisturbed
  <2> QED
    BY <2>1, <2>2, <1>c, <1>d DEF SearchInv, TrustedIsVerified, OfSigner
<1> QED
  BY <1>1, <1>2, <1>3, <1>4, <1>5, <1>6, <1>7, <1>8, <1>9, <1>10, <1>11, <1>12, <1>13
     DEF Next, CallStep, GpgStep

-------------------------------------------------------------------------------
\* All four hold at all times.
THEOREM VerificationCorrect == Spec => []VerifyInv
<1>1. Init => VerifyInv
  BY InitTyped, InitHome, InitTrust, InitSearch DEF VerifyInv
<1>2. VerifyInv /\ [Next]_vars => VerifyInv'
  BY StepTyped, StepHome, StepTrust, StepSearch DEF VerifyInv
<1> QED
  BY <1>1, <1>2, PTL DEF Spec

\* verifyPackage() accepts only packages of the signer asked for, whose key rpm or gpg
\* has known during the call.
THEOREM VerifiedPackagesAreTrusted == Spec => []VerifiedIsTrusted
<1>1. VerifyInv => VerifiedIsTrusted
  BY DEF VerifyInv, TrustInv
<1> QED
  BY <1>1, VerificationCorrect, PTL

\* verifyPackage() of rpm finds the signer's key wherever it is among the public keys.
THEOREM TrustedPackagesAreVerified == Spec => []TrustedIsVerified
<1>1. VerifyInv => TrustedIsVerified
  BY DEF VerifyInv, SearchInv, Undisturbed, TrustedIsVerified
<1> QED
  BY <1>1, VerificationCorrect, PTL

\* GpgUtil imports each key into a home of its own and keeps none.
THEOREM HomesAreOwn == Spec => []HomeIsOwn
<1>1. VerifyInv => HomeIsOwn
  BY DEF VerifyInv, HomeInv, HomeIsOwn, WithHome
<1> QED
  BY <1>1, VerificationCorrect, PTL
===============================================================================
