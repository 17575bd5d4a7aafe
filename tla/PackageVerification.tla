-------------------------- MODULE PackageVerification --------------------------
(***************************************************************************)
(* verifyPackage() of PackageUtilRPM and PackageUtilDEB, step by step: the *)
(* commands they run, and GpgUtil, which imports each public key rpm knows *)
(* into a keyring in a temporary directory of its own to learn whose it    *)
(* is.  PmPlatformComponentManager calls this before it installs.          *)
(*                                                                         *)
(* Meanwhile administrators import and remove keys and other programs make *)
(* and remove temporary directories.                                       *)
(***************************************************************************)
EXTENDS FiniteSets, Naturals, Sequences, SequencesExt

CONSTANTS
  Platforms,   \* {"rpm", "deb"}
  Keys,        \* keys packages are signed with
  ShortKeys,   \* those whose fingerprint is too short to have a long id
  Pubkeys,     \* public keys, as packages of the database of rpm
  IsOf,        \* whose each is: its block has that key, or "none" that gpg can import
  DirNames,    \* names of temporary directories
  MaxAttempts, \* attempts to make one
  MaxEvents,   \* bound: events beside the call
  MaxCalls,    \* bound: calls
  GpgFaults    \* what may fail: "command", "gpgme", "create", "remove"

ASSUME VerificationAssumption ==
  /\ Platforms \subseteq {"rpm", "deb"}
  /\ "none" \notin Keys /\ ShortKeys \subseteq Keys
  /\ IsFiniteSet(Pubkeys) /\ IsOf \in [Pubkeys -> Keys \cup {"none"}]
  /\ MaxAttempts \in Nat \ {0} /\ MaxEvents \in Nat /\ MaxCalls \in Nat
  /\ "none" \notin DirNames

VARIABLES
  platform,
  imported,   \* the public keys in the database of rpm
  keyring,    \* the keys in the keyring of gpg
  others,     \* temporary directories of other programs
  events,     \* of administrators and other programs
  calls,
  signatures, \* the package's, in order
  signerKeyID,\* who is to have signed it
  at,         \* where the call is
  answer,
  keyId,      \* the id of the key that signed it
  pubkeys,    \* the public keys to look at
  trusted_keyid,
  attempts,
  gnupg_dir,  \* the temporary directory, or "none"
  left,       \* directories that could not be removed
  everKnown,  \* the keys rpm or gpg has known at some time of the call
  atStart,    \* the public keys in rpm at its start
  removed,    \* a public key was removed from rpm during the call
  failed      \* a step has failed

system == <<platform, imported, keyring, others, events, calls>>
call == <<signatures, signerKeyID, at, answer>>
search == <<keyId, pubkeys, trusted_keyid>>
directory == <<attempts, gnupg_dir, left>>
history == <<everKnown, atStart, removed, failed>>
vars == <<system, call, search, directory, history>>

Packages == {s \in SeqOf(Keys, 2) : platform = "rpm" => Len(s) <= 1}

Known == {IsOf[p] : p \in imported} \cup keyring

Init ==
  /\ platform \in Platforms
  /\ imported \in SUBSET Pubkeys /\ keyring \in SUBSET Keys /\ others = {}
  /\ events = 0 /\ calls = 0
  /\ signatures = << >> /\ signerKeyID = "none" /\ at = "idle" /\ answer = "none"
  /\ keyId = "none" /\ pubkeys = << >> /\ trusted_keyid = "none"
  /\ attempts = 0 /\ gnupg_dir = "none" /\ left = {}
  /\ everKnown = {} /\ atStart = {} /\ removed = FALSE /\ failed = FALSE

-------------------------------------------------------------------------------
GoTo(place) == at' = place /\ UNCHANGED <<signatures, signerKeyID, answer>>
Return(a) == at' = "idle" /\ answer' = a /\ UNCHANGED <<signatures, signerKeyID>>

\* A step that something may happen to.
May(fault, fails) ==
  /\ fails => fault \in GpgFaults
  /\ failed' = (failed \/ fails)
  /\ UNCHANGED <<everKnown, atStart, removed>>

Succeeds == UNCHANGED history

\* verifyPackage(); that of deb refuses an empty signer.
VerifyPackage ==
  /\ at = "idle" /\ calls < MaxCalls
  /\ signatures' \in Packages /\ signerKeyID' \in (Keys \ ShortKeys) \cup {"none"}
  /\ IF platform = "rpm" THEN at' = "query" /\ answer' = "none"
     ELSE IF signerKeyID' = "none" THEN at' = "idle" /\ answer' = "false"
     ELSE at' = "dpkg-sig" /\ answer' = "none"
  /\ keyId' = "none" /\ pubkeys' = << >> /\ trusted_keyid' = "none" /\ attempts' = 0
  /\ everKnown' = Known /\ atStart' = imported /\ removed' = FALSE /\ failed' = FALSE
  /\ calls' = calls + 1
  /\ UNCHANGED <<platform, imported, keyring, others, events, gnupg_dir, left>>

\* What matchSignerKeyID() makes of a fingerprint.
LongId(key) == IF key \in ShortKeys THEN "none" ELSE key

\* dpkg-sig accepts a package all signatures of which are by keys it knows; the
\* last of them is compared with the signer.
VerifyWithDpkgSig ==
  /\ at = "dpkg-sig"
  /\ \E fails \in BOOLEAN :
       /\ May("command", fails)
       /\ IF fails \/ signatures = << >> \/ ~(Range(signatures) \subseteq keyring)
          THEN Return("false") /\ UNCHANGED keyId
          ELSE /\ keyId' = LongId(Last(signatures))
               /\ Return(IF keyId' = signerKeyID THEN "true" ELSE "false")
  /\ UNCHANGED <<system, pubkeys, trusted_keyid, directory>>

\* rpm names the key that signed the package.
QueryKeyId ==
  /\ at = "query"
  /\ \E fails \in BOOLEAN :
       /\ May("command", fails)
       /\ IF fails \/ signatures = << >> THEN Return("false") /\ UNCHANGED keyId
          ELSE keyId' = Head(signatures) /\ GoTo("list")
  /\ UNCHANGED <<system, pubkeys, trusted_keyid, directory>>

-------------------------------------------------------------------------------
(* is_trusted_by_system() *)

\* rpm lists the public keys it has in some order; without any, it fails.
ListPubkeys ==
  /\ at = "list"
  /\ \E fails \in BOOLEAN :
       /\ May("command", fails)
       /\ IF fails \/ imported = {} THEN Return("false") /\ UNCHANGED pubkeys
          ELSE pubkeys' \in SetToSeqs(imported) /\ GoTo("pubkey")
  /\ UNCHANGED <<system, keyId, trusted_keyid, directory>>

\* rpm gives the block of each; one that is not there any more ends the search.
QueryPubkey ==
  /\ at = "pubkey" /\ pubkeys # << >>
  /\ \E fails \in BOOLEAN :
       /\ May("command", fails)
       /\ IF fails \/ Head(pubkeys) \notin imported THEN Return("false")
          ELSE GoTo("context")
  /\ attempts' = 0
  /\ UNCHANGED <<system, search, gnupg_dir, left>>

\* Mutant: the search is over after the first.
CompareFirst ==
  /\ at = "compare"
  /\ IF trusted_keyid = keyId THEN GoTo("signer") /\ UNCHANGED pubkeys
     ELSE GoTo("pubkey") /\ pubkeys' = << >>
  /\ Succeeds /\ UNCHANGED <<system, keyId, trusted_keyid, directory>>

Compare ==
  /\ at = "compare"
  /\ IF trusted_keyid = keyId THEN GoTo("signer") /\ UNCHANGED pubkeys
     ELSE GoTo("pubkey") /\ pubkeys' = Tail(pubkeys)
  /\ Succeeds /\ UNCHANGED <<system, keyId, trusted_keyid, directory>>

\* When rpm has no such key, gpg is asked for it.
AskGpg ==
  /\ at = "pubkey" /\ pubkeys = << >>
  /\ \E fails \in BOOLEAN :
       /\ May("command", fails)
       /\ IF fails \/ keyId \notin keyring THEN Return("false") ELSE GoTo("signer")
  /\ UNCHANGED <<system, search, directory>>

\* Mutant: any key the system trusts will do.
AcceptTrusted ==
  /\ at = "signer"
  /\ Return("true")
  /\ Succeeds /\ UNCHANGED <<system, search, directory>>

CompareSigner ==
  /\ at = "signer"
  /\ Return(IF signerKeyID = keyId THEN "true" ELSE "false")
  /\ Succeeds /\ UNCHANGED <<system, search, directory>>

-------------------------------------------------------------------------------
(* get_pubkey_fingerprint() *)

NoFingerprint == trusted_keyid' = "none"

\* Without a context there is no key id.
NewContext ==
  /\ at = "context"
  /\ \E fails \in BOOLEAN :
       /\ May("gpgme", fails)
       /\ IF fails THEN NoFingerprint /\ GoTo("compare")
          ELSE GoTo("create") /\ UNCHANGED trusted_keyid
  /\ UNCHANGED <<system, keyId, pubkeys, directory>>

\* Mutant: whether the directory was there before is not looked at.
CreateOrUse ==
  /\ at = "create"
  /\ \E name \in DirNames \ left : gnupg_dir' = name
  /\ GoTo("home")
  /\ Succeeds /\ UNCHANGED <<system, search, attempts, left>>

\* TemporaryDirectory: a name at random, and another if there is such a directory,
\* up to a number of attempts.  That none could be made is no GpgError and leaves
\* verifyPackage().
CreateDirectory ==
  /\ at = "create"
  /\ \E fails \in BOOLEAN, name \in DirNames :
       /\ May("create", fails)
       /\ IF fails THEN Return("throws") /\ UNCHANGED <<attempts, gnupg_dir>>
          ELSE IF name \in others \cup left
          THEN /\ attempts' = attempts + 1 /\ UNCHANGED gnupg_dir
               /\ IF attempts' = MaxAttempts THEN Return("throws") ELSE GoTo("create")
          ELSE gnupg_dir' = name /\ GoTo("home") /\ UNCHANGED attempts
  /\ UNCHANGED <<system, search, left>>

\* set_home()
SetHome ==
  /\ at = "home"
  /\ \E fails \in BOOLEAN :
       /\ May("gpgme", fails)
       /\ IF fails THEN NoFingerprint /\ GoTo("remove")
          ELSE GoTo("import") /\ UNCHANGED trusted_keyid
  /\ UNCHANGED <<system, keyId, pubkeys, directory>>

\* pubkey_fingerprint() and the id GpgKeyId makes of it: there is none for a block
\* that gpg cannot import, nor for a fingerprint that is too short.
Import ==
  /\ at = "import"
  /\ \E fails \in BOOLEAN :
       /\ May("gpgme", fails)
       /\ IF fails \/ IsOf[Head(pubkeys)] = "none" THEN NoFingerprint
          ELSE trusted_keyid' = LongId(IsOf[Head(pubkeys)])
  /\ GoTo("remove")
  /\ UNCHANGED <<system, keyId, pubkeys, directory>>

\* The directory is removed in any case; if this fails nobody learns of it.
RemoveDirectory ==
  /\ at = "remove"
  /\ \E fails \in BOOLEAN :
       /\ May("remove", fails)
       /\ left' = IF fails THEN left \cup {gnupg_dir} ELSE left
  /\ gnupg_dir' = "none"
  /\ GoTo("compare")
  /\ UNCHANGED <<system, search, attempts>>

-------------------------------------------------------------------------------
(* Administrators and other programs *)

Event ==
  /\ events < MaxEvents /\ events' = events + 1
  /\ UNCHANGED <<platform, calls, call, search, directory, atStart, failed>>

ChangePubkey(p) ==
  /\ Event
  /\ imported' = IF p \in imported THEN imported \ {p} ELSE imported \cup {p}
  /\ removed' = (removed \/ p \in imported)
  /\ UNCHANGED <<keyring, others>>
  /\ everKnown' = everKnown \cup Known'

ChangeKeyring(k) ==
  /\ Event
  /\ keyring' = IF k \in keyring THEN keyring \ {k} ELSE keyring \cup {k}
  /\ UNCHANGED <<imported, others, removed>>
  /\ everKnown' = everKnown \cup Known'

ChangeOthers(name) ==
  /\ Event
  /\ name \notin left \cup {gnupg_dir}
  /\ others' = IF name \in others THEN others \ {name} ELSE others \cup {name}
  /\ UNCHANGED <<imported, keyring, everKnown, removed>>

-------------------------------------------------------------------------------
GpgStep == NewContext \/ CreateDirectory \/ SetHome \/ Import \/ RemoveDirectory

CallStep ==
  \/ VerifyWithDpkgSig
  \/ QueryKeyId \/ ListPubkeys \/ QueryPubkey \/ Compare \/ AskGpg \/ CompareSigner
  \/ GpgStep

Others ==
  \/ \E p \in Pubkeys : ChangePubkey(p)
  \/ \E k \in Keys : ChangeKeyring(k)
  \/ \E name \in DirNames : ChangeOthers(name)

Next == VerifyPackage \/ CallStep \/ Others

Spec == Init /\ [][Next]_vars

-------------------------------------------------------------------------------
(* Properties *)

\* A package that is verified is signed by its signer, whose key rpm or gpg knew at
\* some time of the call.
VerifiedIsTrusted ==
  at = "idle" /\ answer = "true" =>
    /\ signerKeyID \in Range(signatures)
    /\ signerKeyID \in everKnown

\* A package of its signer is not refused for want of a key that rpm has had all
\* the time, however many other keys, good and bad, come before it and after it;
\* unless a step failed or some key was removed meanwhile.
TrustedIsVerified ==
  at = "idle" /\ answer = "false" /\ platform = "rpm" /\ ~failed /\ ~removed
    /\ signatures = <<signerKeyID>> =>
      \A p \in atStart : IsOf[p] # signerKeyID

\* The home of gpg is a directory that nobody else has made and that nothing of an
\* earlier key is in, and a call keeps none, whichever step ended it.
HomeIsOwn ==
  /\ gnupg_dir \notin others \cup left
  /\ at = "idle" => gnupg_dir = "none"
===============================================================================
