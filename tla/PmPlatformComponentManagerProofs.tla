-------------------- MODULE PmPlatformComponentManagerProofs --------------------
(***************************************************************************)
(* Theorems about PmPlatformComponentManager: only what was verified is    *)
(* run, the answers are true, and discovery reports every package and file *)
(* there is to report and no other, for every set of components, keys,     *)
(* rules and catalogs, whichever commands fail and whatever changes        *)
(* meanwhile.                                                              *)
(***************************************************************************)
EXTENDS PmPlatformComponentManager, SequenceTheorems, WellFoundedInduction, TLAPS

Discovering == {"list", "query", "deploy", "config"}
Verifying == {"verify", "trust"}
Installs == {"InstallComponent", "UpdateComponent"}

\* What may be run: what OnlyVerifiedIsRun asks for.
Allowed ==
  \/ component.signature = component.signer /\ component.signer # "none"
     /\ (platform # "macOS" => component.signer \in TrustedKeys)
  \/ platform = "macOS" /\ (component.signer = "none" \/ op = "UninstallComponent")

Flags == /\ platform \in {"rpm", "deb", "macOS"}
         /\ failed \in BOOLEAN /\ temp \in BOOLEAN

\* Which call is at which place.
PlaceInv ==
  /\ at \in Discovering => op = "GetInstalledPackages"
  /\ at \in Verifying \cup {"choices", "run"} => op \in Installs \cup {"UninstallComponent"}
  /\ at = "shell" => op = "UninstallComponent" /\ platform = "macOS"
  /\ at \in {"remove", "add"} => op = "RestrictPathPermissionsToAdmins"
  /\ at = "read" => op = "ApplyBultinUsersReadPermissions"

\* What is known when a command is about to be run, that nothing has been done
\* before, and that only a component with choices has a list of them.
AllowedInv ==
  /\ at = "verify" /\ platform = "macOS" => component.signer # "none"
  /\ at \in {"choices", "run"} => Allowed
  /\ at \in Verifying \cup {"choices", "run", "shell"} => effect = "none"
  /\ at \in Verifying \cup {"choices"} => ~temp
  /\ at = "choices" \/ temp => "choices" \in component.args
  /\ effect # "none" => Allowed

\* Nobody else has access any more unless the first of the two calls failed.
ModeInv == at = "add" => {"group", "others"} \cap mode = {} \/ failed

CallInv == Flags /\ PlaceInv /\ AllowedInv /\ ModeInv /\ AnswersAreTrue

\* At first nothing has been called.
LEMMA InitCall == Init => CallInv
  BY DiscoveryAssumption
  DEF Init, InitDiscovery, CallInv, Flags, PlaceInv, AllowedInv, ModeInv,
      AnswersAreTrue, HasReturned, Discovering, Verifying

\* What a fault may be: a truth value.
LEMMA FailsBoolean == \A fault : Fails(fault) \subseteq BOOLEAN
  BY DEF Fails

\* A step of a discovery leaves everything else alone, and it stays a discovery
\* until it returns.
LEMMA DiscoveryStays ==
  ASSUME DiscoveryStep, failed \in BOOLEAN
  PROVE /\ at \in Discovering /\ at' \in Discovering \cup {"idle"}
        /\ UNCHANGED <<platform, op>> /\ failed' \in BOOLEAN
<1>. USE DEF Discovering, system, position, history
<1>1. CASE ListPackages
  BY <1>1, FailsBoolean DEF ListPackages, Throw
<1>2. CASE PassOver
  BY <1>2 DEF PassOver, AtIdentifier
<1>3. CASE Query
  <2>1. at = "query" /\ UNCHANGED <<platform, op>>
    BY <1>3 DEF Query, AtIdentifier
  <2>2. PICK fails \in Fails("query") :
          /\ failed' = (failed \/ fails)
          /\ at' = "idle" \/ at' = at \/ at' = "deploy"
    BY <1>3 DEF Query, Throw
  <2>. QED BY <2>1, <2>2, FailsBoolean
<1>4. CASE NextRule
  BY <1>4 DEF NextRule
<1>5. CASE Finish
  BY <1>5 DEF Finish
<1>6. CASE SearchDeployPath
  BY <1>6 DEF SearchDeployPath
<1>7. CASE SearchConfigPath
  BY <1>7 DEF SearchConfigPath
<1>8. CASE AddPackage
  BY <1>8 DEF AddPackage
<1>. QED BY <1>1, <1>2, <1>3, <1>4, <1>5, <1>6, <1>7, <1>8 DEF DiscoveryStep

\* Discovering changes nothing the invariant says of the other calls.
LEMMA DiscoverCall == ASSUME CallInv, Discover PROVE CallInv'
<1>. USE DEF CallInv, Flags, PlaceInv, AllowedInv, ModeInv, AnswersAreTrue, HasReturned,
             Discovering, Verifying, Installs
<1>1. CASE \E c \in Catalogs : GetInstalledPackages(c) /\ NoComponent /\ NoPath
  <2>1. /\ op' = "GetInstalledPackages" /\ at' \in {"list", "query"} /\ UNCHANGED platform
        /\ failed' = FALSE /\ effect' = "none" /\ temp' = FALSE
    BY <1>1 DEF GetInstalledPackages, Start, NoComponent
  <2>. QED BY <2>1
<1>2. CASE DiscoveryStep /\ UNCHANGED <<installation, mode>>
  <2>1. /\ at \in Discovering /\ at' \in Discovering \cup {"idle"}
        /\ UNCHANGED <<platform, op, component, effect, temp>> /\ failed' \in BOOLEAN
    BY <1>2, DiscoveryStays DEF installation
  <2>. QED BY <2>1 DEF Allowed
<1>. QED BY <1>1, <1>2 DEF Discover

\* A call about a component leads to a command at once only on macOS, where it
\* then has no signer.
LEMMA BeginCall ==
  ASSUME CallInv, NEW c \in Components,
         InstallComponent(c) \/ UpdateComponent(c) \/ UninstallComponent(c)
  PROVE CallInv'
<1>. USE DEF CallInv, Flags, PlaceInv, AllowedInv, ModeInv, AnswersAreTrue, HasReturned,
             Discovering, Verifying, Installs, Answer, GoTo
<1>1. /\ component' = c /\ effect' = "none" /\ temp' = FALSE /\ failed' = FALSE
      /\ UNCHANGED platform
  BY DEF InstallComponent, UpdateComponent, Install, UninstallComponent, Begin, Start
<1>2. CASE InstallComponent(c) \/ UpdateComponent(c)
  <2>1. op' \in Installs
    BY <1>2 DEF InstallComponent, UpdateComponent, Install, Begin, Start
  <2>2. \/ at' = "idle" /\ answer' \in {"-1", "throws"}
        \/ /\ at' \in {"choices", "run"} /\ platform = "macOS" /\ c.signer = "none"
           /\ at' = "choices" => "choices" \in c.args
        \/ at' = "verify" /\ ~(platform = "macOS" /\ c.signer = "none")
    BY <1>2 DEF InstallComponent, UpdateComponent, Install, Proceed
  <2>. QED BY <1>1, <2>1, <2>2 DEF Allowed
<1>3. CASE UninstallComponent(c)
  <2>1. op' = "UninstallComponent"
    BY <1>3 DEF UninstallComponent, Begin, Start
  <2>2. \/ at' = "idle"
        \/ at' = "shell" /\ platform = "macOS"
        \/ at' = "verify" /\ ~(platform = "macOS" /\ c.signer = "none")
    BY <1>3 DEF UninstallComponent
  <2>. QED BY <1>1, <2>1, <2>2
<1>. QED BY <1>2, <1>3

\* Whatever way a verification takes, what follows a success is allowed.
LEMMA VerifiedCall ==
  ASSUME CallInv, at \in Verifying, NEW ok \in BOOLEAN, Verified(ok),
         ok => Allowed,
         UNCHANGED <<platform, op, component, effect, temp, mode, failed>>
  PROVE CallInv'
<1>. USE DEF CallInv, Flags, PlaceInv, AllowedInv, ModeInv, AnswersAreTrue, HasReturned,
             Discovering, Verifying, Installs, Answer, GoTo
<1>1. CASE ok
  <2>1. \/ at' = "idle" /\ answer' = "throws"
        \/ at' \in {"choices", "run"} /\ (at' = "choices" => "choices" \in component.args)
    BY <1>1 DEF Verified, Proceed
  <2>2. Allowed'
    BY <1>1 DEF Allowed
  <2>. QED BY <2>1, <2>2
<1>2. CASE ~ok
  <2>1. \/ at' = "idle" /\ answer' \in {"-1", "status"}
        \/ at' = "shell" /\ platform = "macOS" /\ op = "UninstallComponent"
    BY <1>2 DEF Verified
  <2>. QED BY <2>1 DEF Allowed
<1>. QED BY <1>1, <1>2

\* The first commands of a verification.
LEMMA VerifyCall == ASSUME CallInv, Verify PROVE CallInv'
<1>1. PICK fails \in Fails("verify") :
        CASE platform = "rpm" ->
               /\ IF fails \/ component.signature = "none" THEN Answer("-1") ELSE GoTo("trust")
               /\ UNCHANGED verified
          [] platform = "deb" ->
               Verified(/\ ~fails /\ component.signature \in TrustedKeys
                        /\ component.signature = component.signer)
          [] OTHER -> Verified(~fails /\ component.signature = component.signer)
  BY DEF Verify
<1>2. at = "verify" /\ UNCHANGED <<platform, op, component, effect, temp, mode, failed>>
  BY DEF Verify, system, history
<1>3. CASE platform = "rpm"
  <2>1. (at' = "idle" /\ answer' = "-1") \/ at' = "trust"
    BY <1>1, <1>3 DEF Answer, GoTo
  <2>. QED BY <1>2, <1>3, <2>1
    DEF CallInv, Flags, PlaceInv, AllowedInv, ModeInv, AnswersAreTrue, HasReturned,
        Discovering, Verifying, Installs, Allowed
<1>4. CASE platform = "deb"
  <2>. DEFINE ok == /\ ~fails /\ component.signature \in TrustedKeys
                    /\ component.signature = component.signer
  <2>1. Verified(ok)
    BY <1>1, <1>4
  <2>2. ok => Allowed
    BY ComponentAssumption DEF Allowed
  <2>. HIDE DEF ok
  <2>3. ok \in BOOLEAN
    BY DEF ok
  <2>. QED BY <1>2, <2>1, <2>2, <2>3, VerifiedCall DEF Verifying
<1>5. CASE platform \notin {"rpm", "deb"}
  <2>. DEFINE ok == ~fails /\ component.signature = component.signer
  <2>1. Verified(ok)
    BY <1>1, <1>5
  <2>2. platform = "macOS" /\ component.signer # "none"
    BY <1>2, <1>5 DEF CallInv, Flags, AllowedInv
  <2>3. ok => Allowed
    BY <2>2 DEF Allowed
  <2>. HIDE DEF ok
  <2>4. ok \in BOOLEAN
    BY DEF ok
  <2>. QED BY <1>2, <2>1, <2>3, <2>4, VerifiedCall DEF Verifying
<1>. QED BY <1>3, <1>4, <1>5

\* The comparison with the trusted keys and the signer, if it comes to that.
LEMMA TrustCall == ASSUME CallInv, Trust PROVE CallInv'
<1>1. \/ \E fails \in Fails("verify") :
           Verified(/\ ~fails /\ component.signature \in TrustedKeys
                    /\ component.signature = component.signer)
      \/ Answer("throws")
  BY DEF Trust
<1>2. at = "trust" /\ UNCHANGED <<platform, op, component, effect, temp, mode, failed>>
  BY DEF Trust, system, history
<1>3. ASSUME NEW fails \in Fails("verify"),
             Verified(/\ ~fails /\ component.signature \in TrustedKeys
                      /\ component.signature = component.signer)
      PROVE  CallInv'
  <2>. DEFINE ok == /\ ~fails /\ component.signature \in TrustedKeys
                    /\ component.signature = component.signer
  <2>1. Verified(ok)
    BY <1>3
  <2>2. ok => Allowed
    BY ComponentAssumption DEF Allowed
  <2>. HIDE DEF ok
  <2>3. ok \in BOOLEAN
    BY DEF ok
  <2>. QED BY <1>2, <2>1, <2>2, <2>3, VerifiedCall DEF Verifying
<1>4. CASE Answer("throws")
  BY <1>2, <1>4
  DEF CallInv, Flags, PlaceInv, AllowedInv, ModeInv, AnswersAreTrue, HasReturned,
      Discovering, Verifying, Installs, Answer, Allowed
<1>. QED BY <1>1, <1>3, <1>4

\* The commands that act: each says what it has done.
LEMMA CommandCall == ASSUME CallInv, ListChoices \/ Run \/ Shell PROVE CallInv'
<1>. USE DEF CallInv, Flags, PlaceInv, AllowedInv, ModeInv, AnswersAreTrue, HasReturned,
             Discovering, Verifying, Installs, Answer, GoTo
<1>1. CASE ListChoices
  <2>1. /\ at = "choices"
        /\ \/ at' = "run" /\ temp' = TRUE
           \/ at' = "idle" /\ answer' = "throws" /\ UNCHANGED temp
        /\ UNCHANGED <<platform, op, component, effect, mode, failed>>
    BY <1>1 DEF ListChoices, system, history
  <2>. QED BY <2>1 DEF Allowed
<1>2. CASE Run
  <2>1. at = "run" /\ at' = "idle" /\ UNCHANGED <<platform, op, component, mode>>
    BY <1>2 DEF Run
  <2>2. \/ temp' = FALSE /\ failed' \in {failed, TRUE}
        \/ temp /\ temp' = TRUE /\ failed' = TRUE
        \/ answer' = "throws" /\ UNCHANGED <<temp, failed>>
    BY <1>2 DEF Run, RemoveChoices
  <2>3. \/ answer' = "0" /\ effect' = "done"
        \/ answer' = "-1" /\ (effect' \in {"none", "partly"} \/ failed')
        \/ answer' = "throws" /\ effect' = "none"
    BY <1>2 DEF Run, RemoveChoices, Nothing, AllOfIt, Half
  <2>4. Flags' /\ PlaceInv' /\ ModeInv'
    BY <2>1, <2>2
  <2>5. temp' => "choices" \in component'.args /\ (answer' = "throws" \/ failed')
    BY <2>1, <2>2
  <2>6. AllowedInv'
    <3>1. Allowed'
      BY <2>1 DEF Allowed
    <3>. QED BY <2>1, <2>5, <3>1
  <2>7. AnswersAreTrue'
    <3>1. op' \notin {"RestrictPathPermissionsToAdmins", "ApplyBultinUsersReadPermissions"}
      BY <2>1
    <3>. QED BY <2>1, <2>3, <2>5, <3>1
  <2>. QED BY <2>4, <2>6, <2>7
<1>3. CASE Shell
  <2>1. /\ at = "shell" /\ at' = "idle"
        /\ UNCHANGED <<platform, op, component, temp, mode, failed>>
    BY <1>3 DEF Shell, history
  <2>. QED BY <2>1 DEF Allowed
<1>. QED BY <1>1, <1>2, <1>3

\* A path's mode has been looked at before the answer is 0.
LEMMA PermissionsCall == ASSUME CallInv, Permissions PROVE CallInv'
<1>. USE DEF CallInv, Flags, PlaceInv, AllowedInv, ModeInv, AnswersAreTrue, HasReturned,
             Discovering, Verifying, Installs, Answer, GoTo
<1>1. CASE \E present \in BOOLEAN, m \in SUBSET {"owner", "group", "others", "read"} :
             RestrictPathPermissionsToAdmins(present, m)
  <2>1. /\ op' = "RestrictPathPermissionsToAdmins"
        /\ effect' = "none" /\ temp' = FALSE /\ failed' = FALSE /\ UNCHANGED platform
        /\ \/ at' = "idle" /\ answer' = "-1"
           \/ at' = "idle" /\ HasAdminRestrictions(mode')
           \/ at' = "remove"
    BY <1>1 DEF RestrictPathPermissionsToAdmins, BeginPermissions, Start, NoComponent
  <2>. QED BY <2>1 DEF HasAdminRestrictions
<1>2. CASE \E present \in BOOLEAN, m \in SUBSET {"owner", "group", "others", "read"} :
             ApplyBultinUsersReadPermissions(present, m)
  <2>1. /\ op' = "ApplyBultinUsersReadPermissions"
        /\ effect' = "none" /\ temp' = FALSE /\ failed' = FALSE /\ UNCHANGED platform
        /\ \/ at' = "idle" /\ answer' = "-1"
           \/ at' = "idle" /\ "read" \in mode'
           \/ at' = "read"
    BY <1>2 DEF ApplyBultinUsersReadPermissions, BeginPermissions, Start, NoComponent
  <2>. QED BY <2>1
<1>3. CASE TakeFromOthers
  <2>1. PICK fails \in Fails("chmod") : Chmod(mode \ {"group", "others"}, fails)
    BY <1>3 DEF TakeFromOthers
  <2>2. at = "remove" /\ at' = "add"
    BY <1>3 DEF TakeFromOthers
  <2>3. /\ UNCHANGED <<platform, op, component, effect, temp>> /\ failed' = (failed \/ fails)
        /\ mode' = IF fails THEN mode ELSE mode \ {"group", "others"}
    BY <2>1 DEF Chmod, system, installation
  <2>. QED BY <2>2, <2>3, FailsBoolean DEF Allowed
<1>4. CASE GiveToOwner
  <2>1. PICK fails \in Fails("chmod") : Chmod(mode \cup {"owner"}, fails)
    BY <1>4 DEF GiveToOwner
  <2>2. at = "add" /\ at' = "idle"
    BY <1>4 DEF GiveToOwner
  <2>3. /\ UNCHANGED <<platform, op, component, effect, temp>> /\ failed' = (failed \/ fails)
        /\ mode' = IF fails THEN mode ELSE mode \cup {"owner"}
    BY <2>1 DEF Chmod, system, installation
  <2>. QED BY <2>2, <2>3, FailsBoolean DEF Allowed, HasAdminRestrictions
<1>5. CASE LetRead
  <2>1. PICK fails \in Fails("chmod") :
          Chmod(mode \cup {"read"}, fails) /\ answer' = IF fails THEN "-1" ELSE "0"
    BY <1>5 DEF LetRead
  <2>2. at = "read" /\ at' = "idle"
    BY <1>5 DEF LetRead
  <2>3. /\ UNCHANGED <<platform, op, component, effect, temp>> /\ failed' = (failed \/ fails)
        /\ mode' = IF fails THEN mode ELSE mode \cup {"read"}
    BY <2>1 DEF Chmod, system, installation
  <2>. QED BY <2>1, <2>2, <2>3, FailsBoolean DEF Allowed
<1>. QED BY <1>1, <1>2, <1>3, <1>4, <1>5 DEF Permissions

\* What other programs do is none of the call's business.
LEMMA OthersCall ==
  ASSUME CallInv, OthersStep, UNCHANGED <<installation, mode>> PROVE CallInv'
<1>1. at # "idle" /\ UNCHANGED <<platform, at, op, failed, installation, mode>>
  BY DEF OthersStep, ChangePackage, ChangeFile
<1>. QED BY <1>1 DEF CallInv, Flags, PlaceInv, AllowedInv, ModeInv, AnswersAreTrue,
                     HasReturned, Discovering, Verifying, Installs, Allowed, installation

\* The invariant holds in every state of every call.
THEOREM CallCorrect == Spec => []CallInv
<1>1. Init => CallInv
  BY InitCall
<1>2. CallInv /\ [Next]_vars => CallInv'
  <2>. SUFFICES ASSUME CallInv, [Next]_vars PROVE CallInv'
    OBVIOUS
  <2>1. CASE Discover
    BY <2>1, DiscoverCall
  <2>2. CASE Installation
    BY <2>2, BeginCall, VerifyCall, TrustCall, CommandCall DEF Installation
  <2>3. CASE Permissions
    BY <2>3, PermissionsCall
  <2>4. CASE OthersStep /\ UNCHANGED <<installation, mode>>
    BY <2>4, OthersCall
  <2>5. CASE UNCHANGED vars
    BY <2>5 DEF vars, discoveryVars, system, history, installation, CallInv, Flags, PlaceInv,
                AllowedInv, ModeInv, AnswersAreTrue, HasReturned, HasAdminRestrictions,
                Discovering, Verifying, Installs, Allowed
  <2>. QED BY <2>1, <2>2, <2>3, <2>4, <2>5 DEF Next
<1>. QED BY <1>1, <1>2, PTL DEF Spec

\* InstallComponent(), UpdateComponent() and UninstallComponent() do nothing to a
\* package that is not verified to be signed as it should be, but for the two
\* exceptions on macOS, whichever commands fail.
THEOREM OnlyVerifiedPackagesAreRun == Spec => []OnlyVerifiedIsRun
<1>1. CallInv => OnlyVerifiedIsRun
  BY DEF CallInv, AllowedInv, Allowed, OnlyVerifiedIsRun
<1>. QED BY <1>1, CallCorrect, PTL

\* The answers of the calls that install and that change permissions say what
\* was done, but where the result of a command is lost or not looked at.
THEOREM EveryAnswerIsTrue == Spec => []AnswersAreTrue
<1>1. CallInv => AnswersAreTrue
  BY DEF CallInv
<1>. QED BY <1>1, CallCorrect, PTL

-------------------------------------------------------------------------------
(* The elements of a sequence that are in a set *)

\* Every nonempty set of natural numbers has a least element.
LEMMA Smallest ==
  ASSUME NEW T, T \subseteq Nat, T # {}
  PROVE \E k \in T : \A j \in T : k <= j
<1> DEFINE R == {p \in Nat \X Nat : p[1] < p[2]}
<1>1. IsWellFoundedOn(R, Nat)
  BY NatLessThanWellFounded DEF OpToRel
<1> HIDE DEF R
<1>2. PICK k \in T : \A j \in T : <<j, k>> \notin R
  BY <1>1, WFMin
<1>3. ASSUME NEW j \in T PROVE k <= j
  <2>1. j \in Nat /\ k \in Nat
    OBVIOUS
  <2>2. <<j, k>> \notin R
    BY <1>2
  <2>3. ~(j < k)
    BY <2>1, <2>2 DEF R
  <2> QED
    BY <2>1, <2>3
<1> QED
  BY <1>2, <1>3

\* What holds of 0, and of each number up to n if it holds of the one before, holds
\* of all of them.
LEMMA UpTo ==
  ASSUME NEW n \in Nat, NEW P, 0 \in P,
         \A i \in 1..n : i - 1 \in P => i \in P
  PROVE \A i \in 0..n : i \in P
<1> DEFINE T == {i \in 0..n : i \notin P}
<1>1. SUFFICES ASSUME T # {} PROVE FALSE
  OBVIOUS
<1>2. PICK k \in T : \A j \in T : k <= j
  <2>1. T \subseteq Nat
    OBVIOUS
  <2> HIDE DEF T
  <2> QED
    BY <1>1, <2>1, Smallest
<1>3. k \in 1..n /\ k - 1 \in 0..n /\ k - 1 \notin T
  BY <1>2
<1> QED
  BY <1>3

\* The recursive function in Among() exists, so that it can be unfolded.
LEMMA AmongDef ==
  ASSUME NEW S, NEW s \in Seq(S), NEW A
  PROVE \E u : /\ u = [i \in 0..Len(s) |->
                     IF i = 0 THEN << >>
                     ELSE IF s[i] \in A THEN Append(u[i - 1], s[i]) ELSE u[i - 1]]
               /\ Among(s, A) = u[Len(s)]
<1> DEFINE Is(u, n) == u = [i \in 0..n |->
                     IF i = 0 THEN << >>
                     ELSE IF s[i] \in A THEN Append(u[i - 1], s[i]) ELSE u[i - 1]]
           P == {n \in Nat : \E u : Is(u, n)}
<1>1. 0 \in P
  <2>1. Is([i \in 0..0 |-> << >>], 0)
    OBVIOUS
  <2> QED
    BY <2>1
<1>2. ASSUME NEW n \in 1..Len(s), n - 1 \in P PROVE n \in P
  <2>1. PICK u : Is(u, n - 1)
    BY <1>2
  <2> DEFINE v == [i \in 0..n |->
                     IF i = n THEN IF s[n] \in A THEN Append(u[n - 1], s[n]) ELSE u[n - 1]
                     ELSE u[i]]
  <2>2. ASSUME NEW i \in 0..n
        PROVE v[i] = IF i = 0 THEN << >>
                     ELSE IF s[i] \in A THEN Append(v[i - 1], s[i]) ELSE v[i - 1]
    <3>1. CASE i = n
      <4>1. v[i - 1] = u[n - 1] /\ i # 0
        BY <3>1
      <4> QED
        BY <3>1, <4>1
    <3>2. CASE i # n /\ i # 0
      <4>1. i \in 0..(n - 1) /\ i - 1 \in 0..n /\ i - 1 # n
        BY <3>2
      <4>2. v[i] = u[i] /\ v[i - 1] = u[i - 1]
        BY <3>2, <4>1
      <4> HIDE DEF v
      <4> QED
        BY <2>1, <3>2, <4>1, <4>2
    <3>3. CASE i # n /\ i = 0
      <4>1. v[i] = u[i]
        BY <3>3
      <4> HIDE DEF v
      <4> QED
        BY <2>1, <3>3, <4>1
    <3> QED
      BY <3>1, <3>2, <3>3
  <2>3. v = [i \in 0..n |-> v[i]]
    OBVIOUS
  <2> HIDE DEF v
  <2>4. Is(v, n)
    BY <2>2, <2>3
  <2> QED
    BY <2>4
<1>3. Len(s) \in P
  <2> HIDE DEF P
  <2>1. Len(s) \in Nat
    OBVIOUS
  <2>2. \A i \in 0..Len(s) : i \in P
    BY <1>1, <1>2, <2>1, UpTo
  <2> QED
    BY <2>1, <2>2
<1>4. \E u : Is(u, Len(s))
  BY <1>3
<1> QED
  BY <1>4 DEF Among

\* Among() keeps what is in the set and nothing else, once if it was there once.
LEMMA AmongProps ==
  ASSUME NEW S, NEW s \in Seq(S), NEW A
  PROVE /\ Among(s, A) \in Seq(S \cap A)
        /\ \A i \in DOMAIN Among(s, A) :
             Among(s, A)[i] \in A /\ \E j \in DOMAIN s : Among(s, A)[i] = s[j]
        /\ \A j \in DOMAIN s :
             s[j] \in A => \E i \in DOMAIN Among(s, A) : Among(s, A)[i] = s[j]
        /\ (\A i, j \in DOMAIN s : s[i] = s[j] => i = j) =>
             \A i, j \in DOMAIN Among(s, A) : Among(s, A)[i] = Among(s, A)[j] => i = j
<1>1. PICK u : /\ u = [i \in 0..Len(s) |->
                     IF i = 0 THEN << >>
                     ELSE IF s[i] \in A THEN Append(u[i - 1], s[i]) ELSE u[i - 1]]
               /\ Among(s, A) = u[Len(s)]
  BY AmongDef
<1> DEFINE Good(n) ==
             /\ u[n] \in Seq(S \cap A)
             /\ {u[n][i] : i \in DOMAIN u[n]} = {s[i] : i \in 1..n} \cap A
             /\ (\A i, j \in DOMAIN s : s[i] = s[j] => i = j) =>
                  \A i, j \in DOMAIN u[n] : u[n][i] = u[n][j] => i = j
           P == {n \in Nat : Good(n)}
<1>2. 0 \in P
  <2>1. u[0] = << >>
    BY <1>1
  <2>2. << >> \in Seq(S \cap A) /\ DOMAIN << >> = {}
    OBVIOUS
  <2>3. Good(0)
    <3>1. {s[i] : i \in 1..0} = {}
      OBVIOUS
    <3>2. {u[0][i] : i \in DOMAIN u[0]} = {}
      BY <2>1, <2>2
    <3> QED
      BY <2>1, <2>2, <3>1, <3>2
  <2> QED
    BY <2>3
<1>3. ASSUME NEW n \in 1..Len(s), n - 1 \in P PROVE n \in P
  <2>0. /\ n \in Nat /\ n - 1 \in 0..Len(s) /\ n \in 0..Len(s) /\ n # 0
        /\ s[n] \in S /\ DOMAIN s = 1..Len(s)
        /\ 1..n = 1..(n - 1) \cup {n} /\ n \notin 1..(n - 1)
    OBVIOUS
  <2>1. u[n] = IF s[n] \in A THEN Append(u[n - 1], s[n]) ELSE u[n - 1]
    BY <1>1, <2>0
  <2>2. Good(n - 1)
    BY <1>3
  <2>4. {s[i] : i \in 1..n} = {s[i] : i \in 1..(n - 1)} \cup {s[n]}
    BY <2>0
  <2>5. CASE s[n] \notin A
    <3>1. u[n] = u[n - 1] /\ {s[i] : i \in 1..n} \cap A = {s[i] : i \in 1..(n - 1)} \cap A
      BY <2>1, <2>4, <2>5
    <3>2. Good(n)
      BY <2>2, <3>1
    <3> QED
      BY <2>0, <3>2
  <2>6. CASE s[n] \in A
    <3> DEFINE t == u[n - 1]
    <3>1. t \in Seq(S \cap A) /\ u[n] = Append(t, s[n]) /\ s[n] \in S \cap A
      BY <2>0, <2>1, <2>2, <2>6
    <3> HIDE DEF t
    <3>2. /\ u[n] \in Seq(S \cap A) /\ Len(u[n]) = Len(t) + 1 /\ u[n][Len(t) + 1] = s[n]
          /\ \A i \in 1..Len(t) : u[n][i] = t[i]
          /\ Len(t) \in Nat
      BY <3>1
    <3>3. DOMAIN u[n] = 1..(Len(t) + 1) /\ DOMAIN t = 1..Len(t)
      BY <3>1, <3>2
    <3>4. {u[n][i] : i \in DOMAIN u[n]} = {t[i] : i \in DOMAIN t} \cup {s[n]}
      BY <3>2, <3>3
    <3>5. {t[i] : i \in DOMAIN t} = {s[i] : i \in 1..(n - 1)} \cap A
      BY <2>2 DEF t
    <3>6. {u[n][i] : i \in DOMAIN u[n]} = {s[i] : i \in 1..n} \cap A
      BY <2>4, <2>6, <3>4, <3>5
    <3>7. ASSUME \A i, j \in DOMAIN s : s[i] = s[j] => i = j
          PROVE  \A i, j \in DOMAIN u[n] : u[n][i] = u[n][j] => i = j
      <4>1. \A i, j \in 1..Len(t) : t[i] = t[j] => i = j
        BY <2>2, <3>3, <3>7 DEF t
      <4>2. ASSUME NEW i \in 1..Len(t) PROVE t[i] # s[n]
        <5>1. PICK k \in 1..(n - 1) : t[i] = s[k]
          BY <3>3, <3>5
        <5> QED
          BY <2>0, <3>7, <5>1
      <4> QED
        BY <3>2, <3>3, <4>1, <4>2
    <3> QED
      BY <2>0, <3>2, <3>6, <3>7
  <2> QED
    BY <2>0, <2>5, <2>6
<1>4. Good(Len(s))
  <2>1. Len(s) \in P
    <3> HIDE DEF P
    <3>1. Len(s) \in Nat
      OBVIOUS
    <3>2. \A i \in 0..Len(s) : i \in P
      BY <1>2, <1>3, <3>1, UpTo
    <3> QED
      BY <3>1, <3>2
  <2> QED
    BY <2>1
<1>5. DOMAIN s = 1..Len(s)
  OBVIOUS
<1> DEFINE t == u[Len(s)]
<1>6. t = Among(s, A)
  BY <1>1
<1>7. /\ t \in Seq(S \cap A)
      /\ {t[i] : i \in DOMAIN t} = {s[i] : i \in DOMAIN s} \cap A
      /\ (\A i, j \in DOMAIN s : s[i] = s[j] => i = j) =>
           \A i, j \in DOMAIN t : t[i] = t[j] => i = j
  BY <1>4, <1>5
<1> HIDE DEF t
<1>8. \A i \in DOMAIN t : t[i] \in A /\ \E j \in DOMAIN s : t[i] = s[j]
  <2>1. \A i \in DOMAIN t : t[i] \in {s[j] : j \in DOMAIN s} \cap A
    BY <1>7
  <2> QED
    BY <2>1
<1>9. \A j \in DOMAIN s : s[j] \in A => \E i \in DOMAIN t : t[i] = s[j]
  <2>1. \A j \in DOMAIN s : s[j] \in A => s[j] \in {t[i] : i \in DOMAIN t}
    BY <1>7
  <2> QED
    BY <2>1
<1> QED
  BY <1>6, <1>7, <1>8, <1>9

-------------------------------------------------------------------------------
(* Types *)

\* A command of an installation acts on a component that there is.
ComponentInv == at \in Verifying \cup {"choices", "run", "shell"} => component \in Components

\* A discovery makes its list before it comes to any identifier, and looks for a
\* configuration path only after a deploy path.
StageInv ==
  /\ at = "list" => rule = 1 /\ id = 1
  /\ at = "config" => HasCurrent /\ Current.deployPath # << >>

Types == TypeOK /\ ComponentInv /\ StageInv

Calls == {"none", "GetInstalledPackages", "InstallComponent", "UpdateComponent",
          "UninstallComponent", "RestrictPathPermissionsToAdmins",
          "ApplyBultinUsersReadPermissions"}
Doing == {"verify", "trust", "choices", "run", "shell", "remove", "add", "read"}
Answers == {"none", "0", "-1", "status", "throws"}

\* The identifiers a platform goes through are those of the rule, on macOS receipts.
LEMMA IdsType ==
  ASSUME NEW r \in Rules
  PROVE /\ Ids(r) \in Seq(Identifiers)
        /\ platform = "macOS" => \A j \in DOMAIN Ids(r) : Ids(r)[j].type = "PKGUTIL"
<1>. DEFINE of(type) == Among(r.ids, {i \in Identifiers : i.type = type})
<1>1. r.ids \in Seq(Identifiers)
  BY DEF Rules
<1>2. \A type : of(type) \in Seq(Identifiers \cap {i \in Identifiers : i.type = type})
  BY <1>1, AmongProps
<1>3. \A type : of(type) \in Seq(Identifiers)
  <2>1. ASSUME NEW type PROVE of(type) \in Seq(Identifiers)
    <3>. DEFINE t == of(type)
                A == Identifiers \cap {i \in Identifiers : i.type = type}
    <3>1. t \in Seq(A) /\ A \subseteq Identifiers
      BY <1>2
    <3>. HIDE DEF t, A
    <3>2. t \in Seq(Identifiers)
      BY <3>1
    <3>. QED BY <3>2 DEF t
  <2>. QED BY <2>1
<1>4. CASE platform = "macOS"
  <2>1. Ids(r) = of("PKGUTIL")
    BY <1>4 DEF Ids
  <2>2. Ids(r) \in Seq(Identifiers \cap {i \in Identifiers : i.type = "PKGUTIL"})
    BY <1>2, <2>1
  <2>3. ASSUME NEW j \in DOMAIN Ids(r) PROVE Ids(r)[j].type = "PKGUTIL"
    BY <2>2
  <2>. QED BY <1>3, <2>1, <2>3
<1>5. CASE platform # "macOS"
  <2>1. Ids(r) = of("NVRA") \o of("NAME")
    BY <1>5 DEF Ids
  <2>. HIDE DEF of
  <2>2. of("NVRA") \in Seq(Identifiers) /\ of("NAME") \in Seq(Identifiers)
    BY <1>3
  <2>. QED BY <1>5, <2>1, <2>2
<1>. QED BY <1>4, <1>5

\* A rule of a catalog the cloud may send is one.
LEMMA RuleType ==
  ASSUME catalog \in Catalogs \cup {<< >>}
  PROVE /\ catalog \in Seq(Rules) /\ Len(catalog) \in Nat /\ DOMAIN catalog = 1..Len(catalog)
        /\ \A r \in 1..Len(catalog) : catalog[r] \in Rules
<1>1. catalog \in Seq(Rules)
  <2>1. Catalogs \subseteq Seq(Rules)
    BY DiscoveryAssumption
  <2>2. << >> \in Seq(Rules)
    OBVIOUS
  <2>. QED BY <2>1, <2>2
<1>. QED BY <1>1

\* Absent is an entry, and so is an installed package.
LEMMA EntriesType ==
  /\ Absent \in Entries(platform)
  /\ \A e \in Entries(platform) : e.version \in 0..MaxVersion /\ (e.version = 0 <=> e = Absent)
  /\ \A v \in 1..MaxVersion :
       /\ [state |-> "installed", version |-> v] \in Entries(platform)
       /\ platform = "deb" => [state |-> "partial", version |-> v] \in Entries(platform)
<1>1. MaxVersion \in Nat \ {0}
  BY DiscoveryAssumption
<1>2. Absent.version = 0
  BY DEF Absent
<1>3. ASSUME NEW e \in Entries(platform)
      PROVE e.version \in 0..MaxVersion /\ (e.version = 0 <=> e = Absent)
  <2>1. CASE e = Absent
    BY <1>1, <1>2, <2>1
  <2>2. CASE e # Absent
    <3>1. e.version \in 1..MaxVersion
      BY <2>2 DEF Entries
    <3>. QED BY <1>1, <2>2, <3>1
  <2>. QED BY <2>1, <2>2
<1>4. ASSUME NEW v \in 1..MaxVersion
      PROVE /\ [state |-> "installed", version |-> v] \in Entries(platform)
            /\ platform = "deb" => [state |-> "partial", version |-> v] \in Entries(platform)
  BY DEF Entries
<1>5. Absent \in Entries(platform)
  BY DEF Entries
<1>. QED BY <1>3, <1>4, <1>5

\* What the calls that do not discover leave alone keeps its type.
LEMMA CallTypes ==
  ASSUME Types, UNCHANGED <<platform, home, files, changes, position, inventory, cache>>,
         at' \in Doing \cup {"idle"}, answer' \in Answers, op' \in Calls,
         calls' \in 0..MaxCalls, db' \in [Names -> Entries(platform)],
         component' \in Components \cup {<< >>}, verified' \in BOOLEAN,
         effect' \in {"none", "partly", "done"}, temp' \in BOOLEAN,
         mode' \subseteq {"owner", "group", "others", "read"},
         seen' \in [Names -> SUBSET Entries(platform)], moved' \in BOOLEAN, failed' \in BOOLEAN,
         at' \in Verifying \cup {"choices", "run", "shell"} => component' \in Components
  PROVE Types'
<1>1. DiscoveryTypeOK'
  <2>1. UNCHANGED <<platform, home, files, changes, catalog, rule, listed, version, configs,
                    inventory, cache>>
    BY DEF position
  <2>2. at' \notin {"query", "deploy", "config"}
    BY DEF Doing
  <2>3. Entries(platform)' = Entries(platform)
    BY <2>1
  <2>. QED BY <2>1, <2>2, <2>3 DEF Types, TypeOK, DiscoveryTypeOK, Answers
<1>2. ComponentInv' /\ StageInv'
  BY DEF ComponentInv, StageInv, Doing
<1>. QED BY <1>1, <1>2 DEF Types, TypeOK, Calls, Doing

\* What every call begins with has its type.
LEMMA StartTypes ==
  ASSUME Types, NEW name, Start(name)
  PROVE /\ calls' \in 0..MaxCalls /\ op' = name
        /\ seen' \in [Names -> SUBSET Entries(platform)]
        /\ moved' = FALSE /\ failed' = FALSE
<1>1. calls \in 0..MaxCalls /\ MaxCalls \in Nat /\ db \in [Names -> Entries(platform)]
  BY DiscoveryAssumption DEF Types, TypeOK, DiscoveryTypeOK
<1>. QED BY <1>1 DEF Start

\* A call about a component begins.
LEMMA BeginTypes ==
  ASSUME Types, NEW c \in Components,
         InstallComponent(c) \/ UpdateComponent(c) \/ UninstallComponent(c)
  PROVE Types'
<1>1. PICK name \in Calls : Begin(name, c)
  BY DEF InstallComponent, UpdateComponent, Install, UninstallComponent, Calls
<1>2. /\ calls' \in 0..MaxCalls /\ op' = name /\ seen' \in [Names -> SUBSET Entries(platform)]
      /\ moved' = FALSE /\ failed' = FALSE
  BY <1>1, StartTypes DEF Begin
<1>3. /\ component' = c /\ verified' = FALSE /\ effect' = "none" /\ temp' = FALSE /\ mode' = {}
      /\ UNCHANGED <<platform, home, db, files, changes, position, inventory, cache>>
  BY <1>1 DEF Begin, NoPath, UnchangedDiscovery
<1>4. at' \in Doing \cup {"idle"} /\ answer' \in Answers
  BY DEF InstallComponent, UpdateComponent, Install, UninstallComponent, Proceed, Answer, GoTo,
         Doing, Answers
<1>5. db' \in [Names -> Entries(platform)]
  BY <1>3 DEF Types, TypeOK, DiscoveryTypeOK
<1>. QED BY <1>2, <1>3, <1>4, <1>5, CallTypes

\* The steps of a call about a component leave the state of a discovery alone.
LEMMA InstallationTypes ==
  ASSUME Types, Verify \/ Trust \/ ListChoices \/ Run \/ Shell
  PROVE Types'
<1>1. /\ UNCHANGED <<platform, home, files, changes, calls, op, component, mode, seen, moved,
                     position, inventory, cache>>
      /\ at \in Verifying \cup {"choices", "run", "shell"}
  BY DEF Verify, Trust, ListChoices, Run, Shell, system, history, UnchangedDiscovery, Verifying
<1>2. at' \in Doing \cup {"idle"} /\ answer' \in Answers
  <2>1. CASE Verify
    BY <2>1 DEF Verify, Verified, Proceed, Answer, GoTo, Doing, Answers
  <2>2. CASE Trust
    BY <2>2 DEF Trust, Verified, Proceed, Answer, GoTo, Doing, Answers
  <2>3. CASE ListChoices \/ Run \/ Shell
    BY <2>3 DEF ListChoices, Run, Shell, Answer, GoTo, Doing, Answers
  <2>. QED BY <2>1, <2>2, <2>3
<1>3. component \in Components
  BY <1>1 DEF Types, ComponentInv
<1>4. /\ component.name \in Names /\ component.version \in 1..MaxVersion
      /\ db \in [Names -> Entries(platform)]
  BY <1>3, ComponentAssumption DEF PmComponents, Types, TypeOK, DiscoveryTypeOK
<1>5. /\ verified \in BOOLEAN /\ effect \in {"none", "partly", "done"} /\ temp \in BOOLEAN
      /\ failed \in BOOLEAN /\ calls \in 0..MaxCalls /\ op \in Calls
      /\ mode \subseteq {"owner", "group", "others", "read"}
      /\ seen \in [Names -> SUBSET Entries(platform)] /\ moved \in BOOLEAN
  BY DEF Types, TypeOK, DiscoveryTypeOK, Calls
<1>6. verified' \in BOOLEAN
  <2>1. CASE Verify
    BY <1>5, <2>1 DEF Verify, Verified
  <2>2. CASE Trust
    BY <1>5, <2>2 DEF Trust, Verified
  <2>3. CASE ListChoices \/ Run \/ Shell
    BY <1>5, <2>3 DEF ListChoices, Run, Shell
  <2>. QED BY <2>1, <2>2, <2>3
<1>7. /\ effect' \in {"none", "partly", "done"} /\ temp' \in BOOLEAN /\ failed' \in BOOLEAN
      /\ \/ db' = db
         \/ db' = [db EXCEPT ![component.name] = Target]
         \/ /\ platform = "deb"
            /\ db' = [db EXCEPT ![component.name] =
                        [state |-> "partial", version |-> component.version]]
  BY <1>5 DEF Verify, Trust, ListChoices, Run, RemoveChoices, Shell, Nothing, AllOfIt, Half,
              Becomes, system, history
<1>8. db' \in [Names -> Entries(platform)]
  <2>1. Target \in Entries(platform)
    BY <1>4, EntriesType DEF Target
  <2>2. platform = "deb" =>
          [state |-> "partial", version |-> component.version] \in Entries(platform)
    BY <1>4, EntriesType
  <2>. QED BY <1>4, <1>7, <2>1, <2>2
<1>. QED BY <1>1, <1>2, <1>3, <1>5, <1>6, <1>7, <1>8, CallTypes

\* The calls about a path.
LEMMA PermissionsTypes == ASSUME Types, Permissions PROVE Types'
<1>1. CASE \E present \in BOOLEAN, m \in SUBSET {"owner", "group", "others", "read"} :
             \/ RestrictPathPermissionsToAdmins(present, m)
             \/ ApplyBultinUsersReadPermissions(present, m)
  <2>1. PICK present \in BOOLEAN, m \in SUBSET {"owner", "group", "others", "read"} :
          \E done \in BOOLEAN :
            \/ BeginPermissions("RestrictPathPermissionsToAdmins", present, m, done, "remove")
            \/ BeginPermissions("ApplyBultinUsersReadPermissions", present, m, done, "read")
    <3>1. PICK present \in BOOLEAN, m \in SUBSET {"owner", "group", "others", "read"} :
            \/ BeginPermissions("RestrictPathPermissionsToAdmins", present, m,
                                HasAdminRestrictions(m), "remove")
            \/ BeginPermissions("ApplyBultinUsersReadPermissions", present, m,
                                "read" \in m, "read")
      BY <1>1 DEF RestrictPathPermissionsToAdmins, ApplyBultinUsersReadPermissions
    <3>2. HasAdminRestrictions(m) \in BOOLEAN
      BY DEF HasAdminRestrictions
    <3>3. ("read" \in m) \in BOOLEAN
      OBVIOUS
    <3>. QED BY <3>1, <3>2, <3>3
  <2>2. PICK name \in Calls, done \in BOOLEAN, place \in {"remove", "read"} :
          BeginPermissions(name, present, m, done, place)
    BY <2>1 DEF Calls
  <2>3. /\ calls' \in 0..MaxCalls /\ op' = name
        /\ seen' \in [Names -> SUBSET Entries(platform)]
        /\ moved' = FALSE /\ failed' = FALSE
    BY <2>2, StartTypes DEF BeginPermissions
  <2>4. /\ component' = << >> /\ verified' = FALSE /\ effect' = "none" /\ temp' = FALSE
        /\ mode' = m
        /\ UNCHANGED <<platform, home, db, files, changes, position, inventory, cache>>
    BY <2>2 DEF BeginPermissions, NoComponent, UnchangedDiscovery
  <2>5. at' \in {"remove", "read", "idle"} /\ answer' \in Answers
    BY <2>2 DEF BeginPermissions, Answer, GoTo, Answers
  <2>6. db' \in [Names -> Entries(platform)]
    BY <2>4 DEF Types, TypeOK, DiscoveryTypeOK
  <2>7. at' \in Doing \cup {"idle"} /\ at' \notin Verifying \cup {"choices", "run", "shell"}
    BY <2>5 DEF Doing, Verifying
  <2>. QED BY <2>3, <2>4, <2>5, <2>6, <2>7, CallTypes
<1>2. CASE TakeFromOthers \/ GiveToOwner \/ LetRead
  <2>1. PICK newMode \in SUBSET {"owner", "group", "others", "read"}, fails \in BOOLEAN :
          Chmod(newMode, fails)
    <3>1. mode \subseteq {"owner", "group", "others", "read"}
      BY DEF Types, TypeOK
    <3>. QED BY <1>2, <3>1, FailsBoolean DEF TakeFromOthers, GiveToOwner, LetRead
  <2>2. at' \in {"add", "idle"} /\ answer' \in Answers
    BY <1>2 DEF TakeFromOthers, GiveToOwner, LetRead, Answer, GoTo, Answers
  <2>3. /\ UNCHANGED <<platform, home, db, files, changes, calls, op, component, verified,
                       effect, temp, seen, moved, position, inventory, cache>>
        /\ mode' \in {mode, newMode} /\ failed' = (failed \/ fails)
    BY <2>1 DEF Chmod, system, installation, UnchangedDiscovery
  <2>4. /\ component \in Components \cup {<< >>} /\ verified \in BOOLEAN
        /\ effect \in {"none", "partly", "done"} /\ temp \in BOOLEAN
        /\ failed \in BOOLEAN /\ calls \in 0..MaxCalls /\ op \in Calls
        /\ mode \subseteq {"owner", "group", "others", "read"}
        /\ db \in [Names -> Entries(platform)]
        /\ seen \in [Names -> SUBSET Entries(platform)] /\ moved \in BOOLEAN
    BY DEF Types, TypeOK, DiscoveryTypeOK, Calls
  <2>5. at' \in Doing \cup {"idle"} /\ at' \notin Verifying \cup {"choices", "run", "shell"}
    BY <2>2 DEF Doing, Verifying
  <2>6. failed' \in BOOLEAN /\ mode' \subseteq {"owner", "group", "others", "read"}
    BY <2>1, <2>3, <2>4
  <2>. QED BY <2>2, <2>3, <2>4, <2>5, <2>6, CallTypes
<1>. QED BY <1>1, <1>2 DEF Permissions

\* At first everything has its type.
LEMMA InitTypes == Init => Types
<1>. SUFFICES ASSUME Init PROVE Types
  OBVIOUS
<1>1. << >> \in Seq(Infos) /\ << >> \in Inventories /\ Len(<< >>) = 0
  BY DEF Inventories
<1>2. MaxVersion \in Nat \ {0} /\ MaxCalls \in Nat /\ MaxChanges \in Nat
  BY DiscoveryAssumption
<1>3. /\ db \in [Names -> Entries(platform)] /\ seen \in [Names -> SUBSET Entries(platform)]
      /\ files \subseteq {Paths[i] : i \in DOMAIN Paths}
  BY DEF Init, InitDiscovery
<1>4. rule \in 1..Len(catalog) + 1
  BY <1>1 DEF Init, InitDiscovery
<1>5. /\ platform \in Platforms /\ home \in Homes
      /\ at = "idle" /\ answer = "none" /\ catalog = << >> /\ configs = << >>
      /\ inventory = << >> /\ cache = << >> /\ changes = 0 /\ calls = 0 /\ listed = {}
      /\ version = 0 /\ moved = FALSE /\ failed = FALSE
  BY DEF Init, InitDiscovery
<1>6. DiscoveryTypeOK
  <2>1. changes \in 0..MaxChanges /\ calls \in 0..MaxCalls /\ version \in 0..MaxVersion
    BY <1>2, <1>5
  <2>2. /\ answer \in {"none", "0", "-1", "status", "throws"}
        /\ at \notin {"query", "deploy", "config"}
    BY <1>5
  <2>3. catalog \in Catalogs \cup {<< >>} /\ listed \subseteq Names
    BY <1>5
  <2>4. configs \in Seq(Infos) /\ inventory \in Inventories /\ cache \in Inventories
    BY <1>1, <1>5
  <2>5. moved \in BOOLEAN /\ failed \in BOOLEAN
    BY <1>5
  <2>. QED BY <1>3, <1>4, <1>5, <2>1, <2>2, <2>3, <2>4, <2>5 DEF DiscoveryTypeOK
<1>. QED BY <1>5, <1>6 DEF Types, TypeOK, ComponentInv, StageInv, Verifying, Init, InitDiscovery

\* What others do to packages and files keeps the types.
LEMMA OthersTypes ==
  ASSUME Types, OthersStep, UNCHANGED <<installation, mode>> PROVE Types'
<1>1. /\ changes \in 0..MaxChanges /\ MaxChanges \in Nat /\ Paths \in Seq(Seq(STRING))
      /\ db \in [Names -> Entries(platform)] /\ seen \in [Names -> SUBSET Entries(platform)]
      /\ files \subseteq {Paths[i] : i \in DOMAIN Paths} /\ moved \in BOOLEAN
  BY DiscoveryAssumption DEF Types, TypeOK, DiscoveryTypeOK
<1>2. /\ UNCHANGED <<platform, home, calls, op, at, answer, catalog, rule, id, listed, version,
                     conf, configs, inventory, cache, failed>>
      /\ changes < MaxChanges /\ changes' = changes + 1
  BY DEF OthersStep, ChangePackage, ChangeFile, position
<1>3. /\ db' \in [Names -> Entries(platform)] /\ seen' \in [Names -> SUBSET Entries(platform)]
      /\ files' \subseteq {Paths[i] : i \in DOMAIN Paths} /\ moved' \in BOOLEAN
  <2>1. CASE \E n \in Names : \E entry \in Entries(platform) : ChangePackage(n, entry)
    BY <1>1, <2>1 DEF ChangePackage
  <2>2. CASE \E i \in DOMAIN Paths : ChangeFile(Paths[i])
    BY <1>1, <2>2 DEF ChangeFile
  <2>. QED BY <2>1, <2>2 DEF OthersStep
<1>4. changes' \in 0..MaxChanges
  BY <1>1, <1>2
<1>5. Entries(platform)' = Entries(platform)
  BY <1>2
<1>6. \A r : Ids(r)' = Ids(r)
  BY <1>2 DEF Ids
<1>7. DiscoveryTypeOK'
  BY <1>2, <1>3, <1>4, <1>5, <1>6 DEF Types, TypeOK, DiscoveryTypeOK
<1>8. StageInv'
  BY <1>2 DEF Types, StageInv, HasCurrent, Current
<1>. QED BY <1>2, <1>7, <1>8 DEF Types, TypeOK, ComponentInv, installation

\* The position of a discovery is one in its catalog.
PositionOK ==
  /\ rule \in 1..Len(catalog) + 1
  /\ at \in {"query", "deploy", "config"} /\ rule <= Len(catalog) =>
       id \in 1..Len(Ids(catalog[rule])) + 1
  /\ at \in {"deploy", "config"} =>
       /\ rule <= Len(catalog) /\ id <= Len(Ids(catalog[rule]))
       /\ conf \in 1..Len(catalog[rule].configurables) + 1
       /\ platform # "macOS" => version # 0

\* What a step of a discovery changes must have its type.
LEMMA StepTypes ==
  ASSUME Types, UNCHANGED <<system, op, seen, moved, installation, mode, catalog>>,
         at' \in Discovering \cup {"idle"}, StageInv', answer' \in Answers, PositionOK',
         listed' \subseteq Names, version' \in 0..MaxVersion, configs' \in Seq(Infos),
         inventory' \in Inventories, cache' \in Inventories, failed' \in BOOLEAN
  PROVE Types'
<1>1. UNCHANGED <<platform, home, db, files, changes, calls, op, seen, moved, component,
                  verified, effect, temp, mode, catalog>>
  BY DEF system, installation
<1>2. Entries(platform)' = Entries(platform)
  BY <1>1
<1>3. DiscoveryTypeOK'
  BY <1>1, <1>2 DEF Types, TypeOK, DiscoveryTypeOK, Answers, PositionOK
<1>. QED BY <1>1, <1>3 DEF Types, TypeOK, ComponentInv, StageInv, Discovering, Verifying

\* A discovery begins with the first identifier of the first rule.
LEMMA GetInstalledPackagesTypes ==
  ASSUME Types, NEW c \in Catalogs, GetInstalledPackages(c), NoComponent, NoPath
  PROVE Types'
<1>1. /\ calls' \in 0..MaxCalls /\ op' = "GetInstalledPackages"
      /\ seen' \in [Names -> SUBSET Entries(platform)] /\ moved' = FALSE /\ failed' = FALSE
  BY StartTypes DEF GetInstalledPackages
<1>2. /\ at' \in {"list", "query"} /\ answer' = "none"
      /\ catalog' = c /\ rule' = 1 /\ id' = 1 /\ listed' = {} /\ version' = 0
      /\ configs' = << >> /\ inventory' = << >>
      /\ UNCHANGED <<platform, home, db, files, changes, cache>>
  BY DEF GetInstalledPackages
<1>3. << >> \in Seq(Infos) /\ << >> \in Inventories
  BY DEF Inventories
<1>4. MaxVersion \in Nat \ {0} /\ c \in Seq(Rules) /\ Len(c) \in Nat
  <2>1. c \in Seq(Rules)
    BY DiscoveryAssumption
  <2>. QED BY <2>1, DiscoveryAssumption
<1>5. rule' \in 1..Len(catalog') + 1
  BY <1>2, <1>4
<1>6. rule' <= Len(catalog') => id' \in 1..Len(Ids(catalog[rule])') + 1
  <2>1. SUFFICES ASSUME 1 <= Len(c) PROVE 1 \in 1..Len(Ids(c[1])) + 1
    <3>1. \A r : Ids(r)' = Ids(r)
      BY <1>2 DEF Ids
    <3>. QED BY <1>2, <3>1
  <2>2. c[1] \in Rules
    BY <1>4, <2>1
  <2>3. Ids(c[1]) \in Seq(Identifiers)
    BY <2>2, IdsType
  <2>. QED BY <2>3
<1>7. DiscoveryTypeOK'
  <2>1. Entries(platform)' = Entries(platform)
    BY <1>2
  <2>2. version' \in 0..MaxVersion /\ listed' \subseteq Names
    BY <1>2, <1>4
  <2>3. at' \notin {"deploy", "config"}
    BY <1>2
  <2>. QED BY <1>1, <1>2, <1>3, <1>5, <1>6, <2>1, <2>2, <2>3 DEF Types, TypeOK, DiscoveryTypeOK
<1>. QED BY <1>1, <1>2, <1>7
  DEF Types, TypeOK, ComponentInv, StageInv, Verifying, NoComponent, NoPath

\* What is left of the files found is the first of them and those up to the limit.
LEMMA LimitedIs ==
  ASSUME NEW S, NEW s \in Seq(S), NEW limit \in Nat
  PROVE /\ Limited(s, limit) \in Seq(S)
        /\ DOMAIN Limited(s, limit) = {i \in DOMAIN s : i = 1 \/ i <= limit}
        /\ \A i \in DOMAIN Limited(s, limit) : Limited(s, limit)[i] = s[i]
<1>1. CASE Len(s) > limit
  <2>. DEFINE n == IF limit = 0 THEN 1 ELSE limit
  <2>1. n \in 1..Len(s) /\ Len(s) \in Nat /\ DOMAIN s = 1..Len(s)
    BY <1>1
  <2>2. Limited(s, limit) = SubSeq(s, 1, n)
    BY <1>1 DEF Limited
  <2>3. \A i \in DOMAIN s : i <= n <=> i = 1 \/ i <= limit
    BY <2>1
  <2>. HIDE DEF n
  <2>4. \A i \in 1..n : s[i] \in S
    BY <2>1
  <2>5. SubSeq(s, 1, n) = [i \in 1..n |-> s[i]]
    BY <2>1
  <2>6. SubSeq(s, 1, n) \in Seq(S)
    BY <2>1, <2>4, SubSeqProperties
  <2>. QED BY <2>1, <2>2, <2>3, <2>5, <2>6
<1>2. CASE Len(s) <= limit
  BY <1>2 DEF Limited
<1>3. Len(s) \in Nat
  OBVIOUS
<1>. QED BY <1>1, <1>2, <1>3

\* What is added to the files of a package are such files.
LEMMA AddType ==
  ASSUME configs \in Seq(Infos), Paths \in Seq(Seq(STRING)), NEW c \in Configurables, NEW path,
         NEW isDeployPath, Add(c, path, isDeployPath)
  PROVE configs' \in Seq(Infos)
<1>. DEFINE found == Limited(Search(ResolvePath(path)), c.max_instances)
            infos == [i \in DOMAIN found |-> [file |-> found[i], isDeployPath |-> isDeployPath,
                                              path |-> Reported(path, found[i])]]
            new == {info \in Infos : \A j \in DOMAIN configs : configs[j].file # info.file}
            S == {infos[i] : i \in DOMAIN infos}
            added == Among(infos, new)
<1>1. configs' = configs \o added
  BY DEF Add
<1>2. found \in Seq(Seq(STRING))
  <2>. DEFINE s == Search(ResolvePath(path))
  <2>1. s \in Seq(Seq(STRING))
    <3>. DEFINE A == {p \in files : Matches(ResolvePath(path), p)}
    <3>1. s = Among(Paths, A)
      BY DEF Search
    <3>. HIDE DEF A, s
    <3>2. s \in Seq(Seq(STRING) \cap A)
      BY <3>1, AmongProps
    <3>. QED BY <3>2
  <2>2. found = Limited(s, c.max_instances) /\ c.max_instances \in Nat
    BY DEF Configurables
  <2>. HIDE DEF s, found
  <2>. QED BY <2>1, <2>2, LimitedIs
<1>. HIDE DEF found
<1>3. infos \in Seq(S) /\ new \subseteq Infos
  BY <1>2
<1>. HIDE DEF infos, S, new
<1>4. added \in Seq(S \cap new)
  BY <1>3, AmongProps
<1>. HIDE DEF added
<1>5. added \in Seq(Infos)
  BY <1>3, <1>4
<1>. QED BY <1>1, <1>5

\* What is known of a discovery's position before its next step.
LEMMA PositionType ==
  ASSUME Types
  PROVE /\ PositionOK /\ rule \in Nat /\ Len(catalog) \in Nat
        /\ \A r \in 1..Len(catalog) :
             /\ catalog[r] \in Rules /\ Ids(catalog[r]) \in Seq(Identifiers)
             /\ Len(Ids(catalog[r])) \in Nat
             /\ DOMAIN Ids(catalog[r]) = 1..Len(Ids(catalog[r]))
             /\ catalog[r].configurables \in Seq(Configurables)
             /\ Len(catalog[r].configurables) \in Nat
             /\ catalog[r].product \in STRING
        /\ at \in {"query", "deploy", "config"} /\ rule <= Len(catalog) =>
             rule \in 1..Len(catalog) /\ id \in Nat \ {0}
        /\ at \in {"deploy", "config"} =>
             /\ rule \in 1..Len(catalog) /\ id \in 1..Len(Ids(catalog[rule]))
             /\ conf \in Nat \ {0}
<1>1. PositionOK /\ catalog \in Catalogs \cup {<< >>}
  BY DEF Types, TypeOK, DiscoveryTypeOK, PositionOK
<1>2. /\ catalog \in Seq(Rules) /\ Len(catalog) \in Nat
      /\ \A r \in 1..Len(catalog) : catalog[r] \in Rules
  BY <1>1, RuleType
<1>3. ASSUME NEW r \in 1..Len(catalog)
      PROVE /\ catalog[r] \in Rules /\ Ids(catalog[r]) \in Seq(Identifiers)
            /\ Len(Ids(catalog[r])) \in Nat
            /\ DOMAIN Ids(catalog[r]) = 1..Len(Ids(catalog[r]))
            /\ catalog[r].configurables \in Seq(Configurables)
            /\ Len(catalog[r].configurables) \in Nat
            /\ catalog[r].product \in STRING
  <2>1. catalog[r] \in Rules
    BY <1>2
  <2>2. Ids(catalog[r]) \in Seq(Identifiers)
    BY <2>1, IdsType
  <2>3. catalog[r].configurables \in Seq(Configurables) /\ catalog[r].product \in STRING
    BY <2>1 DEF Rules
  <2>. QED BY <2>1, <2>2, <2>3
<1>4. rule \in Nat
  BY <1>1, <1>2 DEF PositionOK
<1>5. at \in {"query", "deploy", "config"} /\ rule <= Len(catalog) =>
        rule \in 1..Len(catalog) /\ id \in Nat \ {0}
  BY <1>1, <1>2, <1>3 DEF PositionOK
<1>6. at \in {"deploy", "config"} =>
        /\ rule \in 1..Len(catalog) /\ id \in 1..Len(Ids(catalog[rule]))
        /\ conf \in Nat \ {0}
  <2>1. SUFFICES ASSUME at \in {"deploy", "config"}
                 PROVE /\ rule \in 1..Len(catalog) /\ id \in 1..Len(Ids(catalog[rule]))
                       /\ conf \in Nat \ {0}
    OBVIOUS
  <2>2. rule \in 1..Len(catalog)
    BY <1>1, <1>2, <2>1 DEF PositionOK
  <2>3. /\ id \in 1..Len(Ids(catalog[rule])) + 1 /\ id <= Len(Ids(catalog[rule]))
        /\ conf \in 1..Len(catalog[rule].configurables) + 1
    BY <1>1, <2>1, <2>2 DEF PositionOK
  <2>. QED BY <1>3, <2>2, <2>3
<1>. QED BY <1>1, <1>2, <1>3, <1>4, <1>5, <1>6

\* The version a package manager shows is one.
LEMMA VersionType ==
  ASSUME Types, NEW i \in Identifiers
  PROVE VersionOf(i, db[i.name]) \in 0..MaxVersion
<1>1. db[i.name] \in Entries(platform) /\ MaxVersion \in Nat \ {0}
  BY DiscoveryAssumption DEF Types, TypeOK, DiscoveryTypeOK, Identifiers
<1>2. db[i.name].version \in 0..MaxVersion
  BY <1>1, EntriesType
<1>. QED BY <1>1, <1>2 DEF VersionOf

\* Each step of a discovery keeps the types.
LEMMA DiscoveryTypes ==
  ASSUME Types, failed \in BOOLEAN, DiscoveryStep, UNCHANGED <<installation, mode>>
  PROVE Types'
<1>1. /\ UNCHANGED <<system, op, seen, moved, catalog>>
      /\ at' \in Discovering \cup {"idle"} /\ StageInv' /\ failed' \in BOOLEAN
  <2>1. UNCHANGED <<system, op, seen, moved, catalog>>
    BY DEF DiscoveryStep, ListPackages, PassOver, Query, NextRule, Finish, SearchDeployPath,
           SearchConfigPath, AddPackage, history, position, Throw
  <2>2. at' # "list"
    BY DEF DiscoveryStep, ListPackages, PassOver, Query, NextRule, Finish, SearchDeployPath,
           SearchConfigPath, AddPackage, AtIdentifier, Throw
  <2>3. at' = "config" => (HasCurrent /\ Current.deployPath # << >>)'
    <3>1. SUFFICES ASSUME at' = "config"
                   PROVE (HasCurrent /\ Current.deployPath # << >>)'
      OBVIOUS
    <3>2. SearchDeployPath /\ at' # "deploy"
      BY <3>1 DEF DiscoveryStep, ListPackages, PassOver, Query, NextRule, Finish, Throw,
                  SearchDeployPath, SearchConfigPath, AddPackage, AtIdentifier
    <3>3. /\ HasCurrent /\ Current.deployPath # << >>
          /\ UNCHANGED <<catalog, rule, conf>>
      BY <3>2 DEF SearchDeployPath
    <3>. QED BY <3>3 DEF HasCurrent, Current
  <2>. QED BY <2>1, <2>2, <2>3, DiscoveryStays DEF StageInv
<1>2. /\ answer \in Answers /\ listed \subseteq Names /\ version \in 0..MaxVersion
      /\ configs \in Seq(Infos) /\ inventory \in Inventories /\ cache \in Inventories
      /\ Paths \in Seq(Seq(STRING)) /\ MaxVersion \in Nat \ {0}
      /\ rule \in 1..Len(catalog) + 1 /\ PositionOK
  BY DiscoveryAssumption DEF Types, TypeOK, DiscoveryTypeOK, Answers, PositionOK
<1>3. << >> \in Seq(Infos) /\ << >> \in Inventories
  BY DEF Inventories
<1>4. \A r : Ids(r)' = Ids(r)
  BY <1>1 DEF Ids, system
<1>5. UNCHANGED <<platform, catalog>>
  BY <1>1 DEF system
<1>6. CASE ListPackages
  <2>1. PICK fails \in Fails("query") :
          \/ Throw
          \/ /\ at' = "query"
             /\ listed' = IF fails THEN {} ELSE {n \in Names : db[n] # Absent}
             /\ UNCHANGED <<answer, catalog, rule, id, version, conf, configs,
                            inventory, cache>>
    BY <1>6 DEF ListPackages
  <2>2. CASE Throw
    <3>1. /\ at' = "idle" /\ answer' = "-1" /\ inventory' = << >>
          /\ UNCHANGED <<rule, listed, version, configs, cache>>
      BY <2>2 DEF Throw, position
    <3>2. PositionOK'
      BY <1>2, <1>5, <3>1 DEF PositionOK
    <3>. QED BY <1>1, <1>2, <1>3, <3>1, <3>2, StepTypes DEF Answers
  <2>3. CASE ~Throw
    <3>1. /\ at' = "query" /\ listed' \subseteq Names /\ rule = 1 /\ id = 1
          /\ UNCHANGED <<answer, rule, id, version, configs, inventory, cache>>
      BY <1>6, <2>1, <2>3 DEF ListPackages, Types, StageInv
    <3>2. rule <= Len(catalog) => 1 \in 1..Len(Ids(catalog[rule])) + 1
      BY <1>2, <3>1, PositionType
    <3>3. PositionOK'
      BY <1>2, <1>4, <1>5, <3>1, <3>2 DEF PositionOK
    <3>. QED BY <1>1, <1>2, <1>3, <3>1, <3>3, StepTypes
  <2>. QED BY <2>2, <2>3
<1>7. CASE PassOver
  <2>1. /\ at = "query" /\ at' = "query" /\ rule <= Len(catalog)
        /\ id <= Len(Ids(catalog[rule])) /\ id' = id + 1
        /\ UNCHANGED <<answer, rule, listed, version, configs, inventory, cache>>
    BY <1>7 DEF PassOver, AtIdentifier
  <2>2. rule \in 1..Len(catalog) /\ id \in Nat \ {0} /\ Len(Ids(catalog[rule])) \in Nat
    BY <2>1, PositionType
  <2>3. id' \in 1..Len(Ids(catalog[rule])) + 1
    BY <2>1, <2>2
  <2>4. PositionOK'
    BY <1>2, <1>4, <1>5, <2>1, <2>3 DEF PositionOK
  <2>. QED BY <1>1, <1>2, <2>1, <2>4, StepTypes
<1>8. CASE Query
  <2>. DEFINE i == Ids(catalog[rule])[id]
  <2>1. at = "query" /\ rule <= Len(catalog) /\ id <= Len(Ids(catalog[rule]))
    BY <1>8 DEF Query, AtIdentifier
  <2>2. /\ rule \in 1..Len(catalog) /\ id \in Nat \ {0} /\ Len(Ids(catalog[rule])) \in Nat
        /\ Ids(catalog[rule]) \in Seq(Identifiers)
        /\ Len(catalog[rule].configurables) \in Nat
    BY <2>1, PositionType
  <2>3. i \in Identifiers
    BY <2>1, <2>2
  <2>4. VersionOf(i, db[i.name]) \in 0..MaxVersion
    BY <2>3, VersionType
  <2>. HIDE DEF i
  <2>5. PICK fails \in Fails("query") :
          \/ Throw
          \/ LET v == IF fails THEN 0 ELSE VersionOf(i, db[i.name]) IN
             /\ IF IsFound(catalog[rule].product) \/ (v = 0 /\ platform # "macOS")
                THEN id' = id + 1 /\ UNCHANGED <<at, version, conf, configs>>
                ELSE /\ at' = "deploy" /\ version' = v /\ conf' = 1 /\ configs' = << >>
                     /\ id' = id
             /\ UNCHANGED <<answer, catalog, rule, listed, inventory, cache>>
    BY <1>8 DEF Query, i
  <2>6. CASE Throw
    <3>1. /\ at' = "idle" /\ answer' = "-1" /\ inventory' = << >>
          /\ UNCHANGED <<rule, listed, version, configs, cache>>
      BY <2>6 DEF Throw, position
    <3>2. PositionOK'
      BY <1>2, <1>5, <3>1 DEF PositionOK
    <3>. QED BY <1>1, <1>2, <1>3, <3>1, <3>2, StepTypes DEF Answers
  <2>7. CASE ~Throw
    <3>. DEFINE v == IF fails THEN 0 ELSE VersionOf(i, db[i.name])
    <3>1. v \in 0..MaxVersion
      BY <1>2, <2>4
    <3>. HIDE DEF v
    <3>2. /\ UNCHANGED <<answer, rule, listed, inventory, cache>>
          /\ \/ /\ id' = id + 1 /\ at' = "query" /\ UNCHANGED <<version, configs>>
             \/ /\ at' = "deploy" /\ version' = v /\ conf' = 1 /\ configs' = << >> /\ id' = id
                /\ platform # "macOS" => v # 0
      BY <2>1, <2>5, <2>7 DEF v
    <3>3. id' \in 1..Len(Ids(catalog[rule])) + 1
      BY <2>1, <2>2, <3>2
    <3>4. PositionOK'
      <4>1. CASE at' = "query"
        BY <1>2, <1>4, <1>5, <3>2, <3>3, <4>1 DEF PositionOK
      <4>2. CASE at' = "deploy"
        <5>1. conf' \in 1..Len(catalog[rule].configurables) + 1
          BY <2>2, <3>2, <4>2
        <5>2. id' <= Len(Ids(catalog[rule])) /\ (platform # "macOS" => version' # 0)
          BY <2>1, <3>2, <4>2
        <5>. QED BY <1>2, <1>4, <1>5, <2>1, <3>2, <3>3, <4>2, <5>1, <5>2 DEF PositionOK
      <4>. QED BY <3>2, <4>1, <4>2
    <3>. QED BY <1>1, <1>2, <1>3, <3>1, <3>2, <3>4, StepTypes
  <2>. QED BY <2>6, <2>7
<1>9. CASE NextRule
  <2>1. /\ at = "query" /\ at' = "query" /\ rule <= Len(catalog)
        /\ rule' = rule + 1 /\ id' = 1
        /\ UNCHANGED <<answer, listed, version, configs, inventory, cache>>
    BY <1>9 DEF NextRule
  <2>2. rule \in Nat /\ Len(catalog) \in Nat /\ rule' \in 1..Len(catalog) + 1
    BY <1>2, <2>1, PositionType
  <2>3. rule' <= Len(catalog) => id' \in 1..Len(Ids(catalog[rule'])) + 1
    <3>1. SUFFICES ASSUME rule' <= Len(catalog)
                   PROVE id' \in 1..Len(Ids(catalog[rule'])) + 1
      OBVIOUS
    <3>2. rule' \in 1..Len(catalog)
      BY <2>2, <3>1
    <3>. DEFINE n == Len(Ids(catalog[rule']))
    <3>3. n \in Nat
      BY <3>2, PositionType
    <3>. HIDE DEF n
    <3>4. id' \in 1..n + 1
      BY <2>1, <3>3
    <3>. QED BY <3>4 DEF n
  <2>4. PositionOK'
    BY <1>2, <1>4, <1>5, <2>1, <2>2, <2>3 DEF PositionOK
  <2>. QED BY <1>1, <1>2, <2>1, <2>4, StepTypes
<1>10. CASE Finish
  <2>1. /\ at' = "idle" /\ answer' = "0" /\ cache' = inventory
        /\ UNCHANGED <<rule, listed, version, configs, inventory>>
    BY <1>10 DEF Finish, position
  <2>2. PositionOK'
    BY <1>2, <1>5, <2>1 DEF PositionOK
  <2>. QED BY <1>1, <1>2, <2>1, <2>2, StepTypes DEF Answers
<1>11. CASE SearchDeployPath \/ SearchConfigPath
  <2>1. /\ at \in {"deploy", "config"} /\ at' \in {"deploy", "config"} /\ HasCurrent
        /\ UNCHANGED <<answer, rule, id, listed, version, inventory, cache>>
        /\ \/ /\ conf' = conf + 1
              /\ \E path, isDeployPath : Add(Current, path, isDeployPath)
           \/ UNCHANGED <<conf, configs>>
    BY <1>11 DEF SearchDeployPath, SearchConfigPath, Types, StageInv
  <2>2. /\ conf \in 1..Len(catalog[rule].configurables) /\ rule \in 1..Len(catalog)
        /\ Len(catalog[rule].configurables) \in Nat /\ Current \in Configurables
    <3>1. /\ rule \in 1..Len(catalog) /\ conf \in Nat \ {0}
          /\ Len(catalog[rule].configurables) \in Nat
          /\ catalog[rule].configurables \in Seq(Configurables)
      BY <2>1, PositionType
    <3>. QED BY <2>1, <3>1 DEF HasCurrent, Current
  <2>3. configs' \in Seq(Infos)
    <3>1. CASE \E path, isDeployPath : Add(Current, path, isDeployPath)
      <4>. DEFINE c == Current
      <4>1. PICK path, isDeployPath : Add(c, path, isDeployPath)
        BY <3>1
      <4>2. c \in Configurables
        BY <2>2
      <4>. HIDE DEF c
      <4>. QED BY <1>2, <4>1, <4>2, AddType
    <3>2. CASE UNCHANGED configs
      BY <1>2, <3>2
    <3>. QED BY <2>1, <3>1, <3>2
  <2>4. conf' \in 1..Len(catalog[rule].configurables) + 1
    BY <2>1, <2>2
  <2>5. PositionOK'
    BY <1>2, <1>4, <1>5, <2>1, <2>4 DEF PositionOK
  <2>. QED BY <1>1, <1>2, <2>1, <2>3, <2>5, StepTypes
<1>12. CASE AddPackage
  <2>1. /\ at = "deploy" /\ at' = "query" /\ id' = id + 1
        /\ inventory' = Append(inventory, [product |-> catalog[rule].product,
                                           version |-> version, configs |-> configs])
        /\ version' = 0 /\ configs' = << >>
        /\ UNCHANGED <<answer, rule, listed, cache>>
    BY <1>12 DEF AddPackage
  <2>2. /\ rule \in 1..Len(catalog) /\ id \in 1..Len(Ids(catalog[rule]))
        /\ Len(Ids(catalog[rule])) \in Nat /\ catalog[rule].product \in STRING
    BY <2>1, PositionType
  <2>3. inventory' \in Inventories
    <3>. DEFINE T == [product : STRING, version : 0..MaxVersion, configs : Seq(Infos)]
                p == [product |-> catalog[rule].product, version |-> version,
                      configs |-> configs]
    <3>1. p \in T /\ inventory \in Seq(T) /\ inventory' = Append(inventory, p)
      BY <1>2, <2>1, <2>2 DEF Inventories
    <3>. HIDE DEF p, T
    <3>2. inventory' \in Seq(T)
      BY <3>1
    <3>. QED BY <3>2 DEF T, Inventories
  <2>4. id' \in 1..Len(Ids(catalog[rule])) + 1
    BY <2>1, <2>2
  <2>5. PositionOK'
    BY <1>2, <1>4, <1>5, <2>1, <2>2, <2>4 DEF PositionOK
  <2>6. version' \in 0..MaxVersion
    BY <1>2, <2>1
  <2>. QED BY <1>1, <1>2, <1>3, <2>1, <2>3, <2>5, <2>6, StepTypes
<1>. QED BY <1>6, <1>7, <1>8, <1>9, <1>10, <1>11, <1>12 DEF DiscoveryStep

\* Every state of every call has its type, and which call and which step it is at
\* agree.
THEOREM TypesCorrect == Spec => []Types
<1>1. Init => Types
  BY InitTypes
<1>2. CallInv /\ Types /\ [Next]_vars => Types'
  <2>. SUFFICES ASSUME CallInv, Types, [Next]_vars PROVE Types'
    OBVIOUS
  <2>1. CASE \E c \in Catalogs : GetInstalledPackages(c) /\ NoComponent /\ NoPath
    BY <2>1, GetInstalledPackagesTypes
  <2>2. CASE DiscoveryStep /\ UNCHANGED <<installation, mode>>
    BY <2>2, DiscoveryTypes DEF CallInv, Flags
  <2>3. CASE Installation
    BY <2>3, BeginTypes, InstallationTypes DEF Installation
  <2>4. CASE Permissions
    BY <2>4, PermissionsTypes
  <2>5. CASE OthersStep /\ UNCHANGED <<installation, mode>>
    BY <2>5, OthersTypes
  <2>6. CASE UNCHANGED vars
    <3>1. UNCHANGED <<system, op, at, answer, position, inventory, cache, history,
                      installation, mode>>
      BY <2>6 DEF vars, discoveryVars
    <3>2. \A r : Ids(r)' = Ids(r)
      BY <3>1 DEF Ids, system
    <3>. QED BY <3>1, <3>2
      DEF Types, TypeOK, DiscoveryTypeOK, ComponentInv, StageInv, HasCurrent, Current,
          Entries, system, position, history, installation
  <2>. QED BY <2>1, <2>2, <2>3, <2>4, <2>5, <2>6 DEF Next, Discover
<1>. QED BY <1>1, <1>2, CallCorrect, PTL DEF Spec

\* Whatever platform it is, whatever is installed and whatever others do meanwhile,
\* every variable has its type: a discovery never leaves its catalog, and on Linux
\* no package without a version is taken for installed.
THEOREM ComponentManagerTypeOK == Spec => []TypeOK
<1>1. Types => TypeOK
  BY DEF Types
<1>. QED BY <1>1, TypesCorrect, PTL

-------------------------------------------------------------------------------
(* Which packages a discovery finds *)

\* What DiscoveredWasThere asks for: an identifier has been in the database.
WasThere(i, v) ==
  \/ /\ \E e \in seen[i.name] : e # Absent /\ e.version = v
     /\ i.type = "NVRA" => i.version = v
  \/ platform = "macOS" /\ v = 0 /\ (failed \/ Absent \in seen[i.name])

Justified(product, v) ==
  \E r \in DOMAIN catalog :
    /\ catalog[r].product = product
    /\ \E j \in DOMAIN Ids(catalog[r]) : WasThere(Ids(catalog[r])[j], v)

\* An identifier that need not be found.
Excused(i) ==
  \/ Absent \in seen[i.name]
  \/ i.type = "NVRA" /\ ~(platform = "rpm" /\ \A e \in seen[i.name] : e.version = i.version)

\* What is in the database is remembered, and on macOS, once the list is made, that
\* what is not in it was not there.
SeenInv ==
  /\ at # "idle" => \A n \in Names : db[n] \in seen[n]
  /\ platform = "macOS" /\ at # "list" /\ ~failed =>
       \A n \in Names \ listed : Absent \in seen[n]

\* Each package of the inventory was there, and its product is in it once; the same
\* will be true of the one about to be added.
InventoryInv ==
  /\ \A k \in DOMAIN inventory : Justified(inventory[k].product, inventory[k].version)
  /\ \A k, l \in DOMAIN inventory : inventory[l].product = inventory[k].product => l = k
  /\ at \in {"deploy", "config"} =>
       WasThere(Ids(catalog[rule])[id], version) /\ ~IsFound(catalog[rule].product)

\* Each identifier passed need not be found, or its product is.
PassedInv ==
  /\ ~failed =>
       \A r \in DOMAIN catalog : \A j \in DOMAIN Ids(catalog[r]) :
         r < rule \/ (r = rule /\ j < id) =>
           Excused(Ids(catalog[r])[j]) \/ IsFound(catalog[r].product)
  /\ at = "idle" /\ answer = "0" => rule = Len(catalog) + 1

DiscoveryInv == op = "GetInstalledPackages" => SeenInv /\ InventoryInv /\ PassedInv

\* What was in the database stays remembered, and so does a failure.
LEMMA Remembered ==
  ASSUME UNCHANGED platform, \A n \in Names : seen[n] \subseteq seen'[n], failed => failed'
  PROVE /\ \A i \in Identifiers : \A v : WasThere(i, v) => WasThere(i, v)'
        /\ \A i \in Identifiers : Excused(i) => Excused(i)'
BY DEF WasThere, Excused, Identifiers

\* An identifier found in a version was in the database in this version.
LEMMA QueryFinds ==
  ASSUME Types, \A n \in Names : db[n] \in seen[n],
         NEW i \in Identifiers, platform = "macOS" => i.type = "PKGUTIL",
         VersionOf(i, db[i.name]) # 0 \/ platform = "macOS"
  PROVE WasThere(i, VersionOf(i, db[i.name]))
<1>. DEFINE e == db[i.name]
            v == VersionOf(i, e)
<1>1. e \in seen[i.name] /\ e \in Entries(platform)
  BY DEF Types, TypeOK, DiscoveryTypeOK, Identifiers
<1>. HIDE DEF e
<1>2. e.version = 0 <=> e = Absent
  BY <1>1, EntriesType
<1>3. CASE v # 0
  <2>1. v = e.version /\ e # Absent /\ (i.type = "NVRA" => i.version = v)
    BY <1>2, <1>3 DEF VersionOf
  <2>. QED BY <1>1, <2>1 DEF WasThere, e
<1>4. CASE v = 0
  <2>1. platform = "macOS" /\ i.type # "NVRA"
    BY <1>4 DEF e
  <2>2. Absent \in seen[i.name]
    BY <1>1, <1>2, <1>4, <2>1 DEF VersionOf
  <2>. QED BY <1>4, <2>1, <2>2 DEF WasThere, e
<1>. QED BY <1>3, <1>4

\* An identifier that is not found, though the query has not failed, need not be.
LEMMA QueryMisses ==
  ASSUME Types, \A n \in Names : db[n] \in seen[n],
         NEW i \in Identifiers, platform # "macOS", VersionOf(i, db[i.name]) = 0
  PROVE Excused(i)
<1>. DEFINE e == db[i.name]
<1>1. e \in seen[i.name] /\ e \in Entries(platform)
  BY DEF Types, TypeOK, DiscoveryTypeOK, Identifiers
<1>. HIDE DEF e
<1>2. e.version = 0 <=> e = Absent
  BY <1>1, EntriesType
<1>3. VersionOf(i, e) = 0
  BY DEF e
<1>4. CASE i.type = "NVRA" /\ (platform = "deb" \/ e.version # i.version)
  BY <1>1, <1>4 DEF Excused
<1>5. CASE ~(i.type = "NVRA" /\ (platform = "deb" \/ e.version # i.version))
  BY <1>1, <1>2, <1>3, <1>5 DEF Excused, VersionOf
<1>. QED BY <1>4, <1>5

\* A discovery begins with nothing found and nothing passed.
LEMMA DiscoveryBegins ==
  ASSUME Types, NEW c \in Catalogs, GetInstalledPackages(c) PROVE DiscoveryInv'
<1>1. /\ at' = (IF platform = "macOS" THEN "list" ELSE "query") /\ UNCHANGED <<platform, db>>
      /\ catalog' = c /\ rule' = 1 /\ id' = 1 /\ inventory' = << >>
      /\ seen' = [n \in Names |-> {db[n]}] /\ failed' = FALSE
  BY DEF GetInstalledPackages, Start
<1>2. SeenInv'
  BY <1>1 DEF SeenInv
<1>3. InventoryInv'
  <2>1. DOMAIN inventory' = {} /\ at' \notin {"deploy", "config"}
    BY <1>1
  <2>. QED BY <2>1 DEF InventoryInv
<1>4. PassedInv'
  <2>1. c \in Seq(Rules)
    BY DiscoveryAssumption
  <2>2. ASSUME NEW r \in DOMAIN c, NEW j \in DOMAIN Ids(c[r]) PROVE ~(r < 1) /\ ~(j < 1)
    <3>1. c[r] \in Rules /\ r \in 1..Len(c)
      BY <2>1
    <3>2. Ids(c[r]) \in Seq(Identifiers)
      BY <3>1, IdsType
    <3>. QED BY <3>1, <3>2
  <2>3. \A r : Ids(r)' = Ids(r)
    BY <1>1 DEF Ids
  <2>. QED BY <1>1, <2>2, <2>3 DEF PassedInv
<1>. QED BY <1>2, <1>3, <1>4 DEF DiscoveryInv

\* Within a call, whatever else happens, what was justified or excused remains so.
LEMMA DiscoveryRemembers ==
  ASSUME Types, UNCHANGED <<platform, catalog>>,
         \A n \in Names : seen[n] \subseteq seen'[n], failed => failed'
  PROVE /\ \A r : Ids(r)' = Ids(r)
        /\ \A i \in Identifiers : \A v : WasThere(i, v) => WasThere(i, v)'
        /\ \A p, v : Justified(p, v) => Justified(p, v)'
        /\ \A r \in DOMAIN catalog : \A j \in DOMAIN Ids(catalog[r]) :
             /\ Ids(catalog[r])[j] \in Identifiers
             /\ Excused(Ids(catalog[r])[j]) => Excused(Ids(catalog[r])[j])'
<1>1. \A r : Ids(r)' = Ids(r)
  BY DEF Ids
<1>2. /\ \A i \in Identifiers : \A v : WasThere(i, v) => WasThere(i, v)'
      /\ \A i \in Identifiers : Excused(i) => Excused(i)'
  BY Remembered
<1>3. ASSUME NEW r \in DOMAIN catalog, NEW j \in DOMAIN Ids(catalog[r])
      PROVE Ids(catalog[r])[j] \in Identifiers
  <2>1. catalog \in Catalogs \cup {<< >>}
    BY DEF Types, TypeOK, DiscoveryTypeOK
  <2>2. r \in 1..Len(catalog)
    BY <2>1, RuleType
  <2>3. Ids(catalog[r]) \in Seq(Identifiers)
    BY <2>2, PositionType
  <2>. QED BY <2>3
<1>4. ASSUME NEW p, NEW v, Justified(p, v) PROVE Justified(p, v)'
  <2>1. PICK r \in DOMAIN catalog :
          /\ catalog[r].product = p
          /\ \E j \in DOMAIN Ids(catalog[r]) : WasThere(Ids(catalog[r])[j], v)
    BY <1>4 DEF Justified
  <2>2. PICK j \in DOMAIN Ids(catalog[r]) : WasThere(Ids(catalog[r])[j], v)
    BY <2>1
  <2>3. PICK i \in Identifiers : i = Ids(catalog[r])[j]
    BY <1>3
  <2>4. WasThere(i, v)'
    BY <1>2, <2>2, <2>3
  <2>. QED BY <1>1, <2>1, <2>3, <2>4 DEF Justified
<1>5. ASSUME NEW r \in DOMAIN catalog, NEW j \in DOMAIN Ids(catalog[r]),
             Excused(Ids(catalog[r])[j])
      PROVE Excused(Ids(catalog[r])[j])'
  <2>1. PICK i \in Identifiers : i = Ids(catalog[r])[j]
    BY <1>3
  <2>2. Excused(i)'
    BY <1>2, <1>5, <2>1
  <2>3. i = Ids(catalog[r])[j]'
    BY <1>1, <2>1
  <2>. QED BY <2>2, <2>3
<1>. QED BY <1>1, <1>2, <1>3, <1>4, <1>5

\* If the inventory and the position stay, so does what is known of them.
LEMMA InventoryStays ==
  ASSUME Types, InventoryInv, UNCHANGED <<platform, catalog, inventory>>,
         \A n \in Names : seen[n] \subseteq seen'[n], failed => failed',
         \/ at' \notin {"deploy", "config"}
         \/ at \in {"deploy", "config"} /\ UNCHANGED <<rule, id, version>>
  PROVE InventoryInv'
<1>1. /\ \A r : Ids(r)' = Ids(r)
      /\ \A i \in Identifiers : \A v : WasThere(i, v) => WasThere(i, v)'
      /\ \A p, v : Justified(p, v) => Justified(p, v)'
  BY DiscoveryRemembers
<1>2. \A k \in DOMAIN inventory : Justified(inventory[k].product, inventory[k].version)'
  BY <1>1 DEF InventoryInv
<1>3. ASSUME at' \in {"deploy", "config"}
      PROVE (WasThere(Ids(catalog[rule])[id], version) /\ ~IsFound(catalog[rule].product))'
  <2>1. at \in {"deploy", "config"} /\ UNCHANGED <<rule, id, version>>
    BY <1>3
  <2>2. /\ rule \in 1..Len(catalog) /\ id \in 1..Len(Ids(catalog[rule]))
        /\ Ids(catalog[rule]) \in Seq(Identifiers)
    BY <2>1, PositionType
  <2>3. PICK i \in Identifiers : i = Ids(catalog[rule])[id]
    BY <2>2
  <2>4. WasThere(i, version) /\ ~IsFound(catalog[rule].product)
    BY <2>1, <2>3 DEF InventoryInv
  <2>5. PICK v : v = version
    OBVIOUS
  <2>6. WasThere(i, v)'
    BY <1>1, <2>4, <2>5
  <2>7. i = Ids(catalog[rule])[id]' /\ v = version'
    BY <1>1, <2>1, <2>3, <2>5
  <2>8. ~IsFound(catalog[rule].product)'
    BY <2>1, <2>4 DEF IsFound
  <2>. QED BY <2>6, <2>7, <2>8
<1>. QED BY <1>2, <1>3 DEF InventoryInv

\* Each step of a discovery keeps what is known of what was found and what was passed.
LEMMA DiscoveryContinues ==
  ASSUME Types, failed \in BOOLEAN, SeenInv, InventoryInv, PassedInv, DiscoveryStep
  PROVE SeenInv' /\ InventoryInv' /\ PassedInv'
<1>1. /\ UNCHANGED <<platform, db, seen, catalog>> /\ at # "idle"
      /\ failed' \in BOOLEAN /\ (failed => failed')
  <2>1. UNCHANGED <<platform, db, seen, catalog>>
    BY DEF DiscoveryStep, ListPackages, PassOver, Query, NextRule, Finish, SearchDeployPath,
           SearchConfigPath, AddPackage, Throw, system, position, history
  <2>2. at # "idle" /\ failed' \in BOOLEAN
    BY DiscoveryStays DEF Discovering
  <2>3. failed => failed'
    BY DEF DiscoveryStep, ListPackages, PassOver, Query, NextRule, Finish, SearchDeployPath,
           SearchConfigPath, AddPackage, history
  <2>. QED BY <2>1, <2>2, <2>3
<1>2. /\ \A r : Ids(r)' = Ids(r)
      /\ \A i \in Identifiers : \A v : WasThere(i, v) => WasThere(i, v)'
      /\ \A p, v : Justified(p, v) => Justified(p, v)'
      /\ \A r \in DOMAIN catalog : \A j \in DOMAIN Ids(catalog[r]) :
           /\ Ids(catalog[r])[j] \in Identifiers
           /\ Excused(Ids(catalog[r])[j]) => Excused(Ids(catalog[r])[j])'
  BY <1>1, DiscoveryRemembers
<1>3. /\ rule \in Nat /\ Len(catalog) \in Nat /\ DOMAIN catalog = 1..Len(catalog)
      /\ \A r \in 1..Len(catalog) : /\ Len(Ids(catalog[r])) \in Nat
                                    /\ DOMAIN Ids(catalog[r]) = 1..Len(Ids(catalog[r]))
  BY PositionType, RuleType DEF Types, TypeOK, DiscoveryTypeOK
<1>4. ASSUME UNCHANGED <<inventory, rule, id>>, failed' \/ failed' = failed,
             answer' # "0" \/ at' # "idle"
      PROVE PassedInv'
  BY <1>1, <1>2, <1>4 DEF PassedInv, IsFound
<1>5. ASSUME Throw, failed' = TRUE PROVE SeenInv' /\ InventoryInv' /\ PassedInv'
  <2>1. at' = "idle" /\ answer' = "-1" /\ inventory' = << >>
    BY <1>5 DEF Throw
  <2>2. DOMAIN inventory' = {}
    BY <2>1
  <2>. QED BY <1>5, <2>1, <2>2 DEF SeenInv, InventoryInv, PassedInv
<1>6. ASSUME at # "list", UNCHANGED listed PROVE SeenInv'
  BY <1>1, <1>6 DEF SeenInv
<1>7. CASE ListPackages
  <2>1. PICK fails \in BOOLEAN :
          /\ failed' = (failed \/ fails)
          /\ \/ fails /\ Throw
             \/ /\ at' = "query"
                /\ listed' = IF fails THEN {} ELSE {n \in Names : db[n] # Absent}
                /\ UNCHANGED <<answer, catalog, rule, id, version, conf, configs,
                               inventory, cache>>
    BY <1>7, FailsBoolean DEF ListPackages
  <2>2. CASE fails /\ Throw
    BY <1>5, <2>1, <2>2
  <2>3. CASE ~(fails /\ Throw)
    <3>1. /\ at' = "query" /\ UNCHANGED <<rule, id, inventory>>
          /\ listed' = IF fails THEN {} ELSE {n \in Names : db[n] # Absent}
      BY <2>1, <2>3
    <3>2. SeenInv'
      <4>1. \A n \in Names : db[n] \in seen[n]
        BY <1>1 DEF SeenInv
      <4>2. ~failed' => \A n \in Names \ listed' : db[n] = Absent
        BY <2>1, <3>1
      <4>. QED BY <1>1, <4>1, <4>2 DEF SeenInv
    <3>3. InventoryInv'
      BY <1>1, <3>1, InventoryStays
    <3>4. PassedInv'
      BY <1>1, <1>4, <2>1, <3>1
    <3>. QED BY <3>2, <3>3, <3>4
  <2>. QED BY <2>2, <2>3
<1>. DEFINE i == Ids(catalog[rule])[id]
            product == catalog[rule].product
<1>8. ASSUME at \in {"query", "deploy"}, at' = "query", rule \in 1..Len(catalog),
             id \in 1..Len(Ids(catalog[rule])), rule' = rule, id' = id + 1,
             \A p : IsFound(p) => IsFound(p)',
             failed' \/ Excused(i) \/ IsFound(product)'
      PROVE PassedInv'
  <2>1. SUFFICES ASSUME ~failed', NEW r \in DOMAIN catalog, NEW j \in DOMAIN Ids(catalog[r]),
                        r < rule \/ (r = rule /\ j < id + 1)
                 PROVE Excused(Ids(catalog[r])[j])' \/ IsFound(catalog[r].product)'
    BY <1>1, <1>2, <1>8 DEF PassedInv
  <2>2. r \in 1..Len(catalog) /\ j \in 1..Len(Ids(catalog[r]))
    BY <1>3
  <2>3. Excused(Ids(catalog[r])[j]) => Excused(Ids(catalog[r])[j])'
    BY <1>2
  <2>4. IsFound(catalog[r].product) => IsFound(catalog[r].product)'
    BY <1>1, <1>8
  <2>5. CASE r = rule /\ j = id
    <3>1. Excused(Ids(catalog[r])[j]) \/ IsFound(catalog[r].product)'
      BY <1>1, <1>8, <2>1, <2>5
    <3>. QED BY <2>3, <3>1
  <2>6. CASE r < rule \/ (r = rule /\ j < id)
    <3>1. Excused(Ids(catalog[r])[j]) \/ IsFound(catalog[r].product)
      BY <1>1, <2>1, <2>6 DEF PassedInv
    <3>. QED BY <2>3, <2>4, <3>1
  <2>7. id \in Nat /\ j \in Nat /\ rule \in Nat /\ r \in Nat
    BY <1>3, <1>8, <2>2
  <2>. QED BY <2>1, <2>5, <2>6, <2>7
<1>9. ASSUME UNCHANGED inventory PROVE \A p : IsFound(p) => IsFound(p)'
  BY <1>9 DEF IsFound
<1>10. CASE PassOver
  <2>1. /\ at = "query" /\ at' = "query" /\ rule <= Len(catalog)
        /\ id <= Len(Ids(catalog[rule])) /\ id' = id + 1
        /\ IF platform = "macOS" THEN i.name \notin listed ELSE IsFound(product)
        /\ UNCHANGED <<rule, listed, version, inventory, failed>>
    BY <1>10 DEF PassOver, AtIdentifier, history
  <2>2. rule \in 1..Len(catalog) /\ id \in 1..Len(Ids(catalog[rule]))
    BY <1>3, <2>1, PositionType
  <2>3. i \in Identifiers
    BY <1>2, <1>3, <2>2
  <2>4. ~failed => Excused(i) \/ IsFound(product)
    <3>1. i.name \in Names
      BY <2>3 DEF Identifiers
    <3>. QED BY <2>1, <3>1 DEF SeenInv, Excused
  <2>5. SeenInv'
    BY <1>6, <2>1
  <2>6. InventoryInv'
    BY <1>1, <2>1, InventoryStays
  <2>7. \A p : IsFound(p) => IsFound(p)'
    BY <1>9, <2>1
  <2>8. IsFound(product) => IsFound(product)'
    BY <1>1, <2>1 DEF IsFound
  <2>9. PassedInv'
    BY <1>8, <2>1, <2>2, <2>4, <2>7, <2>8
  <2>. QED BY <2>5, <2>6, <2>9
<1>11. CASE Query
  <2>1. at = "query" /\ rule <= Len(catalog) /\ id <= Len(Ids(catalog[rule]))
    BY <1>11 DEF Query, AtIdentifier
  <2>2. rule \in 1..Len(catalog) /\ id \in 1..Len(Ids(catalog[rule]))
    BY <1>3, <2>1, PositionType
  <2>3. i \in Identifiers /\ catalog[rule] \in Rules
    BY <1>2, <1>3, <2>2, PositionType
  <2>4. platform = "macOS" => i.type = "PKGUTIL"
    BY <1>3, <2>2, <2>3, IdsType
  <2>5. \A n \in Names : db[n] \in seen[n]
    BY <1>1 DEF SeenInv
  <2>6. PICK fails \in BOOLEAN :
          /\ failed' = (failed \/ fails)
          /\ \/ fails /\ platform = "macOS" /\ Throw
             \/ LET v == IF fails THEN 0 ELSE VersionOf(i, db[i.name]) IN
                /\ IF IsFound(product) \/ (v = 0 /\ platform # "macOS")
                   THEN id' = id + 1 /\ UNCHANGED <<at, version, conf, configs>>
                   ELSE /\ at' = "deploy" /\ version' = v /\ conf' = 1 /\ configs' = << >>
                        /\ id' = id
                /\ UNCHANGED <<answer, catalog, rule, listed, inventory, cache>>
    BY <1>11, FailsBoolean DEF Query
  <2>7. CASE fails /\ Throw
    BY <1>5, <2>6, <2>7
  <2>8. CASE ~(fails /\ Throw)
    <3>. DEFINE v == IF fails THEN 0 ELSE VersionOf(i, db[i.name])
    <3>1. /\ IF IsFound(product) \/ (v = 0 /\ platform # "macOS")
             THEN id' = id + 1 /\ UNCHANGED <<at, version, conf, configs>>
             ELSE /\ at' = "deploy" /\ version' = v /\ id' = id
          /\ UNCHANGED <<rule, listed, inventory>>
      BY <2>6, <2>8
    <3>2. SeenInv'
      BY <1>6, <2>1, <3>1
    <3>3. CASE IsFound(product) \/ (v = 0 /\ platform # "macOS")
      <4>1. at' = "query" /\ id' = id + 1
        BY <2>1, <3>1, <3>3
      <4>2. InventoryInv'
        BY <1>1, <3>1, <4>1, InventoryStays
      <4>3. failed' \/ Excused(i) \/ IsFound(product)
        <5>1. SUFFICES ASSUME ~fails, ~IsFound(product) PROVE Excused(i)
          BY <2>6
        <5>2. platform # "macOS" /\ VersionOf(i, db[i.name]) = 0
          BY <3>3, <5>1
        <5>. HIDE DEF i
        <5>. QED BY <2>3, <2>5, <5>2, QueryMisses
      <4>4. \A p : IsFound(p) => IsFound(p)'
        BY <1>9, <3>1
      <4>5. IsFound(product) => IsFound(product)'
        BY <1>1, <3>1 DEF IsFound
      <4>6. PassedInv'
        BY <1>8, <2>1, <2>2, <3>1, <4>1, <4>3, <4>4, <4>5
      <4>. QED BY <3>2, <4>2, <4>6
    <3>4. CASE ~(IsFound(product) \/ (v = 0 /\ platform # "macOS"))
      <4>1. at' = "deploy" /\ version' = v /\ UNCHANGED <<rule, id, inventory>> /\ ~IsFound(product)
        BY <3>1, <3>4
      <4>2. PassedInv'
        BY <1>1, <1>4, <2>6, <4>1
      <4>3. PICK w, n : w = v /\ n = i
        OBVIOUS
      <4>4. WasThere(n, w)'
        <5>1. CASE fails
          <6>1. failed' = TRUE /\ w = 0 /\ platform' = "macOS"
            BY <1>1, <2>6, <3>4, <4>3, <5>1
          <6>. QED BY <6>1 DEF WasThere
        <5>2. CASE ~fails
          <6>1. w = VersionOf(n, db[n.name]) /\ (w # 0 \/ platform = "macOS")
            BY <3>4, <4>3, <5>2
          <6>2. n \in Identifiers /\ (platform = "macOS" => n.type = "PKGUTIL")
            BY <2>3, <2>4, <4>3
          <6>3. WasThere(n, w)
            BY <2>5, <6>1, <6>2, QueryFinds
          <6>. QED BY <1>2, <6>2, <6>3
        <5>. QED BY <5>1, <5>2
      <4>5. n = Ids(catalog[rule])[id]' /\ w = version'
        BY <1>1, <1>2, <4>1, <4>3
      <4>6. WasThere(Ids(catalog[rule])[id], version)'
        BY <4>4, <4>5
      <4>7. ~IsFound(catalog[rule].product)'
        BY <1>1, <4>1 DEF IsFound
      <4>8. \A k \in DOMAIN inventory : Justified(inventory[k].product, inventory[k].version)'
        BY <1>2, <4>1 DEF InventoryInv
      <4>9. InventoryInv'
        BY <4>1, <4>6, <4>7, <4>8 DEF InventoryInv
      <4>. QED BY <3>2, <4>2, <4>9
    <3>. QED BY <3>3, <3>4
  <2>. QED BY <2>6, <2>7, <2>8
<1>12. CASE NextRule
  <2>1. /\ at = "query" /\ at' = "query" /\ rule <= Len(catalog)
        /\ id > Len(Ids(catalog[rule])) /\ rule' = rule + 1 /\ id' = 1
        /\ UNCHANGED <<listed, inventory, failed>>
    BY <1>12 DEF NextRule, history
  <2>2. rule \in 1..Len(catalog) /\ id \in Nat
    BY <1>3, <2>1, PositionType
  <2>3. SeenInv'
    BY <1>6, <2>1
  <2>4. InventoryInv'
    BY <1>1, <2>1, InventoryStays
  <2>5. ASSUME ~failed', NEW r \in DOMAIN catalog, NEW j \in DOMAIN Ids(catalog[r]),
               r < rule + 1 \/ (r = rule + 1 /\ j < 1)
        PROVE Excused(Ids(catalog[r])[j])' \/ IsFound(catalog[r].product)'
    <3>1. r \in 1..Len(catalog) /\ j \in 1..Len(Ids(catalog[r])) /\ Len(Ids(catalog[r])) \in Nat
      BY <1>3
    <3>2. r < rule \/ (r = rule /\ j < id)
      BY <1>3, <2>1, <2>2, <2>5, <3>1
    <3>3. Excused(Ids(catalog[r])[j]) \/ IsFound(catalog[r].product)
      BY <2>1, <2>5, <3>2 DEF PassedInv
    <3>4. Excused(Ids(catalog[r])[j]) => Excused(Ids(catalog[r])[j])'
      BY <1>2
    <3>5. IsFound(catalog[r].product) => IsFound(catalog[r].product)'
      BY <1>1, <2>1 DEF IsFound
    <3>. QED BY <3>3, <3>4, <3>5
  <2>6. PassedInv'
    BY <1>1, <1>2, <2>1, <2>5 DEF PassedInv
  <2>. QED BY <2>3, <2>4, <2>6
<1>13. CASE Finish
  <2>1. /\ at = "query" /\ rule > Len(catalog) /\ at' = "idle"
        /\ UNCHANGED <<rule, id, listed, inventory, failed>>
    BY <1>13 DEF Finish, position, history
  <2>2. SeenInv'
    BY <1>1, <2>1 DEF SeenInv
  <2>3. InventoryInv'
    BY <1>1, <2>1, InventoryStays
  <2>4. rule = Len(catalog) + 1
    <3>1. rule \in 1..Len(catalog) + 1
      BY PositionType DEF PositionOK
    <3>. QED BY <1>3, <2>1, <3>1
  <2>5. PassedInv'
    BY <1>1, <1>2, <2>1, <2>4 DEF PassedInv, IsFound
  <2>. QED BY <2>2, <2>3, <2>5
<1>14. CASE SearchDeployPath \/ SearchConfigPath
  <2>1. /\ at \in {"deploy", "config"} /\ at' \in {"deploy", "config"}
        /\ UNCHANGED <<rule, id, listed, version, inventory, failed>>
    BY <1>14 DEF SearchDeployPath, SearchConfigPath, history
  <2>2. SeenInv' /\ InventoryInv'
    BY <1>1, <1>6, <2>1, InventoryStays
  <2>3. PassedInv'
    BY <1>1, <1>4, <2>1
  <2>. QED BY <2>2, <2>3
<1>15. CASE AddPackage
  <2>. DEFINE p == [product |-> product, version |-> version, configs |-> configs]
  <2>1. /\ at = "deploy" /\ at' = "query" /\ id' = id + 1
        /\ inventory' = Append(inventory, p)
        /\ UNCHANGED <<rule, listed, failed>>
    BY <1>15 DEF AddPackage, history
  <2>2. rule \in 1..Len(catalog) /\ id \in 1..Len(Ids(catalog[rule]))
    BY <2>1, PositionType
  <2>3. SeenInv'
    BY <1>6, <2>1
  <2>4. /\ DOMAIN inventory' = DOMAIN inventory \cup {Len(inventory) + 1}
        /\ DOMAIN inventory = 1..Len(inventory) /\ Len(inventory) \in Nat
        /\ inventory'[Len(inventory) + 1] = p
        /\ \A k \in DOMAIN inventory : inventory'[k] = inventory[k]
    <3>. DEFINE T == [product : STRING, version : 0..MaxVersion, configs : Seq(Infos)]
                q == p
    <3>1. inventory \in Seq(T)
      BY DEF Types, TypeOK, DiscoveryTypeOK, Inventories
    <3>2. inventory' = Append(inventory, q)
      BY <2>1
    <3>. HIDE DEF p, q, T
    <3>3. /\ DOMAIN inventory = 1..Len(inventory) /\ Len(inventory) \in Nat
          /\ DOMAIN inventory' = 1..Len(inventory) + 1
          /\ inventory'[Len(inventory) + 1] = q
          /\ \A k \in 1..Len(inventory) : inventory'[k] = inventory[k]
      BY <3>1, <3>2
    <3>4. 1..Len(inventory) + 1 = 1..Len(inventory) \cup {Len(inventory) + 1}
      BY <3>3
    <3>. QED BY <3>3, <3>4 DEF q
  <2>5. p.product = product /\ p.version = version
    OBVIOUS
  <2>. HIDE DEF p
  <2>6. /\ \A q : IsFound(q) => IsFound(q)'
        /\ IsFound(product)'
    <3>1. \A q : IsFound(q) => IsFound(q)'
      BY <2>4 DEF IsFound
    <3>2. inventory'[Len(inventory) + 1].product = product'
      BY <1>1, <2>1, <2>4, <2>5
    <3>. QED BY <2>4, <3>1, <3>2 DEF IsFound
  <2>7. InventoryInv'
    <3>1. WasThere(i, version) /\ ~IsFound(product)
      BY <2>1 DEF InventoryInv
    <3>2. Justified(product, version)
      BY <1>3, <2>2, <3>1 DEF Justified
    <3>3. ASSUME NEW k \in DOMAIN inventory'
          PROVE Justified(inventory[k].product, inventory[k].version)'
      <4>1. PICK q, w : q = inventory'[k].product /\ w = inventory'[k].version
        OBVIOUS
      <4>2. Justified(q, w)
        <5>1. CASE k \in DOMAIN inventory
          BY <2>4, <4>1, <5>1 DEF InventoryInv
        <5>2. CASE k = Len(inventory) + 1
          <6>1. q = product /\ w = version
            BY <2>4, <2>5, <4>1, <5>2
          <6>. QED BY <3>2, <6>1
        <5>. QED BY <2>4, <5>1, <5>2
      <4>3. Justified(q, w)'
        BY <1>2, <4>2
      <4>. QED BY <4>1, <4>3
    <3>4. \A k, l \in DOMAIN inventory' :
            inventory'[l].product = inventory'[k].product => l = k
      BY <2>4, <2>5, <3>1 DEF InventoryInv, IsFound
    <3>. QED BY <2>1, <3>3, <3>4 DEF InventoryInv
  <2>8. PassedInv'
    BY <1>8, <2>1, <2>2, <2>6
  <2>. QED BY <2>3, <2>7, <2>8
<1>. QED BY <1>7, <1>10, <1>11, <1>12, <1>13, <1>14, <1>15 DEF DiscoveryStep

\* What others do in between is remembered.
LEMMA DiscoveryDisturbed ==
  ASSUME Types, SeenInv, InventoryInv, PassedInv, OthersStep
  PROVE SeenInv' /\ InventoryInv' /\ PassedInv'
<1>1. UNCHANGED <<platform, op, at, answer, catalog, rule, id, listed, version, inventory, failed>>
  BY DEF OthersStep, ChangePackage, ChangeFile, position
<1>2. /\ \A n \in Names : seen[n] \subseteq seen'[n]
      /\ \A n \in Names : db'[n] = db[n] \/ db'[n] \in seen'[n]
  <2>1. db \in [Names -> Entries(platform)] /\ seen \in [Names -> SUBSET Entries(platform)]
    BY DEF Types, TypeOK, DiscoveryTypeOK
  <2>2. CASE \E n \in Names : \E entry \in Entries(platform) : ChangePackage(n, entry)
    BY <2>1, <2>2 DEF ChangePackage
  <2>3. CASE \E i \in DOMAIN Paths : ChangeFile(Paths[i])
    BY <2>3 DEF ChangeFile
  <2>. QED BY <2>2, <2>3 DEF OthersStep
<1>3. /\ \A r : Ids(r)' = Ids(r)
      /\ \A r \in DOMAIN catalog : \A j \in DOMAIN Ids(catalog[r]) :
           Excused(Ids(catalog[r])[j]) => Excused(Ids(catalog[r])[j])'
  BY <1>1, <1>2, DiscoveryRemembers
<1>4. SeenInv'
  BY <1>1, <1>2 DEF SeenInv
<1>5. InventoryInv'
  BY <1>1, <1>2, InventoryStays
<1>6. PassedInv'
  BY <1>1, <1>3 DEF PassedInv, IsFound
<1>. QED BY <1>4, <1>5, <1>6

\* Only a call of GetInstalledPackages() is one.
LEMMA OtherCalls ==
  ASSUME CallInv, Installation \/ Permissions PROVE op' # "GetInstalledPackages"
<1>1. CASE \E c \in Components :
             InstallComponent(c) \/ UpdateComponent(c) \/ UninstallComponent(c)
  BY <1>1 DEF InstallComponent, UpdateComponent, Install, UninstallComponent, Begin, Start
<1>2. CASE Verify \/ Trust \/ ListChoices \/ Run \/ Shell
  <2>1. at \in Verifying \cup {"choices", "run", "shell"} /\ op' = op
    BY <1>2 DEF Verify, Trust, ListChoices, Run, Shell, Verifying
  <2>. QED BY <2>1 DEF CallInv, PlaceInv, Installs
<1>3. CASE \E present \in BOOLEAN, m \in SUBSET {"owner", "group", "others", "read"} :
             \/ RestrictPathPermissionsToAdmins(present, m)
             \/ ApplyBultinUsersReadPermissions(present, m)
  BY <1>3 DEF RestrictPathPermissionsToAdmins, ApplyBultinUsersReadPermissions,
              BeginPermissions, Start
<1>4. CASE TakeFromOthers \/ GiveToOwner \/ LetRead
  <2>1. at \in {"remove", "add", "read"} /\ op' = op
    BY <1>4 DEF TakeFromOthers, GiveToOwner, LetRead, Chmod
  <2>. QED BY <2>1 DEF CallInv, PlaceInv
<1>. QED BY <1>1, <1>2, <1>3, <1>4 DEF Installation, Permissions

\* During and after every discovery it is known what was found and what was passed.
THEOREM DiscoveryCorrect == Spec => []DiscoveryInv
<1>1. Init => DiscoveryInv
  BY DEF Init, InitDiscovery, DiscoveryInv
<1>2. CallInv /\ Types /\ DiscoveryInv /\ [Next]_vars => DiscoveryInv'
  <2>. SUFFICES ASSUME CallInv, Types, DiscoveryInv, [Next]_vars PROVE DiscoveryInv'
    OBVIOUS
  <2>1. CASE \E c \in Catalogs : GetInstalledPackages(c) /\ NoComponent /\ NoPath
    BY <2>1, DiscoveryBegins
  <2>2. CASE DiscoveryStep /\ UNCHANGED <<installation, mode>>
    <3>1. failed \in BOOLEAN /\ op = "GetInstalledPackages"
      BY <2>2, DiscoveryStays DEF CallInv, Flags, PlaceInv
    <3>. QED BY <2>2, <3>1, DiscoveryContinues DEF DiscoveryInv
  <2>3. CASE Installation \/ Permissions
    BY <2>3, OtherCalls DEF DiscoveryInv
  <2>4. CASE OthersStep /\ UNCHANGED <<installation, mode>>
    <3>1. op' = op
      BY <2>4 DEF OthersStep, ChangePackage, ChangeFile
    <3>. QED BY <2>4, <3>1, DiscoveryDisturbed DEF DiscoveryInv
  <2>5. CASE UNCHANGED vars
    <3>1. UNCHANGED <<system, op, at, answer, position, inventory, history>>
      BY <2>5 DEF vars, discoveryVars
    <3>2. UNCHANGED <<platform, db, op, at, answer, catalog, rule, id, listed, version,
                      inventory, seen, failed>>
      BY <3>1 DEF system, position, history
    <3>3. \A r : Ids(r)' = Ids(r)
      BY <3>2 DEF Ids
    <3>. QED BY <3>2, <3>3
      DEF DiscoveryInv, SeenInv, InventoryInv, PassedInv, Justified, WasThere, Excused, IsFound
  <2>. QED BY <2>1, <2>2, <2>3, <2>4, <2>5 DEF Next, Discover
<1>. QED BY <1>1, <1>2, CallCorrect, TypesCorrect, PTL DEF Spec

\* GetInstalledPackages() reports only packages that were in the database, in the
\* version it reports, at some time while it ran, and each product once, whatever
\* other programs install and remove meanwhile and whichever queries fail.
THEOREM EveryPackageReportedWasThere == Spec => []DiscoveredWasThere
<1>1. DiscoveryInv => DiscoveredWasThere
  <2>. SUFFICES ASSUME DiscoveryInv, op = "GetInstalledPackages" PROVE DiscoveredWasThere
    BY DEF DiscoveredWasThere, HasReturned
  <2>1. InventoryInv
    BY DEF DiscoveryInv
  <2>. QED BY <2>1 DEF DiscoveredWasThere, InventoryInv, Justified, WasThere
<1>. QED BY <1>1, DiscoveryCorrect, PTL

\* GetInstalledPackages() overlooks no product with a package that is in the
\* database all the time it runs, in the version asked for, unless a query fails.
THEOREM NoPackageIsOverlooked == Spec => []NothingOverlooked
<1>1. DiscoveryInv /\ Types => NothingOverlooked
  <2>. SUFFICES ASSUME DiscoveryInv, Types, HasReturned("GetInstalledPackages", "0"), ~failed,
                       NEW r \in DOMAIN catalog, NEW j \in DOMAIN Ids(catalog[r]),
                       ~Excused(Ids(catalog[r])[j])
                PROVE IsFound(catalog[r].product)
    BY DEF NothingOverlooked, Excused
  <2>1. PassedInv /\ at = "idle" /\ answer = "0"
    BY DEF DiscoveryInv, HasReturned
  <2>2. r \in 1..Len(catalog) /\ Len(catalog) \in Nat
    BY RuleType DEF Types, TypeOK, DiscoveryTypeOK
  <2>3. r < rule
    BY <2>1, <2>2 DEF PassedInv
  <2>. QED BY <2>1, <2>3 DEF PassedInv
<1>. QED BY <1>1, DiscoveryCorrect, TypesCorrect, PTL

-------------------------------------------------------------------------------
(* The files each package comes with *)

\* The files of a package, each once and each reported so that it leads back.
Reports(infos) ==
  /\ \A i, j \in DOMAIN infos : infos[i].file = infos[j].file => i = j
  /\ \A i \in DOMAIN infos : LeadsBack(infos[i])

Files(infos) == {infos[i].file : i \in DOMAIN infos}

\* The files that the first n configurables of a rule should be reported with.
FilesOf(r, n) == UNION {InstancesOf(r.configurables[c]) : c \in 1..n}

ReportsInv ==
  /\ Reports(configs)
  /\ \A k \in DOMAIN inventory : Reports(inventory[k].configs)

\* The files found so far are those there are, if none came or went.
FilesInv ==
  op = "GetInstalledPackages" /\ ~moved =>
    /\ at \in {"deploy", "config"} => Files(configs) = FilesOf(catalog[rule], conf - 1)
    /\ at = "config" => Search(ResolvePath(Current.deployPath)) = << >>
    /\ \A k \in DOMAIN inventory :
         \E r \in DOMAIN catalog :
           /\ catalog[r].product = inventory[k].product
           /\ Files(inventory[k].configs) =
                FilesOf(catalog[r], Len(catalog[r].configurables))

\* What follows the folder's id in a path.
LEMMA AfterFolder ==
  ASSUME NEW t \in Seq(STRING)
  PROVE LET path == <<Folder>> \o t IN
        path \in Seq(STRING) /\ path # << >> /\ Head(path) = Folder /\ Tail(path) = t
<1>. DEFINE path == <<Folder>> \o t
<1>1. <<Folder>> \in Seq(STRING) /\ Len(<<Folder>>) = 1 /\ <<Folder>>[1] = Folder
  <2>1. Folder \in STRING
    BY FolderAssumption
  <2>2. \A S : \A x \in S : <<x>> \in Seq(S)
    OBVIOUS
  <2>3. Len(<<Folder>>) = 1
    OBVIOUS
  <2>4. <<Folder>>[1] = Folder
    OBVIOUS
  <2>. QED BY <2>1, <2>2, <2>3, <2>4
<1>2. /\ path \in Seq(STRING) /\ Len(path) = Len(t) + 1 /\ path[1] = Folder
      /\ \A i \in 1..Len(t) : path[i + 1] = t[i]
      /\ Len(t) \in Nat
  <2>. DEFINE s == <<Folder>>
  <2>1. s \in Seq(STRING) /\ Len(s) = 1 /\ s[1] = Folder /\ path = s \o t
    BY <1>1
  <2>. HIDE DEF s, path
  <2>2. path \in Seq(STRING) /\ Len(path) = Len(s) + Len(t)
    BY <2>1, ConcatProperties
  <2>3. \A i \in 1..Len(s) + Len(t) : path[i] = IF i <= Len(s) THEN s[i] ELSE t[i - Len(s)]
    BY <2>1, ConcatProperties
  <2>4. Len(t) \in Nat
    OBVIOUS
  <2>. QED BY <2>1, <2>2, <2>3, <2>4
<1>. HIDE DEF path
<1>3. path # << >> /\ Head(path) = Folder
  BY <1>2
<1>4. Tail(path) = t
  <2>1. /\ Tail(path) \in Seq(STRING) /\ Len(Tail(path)) = Len(path) - 1
        /\ \A i \in 1..Len(Tail(path)) : Tail(path)[i] = path[i + 1]
    BY <1>2, <1>3, HeadTailProperties
  <2>. QED BY <1>2, <2>1, SeqEqual
<1>. QED BY <1>2, <1>3, <1>4 DEF path

\* There is a first place where what follows the folder's id occurs in a path
\* that was resolved, and it is not behind the folder.
LEMMA FolderLengthType ==
  ASSUME home \in Seq(STRING), NEW path \in Seq(STRING), ResolvePath(path) # path
  PROVE FolderLength(path) \in 0..Len(home)
<1>. DEFINE part == Tail(path)
            T == {n \in 0..Len(home) : Occurs(part, ResolvePath(path), n)}
<1>1. ResolvePath(path) = home \o part /\ part \in Seq(STRING) /\ Len(home) \in Nat
  <2>1. path # << >> /\ ResolvePath(path) = home \o part
    BY DEF ResolvePath
  <2>2. part \in Seq(STRING)
    BY <2>1, HeadTailProperties
  <2>. QED BY <2>1, <2>2
<1>. HIDE DEF part
<1>2. Occurs(part, ResolvePath(path), Len(home))
  <2>. DEFINE s == home \o part
              u == SubSeq(s, Len(home) + 1, Len(home) + Len(part))
  <2>1. /\ s \in Seq(STRING) /\ Len(s) = Len(home) + Len(part)
        /\ \A i \in 1..Len(home) + Len(part) :
             s[i] = IF i <= Len(home) THEN home[i] ELSE part[i - Len(home)]
        /\ Len(part) \in Nat
    BY <1>1, ConcatProperties
  <2>. HIDE DEF s
  <2>2. /\ u \in Seq(STRING) /\ Len(u) = Len(part)
        /\ \A i \in 1..Len(part) : u[i] = s[Len(home) + i]
    <3>1. \A i \in Len(home) + 1..Len(home) + Len(part) : s[i] \in STRING
      BY <1>1, <2>1
    <3>2. /\ u \in Seq(STRING)
          /\ Len(u) = IF Len(home) + 1 <= Len(home) + Len(part)
                      THEN Len(home) + Len(part) - (Len(home) + 1) + 1 ELSE 0
          /\ \A i \in 1..Len(home) + Len(part) - (Len(home) + 1) + 1 :
               u[i] = s[Len(home) + 1 + i - 1]
      BY <1>1, <2>1, <3>1, SubSeqProperties
    <3>. HIDE DEF u
    <3>3. Len(home) + Len(part) - (Len(home) + 1) + 1 = Len(part)
      BY <1>1, <2>1
    <3>4. Len(u) = Len(part)
      BY <1>1, <2>1, <3>2, <3>3
    <3>5. ASSUME NEW i \in 1..Len(part) PROVE u[i] = s[Len(home) + i]
      <4>1. Len(home) + 1 + i - 1 = Len(home) + i
        BY <1>1
      <4>. QED BY <3>2, <3>3, <4>1
    <3>. QED BY <3>2, <3>4, <3>5
  <2>. HIDE DEF u
  <2>3. u = part
    <3>1. ASSUME NEW i \in 1..Len(u) PROVE u[i] = part[i]
      <4>1. /\ i \in 1..Len(part) /\ Len(home) + i \in 1..Len(home) + Len(part)
            /\ ~(Len(home) + i <= Len(home)) /\ Len(home) + i - Len(home) = i
        BY <1>1, <2>1, <2>2
      <4>. QED BY <2>1, <2>2, <4>1
    <3>. QED BY <1>1, <2>2, <3>1, SeqEqual
  <2>. QED BY <1>1, <2>1, <2>3 DEF Occurs, s, u
<1>3. PICK k \in T : \A j \in T : k <= j
  <2>1. T \subseteq Nat
    BY <1>1
  <2>2. Len(home) \in T
    BY <1>1, <1>2
  <2>. HIDE DEF T
  <2>. QED BY <2>1, <2>2, Smallest
<1>4. \A m \in 0..k - 1 : ~Occurs(part, ResolvePath(path), m)
  BY <1>1, <1>3
<1>5. \E n \in 0..Len(home) : /\ Occurs(Tail(path), ResolvePath(path), n)
                              /\ \A m \in 0..n - 1 : ~Occurs(Tail(path), ResolvePath(path), m)
  BY <1>3, <1>4 DEF part
<1>. QED BY <1>5 DEF FolderLength

\* A search finds the files there are that match, each once.
LEMMA SearchIs ==
  ASSUME NEW pattern
  PROVE /\ Search(pattern) \in Seq(Seq(STRING))
        /\ \A i \in DOMAIN Search(pattern) : Matches(pattern, Search(pattern)[i])
        /\ \A i, j \in DOMAIN Search(pattern) : Search(pattern)[i] = Search(pattern)[j] => i = j
<1>. DEFINE A == {path \in files : Matches(pattern, path)}
            s == Search(pattern)
<1>1. Paths \in Seq(Seq(STRING)) /\ \A i, j \in DOMAIN Paths : Paths[i] = Paths[j] => i = j
  BY DiscoveryAssumption
<1>2. s = Among(Paths, A)
  BY DEF Search
<1>3. \A path \in A : Matches(pattern, path)
  OBVIOUS
<1>. HIDE DEF s, A
<1>4. s \in Seq(Seq(STRING) \cap A) /\ \A i, j \in DOMAIN s : s[i] = s[j] => i = j
  <2>. DEFINE S == Seq(STRING)
  <2>1. Paths \in Seq(S) /\ \A i, j \in DOMAIN Paths : Paths[i] = Paths[j] => i = j
    BY <1>1
  <2>. HIDE DEF S
  <2>2. s \in Seq(S \cap A)
    BY <1>2, <2>1, AmongProps
  <2>3. \A i, j \in DOMAIN s : s[i] = s[j] => i = j
    <3>1. Paths \in Seq(S)
      BY <2>1
    <3>2. (\A i, j \in DOMAIN Paths : Paths[i] = Paths[j] => i = j) =>
            \A i, j \in DOMAIN Among(Paths, A) :
              Among(Paths, A)[i] = Among(Paths, A)[j] => i = j
      BY <3>1, AmongProps, Zenon
    <3>3. \A i, j \in DOMAIN Among(Paths, A) :
            Among(Paths, A)[i] = Among(Paths, A)[j] => i = j
      BY <2>1, <3>2
    <3>. QED BY <1>2, <3>3
  <2>. QED BY <2>2, <2>3 DEF S
<1>5. s \in Seq(Seq(STRING)) /\ \A i \in DOMAIN s : s[i] \in A
  BY <1>4
<1>. QED BY <1>3, <1>4, <1>5 DEF s

\* A file found for a path is reported so that it leads back, as far as it can.
LEMMA ReportedIs ==
  ASSUME home \in Seq(STRING), NEW path \in Seq(STRING), NEW file \in Seq(STRING),
         Matches(ResolvePath(path), file)
  PROVE /\ Reported(path, file) \in Seq(STRING)
        /\ \A info : info.file = file /\ info.path = Reported(path, file) => LeadsBack(info)
<1>1. CASE ResolvePath(path) = path
  BY <1>1 DEF Reported, LeadsBack
<1>2. CASE ResolvePath(path) # path
  <2>. DEFINE n == FolderLength(path)
              t == SubSeq(file, n + 1, Len(file))
              part == Tail(path)
              res == home \o part
  <2>1. n \in 0..Len(home) /\ Len(home) \in Nat
    BY <1>2, FolderLengthType
  <2>2. Reported(path, file) = <<Folder>> \o t
    BY <1>2 DEF Reported
  <2>3. ResolvePath(path) = res /\ path # << >> /\ home # << >>
    BY <1>2 DEF ResolvePath
  <2>4. part \in Seq(STRING) /\ Len(part) \in Nat
    BY <2>3, HeadTailProperties
  <2>. HIDE DEF n, t, part
  <2>5. /\ res \in Seq(STRING) /\ Len(res) = Len(home) + Len(part)
        /\ \A i \in 1..Len(home) + Len(part) :
             res[i] = IF i <= Len(home) THEN home[i] ELSE part[i - Len(home)]
    BY <2>4, ConcatProperties
  <2>. HIDE DEF res
  <2>6. /\ Len(file) = Len(res) /\ Len(file) \in Nat
        /\ \A i \in 1..Len(res) : res[i] \in {file[i], Wildcard}
    BY <2>3, <2>5 DEF Matches
  <2>7. /\ t \in Seq(STRING) /\ Len(t) = Len(file) - n
        /\ \A i \in 1..Len(file) - n : t[i] = file[n + i]
    <3>1. \A i \in n + 1..Len(file) : file[i] \in STRING
      BY <2>1
    <3>2. /\ t \in Seq(STRING)
          /\ Len(t) = IF n + 1 <= Len(file) THEN Len(file) - (n + 1) + 1 ELSE 0
          /\ \A i \in 1..Len(file) - (n + 1) + 1 : t[i] = file[n + 1 + i - 1]
      BY <2>1, <3>1, SubSeqProperties DEF t
    <3>3. Len(file) - (n + 1) + 1 = Len(file) - n /\ n <= Len(file)
      BY <2>1, <2>4, <2>5, <2>6
    <3>4. Len(t) = Len(file) - n
      BY <2>1, <2>6, <3>2, <3>3
    <3>5. ASSUME NEW i \in 1..Len(file) - n PROVE t[i] = file[n + i]
      <4>1. n + 1 + i - 1 = n + i
        BY <2>1
      <4>. QED BY <3>2, <3>3, <4>1
    <3>. QED BY <3>2, <3>4, <3>5
  <2>8. LET p == <<Folder>> \o t IN
        p \in Seq(STRING) /\ p # << >> /\ Head(p) = Folder /\ Tail(p) = t
    BY <2>7, AfterFolder
  <2>9. ASSUME NEW info, info.file = file, info.path = Reported(path, file)
        PROVE LeadsBack(info)
    <3>1. Tail(info.path) = t /\ info.path # << >> /\ Head(info.path) = Folder
      BY <2>2, <2>8, <2>9
    <3>2. CASE n < Len(home)
      <4>1. n \in 0..Len(home) - 1
        BY <2>1, <3>2
      <4>2. n + Len(t) = Len(file)
        BY <2>1, <2>6, <2>7
      <4>3. Occurs(t, file, n)
        <5>1. n + Len(t) <= Len(file)
          BY <2>6, <4>2
        <5>2. t = SubSeq(file, n + 1, Len(file))
          BY DEF t
        <5>3. t = SubSeq(file, n + 1, n + Len(t))
          BY <4>2, <5>2
        <5>. QED BY <5>1, <5>3 DEF Occurs
      <4>. QED BY <2>9, <3>1, <4>1, <4>3 DEF LeadsBack
    <3>3. CASE \E i \in DOMAIN home : home[i] = Wildcard
      BY <3>3 DEF LeadsBack
    <3>4. CASE n = Len(home) /\ \A i \in DOMAIN home : home[i] # Wildcard
      <4>1. ResolvePath(info.path) = home \o t
        BY <2>3, <3>1 DEF ResolvePath
      <4>. DEFINE back == home \o t
      <4>2. /\ back \in Seq(STRING) /\ Len(back) = Len(home) + Len(t)
            /\ \A i \in 1..Len(home) + Len(t) :
                 back[i] = IF i <= Len(home) THEN home[i] ELSE t[i - Len(home)]
        BY <2>7, ConcatProperties
      <4>. HIDE DEF back
      <4>3. Len(back) = Len(file)
        <5>1. Len(t) = Len(file) - Len(home)
          BY <2>7, <3>4
        <5>2. Len(back) = Len(home) + Len(t)
          BY <4>2
        <5>. QED BY <2>1, <2>6, <5>1, <5>2
      <4>4. ASSUME NEW i \in 1..Len(back) PROVE back[i] = file[i]
        <5>1. CASE i <= Len(home)
          <6>1. i \in DOMAIN home /\ i \in 1..Len(res) /\ back[i] = home[i] /\ res[i] = home[i]
            BY <2>1, <2>4, <2>5, <2>6, <2>7, <4>2, <4>3, <5>1
          <6>. QED BY <2>6, <3>4, <6>1
        <5>2. CASE i > Len(home)
          <6>1. i - Len(home) \in 1..Len(file) - n /\ n + (i - Len(home)) = i
            BY <2>1, <3>4, <4>3, <5>2
          <6>2. back[i] = t[i - Len(home)]
            BY <2>1, <4>2, <5>2
          <6>. QED BY <2>7, <6>1, <6>2
        <5>. QED BY <2>1, <5>1, <5>2
      <4>5. back = file
        BY <4>2, <4>3, <4>4, SeqEqual
      <4>. QED BY <2>9, <4>1, <4>5 DEF LeadsBack, back
    <3>. QED BY <2>1, <3>2, <3>3, <3>4
  <2>. QED BY <2>2, <2>8, <2>9
<1>. QED BY <1>1, <1>2

\* The files found for a path, up to the limit.
FoundFor(c, path) ==
  LET all == Search(ResolvePath(path)) IN
  {all[i] : i \in {j \in DOMAIN all : j = 1 \/ j <= c.max_instances}}

\* What leads back does so as long as the home directory is the same.
LEMMA LeadsBackStays ==
  ASSUME UNCHANGED home PROVE \A info : LeadsBack(info) <=> LeadsBack(info)'
BY DEF LeadsBack, ResolvePath

\* Adding files adds those found that are not there yet, and nothing else.
LEMMA AddIs ==
  ASSUME configs \in Seq(Infos), home \in Seq(STRING), UNCHANGED home, Reports(configs),
         NEW c \in Configurables, NEW path \in Seq(STRING), NEW isDeployPath \in BOOLEAN,
         Add(c, path, isDeployPath)
  PROVE Reports(configs)' /\ Files(configs)' = Files(configs) \cup FoundFor(c, path)
<1>. DEFINE all == Search(ResolvePath(path))
            found == Limited(all, c.max_instances)
            infos == [i \in DOMAIN found |-> [file |-> found[i], isDeployPath |-> isDeployPath,
                                              path |-> Reported(path, found[i])]]
            new == {info \in Infos : \A j \in DOMAIN configs : configs[j].file # info.file}
            added == Among(infos, new)
<1>1. configs' = configs \o added
  BY DEF Add
<1>2. /\ all \in Seq(Seq(STRING)) /\ \A i \in DOMAIN all : Matches(ResolvePath(path), all[i])
      /\ \A i, j \in DOMAIN all : all[i] = all[j] => i = j
  BY SearchIs
<1>3. c.max_instances \in Nat
  BY DEF Configurables
<1>4. FoundFor(c, path) = {all[i] : i \in {j \in DOMAIN all : j = 1 \/ j <= c.max_instances}}
  BY DEF FoundFor
<1>. HIDE DEF all
<1>5. /\ found \in Seq(Seq(STRING))
      /\ DOMAIN found = {j \in DOMAIN all : j = 1 \/ j <= c.max_instances}
      /\ \A i \in DOMAIN found : found[i] = all[i]
  <2>. DEFINE S == Seq(STRING)
              limit == c.max_instances
  <2>1. all \in Seq(S) /\ limit \in Nat
    BY <1>2, <1>3
  <2>. HIDE DEF S, limit
  <2>2. Limited(all, limit) \in Seq(S)
    BY <2>1, LimitedIs
  <2>3. DOMAIN Limited(all, limit) = {j \in DOMAIN all : j = 1 \/ j <= limit}
    BY <2>1, LimitedIs
  <2>4. \A i \in DOMAIN Limited(all, limit) : Limited(all, limit)[i] = all[i]
    BY <2>1, LimitedIs
  <2>. QED BY <2>2, <2>3, <2>4 DEF S, limit
<1>. HIDE DEF found
<1>6. /\ FoundFor(c, path) = {found[i] : i \in DOMAIN found}
      /\ \A i \in DOMAIN found : Matches(ResolvePath(path), found[i]) /\ found[i] \in Seq(STRING)
      /\ \A i, j \in DOMAIN found : found[i] = found[j] => i = j
  BY <1>2, <1>4, <1>5
<1>7. \A i \in DOMAIN found :
        Reported(path, found[i]) \in Seq(STRING) /\ LeadsBack(infos[i])
  <2>1. SUFFICES ASSUME NEW i \in DOMAIN found
                 PROVE Reported(path, found[i]) \in Seq(STRING) /\ LeadsBack(infos[i])
    OBVIOUS
  <2>2. PICK file \in Seq(STRING) : file = found[i] /\ Matches(ResolvePath(path), file)
    BY <1>6
  <2>3. infos[i].file = file /\ infos[i].path = Reported(path, file)
    BY <2>2
  <2>. HIDE DEF infos
  <2>. QED BY <2>2, <2>3, ReportedIs
<1>8. /\ infos \in Seq(Infos) /\ DOMAIN infos = DOMAIN found
      /\ \A i \in DOMAIN found : infos[i].file = found[i] /\ infos[i] \in Infos
  <2>1. \A i \in DOMAIN found : infos[i] \in Infos
    BY <1>6, <1>7 DEF Infos
  <2>2. DOMAIN found = 1..Len(found) /\ Len(found) \in Nat
    <3>1. found \in Seq(Seq(STRING))
      BY <1>5
    <3>. QED BY <3>1
  <2>3. DOMAIN infos = 1..Len(found)
    BY <2>2
  <2>4. \A i \in DOMAIN found : infos[i].file = found[i]
    OBVIOUS
  <2>5. infos = [i \in 1..Len(found) |-> infos[i]]
    BY <2>2
  <2>. HIDE DEF infos
  <2>6. infos \in [1..Len(found) -> Infos]
    BY <2>1, <2>2, <2>5
  <2>7. infos \in Seq(Infos)
    BY <2>2, <2>6
  <2>. QED BY <2>1, <2>2, <2>3, <2>4, <2>7
<1>9. \A info \in Infos : info \in new <=> \A j \in DOMAIN configs : configs[j].file # info.file
  OBVIOUS
<1>. HIDE DEF infos, new
<1>10. /\ added \in Seq(Infos \cap new)
       /\ \A i, j \in DOMAIN added : added[i] = added[j] => i = j
  <2>1. \A i, j \in DOMAIN infos : infos[i] = infos[j] => i = j
    BY <1>6, <1>8
  <2>2. (\A i, j \in DOMAIN infos : infos[i] = infos[j] => i = j) =>
          \A i, j \in DOMAIN Among(infos, new) :
            Among(infos, new)[i] = Among(infos, new)[j] => i = j
    BY <1>8, AmongProps, Zenon
  <2>3. \A i, j \in DOMAIN Among(infos, new) :
          Among(infos, new)[i] = Among(infos, new)[j] => i = j
    BY <2>1, <2>2
  <2>4. Among(infos, new) \in Seq(Infos \cap new)
    BY <1>8, AmongProps
  <2>. QED BY <2>3, <2>4
<1>11. \A k \in DOMAIN added : added[k] \in new /\ \E m \in DOMAIN found : added[k] = infos[m]
  <2>1. infos \in Seq(Infos) /\ DOMAIN infos = DOMAIN found
    BY <1>8
  <2>2. \A k \in DOMAIN Among(infos, new) :
          /\ Among(infos, new)[k] \in new
          /\ \E m \in DOMAIN infos : Among(infos, new)[k] = infos[m]
    BY <2>1, AmongProps
  <2>. QED BY <2>1, <2>2
<1>12. \A m \in DOMAIN found : infos[m] \in new => \E k \in DOMAIN added : added[k] = infos[m]
  <2>1. infos \in Seq(Infos) /\ DOMAIN infos = DOMAIN found
    BY <1>8
  <2>2. \A m \in DOMAIN infos :
          infos[m] \in new => \E k \in DOMAIN Among(infos, new) : Among(infos, new)[k] = infos[m]
    BY <2>1, AmongProps
  <2>. QED BY <2>1, <2>2
<1>. HIDE DEF added
<1>13. /\ DOMAIN configs = 1..Len(configs) /\ DOMAIN added = 1..Len(added)
       /\ Len(configs) \in Nat /\ Len(added) \in Nat
       /\ DOMAIN configs' = 1..Len(configs) + Len(added)
       /\ \A i \in DOMAIN configs : i \in DOMAIN configs' /\ configs'[i] = configs[i]
       /\ \A k \in DOMAIN added :
            Len(configs) + k \in DOMAIN configs' /\ configs'[Len(configs) + k] = added[k]
       /\ \A i \in DOMAIN configs' :
            i \in DOMAIN configs \/ \E k \in DOMAIN added : i = Len(configs) + k
  <2>1. added \in Seq(Infos)
    BY <1>10
  <2>2. /\ configs' \in Seq(Infos) /\ Len(configs') = Len(configs) + Len(added)
        /\ \A i \in 1..Len(configs) + Len(added) :
             configs'[i] = IF i <= Len(configs) THEN configs[i] ELSE added[i - Len(configs)]
    BY <1>1, <2>1, ConcatProperties
  <2>3. /\ DOMAIN configs = 1..Len(configs) /\ DOMAIN added = 1..Len(added)
        /\ Len(configs) \in Nat /\ Len(added) \in Nat
        /\ DOMAIN configs' = 1..Len(configs) + Len(added)
    BY <2>1, <2>2
  <2>4. ASSUME NEW k \in DOMAIN added
        PROVE Len(configs) + k \in DOMAIN configs' /\ configs'[Len(configs) + k] = added[k]
    <3>1. Len(configs) + k - Len(configs) = k /\ ~(Len(configs) + k <= Len(configs))
          /\ Len(configs) + k \in 1..Len(configs) + Len(added)
      BY <2>3
    <3>. QED BY <2>2, <2>3, <3>1
  <2>5. ASSUME NEW i \in DOMAIN configs', i \notin DOMAIN configs
        PROVE \E k \in DOMAIN added : i = Len(configs) + k
    <3>1. i - Len(configs) \in 1..Len(added) /\ i = Len(configs) + (i - Len(configs))
      BY <2>3, <2>5
    <3>. QED BY <2>3, <3>1
  <2>6. \A i \in DOMAIN configs : i \in DOMAIN configs' /\ configs'[i] = configs[i]
    BY <2>2, <2>3
  <2>. QED BY <2>3, <2>4, <2>5, <2>6
<1>14. \A k \in DOMAIN added : \A j \in DOMAIN configs : configs[j].file # added[k].file
  BY <1>8, <1>9, <1>11
<1>15. \A k, l \in DOMAIN added : added[k].file = added[l].file => k = l
  <2>1. SUFFICES ASSUME NEW k \in DOMAIN added, NEW l \in DOMAIN added,
                        added[k].file = added[l].file
                 PROVE k = l
    OBVIOUS
  <2>2. PICK m \in DOMAIN found, n \in DOMAIN found : added[k] = infos[m] /\ added[l] = infos[n]
    BY <1>11
  <2>3. m = n
    BY <1>6, <1>8, <2>1, <2>2
  <2>. QED BY <1>10, <2>2, <2>3
<1>16. Reports(configs)'
  <2>1. ASSUME NEW i \in DOMAIN configs', NEW j \in DOMAIN configs',
               configs'[i].file = configs'[j].file
        PROVE i = j
    BY <1>13, <1>14, <1>15, <2>1 DEF Reports
  <2>2. ASSUME NEW i \in DOMAIN configs' PROVE LeadsBack(configs[i])'
    <3>1. PICK info : info = configs'[i]
      OBVIOUS
    <3>2. LeadsBack(info)
      <4>1. CASE i \in DOMAIN configs
        BY <1>13, <3>1, <4>1 DEF Reports
      <4>2. CASE i \notin DOMAIN configs
        <5>1. PICK k \in DOMAIN added : i = Len(configs) + k
          BY <1>13, <4>2
        <5>2. PICK m \in DOMAIN found : added[k] = infos[m]
          BY <1>11
        <5>. QED BY <1>7, <1>13, <3>1, <5>1, <5>2
      <4>. QED BY <4>1, <4>2
    <3>3. LeadsBack(info)'
      BY <3>2, LeadsBackStays
    <3>. QED BY <3>1, <3>3
  <2>. QED BY <2>1, <2>2 DEF Reports
<1>17. Files(configs)' = Files(configs) \cup {found[i] : i \in DOMAIN found}
  <2>1. ASSUME NEW f \in Files(configs)'
        PROVE  f \in Files(configs) \cup {found[i] : i \in DOMAIN found}
    <3>1. PICK i \in DOMAIN configs' : f = configs'[i].file
      BY <2>1 DEF Files
    <3>2. CASE i \in DOMAIN configs
      BY <1>13, <3>1, <3>2 DEF Files
    <3>3. CASE i \notin DOMAIN configs
      <4>1. PICK k \in DOMAIN added : i = Len(configs) + k
        BY <1>13, <3>3
      <4>2. PICK m \in DOMAIN found : added[k] = infos[m]
        BY <1>11
      <4>3. f = found[m]
        BY <1>8, <1>13, <3>1, <4>1, <4>2
      <4>. QED BY <4>3
    <3>. QED BY <3>2, <3>3
  <2>2. ASSUME NEW f \in Files(configs) PROVE f \in Files(configs)'
    BY <1>13, <2>2 DEF Files
  <2>3. ASSUME NEW m \in DOMAIN found PROVE found[m] \in Files(configs)'
    <3>1. CASE infos[m] \in new
      <4>1. PICK k \in DOMAIN added : added[k] = infos[m]
        BY <1>12, <3>1
      <4>2. /\ Len(configs) + k \in DOMAIN configs'
            /\ configs'[Len(configs) + k].file = found[m]
        BY <1>8, <1>13, <4>1
      <4>. QED BY <4>2 DEF Files
    <3>2. CASE infos[m] \notin new
      <4>1. PICK j \in DOMAIN configs : configs[j].file = found[m]
        BY <1>8, <1>9, <3>2
      <4>. QED BY <1>13, <4>1 DEF Files
    <3>. QED BY <3>1, <3>2
  <2>. QED BY <2>1, <2>2, <2>3
<1>. QED BY <1>6, <1>16, <1>17

\* The files of one configurable more.
LEMMA FilesOfNext ==
  ASSUME NEW r, NEW n \in Nat \ {0}
  PROVE FilesOf(r, n) = FilesOf(r, n - 1) \cup InstancesOf(r.configurables[n])
<1>1. 1..n = 1..n - 1 \cup {n}
  OBVIOUS
<1>. QED BY <1>1 DEF FilesOf

\* While no file comes or goes the files of a configurable are the same.
LEMMA FilesStay ==
  ASSUME UNCHANGED <<home, files>>
  PROVE /\ \A pattern : Search(pattern) = Search(pattern)'
        /\ \A path : ResolvePath(path) = ResolvePath(path)'
        /\ \A r, n : FilesOf(r, n) = FilesOf(r, n)'
<1>1. \A pattern : Search(pattern) = Search(pattern)'
  BY DEF Search
<1>2. \A path : ResolvePath(path) = ResolvePath(path)'
  BY DEF ResolvePath
<1>3. \A c : InstancesOf(c) = InstancesOf(c)'
  BY DEF InstancesOf, Search, ResolvePath
<1>4. \A r, n : FilesOf(r, n) = FilesOf(r, n)'
  BY <1>3 DEF FilesOf
<1>. QED BY <1>1, <1>2, <1>4

\* Without any files there is nothing to report.
LEMMA NoReports ==
  /\ Reports(<< >>) /\ Files(<< >>) = {}
  /\ \A r : FilesOf(r, 0) = {}
<1>1. DOMAIN << >> = {} /\ 1..0 = {}
  OBVIOUS
<1>. QED BY <1>1 DEF Reports, Files, FilesOf

\* What is reported stays so, wherever a step leaves it.
LEMMA ReportsStay ==
  ASSUME UNCHANGED home
  PROVE \A infos : Reports(infos) => Reports(infos)'
BY LeadsBackStays DEF Reports

\* A step that leaves the inventory, and with it the files found or none of them.
LEMMA FilesKept ==
  ASSUME ReportsInv, FilesInv, UNCHANGED <<home, files, catalog, op, moved, inventory>>,
         \/ at' \notin {"deploy", "config"} /\ configs' = configs
         \/ at' = "deploy" /\ conf' = 1 /\ configs' = << >>
  PROVE ReportsInv' /\ FilesInv'
<1>1. \A infos : Reports(infos) => Reports(infos)'
  BY ReportsStay
<1>2. Reports(configs)' 
  <2>1. PICK infos : infos = configs'
    OBVIOUS
  <2>2. Reports(infos)
    BY <2>1, NoReports DEF ReportsInv
  <2>. QED BY <1>1, <2>1, <2>2
<1>3. \A k \in DOMAIN inventory : Reports(inventory[k].configs)'
  BY <1>1 DEF ReportsInv
<1>4. \A r, n : FilesOf(r, n) = FilesOf(r, n)'
  BY FilesStay
<1>5. at' \in {"deploy", "config"} =>
        at' = "deploy" /\ Files(configs)' = FilesOf(catalog[rule], conf - 1)'
  <2>1. SUFFICES ASSUME at' = "deploy", conf' = 1, configs' = << >>
                 PROVE Files(configs)' = FilesOf(catalog[rule], conf - 1)'
    OBVIOUS
  <2>2. DOMAIN configs' = {} /\ 1..(conf - 1)' = {}
    BY <2>1
  <2>. QED BY <2>2 DEF Files, FilesOf
<1>6. ASSUME op' = "GetInstalledPackages", ~moved'
      PROVE \A k \in DOMAIN inventory :
              \E r \in DOMAIN catalog :
                /\ catalog[r].product = inventory[k].product
                /\ Files(inventory[k].configs)' =
                     FilesOf(catalog[r], Len(catalog[r].configurables))'
  BY <1>4, <1>6 DEF FilesInv, Files
<1>7. FilesInv'
  BY <1>5, <1>6 DEF FilesInv
<1>. QED BY <1>2, <1>3, <1>7 DEF ReportsInv

\* A search for one configurable adds the files that it should be reported with.
LEMMA SearchContinues ==
  ASSUME Types, ReportsInv, FilesInv, SearchDeployPath \/ SearchConfigPath
  PROVE ReportsInv' /\ FilesInv'
<1>1. /\ at \in {"deploy", "config"} /\ HasCurrent
      /\ UNCHANGED <<home, files, catalog, op, moved, inventory, rule>>
  BY DEF SearchDeployPath, SearchConfigPath, Types, StageInv, system, history
<1>2. configs \in Seq(Infos) /\ home \in Seq(STRING)
  BY DiscoveryAssumption DEF Types, TypeOK, DiscoveryTypeOK
<1>3. PICK c : c = Current
  OBVIOUS
<1>4. conf \in Nat \ {0} /\ c \in Configurables /\ c = catalog[rule].configurables[conf]
  <2>1. /\ rule \in 1..Len(catalog) /\ conf \in Nat \ {0}
        /\ Len(catalog[rule].configurables) \in Nat
        /\ catalog[rule].configurables \in Seq(Configurables)
    BY <1>1, PositionType
  <2>2. conf \in 1..Len(catalog[rule].configurables)
    BY <1>1, <2>1 DEF HasCurrent
  <2>. QED BY <1>3, <2>1, <2>2 DEF Current
<1>5. c.deployPath \in Seq(STRING) /\ c.cfgPath \in Seq(STRING)
  BY <1>4 DEF Configurables
<1>6. /\ \A pattern : Search(pattern) = Search(pattern)'
      /\ \A path : ResolvePath(path) = ResolvePath(path)'
      /\ \A r, n : FilesOf(r, n) = FilesOf(r, n)'
  BY <1>1, FilesStay
<1>7. Reports(configs) /\ \A k \in DOMAIN inventory : Reports(inventory[k].configs)'
  BY <1>1, ReportsStay DEF ReportsInv
<1>8. ASSUME op' = "GetInstalledPackages", ~moved'
      PROVE \A k \in DOMAIN inventory :
              \E r \in DOMAIN catalog :
                /\ catalog[r].product = inventory[k].product
                /\ Files(inventory[k].configs)' =
                     FilesOf(catalog[r], Len(catalog[r].configurables))'
  BY <1>1, <1>6, <1>8 DEF FilesInv, Files
<1>9. ASSUME NEW path \in Seq(STRING), NEW isDeployPath \in BOOLEAN, Add(c, path, isDeployPath),
             at' = "deploy", conf' = conf + 1,
             op = "GetInstalledPackages" /\ ~moved => FoundFor(c, path) = InstancesOf(c)
      PROVE ReportsInv' /\ FilesInv'
  <2>1. Reports(configs)' /\ Files(configs)' = Files(configs) \cup FoundFor(c, path)
    BY <1>1, <1>2, <1>4, <1>7, <1>9, AddIs
  <2>2. ReportsInv'
    BY <1>1, <1>7, <2>1 DEF ReportsInv
  <2>3. ASSUME op = "GetInstalledPackages", ~moved
        PROVE Files(configs)' = FilesOf(catalog[rule], conf - 1)'
    <3>1. Files(configs) = FilesOf(catalog[rule], conf - 1)
      BY <1>1, <2>3 DEF FilesInv
    <3>2. FilesOf(catalog[rule], conf) = FilesOf(catalog[rule], conf - 1) \cup InstancesOf(c)
      BY <1>4, FilesOfNext
    <3>3. Files(configs)' = FilesOf(catalog[rule], conf)
      BY <1>9, <2>1, <2>3, <3>1, <3>2
    <3>4. PICK r, n : r = catalog[rule] /\ n = conf
      OBVIOUS
    <3>5. FilesOf(r, n)' = FilesOf(r, n)
      BY <1>6
    <3>6. r = catalog[rule]' /\ n = conf' - 1
      BY <1>1, <1>4, <1>9, <3>4
    <3>. QED BY <3>3, <3>4, <3>5, <3>6
  <2>4. FilesInv'
    BY <1>1, <1>8, <1>9, <2>3 DEF FilesInv
  <2>. QED BY <2>2, <2>4
<1>10. CASE SearchDeployPath /\ Search(ResolvePath(Current.deployPath)) # << >>
  <2>1. Add(c, c.deployPath, TRUE) /\ conf' = conf + 1 /\ at' = "deploy" /\ c.deployPath # << >>
    BY <1>3, <1>10 DEF SearchDeployPath
  <2>2. FoundFor(c, c.deployPath) = InstancesOf(c)
    BY <1>3, <1>10, <2>1 DEF FoundFor, InstancesOf
  <2>. QED BY <1>5, <1>9, <2>1, <2>2
<1>11. CASE SearchDeployPath /\ Search(ResolvePath(Current.deployPath)) = << >>
  <2>1. at' = "config" /\ UNCHANGED <<conf, configs>> /\ at = "deploy"
    BY <1>11 DEF SearchDeployPath
  <2>2. ReportsInv'
    <3>1. Reports(configs)'
      BY <1>1, <1>7, <2>1, ReportsStay
    <3>. QED BY <1>1, <1>7, <3>1 DEF ReportsInv
  <2>3. Search(ResolvePath(Current.deployPath))' = << >>
    <3>1. PICK p, q : p = Current.deployPath /\ q = ResolvePath(p)
      OBVIOUS
    <3>2. Search(q) = << >>
      BY <1>11, <3>1
    <3>3. Search(q)' = << >> /\ ResolvePath(p)' = q
      BY <1>6, <3>1, <3>2
    <3>4. p = Current.deployPath'
      BY <1>1, <2>1, <3>1 DEF Current
    <3>. QED BY <3>3, <3>4
  <2>4. ASSUME op = "GetInstalledPackages", ~moved
        PROVE Files(configs)' = FilesOf(catalog[rule], conf - 1)'
    <3>1. Files(configs) = FilesOf(catalog[rule], conf - 1)
      BY <1>1, <2>4 DEF FilesInv
    <3>2. PICK r, n : r = catalog[rule] /\ n = conf - 1
      OBVIOUS
    <3>3. FilesOf(r, n)' = FilesOf(r, n)
      BY <1>6
    <3>4. r = catalog[rule]' /\ n = (conf - 1)'
      BY <1>1, <2>1, <3>2
    <3>5. Files(configs)' = Files(configs)
      BY <2>1 DEF Files
    <3>. QED BY <3>1, <3>2, <3>3, <3>4, <3>5
  <2>5. FilesInv'
    BY <1>1, <1>8, <2>1, <2>3, <2>4 DEF FilesInv
  <2>. QED BY <2>2, <2>5
<1>12. CASE SearchConfigPath
  <2>1. /\ Add(c, c.cfgPath, FALSE) /\ conf' = conf + 1 /\ at' = "deploy"
        /\ at = "config" \/ c.deployPath = << >>
    BY <1>3, <1>12 DEF SearchConfigPath
  <2>2. ASSUME op = "GetInstalledPackages", ~moved
        PROVE FoundFor(c, c.cfgPath) = InstancesOf(c)
    <3>1. c.deployPath = << >> \/ Search(ResolvePath(c.deployPath)) = << >>
      BY <1>3, <2>1, <2>2 DEF FilesInv
    <3>. QED BY <3>1 DEF FoundFor, InstancesOf
  <2>. QED BY <1>5, <1>9, <2>1, <2>2
<1>. QED BY <1>10, <1>11, <1>12

\* Every step of a discovery keeps what is known of the files.
LEMMA FilesContinue ==
  ASSUME Types, ReportsInv, FilesInv, DiscoveryStep
  PROVE ReportsInv' /\ FilesInv'
<1>1. UNCHANGED <<home, files, catalog, op, moved>>
  BY DEF DiscoveryStep, ListPackages, PassOver, Query, NextRule, Finish, SearchDeployPath,
         SearchConfigPath, AddPackage, Throw, system, position, history
<1>2. ASSUME Throw PROVE ReportsInv' /\ FilesInv'
  <2>1. at' = "idle" /\ inventory' = << >> /\ configs' = configs
    BY <1>2 DEF Throw, position
  <2>2. DOMAIN inventory' = {}
    BY <2>1
  <2>3. Reports(configs)'
    <3>1. PICK infos : infos = configs
      OBVIOUS
    <3>2. Reports(infos)'
      BY <1>1, <3>1, ReportsStay DEF ReportsInv
    <3>. QED BY <2>1, <3>1, <3>2
  <2>. QED BY <2>1, <2>2, <2>3 DEF ReportsInv, FilesInv
<1>3. CASE ListPackages \/ PassOver \/ NextRule \/ Finish
  <2>1. Throw \/ (at' \in {"query", "idle"} /\ UNCHANGED <<configs, inventory>>)
    BY <1>3 DEF ListPackages, PassOver, NextRule, Finish, AtIdentifier, position
  <2>2. CASE ~Throw
    <3>1. at' \notin {"deploy", "config"} /\ UNCHANGED <<configs, inventory>>
      BY <2>1, <2>2
    <3>. QED BY <1>1, <3>1, FilesKept
  <2>. QED BY <1>2, <2>2
<1>4. CASE Query
  <2>1. \/ Throw
        \/ at' = "query" /\ UNCHANGED <<configs, inventory>>
        \/ at' = "deploy" /\ conf' = 1 /\ configs' = << >> /\ UNCHANGED inventory
    BY <1>4 DEF Query, AtIdentifier
  <2>2. CASE at' = "query" /\ UNCHANGED <<configs, inventory>>
    BY <1>1, <2>2, FilesKept
  <2>3. CASE at' = "deploy" /\ conf' = 1 /\ configs' = << >> /\ UNCHANGED inventory
    BY <1>1, <2>3, FilesKept
  <2>. QED BY <1>2, <2>1, <2>2, <2>3
<1>5. CASE SearchDeployPath \/ SearchConfigPath
  BY <1>5, SearchContinues
<1>6. CASE AddPackage
  <2>. DEFINE p == [product |-> catalog[rule].product, version |-> version, configs |-> configs]
              n == Len(inventory) + 1
  <2>1. /\ at = "deploy" /\ at' = "query" /\ inventory' = Append(inventory, p) /\ ~HasCurrent
        /\ configs' = << >>
    BY <1>6 DEF AddPackage
  <2>2. conf = Len(catalog[rule].configurables) + 1 /\ rule \in DOMAIN catalog
    <3>1. /\ rule \in 1..Len(catalog) /\ conf \in 1..Len(catalog[rule].configurables) + 1
          /\ Len(catalog[rule].configurables) \in Nat
      BY <2>1, PositionType DEF PositionOK
    <3>2. DOMAIN catalog = 1..Len(catalog)
      BY RuleType DEF Types, TypeOK, DiscoveryTypeOK
    <3>. QED BY <2>1, <3>1, <3>2 DEF HasCurrent
  <2>3. /\ DOMAIN inventory' = DOMAIN inventory \cup {n}
        /\ inventory'[n] = p
        /\ \A k \in DOMAIN inventory : inventory'[k] = inventory[k]
    <3>. DEFINE T == [product : STRING, version : 0..MaxVersion, configs : Seq(Infos)]
                q == p
    <3>1. inventory \in Seq(T)
      BY DEF Types, TypeOK, DiscoveryTypeOK, Inventories
    <3>2. inventory' = Append(inventory, q)
      BY <2>1
    <3>. HIDE DEF p, q, T
    <3>3. /\ DOMAIN inventory = 1..Len(inventory) /\ Len(inventory) \in Nat
          /\ DOMAIN inventory' = 1..Len(inventory) + 1
          /\ inventory'[Len(inventory) + 1] = q
          /\ \A k \in 1..Len(inventory) : inventory'[k] = inventory[k]
      BY <3>1, <3>2
    <3>4. 1..Len(inventory) + 1 = 1..Len(inventory) \cup {Len(inventory) + 1}
      BY <3>3
    <3>. QED BY <3>3, <3>4 DEF q
  <2>4. p.product = catalog[rule].product /\ p.configs = configs
    OBVIOUS
  <2>. HIDE DEF p, n
  <2>5. \A infos : Reports(infos) => Reports(infos)'
    BY <1>1, ReportsStay
  <2>6. Reports(configs)'
    <3>1. PICK infos : infos = configs'
      OBVIOUS
    <3>. QED BY <2>1, <2>5, <3>1, NoReports
  <2>7. ASSUME NEW k \in DOMAIN inventory' PROVE Reports(inventory[k].configs)'
    <3>1. PICK infos : infos = inventory'[k].configs
      OBVIOUS
    <3>2. Reports(infos)
      BY <2>3, <2>4, <3>1 DEF ReportsInv
    <3>. QED BY <2>5, <3>1, <3>2
  <2>8. \A r, m : FilesOf(r, m) = FilesOf(r, m)'
    BY <1>1, FilesStay
  <2>9. ASSUME op = "GetInstalledPackages", ~moved, NEW k \in DOMAIN inventory'
        PROVE \E r \in DOMAIN catalog :
                /\ catalog[r].product = inventory'[k].product
                /\ Files(inventory'[k].configs) =
                     FilesOf(catalog[r], Len(catalog[r].configurables))
    <3>1. CASE k \in DOMAIN inventory
      BY <2>3, <2>9, <3>1 DEF FilesInv
    <3>2. CASE k = n
      <4>1. Files(configs) = FilesOf(catalog[rule], conf - 1)
        BY <2>1, <2>9 DEF FilesInv
      <4>2. conf - 1 = Len(catalog[rule].configurables)
        <5>1. Len(catalog[rule].configurables) \in Nat
          BY <2>1, PositionType
        <5>. QED BY <2>2, <5>1
      <4>. QED BY <2>2, <2>3, <2>4, <3>2, <4>1, <4>2
    <3>. QED BY <2>3, <3>1, <3>2
  <2>10. FilesInv'
    <3>1. SUFFICES ASSUME op' = "GetInstalledPackages", ~moved', NEW k \in DOMAIN inventory'
                   PROVE \E r \in DOMAIN catalog' :
                           /\ catalog'[r].product = inventory'[k].product
                           /\ Files(inventory[k].configs)' =
                                FilesOf(catalog[r], Len(catalog[r].configurables))'
      BY <2>1 DEF FilesInv
    <3>2. PICK r \in DOMAIN catalog :
            /\ catalog[r].product = inventory'[k].product
            /\ Files(inventory'[k].configs) =
                 FilesOf(catalog[r], Len(catalog[r].configurables))
      BY <1>1, <2>9, <3>1
    <3>3. PICK s, m : s = catalog[r] /\ m = Len(catalog[r].configurables)
      OBVIOUS
    <3>4. FilesOf(s, m)' = FilesOf(s, m) /\ s = catalog'[r] /\ m = Len(catalog'[r].configurables)
      BY <1>1, <2>8, <3>3
    <3>5. Files(inventory[k].configs)' = Files(inventory'[k].configs)
      BY DEF Files
    <3>. QED BY <1>1, <3>2, <3>3, <3>4, <3>5
  <2>. QED BY <2>6, <2>7, <2>10 DEF ReportsInv
<1>. QED BY <1>3, <1>4, <1>5, <1>6 DEF DiscoveryStep

\* Neither a call that installs nor one about a path touches what was discovered.
LEMMA CallsLeave ==
  ASSUME Installation \/ Permissions PROVE UNCHANGED <<home, files, configs, inventory>>
<1>1. CASE \E c \in Components :
             InstallComponent(c) \/ UpdateComponent(c) \/ UninstallComponent(c)
  BY <1>1 DEF InstallComponent, UpdateComponent, Install, UninstallComponent, Begin,
              UnchangedDiscovery, position
<1>2. CASE Verify \/ Trust \/ ListChoices \/ Run \/ Shell
  BY <1>2 DEF Verify, Trust, ListChoices, Run, Shell, system, UnchangedDiscovery, position
<1>3. CASE Permissions
  BY <1>3 DEF Permissions, RestrictPathPermissionsToAdmins, ApplyBultinUsersReadPermissions,
              BeginPermissions, TakeFromOthers, GiveToOwner, LetRead, Chmod, system,
              UnchangedDiscovery, position
<1>. QED BY <1>1, <1>2, <1>3 DEF Installation

\* During and after every discovery it is known which files were found.
THEOREM FilesCorrect == Spec => [](ReportsInv /\ FilesInv)
<1>1. Init => ReportsInv /\ FilesInv
  <2>. SUFFICES ASSUME Init PROVE ReportsInv /\ FilesInv
    OBVIOUS
  <2>1. configs = << >> /\ inventory = << >> /\ op = "none" /\ DOMAIN inventory = {}
    BY DEF Init, InitDiscovery
  <2>. QED BY <2>1, NoReports DEF ReportsInv, FilesInv
<1>2. CallInv /\ Types /\ ReportsInv /\ FilesInv /\ [Next]_vars => ReportsInv' /\ FilesInv'
  <2>. SUFFICES ASSUME CallInv, Types, ReportsInv, FilesInv, [Next]_vars
                PROVE ReportsInv' /\ FilesInv'
    OBVIOUS
  <2>1. CASE \E c \in Catalogs : GetInstalledPackages(c) /\ NoComponent /\ NoPath
    <3>1. /\ at' \notin {"deploy", "config"} /\ configs' = << >> /\ inventory' = << >>
          /\ UNCHANGED home
      BY <2>1 DEF GetInstalledPackages
    <3>2. DOMAIN inventory' = {}
      BY <3>1
    <3>3. Reports(configs)'
      <4>1. PICK infos : infos = configs'
        OBVIOUS
      <4>. QED BY <3>1, <4>1, NoReports, ReportsStay
    <3>. QED BY <3>1, <3>2, <3>3 DEF ReportsInv, FilesInv
  <2>2. CASE DiscoveryStep /\ UNCHANGED <<installation, mode>>
    BY <2>2, FilesContinue
  <2>3. CASE Installation \/ Permissions
    <3>1. UNCHANGED <<home, configs, inventory>> /\ op' # "GetInstalledPackages"
      BY <2>3, CallsLeave, OtherCalls
    <3>2. \A infos : Reports(infos) => Reports(infos)'
      BY <3>1, ReportsStay
    <3>3. Reports(configs)'
      <4>1. PICK infos : infos = configs'
        OBVIOUS
      <4>. QED BY <3>1, <3>2, <4>1 DEF ReportsInv
    <3>4. \A k \in DOMAIN inventory : Reports(inventory[k].configs)'
      BY <3>1, <3>2 DEF ReportsInv
    <3>. QED BY <3>1, <3>3, <3>4 DEF ReportsInv, FilesInv
  <2>4. CASE (OthersStep /\ UNCHANGED <<installation, mode>>) \/ UNCHANGED vars
    <3>1. /\ UNCHANGED <<home, catalog, rule, conf, configs, inventory, op, at>>
          /\ moved' \/ UNCHANGED <<files, moved>>
      BY <2>4 DEF OthersStep, ChangePackage, ChangeFile, position, vars, discoveryVars, system,
                  history
    <3>2. \A infos : Reports(infos) => Reports(infos)'
      BY <3>1, ReportsStay
    <3>3. Reports(configs)'
      <4>1. PICK infos : infos = configs'
        OBVIOUS
      <4>. QED BY <3>1, <3>2, <4>1 DEF ReportsInv
    <3>4. \A k \in DOMAIN inventory : Reports(inventory[k].configs)'
      BY <3>1, <3>2 DEF ReportsInv
    <3>5. ReportsInv'
      BY <3>1, <3>3, <3>4 DEF ReportsInv
    <3>6. CASE moved'
      BY <3>5, <3>6 DEF FilesInv
    <3>7. CASE UNCHANGED <<files, moved>>
      <4>1. Search(ResolvePath(Current.deployPath))' = Search(ResolvePath(Current.deployPath))
        BY <3>1, <3>7 DEF Search, ResolvePath, Current
      <4>2. FilesOf(catalog[rule], conf - 1)' = FilesOf(catalog[rule], conf - 1)
        BY <3>1, <3>7 DEF FilesOf, InstancesOf, Search, ResolvePath
      <4>3. \A r, n : FilesOf(r, n) = FilesOf(r, n)'
        BY <3>1, <3>7, FilesStay
      <4>4. ASSUME op = "GetInstalledPackages", ~moved
            PROVE \A k \in DOMAIN inventory :
                    \E r \in DOMAIN catalog :
                      /\ catalog[r].product = inventory[k].product
                      /\ Files(inventory[k].configs)' =
                           FilesOf(catalog[r], Len(catalog[r].configurables))'
        BY <3>1, <4>3, <4>4 DEF FilesInv, Files
      <4>5. Files(configs)' = Files(configs)
        BY <3>1 DEF Files
      <4>. QED BY <3>1, <3>5, <3>7, <4>1, <4>2, <4>4, <4>5 DEF FilesInv
    <3>. QED BY <3>1, <3>5, <3>6, <3>7
  <2>. QED BY <2>1, <2>2, <2>3, <2>4 DEF Next, Discover
<1>. QED BY <1>1, <1>2, CallCorrect, TypesCorrect, PTL DEF Spec

\* GetInstalledPackages() reports each package with exactly the files that the
\* configurables of a rule for it find, up to their limits and each file once,
\* unless files come or go; and whoever resolves a path that is reported comes to
\* the file, but for what LeadsBack() excepts.
THEOREM EveryFileIsReported == Spec => []ConfigurablesAreReported
<1>1. Types /\ ReportsInv /\ FilesInv => ConfigurablesAreReported
  <2>. SUFFICES ASSUME Types, ReportsInv, FilesInv, HasReturned("GetInstalledPackages", "0"),
                       NEW k \in DOMAIN inventory
                PROVE LET infos == inventory[k].configs IN
                      /\ \A i, j \in DOMAIN infos : infos[i].file = infos[j].file => i = j
                      /\ \A i \in DOMAIN infos : LeadsBack(infos[i])
                      /\ ~moved =>
                           \E r \in DOMAIN catalog :
                             /\ catalog[r].product = inventory[k].product
                             /\ {infos[i].file : i \in DOMAIN infos} =
                                  UNION {InstancesOf(catalog[r].configurables[c]) :
                                         c \in DOMAIN catalog[r].configurables}
    BY DEF ConfigurablesAreReported
  <2>1. Reports(inventory[k].configs)
    BY DEF ReportsInv
  <2>2. ASSUME ~moved
        PROVE \E r \in DOMAIN catalog :
                /\ catalog[r].product = inventory[k].product
                /\ Files(inventory[k].configs) =
                     FilesOf(catalog[r], Len(catalog[r].configurables))
    BY <2>2 DEF FilesInv, HasReturned
  <2>3. \A r \in DOMAIN catalog :
          DOMAIN catalog[r].configurables = 1..Len(catalog[r].configurables)
    <3>1. SUFFICES ASSUME NEW r \in DOMAIN catalog
                   PROVE DOMAIN catalog[r].configurables = 1..Len(catalog[r].configurables)
      OBVIOUS
    <3>2. r \in 1..Len(catalog)
      BY RuleType DEF Types, TypeOK, DiscoveryTypeOK
    <3>. DEFINE c == catalog[r].configurables
    <3>3. c \in Seq(Configurables)
      BY <3>2, PositionType
    <3>. HIDE DEF c
    <3>4. DOMAIN c = 1..Len(c)
      BY <3>3
    <3>. QED BY <3>4 DEF c
  <2>. QED BY <2>1, <2>2, <2>3 DEF Reports, Files, FilesOf
<1>. QED BY <1>1, FilesCorrect, TypesCorrect, PTL
===============================================================================
