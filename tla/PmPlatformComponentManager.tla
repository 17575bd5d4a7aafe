---------------------- MODULE PmPlatformComponentManager -----------------------
(***************************************************************************)
(* PmPlatformComponentManager: what the package manager library can ask of *)
(* the platform.  To discover, it asks PmPlatformDiscovery; to install, it *)
(* verifies and runs what was downloaded; permissions are FileUtilities'.  *)
(*                                                                         *)
(* One call is made after the other.  A command may not run, fail, be done *)
(* by halves, or be done without anybody learning of it (CommandExec).     *)
(***************************************************************************)
EXTENDS PmPlatformDiscovery

CONSTANTS
  Keys,        \* the keys packages are signed with
  TrustedKeys, \* those the system knows
  Components   \* what there is to install: a set of PmComponents

\* A PmComponent: the package in it, whether its path exists, whether its type
\* is the platform's, who is to have signed it and who has, and its arguments.
PmComponents ==
  [name : Names, version : 1..MaxVersion, present : BOOLEAN, type : {"own", "other"},
   signer : Keys \cup {"none"}, signature : Keys \cup {"none"},
   args : SUBSET {"choices", "malformed"}]

ASSUME ComponentAssumption ==
  /\ TrustedKeys \subseteq Keys /\ "none" \notin Keys
  /\ Components \subseteq PmComponents

VARIABLES
  component,  \* the call's component,
  verified,   \* its signature has been verified,
  effect,     \* what the call has done to its package
  temp,       \* its list of choices is on disk
  mode        \* what the mode of the path last asked about has: "owner" may
              \* read and write, "group" and "others" may write or execute,
              \* the others may "read"

installation == <<component, verified, effect, temp>>
vars == <<discoveryVars, installation, mode>>

TypeOK ==
  /\ DiscoveryTypeOK
  /\ op \in {"none", "GetInstalledPackages", "InstallComponent", "UpdateComponent",
             "UninstallComponent", "RestrictPathPermissionsToAdmins",
             "ApplyBultinUsersReadPermissions"}
  /\ at \in {"idle", "list", "query", "deploy", "config", "verify", "trust", "choices",
             "run", "shell", "remove", "add", "read"}
  /\ component \in Components \cup {<< >>}
  /\ verified \in BOOLEAN
  /\ effect \in {"none", "partly", "done"}
  /\ temp \in BOOLEAN
  /\ mode \subseteq {"owner", "group", "others", "read"}

Init ==
  /\ InitDiscovery
  /\ component = << >> /\ verified = FALSE /\ effect = "none" /\ temp = FALSE
  /\ mode = {}

\* A call that is not about a component, or not about a path.
NoComponent == component' = << >> /\ verified' = FALSE /\ effect' = "none" /\ temp' = FALSE
NoPath == mode' = {}

UnchangedDiscovery == UNCHANGED <<position, inventory, cache>>

-------------------------------------------------------------------------------
(* Installing *)

Answer(a) == at' = "idle" /\ answer' = a
GoTo(place) == at' = place /\ answer' = "none"

\* Once it is verified: sanitizeParamsXml() throws if a choice is no number, and
\* a list of choices is made for the installer, all this on macOS.
Proceed(name, c) ==
  IF platform = "macOS" /\ name # "UninstallComponent"
  THEN IF "malformed" \in c.args THEN Answer("throws")
       ELSE GoTo(IF "choices" \in c.args THEN "choices" ELSE "run")
  ELSE GoTo("run")

Begin(name, c) ==
  /\ Start(name)
  /\ component' = c /\ verified' = FALSE /\ effect' = "none" /\ temp' = FALSE
  /\ NoPath
  /\ UNCHANGED <<platform, home, db, files, changes>> /\ UnchangedDiscovery

\* InstallComponent(), and UpdateComponent(), which only puts the answer in other
\* words, one of them that a reboot is required.  On macOS a component without a
\* signer is not verified.
Install(name, c) ==
  /\ Begin(name, c)
  /\ IF ~c.present \/ c.type = "other" THEN Answer("-1")
     ELSE IF platform = "macOS" /\ c.signer = "none" THEN Proceed(name, c)
     ELSE GoTo("verify")

InstallComponent(c) == Install("InstallComponent", c)
UpdateComponent(c) == Install("UpdateComponent", c)

\* On Linux nothing is done.  On macOS the uninstaller is a package, or, if it is
\* not verified to be one, a script.
UninstallComponent(c) ==
  /\ Begin("UninstallComponent", c)
  /\ IF platform # "macOS" THEN Answer("0")
     ELSE IF ~c.present THEN Answer("-1")
     ELSE GoTo(IF c.signer = "none" THEN "shell" ELSE "verify")

\* What follows a verification.
Verified(ok) ==
  /\ verified' = ok
  /\ IF ok THEN Proceed(op, component)
     ELSE IF platform # "macOS" THEN Answer("-1")
     ELSE IF op = "UninstallComponent" THEN GoTo("shell")
     ELSE Answer("status")

\* verifyPackage() asks dpkg-sig, which knows the trusted keys, and compares the
\* signer; PackageVerify() leaves both to the system; for rpm the signature of
\* the package comes first.
Verify ==
  /\ at = "verify"
  /\ \E fails \in Fails("verify") :
       LET c == component IN
       CASE platform = "rpm" ->
              /\ IF fails \/ c.signature = "none" THEN Answer("-1") ELSE GoTo("trust")
              /\ UNCHANGED verified
         [] platform = "deb" ->
              Verified(~fails /\ c.signature \in TrustedKeys /\ c.signature = c.signer)
         [] OTHER -> Verified(~fails /\ c.signature = c.signer)
  /\ UNCHANGED <<system, op, component, effect, temp, mode, history>>
  /\ UnchangedDiscovery

\* Mutant: a trusted key is good enough, whoever was to sign.
TrustAnySigner ==
  /\ at = "trust"
  /\ \E fails \in Fails("verify") :
       Verified(~fails /\ component.signature \in TrustedKeys)
  /\ UNCHANGED <<system, op, component, effect, temp, mode, history>>
  /\ UnchangedDiscovery

\* is_trusted_by_system(), several commands each of which may fail, and then
\* the comparison with the signer.  A temporary directory for gpg that cannot be
\* made is an exception that leaves the call.
Trust ==
  /\ at = "trust"
  /\ \/ \E fails \in Fails("verify") :
          Verified(/\ ~fails /\ component.signature \in TrustedKeys
                   /\ component.signature = component.signer)
     \/ "verify" \in Faults /\ Answer("throws") /\ UNCHANGED verified
  /\ UNCHANGED <<system, op, component, effect, temp, mode, history>>
  /\ UnchangedDiscovery

\* The installer lists its choices into a temporary file.  Whether changing them
\* succeeds is not looked at.
ListChoices ==
  /\ at = "choices"
  /\ \/ GoTo("run") /\ temp' = TRUE
     \/ "run" \in Faults /\ Answer("throws") /\ UNCHANGED temp
  /\ UNCHANGED <<system, op, component, verified, effect, mode, history>>
  /\ UnchangedDiscovery

Target ==
  IF op = "UninstallComponent" THEN Absent
  ELSE [state |-> "installed", version |-> component.version]

Becomes(entry) == db' = [db EXCEPT ![component.name] = entry]

Nothing == UNCHANGED db /\ effect' = "none"
AllOfIt == Becomes(Target) /\ effect' = "done"

\* dpkg leaves a package it could not configure.
Half ==
  /\ platform = "deb"
  /\ Becomes([state |-> "partial", version |-> component.version])
  /\ effect' = "partly"

\* Mutant: the exit status of the command is not looked at.
RunIgnoresExitStatus ==
  /\ at = "run"
  /\ \/ AllOfIt \/ ("run" \in Faults /\ (Nothing \/ Half))
  /\ Answer("0")
  /\ temp' = FALSE
  /\ UNCHANGED <<platform, home, files, changes, calls, op, component, verified, mode, history>>
  /\ UnchangedDiscovery

\* The list of choices is removed, with an error code that nobody looks at.
RemoveChoices(others) ==
  \/ temp' = FALSE /\ failed' = others
  \/ temp /\ "remove" \in Faults /\ temp' = TRUE /\ failed' = TRUE

\* installPackageWithContext(), and installPackage() on macOS: the answer is the
\* exit status, there the output.
Run ==
  /\ at = "run"
  /\ \/ AllOfIt /\ Answer("0") /\ RemoveChoices(failed)
     \/ "run" \in Faults /\ (Nothing \/ Half) /\ Answer("-1") /\ RemoveChoices(failed)
     \/ "lost" \in Faults /\ (AllOfIt \/ Half) /\ Answer("-1") /\ RemoveChoices(TRUE)
     \/ /\ "run" \in Faults /\ platform = "macOS"
        /\ Nothing /\ Answer("throws") /\ UNCHANGED <<temp, failed>>
  /\ UNCHANGED <<platform, home, files, changes, calls, op, component, verified, mode,
                 seen, moved>>
  /\ UnchangedDiscovery

\* invokeShell(): whatever the script has done, it has succeeded.
Shell ==
  /\ at = "shell"
  /\ \/ (AllOfIt \/ Nothing) /\ Answer("0")
     \/ "run" \in Faults /\ Nothing /\ Answer("throws")
  /\ UNCHANGED <<platform, home, files, changes, calls, op, component, verified, temp, mode,
                 history>>
  /\ UnchangedDiscovery

-------------------------------------------------------------------------------
(* Permissions *)

HasAdminRestrictions(m) == "owner" \in m /\ {"group", "others"} \cap m = {}

BeginPermissions(name, present, m, done, place) ==
  /\ Start(name)
  /\ NoComponent /\ mode' = m
  /\ IF ~present THEN Answer("-1") ELSE IF done THEN Answer("0") ELSE GoTo(place)
  /\ UNCHANGED <<platform, home, db, files, changes>> /\ UnchangedDiscovery

RestrictPathPermissionsToAdmins(present, m) ==
  BeginPermissions("RestrictPathPermissionsToAdmins", present, m,
                   HasAdminRestrictions(m), "remove")

ApplyBultinUsersReadPermissions(present, m) ==
  BeginPermissions("ApplyBultinUsersReadPermissions", present, m, "read" \in m, "read")

\* std::filesystem::permissions() with an error code, which throws nothing.
Chmod(newMode, fails) ==
  /\ mode' = IF fails THEN mode ELSE newMode
  /\ failed' = (failed \/ fails)
  /\ UNCHANGED <<system, op, installation, seen, moved>> /\ UnchangedDiscovery

\* ApplyAdminRestrictions() takes from the others and gives to the owner, and
\* looks at the error code of neither.
TakeFromOthers ==
  /\ at = "remove"
  /\ \E fails \in Fails("chmod") : Chmod(mode \ {"group", "others"}, fails)
  /\ GoTo("add")

GiveToOwner ==
  /\ at = "add"
  /\ \E fails \in Fails("chmod") : Chmod(mode \cup {"owner"}, fails)
  /\ Answer("0")

\* ApplyUserRestrictions() does.
LetRead ==
  /\ at = "read"
  /\ \E fails \in Fails("chmod") :
       /\ Chmod(mode \cup {"read"}, fails)
       /\ Answer(IF fails THEN "-1" ELSE "0")

-------------------------------------------------------------------------------
Discover ==
  \/ \E c \in Catalogs : GetInstalledPackages(c) /\ NoComponent /\ NoPath
  \/ DiscoveryStep /\ UNCHANGED <<installation, mode>>

Installation ==
  \/ \E c \in Components :
       InstallComponent(c) \/ UpdateComponent(c) \/ UninstallComponent(c)
  \/ Verify \/ Trust \/ ListChoices \/ Run \/ Shell

Permissions ==
  \/ \E present \in BOOLEAN, m \in SUBSET {"owner", "group", "others", "read"} :
       \/ RestrictPathPermissionsToAdmins(present, m)
       \/ ApplyBultinUsersReadPermissions(present, m)
  \/ TakeFromOthers \/ GiveToOwner \/ LetRead

Next ==
  \/ Discover
  \/ Installation
  \/ Permissions
  \/ OthersStep /\ UNCHANGED <<installation, mode>>

Spec == Init /\ [][Next]_vars

-------------------------------------------------------------------------------
(* Properties *)

HasReturned(name, a) == at = "idle" /\ op = name /\ answer = a

\* Every package of an inventory was in the database, in the version reported,
\* at some time during the discovery, under an identifier of its product; and
\* each product is in it once.  On macOS the version may be missing: for a package
\* removed after the list was made, or if pkgutil failed.
DiscoveredWasThere ==
  HasReturned("GetInstalledPackages", "0") =>
    \A k \in DOMAIN inventory :
      /\ \E r \in DOMAIN catalog :
           /\ catalog[r].product = inventory[k].product
           /\ \E j \in DOMAIN Ids(catalog[r]) :
                LET i == Ids(catalog[r])[j] IN
                \/ /\ \E e \in seen[i.name] :
                        e # Absent /\ e.version = inventory[k].version
                   /\ i.type = "NVRA" => i.version = inventory[k].version
                \/ /\ platform = "macOS" /\ inventory[k].version = 0
                   /\ failed \/ Absent \in seen[i.name]
      /\ \A l \in DOMAIN inventory : inventory[l].product = inventory[k].product => l = k

\* A product with a package that stays in the database while the discovery goes
\* on is found, whatever happens to other packages, unless a query fails.
NothingOverlooked ==
  HasReturned("GetInstalledPackages", "0") /\ ~failed =>
    \A r \in DOMAIN catalog : \A j \in DOMAIN Ids(catalog[r]) :
      LET i == Ids(catalog[r])[j] IN
      (/\ Absent \notin seen[i.name]
       /\ i.type = "NVRA" =>
            platform = "rpm" /\ \A e \in seen[i.name] : e.version = i.version)
      => IsFound(catalog[r].product)

\* The files a configurable should be reported with: of those at its deploy path
\* or, if none is there, at its configuration path, the first few.
InstancesOf(c) ==
  LET deployed == IF c.deployPath = << >> THEN << >> ELSE Search(ResolvePath(c.deployPath))
      all == IF deployed # << >> THEN deployed ELSE Search(ResolvePath(c.cfgPath)) IN
  {all[i] : i \in {j \in DOMAIN all : j = 1 \/ j <= c.max_instances}}

\* A path reported leads back to its file, unless what follows the folder in it
\* can be found in the folder's own path, or this has a wildcard in it.
LeadsBack(info) ==
  info.path # info.file =>
    \/ ResolvePath(info.path) = info.file
    \/ \E n \in DOMAIN home : home[n] = Wildcard
    \/ \E n \in 0..Len(home) - 1 : Occurs(Tail(info.path), info.file, n)

\* Each package comes with the files of its configurables, each file once however
\* many of them find it, if none came or went; a path that is reported leads to the file.
ConfigurablesAreReported ==
  HasReturned("GetInstalledPackages", "0") =>
    \A k \in DOMAIN inventory :
      LET infos == inventory[k].configs IN
      /\ \A i, j \in DOMAIN infos : infos[i].file = infos[j].file => i = j
      /\ \A i \in DOMAIN infos : LeadsBack(infos[i])
      /\ ~moved =>
           \E r \in DOMAIN catalog :
             /\ catalog[r].product = inventory[k].product
             /\ {infos[i].file : i \in DOMAIN infos} =
                  UNION {InstancesOf(catalog[r].configurables[c]) :
                         c \in DOMAIN catalog[r].configurables}

\* Nothing is done to a package that was not verified to be signed by whom it is
\* to be signed, by a key the system knows.  Two exceptions, both on macOS: a
\* component that names no signer, and an uninstaller, which then is a script.
OnlyVerifiedIsRun ==
  effect # "none" =>
    \/ component.signature = component.signer /\ component.signer # "none"
       /\ (platform # "macOS" => component.signer \in TrustedKeys)
    \/ platform = "macOS" /\ (component.signer = "none" \/ op = "UninstallComponent")

\* The answer is true.  0 means that the package was installed or that the path
\* has the permissions, and anything else that nothing was done, except that
\* the result of an installer may be lost, that dpkg may leave a package by
\* halves, which the calls do not roll back although their header says so, and
\* that the restriction to admins says 0 in any case.  A list of choices stays
\* only if the installer could not be run or the file not be removed.
AnswersAreTrue ==
  /\ at = "idle" /\ op \in {"InstallComponent", "UpdateComponent"} =>
       /\ answer = "0" => effect = "done"
       /\ answer # "0" => effect \in {"none", "partly"} \/ failed
       /\ temp => "choices" \in component.args /\ (answer = "throws" \/ failed)
  /\ HasReturned("RestrictPathPermissionsToAdmins", "0") =>
       HasAdminRestrictions(mode) \/ failed
  /\ HasReturned("ApplyBultinUsersReadPermissions", "0") => "read" \in mode
===============================================================================
