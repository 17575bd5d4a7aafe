-------------------------- MODULE PmPlatformDiscovery --------------------------
(***************************************************************************)
(* PmPlatformDiscovery with the queries of PackageUtilRPM, PackageUtilDEB  *)
(* and PmPkgUtilWrapper and the searches of FileUtilities: which products  *)
(* of a catalog are installed, in which version, with which files.         *)
(*                                                                         *)
(* The database of packages and the files are not the agent's: other       *)
(* programs change both while a discovery asks one question after the      *)
(* other.  A path is a sequence of segments, a segment being a name, a     *)
(* wildcard or, at the beginning only, a known folder's id.                *)
(***************************************************************************)
EXTENDS Integers, Sequences

CONSTANTS
  Platforms,   \* which to look at, of {"rpm", "deb", "macOS"}
  Names,       \* the names of packages
  MaxVersion,  \* bound on their versions, the first of which is 1
  Catalogs,    \* the catalogs the cloud may send: sequences of rules
  Homes,       \* what the folder's id may stand for, << >> if that is unknown
  Paths,       \* the files there may be, in the order of glob()
  Faults,      \* what may fail, of AllFaults
  MaxCalls,    \* bound on the calls
  MaxChanges   \* bound on the changes by others during all of them

\* A query, a command of a verification, an installer, one whose result is
\* lost, and chmod().
AllFaults == {"query", "verify", "run", "lost", "remove", "chmod"}

Folder == "<FOLDERID>"
Wildcard == "*"

\* NVRA identifiers have a version in them, names and receipts have none: 0.
Identifiers == [type : {"NVRA", "NAME", "PKGUTIL"}, name : Names, version : 0..MaxVersion]
Configurables == [deployPath : Seq(STRING), cfgPath : Seq(STRING), max_instances : Nat]
Rules == [product : STRING, ids : Seq(Identifiers), configurables : Seq(Configurables)]

ASSUME DiscoveryAssumption ==
  /\ Platforms \subseteq {"rpm", "deb", "macOS"}
  /\ MaxVersion \in Nat \ {0} /\ MaxCalls \in Nat /\ MaxChanges \in Nat
  /\ Catalogs \subseteq Seq(Rules)
  /\ Homes \subseteq Seq(STRING)
  /\ Faults \subseteq AllFaults
  /\ Paths \in Seq(Seq(STRING)) /\ \A i, j \in DOMAIN Paths : Paths[i] = Paths[j] => i = j

\* That a literal is a string: TLC knows it, the provers do not.
ASSUME FolderAssumption == Folder \in STRING

VARIABLES
  platform, home,
  db,         \* the database of packages
  files,      \* the files there are
  changes,    \* how often others have changed these
  calls,      \* how many calls there have been
  op,         \* the call, none before the first
  at,         \* where it is, "idle" once it has returned
  answer,     \* what it has returned: "0", "-1", a "status", or that it "throws"
  catalog,    \* a discovery's catalog,
  rule, id,   \* the rule and the identifier it has come to,
  listed,     \* the packages listPackages() had (macOS),
  version,    \* the version it has found for it,
  conf,       \* the configurable it has come to,
  configs,    \* the files found for the rule,
  inventory,  \* the packages found
  cache,      \* lastDetectedPackages_
  seen,       \* what has been in the database of a package since the call began
  moved,      \* files have come or gone since
  failed      \* a query, or what else the caller does, has failed since

system == <<platform, home, db, files, changes, calls>>
position == <<catalog, rule, id, listed, version, conf, configs>>
history == <<seen, moved, failed>>
discoveryVars == <<system, op, at, answer, position, inventory, cache, history>>

\* The elements of a sequence that are in a set, in their order.
Among(s, A) ==
  LET upTo[i \in 0..Len(s)] ==
        IF i = 0 THEN << >>
        ELSE IF s[i] \in A THEN Append(upTo[i - 1], s[i]) ELSE upTo[i - 1]
  IN  upTo[Len(s)]

-------------------------------------------------------------------------------
(* Packages *)

\* What the database can say of a package.  dpkg -r leaves one "removed", with
\* its configuration; an installation that fails half way leaves it "partial".
Absent == [state |-> "absent", version |-> 0]
Entries(p) ==
  {Absent} \cup [state : IF p = "deb" THEN {"installed", "partial", "removed"}
                                      ELSE {"installed"},
                 version : 1..MaxVersion]

\* Mutant: an NVRA is looked up like a name.
VersionByName(i, entry) == entry.version

\* Mutant: names are looked up like NVRA identifiers.
VersionExactly(i, entry) == IF entry.version = i.version THEN entry.version ELSE 0

\* getPackageInfo(): the version the database shows, 0 for the empty one.  The
\* state of a package is not looked at, and dpkg cannot be asked for an NVRA.
VersionOf(i, entry) ==
  IF i.type = "NVRA" /\ (platform = "deb" \/ entry.version # i.version)
  THEN 0
  ELSE entry.version

\* The identifiers of a rule the platform goes through, in this order.
Ids(r) ==
  LET of(type) == Among(r.ids, {i \in Identifiers : i.type = type}) IN
  IF platform = "macOS" THEN of("PKGUTIL") ELSE of("NVRA") \o of("NAME")

-------------------------------------------------------------------------------
(* Files *)

\* ResolvePath().
ResolvePath(path) ==
  IF path # << >> /\ Head(path) = Folder /\ home # << >> THEN home \o Tail(path) ELSE path

Matches(pattern, path) ==
  /\ Len(pattern) = Len(path)
  /\ \A i \in DOMAIN pattern : pattern[i] \in {path[i], Wildcard}

\* FileSearchWithWildCard(), without what has gone again before PathIsValid().
Search(pattern) == Among(Paths, {path \in files : Matches(pattern, path)})

\* Mutant: a configurable without a limit has no instances.
LimitedStrictly(found, limit) == IF Len(found) > limit THEN SubSeq(found, 1, limit) ELSE found

\* No more than max_instances of the files, or one if that is 0.
Limited(found, limit) ==
  IF Len(found) > limit THEN SubSeq(found, 1, IF limit = 0 THEN 1 ELSE limit) ELSE found

\* Where the part of a path after the folder's id first occurs in what the path
\* was resolved to: so many segments are taken for the folder.
Occurs(part, path, n) ==
  n + Len(part) <= Len(path) /\ SubSeq(path, n + 1, n + Len(part)) = part
FolderLength(path) ==
  CHOOSE n \in 0..Len(home) :
    /\ Occurs(Tail(path), ResolvePath(path), n)
    /\ \A m \in 0..n - 1 : ~Occurs(Tail(path), ResolvePath(path), m)

\* How a file found for a path is reported: with the folder's id again.
Reported(path, file) ==
  IF ResolvePath(path) # path
  THEN <<Folder>> \o SubSeq(file, FolderLength(path) + 1, Len(file))
  ELSE file

\* A PackageConfigInfo.
Infos == [file : Seq(STRING), isDeployPath : BOOLEAN, path : Seq(STRING)]

\* What DiscoverPackageConfigurables() adds for the files it has found: those
\* no other configurable of the rule has found before, in either way.
Add(c, path, isDeployPath) ==
  LET found == Limited(Search(ResolvePath(path)), c.max_instances)
      infos == [i \in DOMAIN found |-> [file |-> found[i], isDeployPath |-> isDeployPath,
                                        path |-> Reported(path, found[i])]]
      new == {info \in Infos : \A j \in DOMAIN configs : configs[j].file # info.file} IN
  configs' = configs \o Among(infos, new)

-------------------------------------------------------------------------------
(* DiscoverInstalledPackages() *)

Inventories ==
  Seq([product : STRING, version : 0..MaxVersion, configs : Seq(Infos)])

DiscoveryTypeOK ==
  /\ platform \in Platforms /\ home \in Homes
  /\ db \in [Names -> Entries(platform)]
  /\ files \subseteq {Paths[i] : i \in DOMAIN Paths}
  /\ changes \in 0..MaxChanges /\ calls \in 0..MaxCalls
  /\ answer \in {"none", "0", "-1", "status", "throws"}
  /\ catalog \in Catalogs \cup {<< >>}
  /\ rule \in 1..Len(catalog) + 1
  /\ at \in {"query", "deploy", "config"} /\ rule <= Len(catalog) =>
       id \in 1..Len(Ids(catalog[rule])) + 1
  /\ at \in {"deploy", "config"} =>
       /\ rule <= Len(catalog) /\ id <= Len(Ids(catalog[rule]))
       /\ conf \in 1..Len(catalog[rule].configurables) + 1
       /\ platform # "macOS" => version # 0
  /\ listed \subseteq Names
  /\ version \in 0..MaxVersion
  /\ configs \in Seq(Infos)
  /\ inventory \in Inventories /\ cache \in Inventories
  /\ seen \in [Names -> SUBSET Entries(platform)]
  /\ moved \in BOOLEAN /\ failed \in BOOLEAN

InitDiscovery ==
  /\ platform \in Platforms /\ home \in Homes
  /\ db \in [Names -> {e \in Entries(platform) : e.state \in {"absent", "installed"}}]
  /\ files \in SUBSET {Paths[i] : i \in DOMAIN Paths}
  /\ changes = 0 /\ calls = 0
  /\ op = "none" /\ at = "idle" /\ answer = "none"
  /\ catalog = << >> /\ rule = 1 /\ id = 1 /\ listed = {} /\ version = 0
  /\ conf = 1 /\ configs = << >>
  /\ inventory = << >> /\ cache = << >>
  /\ seen = [n \in Names |-> {}] /\ moved = FALSE /\ failed = FALSE

Fails(fault) == IF fault \in Faults THEN BOOLEAN ELSE {FALSE}

\* What every call begins with.
Start(name) ==
  /\ at = "idle"
  /\ calls < MaxCalls /\ calls' = calls + 1
  /\ op' = name
  /\ seen' = [n \in Names |-> {db[n]}] /\ moved' = FALSE /\ failed' = FALSE

GetInstalledPackages(c) ==
  /\ Start("GetInstalledPackages")
  /\ at' = IF platform = "macOS" THEN "list" ELSE "query"
  /\ answer' = "none"
  /\ catalog' = c /\ rule' = 1 /\ id' = 1 /\ listed' = {} /\ version' = 0
  /\ conf' = 1 /\ configs' = << >>
  /\ inventory' = << >>
  /\ UNCHANGED <<platform, home, db, files, changes, cache>>

\* A PkgUtilException: the inventory is lost, and the cache is what it was.
Throw ==
  /\ at' = "idle" /\ answer' = "-1"
  /\ inventory' = << >>
  /\ UNCHANGED <<position, cache>>

\* listPackages(), on macOS.
ListPackages ==
  /\ at = "list"
  /\ \E fails \in Fails("query") :
       /\ failed' = (failed \/ fails)
       /\ \/ fails /\ Throw
          \/ /\ at' = "query"
             /\ listed' = IF fails THEN {} ELSE {n \in Names : db[n] # Absent}
             /\ UNCHANGED <<answer, catalog, rule, id, version, conf, configs,
                            inventory, cache>>
  /\ UNCHANGED <<system, op, seen, moved>>

AtIdentifier == at = "query" /\ rule <= Len(catalog) /\ id <= Len(Ids(catalog[rule]))

IsFound(product) == \E i \in DOMAIN inventory : inventory[i].product = product

\* An identifier is passed over without a query if its product is found
\* already, or on macOS if it is not among the packages listed.
PassOver ==
  /\ AtIdentifier
  /\ IF platform = "macOS" THEN Ids(catalog[rule])[id].name \notin listed
                           ELSE IsFound(catalog[rule].product)
  /\ id' = id + 1
  /\ UNCHANGED <<system, op, at, answer, catalog, rule, listed, version, conf,
                 configs, inventory, cache, history>>

\* getPackageInfo(), which finds nothing if the query fails; on macOS it may
\* throw.  There the product is looked up only then, and the version is taken
\* as it is, on Linux an empty one is none.
Query ==
  /\ AtIdentifier
  /\ LET i == Ids(catalog[rule])[id]
         product == catalog[rule].product IN
     /\ IF platform = "macOS" THEN i.name \in listed ELSE ~IsFound(product)
     /\ \E fails \in Fails("query") :
          /\ failed' = (failed \/ fails)
          /\ \/ fails /\ platform = "macOS" /\ Throw
             \/ LET v == IF fails THEN 0 ELSE VersionOf(i, db[i.name]) IN
                /\ IF IsFound(product) \/ (v = 0 /\ platform # "macOS")
                   THEN /\ id' = id + 1
                        /\ UNCHANGED <<at, version, conf, configs>>
                   ELSE /\ at' = "deploy"
                        /\ version' = v /\ conf' = 1 /\ configs' = << >>
                        /\ id' = id
                /\ UNCHANGED <<answer, catalog, rule, listed, inventory, cache>>
  /\ UNCHANGED <<system, op, seen, moved>>

Current == catalog[rule].configurables[conf]
HasCurrent == conf <= Len(catalog[rule].configurables)

\* The deploy path of a configurable comes first, if it has one.
SearchDeployPath ==
  /\ at = "deploy" /\ HasCurrent /\ Current.deployPath # << >>
  /\ IF Search(ResolvePath(Current.deployPath)) # << >>
     THEN /\ Add(Current, Current.deployPath, TRUE)
          /\ conf' = conf + 1 /\ at' = at
     ELSE /\ at' = "config"
          /\ UNCHANGED <<conf, configs>>
  /\ UNCHANGED <<system, op, answer, catalog, rule, id, listed, version,
                 inventory, cache, history>>

\* Only if nothing is there its configuration path is searched.
SearchConfigPath ==
  /\ \/ at = "config"
     \/ at = "deploy" /\ HasCurrent /\ Current.deployPath = << >>
  /\ Add(Current, Current.cfgPath, FALSE)
  /\ conf' = conf + 1 /\ at' = "deploy"
  /\ UNCHANGED <<system, op, answer, catalog, rule, id, listed, version,
                 inventory, cache, history>>

\* The package goes into the inventory.
AddPackage ==
  /\ at = "deploy" /\ ~HasCurrent
  /\ inventory' = Append(inventory, [product |-> catalog[rule].product,
                                     version |-> version, configs |-> configs])
  /\ at' = "query" /\ id' = id + 1
  /\ version' = 0 /\ configs' = << >>
  /\ UNCHANGED <<system, op, answer, catalog, rule, listed, conf, cache, history>>

\* Mutant: the next rule begins where this one has ended.
NextRuleKeepsId ==
  /\ at = "query" /\ rule <= Len(catalog) /\ id > Len(Ids(catalog[rule]))
  /\ rule' = rule + 1
  /\ UNCHANGED <<system, op, at, answer, catalog, id, listed, version, conf, configs,
                 inventory, cache, history>>

NextRule ==
  /\ at = "query" /\ rule <= Len(catalog) /\ id > Len(Ids(catalog[rule]))
  /\ rule' = rule + 1 /\ id' = 1
  /\ UNCHANGED <<system, op, at, answer, catalog, listed, version, conf, configs,
                 inventory, cache, history>>

Finish ==
  /\ at = "query" /\ rule > Len(catalog)
  /\ at' = "idle" /\ answer' = "0"
  /\ cache' = inventory
  /\ UNCHANGED <<system, op, position, inventory, history>>

\* Other programs install, remove and replace packages.
ChangePackage(n, entry) ==
  /\ changes < MaxChanges /\ changes' = changes + 1
  /\ entry \in Entries(platform) \ {db[n]}
  /\ db' = [db EXCEPT ![n] = entry]
  /\ seen' = [seen EXCEPT ![n] = @ \cup {entry}]
  /\ UNCHANGED <<platform, home, files, calls, op, at, answer, position, inventory,
                 cache, moved, failed>>

ChangeFile(path) ==
  /\ changes < MaxChanges /\ changes' = changes + 1
  /\ files' = IF path \in files THEN files \ {path} ELSE files \cup {path}
  /\ moved' = TRUE
  /\ UNCHANGED <<platform, home, db, calls, op, at, answer, position, inventory, cache,
                 seen, failed>>

DiscoveryStep ==
  \/ ListPackages \/ PassOver \/ Query \/ NextRule \/ Finish
  \/ SearchDeployPath \/ SearchConfigPath \/ AddPackage

OthersStep ==
  /\ at # "idle"
  /\ \/ \E n \in Names : \E entry \in Entries(platform) : ChangePackage(n, entry)
     \/ \E i \in DOMAIN Paths : ChangeFile(Paths[i])
===============================================================================
