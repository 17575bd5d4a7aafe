--------------------- MODULE MCPmPlatformComponentManager ----------------------
\* PmPlatformComponentManager for TLC: catalogs with each kind of identifier and
\* configurables that overlap, components for each way through a verification.
EXTENDS PmPlatformComponentManager

MCId(type, name, v) == [type |-> type, name |-> name, version |-> v]
MCIds(name) == <<MCId("NVRA", name, 1), MCId("NAME", name, 0), MCId("PKGUTIL", name, 0)>>

MCConfigurable(deploy, cfg, max) ==
  [deployPath |-> deploy, cfgPath |-> cfg, max_instances |-> max]
MCAll == <<Folder, "d", "*">>
MCOne == <<"h", "d", "x">>

MCRule(product, ids, configurables) ==
  [product |-> product, ids |-> ids, configurables |-> configurables]

MCCatalogs ==
  {<<MCRule("P", MCIds("p"), << >>),
     MCRule("Q", <<MCId("NVRA", "q", 1), MCId("PKGUTIL", "q", 0)>>, << >>)>>,
   <<MCRule("P", MCIds("q") \o MCIds("p"), <<MCConfigurable(MCOne, MCAll, 0)>>)>>,
   <<MCRule("P", <<MCId("NAME", "p", 0), MCId("PKGUTIL", "p", 0)>>,
            <<MCConfigurable(<< >>, MCAll, 2), MCConfigurable(<<Folder, "d", "x">>, MCOne, 1)>>)>>}

MCHomes == {<< >>, <<"h">>, <<"d", "x">>, <<"*">>}
MCPaths == <<<<"d", "x", "d", "x">>, <<"h", "d", "x">>, <<"h", "d", "y">>>>

MCComponent(signer, signature, args) ==
  [name |-> "p", version |-> 2, present |-> TRUE, type |-> "own",
   signer |-> signer, signature |-> signature, args |-> args]

MCComponents ==
  {MCComponent("k", "k", {}), MCComponent("none", "none", {"choices"}),
   MCComponent("k", "l", {}), MCComponent("m", "m", {"malformed"}),
   [MCComponent("k", "k", {}) EXCEPT !.type = "other"],
   [MCComponent("k", "k", {}) EXCEPT !.present = FALSE]}
===============================================================================
