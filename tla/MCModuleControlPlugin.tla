------------------------- MODULE MCModuleControlPlugin ------------------------
(* Two callers, every fault the environment can produce, two pids. *)
EXTENDS ModuleControlPlugin, TLC
CONSTANTS p1, p2, c1, c2
Symmetry == Permutations({p1, p2}) \cup Permutations({c1, c2})
===============================================================================
