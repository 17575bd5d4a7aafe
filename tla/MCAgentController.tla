--------------------------- MODULE MCAgentController --------------------------
(* PmAgentController with three pids. *)
EXTENDS PmAgentController, TLC
CONSTANTS p1, p2, p3
Symmetry == Permutations({p1, p2, p3})
===============================================================================
