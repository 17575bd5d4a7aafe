----------------------------- MODULE MCCommandExec ----------------------------
(* CommandExec with all outputs of up to four bytes, one more than fits. *)
EXTENDS CommandExec
ShortOutputs == UNION {[1..n -> Bytes] : n \in 0..4}
===============================================================================
