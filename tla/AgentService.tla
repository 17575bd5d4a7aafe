----------------------------- MODULE AgentService -----------------------------
(***************************************************************************)
(* What PmAgentController promises the client service, without threads,    *)
(* locks or pids: while the service is wanted, at most one agent serves and*)
(* a lost agent is replaced; once it is not wanted, none serves.           *)
(***************************************************************************)
CONSTANT Pids  \* names of agents

VARIABLES
  wanted,  \* the agent has been started and not stopped since
  serving  \* the agents that were started and never told to stop

vars == <<wanted, serving>>

Init == wanted = FALSE /\ serving = {}

Start == /\ ~wanted /\ serving = {}
         /\ wanted' = TRUE
         /\ \E p \in Pids : serving' = {p}

Lost == /\ serving # {}
        /\ serving' = {}
        /\ UNCHANGED wanted

Replace == /\ wanted /\ serving = {}
           /\ \E p \in Pids : serving' = {p}
           /\ UNCHANGED wanted

Stop == /\ wanted
        /\ wanted' = FALSE
        /\ serving' = {}

Next == Start \/ Lost \/ Replace \/ Stop

\* A lost agent is eventually replaced if the service stays wanted.
Spec == Init /\ [][Next]_vars /\ WF_vars(Replace)
===============================================================================
