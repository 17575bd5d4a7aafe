----------------------------- MODULE ProxyRequests -----------------------------
(***************************************************************************)
(* What PmPlatformConfiguration promises the library that asks it for      *)
(* proxies, without the map of callbacks, the search and the thread that   *)
(* calls back: each request is answered, once, in the order of the         *)
(* requests, and with a list of the kind the platform has.                 *)
(***************************************************************************)
EXTENDS Naturals

CONSTANT MaxRequests  \* bound: proxies asked for

VARIABLES
  lists,     \* the lists of proxies an answer may be
  requests,  \* requests made
  called     \* what the callback of each has been called with

vars == <<lists, requests, called>>

Init == requests = 0 /\ called = [g \in 1..MaxRequests |-> << >>]

Ask ==
  /\ requests < MaxRequests
  /\ requests' = requests + 1
  /\ UNCHANGED <<lists, called>>

Answered(g) == called[g] # << >>

Answer(g) ==
  /\ ~Answered(g) /\ \A h \in 1..requests : h < g => Answered(h)
  /\ \E list \in lists : called' = [called EXCEPT ![g] = <<list>>]
  /\ UNCHANGED <<lists, requests>>

AnswerOne == \E g \in 1..requests : Answer(g)

Next == Ask \/ AnswerOne

\* No request is left without an answer.
Spec == Init /\ [][Next]_vars /\ WF_vars(AnswerOne)
===============================================================================
