-------------------------------- MODULE Loggers --------------------------------
(***************************************************************************)
(* The logs of the two programs.  Each program has a process and a         *)
(* registry of loggers of its own, so a behaviour is of one of them.       *)
(***************************************************************************)
EXTENDS PmLogger, CMLogger

VARIABLE process

vars == <<process, pmVars, cmVars>>

TypeOK == process \in {"pm", "client"} /\ PmTypeOK /\ CmTypeOK

Init == process \in {"pm", "client"} /\ PmInit /\ CmInit

Next ==
  \/ process = "pm" /\ PmNext /\ UNCHANGED <<process, cmVars>>
  \/ process = "client" /\ CmNext /\ UNCHANGED <<process, pmVars>>

Spec == Init /\ [][Next]_vars

-------------------------------------------------------------------------------
(* Properties *)

\* The package manager uses no logger that is not registered, as long as it has its
\* directory, no name was read while it was replaced, and it is not ending; and the
\* client uses none that is not there, except after setLogConfig() has failed to make
\* one.
LoggerIsFound ==
  /\ crashed => ~bDirExists \/ torn \/ main \in {"release", "ended"}
  /\ dereferenced => failed = "logger"

\* Once the task runs, every line of the package manager goes to the file, and to no
\* logger that is only of the start; and a line of the client is lost only while
\* setLogConfig() replaces the logger, or after one that failed.
LinesReachTheLog ==
  [][/\ main = "running" => \A t \in Threads : sink'[t] # sink[t] => sink'[t] = "file"
     /\ lost' # lost => step = "make" \/ failed = "logger"]_vars
===============================================================================
