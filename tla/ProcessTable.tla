----------------------------- MODULE ProcessTable -----------------------------
(***************************************************************************)
(* The operating system as the controller sees it through ProcessWrapper:  *)
(* the table of processes, what fork, execv, kill and waitpid do to it, and*)
(* the steps processes take on their own.  The wrapper's five calls are    *)
(* translated from ProcessWrapperLinux.cpp; what the kernel does behind    *)
(* them follows POSIX and is external to the repository.                   *)
(***************************************************************************)
EXTENDS FiniteSets

CONSTANTS
  Pids,            \* process ids the kernel hands out; a reaped pid is reused
  Invalid,         \* INVALID_PID (-1)
  CallFaults,      \* system calls that may fail: a subset of FaultyCalls
  WaitFaults,      \* statuses waitForProcess may report of a child that lives
  SigchldIgnored,  \* the host ignores SIGCHLD: its children leave no zombie
  OtherPrograms    \* unrelated programs start and take free pids

FaultyCalls == {"fork", "execv", "kill", "thread"}

\* IProcessWrapper::EWaitForProcStatus; ProcessTerminated and ProcessExited
\* are one status, the callers never tell them apart.
WaitStatus == {"ProcessExited", "ImpossibleError", "ProcessNotAChild",
               "ProcessDoesNotExist", "WaitInterruptedBySignal", "UnknownStatus"}

\* Statuses that waitForProcess can return although the child still runs.
SpuriousStatus == {"ImpossibleError", "WaitInterruptedBySignal", "UnknownStatus"}

ASSUME PidAssumption == Invalid \notin Pids
ASSUME FaultAssumption == /\ CallFaults \subseteq FaultyCalls
                          /\ WaitFaults \subseteq SpuriousStatus
                          /\ SigchldIgnored \in BOOLEAN
                          /\ OtherPrograms \in BOOLEAN

VARIABLE proc  \* proc[p]: the process that has pid p

(***************************************************************************)
(* A process is "free" (no such process), a "clone" (forked, execv not yet *)
(* called, still the host's image), a "lockedClone" (the same, but forked  *)
(* by a thread that held mutex_), an "agent" (cmpackagemanager runs),      *)
(* "stuck" (execv failed and the exit handlers block for ever), a "zombie",*)
(* or an "other" program.  own: a child of the running host.  term: SIGTERM*)
(* has been sent to it.                                                    *)
(***************************************************************************)
Images == {"clone", "lockedClone"}
States == Images \cup {"free", "agent", "stuck", "zombie", "other"}
Process == [st : States, own : BOOLEAN, term : BOOLEAN]

NoProcess == [st |-> "free", own |-> FALSE, term |-> FALSE]

ProcTypeOK == proc \in [Pids -> Process]
ProcInit == proc = [p \in Pids |-> NoProcess]

Live(p) == proc[p].st \in Images \cup {"agent", "stuck"}
Free(p) == proc[p].st = "free"

\* getRunningProcesses and getProcessInfo: the processes whose executable is
\* the agent's.  A zombie has no executable, a clone still has the host's.
RunsAgentBinary(p) == proc[p].st = "agent"

\* A child that was started and never told to stop.
Serving(p) == Live(p) /\ proc[p].own /\ ~proc[p].term

-------------------------------------------------------------------------------
(* The calls of ProcessWrapper. *)

\* fork(): the new child is a copy of the host; p is the pid it is given.
ForkedInto(p, image) ==
  /\ Free(p)
  /\ proc' = [proc EXCEPT ![p] = [st |-> image, own |-> TRUE, term |-> FALSE]]

\* fork() fails by fault, or because no pid is left.
ForkFails ==
  /\ "fork" \in CallFaults \/ \A p \in Pids : ~Free(p)
  /\ UNCHANGED proc

\* kill(pid) finds no process (ESRCH) or is refused (EPERM): it throws.
KillThrows(p) ==
  /\ Free(p) \/ "kill" \in CallFaults
  /\ UNCHANGED proc

\* kill(pid) delivers SIGTERM.  A zombie accepts it without effect.
KillDelivers(p) ==
  /\ ~Free(p)
  /\ proc' = [proc EXCEPT ![p].term = TRUE]

\* waitForProcess(pid) returns status s.  It blocks while the child lives.
WaitReturns(p, s) ==
  \/ /\ p = Invalid
     /\ s = "UnknownStatus"
     /\ UNCHANGED proc
  \/ /\ p # Invalid
     /\ proc[p].st = "zombie"
     /\ s = "ProcessExited"
     /\ proc' = [proc EXCEPT ![p] = NoProcess]
  \/ /\ p # Invalid
     /\ ~proc[p].own
     /\ s = IF Free(p) THEN "ProcessDoesNotExist" ELSE "ProcessNotAChild"
     /\ UNCHANGED proc
  \/ /\ p # Invalid
     /\ proc[p].own
     /\ s \in WaitFaults
     /\ UNCHANGED proc

-------------------------------------------------------------------------------
(* Steps of the processes themselves. *)

\* What is left of p once it has ended: a zombie until its parent waits for it,
\* nothing when SIGCHLD is ignored or init is the parent.
Remains(p) == IF proc[p].own /\ ~SigchldIgnored
              THEN [proc[p] EXCEPT !.st = "zombie"]
              ELSE NoProcess

\* execv in the child replaces the host's image by the agent's.
Exec(p) ==
  /\ proc[p].st \in Images
  /\ proc' = [proc EXCEPT ![p].st = "agent"]

\* execv fails in the child (ExecutionError), which calls exit().  That destroys
\* the child's copy of the static plugin, whose destructor calls stop(), which
\* locks mutex_: if the thread that forked held it, the child waits for itself.
ExecFails(p) ==
  /\ "execv" \in CallFaults
  /\ \/ /\ proc[p].st = "clone"
        /\ proc' = [proc EXCEPT ![p] = Remains(p)]
     \/ /\ proc[p].st = "lockedClone"
        /\ proc' = [proc EXCEPT ![p].st = "stuck"]

\* The agent crashes or quits without being asked.
AgentCrashes(p) ==
  /\ proc[p].st = "agent"
  /\ ~proc[p].term
  /\ proc' = [proc EXCEPT ![p] = Remains(p)]

\* The default disposition of SIGTERM ends the process.
TerminatedBySignal(p) ==
  /\ Live(p)
  /\ proc[p].term
  /\ proc' = [proc EXCEPT ![p] = Remains(p)]

\* Any other program comes and goes, with whatever pid is free.
OtherProgramStarts(p) ==
  /\ OtherPrograms
  /\ Free(p)
  /\ proc' = [proc EXCEPT ![p] = [st |-> "other", own |-> FALSE, term |-> FALSE]]

OtherProgramEnds(p) ==
  /\ proc[p].st = "other"
  /\ proc' = [proc EXCEPT ![p] = NoProcess]

\* The host ends: its children pass to init, which reaps the zombies.
Orphaned == [p \in Pids |-> IF proc[p].st = "zombie"
                            THEN NoProcess
                            ELSE [proc[p] EXCEPT !.own = FALSE]]
===============================================================================
