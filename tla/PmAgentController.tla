--------------------------- MODULE PmAgentController --------------------------
(***************************************************************************)
(* PmAgentController: the object inside the client service that starts the *)
(* package manager agent, watches it on a monitor thread and starts it     *)
(* again when it ends, until it is told to stop.                           *)
(*                                                                         *)
(* Three actors share its members: the owner, the thread that calls        *)
(* start(), stop() or the destructor (one at a time: ModuleControlPlugin   *)
(* serialises them); the monitor thread, which runs monitorProcess(); and  *)
(* the processes of ProcessTable.                                          *)
(***************************************************************************)
EXTENDS ProcessTable

CONSTANT HostMayCrash  \* the client service may be killed at any moment

ASSUME CrashAssumption == HostMayCrash \in BOOLEAN

VARIABLES
  host,     \* "up", "down", or "aborted" (std::terminate was called)
  pid,      \* pid_
  started,  \* bIsProcessStartedByPlugin_
  mutex,    \* who holds mutex_
  mon,      \* the monitor thread and its locals
  op        \* the owner's call in progress and its locals

ctrl == <<host, pid, started, mutex, mon, op>>
vars == <<proc, ctrl>>

MonPc == {"none", "read", "wait", "lock", "delay", "done"}
Calls == {"none", "start", "stop", "destroy"}
OpPc == {"idle", "scan", "kill", "spawn", "launch", "lock", "body", "join",
         "return"}

NoMonitor == [at |-> "none", arg |-> Invalid, code |-> "UnknownStatus"]
NoCall == [call |-> "none", at |-> "idle", wait |-> FALSE, target |-> Invalid,
           ret |-> "OK"]

CtrlTypeOK ==
  /\ host \in {"up", "down", "aborted"}
  /\ pid \in Pids \cup {Invalid}
  /\ started \in BOOLEAN
  /\ mutex \in {"none", "owner", "monitor"}
  /\ mon \in [at : MonPc, arg : Pids \cup {Invalid}, code : WaitStatus]
  /\ op \in [call : Calls, at : OpPc, wait : BOOLEAN,
             target : Pids \cup {Invalid}, ret : {"OK", "FAIL"}]

\* The monitor thread at pc, its locals not in use.
MonAt(pc) == [NoMonitor EXCEPT !.at = pc]

\* Every member has its type in every reachable state.
TypeOK == ProcTypeOK /\ CtrlTypeOK

\* threadMonitor_.joinable(): a thread that has returned is still to be joined.
Joinable == mon.at # "none"

Init ==
  /\ ProcInit
  /\ host = "up"
  /\ pid = Invalid
  /\ started = FALSE
  /\ mutex = "none"
  /\ mon = NoMonitor
  /\ op = NoCall

-------------------------------------------------------------------------------
(* start() *)

BeginStart ==
  /\ op' = [NoCall EXCEPT !.call = "start", !.at = "scan"]
  /\ UNCHANGED <<proc, host, pid, started, mutex, mon>>

\* The owner makes one call at a time and never starts a controller that it has
\* started; nothing in start() checks it, the plugin has to see to it.  A start()
\* that failed for want of a monitor thread leaves the flag set all the same.
StartCall == host = "up" /\ op.at = "idle" /\ ~(started /\ Joinable) /\ BeginStart

\* killIfRunning(): look for a process that runs the agent's binary.
KillIfRunning ==
  /\ op.at = "scan"
  /\ \/ /\ \A p \in Pids : ~RunsAgentBinary(p)
        /\ op' = [op EXCEPT !.at = "spawn"]
     \/ \E p \in Pids :
          /\ RunsAgentBinary(p)
          /\ op' = [op EXCEPT !.at = "kill", !.target = p]
  /\ UNCHANGED <<proc, host, pid, started, mutex, mon>>

\* killIfRunning(): signal the first one found and look no further.
KillPrevious ==
  /\ op.at = "kill"
  /\ \/ /\ KillDelivers(op.target)
        /\ op' = [op EXCEPT !.at = "spawn"]
     \/ /\ KillThrows(op.target)
        /\ op' = [op EXCEPT !.at = "return", !.ret = "FAIL"]
  /\ UNCHANGED <<host, pid, started, mutex, mon>>

\* startProcess(): fork, unless pid_ still names a process.  The result is
\* "OK" or "FAIL"; image is what the child is a copy of.
StartProcess(image, result) ==
  \/ /\ pid # Invalid
     /\ result = "FAIL"
     /\ UNCHANGED <<proc, pid>>
  \/ /\ pid = Invalid
     /\ result = "OK"
     /\ \E p \in Pids : ForkedInto(p, image) /\ pid' = p
  \/ /\ pid = Invalid
     /\ result = "FAIL"
     /\ ForkFails
     /\ pid' = Invalid

Spawn ==
  /\ op.at = "spawn"
  /\ \/ /\ StartProcess("clone", "OK")
        /\ op' = [op EXCEPT !.at = "launch"]
     \/ /\ StartProcess("clone", "FAIL")
        /\ op' = [op EXCEPT !.at = "return", !.ret = "FAIL"]
  /\ UNCHANGED <<host, started, mutex, mon>>

\* What a host that has ended leaves behind.
HostEnds(how) ==
  /\ host' = how
  /\ proc' = Orphaned
  /\ pid' = Invalid /\ started' = FALSE /\ mutex' = "none"
  /\ mon' = NoMonitor /\ op' = NoCall

\* Mutant: start() forgets setProcessStartedByPlugin(true).
LaunchForgetsFlag ==
  /\ op.at = "launch" /\ ~Joinable
  /\ mon' = MonAt("read")
  /\ op' = [op EXCEPT !.at = "return"]
  /\ UNCHANGED <<proc, host, pid, started, mutex>>

\* setProcessStartedByPlugin(true) and threadMonitor_ = std::thread(...), which
\* throws when there is no thread to be had: nothing takes the flag back or ends
\* the child.  Assigning to a joinable std::thread calls std::terminate.
Launch ==
  /\ op.at = "launch"
  /\ \/ /\ ~Joinable
        /\ started' = TRUE
        /\ mon' = MonAt("read")
        /\ op' = [op EXCEPT !.at = "return"]
        /\ UNCHANGED <<proc, host, pid, mutex>>
     \/ /\ "thread" \in CallFaults
        /\ started' = TRUE
        /\ op' = [op EXCEPT !.at = "return", !.ret = "FAIL"]
        /\ UNCHANGED <<proc, host, pid, mutex, mon>>
     \/ /\ Joinable
        /\ HostEnds("aborted")

-------------------------------------------------------------------------------
(* stop() and the destructor *)

\* bWaitForThread is read before mutex_ is taken.
BeginStop(call) ==
  /\ op' = [NoCall EXCEPT !.call = call, !.at = "lock", !.wait = started]
  /\ UNCHANGED <<proc, host, pid, started, mutex, mon>>

StopCall(call) == host = "up" /\ op.at = "idle" /\ BeginStop(call)

StopLock ==
  /\ op.at = "lock"
  /\ mutex = "none"
  /\ mutex' = "owner"
  /\ op' = [op EXCEPT !.at = "body"]
  /\ UNCHANGED <<proc, host, pid, started, mon>>

\* Mutant: pid_ is reset to 0, which "no process" also looks like.
StopProcessZero(result) ==
  /\ result = "OK"
  /\ IF pid = Invalid THEN UNCHANGED proc ELSE KillDelivers(pid)
  /\ pid' = 0

\* Mutant: pid_ is reset before it is used, so that the signal goes nowhere.
StopProcessResetFirst(result) == result = "OK" /\ pid' = Invalid /\ UNCHANGED proc

\* Mutant: pid_ is reset when kill throws, too.
StopProcessForgets(result) ==
  /\ pid' = Invalid
  /\ \/ pid = Invalid /\ result = "OK" /\ UNCHANGED proc
     \/ pid # Invalid /\ result = "OK" /\ KillDelivers(pid)
     \/ pid # Invalid /\ result = "FAIL" /\ KillThrows(pid)

\* stopProcess(): SIGTERM to pid_, which is kept when kill throws.
StopProcess(result) ==
  \/ /\ pid = Invalid
     /\ result = "OK"
     /\ UNCHANGED <<proc, pid>>
  \/ /\ pid # Invalid
     /\ result = "OK"
     /\ KillDelivers(pid)
     /\ pid' = Invalid
  \/ /\ pid # Invalid
     /\ result = "FAIL"
     /\ KillThrows(pid)
     /\ UNCHANGED pid

\* The critical section of stop().  A failure returns before the join.
StopBody ==
  /\ op.at = "body"
  /\ mutex' = "none"
  /\ \/ /\ ~started
        /\ op' = [op EXCEPT !.at = "join"]
        /\ UNCHANGED <<proc, pid, started>>
     \/ /\ started
        /\ started' = FALSE
        /\ StopProcess("OK")
        /\ op' = [op EXCEPT !.at = "join"]
     \/ /\ started
        /\ started' = FALSE
        /\ StopProcess("FAIL")
        /\ op' = [op EXCEPT !.at = "return", !.ret = "FAIL"]
  /\ UNCHANGED <<host, mon>>

\* Mutant: the monitor thread is not joined.
JoinSkipped ==
  /\ op.at = "join"
  /\ op' = [op EXCEPT !.at = "return"]
  /\ UNCHANGED <<proc, host, pid, started, mutex, mon>>

\* threadMonitor_.join(), for the caller that found the controller started.
Join ==
  /\ op.at = "join"
  /\ \/ /\ Joinable /\ op.wait
        /\ mon.at = "done"
        /\ mon' = NoMonitor
     \/ /\ ~(Joinable /\ op.wait)
        /\ UNCHANGED mon
  /\ op' = [op EXCEPT !.at = "return", !.wait = FALSE]
  /\ UNCHANGED <<proc, host, pid, started, mutex>>

\* start() or stop() returns to the owner.
Return ==
  /\ op.at = "return" /\ op.call \in {"start", "stop"}
  /\ op' = NoCall
  /\ UNCHANGED <<proc, host, pid, started, mutex, mon>>

\* ~PmAgentController: stop() has returned, whatever its result; cleanup();
\* then the members go.  Destroying a joinable std::thread calls std::terminate.
Destroyed ==
  /\ op.at = "return" /\ op.call = "destroy"
  /\ HostEnds(IF Joinable THEN "aborted" ELSE "down")

-------------------------------------------------------------------------------
(* monitorProcess() *)

\* pid_ is read without mutex_.
MonRead ==
  /\ mon.at = "read"
  /\ mon' = [mon EXCEPT !.at = "wait", !.arg = pid]
  /\ UNCHANGED <<proc, host, pid, started, mutex, op>>

MonWait ==
  /\ mon.at = "wait"
  /\ \E s \in WaitStatus :
       /\ WaitReturns(mon.arg, s)
       /\ mon' = [mon EXCEPT !.at = "lock", !.code = s]
  /\ UNCHANGED <<host, pid, started, mutex, op>>

\* Mutant: the monitor restarts the agent whether or not the flag is set.
MonLockIgnoresStop ==
  /\ mon.at = "lock" /\ mutex = "none"
  /\ pid' = Invalid /\ mutex' = "monitor"
  /\ mon' = MonAt("delay")
  /\ UNCHANGED <<proc, host, started, op>>

\* Mutant: pid_ is not reset before startProcess(), which then refuses.
MonLockKeepsPid ==
  /\ mon.at = "lock" /\ mutex = "none"
  /\ IF started
     THEN mutex' = "monitor" /\ mon' = MonAt("delay")
     ELSE mon' = MonAt("done") /\ UNCHANGED mutex
  /\ UNCHANGED <<proc, host, pid, started, op>>

\* With mutex_ taken: give up, wait again, or keep mutex_ for the restart delay.
MonLock ==
  /\ mon.at = "lock"
  /\ mutex = "none"
  /\ \/ /\ mon.code = "ImpossibleError"
        /\ mon' = MonAt("done")
        /\ UNCHANGED <<pid, mutex>>
     \/ /\ mon.code = "ProcessNotAChild"
        /\ mon' = MonAt("read")
        /\ UNCHANGED <<pid, mutex>>
     \/ /\ mon.code \notin {"ImpossibleError", "ProcessNotAChild"}
        /\ ~started
        /\ mon' = MonAt("done")
        /\ UNCHANGED <<pid, mutex>>
     \/ /\ mon.code \notin {"ImpossibleError", "ProcessNotAChild"}
        /\ started
        /\ pid' = Invalid
        /\ mutex' = "monitor"
        /\ mon' = MonAt("delay")
  /\ UNCHANGED <<proc, host, started, op>>

\* Mutant: mutex_ stays locked when the fork fails.
MonRestartKeepsLock ==
  /\ mon.at = "delay"
  /\ \E result \in {"OK", "FAIL"} :
       /\ StartProcess("lockedClone", result)
       /\ mutex' = IF result = "OK" THEN "none" ELSE mutex
  /\ mon' = MonAt("read")
  /\ UNCHANGED <<host, started, op>>

\* After the delay: startProcess(), whose result is ignored, and unlock.
MonRestart ==
  /\ mon.at = "delay"
  /\ \E result \in {"OK", "FAIL"} : StartProcess("lockedClone", result)
  /\ mutex' = "none"
  /\ mon' = MonAt("read")
  /\ UNCHANGED <<host, started, op>>

-------------------------------------------------------------------------------
(* The rest of the world *)

\* The service is killed: no destructor runs and the agent lives on.
HostCrash ==
  /\ HostMayCrash
  /\ host = "up"
  /\ HostEnds("down")

\* launchd or systemd starts the service again.
HostRestart ==
  /\ host # "up"
  /\ host' = "up"
  /\ UNCHANGED <<proc, pid, started, mutex, mon, op>>

ProcessStep ==
  /\ \E p \in Pids : \/ Exec(p)
                     \/ ExecFails(p)
                     \/ AgentCrashes(p)
                     \/ TerminatedBySignal(p)
                     \/ OtherProgramStarts(p)
                     \/ OtherProgramEnds(p)
  /\ UNCHANGED ctrl

Owner == \/ StartCall \/ KillIfRunning \/ KillPrevious \/ Spawn \/ Launch
         \/ StopCall("stop") \/ StopCall("destroy")
         \/ StopLock \/ StopBody \/ Join \/ Return \/ Destroyed

Monitor == MonRead \/ MonWait \/ MonLock \/ MonRestart

Next == Owner \/ Monitor \/ ProcessStep \/ HostCrash \/ HostRestart

Spec == Init /\ [][Next]_vars
-------------------------------------------------------------------------------
(***************************************************************************)
(* Fairness.  A call in progress goes on and so does the monitor thread;   *)
(* neither is starved of mutex_ for ever, although each may find it taken  *)
(* any number of times; a fork or an execv that is tried for ever succeeds *)
(* in the end; a forked child gets to execv.  Nothing makes the owner call,*)
(* the agent crash or the service be killed.                               *)
(***************************************************************************)
OwnerGoesOn == \/ KillIfRunning \/ KillPrevious \/ Spawn \/ Launch
               \/ StopBody \/ Join \/ Return \/ Destroyed

ChildExecs == /\ \E p \in Pids : Exec(p) \/ ExecFails(p)
              /\ UNCHANGED ctrl

SignalEnds(p) == TerminatedBySignal(p) /\ UNCHANGED ctrl

LiveSpec ==
  /\ Spec
  /\ WF_vars(OwnerGoesOn) /\ SF_vars(StopLock)
  /\ WF_vars(MonRead) /\ WF_vars(MonWait) /\ SF_vars(MonLock)
  /\ WF_vars(MonRestart) /\ SF_vars(MonRestart /\ pid' # Invalid)
  /\ WF_vars(ChildExecs) /\ SF_vars((\E p \in Pids : Exec(p)) /\ UNCHANGED ctrl)

\* As LiveSpec, with an agent that does end when it is sent SIGTERM.
FairSpec == LiveSpec /\ \A p \in Pids : WF_vars(SignalEnds(p))

-------------------------------------------------------------------------------
(***************************************************************************)
(* The inductive invariant: what the code relies on between its steps.     *)
(***************************************************************************)

\* mutex_ is held in the critical section of stop() and across the restart delay.
MutexInv ==
  /\ mutex = "owner" <=> op.at = "body"
  /\ mutex = "monitor" <=> mon.at = "delay"

\* Where the owner is in its call, and what it can count on there.
CallInv ==
  /\ op.at \in {"scan", "kill", "spawn"} => op.call = "start" /\ ~(started /\ Joinable)
  /\ op.at = "launch" => op.call = "start" /\ ~started /\ pid # Invalid
  /\ op.at \in {"lock", "body"} => op.call \in {"stop", "destroy"} /\ op.wait = started
  /\ op.at = "join" => op.call \in {"stop", "destroy"} /\ ~started
  /\ op.at = "return" /\ op.call = "destroy" => ~started
  /\ op.at = "kill" => op.target # Invalid

\* The monitor thread exists while the controller is started; a start() that got
\* none leaves pid_ set.  So does a thread that is left unjoined afterwards, unless
\* stop() is about to join it.
ThreadInv ==
  /\ started => Joinable \/ pid # Invalid
  /\ mon.at = "delay" => started /\ pid = Invalid
  /\ op.at = "launch" => ~Joinable
  /\ Joinable /\ ~started => pid # Invalid \/ (op.at = "join" /\ op.wait)

\* Nothing of the controller is left when the host has ended.
HostInv ==
  host # "up" => /\ op = NoCall /\ mon = NoMonitor /\ ~started
                 /\ pid = Invalid /\ mutex = "none"

ProtocolInv == TypeOK /\ MutexInv /\ CallInv /\ ThreadInv /\ HostInv

\* While started, pid_ is what the monitor waits for, and once the wait has told
\* it that the child is gone, pid_ names no child that serves.
WatchInv ==
  /\ \A p \in Pids : Serving(p) => pid = p
  /\ started /\ mon.at = "wait" => mon.arg = pid
  /\ started /\ mon.at = "lock" /\ mon.code \notin {"ImpossibleError", "ProcessNotAChild"}
       => pid = Invalid \/ ~Serving(pid)

-------------------------------------------------------------------------------
(* Properties *)

\* A child that serves is the one pid_ names: the controller never loses sight
\* of an agent it started, so two never serve at once.  It takes waitpid to be
\* uninterrupted: on EINTR the code forgets a child that lives.
ServingIsSupervised == \A p \in Pids : Serving(p) => pid = p

\* Outside start(), a child serves only while the controller is started: after
\* stop() has cleared the flag the monitor forks no other, and the one there
\* was has been signalled or is dead, even where stop() returns PM_FAIL because
\* the monitor had reaped it first.
ServesOnlyIfStarted ==
  (\E p \in Pids : Serving(p)) => started \/ op.at = "launch"

\* A child appears only in start() or while the controller is started: stop()
\* and a restart by the monitor exclude each other through mutex_.
ForksOnlyIfStarted ==
  [][\A p \in Pids : Serving(p)' /\ ~Serving(p) => started \/ op.at = "spawn"]_vars

\* start() never assigns over a thread that is still joinable, which would end
\* the service: whatever failed before, a joinable thread of a controller that
\* is not started leaves pid_ set, and start() then fails in startProcess().
LaunchIsSafe == op.at = "launch" => ~Joinable

\* std::terminate is only reached from the destructor, and only when kill has
\* failed for the pid that is still in pid_.
AbortsOnlyAfterFailedKill ==
  [][host' = "aborted" /\ host # "aborted" => op.call = "destroy" /\ pid # Invalid]_vars

\* stop() returns.
StopReturns == op.at = "lock" ~> op.at \in {"return", "idle"}

\* A started controller has a running agent sooner or later, however often the
\* agent ends or fork fails, unless it is stopped or the service ends.
KeptAlive ==
  started ~> ~started \/ \E p \in Pids : Serving(p) /\ RunsAgentBinary(p)

\* The controller implements AgentService: from the fork in start() to the
\* moment stop() clears the flag the service is wanted.
Service == INSTANCE AgentService
             WITH wanted <- started \/ op.at = "launch",
                  serving <- {p \in Pids : Serving(p)}

ImplementsService == Service!Spec

\* StartStop of PmAgentControllerTest.cpp: after stop() has returned PM_OK no
\* agent of this service is running.
StoppedMeansGone ==
  op.call = "stop" /\ op.at = "return" /\ op.ret = "OK"
    => \A p \in Pids : ~(proc[p].own /\ RunsAgentBinary(p))
===============================================================================
