------------------------ MODULE PmAgentControllerProofs -----------------------
(***************************************************************************)
(* Proofs about PmAgentController for every set of pids and every choice of*)
(* the faults: its types, the protocol between the owner and the monitor   *)
(* thread (ProtocolInv), and the supervision of the child (WatchInv).  At  *)
(* the end those about ModuleControlPlugin, for any callers: its calls are *)
(* serialised, its flag agrees with the controller's, so that the          *)
(* controller is used as PmAgentController assumes, and what callers are   *)
(* told is true.                                                           *)
(***************************************************************************)
EXTENDS ModuleControlPlugin, TLAPS

\* Exactly the calls, places and statuses the definitions name.
USE DEF MonAt, NoMonitor, NoCall

\* Whatever a process does to the table, the table keeps its type.
LEMMA ProcessStepType ==
  ASSUME ProcTypeOK, NEW p \in Pids,
         \/ Exec(p) \/ ExecFails(p) \/ AgentCrashes(p) \/ TerminatedBySignal(p)
         \/ OtherProgramStarts(p) \/ OtherProgramEnds(p)
  PROVE  ProcTypeOK'
<1> USE DEF ProcTypeOK, Process, States, Images
<1>1. NoProcess \in Process /\ Remains(p) \in Process
  BY DEF NoProcess, Remains
<1>2. CASE Exec(p)
  BY <1>2 DEF Exec
<1>3. CASE ExecFails(p)
  BY <1>1, <1>3 DEF ExecFails
<1>4. CASE AgentCrashes(p) \/ TerminatedBySignal(p)
  BY <1>1, <1>4 DEF AgentCrashes, TerminatedBySignal
<1>5. CASE OtherProgramStarts(p)
  BY <1>5 DEF OtherProgramStarts
<1>6. CASE OtherProgramEnds(p)
  BY <1>1, <1>6 DEF OtherProgramEnds
<1>7. QED
  BY <1>2, <1>3, <1>4, <1>5, <1>6

\* So it does when startProcess forks or refuses to.
LEMMA StartProcessType ==
  ASSUME ProcTypeOK, pid \in Pids \cup {Invalid},
         NEW image \in Images, NEW result, StartProcess(image, result)
  PROVE  ProcTypeOK' /\ pid' \in Pids \cup {Invalid}
<1>1. CASE UNCHANGED proc /\ pid' \in {pid, Invalid}
  BY <1>1 DEF ProcTypeOK
<1>2. CASE \E p \in Pids : ForkedInto(p, image) /\ pid' = p
  <2>1. PICK p \in Pids : ForkedInto(p, image) /\ pid' = p
    BY <1>2
  <2>2. [st |-> image, own |-> TRUE, term |-> FALSE] \in Process
    BY DEF Process, States
  <2>3. QED
    BY <2>1, <2>2 DEF ProcTypeOK, ForkedInto
<1>3. QED
  BY <1>1, <1>2 DEF StartProcess, ForkFails

\* And when a signal is sent, by stopProcess or by killIfRunning.
LEMMA KillType ==
  ASSUME ProcTypeOK, NEW p \in Pids, KillDelivers(p)
  PROVE  ProcTypeOK'
BY DEF ProcTypeOK, Process, KillDelivers

\* stopProcess() keeps the types of the table and of pid_.
LEMMA StopProcessType ==
  ASSUME ProcTypeOK, pid \in Pids \cup {Invalid}, NEW result, StopProcess(result)
  PROVE  ProcTypeOK' /\ pid' \in Pids \cup {Invalid}
<1>1. CASE pid # Invalid /\ KillDelivers(pid) /\ pid' = Invalid
  BY <1>1, KillType
<1>2. CASE proc' = proc /\ pid' \in {pid, Invalid}
  BY <1>2 DEF ProcTypeOK
<1>3. QED
  BY <1>1, <1>2 DEF StopProcess, KillThrows

\* The host's end changes the table within its type and forgets the controller.
LEMMA HostEndsType ==
  ASSUME ProcTypeOK, NEW how \in {"down", "aborted"}, HostEnds(how)
  PROVE  TypeOK'
BY PidAssumption
   DEF ProcTypeOK, Process, NoProcess, Orphaned, HostEnds, TypeOK, CtrlTypeOK,
       MonPc, Calls, OpPc, WaitStatus, States, Images

\* The invariant holds when the controller has been constructed.
LEMMA InitProtocol == Init => ProtocolInv
<1> SUFFICES ASSUME Init PROVE ProtocolInv
  OBVIOUS
<1> USE DEF Init
<1>1. TypeOK
  BY DEF ProcInit, TypeOK, ProcTypeOK, Process, NoProcess, States, CtrlTypeOK, MonPc,
         Calls, OpPc, WaitStatus
<1>2. MutexInv /\ CallInv /\ ThreadInv /\ HostInv
  BY DEF MutexInv, CallInv, ThreadInv, HostInv, Joinable
<1>3. QED
  BY <1>1, <1>2 DEF ProtocolInv

-------------------------------------------------------------------------------
(* The owner's steps keep ProtocolInv. *)

\* ProtocolInv is kept when start() is called.
LEMMA StartCallProtocol ==
  ASSUME ProtocolInv, StartCall
  PROVE  ProtocolInv'
<1> USE DEF ProtocolInv, StartCall, BeginStart
<1>1. op' = [call |-> "start", at |-> "scan", wait |-> FALSE, target |-> Invalid,
             ret |-> "OK"]
  OBVIOUS
<1>2. TypeOK'
  BY <1>1 DEF TypeOK, ProcTypeOK, CtrlTypeOK, Calls, OpPc
<1>3. (MutexInv /\ CallInv /\ ThreadInv /\ HostInv)'
  BY <1>1 DEF TypeOK, CtrlTypeOK, MutexInv, CallInv, ThreadInv, HostInv, Joinable
<1>4. QED
  BY <1>2, <1>3

\* ProtocolInv is kept when
\* killIfRunning() looks for an agent that already runs.
LEMMA KillIfRunningProtocol ==
  ASSUME ProtocolInv, KillIfRunning
  PROVE  ProtocolInv'
<1> USE DEF ProtocolInv, TypeOK, CtrlTypeOK
<1>1. ProcTypeOK' /\ op.at = "scan" /\ UNCHANGED <<host, pid, started, mutex, mon>>
  BY DEF ProcTypeOK, KillIfRunning
<1>2. CASE op' = [op EXCEPT !.at = "spawn"]
  <2>1. TypeOK'
    BY <1>1, <1>2 DEF OpPc
  <2>2. (MutexInv /\ CallInv /\ ThreadInv /\ HostInv)'
    BY <1>1, <1>2 DEF MutexInv, CallInv, ThreadInv, HostInv, Joinable
  <2>3. QED
    BY <2>1, <2>2
<1>3. CASE \E p \in Pids : op' = [op EXCEPT !.at = "kill", !.target = p]
  <2>1. PICK p \in Pids : op' = [op EXCEPT !.at = "kill", !.target = p]
    BY <1>3
  <2>2. TypeOK'
    BY <1>1, <2>1 DEF OpPc
  <2>3. (MutexInv /\ CallInv /\ ThreadInv /\ HostInv)'
    BY <1>1, <2>1, PidAssumption DEF MutexInv, CallInv, ThreadInv, HostInv, Joinable
  <2>4. QED
    BY <2>2, <2>3
<1>4. QED
  BY <1>2, <1>3 DEF KillIfRunning

\* ProtocolInv is kept when killIfRunning() signals one.
LEMMA KillPreviousProtocol ==
  ASSUME ProtocolInv, KillPrevious
  PROVE  ProtocolInv'
<1> USE DEF ProtocolInv
<1>1. op.target \in Pids
  BY DEF KillPrevious, TypeOK, CtrlTypeOK, CallInv
<1>2. ProcTypeOK' /\ op.at = "kill" /\ UNCHANGED <<host, pid, started, mutex, mon>>
  BY <1>1, KillType DEF KillPrevious, TypeOK, KillThrows, ProcTypeOK
<1>3. CASE op' = [op EXCEPT !.at = "spawn"]
  <2>1. TypeOK'
    BY <1>2, <1>3 DEF TypeOK, CtrlTypeOK, OpPc
  <2>2. (MutexInv /\ CallInv /\ ThreadInv /\ HostInv)'
    BY <1>2, <1>3 DEF TypeOK, CtrlTypeOK, MutexInv, CallInv, ThreadInv, HostInv, Joinable
  <2>3. QED
    BY <2>1, <2>2
<1>4. CASE op' = [op EXCEPT !.at = "return", !.ret = "FAIL"]
  <2>1. TypeOK'
    BY <1>2, <1>4 DEF TypeOK, CtrlTypeOK, OpPc
  <2>2. (MutexInv /\ CallInv /\ ThreadInv /\ HostInv)'
    BY <1>2, <1>4 DEF TypeOK, CtrlTypeOK, MutexInv, CallInv, ThreadInv, HostInv, Joinable
  <2>3. QED
    BY <2>1, <2>2
<1>5. QED
  BY <1>3, <1>4 DEF KillPrevious

\* What startProcess() returns and when.
LEMMA StartProcessResult ==
  ASSUME NEW image, NEW result, StartProcess(image, result)
  PROVE  /\ pid # Invalid => result = "FAIL" /\ UNCHANGED <<proc, pid>>
         /\ result = "OK" => pid = Invalid /\ \E p \in Pids : ForkedInto(p, image) /\ pid' = p
         /\ result = "FAIL" => UNCHANGED <<proc, pid>>
BY DEF StartProcess, ForkFails

\* ProtocolInv is kept when start() forks, or fails to.
LEMMA SpawnProtocol ==
  ASSUME ProtocolInv, Spawn
  PROVE  ProtocolInv'
<1> USE DEF ProtocolInv, Spawn
<1>1. ProcTypeOK' /\ pid' \in Pids \cup {Invalid}
  BY StartProcessType DEF TypeOK, CtrlTypeOK, Images
<1>2. CASE StartProcess("clone", "OK") /\ op' = [op EXCEPT !.at = "launch"]
  <2>1. pid = Invalid /\ pid' # Invalid
    BY <1>2, PidAssumption, StartProcessResult
  <2>2. TypeOK'
    BY <1>1, <1>2 DEF TypeOK, CtrlTypeOK, OpPc
  <2>3. (MutexInv /\ CallInv /\ ThreadInv /\ HostInv)'
    BY <1>2, <2>1 DEF TypeOK, CtrlTypeOK, MutexInv, CallInv, ThreadInv, HostInv, Joinable
  <2>4. QED
    BY <2>2, <2>3
<1>3. CASE StartProcess("clone", "FAIL") /\ op' = [op EXCEPT !.at = "return", !.ret = "FAIL"]
  <2>1. UNCHANGED <<proc, pid>>
    BY <1>3, StartProcessResult
  <2>2. TypeOK'
    BY <1>1, <1>3 DEF TypeOK, CtrlTypeOK, OpPc
  <2>3. (MutexInv /\ CallInv /\ ThreadInv /\ HostInv)'
    BY <1>3, <2>1 DEF TypeOK, CtrlTypeOK, MutexInv, CallInv, ThreadInv, HostInv, Joinable
  <2>4. QED
    BY <2>2, <2>3
<1>4. QED
  BY <1>2, <1>3

\* When the host ends nothing is left that could break the protocol.
LEMMA HostEndsProtocol ==
  ASSUME ProtocolInv, NEW how \in {"down", "aborted"}, HostEnds(how)
  PROVE  ProtocolInv'
<1>1. TypeOK'
  BY HostEndsType DEF ProtocolInv, TypeOK
<1>2. (MutexInv /\ CallInv /\ ThreadInv /\ HostInv)'
  BY DEF HostEnds, MutexInv, CallInv, ThreadInv, HostInv, Joinable
<1>3. QED
  BY <1>1, <1>2 DEF ProtocolInv

\* ProtocolInv is kept when start() creates the monitor thread.
LEMMA LaunchProtocol ==
  ASSUME ProtocolInv, Launch
  PROVE  ProtocolInv'
<1> USE DEF ProtocolInv, Launch
<1>1. ~Joinable /\ pid # Invalid /\ op.at = "launch"
  BY DEF ThreadInv, CallInv
<1>2. CASE /\ started' /\ op' = [op EXCEPT !.at = "return"]
           /\ mon' = [at |-> "read", arg |-> Invalid, code |-> "UnknownStatus"]
           /\ UNCHANGED <<proc, host, pid, mutex>>
  <2>1. TypeOK'
    BY <1>2 DEF TypeOK, ProcTypeOK, CtrlTypeOK, OpPc, MonPc, WaitStatus
  <2>2. (MutexInv /\ CallInv /\ ThreadInv /\ HostInv)'
    BY <1>1, <1>2 DEF TypeOK, CtrlTypeOK, MutexInv, CallInv, ThreadInv, HostInv, Joinable
  <2>3. QED
    BY <2>1, <2>2
<1>3. CASE /\ started' /\ op' = [op EXCEPT !.at = "return", !.ret = "FAIL"]
           /\ UNCHANGED <<proc, host, pid, mutex, mon>>
  <2>1. TypeOK'
    BY <1>3 DEF TypeOK, ProcTypeOK, CtrlTypeOK, OpPc
  <2>2. (MutexInv /\ CallInv /\ ThreadInv /\ HostInv)'
    BY <1>1, <1>3 DEF TypeOK, CtrlTypeOK, MutexInv, CallInv, ThreadInv, HostInv, Joinable
  <2>3. QED
    BY <2>1, <2>2
<1>4. QED
  BY <1>1, <1>2, <1>3

\* ProtocolInv is kept when stop() or the destructor is called.
LEMMA StopCallProtocol ==
  ASSUME ProtocolInv, NEW c \in {"stop", "destroy"}, StopCall(c)
  PROVE  ProtocolInv'
<1> USE DEF ProtocolInv, StopCall, BeginStop
<1>1. op' = [call |-> c, at |-> "lock", wait |-> started, target |-> Invalid,
             ret |-> "OK"]
  OBVIOUS
<1>2. TypeOK'
  BY <1>1 DEF TypeOK, ProcTypeOK, CtrlTypeOK, Calls, OpPc
<1>3. (MutexInv /\ CallInv /\ ThreadInv /\ HostInv)'
  BY <1>1 DEF TypeOK, CtrlTypeOK, MutexInv, CallInv, ThreadInv, HostInv, Joinable
<1>4. QED
  BY <1>2, <1>3

\* ProtocolInv is kept when stop() takes the mutex.
LEMMA StopLockProtocol ==
  ASSUME ProtocolInv, StopLock
  PROVE  ProtocolInv'
<1> USE DEF ProtocolInv, StopLock
<1>1. TypeOK'
  BY DEF TypeOK, ProcTypeOK, CtrlTypeOK, OpPc
<1>2. (MutexInv /\ CallInv /\ ThreadInv /\ HostInv)'
  BY DEF TypeOK, CtrlTypeOK, MutexInv, CallInv, ThreadInv, HostInv, Joinable
<1>3. QED
  BY <1>1, <1>2

\* What stopProcess() leaves in pid_.
LEMMA StopProcessResult ==
  ASSUME NEW result, StopProcess(result)
  PROVE  /\ result = "OK" => pid' = Invalid
         /\ result = "FAIL" => pid # Invalid /\ pid' = pid
BY DEF StopProcess

\* ProtocolInv is kept when stop() clears the flag and signals the agent.
LEMMA StopBodyProtocol ==
  ASSUME ProtocolInv, StopBody
  PROVE  ProtocolInv'
<1> USE DEF ProtocolInv
<1>1. ProcTypeOK' /\ pid' \in Pids \cup {Invalid}
  <2>1. CASE UNCHANGED <<proc, pid>>
    BY <2>1 DEF TypeOK, ProcTypeOK, CtrlTypeOK
  <2>2. CASE \E result \in {"OK", "FAIL"} : StopProcess(result)
    BY <2>2, StopProcessType DEF TypeOK, CtrlTypeOK
  <2>3. QED
    BY <2>1, <2>2 DEF StopBody
<1>2. op.at = "body" /\ mutex' = "none" /\ started' = FALSE /\ UNCHANGED <<host, mon>>
  BY DEF StopBody, TypeOK, CtrlTypeOK
<1>3. CASE op' = [op EXCEPT !.at = "join"] /\ (UNCHANGED pid \/ started)
  <2>1. TypeOK'
    BY <1>1, <1>2, <1>3 DEF TypeOK, CtrlTypeOK, OpPc
  <2>2. (MutexInv /\ CallInv /\ ThreadInv /\ HostInv)'
    BY <1>2, <1>3 DEF TypeOK, CtrlTypeOK, MutexInv, CallInv, ThreadInv, HostInv, Joinable
  <2>3. QED
    BY <2>1, <2>2
<1>4. CASE /\ op' = [op EXCEPT !.at = "return", !.ret = "FAIL"]
           /\ pid # Invalid /\ UNCHANGED pid
  <2>1. TypeOK'
    BY <1>1, <1>2, <1>4 DEF TypeOK, CtrlTypeOK, OpPc
  <2>2. (MutexInv /\ CallInv /\ ThreadInv /\ HostInv)'
    BY <1>2, <1>4 DEF TypeOK, CtrlTypeOK, MutexInv, CallInv, ThreadInv, HostInv, Joinable
  <2>3. QED
    BY <2>1, <2>2
<1>5. QED
  BY <1>3, <1>4, StopProcessResult DEF StopBody

\* ProtocolInv is kept when stop() joins the monitor thread.
LEMMA JoinProtocol ==
  ASSUME ProtocolInv, Join
  PROVE  ProtocolInv'
<1> USE DEF ProtocolInv
<1>1. /\ op.at = "join" /\ ~started
      /\ op' = [op EXCEPT !.at = "return", !.wait = FALSE]
      /\ UNCHANGED <<proc, host, pid, started, mutex>>
  BY DEF Join, CallInv
<1>2. CASE mon.at = "done" /\ mon' = [at |-> "none", arg |-> Invalid, code |-> "UnknownStatus"]
  <2>1. TypeOK'
    BY <1>1, <1>2 DEF TypeOK, ProcTypeOK, CtrlTypeOK, OpPc, MonPc, WaitStatus
  <2>2. (MutexInv /\ CallInv /\ ThreadInv /\ HostInv)'
    BY <1>1, <1>2 DEF TypeOK, CtrlTypeOK, MutexInv, CallInv, ThreadInv, HostInv, Joinable
  <2>3. QED
    BY <2>1, <2>2
<1>3. CASE ~(Joinable /\ op.wait) /\ UNCHANGED mon
  <2>1. TypeOK'
    BY <1>1, <1>3 DEF TypeOK, ProcTypeOK, CtrlTypeOK, OpPc
  <2>2. (MutexInv /\ CallInv /\ ThreadInv /\ HostInv)'
    BY <1>1, <1>3 DEF TypeOK, CtrlTypeOK, MutexInv, CallInv, ThreadInv, HostInv, Joinable
  <2>3. QED
    BY <2>1, <2>2
<1>4. QED
  BY <1>2, <1>3 DEF Join

\* ProtocolInv is kept when A call returns to its caller.
LEMMA ReturnProtocol ==
  ASSUME ProtocolInv, Return
  PROVE  ProtocolInv'
<1> USE DEF ProtocolInv, Return
<1>1. op' = [call |-> "none", at |-> "idle", wait |-> FALSE, target |-> Invalid,
             ret |-> "OK"]
  OBVIOUS
<1>2. TypeOK'
  BY <1>1 DEF TypeOK, ProcTypeOK, CtrlTypeOK, Calls, OpPc
<1>3. (MutexInv /\ CallInv /\ ThreadInv /\ HostInv)'
  BY <1>1 DEF TypeOK, CtrlTypeOK, MutexInv, CallInv, ThreadInv, HostInv, Joinable
<1>4. QED
  BY <1>2, <1>3

-------------------------------------------------------------------------------
(* The monitor's steps keep ProtocolInv. *)

\* ProtocolInv is kept when The monitor reads pid_.
LEMMA MonReadProtocol ==
  ASSUME ProtocolInv, MonRead
  PROVE  ProtocolInv'
<1> USE DEF ProtocolInv, MonRead
<1>1. TypeOK'
  BY DEF TypeOK, ProcTypeOK, CtrlTypeOK, MonPc
<1>2. (MutexInv /\ CallInv /\ ThreadInv /\ HostInv)'
  BY DEF TypeOK, CtrlTypeOK, MutexInv, CallInv, ThreadInv, HostInv, Joinable
<1>3. QED
  BY <1>1, <1>2

\* Waiting may reap the child, which keeps the table within its type.
LEMMA WaitType ==
  ASSUME ProcTypeOK, NEW p \in Pids \cup {Invalid}, NEW s, WaitReturns(p, s)
  PROVE  ProcTypeOK'
<1>1. CASE UNCHANGED proc
  BY <1>1 DEF ProcTypeOK
<1>2. CASE proc' = [proc EXCEPT ![p] = NoProcess]
  BY <1>2 DEF ProcTypeOK, Process, NoProcess, States
<1>3. QED
  BY <1>1, <1>2 DEF WaitReturns

\* ProtocolInv is kept when The wait of the monitor ends.
LEMMA MonWaitProtocol ==
  ASSUME ProtocolInv, MonWait
  PROVE  ProtocolInv'
<1> USE DEF ProtocolInv
<1>1. PICK s \in WaitStatus : /\ WaitReturns(mon.arg, s)
                              /\ mon' = [mon EXCEPT !.at = "lock", !.code = s]
  BY DEF MonWait
<1>2. mon.at = "wait" /\ UNCHANGED <<host, pid, started, mutex, op>>
  BY DEF MonWait
<1>3. ProcTypeOK'
  BY <1>1, WaitType DEF TypeOK, CtrlTypeOK
<1>4. TypeOK'
  BY <1>1, <1>2, <1>3 DEF TypeOK, CtrlTypeOK, MonPc
<1>5. (MutexInv /\ CallInv /\ ThreadInv /\ HostInv)'
  BY <1>1, <1>2 DEF TypeOK, CtrlTypeOK, MutexInv, CallInv, ThreadInv, HostInv, Joinable
<1>6. QED
  BY <1>4, <1>5

\* ProtocolInv is kept when
\* The monitor has the mutex and decides whether to go on.
LEMMA MonLockProtocol ==
  ASSUME ProtocolInv, MonLock
  PROVE  ProtocolInv'
<1> USE DEF ProtocolInv
<1>1. PICK pc \in {"read", "done", "delay"} :
        mon' = [at |-> pc, arg |-> Invalid, code |-> "UnknownStatus"]
  BY DEF MonLock
<1>2. /\ mon.at = "lock" /\ mutex = "none"
      /\ UNCHANGED <<proc, host, started, op>>
      /\ IF pc = "delay" THEN started /\ pid' = Invalid /\ mutex' = "monitor"
                         ELSE UNCHANGED <<pid, mutex>>
  BY <1>1 DEF MonLock
<1>3. TypeOK'
  BY <1>1, <1>2 DEF TypeOK, ProcTypeOK, CtrlTypeOK, MonPc, WaitStatus
<1>4. (MutexInv /\ CallInv /\ ThreadInv /\ HostInv)'
  BY <1>1, <1>2 DEF TypeOK, CtrlTypeOK, MutexInv, CallInv, ThreadInv, HostInv, Joinable
<1>5. QED
  BY <1>3, <1>4

\* ProtocolInv is kept when The monitor starts the agent again.
LEMMA MonRestartProtocol ==
  ASSUME ProtocolInv, MonRestart
  PROVE  ProtocolInv'
<1> USE DEF ProtocolInv
<1>1. PICK result \in {"OK", "FAIL"} : StartProcess("lockedClone", result)
  BY DEF MonRestart
<1>2. /\ mon.at = "delay" /\ mutex' = "none" /\ UNCHANGED <<host, started, op>>
      /\ mon' = [at |-> "read", arg |-> Invalid, code |-> "UnknownStatus"]
  BY DEF MonRestart
<1>3. ProcTypeOK' /\ pid' \in Pids \cup {Invalid}
  BY <1>1, StartProcessType DEF TypeOK, CtrlTypeOK, Images
<1>4. TypeOK'
  BY <1>2, <1>3 DEF TypeOK, CtrlTypeOK, MonPc, WaitStatus
<1>5. (MutexInv /\ CallInv /\ ThreadInv /\ HostInv)'
  BY <1>2 DEF TypeOK, CtrlTypeOK, MutexInv, CallInv, ThreadInv, HostInv, Joinable
<1>6. QED
  BY <1>4, <1>5

\* ProtocolInv is kept when The service comes up again after its end.
LEMMA HostRestartProtocol ==
  ASSUME ProtocolInv, HostRestart
  PROVE  ProtocolInv'
BY DEF ProtocolInv, HostRestart, TypeOK, ProcTypeOK, CtrlTypeOK, MutexInv, CallInv,
       ThreadInv, HostInv, Joinable

\* A step of the processes, and a stutter, leave the controller alone.
LEMMA UnchangedProtocol ==
  ASSUME ProtocolInv, UNCHANGED ctrl, ProcTypeOK'
  PROVE  ProtocolInv'
BY DEF ProtocolInv, ctrl, TypeOK, CtrlTypeOK, MutexInv, CallInv, ThreadInv, HostInv,
       Joinable

\* Hence ProtocolInv is inductive.
LEMMA NextProtocol ==
  ASSUME ProtocolInv, [Next]_vars
  PROVE  ProtocolInv'
<1>1. CASE Owner
  BY <1>1, StartCallProtocol, KillIfRunningProtocol, KillPreviousProtocol,
     SpawnProtocol, LaunchProtocol, StopCallProtocol, StopLockProtocol,
     StopBodyProtocol, JoinProtocol, ReturnProtocol, HostEndsProtocol
     DEF Owner, Destroyed
<1>2. CASE Monitor
  BY <1>2, MonReadProtocol, MonWaitProtocol, MonLockProtocol, MonRestartProtocol
     DEF Monitor
<1>3. CASE ProcessStep
  BY <1>3, ProcessStepType, UnchangedProtocol DEF ProcessStep, ProtocolInv, TypeOK
<1>4. CASE HostCrash
  BY <1>4, HostEndsProtocol DEF HostCrash
<1>5. CASE HostRestart
  BY <1>5, HostRestartProtocol
<1>6. CASE UNCHANGED vars
  BY <1>6, UnchangedProtocol DEF vars, ProtocolInv, TypeOK, ProcTypeOK
<1>7. QED
  BY <1>1, <1>2, <1>3, <1>4, <1>5, <1>6 DEF Next

\* The owner and the monitor thread keep to their protocol in every state, for
\* any processes and faults: mutex_ covers stop()'s critical section and the
\* restart delay, a started controller has its thread, and a thread left
\* unjoined by a stop() that failed leaves pid_ set.
THEOREM ProtocolCorrect == Spec => []ProtocolInv
<1>1. ProtocolInv /\ [Next]_vars => ProtocolInv'
  BY NextProtocol
<1>2. QED
  BY InitProtocol, <1>1, PTL DEF Spec

\* Every member has its type in every reachable state.
THEOREM TypeCorrect == Spec => []TypeOK
<1>1. ProtocolInv => TypeOK
  BY DEF ProtocolInv
<1>2. QED
  BY ProtocolCorrect, <1>1, PTL

\* start() never assigns to a joinable std::thread, so it never terminates the
\* service, whatever system calls fail.
THEOREM LaunchNeverTerminates == Spec => []LaunchIsSafe
<1>1. ProtocolInv => LaunchIsSafe
  BY DEF ProtocolInv, ThreadInv, LaunchIsSafe
<1>2. QED
  BY ProtocolCorrect, <1>1, PTL

\* std::terminate is reached from the destructor only, and only with a pid_ that
\* kill failed on.
THEOREM TerminatesOnlyAfterFailedKill == Spec => AbortsOnlyAfterFailedKill
<1>1. ASSUME ProtocolInv, [Next]_vars, host' = "aborted", host # "aborted"
      PROVE  op.call = "destroy" /\ pid # Invalid
  <2>1. Launch \/ Destroyed
    BY <1>1 DEF Next, Owner, Monitor, ProcessStep, HostCrash, HostRestart, HostEnds,
         StartCall, BeginStart, KillIfRunning, KillPrevious, Spawn, StopCall,
         BeginStop, StopLock, StopBody, Join, Return, MonRead, MonWait, MonLock,
         MonRestart, vars, ctrl
  <2>2. ~Launch
    BY <1>1 DEF Launch, ProtocolInv, ThreadInv
  <2>3. op.at = "return" /\ op.call = "destroy" /\ Joinable
    BY <1>1, <2>1, <2>2 DEF Destroyed, HostEnds
  <2>4. QED
    BY <1>1, <2>3 DEF ProtocolInv, CallInv, ThreadInv
<1>2. ProtocolInv /\ [Next]_vars
        => [host' = "aborted" /\ host # "aborted" => op.call = "destroy" /\ pid # Invalid]_vars
  BY <1>1
<1>3. QED
  BY ProtocolCorrect, <1>2, PTL DEF Spec, AbortsOnlyAfterFailedKill

-------------------------------------------------------------------------------
(***************************************************************************)
(* What the controller promises about the agent, proved from the protocol: *)
(* pid_ names the child that serves (WatchInv, as long as waitpid never    *)
(* takes a live child for a dead one), no child serves a stopped controller*)
(* (as long as kill works), and the safety half of the refinement of       *)
(* AgentService.                                                           *)
(***************************************************************************)

\* waitpid is not interrupted: the only status it may report of a live child is
\* the one that makes the monitor give up.
SteadyWait == WaitFaults \subseteq {"ImpossibleError"}

\* kill reaches every process that exists.
KillWorks == "kill" \notin CallFaults

-------------------------------------------------------------------------------
(* Which children serve after a step of the table. *)

\* fork makes one child serve and changes nothing about the others.
LEMMA ForkServing ==
  ASSUME ProcTypeOK, NEW p \in Pids, NEW image \in Images, ForkedInto(p, image)
  PROVE  \A q \in Pids : Serving(q)' <=> Serving(q) \/ q = p
BY DEF ProcTypeOK, Process, ForkedInto, Serving, Live, Images

\* A signal that is delivered ends the serving of its target and of no other.
LEMMA KillServing ==
  ASSUME ProcTypeOK, NEW p \in Pids, KillDelivers(p)
  PROVE  \A q \in Pids : Serving(q)' <=> Serving(q) /\ q # p
BY DEF ProcTypeOK, Process, KillDelivers, Serving, Live, Images

\* Waiting reaps a zombie, which does not serve.
LEMMA WaitServing ==
  ASSUME ProcTypeOK, NEW p \in Pids \cup {Invalid}, NEW s, WaitReturns(p, s)
  PROVE  \A q \in Pids : Serving(q)' <=> Serving(q)
<1>1. CASE UNCHANGED proc
  BY <1>1 DEF Serving, Live
<1>2. CASE proc[p].st = "zombie" /\ proc' = [proc EXCEPT ![p] = NoProcess]
  BY <1>2 DEF ProcTypeOK, Process, NoProcess, Serving, Live, Images
<1>3. QED
  BY <1>1, <1>2 DEF WaitReturns

\* No process begins to serve by what processes do on their own.
LEMMA StepServing ==
  ASSUME ProcTypeOK, NEW p \in Pids,
         \/ Exec(p) \/ ExecFails(p) \/ AgentCrashes(p) \/ TerminatedBySignal(p)
         \/ OtherProgramStarts(p) \/ OtherProgramEnds(p)
  PROVE  \A q \in Pids : Serving(q)' => Serving(q)
<1> USE DEF ProcTypeOK, Process, States, Images, Serving, Live
<1>1. ~(Remains(p).st \in Images \cup {"agent", "stuck"})
  BY DEF Remains, NoProcess
<1>2. CASE Exec(p)
  BY <1>2 DEF Exec
<1>3. CASE ExecFails(p)
  BY <1>1, <1>3 DEF ExecFails
<1>4. CASE AgentCrashes(p) \/ TerminatedBySignal(p)
  BY <1>1, <1>4 DEF AgentCrashes, TerminatedBySignal
<1>5. CASE OtherProgramStarts(p)
  BY <1>5 DEF OtherProgramStarts
<1>6. CASE OtherProgramEnds(p)
  BY <1>6 DEF OtherProgramEnds, NoProcess
<1>7. QED
  BY <1>2, <1>3, <1>4, <1>5, <1>6

\* A host that has ended has no child, so nothing serves it.
LEMMA EndServing ==
  ASSUME ProcTypeOK, NEW how, HostEnds(how)
  PROVE  \A q \in Pids : ~Serving(q)'
BY DEF ProcTypeOK, Process, HostEnds, Orphaned, NoProcess, Serving

\* What stop() does to the children: the one pid_ names is signalled, if pid_
\* names one and kill does not throw.
LEMMA StopServing ==
  ASSUME ProcTypeOK, pid \in Pids \cup {Invalid}, NEW result, StopProcess(result)
  PROVE  /\ result = "OK" => \A q \in Pids : Serving(q)' => Serving(q) /\ q # pid
         /\ result # "OK" => /\ UNCHANGED <<proc, pid>>
                             /\ KillWorks => ~Serving(pid)
<1>1. CASE result = "OK" /\ pid = Invalid /\ UNCHANGED <<proc, pid>>
  BY <1>1, PidAssumption DEF Serving, Live
<1>2. CASE result = "OK" /\ pid # Invalid /\ KillDelivers(pid)
  BY <1>2, KillServing
<1>3. CASE result = "FAIL" /\ KillThrows(pid) /\ UNCHANGED pid
  BY <1>3 DEF KillThrows, KillWorks, Serving, Live, Free, Images
<1>4. QED
  BY <1>1, <1>2, <1>3 DEF StopProcess

-------------------------------------------------------------------------------
(* WatchInv is inductive relative to ProtocolInv. *)

\* It survives a step that starts no child, keeps pid_ and leaves the monitor
\* where it is, unless the step sets the flag.
LEMMA WatchKept ==
  ASSUME WatchInv, UNCHANGED <<pid, mon>>, started' => started,
         \A q \in Pids : Serving(q)' => Serving(q),
         pid \in Pids \cup {Invalid}
  PROVE  WatchInv'
BY DEF WatchInv

\* It holds trivially when no child serves and the controller is not started.
LEMMA WatchIdle ==
  ASSUME ~started', \A q \in Pids : ~Serving(q)'
  PROVE  WatchInv'
BY DEF WatchInv

\* Nothing serves before the first start().
LEMMA InitWatch == Init => WatchInv
BY DEF Init, ProcInit, NoProcess, WatchInv, Serving

\* start(), stop() and the destructor keep what the monitor relies on.
LEMMA OwnerWatch ==
  ASSUME ProtocolInv, WatchInv, Owner
  PROVE  WatchInv'
<1> USE DEF ProtocolInv, TypeOK
<1>1. pid \in Pids \cup {Invalid} /\ ProcTypeOK
  BY DEF CtrlTypeOK
<1>2. ASSUME UNCHANGED <<proc, pid, started, mon>> PROVE WatchInv'
  BY <1>1, <1>2, WatchKept DEF Serving, Live
<1>3. CASE StartCall \/ KillIfRunning \/ StopCall("stop") \/ StopCall("destroy")
           \/ StopLock \/ Return
  BY <1>2, <1>3 DEF StartCall, BeginStart, KillIfRunning, StopCall, BeginStop,
       StopLock, Return
<1>4. CASE KillPrevious
  <2>1. op.target \in Pids /\ UNCHANGED <<pid, started, mon>>
    BY <1>4 DEF KillPrevious, CtrlTypeOK, CallInv
  <2>2. \A q \in Pids : Serving(q)' => Serving(q)
    BY <1>1, <1>4, <2>1, KillServing DEF KillPrevious, KillThrows, Serving, Live
  <2>3. QED
    BY <1>1, <2>1, <2>2, WatchKept
<1>5. CASE Spawn
  <2>1. ~(started /\ Joinable) /\ UNCHANGED <<started, mon>>
    BY <1>5 DEF Spawn, CallInv
  <2>2. CASE StartProcess("clone", "OK")
    <3>0. ~started
      BY <2>1, <2>2, StartProcessResult DEF ThreadInv
    <3>1. PICK p \in Pids : ForkedInto(p, "clone") /\ pid' = p
      BY <2>2, StartProcessResult
    <3>2. \A q \in Pids : ~Serving(q)
      BY <2>2, StartProcessResult, PidAssumption DEF WatchInv
    <3>3. \A q \in Pids : Serving(q)' => pid' = q
      BY <1>1, <3>1, <3>2, ForkServing DEF Images
    <3>4. QED
      BY <2>1, <3>0, <3>3 DEF WatchInv
  <2>3. CASE StartProcess("clone", "FAIL")
    <3>1. UNCHANGED <<proc, pid>>
      BY <2>3, StartProcessResult
    <3>2. QED
      BY <1>2, <2>1, <3>1
  <2>4. QED
    BY <1>5, <2>2, <2>3 DEF Spawn
<1>6. CASE Launch
  <2>1. ~Joinable
    BY <1>6 DEF Launch, ThreadInv
  <2>2. UNCHANGED <<proc, pid>> /\ mon'.at \in {"read", "none"}
    BY <1>6, <2>1 DEF Launch, MonAt, NoMonitor, Joinable
  <2>3. QED
    BY <2>2 DEF WatchInv, Serving, Live
<1>7. CASE StopBody
  <2>1. UNCHANGED mon /\ started' = FALSE
    BY <1>7 DEF StopBody, CtrlTypeOK
  <2>2. \/ UNCHANGED <<proc, pid>>
        \/ pid' = Invalid /\ \A q \in Pids : Serving(q)' => Serving(q) /\ q # pid
    BY <1>1, <1>7, StopServing, StopProcessResult DEF StopBody
  <2>3. \A q \in Pids : Serving(q)' => pid' = q
    BY <2>2 DEF WatchInv, Serving, Live
  <2>4. QED
    BY <2>1, <2>3 DEF WatchInv
<1>8. CASE Join
  BY <1>8 DEF Join, WatchInv, Serving, Live, CallInv
<1>9. CASE Destroyed
  BY <1>1, <1>9, EndServing, WatchIdle DEF Destroyed, HostEnds
<1>10. QED
  BY <1>3, <1>4, <1>5, <1>6, <1>7, <1>8, <1>9 DEF Owner

\* The steps of monitorProcess() keep it: pid_ goes only when its child has ended.
LEMMA MonitorWatch ==
  ASSUME ProtocolInv, WatchInv, SteadyWait, Monitor
  PROVE  WatchInv'
<1> USE DEF ProtocolInv, TypeOK
<1>1. pid \in Pids \cup {Invalid} /\ ProcTypeOK
  BY DEF CtrlTypeOK
<1>2. CASE MonRead
  BY <1>2 DEF MonRead, WatchInv, Serving, Live, CtrlTypeOK
<1>3. CASE MonWait
  <2>1. PICK s \in WaitStatus : /\ WaitReturns(mon.arg, s)
                                /\ mon' = [mon EXCEPT !.at = "lock", !.code = s]
    BY <1>3 DEF MonWait
  <2>2. /\ mon.at = "wait" /\ UNCHANGED <<pid, started>>
        /\ mon'.at = "lock" /\ mon'.code = s
    BY <1>3, <2>1 DEF MonWait, CtrlTypeOK
  <2>3. \A q \in Pids : Serving(q)' <=> Serving(q)
    BY <1>1, <2>1, WaitServing DEF CtrlTypeOK
  <2>4. s \notin {"ImpossibleError", "ProcessNotAChild"}
          => mon.arg = Invalid \/ ~Serving(mon.arg)
    BY <2>1 DEF WaitReturns, SteadyWait, Serving, Live, Images
  <2>5. started /\ s \notin {"ImpossibleError", "ProcessNotAChild"}
          => pid' = Invalid \/ ~Serving(pid)'
    BY <1>1, <2>2, <2>3, <2>4 DEF WatchInv
  <2>6. \A q \in Pids : Serving(q)' => pid' = q
    BY <2>2, <2>3 DEF WatchInv
  <2>7. QED
    BY <2>2, <2>5, <2>6 DEF WatchInv
<1>4. CASE MonLock
  <2>1. UNCHANGED <<proc, started>> /\ mon'.at \in {"read", "done", "delay"}
    BY <1>4 DEF MonLock, MonAt, NoMonitor
  <2>2. pid' = pid \/ (pid' = Invalid /\ (pid = Invalid \/ ~Serving(pid)))
    BY <1>4 DEF MonLock, WatchInv
  <2>3. QED
    BY <1>1, <2>1, <2>2 DEF WatchInv, Serving, Live
<1>5. CASE MonRestart
  <2>1. PICK result \in {"OK", "FAIL"} : StartProcess("lockedClone", result)
    BY <1>5 DEF MonRestart
  <2>2. mon'.at = "read" /\ pid = Invalid
    BY <1>5 DEF MonRestart, MonAt, NoMonitor, ThreadInv
  <2>3. CASE result = "OK"
    <3>1. PICK p \in Pids : ForkedInto(p, "lockedClone") /\ pid' = p
      BY <2>1, <2>3, StartProcessResult
    <3>2. \A q \in Pids : Serving(q)' => pid' = q
      BY <1>1, <2>2, <3>1, ForkServing, PidAssumption DEF Images, WatchInv
    <3>3. QED
      BY <2>2, <3>2 DEF WatchInv
  <2>4. CASE result = "FAIL"
    <3>1. UNCHANGED <<proc, pid>>
      BY <2>1, <2>4, StartProcessResult
    <3>2. QED
      BY <2>2, <3>1 DEF WatchInv, Serving, Live
  <2>5. QED
    BY <2>3, <2>4
<1>6. QED
  BY <1>2, <1>3, <1>4, <1>5 DEF Monitor

\* So does every step of the system.
LEMMA NextWatch ==
  ASSUME ProtocolInv, WatchInv, SteadyWait, [Next]_vars
  PROVE  WatchInv'
<1>1. pid \in Pids \cup {Invalid} /\ ProcTypeOK
  BY DEF ProtocolInv, TypeOK, CtrlTypeOK
<1>2. CASE Owner
  BY <1>2, OwnerWatch
<1>3. CASE Monitor
  BY <1>3, MonitorWatch
<1>4. CASE ProcessStep
  BY <1>1, <1>4, StepServing, WatchKept DEF ProcessStep, ctrl
<1>5. CASE HostCrash
  BY <1>1, <1>5, EndServing, WatchIdle DEF HostCrash, HostEnds
<1>6. CASE HostRestart \/ UNCHANGED vars
  BY <1>1, <1>6, WatchKept DEF HostRestart, vars, ctrl, Serving, Live
<1>7. QED
  BY <1>2, <1>3, <1>4, <1>5, <1>6 DEF Next

\* With a waitpid that never takes a live child for a dead one, pid_ names the
\* child that serves in every state: no agent that was started is lost sight of,
\* and two never serve at once.
THEOREM AlwaysSupervised ==
  ASSUME SteadyWait
  PROVE  Spec => []ServingIsSupervised
<1>1. ProtocolInv /\ WatchInv /\ [Next]_vars => WatchInv'
  BY NextWatch
<1>2. WatchInv => ServingIsSupervised
  BY DEF WatchInv, ServingIsSupervised
<1>3. QED
  BY InitWatch, ProtocolCorrect, <1>1, <1>2, PTL DEF Spec

-------------------------------------------------------------------------------
(* Only a started controller has a child that serves. *)

\* A child begins to serve in startProcess() only.
LEMMA OnlyForksServe ==
  ASSUME ProtocolInv, [Next]_vars, NEW p \in Pids, Serving(p)', ~Serving(p)
  PROVE  /\ \/ Spawn /\ op'.at = "launch"
            \/ MonRestart /\ started
         /\ pid = Invalid /\ pid' = p /\ UNCHANGED started
         /\ \A q \in Pids : Serving(q)' => Serving(q) \/ q = p
<1> USE DEF ProtocolInv, TypeOK
<1>1. ProcTypeOK /\ pid \in Pids \cup {Invalid}
  BY DEF CtrlTypeOK
<1>2. ~UNCHANGED proc
  BY DEF Serving, Live
<1>3. CASE Spawn
  <2>1. StartProcess("clone", "OK") /\ op'.at = "launch" /\ UNCHANGED started
    BY <1>2, <1>3, StartProcessResult DEF Spawn, CtrlTypeOK
  <2>2. PICK q \in Pids : ForkedInto(q, "clone") /\ pid' = q
    BY <2>1, StartProcessResult
  <2>3. QED
    BY <1>1, <1>3, <2>1, <2>2, StartProcessResult, ForkServing DEF Images
<1>4. CASE MonRestart
  <2>1. StartProcess("lockedClone", "OK") /\ started /\ UNCHANGED started
    BY <1>2, <1>4, StartProcessResult DEF MonRestart, ThreadInv
  <2>2. PICK q \in Pids : ForkedInto(q, "lockedClone") /\ pid' = q
    BY <2>1, StartProcessResult
  <2>3. QED
    BY <1>1, <1>4, <2>1, <2>2, StartProcessResult, ForkServing DEF Images
<1>5. ~KillPrevious
  BY <1>1, <1>2, KillServing DEF KillPrevious, KillThrows, CtrlTypeOK, CallInv
<1>6. ~Launch /\ ~Destroyed /\ ~HostCrash
  BY <1>1, <1>2, EndServing DEF Launch, Destroyed, HostCrash
<1>7. ~StopBody
  BY <1>1, <1>2, StopServing DEF StopBody
<1>8. ~MonWait
  BY <1>1, WaitServing DEF MonWait, CtrlTypeOK
<1>9. ~ProcessStep
  BY <1>1, StepServing DEF ProcessStep
<1>10. QED
  BY <1>2, <1>3, <1>4, <1>5, <1>6, <1>7, <1>8, <1>9
     DEF Next, Owner, Monitor, StartCall, BeginStart, KillIfRunning, StopCall,
         BeginStop, StopLock, Join, Return, MonRead, MonLock, HostRestart, vars

\* A child appears only in start() or while the controller is started, whatever
\* fails: stop() and a restart by the monitor exclude each other through mutex_.
THEOREM ForksOnlyWhenAsked == Spec => ForksOnlyIfStarted
<1>1. ProtocolInv /\ [Next]_vars
        => [\A p \in Pids : Serving(p)' /\ ~Serving(p)
              => started \/ op.at = "spawn"]_vars
  BY OnlyForksServe DEF Spawn
<1>2. QED
  BY ProtocolCorrect, <1>1, PTL DEF Spec, ForksOnlyIfStarted

\* Where the flag goes down, the child that served is no longer serving.
LEMMA FlagDown ==
  ASSUME ProtocolInv, WatchInv, KillWorks, [Next]_vars,
         started \/ op.at = "launch", ~(started \/ op.at = "launch")'
  PROVE  \A p \in Pids : ~Serving(p)'
<1> USE DEF ProtocolInv, TypeOK
<1>1. ProcTypeOK /\ pid \in Pids \cup {Invalid}
  BY DEF CtrlTypeOK
<1>2. CASE StopBody
  <2>1. \A p \in Pids : Serving(p)' => Serving(p) /\ p # pid
    BY <1>1, <1>2, StopServing DEF StopBody, CallInv, WatchInv, Serving, Live
  <2>2. QED
    BY <2>1 DEF WatchInv
<1>3. CASE Launch \/ Destroyed \/ HostCrash
  <2>1. \E how \in {"down", "aborted"} : HostEnds(how)
    BY <1>3 DEF Launch, Destroyed, HostCrash
  <2>2. QED
    BY <1>1, <2>1, EndServing
<1>4. ~UNCHANGED <<started, op>>
  OBVIOUS
<1>5. CASE ~started
  <2>1. op.at = "launch" /\ ~started'
    BY <1>5
  <2>2. QED
    BY <1>3, <1>4, <2>1
       DEF Next, Owner, Monitor, StartCall, KillIfRunning, KillPrevious, Spawn,
           StopCall, StopLock, StopBody, Join, Return, MonRead, MonWait, MonLock,
           MonRestart, ProcessStep, HostRestart, vars, ctrl
<1>6. CASE started /\ ~started'
  BY <1>2, <1>3, <1>6
     DEF Next, Owner, Monitor, StartCall, BeginStart, KillIfRunning, KillPrevious,
         Spawn, StopCall, BeginStop, StopLock, Join, Return, MonRead, MonWait,
         MonLock, MonRestart, ProcessStep, HostRestart, vars, ctrl
<1>7. QED
  BY <1>5, <1>6

\* No step makes a child serve, or leaves one serving, that nobody wants.
LEMMA NextServesOnly ==
  ASSUME ProtocolInv, WatchInv, ServesOnlyIfStarted, KillWorks, [Next]_vars
  PROVE  ServesOnlyIfStarted'
<1> SUFFICES ASSUME NEW p \in Pids, Serving(p)'
             PROVE  (started \/ op.at = "launch")'
  BY DEF ServesOnlyIfStarted
<1>1. CASE Serving(p)
  BY <1>1, FlagDown DEF ServesOnlyIfStarted
<1>2. CASE ~Serving(p)
  BY <1>2, OnlyForksServe
<1>3. QED
  BY <1>1, <1>2

\* With a kill that works as well, a child serves only while the controller is
\* started, however stop() and the monitor interleave.
THEOREM ServesOnlyWhenAsked ==
  ASSUME SteadyWait, KillWorks
  PROVE  Spec => []ServesOnlyIfStarted
<1>1. Init => ServesOnlyIfStarted
  BY DEF Init, ProcInit, NoProcess, ServesOnlyIfStarted, Serving
<1>2. ProtocolInv /\ WatchInv /\ [Next]_vars => WatchInv'
  BY NextWatch
<1>3. ProtocolInv /\ WatchInv /\ ServesOnlyIfStarted /\ [Next]_vars => ServesOnlyIfStarted'
  BY NextServesOnly
<1>4. QED
  BY InitWatch, ProtocolCorrect, <1>1, <1>2, <1>3, PTL DEF Spec

-------------------------------------------------------------------------------
(* PmAgentController implements AgentService, fairness aside. *)

Wanted == started \/ op.at = "launch"
ServingPids == {p \in Pids : Serving(p)}

\* The flag goes up, seen from outside, when start() has forked.
LEMMA FlagUp ==
  ASSUME ProtocolInv, [Next]_vars, ~Wanted, Wanted'
  PROVE  Spawn /\ StartProcess("clone", "OK")
<1> USE DEF Wanted
<1>1. ~UNCHANGED <<started, op>>
  OBVIOUS
<1>2. ~Launch /\ ~Destroyed /\ ~HostCrash
  BY DEF Launch, Destroyed, HostCrash, HostEnds, NoCall
<1>3. ~StopBody /\ ~Join /\ ~KillIfRunning /\ ~KillPrevious
  BY DEF StopBody, Join, KillIfRunning, KillPrevious, ProtocolInv, TypeOK, CtrlTypeOK
<1>4. ~StartCall /\ ~StopCall("stop") /\ ~StopCall("destroy") /\ ~StopLock /\ ~Return
  <2>1. StartCall => UNCHANGED started /\ op'.at = "scan"
    BY DEF StartCall, BeginStart, NoCall
  <2>2. \A c : StopCall(c) => UNCHANGED started /\ op'.at = "lock"
    BY DEF StopCall, BeginStop, NoCall
  <2>3. StopLock => UNCHANGED started /\ op'.at = "body"
    BY DEF StopLock, ProtocolInv, TypeOK, CtrlTypeOK
  <2>4. Return => UNCHANGED started /\ op'.at = "idle"
    BY DEF Return, NoCall
  <2>5. QED
    BY <2>1, <2>2, <2>3, <2>4
<1>5. Spawn
  BY <1>1, <1>2, <1>3, <1>4
     DEF Next, Owner, Monitor, MonRead, MonWait, MonLock, MonRestart, ProcessStep,
         HostRestart, vars, ctrl
<1>6. QED
  BY <1>5 DEF Spawn, ProtocolInv, TypeOK, CtrlTypeOK

\* Every step of the controller is one of AgentService or changes nothing there.
LEMMA NextImplements ==
  ASSUME ProtocolInv, WatchInv, ServesOnlyIfStarted, ServesOnlyIfStarted', KillWorks,
         WatchInv', [Next]_vars
  PROVE  Service!Next \/ UNCHANGED <<Wanted, ServingPids>>
<1> USE DEF Service!Next
<1>1. ASSUME NEW p \in Pids, Serving(p)', ~Serving(p)
      PROVE  ~(\E q \in Pids : Serving(q)) /\ ServingPids' = {p}
  BY <1>1, OnlyForksServe, PidAssumption DEF WatchInv, ServingPids
<1>2. CASE ~Wanted /\ Wanted'
  <2>1. StartProcess("clone", "OK")
    BY <1>2, FlagUp
  <2>2. PICK p \in Pids : ForkedInto(p, "clone")
    BY <2>1, StartProcessResult
  <2>3. Serving(p)' /\ ~Serving(p)
    BY <2>2, ForkServing DEF Images, ProtocolInv, TypeOK, ForkedInto, Free, Serving, Live
  <2>4. ~Wanted /\ ServingPids = {} /\ Wanted' /\ ServingPids' = {p}
    BY <1>1, <1>2, <2>3 DEF ServingPids
  <2>5. QED
    BY <2>4 DEF Service!Start, Wanted, ServingPids
<1>3. CASE Wanted /\ ~Wanted'
  <2>1. ServingPids' = {}
    BY <1>3, FlagDown DEF Wanted, ServingPids
  <2>2. QED
    BY <1>3, <2>1 DEF Service!Stop, Wanted, ServingPids
<1>4. CASE UNCHANGED Wanted
  <2>1. CASE \E p \in Pids : Serving(p)' /\ ~Serving(p)
    <3>1. PICK p \in Pids : Serving(p)' /\ ~Serving(p)
      BY <2>1
    <3>2. Wanted /\ ServingPids = {} /\ ServingPids' = {p}
      BY <1>1, <1>4, <3>1 DEF ServesOnlyIfStarted, Wanted, ServingPids
    <3>3. QED
      BY <1>4, <3>2 DEF Service!Replace, Wanted, ServingPids
  <2>2. CASE \A p \in Pids : Serving(p)' => Serving(p)
    <3>1. ServingPids' = ServingPids \/ (ServingPids # {} /\ ServingPids' = {})
      BY <2>2 DEF WatchInv, ServingPids
    <3>2. QED
      BY <1>4, <3>1 DEF Service!Lost, Wanted, ServingPids
  <2>3. QED
    BY <2>1, <2>2
<1>5. QED
  BY <1>2, <1>3, <1>4 DEF Wanted

\* Every step of the controller, its monitor and the processes is a step of
\* AgentService or none at all: an agent is started, lost, replaced or stopped,
\* never two at once and never one that nobody wants.
THEOREM SafelyImplementsService ==
  ASSUME SteadyWait, KillWorks
  PROVE  Spec => Service!Init /\ [][Service!Next]_(Service!vars)
<1>1. Init => Service!Init
  BY DEF Init, ProcInit, NoProcess, NoCall, Service!Init, Serving
<1>2. Init => ServesOnlyIfStarted
  BY DEF Init, ProcInit, NoProcess, ServesOnlyIfStarted, Serving
<1>3. ProtocolInv /\ WatchInv /\ [Next]_vars => WatchInv'
  BY NextWatch
<1>4. ProtocolInv /\ WatchInv /\ ServesOnlyIfStarted /\ [Next]_vars => ServesOnlyIfStarted'
  BY NextServesOnly
<1>5. ProtocolInv /\ WatchInv /\ WatchInv' /\ ServesOnlyIfStarted
        /\ ServesOnlyIfStarted' /\ [Next]_vars
          => [Service!Next]_(Service!vars)
  BY NextImplements DEF Service!vars, Wanted, ServingPids
<1>6. QED
  BY InitWatch, ProtocolCorrect, <1>1, <1>2, <1>3, <1>4, <1>5, PTL DEF Spec

-------------------------------------------------------------------------------
(* The plugin: its inductive invariant *)

PluginTypeOK ==
  /\ inService \in BOOLEAN /\ made \in BOOLEAN
  /\ mtx \in Callers \cup {NoCaller}
  /\ call \in [Callers -> Call]

\* Where the controller's call is, and what its result says of the flag.
OpInv ==
  /\ op.call = "none" <=> op.at = "idle"
  /\ op.call = "start" /\ op.at # "return" =>
       op.at \in {"scan", "kill", "spawn", "launch"} /\ op.ret = "OK"
  /\ op.call = "start" /\ op.at = "return" => (op.ret = "OK" <=> started /\ Joinable)
  /\ op.call = "stop" => op.at \in {"lock", "body", "join", "return"}
  /\ op.call = "stop" /\ op.at \in {"join", "return"} => ~started

\* The controller's call is that of the caller who holds mtxAgentCtrl_; the destructor
\* comes when nobody calls, and a service that has ended has no callers.
SerialInv ==
  /\ \A c \in Callers :
       /\ call[c].at = "inside" <=> mtx = c
       /\ call[c].at # "idle" => call[c].fn \in {"fpStart", "fpStop"}
       /\ call[c].at = "inside" =>
            op.call = IF call[c].fn = "fpStart" THEN "start" ELSE "stop"
  /\ mtx = NoCaller => op.call \in {"none", "destroy"}
  /\ op.call = "destroy" \/ host # "up" => \A c \in Callers : call[c].at = "idle"

\* Whenever a start() may begin, the controller is started and watched only if the
\* plugin says so: the flag of one that got no monitor thread stays behind.
FlagInv ==
  /\ op.call = "none" => (started /\ Joinable => inService)
  /\ op.call = "start" => ~inService

PluginInv == ProtocolInv /\ PluginTypeOK /\ OpInv /\ SerialInv /\ FlagInv

\* PluginInv holds before the plugin is first called.
LEMMA InitPlugin == InitP => PluginInv
<1> SUFFICES ASSUME InitP PROVE PluginInv
  OBVIOUS
<1>1. ProtocolInv /\ host = "up" /\ ~started /\ op.call = "none" /\ op.at = "idle"
  BY InitProtocol DEF InitP, Init
<1>2. \A c \in Callers : call[c] = [fn |-> "none", at |-> "idle", res |-> "NOT_STARTED"]
  BY DEF InitP, PluginInit, NoCalls
<1>3. PluginTypeOK
  BY DEF InitP, PluginInit, NoCalls, PluginTypeOK, Call, Results
<1>4. OpInv /\ FlagInv
  BY <1>1 DEF OpInv, FlagInv
<1>5. SerialInv
  <2>1. mtx = NoCaller
    BY DEF InitP, PluginInit
  <2> QED
    BY <1>1, <1>2, <2>1, CallerAssumption DEF SerialInv
<1> QED
  BY <1>1, <1>3, <1>4, <1>5 DEF PluginInv

-------------------------------------------------------------------------------
(* The controller's own steps *)

\* The monitor thread does not go away by itself: it is there until it is joined.
LEMMA MonitorStays == ASSUME ProtocolInv, Monitor PROVE Joinable /\ Joinable'
<1>1. mon \in [at : MonPc, arg : Pids \cup {Invalid}, code : WaitStatus]
  BY DEF ProtocolInv, TypeOK, CtrlTypeOK
<1> QED
  BY <1>1 DEF Monitor, MonRead, MonWait, MonLock, MonRestart, Joinable

\* A host that goes on keeps its call, and only start() makes it started and watched.
LEMMA GoesOn ==
  ASSUME ProtocolInv, OpInv, WithinCall \/ Monitor \/ ProcessStep \/ HostCrash \/ HostRestart,
         ~(host = "up" /\ host' # "up")
  PROVE  /\ OpInv' /\ op'.call = op.call
         /\ op.call # "start" => (started' /\ Joinable' => started /\ Joinable)
         /\ host # "up" => op.call = "none"
<1> USE DEF OpInv, Joinable
<1>1. op \in [call : Calls, at : OpPc, wait : BOOLEAN, target : Pids \cup {Invalid},
              ret : {"OK", "FAIL"}]
  BY DEF ProtocolInv, TypeOK, CtrlTypeOK
<1>2. host # "up" => op.call = "none"
  BY DEF ProtocolInv, HostInv
<1>3. \A how : how # "up" /\ HostEnds(how) => host # "up"
  BY DEF HostEnds
<1>4. CASE KillIfRunning
  <2>1. op.at = "scan" /\ UNCHANGED <<started, mon>>
    BY <1>4 DEF KillIfRunning
  <2>2. op'.call = op.call /\ op'.at \in {"spawn", "kill"} /\ op'.ret = op.ret
    BY <1>1, <1>4 DEF KillIfRunning
  <2> QED
    BY <1>2, <2>1, <2>2
<1>5. CASE KillPrevious
  <2>1. /\ op.at = "kill" /\ UNCHANGED <<started, mon>> /\ op.call = "start"
        /\ ~(started /\ Joinable)
    BY <1>5 DEF KillPrevious, ProtocolInv, CallInv
  <2>2. /\ op'.call = op.call
        /\ \/ op'.at = "spawn" /\ op'.ret = op.ret
           \/ op'.at = "return" /\ op'.ret = "FAIL"
    BY <1>1, <1>5 DEF KillPrevious
  <2> QED
    BY <1>2, <2>1, <2>2
<1>6. CASE Spawn
  <2>1. /\ op.at = "spawn" /\ UNCHANGED <<started, mon>> /\ op.call = "start"
        /\ ~(started /\ Joinable)
    BY <1>6 DEF Spawn, ProtocolInv, CallInv
  <2>2. /\ op'.call = op.call
        /\ \/ op'.at = "launch" /\ op'.ret = op.ret
           \/ op'.at = "return" /\ op'.ret = "FAIL"
    BY <1>1, <1>6 DEF Spawn
  <2> QED
    BY <1>2, <2>1, <2>2
<1>7. CASE Launch
  <2>1. op.at = "launch" /\ op.call = "start" /\ ~Joinable
    BY <1>7 DEF Launch, ProtocolInv, CallInv, ThreadInv
  <2>2. /\ started' = TRUE /\ op'.call = op.call /\ op'.at = "return"
        /\ \/ op'.ret = op.ret /\ mon'.at = "read"
           \/ op'.ret = "FAIL" /\ UNCHANGED mon
    BY <1>1, <1>7, <2>1 DEF Launch
  <2> QED
    BY <1>2, <2>1, <2>2
<1>8. CASE StopLock
  <2>1. op.at = "lock" /\ UNCHANGED <<started, mon>>
    BY <1>8 DEF StopLock
  <2>2. op'.call = op.call /\ op'.at = "body"
    BY <1>1, <1>8 DEF StopLock
  <2> QED
    BY <1>2, <2>1, <2>2
<1>9. CASE StopBody
  <2>1. op.at = "body" /\ ~started' /\ op.call \in {"stop", "destroy"}
    BY <1>9 DEF StopBody, ProtocolInv, CallInv
  <2>2. op'.call = op.call /\ op'.at \in {"join", "return"}
    BY <1>1, <1>9 DEF StopBody
  <2> QED
    BY <1>2, <2>1, <2>2
<1>10. CASE Join
  <2>1. op.at = "join" /\ ~started' /\ op.call \in {"stop", "destroy"}
    BY <1>10 DEF Join, ProtocolInv, CallInv
  <2>2. op'.call = op.call /\ op'.at = "return"
    BY <1>1, <1>10 DEF Join
  <2> QED
    BY <1>2, <2>1, <2>2
<1>11. CASE Destroyed \/ HostCrash
  <2>1. host = "up" /\ host' # "up"
    BY <1>2, <1>11 DEF Destroyed, HostCrash, HostEnds
  <2> QED
    BY <2>1
<1>12. CASE Monitor \/ ProcessStep \/ HostRestart
  <2>1. UNCHANGED <<op, started>>
    BY <1>12 DEF Monitor, MonRead, MonWait, MonLock, MonRestart, ProcessStep, HostRestart, ctrl
  <2>2. Joinable' <=> Joinable
    BY <1>12, MonitorStays
       DEF ProcessStep, HostRestart, ctrl
  <2> QED
    BY <1>2, <2>1, <2>2
<1> QED
  BY <1>4, <1>5, <1>6, <1>7, <1>8, <1>9, <1>10, <1>11, <1>12 DEF WithinCall

\* A host that ends leaves a controller as a new one has it.
LEMMA Ends ==
  ASSUME ProtocolInv, WithinCall \/ Monitor \/ ProcessStep \/ HostCrash \/ HostRestart,
         host = "up", host' # "up"
  PROVE  op' = NoCall /\ started' = FALSE
<1>1. CASE Launch \/ Destroyed \/ HostCrash
  BY <1>1 DEF Launch, Destroyed, HostCrash, HostEnds
<1>2. CASE ~(Launch \/ Destroyed \/ HostCrash)
  BY <1>2 DEF WithinCall, KillIfRunning, KillPrevious, Spawn, StopLock, StopBody, Join, Monitor,
       MonRead, MonWait, MonLock, MonRestart, ProcessStep, HostRestart, ctrl
<1> QED
  BY <1>1, <1>2

-------------------------------------------------------------------------------
(* The plugin's steps *)

\* What a caller is told or does changes nothing for the others.
LEMMA Calling ==
  ASSUME PluginTypeOK, NEW c \in Callers
  PROVE  /\ \A fn \in {"fpStart", "fpStop"} : Waits(c, fn) =>
              /\ call' \in [Callers -> Call] /\ call'[c].fn = fn /\ call'[c].at = "lock"
              /\ \A d \in Callers \ {c} : call'[d] = call[d]
         /\ \A r \in Results : Answers(c, r) =>
              /\ call' \in [Callers -> Call] /\ call'[c].at = "idle" /\ call'[c].res = r
              /\ \A d \in Callers \ {c} : call'[d] = call[d]
         /\ call' = [call EXCEPT ![c].at = "inside"] =>
              /\ call' \in [Callers -> Call] /\ call'[c].at = "inside"
              /\ call'[c].fn = call[c].fn
              /\ \A d \in Callers \ {c} : call'[d] = call[d]
<1> USE DEF PluginTypeOK, Call
<1>1. ASSUME NEW fn \in {"fpStart", "fpStop"}, Waits(c, fn)
      PROVE  /\ call' \in [Callers -> Call] /\ call'[c].fn = fn /\ call'[c].at = "lock"
             /\ \A d \in Callers \ {c} : call'[d] = call[d]
  BY <1>1 DEF Waits
<1>2. ASSUME NEW r \in Results, Answers(c, r)
      PROVE  /\ call' \in [Callers -> Call] /\ call'[c].at = "idle" /\ call'[c].res = r
             /\ \A d \in Callers \ {c} : call'[d] = call[d]
  BY <1>2 DEF Answers
<1>3. ASSUME call' = [call EXCEPT ![c].at = "inside"]
      PROVE  /\ call' \in [Callers -> Call] /\ call'[c].at = "inside"
             /\ call'[c].fn = call[c].fn
             /\ \A d \in Callers \ {c} : call'[d] = call[d]
  BY <1>3
<1> QED
  BY <1>1, <1>2, <1>3

\* A step of a caller that leaves the controller and its lock alone.
LEMMA OutsideStep ==
  ASSUME PluginInv, NEW c \in Callers, UNCHANGED <<vars, inService, mtx>>, made' \in BOOLEAN,
         host = "up", op.call # "destroy", call[c].at # "inside",
         call' \in [Callers -> Call], \A d \in Callers \ {c} : call'[d] = call[d],
         \/ call'[c].at = "idle"
         \/ call'[c].at = "lock" /\ call'[c].fn \in {"fpStart", "fpStop"}
  PROVE  PluginInv'
<1>1. UNCHANGED <<proc, host, pid, started, mutex, mon, op>>
  BY DEF vars, ctrl
<1>2. ProtocolInv'
  <2>1. ProcTypeOK'
    BY <1>1 DEF PluginInv, ProtocolInv, TypeOK, ProcTypeOK
  <2> QED
    BY <1>1, <2>1, UnchangedProtocol DEF PluginInv, ctrl
<1>3. OpInv' /\ FlagInv' /\ PluginTypeOK'
  BY <1>1 DEF PluginInv, OpInv, FlagInv, PluginTypeOK, Joinable
<1>4. SerialInv'
  BY <1>1 DEF PluginInv, SerialInv, PluginTypeOK
<1> QED
  BY <1>2, <1>3, <1>4 DEF PluginInv

\* A caller that has mtxAgentCtrl_ is answered, or begins a call the controller allows.
LEMMA EnterStep ==
  ASSUME PluginInv, NEW c \in Callers, Enter(c)
  PROVE  [Next]_vars /\ PluginInv'
<1> USE DEF PluginInv
<1>1. /\ call[c].at = "lock" /\ mtx = NoCaller /\ UNCHANGED <<made, inService>>
      /\ host = "up" /\ op.call = "none" /\ op.at = "idle"
      /\ \A d \in Callers : call[d].at # "inside"
  <2>1. call[c].at = "lock" /\ mtx = NoCaller /\ UNCHANGED <<made, inService>>
    BY DEF Enter
  <2>2. host = "up" /\ op.call = "none"
    BY <2>1 DEF SerialInv
  <2>3. op.at = "idle"
    BY <2>2 DEF OpInv
  <2>4. \A d \in Callers : call[d].at # "inside"
    BY <2>1, CallerAssumption DEF SerialInv
  <2> QED
    BY <2>1, <2>2, <2>3, <2>4
<1>2. ASSUME NEW r \in Results, Answers(c, r), UNCHANGED <<vars, mtx>>
      PROVE  [Next]_vars /\ PluginInv'
  <2>1. /\ call' \in [Callers -> Call] /\ call'[c].at = "idle"
        /\ \A d \in Callers \ {c} : call'[d] = call[d]
    BY <1>2, Calling
  <2>2. made' \in BOOLEAN
    BY <1>1 DEF PluginTypeOK
  <2>3. PluginInv'
    BY <1>1, <1>2, <2>1, <2>2, OutsideStep
  <2> QED
    BY <1>2, <2>3
<1>3. ASSUME call' = [call EXCEPT ![c].at = "inside"], mtx' = c, Owner,
             UNCHANGED <<host, started, mon>>,
             \/ /\ call[c].fn = "fpStart" /\ ~inService
                /\ op'.call = "start" /\ op'.at = "scan" /\ op'.ret = "OK"
             \/ /\ call[c].fn = "fpStop" /\ op'.call = "stop" /\ op'.at = "lock"
      PROVE  [Next]_vars /\ PluginInv'
  <2>1. /\ call' \in [Callers -> Call] /\ call'[c].at = "inside" /\ call'[c].fn = call[c].fn
        /\ \A d \in Callers \ {c} : call'[d] = call[d]
    BY <1>3, Calling
  <2>2. [Next]_vars
    BY <1>3 DEF Next
  <2>3. ProtocolInv'
    BY <2>2, NextProtocol
  <2>4. PluginTypeOK' /\ OpInv' /\ FlagInv'
    BY <1>1, <1>3, <2>1 DEF PluginTypeOK, OpInv, FlagInv
  <2>5. SerialInv'
    <3>1. \A d \in Callers : call'[d].at = "inside" <=> d = c
      BY <1>1, <2>1
    <3>2. c # NoCaller /\ host' = "up" /\ op'.call \in {"start", "stop"}
      BY <1>1, <1>3, CallerAssumption
    <3> QED
      BY <1>1, <1>3, <2>1, <3>1, <3>2 DEF SerialInv
  <2> QED
    BY <2>2, <2>3, <2>4, <2>5
<1>4. CASE /\ call[c].fn = "fpStart" /\ ~inService /\ BeginStart
           /\ call' = [call EXCEPT ![c].at = "inside"] /\ mtx' = c
  <2>1. StartCall
    BY <1>1, <1>4 DEF StartCall, FlagInv
  <2>2. /\ op'.call = "start" /\ op'.at = "scan" /\ op'.ret = "OK"
        /\ UNCHANGED <<host, started, mon>>
    BY <1>4 DEF BeginStart
  <2> QED
    BY <1>3, <1>4, <2>1, <2>2 DEF Owner
<1>5. CASE /\ call[c].fn = "fpStop" /\ BeginStop("stop")
           /\ call' = [call EXCEPT ![c].at = "inside"] /\ mtx' = c
  <2>1. StopCall("stop")
    BY <1>1, <1>5 DEF StopCall
  <2>2. op'.call = "stop" /\ op'.at = "lock" /\ UNCHANGED <<host, started, mon>>
    BY <1>5 DEF BeginStop
  <2> QED
    BY <1>3, <1>5, <2>1, <2>2 DEF Owner
<1> QED
  BY <1>2, <1>4, <1>5 DEF Enter, Results

\* The caller inside takes the controller's result along and lets the next one in.
LEMMA LeaveStep ==
  ASSUME PluginInv, NEW c \in Callers, Leave(c)
  PROVE  [Next]_vars /\ PluginInv'
<1> USE DEF PluginInv
<1>1. /\ call[c].at = "inside" /\ op.at = "return" /\ op.call \in {"start", "stop"}
      /\ mtx' = NoCaller /\ UNCHANGED <<made, host, started, mon>>
      /\ op'.call = "none" /\ op'.at = "idle"
  BY DEF Leave, Return
<1>2. mtx = c /\ (op.call = IF call[c].fn = "fpStart" THEN "start" ELSE "stop") /\ host = "up"
  BY <1>1 DEF SerialInv
<1>3. [Next]_vars
  BY DEF Leave, Next, Owner
<1>4. ProtocolInv'
  BY <1>3, NextProtocol
<1>5. /\ call' \in [Callers -> Call] /\ call'[c].at = "idle"
      /\ \A d \in Callers \ {c} : call'[d] = call[d]
  <2>1. \E r \in Results : Answers(c, r)
    BY DEF Leave, Results
  <2> QED
    BY <2>1, Calling
<1>6. inService' \in BOOLEAN /\ (started /\ Joinable => inService')
  <2>1. CASE op.ret = "OK"
    BY <1>1, <1>2, <2>1 DEF Leave, OpInv
  <2>2. CASE op.ret = "FAIL" /\ UNCHANGED inService
    BY <1>1, <2>2 DEF OpInv, PluginTypeOK
  <2> QED
    BY <2>1, <2>2 DEF Leave
<1>7. PluginTypeOK' /\ OpInv' /\ FlagInv'
  BY <1>1, <1>5, <1>6 DEF PluginTypeOK, OpInv, FlagInv, Joinable
<1>8. SerialInv'
  <2>1. \A d \in Callers : call'[d].at # "inside"
    BY <1>2, <1>5 DEF SerialInv
  <2> QED
    BY <1>1, <1>2, <1>5, <2>1, CallerAssumption DEF SerialInv
<1> QED
  BY <1>3, <1>4, <1>7, <1>8

\* The destructor comes when no caller is there to be told anything.
LEMMA ExitStep ==
  ASSUME PluginInv, ServiceExit
  PROVE  [Next]_vars /\ PluginInv'
<1> USE DEF PluginInv
<1>1. /\ op.at = "idle" /\ op'.call = "destroy" /\ op'.at = "lock"
      /\ UNCHANGED <<host, started, mon, made, inService, mtx, call>>
      /\ \A c \in Callers : call[c].at = "idle"
  BY DEF ServiceExit, StopCall, BeginStop, plugin
<1>2. [Next]_vars
  BY DEF ServiceExit, Next, Owner
<1>3. ProtocolInv'
  BY <1>2, NextProtocol
<1>4. PluginTypeOK' /\ OpInv' /\ FlagInv'
  BY <1>1 DEF PluginTypeOK, OpInv, FlagInv
<1>5. SerialInv'
  BY <1>1 DEF SerialInv, OpInv
<1> QED
  BY <1>2, <1>3, <1>4, <1>5

\* Whatever goes on beneath leaves the callers where they are or ends with them.
LEMMA BeneathStep ==
  ASSUME PluginInv, Beneath
  PROVE  [Next]_vars /\ PluginInv'
<1> USE DEF PluginInv
<1>1. WithinCall \/ Monitor \/ ProcessStep \/ HostCrash \/ HostRestart
  BY DEF Beneath
<1>2. [Next]_vars
  BY <1>1 DEF WithinCall, Next, Owner
<1>3. ProtocolInv'
  BY <1>2, NextProtocol
<1>4. CASE host = "up" /\ host' # "up"
  <2>1. op' = NoCall /\ started' = FALSE
    BY <1>1, <1>4, Ends
  <2>2. made' = FALSE /\ inService' = FALSE /\ mtx' = NoCaller /\ call' = NoCalls
    BY <1>4 DEF Beneath
  <2>3. PluginTypeOK'
    BY <2>2 DEF PluginTypeOK, NoCalls, Call, Results
  <2>4. OpInv' /\ FlagInv'
    BY <2>1 DEF OpInv, FlagInv
  <2>5. SerialInv'
    <3>1. \A c \in Callers : call'[c].at = "idle"
      BY <2>2 DEF NoCalls
    <3> QED
      BY <2>1, <2>2, <3>1, CallerAssumption DEF SerialInv
  <2> QED
    BY <1>2, <1>3, <2>3, <2>4, <2>5
<1>5. CASE ~(host = "up" /\ host' # "up")
  <2>1. UNCHANGED <<made, inService, mtx, call>>
    BY <1>5 DEF Beneath, plugin
  <2>2. /\ OpInv' /\ op'.call = op.call
        /\ op.call # "start" => (started' /\ Joinable' => started /\ Joinable)
        /\ host' # "up" => host # "up"
    BY <1>1, <1>5, GoesOn
  <2>3. PluginTypeOK' /\ FlagInv'
    BY <2>1, <2>2 DEF PluginTypeOK, FlagInv
  <2>4. SerialInv'
    BY <2>1, <2>2 DEF SerialInv
  <2> QED
    BY <1>2, <1>3, <2>2, <2>3, <2>4
<1> QED
  BY <1>2, <1>4, <1>5

\* A call begins: the caller waits for the mutex or is answered without it.
LEMMA CallStep ==
  ASSUME PluginInv, NEW c \in Callers, (\E e \in BOOLEAN : CallStart(c, e)) \/ CallStop(c)
  PROVE  [Next]_vars /\ PluginInv'
<1>1. /\ host = "up" /\ op.call # "destroy" /\ call[c].at = "idle"
      /\ UNCHANGED <<vars, inService, mtx>>
  BY DEF CallStart, CallStop
<1>2. made' \in BOOLEAN
  BY DEF CallStart, CallStop, PluginInv, PluginTypeOK
<1>3. \/ \E r \in Results : Answers(c, r)
      \/ \E fn \in {"fpStart", "fpStop"} : Waits(c, fn)
  BY DEF CallStart, CallStop, Results
<1>4. /\ call' \in [Callers -> Call] /\ \A d \in Callers \ {c} : call'[d] = call[d]
      /\ \/ call'[c].at = "idle"
         \/ call'[c].at = "lock" /\ call'[c].fn \in {"fpStart", "fpStop"}
  BY <1>3, Calling DEF PluginInv
<1>5. PluginInv'
  BY <1>1, <1>2, <1>4, OutsideStep
<1> QED
  BY <1>1, <1>5

\* Every step keeps the invariant and is one the controller's specification allows.
LEMMA StepPlugin ==
  ASSUME PluginInv, [NextP]_pvars
  PROVE  [Next]_vars /\ PluginInv'
<1>1. CASE UNCHANGED pvars
  <2>1. UNCHANGED <<proc, host, pid, started, mutex, mon, op, made, inService, mtx, call>>
    BY <1>1 DEF pvars, vars, ctrl, plugin
  <2>2. [Next]_vars
    BY <1>1 DEF pvars
  <2>3. ProtocolInv'
    BY <2>2, NextProtocol DEF PluginInv
  <2>4. (PluginTypeOK /\ OpInv /\ SerialInv /\ FlagInv)'
    BY <2>1 DEF PluginInv, PluginTypeOK, OpInv, SerialInv, FlagInv, Joinable
  <2> QED
    BY <2>2, <2>3, <2>4 DEF PluginInv
<1> QED
  BY <1>1, CallStep, EnterStep, LeaveStep, ExitStep, BeneathStep DEF NextP

-------------------------------------------------------------------------------
(* Theorems *)

\* However many threads call, one at a time is inside the controller, and the
\* plugin's flag never misses that the controller is started and has its monitor.
THEOREM PluginCorrect == SpecP => []PluginInv
BY InitPlugin, StepPlugin, PTL DEF SpecP

\* What PmAgentController takes for granted of its owner, one call at a time and
\* no start() of a controller whose start() has succeeded, is what the plugin's
\* mutex and flag give it, even after a start() that got no thread: the plugin's behaviours are behaviours of the controller, so that every
\* theorem about Spec holds beneath the plugin.
THEOREM PluginImplements == SpecP => ImplementsController
<1>1. PluginInv /\ [NextP]_pvars => [Next]_vars
  BY StepPlugin
<1>2. InitP => Init
  BY DEF InitP
<1> QED
  BY PluginCorrect, <1>1, <1>2, PTL DEF SpecP, ImplementsController, Spec

\* So std::terminate is met neither by fpStart nor, unless kill has failed for the
\* pid it left behind, by the exit of the service, whichever threads call.
THEOREM SafeBeneathPlugin == SpecP => []LaunchIsSafe /\ AbortsOnlyAfterFailedKill
BY PluginImplements, LaunchNeverTerminates, TerminatesOnlyAfterFailedKill, PTL
   DEF ImplementsController

\* Who is told SUCCESS has come back from the controller, whose result was PM_OK.
LEMMA Told ==
  ASSUME PluginInv, [NextP]_pvars, NEW c \in Callers,
         call[c].at = "inside", call'[c].at = "idle", call'[c].res = "SUCCESS"
  PROVE  Leave(c) /\ op.ret = "OK"
<1> USE DEF PluginInv
<1>1. host = "up" /\ op.call # "destroy" /\ mtx = c /\ mtx # NoCaller
  BY CallerAssumption DEF SerialInv
<1>2. ASSUME NEW d \in Callers, (\E e \in BOOLEAN : CallStart(d, e)) \/ CallStop(d)
      PROVE  FALSE
  <2>1. call[d].at = "idle"
    BY <1>2 DEF CallStart, CallStop
  <2>2. \/ \E r \in Results : Answers(d, r)
        \/ \E fn \in {"fpStart", "fpStop"} : Waits(d, fn)
    BY <1>2 DEF CallStart, CallStop, Results
  <2>3. \A b \in Callers \ {d} : call'[b] = call[b]
    BY <2>2, Calling
  <2> QED
    BY <2>1, <2>3
<1>3. \A d \in Callers : ~Enter(d)
  BY <1>1 DEF Enter
<1>4. ~ServiceExit
  BY DEF ServiceExit
<1>5. ~Beneath
  <2>1. CASE host' # "up" /\ Beneath
    BY <1>1, <2>1 DEF Beneath, NoCalls
  <2>2. CASE host' = "up" /\ Beneath
    BY <2>2 DEF Beneath, plugin
  <2> QED
    BY <2>1, <2>2
<1>6. \A d \in Callers : Leave(d) => d = c
  BY DEF Leave, SerialInv
<1>7. ~UNCHANGED pvars
  BY DEF pvars, plugin
<1>8. Leave(c)
  BY <1>2, <1>3, <1>4, <1>5, <1>6, <1>7 DEF NextP
<1>9. op.ret # "FAIL"
  BY <1>8, Calling DEF Leave, Results
<1> QED
  BY <1>8, <1>9 DEF Leave

\* SUCCESS means what it says: after fpStart the agent is watched by a thread,
\* after fpStop no restart is on its way.
THEOREM SuccessesAreTrue == SpecP => SuccessIsTrue
<1>1. ASSUME PluginInv, [NextP]_pvars, NEW c \in Callers,
             call[c].at = "inside", call'[c].at = "idle", call'[c].res = "SUCCESS"
      PROVE  IF call[c].fn = "fpStart" THEN started' /\ Joinable'
                                       ELSE ~started' /\ mon'.at # "delay"
  <2>1. Leave(c) /\ op.ret = "OK"
    BY <1>1, Told
  <2>2. op.at = "return" /\ UNCHANGED <<started, mon>>
    BY <2>1 DEF Leave, Return
  <2>3. op.call = IF call[c].fn = "fpStart" THEN "start" ELSE "stop"
    BY <1>1 DEF PluginInv, SerialInv
  <2>4. CASE call[c].fn = "fpStart"
    BY <1>1, <2>1, <2>2, <2>3, <2>4 DEF PluginInv, OpInv, ProtocolInv, ThreadInv, Joinable
  <2>5. CASE call[c].fn # "fpStart"
    BY <1>1, <2>1, <2>2, <2>3, <2>5 DEF PluginInv, OpInv, ProtocolInv, ThreadInv
  <2> QED
    BY <2>4, <2>5
<1>2. PluginInv /\ [NextP]_pvars
        => [\A c \in Callers :
              call[c].at = "inside" /\ call'[c].at = "idle" /\ call'[c].res = "SUCCESS"
                => IF call[c].fn = "fpStart"
                   THEN started' /\ Joinable'
                   ELSE ~started' /\ mon'.at # "delay"]_pvars
  BY <1>1
<1> QED
  BY PluginCorrect, <1>2, PTL DEF SpecP, SuccessIsTrue
===============================================================================
