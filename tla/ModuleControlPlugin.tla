-------------------------- MODULE ModuleControlPlugin -------------------------
(***************************************************************************)
(* ModuleControlPlugin: the C interface of the controller.  CreatePM-      *)
(* ModuleInstance hands out fpStart and fpStop; both use one static        *)
(* PmControlPlugin, made by the first fpStart that names a base path, and  *)
(* both hold its mtxAgentCtrl_ for the whole call.  The caller inside is   *)
(* the owner of PmAgentController.                                         *)
(***************************************************************************)
EXTENDS PmAgentController

CONSTANTS
  Callers,  \* threads that hold a module context
  NoCaller  \* nobody holds mtxAgentCtrl_

ASSUME CallerAssumption == NoCaller \notin Callers

VARIABLES
  made,       \* the static PmControlPlugin has been constructed
  inService,  \* bIsProcessStarted_
  mtx,        \* who holds mtxAgentCtrl_
  call        \* call[c]: what caller c is doing, and the last result it got

plugin == <<made, inService, mtx, call>>
pvars == <<vars, plugin>>

Results == {"SUCCESS", "ALREADY_STARTED", "NOT_STARTED", "GENERAL_ERROR"}
Call == [fn : {"none", "fpStart", "fpStop"}, at : {"idle", "lock", "inside"}, res : Results]

NoCalls == [c \in Callers |-> [fn |-> "none", at |-> "idle", res |-> "NOT_STARTED"]]

PluginInit == made = FALSE /\ inService = FALSE /\ mtx = NoCaller /\ call = NoCalls
InitP == Init /\ PluginInit

-------------------------------------------------------------------------------
\* Caller c calls fn and waits for mtxAgentCtrl_.
Waits(c, fn) == call' = [call EXCEPT ![c].fn = fn, ![c].at = "lock"]

\* Caller c is given result r.
Answers(c, r) == call' = [call EXCEPT ![c] = [fn |-> "none", at |-> "idle", res |-> r]]

\* startPmAgent: getInstance throws on an empty path if it has to construct.
CallStart(c, emptyPath) ==
  /\ host = "up" /\ op.call # "destroy" /\ call[c].at = "idle"
  /\ \/ /\ emptyPath /\ ~made
        /\ Answers(c, "GENERAL_ERROR")
        /\ UNCHANGED made
     \/ /\ ~emptyPath \/ made
        /\ Waits(c, "fpStart")
        /\ made' = TRUE
  /\ UNCHANGED <<vars, inService, mtx>>

\* stopPmAgent: getInstance() has no path and throws unless the instance exists.
CallStop(c) ==
  /\ host = "up" /\ op.call # "destroy" /\ call[c].at = "idle"
  /\ \/ /\ ~made
        /\ Answers(c, "NOT_STARTED")
     \/ /\ made
        /\ Waits(c, "fpStop")
  /\ UNCHANGED <<vars, made, inService, mtx>>

\* Mutant: fpStart does not look at bIsProcessStarted_.
EnterUnchecked(c) ==
  /\ call[c].at = "lock" /\ mtx = NoCaller
  /\ \/ call[c].fn = "fpStart" /\ BeginStart
     \/ call[c].fn = "fpStop" /\ BeginStop("stop")
  /\ call' = [call EXCEPT ![c].at = "inside"]
  /\ mtx' = c
  /\ UNCHANGED <<made, inService>>

\* With mtxAgentCtrl_: answer at once, or go into the controller.
Enter(c) ==
  /\ call[c].at = "lock" /\ mtx = NoCaller
  /\ \/ /\ call[c].fn = "fpStart" /\ inService
        /\ Answers(c, "ALREADY_STARTED")
        /\ UNCHANGED <<vars, mtx>>
     \/ /\ call[c].fn = "fpStop" /\ ~inService
        /\ Answers(c, "NOT_STARTED")
        /\ UNCHANGED <<vars, mtx>>
     \/ /\ \/ call[c].fn = "fpStart" /\ ~inService /\ BeginStart
           \/ call[c].fn = "fpStop" /\ inService /\ BeginStop("stop")
        /\ call' = [call EXCEPT ![c].at = "inside"]
        /\ mtx' = c
  /\ UNCHANGED <<made, inService>>

\* The controller's call has returned: record it, unlock and answer.
Leave(c) ==
  /\ call[c].at = "inside" /\ Return
  /\ \/ /\ op.ret = "OK"
        /\ inService' = (call[c].fn = "fpStart")
        /\ Answers(c, "SUCCESS")
     \/ /\ op.ret = "FAIL"
        /\ Answers(c, "GENERAL_ERROR")
        /\ UNCHANGED inService
  /\ mtx' = NoCaller
  /\ UNCHANGED made

\* The service exits: the static instance, if there is one, is destroyed.
ServiceExit ==
  /\ made /\ StopCall("destroy")
  /\ \A c \in Callers : call[c].at = "idle"
  /\ UNCHANGED plugin

\* The controller and the world go on; a host that ends takes the plugin along.
WithinCall == \/ KillIfRunning \/ KillPrevious \/ Spawn \/ Launch
              \/ StopLock \/ StopBody \/ Join \/ Destroyed

Beneath ==
  /\ WithinCall \/ Monitor \/ ProcessStep \/ HostCrash \/ HostRestart
  /\ IF host = "up" /\ host' # "up"
     THEN made' = FALSE /\ inService' = FALSE /\ mtx' = NoCaller /\ call' = NoCalls
     ELSE UNCHANGED plugin

NextP ==
  \/ \E c \in Callers : \/ \E e \in BOOLEAN : CallStart(c, e)
                        \/ CallStop(c)
                        \/ Enter(c)
                        \/ Leave(c)
  \/ ServiceExit
  \/ Beneath

SpecP == InitP /\ [][NextP]_pvars

-------------------------------------------------------------------------------
(* Properties *)

\* Seen through the plugin the controller behaves as PmAgentController says, with
\* one owner that never starts a controller it has started and not stopped since,
\* however many threads call and whatever fails.
ImplementsController == Spec

\* A caller that is told SUCCESS by fpStart leaves an agent watched by a monitor,
\* unless waitpid has reported the impossible error; one that is told SUCCESS by
\* fpStop leaves a controller that restarts nothing.
SuccessIsTrue ==
  [][\A c \in Callers :
       call[c].at = "inside" /\ call'[c].at = "idle" /\ call'[c].res = "SUCCESS"
         => IF call[c].fn = "fpStart"
            THEN started' /\ Joinable'
            ELSE ~started' /\ mon'.at # "delay"]_pvars

\* ModuleControlPluginTest.cpp: the plugin can be started again once it has been
\* stopped.  startProcess() refuses to if pid_ still names a process, so no
\* fpStart, which only gets this far after an fpStop that succeeded, may find one.
RestartableAfterStop == op.at = "spawn" => pid = Invalid
===============================================================================
