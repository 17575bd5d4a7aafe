------------------------------- MODULE CommandExec ----------------------------
(***************************************************************************)
(* CommandExec: the package manager runs rpm, dpkg, gpg and the installers *)
(* as child processes, and reads what they write through a pipe.           *)
(*                                                                         *)
(* Two actors: the caller, who makes one call after another with the same  *)
(* output string, and the child of the call.  A byte of output is plain, a *)
(* line feed or a NUL.                                                     *)
(***************************************************************************)
EXTENDS Integers, Sequences, SequencesExt

CONSTANTS
  PipeSize,        \* bytes that fit into the pipe
  ReadSize,        \* bytes that one read() asks for
  Outputs,         \* what commands write, a set of sequences of bytes
  Faults,          \* the system calls of the caller that may fail
  StatusMayBeLost  \* whoever started the service may have left SIGCHLD ignored

Bytes == {"plain", "lf", "nul"}
SetupCalls == {"actions_init", "pipe", "getfl", "actions_add", "posix_spawn"}

ASSUME CommandAssumption ==
  /\ PipeSize \in Nat \ {0} /\ ReadSize \in Nat \ {0}
  /\ Outputs \subseteq Seq(Bytes)
  /\ Faults \subseteq SetupCalls
  /\ StatusMayBeLost \in BOOLEAN

VARIABLES
  call,    \* the call, where it is, and what it is to return: "success" (0),
           \* "failure" (-1), and the exit status of the command
  output,  \* the string the caller passes to each call
  held,    \* what the call must give back: "actions" and the two pipe ends
  child,   \* the child's state, its exit status and what it has yet to write
  pipe,    \* the bytes in the pipe
  sent     \* what the child has written to the pipe

vars == <<call, output, held, child, pipe, sent>>

Resources == {"actions", "read end", "write end"}
CallPc == {"idle", "setup", "spawn", "wait", "read", "returned"}
ChildState == {"none", "running", "exited", "killed", "reaped"}
Status == {"none", "zero", "nonzero"}

NoCall == [name |-> "none", at |-> "idle", ret |-> "failure", exitCode |-> "none"]
NoChild == [state |-> "none", status |-> "none", rest |-> << >>]

CallTypeOK ==
  /\ call \in [name : {"none", "ExecuteCommand", "ExecuteCommandCaptureOutput"},
              at : CallPc, ret : {"failure", "success"}, exitCode : Status]
  /\ held \subseteq Resources
  /\ child \in [state : ChildState, status : Status, rest : Seq(Bytes)]

Init ==
  /\ call = NoCall
  /\ output = << >>
  /\ held = {}
  /\ child = NoChild
  /\ pipe = << >>
  /\ sent = << >>

Captures == call.name = "ExecuteCommandCaptureOutput"

-------------------------------------------------------------------------------
(* The caller *)

Begin(name) ==
  /\ call.at \in {"idle", "returned"}
  /\ call' = [NoCall EXCEPT !.name = name,
                            !.at = IF name = "ExecuteCommand" THEN "spawn" ELSE "setup"]
  /\ child' = NoChild
  /\ sent' = << >>
  /\ UNCHANGED <<output, held, pipe>>

\* Mutant: the pipe ends are not closed when a call after pipe() fails.
ReturnKeepsPipe(result) ==
  /\ call' = [result EXCEPT !.at = "returned"]
  /\ held' = held \ {"actions"}
  /\ pipe' = << >>

\* Every way out of the call runs the two deleters.
Return(result) ==
  /\ call' = [result EXCEPT !.at = "returned"]
  /\ held' = {}
  /\ pipe' = << >>

\* A command that is empty, has no arguments or is not an absolute path.
Refuse ==
  /\ call.at \in {"setup", "spawn"} /\ held = {}
  /\ Return(call)
  /\ UNCHANGED <<output, child, sent>>

\* The file actions and the pipe, and what is left to release if a step fails.
SetUp ==
  /\ call.at = "setup"
  /\ \/ /\ call' = [call EXCEPT !.at = "spawn"]
        /\ held' = Resources
        /\ UNCHANGED pipe
     \/ /\ Faults \cap (SetupCalls \ {"posix_spawn"}) # {}
        /\ Return(call)
  /\ UNCHANGED <<output, child, sent>>

\* posix_spawn(): from here on the child runs by itself.
Spawn ==
  /\ call.at = "spawn" /\ (Captures => held = Resources)
  /\ \/ /\ call' = [call EXCEPT !.at = "wait"]
        /\ \E out \in Outputs :
             child' = [state |-> "running", status |-> "none",
                       rest |-> IF Captures THEN out ELSE << >>]
        /\ UNCHANGED <<held, pipe>>
     \/ /\ "posix_spawn" \in Faults
        /\ Return(call)
        /\ UNCHANGED child
  /\ UNCHANGED <<output, sent>>

Reaped == child' = [child EXCEPT !.state = "reaped"]

\* Mutant: whatever way the child ended, it counts as executed.
WaitTakesAnyEnd ==
  /\ call.at = "wait" /\ child.state \in {"exited", "killed"}
  /\ Reaped
  /\ IF Captures
     THEN /\ call' = [call EXCEPT !.at = "read", !.exitCode = child.status]
          /\ output' = << >>
          /\ UNCHANGED <<held, pipe>>
     ELSE Return([call EXCEPT !.ret = "success", !.exitCode = child.status]) /\ UNCHANGED output
  /\ UNCHANGED sent

\* Mutant: the string still holds the output of the call before.
WaitKeepsOutput ==
  /\ call.at = "wait" /\ child.state = "exited"
  /\ Reaped
  /\ IF Captures
     THEN call' = [call EXCEPT !.at = "read", !.exitCode = child.status]
          /\ UNCHANGED <<held, pipe>>
     ELSE Return([call EXCEPT !.ret = "success", !.exitCode = child.status])
  /\ UNCHANGED <<output, sent>>

\* waitpid() until the child has ended, again on EINTR; ECHILD if nobody keeps
\* its status.  Only then is the pipe read, and only if the child has exited.
Wait ==
  /\ call.at = "wait" /\ child.state \in {"exited", "killed", "reaped"}
  /\ Reaped
  /\ IF child.state = "exited"
     THEN IF Captures
          THEN /\ call' = [call EXCEPT !.at = "read", !.exitCode = child.status]
               /\ output' = << >>
               /\ UNCHANGED <<held, pipe>>
          ELSE /\ Return([call EXCEPT !.ret = "success", !.exitCode = child.status])
               /\ UNCHANGED output
     ELSE Return(call) /\ UNCHANGED output
  /\ UNCHANGED sent

\* What append(buffer) takes of the bytes read: those before the first NUL.
UpToNul(bytes) == SelectInSeq(bytes, LAMBDA b : b = "nul") - 1
Appended(bytes) ==
  IF Contains(bytes, "nul") THEN SubSeq(bytes, 1, UpToNul(bytes)) ELSE bytes

\* Mutant: O_NONBLOCK is not set, and the caller itself holds the write end.
ReadBlocks ==
  /\ call.at = "read" /\ pipe # << >>
  /\ LET n == IF Len(pipe) < ReadSize THEN Len(pipe) ELSE ReadSize
     IN  /\ output' = output \o Appended(SubSeq(pipe, 1, n))
         /\ pipe' = SubSeq(pipe, n + 1, Len(pipe))
  /\ UNCHANGED <<call, held, child, sent>>

\* read() until there is nothing: the read end does not block.
Read ==
  /\ call.at = "read"
  /\ IF pipe # << >>
     THEN LET n == IF Len(pipe) < ReadSize THEN Len(pipe) ELSE ReadSize
          IN  /\ output' = output \o Appended(SubSeq(pipe, 1, n))
              /\ pipe' = SubSeq(pipe, n + 1, Len(pipe))
              /\ UNCHANGED <<call, held>>
     ELSE Return([call EXCEPT !.ret = "success"]) /\ UNCHANGED output
  /\ UNCHANGED <<child, sent>>

-------------------------------------------------------------------------------
(* The child *)

\* The child writes its next byte; it blocks while the pipe is full.
ChildWrites ==
  /\ child.state = "running" /\ child.rest # << >>
  /\ Len(pipe) < PipeSize
  /\ pipe' = Append(pipe, Head(child.rest))
  /\ sent' = Append(sent, Head(child.rest))
  /\ child' = [child EXCEPT !.rest = Tail(@)]
  /\ UNCHANGED <<call, output, held>>

\* What a child leaves for waitpid() when it has ended: its status, or nothing
\* where SIGCHLD is ignored.
Remains(state) == {state} \cup (IF StatusMayBeLost THEN {"reaped"} ELSE {})

ChildExits ==
  /\ child.state = "running" /\ child.rest = << >>
  /\ \E code \in Status \ {"none"}, state \in Remains("exited") :
       child' = [child EXCEPT !.state = state, !.status = code]
  /\ UNCHANGED <<call, output, held, pipe, sent>>

\* A signal may end the child at any moment.
ChildIsKilled ==
  /\ child.state = "running"
  /\ \E state \in Remains("killed") : child' = [child EXCEPT !.state = state]
  /\ UNCHANGED <<call, output, held, pipe, sent>>

CallStep == Refuse \/ SetUp \/ Spawn \/ Wait \/ Read
ChildStep == ChildWrites \/ ChildExits

Next ==
  \/ \E name \in {"ExecuteCommand", "ExecuteCommandCaptureOutput"} : Begin(name)
  \/ CallStep
  \/ ChildStep
  \/ ChildIsKilled

Spec == Init /\ [][Next]_vars

\* A call goes on, and so does a command: rpm and the like end by themselves.
FairSpec == Spec /\ WF_vars(CallStep) /\ WF_vars(ChildStep)

-------------------------------------------------------------------------------
(* The lines of the output *)

\* A line feed ends the piece read so far; another byte belongs to it.
ParseByte(parsed, byte) ==
  IF byte = "lf" THEN [lines |-> Append(parsed.lines, parsed.piece), piece |-> << >>]
                 ELSE [parsed EXCEPT !.piece = Append(@, byte)]

Pieces(bytes) ==
  LET parsed[i \in 0..Len(bytes)] ==
        IF i = 0 THEN [lines |-> << >>, piece |-> << >>] ELSE ParseByte(parsed[i - 1], bytes[i])
  IN  parsed[Len(bytes)]

\* Mutant: a last line without a line feed is forgotten.
ParseOutputWholeLines(bytes) == Pieces(bytes).lines

\* ParseOutput(): the pieces between line feeds, and what follows the last one
\* if that is not empty.
ParseOutput(bytes) ==
  LET parsed == Pieces(bytes)
  IN  IF parsed.piece = << >> THEN parsed.lines ELSE Append(parsed.lines, parsed.piece)

-------------------------------------------------------------------------------
(* What holds at each place of a call *)

\* A call holds what it has set up and its child is where the call takes it to
\* be; exitCode is the status of a child that has come to its own end.
PlaceInv ==
  /\ call.at \in {"idle", "setup", "returned"} => held = {}
  /\ call.at \in {"idle", "setup", "spawn"} => child.state = "none"
  /\ call.at = "returned" => child.state \in {"none", "reaped"}
  /\ call.at = "wait" => child.state # "none"
  /\ call.at = "read" => child.state = "reaped"
  /\ call.at = "read" \/ call.ret = "success"
       => child.status # "none" /\ call.exitCode = child.status /\ child.rest = << >>
  /\ call.ret = "success" => call.at = "returned"
  /\ child.state = "exited" => child.status # "none" /\ child.rest = << >>

Succeeded == call.at = "returned" /\ call.ret = "success"

\* A call that succeeds leaves in the string all that this command wrote, and
\* nothing of an earlier one, however the reads fall, if there is no NUL in it.
CaptureIsComplete ==
  Succeeded /\ Captures /\ ~Contains(sent, "nul") => output = sent

\* Nothing is read before the child has ended, and what has been read and what
\* is left in the pipe together are what the child wrote.
ContentInv ==
  /\ pipe \in Seq(Bytes) /\ sent \in Seq(Bytes) /\ output \in Seq(Bytes)
  /\ call.at \in {"idle", "setup", "spawn", "returned"} => pipe = << >>
  /\ call.at \in {"setup", "spawn"} => sent = << >>
  /\ call.at = "wait" => pipe = sent
  /\ call.at = "read" => Captures
  /\ call.at = "read" /\ ~Contains(sent, "nul") => output \o pipe = sent
  /\ CaptureIsComplete

-------------------------------------------------------------------------------
(* Properties *)

\* Success is returned only for a command that has come to its own end, and with
\* the exit status of this command: rpm killed half way is no installed package.
SuccessIsExit ==
  Succeeded => child.status # "none" /\ call.exitCode = child.status
               /\ child.rest = << >>

\* Lines as they were before they were taken apart, each with its line feed.
Joined(lines) == FlattenSeq([n \in 1..Len(lines) |-> Append(lines[n], "lf")])

\* No line has a line feed in it, and joined by line feeds again the lines are the
\* output, which gets a final one if it had none: no line is lost, and none is made up.
LinesAreOutput ==
  Succeeded /\ Captures
    => LET lines == ParseOutput(output)
       IN  /\ \A n \in DOMAIN lines : ~Contains(lines[n], "lf")
           /\ Joined(lines) = IF output = << >> \/ Last(output) = "lf" THEN output
                              ELSE Append(output, "lf")

\* A call that has returned holds no descriptor and leaves no zombie, whichever
\* of its steps failed.
NothingLeaks ==
  call.at = "returned" => held = {} /\ child.state \in {"none", "reaped"}

\* A call whose command has no more to write than the pipe takes returns.
SmallOutputReturns ==
  (call.at = "wait" /\ Len(sent) + Len(child.rest) <= PipeSize) ~> call.at = "returned"

\* ICommandExec.hpp: "Executes a command and captures the output."  So the call
\* returns, as the command ends by itself.
CaptureReturns == call.at = "wait" ~> call.at = "returned"
===============================================================================
