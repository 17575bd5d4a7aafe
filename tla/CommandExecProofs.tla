--------------------------- MODULE CommandExecProofs --------------------------
(***************************************************************************)
(* Proofs about CommandExec, for every size of the pipe, every output a    *)
(* command may write and every choice of failing system calls.             *)
(***************************************************************************)
EXTENDS CommandExec, SequenceTheorems, WellFoundedInduction, TLAPS

CallInv == CallTypeOK /\ PlaceInv

\* CallInv holds before the first call.
LEMMA InitCallInv == Init => CallInv
  BY DEF Init, CallInv, CallTypeOK, PlaceInv, NoCall, NoChild, CallPc,
         ChildState, Status, Resources

\* Each step of the caller, of the child and of a signal keeps CallInv.
LEMMA StepCallInv == CallInv /\ [Next]_vars => CallInv'
<1> SUFFICES ASSUME CallInv, [Next]_vars PROVE CallInv'
  OBVIOUS
<1> USE DEF CallInv, CallTypeOK, PlaceInv, CallPc, ChildState, Status, Resources
<1>a. << >> \in Seq(Bytes)
  BY EmptySeq
<1>b. child.rest # << >> => Tail(child.rest) \in Seq(Bytes)
  <2>1. child.rest \in Seq(Bytes)
    BY DEF CallTypeOK
  <2> QED
    BY <2>1, HeadTailProperties
<1>1. ASSUME NEW name \in {"ExecuteCommand", "ExecuteCommandCaptureOutput"},
             Begin(name)
      PROVE  CallInv'
  <2>1. CallTypeOK'
    BY <1>1, <1>a DEF Begin, NoCall, NoChild
  <2>2. /\ call'.at \in {"setup", "spawn"} /\ call'.ret = "failure"
        /\ child'.state = "none" /\ (call'.at = "setup" => held' = {})
    BY <1>1 DEF Begin, NoCall, NoChild
  <2>3. PlaceInv'
    BY <2>2
  <2> QED
    BY <2>1, <2>3
<1>2. CASE Refuse
  BY <1>2 DEF Refuse, Return
<1>3. CASE SetUp
  BY <1>3 DEF SetUp, Return
<1>4. CASE Spawn
  <2>1. ASSUME NEW out \in Outputs,
               call' = [call EXCEPT !.at = "wait"],
               child' = [state |-> "running", status |-> "none",
                         rest |-> IF Captures THEN out ELSE << >>],
               held' = held
        PROVE  CallInv'
    <3> DEFINE rest == IF Captures THEN out ELSE << >>
    <3>1. rest \in Seq(Bytes)
      BY <1>a, CommandAssumption
    <3> HIDE DEF rest
    <3>2. child' = [state |-> "running", status |-> "none", rest |-> rest]
      BY <2>1 DEF rest
    <3>3. child' \in [state : ChildState, status : Status, rest : Seq(Bytes)]
      BY <3>1, <3>2
    <3>4. CallTypeOK'
      BY <2>1, <3>3
    <3>5. call'.at = "wait" /\ call'.ret = "failure" /\ child'.state = "running"
      <4>1. call'.at = "wait" /\ call'.ret = call.ret
        BY <2>1
      <4>2. child'.state = "running"
        BY <3>2
      <4>3. call.ret = "failure"
        BY <1>4 DEF Spawn
      <4> QED
        BY <4>1, <4>2, <4>3
    <3>6. PlaceInv'
      BY <3>5, <1>4 DEF Spawn
    <3> QED
      BY <3>4, <3>6
  <2>2. CASE Return(call) /\ child' = child
    BY <1>4, <2>2 DEF Spawn, Return
  <2> QED
    BY <1>4, <2>1, <2>2 DEF Spawn
<1>5. CASE Wait
  <2>1. CASE child.state = "exited"
    BY <1>5, <2>1 DEF Wait, Return, Reaped
  <2>2. CASE child.state # "exited"
    BY <1>5, <2>2 DEF Wait, Return, Reaped
  <2> QED
    BY <2>1, <2>2
<1>6. CASE Read
  BY <1>6 DEF Read, Return
<1>7. CASE ChildWrites
  BY <1>7, <1>b DEF ChildWrites
<1>8. CASE ChildExits
  <2>1. PICK code \in Status \ {"none"}, state \in Remains("exited") :
             child' = [child EXCEPT !.state = state, !.status = code]
    BY <1>8 DEF ChildExits
  <2>2. state \in {"exited", "reaped"}
    BY DEF Remains
  <2>3. CallTypeOK'
    BY <1>8, <2>1, <2>2 DEF ChildExits
  <2>4. /\ child'.state = state /\ child'.status = code
        /\ child'.rest = child.rest /\ call' = call /\ held' = held
    BY <1>8, <2>1 DEF ChildExits
  <2>5. /\ child.state = "running" /\ child.rest = << >>
        /\ call.at = "wait" /\ call.ret = "failure"
    BY <1>8 DEF ChildExits
  <2>6. PlaceInv'
    BY <2>2, <2>4, <2>5
  <2> QED
    BY <2>3, <2>6
<1>9. CASE ChildIsKilled
  BY <1>9 DEF ChildIsKilled, Remains
<1>10. CASE UNCHANGED vars
  BY <1>10 DEF vars, Captures
<1> QED
  BY <1>1, <1>2, <1>3, <1>4, <1>5, <1>6, <1>7, <1>8, <1>9, <1>10
     DEF Next, CallStep, ChildStep

\* At every place of a call the descriptors, the child and the exit status are
\* what the code there takes them to be.
THEOREM CallCorrect == Spec => []CallInv
  BY InitCallInv, StepCallInv, PTL DEF Spec

\* No call that has returned holds a descriptor or leaves a zombie, whichever
\* system calls failed.
THEOREM LeaksNothing == Spec => []NothingLeaks
<1>1. CallInv => NothingLeaks
  BY DEF CallInv, PlaceInv, NothingLeaks
<1> QED
  BY <1>1, CallCorrect, PTL

\* Success is returned only for a command that came to its own end, with its
\* exit status.
THEOREM SuccessMeansExit == Spec => []SuccessIsExit
<1>1. CallInv => SuccessIsExit
  BY DEF CallInv, PlaceInv, SuccessIsExit, Succeeded
<1> QED
  BY <1>1, CallCorrect, PTL

\* Bytes without a NUL are appended as they are.
LEMMA AppendedPlain ==
  ASSUME NEW bytes, ~Contains(bytes, "nul")
  PROVE  Appended(bytes) = bytes
  BY DEF Appended

\* Both parts of a string without a NUL are without one.
LEMMA NoNulInParts ==
  ASSUME NEW s \in Seq(Bytes), NEW t \in Seq(Bytes), ~Contains(s \o t, "nul")
  PROVE  ~Contains(s, "nul") /\ ~Contains(t, "nul")
<1> USE DEF Contains
<1>1. /\ Len(s) \in Nat /\ Len(t) \in Nat
      /\ Len(s \o t) = Len(s) + Len(t)
      /\ \A i \in 1..Len(s) + Len(t) :
           (s \o t)[i] = IF i <= Len(s) THEN s[i] ELSE t[i - Len(s)]
  BY ConcatProperties, LenProperties
<1>2. ASSUME NEW i \in 1..Len(s) PROVE s[i] # "nul"
  BY <1>1
<1>3. ASSUME NEW i \in 1..Len(t) PROVE t[i] # "nul"
  <2>1. /\ Len(s) + i \in 1..Len(s) + Len(t)
        /\ ~(Len(s) + i <= Len(s)) /\ (Len(s) + i) - Len(s) = i
    BY <1>1
  <2> QED
    BY <1>1, <2>1
<1> QED
  BY <1>2, <1>3

\* Bytes can be joined in any grouping.
LEMMA BytesAssociative ==
  \A a, b, c \in Seq(Bytes) : (a \o b) \o c = a \o (b \o c)
  BY ConcatAssociative

\* A read takes a beginning of the pipe and leaves the rest.
LEMMA PipeSplit ==
  ASSUME NEW s \in Seq(Bytes), NEW n \in 1..Len(s)
  PROVE  /\ SubSeq(s, 1, n) \in Seq(Bytes)
         /\ SubSeq(s, n + 1, Len(s)) \in Seq(Bytes)
         /\ SubSeq(s, 1, n) \o SubSeq(s, n + 1, Len(s)) = s
<1>1. Len(s) \in Nat /\ \A i \in 1..Len(s) : s[i] \in Bytes
  BY LenProperties
<1>2. SubSeq(s, 1, n) \in Seq(Bytes)
  BY <1>1, SubSeqProperties
<1>3. SubSeq(s, n + 1, Len(s)) \in Seq(Bytes)
  BY <1>1, SubSeqProperties
<1>4. 1 \in 1..Len(s) + 1 /\ n \in (1 - 1)..Len(s) /\ Len(s) \in n..Len(s)
  BY <1>1
<1>5. SubSeq(s, 1, n) \o SubSeq(s, n + 1, Len(s)) = SubSeq(s, 1, Len(s))
  BY <1>4, ConcatAdjacentSubSeq
<1> QED
  BY <1>2, <1>3, <1>5, SubSeqFull

-------------------------------------------------------------------------------
(* Recursion over data *)

\* Every set of natural numbers that is not empty has a least element.
LEMMA Smallest ==
  ASSUME NEW T, T \subseteq Nat, T # {}
  PROVE  \E k \in T : \A j \in T : k <= j
<1> DEFINE R == {p \in Nat \X Nat : p[1] < p[2]}
<1>1. IsWellFoundedOn(R, Nat)
  BY NatLessThanWellFounded DEF OpToRel
<1> HIDE DEF R
<1>2. PICK k \in T : \A j \in T : <<j, k>> \notin R
  BY <1>1, WFMin
<1>3. ASSUME NEW j \in T PROVE k <= j
  <2>1. j \in Nat /\ k \in Nat
    OBVIOUS
  <2>2. <<j, k>> \notin R
    BY <1>2
  <2>3. ~(j < k)
    BY <2>1, <2>2 DEF R
  <2> QED
    BY <2>1, <2>3
<1> QED
  BY <1>2, <1>3

\* What holds of 0, and of each number up to n if it holds of the one before, holds
\* of all of them.
LEMMA UpTo ==
  ASSUME NEW n \in Nat, NEW P, 0 \in P,
         \A i \in 1..n : i - 1 \in P => i \in P
  PROVE  \A i \in 0..n : i \in P
<1> DEFINE T == {i \in 0..n : i \notin P}
<1>1. SUFFICES ASSUME T # {} PROVE FALSE
  OBVIOUS
<1>2. PICK k \in T : \A j \in T : k <= j
  <2>1. T \subseteq Nat
    OBVIOUS
  <2> HIDE DEF T
  <2> QED
    BY <1>1, <2>1, Smallest
<1>3. k \in 1..n /\ k - 1 \in 0..n /\ k - 1 \notin T
  BY <1>2
<1> QED
  BY <1>3

\* What a function does that starts with base and goes on by step.
Steps(n, T) == [(1..n) \X T -> T]
Recurs(u, n, T, base, step) ==
  /\ u \in [0..n -> T] /\ u[0] = base
  /\ \A i \in 1..n : u[i] = step[<<i, u[i - 1]>>]

\* There is such a function.
LEMMA Recursion ==
  ASSUME NEW n \in Nat, NEW T, NEW base \in T, NEW step \in Steps(n, T)
  PROVE  \E u : Recurs(u, n, T, base, step)
<1> USE DEF Steps
<1> DEFINE Is(u, m) == Recurs(u, m, T, base, step)
           P == {m \in Nat : \E u : Is(u, m)}
<1> USE DEF Recurs
<1>1. 0 \in P
  <2>1. Is([i \in 0..0 |-> base], 0)
    OBVIOUS
  <2> QED
    BY <2>1
<1>2. ASSUME NEW m \in 1..n, m - 1 \in P PROVE m \in P
  <2>1. PICK u : Is(u, m - 1)
    BY <1>2
  <2> DEFINE next == step[<<m, u[m - 1]>>]
             v == [i \in 0..m |-> IF i = m THEN next ELSE u[i]]
  <2>2. m \in Nat /\ m - 1 \in 0..(m - 1) /\ 0 \in 0..(m - 1) /\ 0 # m /\ m \in 0..m
    OBVIOUS
  <2>3. u[m - 1] \in T
    BY <2>1, <2>2
  <2>4. <<m, u[m - 1]>> \in (1..n) \X T
    BY <2>3
  <2>5. next \in T
    BY <2>4
  <2> HIDE DEF next
  <2>6. \A i \in 0..m : i # m => i \in 0..(m - 1)
    OBVIOUS
  <2>7. v \in [0..m -> T]
    BY <2>1, <2>5, <2>6
  <2>8. v[0] = base
    BY <2>1, <2>2
  <2>9. ASSUME NEW i \in 1..m PROVE v[i] = step[<<i, v[i - 1]>>]
    <3>1. i \in 0..m /\ i - 1 \in 0..m /\ i - 1 # m
      OBVIOUS
    <3>2. v[i - 1] = u[i - 1]
      BY <3>1
    <3>3. CASE i = m
      BY <2>2, <3>2, <3>3 DEF next
    <3>4. CASE i # m
      <4>1. i \in 1..(m - 1)
        BY <3>4
      <4>2. v[i] = u[i]
        BY <3>1, <3>4
      <4> HIDE DEF v
      <4> QED
        BY <2>1, <3>2, <4>1, <4>2
    <3> QED
      BY <3>3, <3>4
  <2> HIDE DEF v
  <2>10. Is(v, m)
    BY <2>7, <2>8, <2>9
  <2> QED
    BY <2>2, <2>10
<1>3. n \in P
  <2> HIDE DEF P
  <2>1. \A i \in 0..n : i \in P
    BY <1>1, <1>2, UpTo
  <2> QED
    BY <2>1
<1> QED
  BY <1>3

-------------------------------------------------------------------------------
(* FlattenSeq *)

\* FlattenSeq meets its own equation.
LEMMA FlattenUnfolds ==
  ASSUME NEW S, NEW seqs \in Seq(Seq(S)), seqs # << >>
  PROVE  \E u : /\ \A i \in 1..Len(seqs) :
                      u[i] \in Seq(S) /\ u[i] = IF i = 1 THEN seqs[i] ELSE u[i - 1] \o seqs[i]
                /\ FlattenSeq(seqs) = u[Len(seqs)]
<1> DEFINE n == Len(seqs)
           Is(v) == v = [i \in 1..Len(seqs) |-> IF i = 1 THEN seqs[i] ELSE v[i - 1] \o seqs[i]]
           step == [p \in (1..n) \X Seq(S) |-> p[2] \o seqs[p[1]]]
<1>1. n \in Nat \ {0} /\ \A i \in 1..n : seqs[i] \in Seq(S)
  BY EmptySeq, LenProperties
<1>2. << >> \in Seq(S) /\ \A s \in Seq(S) : << >> \o s = s
  BY EmptySeq, ConcatEmptySeq
<1>3. step \in [(1..n) \X Seq(S) -> Seq(S)]
  BY <1>1, ConcatProperties
<1>4. \A i \in 1..n, s \in Seq(S) : step[<<i, s>>] = s \o seqs[i]
  OBVIOUS
<1>5. PICK u \in [0..n -> Seq(S)] :
        u[0] = << >> /\ \A i \in 1..n : u[i] = step[<<i, u[i - 1]>>]
  <2>1. step \in Steps(n, Seq(S)) /\ n \in Nat
    BY <1>1, <1>3 DEF Steps
  <2> HIDE DEF n, step
  <2>2. \E u : Recurs(u, n, Seq(S), << >>, step)
    BY <1>2, <2>1, Recursion
  <2> QED
    BY <2>2 DEF Recurs
<1> DEFINE w == [i \in 1..n |-> u[i]]
<1>6. ASSUME NEW i \in 1..n
      PROVE  w[i] = IF i = 1 THEN seqs[i] ELSE w[i - 1] \o seqs[i]
  <2>1. i \in 0..n /\ i - 1 \in 0..n
    BY <1>1
  <2>0. u[i - 1] \in Seq(S)
    BY <1>5, <2>1
  <2>2. u[i] = u[i - 1] \o seqs[i]
    BY <1>4, <1>5, <2>0
  <2>3. CASE i = 1
    <3>1. u[i - 1] = << >> /\ seqs[i] \in Seq(S)
      BY <1>1, <1>5, <2>3
    <3>2. u[i] = seqs[i]
      BY <1>2, <2>2, <3>1
    <3> QED
      BY <2>3, <3>2
  <2>4. CASE i # 1
    <3>1. i - 1 \in 1..n
      BY <2>4
    <3> QED
      BY <2>2, <2>4, <3>1
  <2> QED
    BY <2>2, <2>3, <2>4
<1> HIDE DEF w
<1>7. Is(w)
  BY <1>6 DEF w
<1>8. PICK v : Is(v) /\ FlattenSeq(seqs) = v[n]
  <2>1. \E v : Is(v)
    BY <1>7
  <2>2. n # 0
    BY <1>1
  <2> QED
    BY <2>1, <2>2 DEF FlattenSeq
<1>9. ASSUME NEW i \in 1..n PROVE v[i] = IF i = 1 THEN seqs[i] ELSE v[i - 1] \o seqs[i]
  BY <1>8
<1>10. ASSUME NEW i \in 1..n PROVE v[i] \in Seq(S)
  <2> DEFINE P == {j \in Nat : j \in 1..n => v[j] \in Seq(S)}
  <2>1. 0 \in P
    OBVIOUS
  <2>2. ASSUME NEW j \in 1..n, j - 1 \in P PROVE j \in P
    <3>1. CASE j = 1
      BY <1>1, <1>9, <3>1
    <3>2. CASE j # 1
      <4>1. j - 1 \in 1..n
        BY <3>2
      <4>2. v[j - 1] \in Seq(S) /\ seqs[j] \in Seq(S)
        BY <1>1, <2>2, <4>1
      <4>3. v[j] = v[j - 1] \o seqs[j]
        BY <1>9, <3>2
      <4>4. v[j] \in Seq(S)
        BY <4>2, <4>3, ConcatProperties
      <4> QED
        BY <4>4
    <3> QED
      BY <3>1, <3>2
  <2>3. n \in Nat /\ i \in 0..n
    BY <1>1
  <2> HIDE DEF P, n
  <2>4. \A j \in 0..n : j \in P
    BY <2>1, <2>2, <2>3, UpTo
  <2> QED
    BY <2>3, <2>4 DEF P
<1> QED
  BY <1>8, <1>9, <1>10

\* Nothing flattens to nothing, and a last sequence comes last.
LEMMA FlattenEmpty == FlattenSeq(<< >>) = << >>
<1>1. Len(<< >>) = 0
  BY EmptySeq
<1> QED
  BY <1>1 DEF FlattenSeq

\* What flattens is a sequence of the same elements, and a sequence that is appended
\* comes last in it.
LEMMA FlattenAppend ==
  ASSUME NEW S, NEW seqs \in Seq(Seq(S)), NEW s \in Seq(S)
  PROVE  /\ FlattenSeq(seqs) \in Seq(S)
         /\ FlattenSeq(Append(seqs, s)) = FlattenSeq(seqs) \o s
<1> DEFINE more == Append(seqs, s)
           n == Len(seqs)
<1>1. /\ more \in Seq(Seq(S)) /\ more # << >> /\ Len(more) = n + 1
      /\ (\A i \in 1..n : more[i] = seqs[i]) /\ more[n + 1] = s
  BY AppendProperties
<1>2. n \in Nat
  BY LenProperties
<1> HIDE DEF more, n
<1>3. PICK v : /\ \A i \in 1..(n + 1) :
                     v[i] \in Seq(S) /\ v[i] = IF i = 1 THEN more[i] ELSE v[i - 1] \o more[i]
               /\ FlattenSeq(more) = v[n + 1]
  <2>1. \E v : /\ \A i \in 1..Len(more) :
                     v[i] \in Seq(S) /\ v[i] = IF i = 1 THEN more[i] ELSE v[i - 1] \o more[i]
               /\ FlattenSeq(more) = v[Len(more)]
    BY <1>1, FlattenUnfolds
  <2> QED
    BY <1>1, <2>1
<1>4. CASE seqs = << >>
  <2>1. n = 0 /\ FlattenSeq(seqs) = << >>
    BY <1>4, FlattenEmpty, EmptySeq DEF n
  <2>2. FlattenSeq(more) = s
    BY <1>1, <1>3, <2>1
  <2> QED
    BY <2>1, <2>2, EmptySeq, ConcatEmptySeq DEF more
<1>5. CASE seqs # << >>
  <2>1. PICK u : /\ \A i \in 1..n :
                       u[i] \in Seq(S) /\ u[i] = IF i = 1 THEN seqs[i] ELSE u[i - 1] \o seqs[i]
                 /\ FlattenSeq(seqs) = u[n]
    BY <1>5, FlattenUnfolds DEF n
  <2>2. n # 0
    BY <1>5, EmptySeq DEF n
  <2> DEFINE P == {i \in Nat : i \in 1..n => u[i] = v[i]}
  <2>3. 0 \in P
    OBVIOUS
  <2>4. ASSUME NEW i \in 1..n, i - 1 \in P PROVE i \in P
    <3>1. i \in 1..(n + 1) /\ more[i] = seqs[i]
      BY <1>1, <1>2
    <3>2. CASE i = 1
      BY <1>3, <2>1, <3>1, <3>2
    <3>3. CASE i # 1
      <4>1. i - 1 \in 1..n
        BY <1>2, <3>3
      <4>2. u[i - 1] = v[i - 1]
        BY <2>4, <4>1
      <4>3. u[i] = u[i - 1] \o seqs[i] /\ v[i] = v[i - 1] \o seqs[i]
        BY <1>3, <2>1, <3>1, <3>3
      <4>4. u[i] = v[i]
        BY <4>2, <4>3
      <4> QED
        BY <4>4
    <3> QED
      BY <3>2, <3>3
  <2> HIDE DEF P
  <2>5. \A i \in 0..n : i \in P
    BY <1>2, <2>3, <2>4, UpTo
  <2>6. u[n] = v[n]
    BY <1>2, <2>2, <2>5 DEF P
  <2>7. v[n + 1] = v[n] \o s
    <3>1. n + 1 \in 1..(n + 1) /\ n + 1 # 1 /\ (n + 1) - 1 = n
      BY <1>2, <2>2
    <3> QED
      BY <1>1, <1>3, <3>1
  <2>8. u[n] \in Seq(S)
    BY <1>2, <2>1, <2>2
  <2> QED
    BY <1>3, <2>1, <2>6, <2>7, <2>8 DEF more
<1> QED
  BY <1>4, <1>5

-------------------------------------------------------------------------------
(* ParseOutput *)

\* What has been parsed at any place: whole lines and a piece.
Parsed == [lines : Seq(Seq(Bytes)), piece : Seq(Bytes)]
Nothing == [lines |-> << >>, piece |-> << >>]

\* A byte more leaves whole lines and a piece.
LEMMA ParseByteType ==
  ASSUME NEW parsed \in Parsed, NEW byte \in Bytes
  PROVE  ParseByte(parsed, byte) \in Parsed
<1>1. parsed.lines \in Seq(Seq(Bytes)) /\ parsed.piece \in Seq(Bytes)
  BY DEF Parsed
<1>2. << >> \in Seq(Bytes)
  BY EmptySeq
<1>3. Append(parsed.lines, parsed.piece) \in Seq(Seq(Bytes))
  BY <1>1, AppendProperties
<1>4. Append(parsed.piece, byte) \in Seq(Bytes)
  BY <1>1, AppendProperties
<1> QED
  BY <1>2, <1>3, <1>4 DEF ParseByte, Parsed

\* Pieces goes from one byte to the next.
LEMMA PiecesUnfold ==
  ASSUME NEW bytes \in Seq(Bytes)
  PROVE  \E u : /\ u[0] = Nothing
                /\ \A i \in 1..Len(bytes) : u[i] = ParseByte(u[i - 1], bytes[i])
                /\ Pieces(bytes) = u[Len(bytes)]
<1> DEFINE n == Len(bytes)
           Is(v) == v = [i \in 0..Len(bytes) |->
                           IF i = 0 THEN [lines |-> << >>, piece |-> << >>]
                           ELSE ParseByte(v[i - 1], bytes[i])]
           step == [p \in (1..n) \X Parsed |-> ParseByte(p[2], bytes[p[1]])]
<1>1. n \in Nat /\ \A i \in 1..n : bytes[i] \in Bytes
  BY LenProperties
<1>2. Nothing \in Parsed
  BY EmptySeq DEF Nothing, Parsed
<1>3. step \in Steps(n, Parsed)
  BY <1>1, ParseByteType DEF Steps
<1>4. \A i \in 1..n, p \in Parsed : step[<<i, p>>] = ParseByte(p, bytes[i])
  OBVIOUS
<1>5. PICK u : Recurs(u, n, Parsed, Nothing, step)
  <2> HIDE DEF n, step
  <2> QED
    BY <1>1, <1>2, <1>3, Recursion
<1>6. u \in [0..n -> Parsed] /\ u[0] = Nothing
  BY <1>5 DEF Recurs
<1>7. ASSUME NEW i \in 1..n PROVE u[i] = ParseByte(u[i - 1], bytes[i])
  <2>1. i - 1 \in 0..n
    BY <1>1
  <2>2. u[i - 1] \in Parsed
    BY <1>6, <2>1
  <2>3. u[i] = step[<<i, u[i - 1]>>]
    BY <1>5 DEF Recurs
  <2> QED
    BY <1>4, <2>2, <2>3
<1>8. Is(u)
  <2>1. u = [i \in 0..n |-> u[i]]
    BY <1>6
  <2>2. ASSUME NEW i \in 0..n
        PROVE  u[i] = IF i = 0 THEN [lines |-> << >>, piece |-> << >>]
                      ELSE ParseByte(u[i - 1], bytes[i])
    <3>1. i # 0 => i \in 1..n
      BY <1>1
    <3> QED
      BY <1>6, <1>7, <3>1 DEF Nothing
  <2> HIDE DEF n
  <2>3. u = [i \in 0..n |-> IF i = 0 THEN [lines |-> << >>, piece |-> << >>]
                            ELSE ParseByte(u[i - 1], bytes[i])]
    BY <2>1, <2>2
  <2> QED
    BY <2>3 DEF n
<1>9. PICK v : Is(v) /\ Pieces(bytes) = v[n]
  <2>1. \E v : Is(v)
    BY <1>8
  <2> QED
    BY <2>1 DEF Pieces
<1>10. ASSUME NEW i \in 0..n
       PROVE  v[i] = IF i = 0 THEN [lines |-> << >>, piece |-> << >>]
                     ELSE ParseByte(v[i - 1], bytes[i])
  BY <1>9
<1>11. v[0] = Nothing
  BY <1>1, <1>10 DEF Nothing
<1>12. ASSUME NEW i \in 1..n PROVE v[i] = ParseByte(v[i - 1], bytes[i])
  <2>1. i \in 0..n /\ i # 0
    BY <1>1
  <2> QED
    BY <1>10, <2>1
<1> QED
  BY <1>9, <1>11, <1>12

\* Joined takes the lines one by one.
LEMMA JoinedEmpty == Joined(<< >>) = << >>
<1>1. Len(<< >>) = 0 /\ \A n \in 1..0 : FALSE
  BY EmptySeq
<1>2. [n \in 1..Len(<< >>) |-> Append(<< >>[n], "lf")] = << >>
  BY <1>1
<1> QED
  BY <1>2, FlattenEmpty DEF Joined

\* Lines that are joined are bytes, and a line that is appended ends them.
LEMMA JoinedAppend ==
  ASSUME NEW lines \in Seq(Seq(Bytes)), NEW last \in Seq(Bytes)
  PROVE  /\ Joined(lines) \in Seq(Bytes)
         /\ Joined(Append(lines, last)) = Joined(lines) \o Append(last, "lf")
<1> DEFINE Ended(ls) == [n \in 1..Len(ls) |-> Append(ls[n], "lf")]
           more == Append(lines, last)
<1>1. "lf" \in Bytes
  BY DEF Bytes
<1>2. /\ more \in Seq(Seq(Bytes)) /\ Len(more) = Len(lines) + 1
      /\ \A n \in 1..Len(lines) : more[n] = lines[n]
      /\ more[Len(lines) + 1] = last
  BY AppendProperties
<1>3. Len(lines) \in Nat /\ \A n \in 1..Len(lines) : lines[n] \in Seq(Bytes)
  BY LenProperties
<1>4. \A l \in Seq(Bytes) : Append(l, "lf") \in Seq(Bytes)
  BY <1>1, AppendProperties
<1>5. Ended(lines) \in Seq(Seq(Bytes)) /\ Len(Ended(lines)) = Len(lines)
  BY <1>3, <1>4
<1>6. Append(Ended(lines), Append(last, "lf")) = Ended(more)
  <2> DEFINE l == Append(last, "lf")
             e == Ended(lines)
             r == Append(e, l)
  <2>1. l \in Seq(Bytes)
    BY <1>4
  <2> HIDE DEF l
  <2>2. /\ r \in Seq(Seq(Bytes)) /\ Len(r) = Len(lines) + 1
        /\ (\A n \in 1..Len(lines) : r[n] = e[n]) /\ r[Len(lines) + 1] = l
    <3>1. e \in Seq(Seq(Bytes)) /\ Len(e) = Len(lines)
      BY <1>5
    <3> HIDE DEF e
    <3> QED
      BY <2>1, <3>1, AppendProperties
  <2>3. DOMAIN r = 1..(Len(lines) + 1) /\ r = [n \in 1..(Len(lines) + 1) |-> r[n]]
    <3> HIDE DEF r
    <3> QED
      BY <2>2, LenProperties
  <2> HIDE DEF r
  <2>4. ASSUME NEW n \in 1..(Len(lines) + 1) PROVE r[n] = Append(more[n], "lf")
    <3>1. CASE n = Len(lines) + 1
      BY <1>2, <2>2, <3>1 DEF l
    <3>2. CASE n # Len(lines) + 1
      <4>1. n \in 1..Len(lines)
        BY <1>3, <3>2
      <4>2. r[n] = Append(lines[n], "lf")
        BY <2>2, <4>1
      <4> QED
        BY <1>2, <4>1, <4>2
    <3> QED
      BY <3>1, <3>2
  <2> HIDE DEF more
  <2>5. r = [n \in 1..(Len(lines) + 1) |-> Append(more[n], "lf")]
    BY <2>3, <2>4
  <2>6. r = Ended(more)
    BY <1>2, <2>5
  <2> QED
    BY <2>6 DEF r, l
<1> HIDE DEF Ended, more
<1>7. Joined(lines) = FlattenSeq(Ended(lines)) /\ Joined(more) = FlattenSeq(Ended(more))
  BY DEF Joined, Ended
<1> QED
  BY <1>4, <1>5, <1>6, <1>7, FlattenAppend DEF more

\* No byte of these is a line feed.
Plain(bytes) == ~Contains(bytes, "lf")

\* After the first bytes of some, what has been parsed is these bytes taken apart.
ParsedUpTo(bytes, i, parsed) ==
  /\ parsed \in Parsed
  /\ Joined(parsed.lines) \o parsed.piece = SubSeq(bytes, 1, i)
  /\ \A n \in 1..Len(parsed.lines) : Plain(parsed.lines[n])
  /\ Plain(parsed.piece)
  /\ parsed.piece = << >> <=> (i = 0 \/ bytes[i] = "lf")

\* A further byte keeps that so.
LEMMA ParsedFurther ==
  ASSUME NEW bytes \in Seq(Bytes), NEW i \in 1..Len(bytes), NEW parsed,
         ParsedUpTo(bytes, i - 1, parsed)
  PROVE  ParsedUpTo(bytes, i, ParseByte(parsed, bytes[i]))
<1> DEFINE byte == bytes[i]
           lines == parsed.lines
           piece == parsed.piece
           next == ParseByte(parsed, byte)
<1>1. byte \in Bytes /\ i \in Nat /\ i # 0
  BY LenProperties
<1>2. parsed \in Parsed /\ lines \in Seq(Seq(Bytes)) /\ piece \in Seq(Bytes)
  BY DEF ParsedUpTo, Parsed
<1>3. next \in Parsed
  BY <1>1, <1>2, ParseByteType
<1>4. Joined(lines) \in Seq(Bytes)
  BY <1>2, JoinedAppend
<1>5. SubSeq(bytes, 1, i) = Joined(lines) \o Append(piece, byte)
  <2>1. SubSeq(bytes, 1, i) = SubSeq(bytes, 1, i - 1) \o <<byte>>
    <3>1. 1 \in 1..Len(bytes) /\ i \in 1..Len(bytes)
      BY <1>1, LenProperties
    <3> QED
      BY <3>1, SubSeqRecursiveSecond
  <2>2. SubSeq(bytes, 1, i - 1) = Joined(lines) \o piece
    BY DEF ParsedUpTo
  <2>3. <<byte>> \in Seq(Bytes) /\ piece \o <<byte>> = Append(piece, byte)
    BY <1>1, <1>2, AppendIsConcat
  <2>4. (Joined(lines) \o piece) \o <<byte>> = Joined(lines) \o (piece \o <<byte>>)
    BY <1>2, <1>4, <2>3, BytesAssociative
  <2> QED
    BY <2>1, <2>2, <2>3, <2>4
<1>6. /\ Append(piece, byte) \in Seq(Bytes) /\ Len(Append(piece, byte)) = Len(piece) + 1
      /\ Append(piece, byte) # << >> /\ Append(piece, byte)[Len(piece) + 1] = byte
      /\ \A n \in 1..Len(piece) : Append(piece, byte)[n] = piece[n]
      /\ Len(piece) \in Nat
  <2> HIDE DEF piece, byte
  <2> QED
    BY <1>1, <1>2, AppendProperties, LenProperties
<1>7. (\A n \in 1..Len(lines) : Plain(lines[n])) /\ Plain(piece)
  BY DEF ParsedUpTo
<1>8. CASE byte = "lf"
  <2>1. next.lines = Append(lines, piece) /\ next.piece = << >>
    BY <1>8 DEF ParseByte
  <2>2. Joined(next.lines) \o << >> = SubSeq(bytes, 1, i)
    <3>1. Joined(next.lines) = Joined(lines) \o Append(piece, byte)
      BY <1>2, <1>8, <2>1, JoinedAppend
    <3>2. Joined(next.lines) \in Seq(Bytes)
      BY <1>4, <1>6, <3>1, ConcatProperties
    <3> QED
      BY <1>5, <3>1, <3>2, ConcatEmptySeq
  <2>3. ASSUME NEW n \in 1..Len(next.lines) PROVE Plain(next.lines[n])
    <3>1. /\ Len(next.lines) = Len(lines) + 1 /\ next.lines[Len(lines) + 1] = piece
          /\ (\A m \in 1..Len(lines) : next.lines[m] = lines[m]) /\ Len(lines) \in Nat
      BY <1>2, <2>1, AppendProperties, LenProperties
    <3>2. n \in 1..Len(lines) \/ n = Len(lines) + 1
      BY <3>1
    <3> QED
      BY <1>7, <3>1, <3>2
  <2>4. Plain(<< >>)
    <3>1. Len(<< >>) = 0 /\ \A n \in 1..0 : FALSE
      BY EmptySeq
    <3> QED
      BY <3>1 DEF Plain, Contains
  <2> HIDE DEF next
  <2>5. ParsedUpTo(bytes, i, next)
    BY <1>3, <1>8, <2>1, <2>2, <2>3, <2>4 DEF ParsedUpTo
  <2> QED
    BY <2>5 DEF next
<1>9. CASE byte # "lf"
  <2>1. next.lines = lines /\ next.piece = Append(piece, byte)
    BY <1>2, <1>9 DEF ParseByte, Parsed
  <2>2. Plain(next.piece)
    <3>1. \A n \in 1..(Len(piece) + 1) : n \in 1..Len(piece) \/ n = Len(piece) + 1
      BY <1>6
    <3> QED
      BY <1>6, <1>7, <1>9, <2>1, <3>1 DEF Plain, Contains
  <2>3. next.piece # << >>
    BY <1>6, <2>1
  <2>4. Joined(next.lines) \o next.piece = SubSeq(bytes, 1, i)
    BY <1>5, <2>1
  <2>5. \A n \in 1..Len(next.lines) : Plain(next.lines[n])
    BY <1>7, <2>1
  <2> HIDE DEF next
  <2>6. ParsedUpTo(bytes, i, next)
    BY <1>1, <1>3, <1>9, <2>2, <2>3, <2>4, <2>5 DEF ParsedUpTo
  <2> QED
    BY <2>6 DEF next
<1> QED
  BY <1>8, <1>9

\* ParseOutput() loses no byte of any output and makes none up.
THEOREM ParseOutputCorrect ==
  ASSUME NEW bytes \in Seq(Bytes)
  PROVE  LET lines == ParseOutput(bytes)
         IN  /\ \A n \in DOMAIN lines : ~Contains(lines[n], "lf")
             /\ Joined(lines) = IF bytes = << >> \/ Last(bytes) = "lf" THEN bytes
                                ELSE Append(bytes, "lf")
<1>1. PICK u : /\ u[0] = Nothing
               /\ \A i \in 1..Len(bytes) : u[i] = ParseByte(u[i - 1], bytes[i])
               /\ Pieces(bytes) = u[Len(bytes)]
  BY PiecesUnfold
<1>2. Len(bytes) \in Nat /\ "lf" \in Bytes /\ << >> \in Seq(Bytes)
  BY LenProperties, EmptySeq DEF Bytes
<1> DEFINE P == {i \in Nat : ParsedUpTo(bytes, i, u[i])}
<1>3. 0 \in P
  <2>1. /\ u[0] \in Parsed /\ u[0].lines = << >> /\ u[0].piece = << >>
    BY <1>1, EmptySeq DEF Nothing, Parsed
  <2>2. Len(<< >>) = 0 /\ \A n \in 1..0 : FALSE
    BY EmptySeq
  <2>3. SubSeq(bytes, 1, 0) = << >>
    BY SubSeqEmpty
  <2>4. Joined(u[0].lines) \o u[0].piece = SubSeq(bytes, 1, 0)
    BY <1>2, <2>1, <2>3, JoinedEmpty, ConcatEmptySeq
  <2>5. Plain(u[0].piece) /\ \A n \in 1..Len(u[0].lines) : Plain(u[0].lines[n])
    BY <2>1, <2>2 DEF Plain, Contains
  <2>6. ParsedUpTo(bytes, 0, u[0])
    BY <2>1, <2>4, <2>5 DEF ParsedUpTo
  <2> QED
    BY <2>6
<1>4. ASSUME NEW i \in 1..Len(bytes), i - 1 \in P PROVE i \in P
  <2>1. ParsedUpTo(bytes, i - 1, u[i - 1])
    BY <1>4
  <2>2. ParsedUpTo(bytes, i, u[i])
    BY <1>1, <2>1, ParsedFurther
  <2> QED
    BY <2>2
<1> HIDE DEF P
<1>5. \A i \in 0..Len(bytes) : i \in P
  BY <1>2, <1>3, <1>4, UpTo
<1> DEFINE parsed == Pieces(bytes)
           lines == parsed.lines
           piece == parsed.piece
           parse == ParseOutput(bytes)
<1>6. ParsedUpTo(bytes, Len(bytes), parsed)
  BY <1>1, <1>2, <1>5 DEF P
<1> HIDE DEF parsed
<1>7. /\ lines \in Seq(Seq(Bytes)) /\ piece \in Seq(Bytes)
      /\ Joined(lines) \o piece = bytes
      /\ (\A n \in 1..Len(lines) : Plain(lines[n])) /\ Plain(piece)
      /\ piece = << >> <=> (Len(bytes) = 0 \/ bytes[Len(bytes)] = "lf")
  BY <1>6, SubSeqFull DEF ParsedUpTo, Parsed
<1>8. Len(bytes) = 0 <=> bytes = << >>
  BY EmptySeq
<1>9. parse = IF piece = << >> THEN lines ELSE Append(lines, piece)
  BY DEF ParseOutput, parsed
<1>10. Last(bytes) = bytes[Len(bytes)]
  BY DEF Last
<1>11. Joined(lines) \in Seq(Bytes) /\ Len(lines) \in Nat
  BY <1>7, JoinedAppend, LenProperties
<1> HIDE DEF lines, piece, parse
<1>12. CASE piece = << >>
  <2>1. Joined(parse) = bytes
    BY <1>7, <1>9, <1>11, <1>12, ConcatEmptySeq
  <2>2. \A n \in DOMAIN parse : ~Contains(parse[n], "lf")
    BY <1>7, <1>9, <1>12, LenProperties DEF Plain
  <2> QED
    BY <1>7, <1>8, <1>10, <1>12, <2>1, <2>2 DEF parse
<1>13. CASE piece # << >>
  <2>1. Joined(parse) = Joined(lines) \o Append(piece, "lf")
    BY <1>7, <1>9, <1>13, JoinedAppend
  <2>2. Append(piece, "lf") = piece \o <<"lf">> /\ Append(bytes, "lf") = bytes \o <<"lf">>
    BY <1>2, <1>7, AppendIsConcat
  <2>3. <<"lf">> \in Seq(Bytes)
    BY <1>2
  <2>4. (Joined(lines) \o piece) \o <<"lf">> = Joined(lines) \o (piece \o <<"lf">>)
    BY <1>7, <1>11, <2>3, BytesAssociative
  <2>5. Joined(parse) = Append(bytes, "lf")
    BY <1>7, <2>1, <2>2, <2>4
  <2>6. ASSUME NEW n \in DOMAIN parse PROVE ~Contains(parse[n], "lf")
    <3>1. /\ parse \in Seq(Seq(Bytes)) /\ Len(parse) = Len(lines) + 1
          /\ parse[Len(lines) + 1] = piece
          /\ \A m \in 1..Len(lines) : parse[m] = lines[m]
      BY <1>7, <1>9, <1>13, AppendProperties
    <3>2. DOMAIN parse = 1..(Len(lines) + 1)
      BY <3>1, LenProperties
    <3>3. n \in 1..Len(lines) \/ n = Len(lines) + 1
      BY <1>11, <3>2
    <3> QED
      BY <1>7, <3>1, <3>3 DEF Plain
  <2> QED
    BY <1>7, <1>8, <1>10, <1>13, <2>5, <2>6 DEF parse
<1> QED
  BY <1>12, <1>13

-------------------------------------------------------------------------------
(* The string *)

\* Whatever is read, some bytes of it are appended.
LEMMA AppendedType ==
  ASSUME NEW bytes \in Seq(Bytes)
  PROVE  Appended(bytes) \in Seq(Bytes)
<1>1. CASE ~Contains(bytes, "nul")
  BY <1>1 DEF Appended
<1>2. CASE Contains(bytes, "nul")
  <2> DEFINE I == {i \in 1..Len(bytes) : bytes[i] = "nul"}
  <2>1. Len(bytes) \in Nat /\ \A i \in 1..Len(bytes) : bytes[i] \in Bytes
    BY LenProperties
  <2>2. I # {} /\ I \subseteq Nat
    BY <1>2, <2>1 DEF Contains
  <2>3. Min(I) \in I
    <3> HIDE DEF I
    <3>1. \E k \in I : \A j \in I : k <= j
      BY <2>2, Smallest
    <3> QED
      BY <3>1 DEF Min
  <2>4. UpToNul(bytes) = Min(I) - 1
    BY <2>2 DEF UpToNul, SelectInSeq
  <2>5. UpToNul(bytes) \in Int /\ UpToNul(bytes) <= Len(bytes)
    BY <2>1, <2>3, <2>4
  <2>6. SubSeq(bytes, 1, UpToNul(bytes)) \in Seq(Bytes)
    BY <2>1, <2>5, SubSeqProperties
  <2> QED
    BY <1>2, <2>6 DEF Appended
<1> QED
  BY <1>1, <1>2

-------------------------------------------------------------------------------
(* What is captured *)

\* ContentInv holds before the first call.
LEMMA InitContentInv == Init => ContentInv
  BY EmptySeq DEF Init, ContentInv, NoCall, CaptureIsComplete, Succeeded

\* Each step keeps ContentInv.
LEMMA StepContentInv == CallInv /\ ContentInv /\ [Next]_vars => ContentInv'
<1> SUFFICES ASSUME CallInv, ContentInv, [Next]_vars PROVE ContentInv'
  OBVIOUS
<1> USE DEF ContentInv, CaptureIsComplete, Succeeded, Captures
<1>a. << >> \in Seq(Bytes)
  BY EmptySeq
<1>t. call \in [name : {"none", "ExecuteCommand", "ExecuteCommandCaptureOutput"},
                at : CallPc, ret : {"failure", "success"}, exitCode : Status]
  BY DEF CallInv, CallTypeOK
<1>f. call.at # "returned" => call.ret = "failure"
  BY <1>t DEF CallInv, PlaceInv
<1>1. ASSUME NEW name \in {"ExecuteCommand", "ExecuteCommandCaptureOutput"},
             Begin(name)
      PROVE  ContentInv'
  <2>1. /\ call'.at \in {"setup", "spawn"} /\ sent' = << >> /\ pipe' = pipe /\ output' = output
    BY <1>1 DEF Begin, NoCall
  <2>2. pipe = << >>
    BY <1>1 DEF Begin
  <2> QED
    BY <1>a, <2>1, <2>2
<1>2. CASE Refuse
  BY <1>2, <1>a, <1>f, <1>t DEF Refuse, Return
<1>3. CASE SetUp
  BY <1>3, <1>a, <1>f, <1>t DEF SetUp, Return
<1>4. CASE Spawn
  BY <1>4, <1>a, <1>f, <1>t DEF Spawn, Return
<1>5. CASE Wait
  BY <1>5, <1>a, <1>f, <1>t, ConcatEmptySeq DEF Wait, Return, Reaped
<1>6. CASE Read
  <2>1. CASE pipe # << >>
    <3> DEFINE n == IF Len(pipe) < ReadSize THEN Len(pipe) ELSE ReadSize
               chunk == SubSeq(pipe, 1, n)
               left == SubSeq(pipe, n + 1, Len(pipe))
    <3>1. /\ output' = output \o Appended(chunk) /\ pipe' = left
          /\ call' = call /\ sent' = sent /\ call.at = "read"
      BY <1>6, <2>1 DEF Read
    <3>2. n \in 1..Len(pipe)
      BY <2>1, EmptySeq, LenProperties, CommandAssumption
    <3> HIDE DEF n
    <3>3. chunk \in Seq(Bytes) /\ left \in Seq(Bytes) /\ chunk \o left = pipe
      BY <3>2, PipeSplit
    <3> HIDE DEF chunk, left
    <3>4. ASSUME ~Contains(sent, "nul")
          PROVE  output' \o pipe' = sent
      <4>1. output \in Seq(Bytes) /\ output \o pipe = sent
        BY <3>1, <3>4
      <4>2. ~Contains(pipe, "nul")
        BY <3>4, <4>1, NoNulInParts
      <4>3. Appended(chunk) = chunk
        BY <3>3, <4>2, NoNulInParts, AppendedPlain
      <4>4. (output \o chunk) \o left = output \o (chunk \o left)
        <5>1. /\ output \in Seq(Bytes) /\ chunk \in Seq(Bytes)
              /\ left \in Seq(Bytes)
          BY <3>3, <4>1
        <5> QED
          BY <5>1, BytesAssociative
      <4>5. output \o chunk \in Seq(Bytes)
        BY <3>3, <4>1, ConcatProperties
      <4> QED
        BY <3>1, <3>3, <4>1, <4>3, <4>4, <4>5
    <3>5. output' \in Seq(Bytes)
      BY <3>1, <3>3, AppendedType, ConcatProperties
    <3> QED
      BY <3>1, <3>3, <3>4, <3>5
  <2>2. CASE pipe = << >>
    BY <1>6, <2>2, <1>a, <1>t, ConcatEmptySeq DEF Read, Return
  <2> QED
    BY <2>1, <2>2
<1>7. CASE ChildWrites
  <2>1. call.at = "wait"
    BY <1>7, <1>t DEF ChildWrites, CallInv, PlaceInv, CallPc
  <2>2. child.rest \in Seq(Bytes) /\ child.rest # << >>
    BY <1>7 DEF ChildWrites, CallInv, CallTypeOK
  <2>3. Head(child.rest) \in Bytes
    BY <2>2, HeadTailProperties
  <2>4. Append(pipe, Head(child.rest)) \in Seq(Bytes)
    BY <2>3, AppendProperties
  <2> QED
    BY <1>7, <2>1, <2>4 DEF ChildWrites
<1>8. CASE ChildExits
  BY <1>8 DEF ChildExits
<1>9. CASE ChildIsKilled
  BY <1>9 DEF ChildIsKilled
<1>10. CASE UNCHANGED vars
  BY <1>10 DEF vars
<1> QED
  BY <1>1, <1>2, <1>3, <1>4, <1>5, <1>6, <1>7, <1>8, <1>9, <1>10
     DEF Next, CallStep, ChildStep

\* What is in the pipe and in the string is always what the child has written so far.
THEOREM ContentCorrect == Spec => []ContentInv
  BY InitContentInv, StepContentInv, CallCorrect, PTL DEF Spec

\* A successful call has captured what its command wrote, all of it and nothing
\* else, whatever the sizes of the pipe and of the reads.
THEOREM CapturesEverything == Spec => []CaptureIsComplete
<1>1. ContentInv => CaptureIsComplete
  BY DEF ContentInv
<1> QED
  BY <1>1, ContentCorrect, PTL

\* The lines that are made of an output are the output, whatever a command wrote:
\* none is lost, none is made up, and none is two.
THEOREM LinesAreTheOutput == Spec => []LinesAreOutput
<1>1. ContentInv => LinesAreOutput
  BY ParseOutputCorrect DEF ContentInv, LinesAreOutput
<1> QED
  BY <1>1, ContentCorrect, PTL
===============================================================================
