------------------------ MODULE BoundedProcessProofs ------------------------
(***************************************************************************)
(* What BoundedProcess guarantees for every limit, size of a read, size of *)
(* a pipe and plan of the command.                                         *)
(***************************************************************************)
EXTENDS BoundedProcess, TLAPS

(* A command writes only to a pipe somebody holds.                         *)
LEMMA WriteKeeps ==
  ASSUME IInv, NEW p \in Pipes, Write(p)
  PROVE  IInv'
  BY ProcessAssumption
  DEF Write, IInv, TypeOK, CaptureIsBounded, TimeoutsHaveCause, ChildIsReaped,
      Returned, TotalBytes, Available, command, clock, Pipes, Timers

(* Its end gives up its pipes.                                             *)
LEMMA ExitsKeeps ==
  ASSUME IInv, Exits
  PROVE  IInv'
  BY ProcessAssumption
  DEF Exits, IInv, TypeOK, CaptureIsBounded, TimeoutsHaveCause, ChildIsReaped,
      Returned, TotalBytes, Available, command, clock, Pipes, Timers

(* So does closing one.                                                    *)
LEMMA ClosesKeeps ==
  ASSUME IInv, NEW p \in Pipes, Closes(p)
  PROVE  IInv'
  BY ProcessAssumption
  DEF Closes, IInv, TypeOK, CaptureIsBounded, TimeoutsHaveCause, ChildIsReaped,
      Returned, TotalBytes, Available, command, clock, Pipes, Timers

(* Time only adds causes.                                                  *)
LEMMA ExpiresKeeps ==
  ASSUME IInv, Expires
  PROVE  IInv'
  BY ProcessAssumption
  DEF Expires, IInv, TypeOK, CaptureIsBounded, TimeoutsHaveCause, ChildIsReaped,
      Returned, TotalBytes, Available, command, clock, Pipes, Timers

(* The head of the loop leaves it only with a cause.                       *)
LEMMA LoopKeeps ==
  ASSUME IInv, Loop
  PROVE  IInv'
  BY ProcessAssumption
  DEF Loop, Raise, IInv, TypeOK, CaptureIsBounded, TimeoutsHaveCause, ChildIsReaped,
      Returned, TotalBytes, Available, command, clock, Pipes, Timers

(* A select moves nothing.                                                 *)
LEMMA SelectKeeps ==
  ASSUME IInv, Select
  PROVE  IInv'
  BY ProcessAssumption
  DEF Select, Ready, IInv, TypeOK, CaptureIsBounded, TimeoutsHaveCause, ChildIsReaped,
      Returned, TotalBytes, Available, command, clock, Pipes, Timers

(* What a read returns: nothing only from an empty pipe, and too much only *)
(* when the pipes carried more than the limit.                             *)
LEMMA ChunkBounds ==
  ASSUME IInv, NEW p \in Pipes
  PROVE  /\ Chunk(p) \in Nat /\ Chunk(p) <= Available(p)
         /\ Chunk(p) = 0 => captured[p] = written[p]
         /\ TotalBytes + Chunk(p) <= written["stdout"] + written["stderr"]
<1>1. /\ \A q \in Pipes : captured[q] \in Nat /\ written[q] \in Nat /\ captured[q] <= written[q]
      /\ TotalBytes <= OutputMax /\ TotalBytes \in Nat
  BY DEF IInv, TypeOK, CaptureIsBounded, TotalBytes, Pipes
<1>2. Chunk(p) \in Nat /\ Chunk(p) <= Available(p) /\ (Chunk(p) = 0 => captured[p] = written[p])
  BY <1>1, ProcessAssumption DEF Chunk, Min2, Available
<1>3. QED
  BY <1>1, <1>2 DEF Available, TotalBytes, Pipes

(* A read keeps what it takes, gives up a pipe only when it is empty for   *)
(* ever, and gives up the call only above the limit.                       *)
LEMMA ReadKeeps ==
  ASSUME IInv, NEW p \in Pipes, Read(p)
  PROVE  IInv'
<1> DEFINE chunk == Chunk(p)
           over == TotalBytes + chunk > OutputMax
<1>1. /\ chunk \in Nat /\ chunk <= Available(p)
      /\ chunk = 0 => captured[p] = written[p]
      /\ TotalBytes + chunk <= written["stdout"] + written["stderr"]
  BY ChunkBounds
<1>2. Handle(p, chunk, over)
  BY DEF Read
<1> HIDE DEF chunk
<1>3. TotalBytes \in Nat /\ OutputMax \in Nat
  BY ProcessAssumption DEF IInv, TypeOK, TotalBytes, Pipes
<1>4. CASE over
  <2>1. /\ exceeded' = TRUE /\ pending' = {} /\ pc' = "await" /\ pc = "events" /\ Kill
        /\ UNCHANGED <<registered, captured, plan, written, timers, expired, raised>>
    BY <1>2, <1>4 DEF Handle, clock
  <2>2. written["stdout"] + written["stderr"] > OutputMax
    BY <1>1, <1>3, <1>4 DEF IInv, TypeOK, Pipes
  <2>3. /\ \A q \in Pipes : holders'[q] \in SUBSET holders[q]
        /\ holders' \in [Pipes -> SUBSET {"child", "descendant"}]
        /\ child' \in {"killed", child} /\ status' \in {"nonzero", status}
    BY <2>1 DEF Kill, IInv, TypeOK
  <2>4. TypeOK'
    BY <2>1, <2>3 DEF IInv, TypeOK
  <2>5. QED
    BY <2>1, <2>2, <2>3, <2>4 DEF IInv, CaptureIsBounded, TimeoutsHaveCause, ChildIsReaped,
       Returned, TotalBytes
<1>5. CASE ~over
  <2>1. /\ captured' = [captured EXCEPT ![p] = @ + chunk]
        /\ registered' = IF chunk = 0 THEN registered \ {p} ELSE registered
        /\ pending' = pending \ {p} /\ p \in pending
        /\ pc = "events" /\ pc' = IF pending' = {} THEN "loop" ELSE "events"
        /\ UNCHANGED <<child, status, holders, exceeded, plan, written, timers, expired, raised>>
    BY <1>2, <1>5 DEF Handle, clock
  <2>2. TypeOK'
    BY <1>1, <2>1 DEF IInv, TypeOK
  <2>3. TotalBytes' = TotalBytes + chunk
    BY <1>1, <2>1 DEF IInv, TypeOK, TotalBytes, Pipes
  <2>4. CaptureIsBounded' /\ TimeoutsHaveCause' /\ ChildIsReaped'
    BY <1>3, <1>5, <2>1, <2>3 DEF IInv, CaptureIsBounded, TimeoutsHaveCause, ChildIsReaped, Returned
  <2>5. \A q \in Pipes : captured'[q] <= written'[q]
    BY <1>1, <2>1 DEF IInv, TypeOK, Available
  <2>6. \A q \in Pipes \ registered' : holders'[q] = {} /\ captured'[q] = written'[q]
    <3>1. CASE chunk = 0
      BY <1>1, <2>1, <3>1 DEF IInv, TypeOK, Available
    <3>2. CASE chunk # 0
      BY <1>1, <2>1, <3>2 DEF IInv, TypeOK
    <3>3. QED
      BY <3>1, <3>2
  <2>7. \A q \in pending' : Available(q)' > 0 \/ holders'[q] = {}
    BY <1>1, <2>1 DEF IInv, TypeOK, Available
  <2>8. QED
    BY <1>1, <2>1, <2>2, <2>4, <2>5, <2>6, <2>7 DEF IInv
<1>6. QED
  BY <1>4, <1>5

(* A wait that is given up has a cause.                                    *)
LEMMA AwaitKeeps ==
  ASSUME IInv, Await
  PROVE  IInv'
  BY ProcessAssumption
  DEF Await, Raise, WaitRaises, WaitTimers, IInv, TypeOK, CaptureIsBounded,
      TimeoutsHaveCause, ChildIsReaped,
      Returned, TotalBytes, Available, command, clock, Pipes, Timers

(* So has one that times out; a reaped child ended.                        *)
LEMMA WaitKeeps ==
  ASSUME IInv, Wait
  PROVE  IInv'
  BY ProcessAssumption
  DEF Wait, Raise, WaitTimers, IInv, TypeOK, CaptureIsBounded, TimeoutsHaveCause, ChildIsReaped,
      Returned, TotalBytes, Available, command, clock, Pipes, Timers

(* Whatever happened, the child is reaped.                                 *)
LEMMA FinallyKeeps ==
  ASSUME IInv, Finally
  PROVE  IInv'
  BY ProcessAssumption
  DEF Finally, IInv, TypeOK, CaptureIsBounded, TimeoutsHaveCause, ChildIsReaped,
      Returned, TotalBytes, Available, command, clock, Pipes, Timers

-----------------------------------------------------------------------------
(* A call begins with a running command and nothing read.                  *)
LEMMA InitIInv == Init => IInv
<1> SUFFICES ASSUME Init PROVE IInv
  OBVIOUS
<1>1. \A p \in Pipes : written[p] = 0 /\ captured[p] = 0
  BY DEF Init
<1>2. TotalBytes = 0
  BY <1>1 DEF TotalBytes, Pipes
<1>3. TypeOK
  <2>1. holders \in [Pipes -> SUBSET {"child", "descendant"}]
    BY DEF Init
  <2>2. plan \in [Pipes -> Nat] /\ written \in [Pipes -> Nat] /\ captured \in [Pipes -> Nat]
    BY ProcessAssumption DEF Init
  <2>3. QED
    BY <2>1, <2>2 DEF Init, TypeOK, Pipes
<1>4. QED
  BY <1>1, <1>2, <1>3, ProcessAssumption
  DEF Init, IInv, CaptureIsBounded, TimeoutsHaveCause, ChildIsReaped, Returned

(* Every step keeps the invariant.                                         *)
LEMMA NextIInv == IInv /\ [Next]_vars => IInv'
<1> SUFFICES ASSUME IInv, [Next]_vars PROVE IInv'
  OBVIOUS
<1>1. CASE Runner
  BY <1>1, LoopKeeps, SelectKeeps, ReadKeeps, AwaitKeeps, WaitKeeps, FinallyKeeps DEF Runner
<1>2. CASE Command
  BY <1>2, WriteKeeps, ExitsKeeps, ClosesKeeps DEF Command
<1>3. CASE Expires
  BY <1>3, ExpiresKeeps
<1>4. CASE UNCHANGED vars
  BY <1>4 DEF vars, command, clock, IInv, TypeOK, CaptureIsBounded, TimeoutsHaveCause,
     ChildIsReaped, Returned, TotalBytes, Available
<1>5. QED
  BY <1>1, <1>2, <1>3, <1>4 DEF Next

(* The invariant holds in every reachable state, for every limit, size of  *)
(* a read and of a pipe, with any timers and any command.                  *)
THEOREM Invariance == Spec => []IInv
  BY InitIInv, NextIInv, PTL DEF Spec

(* What the call returns is the whole output of the command.               *)
THEOREM NothingIsCutOff == Spec => []OutputIsWhole
<1>1. IInv => OutputIsWhole
  <2> SUFFICES ASSUME IInv, Returned, Result \in {"CompletedProcess", "CalledProcessError"}
               PROVE  \A p \in Pipes : holders[p] = {} /\ captured[p] = written[p]
    BY DEF OutputIsWhole
  <2>1. raised = "none" /\ ~exceeded
    BY DEF IInv, TypeOK, Result
  <2>2. registered = {}
    BY <2>1 DEF IInv, Returned
  <2>3. QED
    BY <2>2 DEF IInv
<1>2. QED
  BY <1>1, Invariance, PTL

(* A command is refused only for more output than the limit.               *)
THEOREM LimitIsAllowed == Spec => []LimitIsExact
<1>1. IInv => LimitIsExact
  BY DEF IInv, TypeOK, LimitIsExact, Returned, Result
<1>2. QED
  BY <1>1, Invariance, PTL

(* The captured output never exceeds the limit.                            *)
THEOREM CaptureBound == Spec => []CaptureIsBounded
<1>1. IInv => CaptureIsBounded
  BY DEF IInv
<1>2. QED
  BY <1>1, Invariance, PTL

(* No command outlives its call.                                           *)
THEOREM NoChildIsLeft == Spec => []ChildIsReaped
<1>1. IInv => ChildIsReaped
  BY DEF IInv
<1>2. QED
  BY <1>1, Invariance, PTL
=============================================================================
