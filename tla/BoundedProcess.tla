--------------------------- MODULE BoundedProcess ---------------------------
(***************************************************************************)
(* _run_bounded_process: one command, two pipes, one limit on what both    *)
(* carry together, and up to two timers: the caller's fixed timeout and    *)
(* the review deadline.  Bytes are counted, not represented.               *)
(*                                                                         *)
(* The command is external: it writes what it has planned, blocks on a     *)
(* full pipe, exits, and may leave a descendant that holds its pipes open. *)
(*                                                                         *)
(* Operators named Faulty... are variants of the step that follows them,   *)
(* with a mistake in it; no specification uses them.                       *)
(***************************************************************************)
EXTENDS Naturals

CONSTANTS OutputMax,   \* options.output_max_bytes
          ReadMax,     \* the most one os.read asks for, 65_536
          PipeMax,     \* what a pipe holds before its writer blocks
          PlanMax      \* bound on what a command writes to one pipe

ASSUME ProcessAssumption ==
  /\ OutputMax \in Nat /\ PlanMax \in Nat
  /\ ReadMax \in Nat \ {0} /\ PipeMax \in Nat \ {0}

Pipes == {"stdout", "stderr"}
Timers == {"fixed", "deadline"}

VARIABLES child, status,      \* the process, and its return code once it ended
          holders,            \* who has the write end of each pipe open
          plan, written,      \* bytes the command means to write, and wrote
          timers, expired,    \* timers of this call, and those that ran out
          pc, registered,     \* the loop, and the selector's map
          pending,            \* events of the last select not handled yet
          captured, exceeded, \* as in the code
          raised              \* the exception on its way out

command == <<child, status, holders, plan, written>>
clock == <<timers, expired>>
vars == <<command, clock, pc, registered, pending, captured, exceeded, raised>>

Init ==
  /\ child = "running" /\ status = "none"
  /\ holders \in [Pipes -> {{"child"}, {"child", "descendant"}}]
  /\ plan \in [Pipes -> 0..PlanMax]
  /\ written = [p \in Pipes |-> 0]
  /\ timers \in SUBSET Timers /\ expired = {}
  /\ pc = "loop" /\ registered = Pipes /\ pending = {}
  /\ captured = [p \in Pipes |-> 0] /\ exceeded = FALSE
  /\ raised = "none"

TotalBytes == captured["stdout"] + captured["stderr"]   \* before the limit is exceeded
Available(p) == written[p] - captured[p]
Min2(m, n) == IF m < n THEN m ELSE n

-----------------------------------------------------------------------------
(* The command and the clock.                                              *)
Write(p) ==
  /\ holders[p] # {}
  /\ written[p] < plan[p] /\ Available(p) < PipeMax
  /\ written' = [written EXCEPT ![p] = @ + 1]
  /\ UNCHANGED <<child, status, holders, plan, clock, pc, registered, pending, captured,
                 exceeded, raised>>

\* what is not written yet is left to the descendant
Exits ==
  /\ child = "running"
  /\ \A p \in Pipes : written[p] = plan[p] \/ "descendant" \in holders[p]
  /\ child' = "exited" /\ status' \in {"zero", "nonzero"}
  /\ holders' = [p \in Pipes |-> holders[p] \ {"child"}]
  /\ UNCHANGED <<plan, written, clock, pc, registered, pending, captured, exceeded, raised>>

\* the child closes a pipe while it runs, or a descendant lets go of it
Closes(p) ==
  /\ \E h \in holders[p] :
       /\ written[p] = plan[p] \/ holders[p] # {h}
       /\ holders' = [holders EXCEPT ![p] = @ \ {h}]
  /\ UNCHANGED <<child, status, plan, written, clock, pc, registered, pending, captured,
                 exceeded, raised>>

Expires ==
  /\ \E t \in timers \ expired : expired' = expired \cup {t}
  /\ UNCHANGED <<command, timers, pc, registered, pending, captured, exceeded, raised>>

\* process.kill(): the child dies at once, a descendant does not
Kill ==
  IF child = "running"
  THEN /\ child' = "killed" /\ status' = "nonzero"
       /\ holders' = [p \in Pipes |-> holders[p] \ {"child"}]
  ELSE UNCHANGED <<child, status, holders>>

-----------------------------------------------------------------------------
Raise(e) == raised' = e /\ pc' = "finally"

(* The head of the loop: the deadline is looked at before the fixed        *)
(* timeout, and neither when no pipe is left.                              *)
Loop ==
  /\ pc = "loop"
  /\ IF registered = {} THEN pc' = "await" /\ UNCHANGED raised
     ELSE IF "deadline" \in expired THEN Raise("ReviewError")
     ELSE IF "fixed" \in expired THEN Raise("TimeoutError")
     ELSE pc' = "select" /\ UNCHANGED raised
  /\ UNCHANGED <<command, clock, registered, pending, captured, exceeded>>

Ready == {p \in registered : Available(p) > 0 \/ holders[p] = {}}

\* one pipe after the other: the second is looked at when the first is done
FaultySelect ==
  LET ready == {p \in Ready : p = "stdout" \/ "stdout" \notin registered} IN
  /\ pc = "select"
  /\ \/ ready # {} /\ pending' = ready /\ pc' = "events"
     \/ ready = {} /\ expired # {} /\ pc' = "loop" /\ UNCHANGED pending
  /\ UNCHANGED <<command, clock, registered, captured, exceeded, raised>>

\* selector.select: it returns what is ready, or nothing when a timer is up
Select ==
  /\ pc = "select"
  /\ \/ Ready # {} /\ pending' = Ready /\ pc' = "events"
     \/ Ready = {} /\ expired # {} /\ pc' = "loop" /\ UNCHANGED pending
  /\ UNCHANGED <<command, clock, registered, captured, exceeded, raised>>

\* one event: an empty chunk is the end of the pipe, too much ends the loop
Handle(p, chunk, over) ==
  /\ pc = "events" /\ p \in pending
  /\ IF over
     THEN /\ exceeded' = TRUE /\ pending' = {} /\ pc' = "await"
          /\ Kill
          /\ UNCHANGED <<registered, captured>>
     ELSE /\ captured' = [captured EXCEPT ![p] = @ + chunk]
          /\ registered' = IF chunk = 0 THEN registered \ {p} ELSE registered
          /\ pending' = pending \ {p}
          /\ pc' = IF pending' = {} THEN "loop" ELSE "events"
          /\ UNCHANGED <<child, status, holders, exceeded>>
  /\ UNCHANGED <<plan, written, clock, raised>>

\* what os.read returns: at most one byte more than the limit leaves
Chunk(p) == Min2(Available(p), Min2(ReadMax, OutputMax - TotalBytes + 1))

\* only what the limit leaves is asked for: at the limit that is nothing
FaultyRead(p) == Handle(p, Min2(Available(p), Min2(ReadMax, OutputMax - TotalBytes)), FALSE)

\* reaching the limit is taken for exceeding it
FaultyReadLimit(p) == Handle(p, Chunk(p), Chunk(p) > 0 /\ TotalBytes + Chunk(p) >= OutputMax)

Read(p) == Handle(p, Chunk(p), TotalBytes + Chunk(p) > OutputMax)

\* the timers that bound process.wait: with a fixed timeout the deadline is not asked
WaitTimers == IF "fixed" \in timers THEN {"fixed"} ELSE timers
WaitRaises == Raise(IF "fixed" \in timers THEN "TimeoutError" ELSE "ReviewError")

\* wait_timeout, computed before the wait
Await ==
  /\ pc = "await"
  /\ IF WaitTimers \cap expired # {} THEN WaitRaises ELSE pc' = "wait" /\ UNCHANGED raised
  /\ UNCHANGED <<command, clock, registered, pending, captured, exceeded>>

\* a wait without a timeout
FaultyWait ==
  /\ pc = "wait"
  /\ child # "running"
  /\ child' = "reaped" /\ pc' = "finally"
  /\ UNCHANGED <<status, holders, plan, written, clock, registered, pending, captured,
                 exceeded, raised>>

\* process.wait: the child is reaped, or TimeoutExpired
Wait ==
  /\ pc = "wait"
  /\ \/ /\ child # "running"
        /\ child' = "reaped" /\ pc' = "finally" /\ UNCHANGED raised
     \/ /\ child = "running" /\ WaitTimers \cap expired # {}
        /\ Raise("TimeoutError") /\ UNCHANGED child
  /\ UNCHANGED <<status, holders, plan, written, clock, registered, pending, captured, exceeded>>

\* a child that was told to die is not waited for
FaultyFinally ==
  /\ pc = "finally"
  /\ pc' = "done"
  /\ Kill
  /\ UNCHANGED <<plan, written, clock, registered, pending, captured, exceeded, raised>>

\* the finally clause: a child that is not reaped is killed and reaped
Finally ==
  /\ pc = "finally"
  /\ pc' = "done"
  /\ child' = "reaped"
  /\ IF child = "running"
     THEN status' = "nonzero" /\ holders' = [p \in Pipes |-> holders[p] \ {"child"}]
     ELSE UNCHANGED <<status, holders>>
  /\ UNCHANGED <<plan, written, clock, registered, pending, captured, exceeded, raised>>

\* what the call returns or raises
Result ==
  IF raised # "none" THEN raised
  ELSE IF exceeded THEN "ProcessOutputLimitError"
  ELSE IF status = "zero" THEN "CompletedProcess" ELSE "CalledProcessError"

-----------------------------------------------------------------------------
Runner == Loop \/ Select \/ (\E p \in Pipes : Read(p)) \/ Await \/ Wait \/ Finally
Command == (\E p \in Pipes : Write(p) \/ Closes(p)) \/ Exits
Next == Runner \/ Command \/ Expires

Spec == Init /\ [][Next]_vars

(* The thread of the call runs.                                            *)
FairSpec == Spec /\ WF_vars(Runner)

(* Time passes; and the command goes on whenever it is not blocked.  It    *)
(* need not close a pipe before it exits; what it left behind lets go of   *)
(* the pipes some time.                                                    *)
TimePasses == WF_vars(Expires)
CommandGoesOn ==
  /\ WF_vars(Exits)
  /\ \A p \in Pipes : WF_vars(Write(p)) /\ WF_vars(child # "running" /\ Closes(p))

-----------------------------------------------------------------------------
(* Type invariant of the command, the clock and the loop.                  *)
TypeOK ==
  /\ child \in {"running", "exited", "killed", "reaped"}
  /\ status \in {"none", "zero", "nonzero"}
  /\ holders \in [Pipes -> SUBSET {"child", "descendant"}]
  /\ plan \in [Pipes -> Nat] /\ written \in [Pipes -> Nat] /\ captured \in [Pipes -> Nat]
  /\ timers \in SUBSET Timers /\ expired \in SUBSET timers
  /\ pc \in {"loop", "select", "events", "await", "wait", "finally", "done"}
  /\ registered \in SUBSET Pipes /\ pending \in SUBSET registered
  /\ exceeded \in BOOLEAN
  /\ raised \in {"none", "TimeoutError", "ReviewError"}

Returned == pc = "done"

(* A call that returns output, or reports the command's own failure with   *)
(* it, has all the command and its descendants ever wrote to both pipes:   *)
(* output is never cut off silently, also when it ends exactly at the      *)
(* limit or while the other pipe is being read.                            *)
OutputIsWhole ==
  Returned /\ Result \in {"CompletedProcess", "CalledProcessError"} =>
    \A p \in Pipes : holders[p] = {} /\ captured[p] = written[p]

(* A command is refused for its output only when both pipes together       *)
(* carried more than the limit: the limit itself is allowed.               *)
LimitIsExact ==
  Returned /\ Result = "ProcessOutputLimitError" =>
    written["stdout"] + written["stderr"] > OutputMax

(* What is kept in memory never exceeds the limit, whatever two pipes      *)
(* deliver in one round of the loop.                                       *)
CaptureIsBounded == TotalBytes <= OutputMax

(* No command outlives its call, however the call ends, and none is left   *)
(* as a zombie.                                                            *)
ChildIsReaped == Returned => child = "reaped"

(* A time-out is reported only when a timer of the call ran out: without   *)
(* timers the call waits for ever rather than give up.                     *)
TimeoutsHaveCause == raised # "none" => expired # {}

(* The inductive invariant the theorems rest on: nothing is lost between a *)
(* pipe and captured, a pipe that left the selector is empty for ever, and *)
(* every way to the end has its reason.                                    *)
IInv ==
  /\ TypeOK
  /\ CaptureIsBounded /\ TimeoutsHaveCause /\ ChildIsReaped
  /\ \A p \in Pipes : captured[p] <= written[p]
  /\ \A p \in Pipes \ registered : holders[p] = {} /\ captured[p] = written[p]
  /\ \A p \in pending : Available(p) > 0 \/ holders[p] = {}
  /\ exceeded => written["stdout"] + written["stderr"] > OutputMax
  /\ pc \notin {"finally", "done"} => raised = "none" /\ child # "reaped"
  /\ pc \in {"loop", "select", "events"} => ~exceeded
  /\ pc \notin {"loop", "select", "events"} /\ raised = "none" => exceeded \/ registered = {}

(* Nothing is assumed of the command here: a call with a timer ends,       *)
(* although the command hangs, floods a pipe or leaves a descendant that   *)
(* holds one open for ever.                                                *)
TimedCallsEnd == TimePasses => (timers # {} => <>Returned)

(* And nothing of the timers here: a command that goes on whenever it can  *)
(* write is never blocked for ever by the order in which its two pipes are *)
(* read, so that the call ends without the help of a timer.                *)
CommandIsDrained == CommandGoesOn => <>Returned
=============================================================================
