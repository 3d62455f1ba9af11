------------------------- MODULE ReviewAttemptProofs -------------------------
(***************************************************************************)
(* What ReviewAttempt guarantees for any attempts and any number of        *)
(* crashes.                                                                *)
(***************************************************************************)
EXTENDS ReviewAttempt, TLAPS

(* The parts of the invariant that speak of one attempt.                   *)
Kept(a) ==
  /\ StageFacts(a)
  /\ OutcomeFacts(a)
  /\ Done(a) /\ att[a].failure = "none" =>
       /\ att[a].published /\ att[a].client = "closed"
       /\ CleanupOutcome(a) = "confirmed"
  /\ ~(sandbox[a] /\ askpass[a])
  /\ up => (att[a].pc = "dead" => ~workspace[a] /\ ~sandbox[a])

(* IInv is TypeOK and Kept of every attempt.                               *)
LEMMA IInvByAttempt == IInv <=> TypeOK /\ \A a \in Attempts : Kept(a)
  BY DEF IInv, Kept, SuccessIsComplete, NoCredentialBesideSandbox, AdmittingMeansSwept

(* The step of one attempt touches its own record and its own resources.   *)
Own(a) ==
  /\ UNCHANGED <<up, crashes>>
  /\ att' \in [Attempts -> Attempt]
  /\ workspace' \in [Attempts -> BOOLEAN]
  /\ sandbox' \in [Attempts -> BOOLEAN]
  /\ askpass' \in [Attempts -> BOOLEAN]
  /\ \A b \in Attempts \ {a} :
       /\ att'[b] = att[b] /\ workspace'[b] = workspace[b]
       /\ sandbox'[b] = sandbox[b] /\ askpass'[b] = askpass[b]

(* So it keeps the invariant when it keeps what is said of the attempt.    *)
LEMMA OwnKeeps ==
  ASSUME IInv, NEW a \in Attempts, Own(a), Kept(a)'
  PROVE  IInv'
<1>1. TypeOK'
  BY DEF IInv, TypeOK, Own
<1>2. ASSUME NEW b \in Attempts PROVE Kept(b)'
  <2>1. CASE b = a
    BY <2>1
  <2>2. CASE b # a
    BY <2>2, IInvByAttempt DEF Own, Kept, StageFacts, OutcomeFacts, Done, CleanupOutcome
  <2>3. QED
    BY <2>1, <2>2
<1>3. QED
  BY <1>1, <1>2, IInvByAttempt DEF IInv, Kept, SuccessIsComplete,
     NoCredentialBesideSandbox,
     AdmittingMeansSwept

(* Become replaces the record of one attempt.                              *)
LEMMA BecomeRecord ==
  ASSUME TypeOK, NEW a \in Attempts, NEW t \in Attempt, Become(a, t)
  PROVE  /\ att' \in [Attempts -> Attempt]
         /\ att'[a] = t
         /\ \A b \in Attempts \ {a} : att'[b] = att[b]
  BY DEF TypeOK, Become

(* Most steps only move the attempt to stage p with failure f.             *)
Moves(a, p, f) == Become(a, [att[a] EXCEPT !.pc = p, !.failure = f])

(* What such a move leaves: the record of a, and every other record.     *)
LEMMA MovesRecord ==
  ASSUME TypeOK, NEW a \in Attempts, NEW p \in Stages, NEW f \in Failures, Moves(a, p, f)
  PROVE  /\ att' \in [Attempts -> Attempt]
         /\ att'[a] = [att[a] EXCEPT !.pc = p, !.failure = f]
         /\ \A b \in Attempts \ {a} : att'[b] = att[b]
<1> DEFINE t == [att[a] EXCEPT !.pc = p, !.failure = f]
<1>1. t \in Attempt
  BY DEF TypeOK, Attempt
<1>2. QED
  BY <1>1, BecomeRecord DEF Moves

(* Goto keeps the failure.                                               *)
LEMMA GotoMoves ==
  ASSUME TypeOK, NEW a \in Attempts, NEW p \in Stages, Goto(a, p)
  PROVE  att[a].failure \in Failures /\ Moves(a, p, att[a].failure)
<1>1. att[a] \in Attempt
  BY DEF TypeOK
<1>2. [att[a] EXCEPT !.pc = p] = [att[a] EXCEPT !.pc = p, !.failure = att[a].failure]
  BY <1>1 DEF Attempt
<1>3. QED
  BY <1>1, <1>2 DEF Goto, Moves, Attempt

(* Fail sets it.                                                         *)
LEMMA FailMoves ==
  ASSUME NEW a, NEW p, NEW f, Fail(a, p, f)
  PROVE  Moves(a, p, f)
  BY DEF Fail, Moves

(* The clone: the helper is gone before a sandbox can exist.             *)
LEMMA MaterializeKeeps ==
  ASSUME IInv, NEW a \in Attempts, Materialize(a)
  PROVE  IInv'
<1>1. TypeOK /\ Kept(a) /\ att[a] \in Attempt
  BY IInvByAttempt DEF TypeOK
<1>2. PICK p \in Stages, f \in Failures :
        /\ Moves(a, p, f)
        /\ \/ p = "control" /\ f = att[a].failure
              /\ askpass' = [askpass EXCEPT ![a] = FALSE]
           \/ p = "rmWorkspace" /\ f = "review"
              /\ \E left \in {askpass[a], FALSE} : askpass' = [askpass EXCEPT ![a] = left]
  BY <1>1, GotoMoves, FailMoves DEF Materialize, Stages, Failures
<1>3. /\ att' \in [Attempts -> Attempt]
      /\ att'[a] = [att[a] EXCEPT !.pc = p, !.failure = f]
      /\ \A b \in Attempts \ {a} : att'[b] = att[b]
  BY <1>1, <1>2, MovesRecord
<1>4. Own(a)
  BY <1>1, <1>3 DEF Materialize, Own, hostVars, TypeOK
<1>5. Kept(a)'
  BY <1>1, <1>2, <1>3, <1>4 DEF Materialize, At, Kept, StageFacts, OutcomeFacts, Done,
     CleanupOutcome,
     hostVars, Attempt, Own, TypeOK, Reviewing, BeforeSandbox, WithoutHelper
<1>6. QED
  BY <1>4, <1>5, OwnKeeps

(* The control directory: nothing is owned by it yet.                    *)
LEMMA PrepareControlKeeps ==
  ASSUME IInv, NEW a \in Attempts, PrepareControl(a)
  PROVE  IInv'
<1>1. TypeOK /\ Kept(a) /\ att[a] \in Attempt
  BY IInvByAttempt DEF TypeOK
<1>2. PICK p \in Stages, f \in Failures :
        /\ Moves(a, p, f)
        /\ \/ p = "create" /\ f = att[a].failure
           \/ p = "rmSandbox" /\ f = "review"
  BY <1>1, GotoMoves, FailMoves DEF PrepareControl, Stages, Failures
<1>3. /\ att' \in [Attempts -> Attempt]
      /\ att'[a] = [att[a] EXCEPT !.pc = p, !.failure = f]
      /\ \A b \in Attempts \ {a} : att'[b] = att[b]
  BY <1>1, <1>2, MovesRecord
<1>4. Own(a)
  BY <1>1, <1>3 DEF PrepareControl, Own, hostVars, TypeOK
<1>5. Kept(a)'
  BY <1>1, <1>2, <1>3, <1>4 DEF PrepareControl, At, Kept, StageFacts, OutcomeFacts, Done,
     CleanupOutcome,
     hostVars, Attempt, Own, TypeOK, Reviewing, BeforeSandbox, WithoutHelper
<1>6. QED
  BY <1>4, <1>5, OwnKeeps

(* A sandbox appears, also behind a failed create.                       *)
LEMMA CreateSandboxKeeps ==
  ASSUME IInv, NEW a \in Attempts, CreateSandbox(a)
  PROVE  IInv'
<1>1. TypeOK /\ Kept(a) /\ att[a] \in Attempt
  BY IInvByAttempt DEF TypeOK
<1>2. PICK p \in Stages, f \in Failures :
        /\ Moves(a, p, f)
        /\ \/ p = "codex" /\ f = att[a].failure
              /\ sandbox' = [sandbox EXCEPT ![a] = TRUE]
           \/ p = "rmSandbox" /\ f = "review"
              /\ \E made \in BOOLEAN : sandbox' = [sandbox EXCEPT ![a] = made]
  BY <1>1, GotoMoves, FailMoves DEF CreateSandbox, Stages, Failures
<1>3. /\ att' \in [Attempts -> Attempt]
      /\ att'[a] = [att[a] EXCEPT !.pc = p, !.failure = f]
      /\ \A b \in Attempts \ {a} : att'[b] = att[b]
  BY <1>1, <1>2, MovesRecord
<1>4. Own(a)
  BY <1>1, <1>3 DEF CreateSandbox, Own, hostVars, TypeOK
<1>5. Kept(a)'
  BY <1>1, <1>2, <1>3, <1>4 DEF CreateSandbox, At, Kept, StageFacts, OutcomeFacts, Done,
     CleanupOutcome,
     hostVars, Attempt, Own, TypeOK, Reviewing, BeforeSandbox, WithoutHelper
<1>6. QED
  BY <1>4, <1>5, OwnKeeps

(* The model call changes nothing on the host.                           *)
LEMMA CodexKeeps ==
  ASSUME IInv, NEW a \in Attempts, Codex(a)
  PROVE  IInv'
<1>1. TypeOK /\ Kept(a) /\ att[a] \in Attempt
  BY IInvByAttempt DEF TypeOK
<1>2. PICK p \in Stages, f \in Failures :
        /\ Moves(a, p, f)
        /\ \/ p = "rmSandbox" /\ f = att[a].failure
           \/ p = "rmSandbox" /\ f = "review"
  BY <1>1, GotoMoves, FailMoves DEF Codex, Stages, Failures
<1>3. /\ att' \in [Attempts -> Attempt]
      /\ att'[a] = [att[a] EXCEPT !.pc = p, !.failure = f]
      /\ \A b \in Attempts \ {a} : att'[b] = att[b]
  BY <1>1, <1>2, MovesRecord
<1>4. Own(a)
  BY <1>1, <1>3 DEF Codex, Own, hostVars, TypeOK
<1>5. Kept(a)'
  BY <1>1, <1>2, <1>3, <1>4 DEF Codex, At, Kept, StageFacts, OutcomeFacts, Done,
     CleanupOutcome,
     hostVars, Attempt, Own, TypeOK, Reviewing, BeforeSandbox, WithoutHelper
<1>6. QED
  BY <1>4, <1>5, OwnKeeps

(* Nor does the acceptance of its candidate.                             *)
LEMMA AcceptKeeps ==
  ASSUME IInv, NEW a \in Attempts, Accept(a)
  PROVE  IInv'
<1>1. TypeOK /\ Kept(a) /\ att[a] \in Attempt
  BY IInvByAttempt DEF TypeOK
<1>2. PICK p \in Stages, f \in Failures :
        /\ Moves(a, p, f)
        /\ \/ p = "rmWorkspace" /\ f = att[a].failure
           \/ p = "rmWorkspace" /\ f = "review"
  BY <1>1, GotoMoves, FailMoves DEF Accept, Stages, Failures
<1>3. /\ att' \in [Attempts -> Attempt]
      /\ att'[a] = [att[a] EXCEPT !.pc = p, !.failure = f]
      /\ \A b \in Attempts \ {a} : att'[b] = att[b]
  BY <1>1, <1>2, MovesRecord
<1>4. Own(a)
  BY <1>1, <1>3 DEF Accept, Own, hostVars, TypeOK
<1>5. Kept(a)'
  BY <1>1, <1>2, <1>3, <1>4 DEF Accept, At, Kept, StageFacts, OutcomeFacts, Done,
     CleanupOutcome,
     hostVars, Attempt, Own, TypeOK, Reviewing, BeforeSandbox, WithoutHelper
<1>6. QED
  BY <1>4, <1>5, OwnKeeps

(* A workspace appears, and no sandbox is beside it.                     *)
LEMMA CreateWorkspaceKeeps ==
  ASSUME IInv, NEW a \in Attempts, CreateWorkspace(a)
  PROVE  IInv'
<1>1. TypeOK /\ Kept(a) /\ att[a] \in Attempt
  BY IInvByAttempt DEF TypeOK
<1>2. PICK p \in Stages, f \in Failures :
        /\ Moves(a, p, f)
        /\ \/ p = "askpass" /\ f = att[a].failure
              /\ workspace' = [workspace EXCEPT ![a] = TRUE]
           \/ p = "finalCleanup" /\ f = "review"
              /\ UNCHANGED workspace
  BY <1>1, GotoMoves, FailMoves DEF CreateWorkspace, Stages, Failures
<1>3. /\ att' \in [Attempts -> Attempt]
      /\ att'[a] = [att[a] EXCEPT !.pc = p, !.failure = f]
      /\ \A b \in Attempts \ {a} : att'[b] = att[b]
  BY <1>1, <1>2, MovesRecord
<1>4. Own(a)
  BY <1>1, <1>3 DEF CreateWorkspace, Own, hostVars, TypeOK
<1>5. Kept(a)'
  BY <1>1, <1>2, <1>3, <1>4 DEF CreateWorkspace, At, Kept, StageFacts, OutcomeFacts,
     Done, CleanupOutcome,
     hostVars, Attempt, Own, TypeOK, Reviewing, BeforeSandbox, WithoutHelper
<1>6. QED
  BY <1>4, <1>5, OwnKeeps

(* The helper appears, and no sandbox is beside it.                      *)
LEMMA WriteAskpassKeeps ==
  ASSUME IInv, NEW a \in Attempts, WriteAskpass(a)
  PROVE  IInv'
<1>1. TypeOK /\ Kept(a) /\ att[a] \in Attempt
  BY IInvByAttempt DEF TypeOK
<1>2. PICK p \in Stages, f \in Failures :
        /\ Moves(a, p, f)
        /\ \/ p = "clone" /\ f = att[a].failure
              /\ askpass' = [askpass EXCEPT ![a] = TRUE]
           \/ p = "rmWorkspace" /\ f = "review"
              /\ \E written \in BOOLEAN : askpass' = [askpass EXCEPT ![a] = written]
  BY <1>1, GotoMoves, FailMoves DEF WriteAskpass, Stages, Failures
<1>3. /\ att' \in [Attempts -> Attempt]
      /\ att'[a] = [att[a] EXCEPT !.pc = p, !.failure = f]
      /\ \A b \in Attempts \ {a} : att'[b] = att[b]
  BY <1>1, <1>2, MovesRecord
<1>4. Own(a)
  BY <1>1, <1>3 DEF WriteAskpass, Own, hostVars, TypeOK
<1>5. Kept(a)'
  BY <1>1, <1>2, <1>3, <1>4 DEF WriteAskpass, At, Kept, StageFacts, OutcomeFacts, Done,
     CleanupOutcome,
     hostVars, Attempt, Own, TypeOK, Reviewing, BeforeSandbox, WithoutHelper
<1>6. QED
  BY <1>4, <1>5, OwnKeeps

(* The sandbox goes, or its removal is the failure of the review.        *)
LEMMA RemoveSandboxKeeps ==
  ASSUME IInv, NEW a \in Attempts, RemoveSandbox(a)
  PROVE  IInv'
<1>1. TypeOK /\ Kept(a) /\ att[a] \in Attempt
  BY IInvByAttempt DEF TypeOK
<1>2. PICK p \in Stages, f \in Failures :
        /\ Moves(a, p, f)
        /\ \/ /\ p = IF att[a].failure = "none" THEN "accept" ELSE "rmWorkspace"
              /\ f = att[a].failure
              /\ sandbox' = [sandbox EXCEPT ![a] = FALSE]
           \/ /\ p = "rmWorkspace" /\ f = "review"
              /\ \E left \in {sandbox[a], FALSE} : sandbox' = [sandbox EXCEPT ![a] = left]
  BY <1>1, GotoMoves, FailMoves DEF RemoveSandbox, Stages, Failures
<1>3. /\ att' \in [Attempts -> Attempt]
      /\ att'[a] = [att[a] EXCEPT !.pc = p, !.failure = f]
      /\ \A b \in Attempts \ {a} : att'[b] = att[b]
  BY <1>1, <1>2, MovesRecord
<1>4. Own(a)
  BY <1>1, <1>3 DEF RemoveSandbox, Own, hostVars, TypeOK
<1>5. Kept(a)'
  BY <1>1, <1>2, <1>3, <1>4 DEF RemoveSandbox, At, Kept, StageFacts, OutcomeFacts, Done,
     CleanupOutcome,
     hostVars, Attempt, Own, TypeOK, Reviewing, BeforeSandbox, WithoutHelper
<1>6. QED
  BY <1>4, <1>5, OwnKeeps

(* The workspace goes, or the final cleanup is due.                      *)
LEMMA RemoveWorkspaceKeeps ==
  ASSUME IInv, NEW a \in Attempts, RemoveWorkspace(a)
  PROVE  IInv'
<1>1. TypeOK /\ Kept(a) /\ att[a] \in Attempt
  BY IInvByAttempt DEF TypeOK
<1>2. PICK p \in Stages, f \in Failures :
        /\ Moves(a, p, f)
        /\ \/ /\ p = IF att[a].failure = "none" THEN "cleanup" ELSE "finalCleanup"
              /\ f = att[a].failure
              /\ workspace' = [workspace EXCEPT ![a] = FALSE]
              /\ askpass' = [askpass EXCEPT ![a] = FALSE]
           \/ p = "finalCleanup" /\ f = "review" /\ UNCHANGED <<workspace, askpass>>
  BY <1>1, GotoMoves, FailMoves DEF RemoveWorkspace, Stages, Failures
<1>3. /\ att' \in [Attempts -> Attempt]
      /\ att'[a] = [att[a] EXCEPT !.pc = p, !.failure = f]
      /\ \A b \in Attempts \ {a} : att'[b] = att[b]
  BY <1>1, <1>2, MovesRecord
<1>4. Own(a)
  BY <1>1, <1>3 DEF RemoveWorkspace, Own, hostVars, TypeOK
<1>5. Kept(a)'
  BY <1>1, <1>2, <1>3, <1>4 DEF RemoveWorkspace, At, Kept, StageFacts, OutcomeFacts,
     Done, CleanupOutcome,
     hostVars, Attempt, Own, TypeOK, Reviewing, BeforeSandbox, WithoutHelper
<1>6. QED
  BY <1>4, <1>5, OwnKeeps

(* Construction binds the resources before anything is made.             *)
LEMMA ConstructKeeps ==
  ASSUME IInv, NEW a \in Attempts, Construct(a)
  PROVE  IInv'
<1>1. TypeOK /\ Kept(a) /\ att[a] \in Attempt
  BY IInvByAttempt DEF TypeOK
<1>2. ASSUME Become(a, [att[a] EXCEPT !.pc = "workspace", !.bound = TRUE, !.client = "open"])
      PROVE  IInv'
  <2> DEFINE t == [att[a] EXCEPT !.pc = "workspace", !.bound = TRUE, !.client = "open"]
  <2>1. t \in Attempt
    BY <1>1 DEF Attempt, Stages, Failures
  <2>2. /\ att' \in [Attempts -> Attempt]
        /\ att'[a] = t
        /\ \A b \in Attempts \ {a} : att'[b] = att[b]
    BY <1>1, <1>2, <2>1, BecomeRecord
  <2>3. Own(a)
    BY <1>1, <1>2, <2>2 DEF Construct, Own, hostVars, TypeOK
  <2>4. Kept(a)'
    BY <1>1, <1>2, <2>2, <2>3 DEF Construct, At, Kept, StageFacts, OutcomeFacts, Done,
       CleanupOutcome,
       hostVars, Attempt, Own, TypeOK, Reviewing, BeforeSandbox, WithoutHelper
  <2>5. QED
    BY <2>3, <2>4, OwnKeeps
<1>3. ASSUME Become(a, [att[a] EXCEPT !.pc = "close", !.failure = "attempt_construction"])
      PROVE  IInv'
  <2> DEFINE t == [att[a] EXCEPT !.pc = "close", !.failure = "attempt_construction"]
  <2>1. t \in Attempt
    BY <1>1 DEF Attempt, Stages, Failures
  <2>2. /\ att' \in [Attempts -> Attempt]
        /\ att'[a] = t
        /\ \A b \in Attempts \ {a} : att'[b] = att[b]
    BY <1>1, <1>3, <2>1, BecomeRecord
  <2>3. Own(a)
    BY <1>1, <1>3, <2>2 DEF Construct, Own, hostVars, TypeOK
  <2>4. Kept(a)'
    BY <1>1, <1>3, <2>2, <2>3 DEF Construct, At, Kept, StageFacts, OutcomeFacts, Done,
       CleanupOutcome,
       hostVars, Attempt, Own, TypeOK, Reviewing, BeforeSandbox, WithoutHelper
  <2>5. QED
    BY <2>3, <2>4, OwnKeeps
<1>4. ASSUME NEW made \in {"none", "open"},
             Become(a, [att[a] EXCEPT !.pc = "finalCleanup",
             !.failure = "attempt_construction",
                                      !.bound = TRUE, !.client = made])
      PROVE  IInv'
  <2> DEFINE t == [att[a] EXCEPT !.pc = "finalCleanup",
  !.failure = "attempt_construction",
                                      !.bound = TRUE, !.client = made]
  <2>1. t \in Attempt
    BY <1>1 DEF Attempt, Stages, Failures
  <2>2. /\ att' \in [Attempts -> Attempt]
        /\ att'[a] = t
        /\ \A b \in Attempts \ {a} : att'[b] = att[b]
    BY <1>1, <1>4, <2>1, BecomeRecord
  <2>3. Own(a)
    BY <1>1, <1>4, <2>2 DEF Construct, Own, hostVars, TypeOK
  <2>4. Kept(a)'
    BY <1>1, <1>4, <2>2, <2>3 DEF Construct, At, Kept, StageFacts, OutcomeFacts, Done,
       CleanupOutcome,
       hostVars, Attempt, Own, TypeOK, Reviewing, BeforeSandbox, WithoutHelper
  <2>5. QED
    BY <2>3, <2>4, OwnKeeps
<1>5. QED
  BY <1>1, <1>2, <1>3, <1>4 DEF Construct, Goto, Fail, Attempt, Failures, Stages

(* Only a confirmed cleanup leads to publication.                        *)
LEMMA CleanupKeeps ==
  ASSUME IInv, NEW a \in Attempts, Cleanup(a)
  PROVE  IInv'
<1>1. TypeOK /\ Kept(a) /\ att[a] \in Attempt
  BY IInvByAttempt DEF TypeOK
<1>2. ASSUME Become(a, [att[a] EXCEPT !.pc = "publish", !.confirmed = TRUE]),
             CleanupSucceeds(a)
      PROVE  IInv'
  <2> DEFINE t == [att[a] EXCEPT !.pc = "publish", !.confirmed = TRUE]
  <2>1. t \in Attempt
    BY <1>1 DEF Attempt, Stages, Failures
  <2>2. /\ att' \in [Attempts -> Attempt]
        /\ att'[a] = t
        /\ \A b \in Attempts \ {a} : att'[b] = att[b]
    BY <1>1, <1>2, <2>1, BecomeRecord
  <2>3. Own(a)
    BY <1>1, <1>2, <2>2 DEF Cleanup, Own, hostVars, TypeOK, CleanupSucceeds, CleanupFails
  <2>4. Kept(a)'
    BY <1>1, <1>2, <2>2, <2>3 DEF Cleanup, At, Kept, StageFacts, OutcomeFacts, Done,
       CleanupOutcome,
       hostVars, Attempt, Own, TypeOK, Reviewing, BeforeSandbox, WithoutHelper,
       CleanupSucceeds, CleanupFails
  <2>5. QED
    BY <2>3, <2>4, OwnKeeps
<1>3. ASSUME Become(a, [att[a] EXCEPT !.pc = "finalCleanup", !.failure = "cleanup"]),
             CleanupFails(a)
      PROVE  IInv'
  <2> DEFINE t == [att[a] EXCEPT !.pc = "finalCleanup", !.failure = "cleanup"]
  <2>1. t \in Attempt
    BY <1>1 DEF Attempt, Stages, Failures
  <2>2. /\ att' \in [Attempts -> Attempt]
        /\ att'[a] = t
        /\ \A b \in Attempts \ {a} : att'[b] = att[b]
    BY <1>1, <1>3, <2>1, BecomeRecord
  <2>3. Own(a)
    BY <1>1, <1>3, <2>2 DEF Cleanup, Own, hostVars, TypeOK, CleanupSucceeds, CleanupFails
  <2>4. Kept(a)'
    BY <1>1, <1>3, <2>2, <2>3 DEF Cleanup, At, Kept, StageFacts, OutcomeFacts, Done,
       CleanupOutcome,
       hostVars, Attempt, Own, TypeOK, Reviewing, BeforeSandbox, WithoutHelper,
       CleanupSucceeds, CleanupFails
  <2>5. QED
    BY <2>3, <2>4, OwnKeeps
<1>4. QED
  BY <1>1, <1>2, <1>3 DEF Cleanup, Goto, Fail, Attempt, Failures, Stages,
     CleanupSucceeds, CleanupFails

(* A comment is made by a confirmed attempt, and recorded.               *)
LEMMA PublishKeeps ==
  ASSUME IInv, NEW a \in Attempts, Publish(a)
  PROVE  IInv'
<1>1. TypeOK /\ Kept(a) /\ att[a] \in Attempt
  BY IInvByAttempt DEF TypeOK
<1>2. ASSUME Become(a, [att[a] EXCEPT !.pc = "close", !.published = TRUE, !.completed = TRUE])
      PROVE  IInv'
  <2> DEFINE t == [att[a] EXCEPT !.pc = "close", !.published = TRUE, !.completed = TRUE]
  <2>1. t \in Attempt
    BY <1>1 DEF Attempt, Stages, Failures
  <2>2. /\ att' \in [Attempts -> Attempt]
        /\ att'[a] = t
        /\ \A b \in Attempts \ {a} : att'[b] = att[b]
    BY <1>1, <1>2, <2>1, BecomeRecord
  <2>3. Own(a)
    BY <1>1, <1>2, <2>2 DEF Publish, Own, hostVars, TypeOK
  <2>4. Kept(a)'
    BY <1>1, <1>2, <2>2, <2>3 DEF Publish, At, Kept, StageFacts, OutcomeFacts, Done,
       CleanupOutcome,
       hostVars, Attempt, Own, TypeOK, Reviewing, BeforeSandbox, WithoutHelper
  <2>5. QED
    BY <2>3, <2>4, OwnKeeps
<1>3. ASSUME NEW visible \in BOOLEAN,
             Become(a, [att[a] EXCEPT !.pc = "close", !.published = visible,
                                      !.failure = "publication"])
      PROVE  IInv'
  <2> DEFINE t == [att[a] EXCEPT !.pc = "close", !.published = visible,
                                      !.failure = "publication"]
  <2>1. t \in Attempt
    BY <1>1 DEF Attempt, Stages, Failures
  <2>2. /\ att' \in [Attempts -> Attempt]
        /\ att'[a] = t
        /\ \A b \in Attempts \ {a} : att'[b] = att[b]
    BY <1>1, <1>3, <2>1, BecomeRecord
  <2>3. Own(a)
    BY <1>1, <1>3, <2>2 DEF Publish, Own, hostVars, TypeOK
  <2>4. Kept(a)'
    BY <1>1, <1>3, <2>2, <2>3 DEF Publish, At, Kept, StageFacts, OutcomeFacts, Done,
       CleanupOutcome,
       hostVars, Attempt, Own, TypeOK, Reviewing, BeforeSandbox, WithoutHelper
  <2>5. QED
    BY <2>3, <2>4, OwnKeeps
<1>4. ASSUME Become(a, [att[a] EXCEPT !.pc = "close", !.failure = "github"])
      PROVE  IInv'
  <2> DEFINE t == [att[a] EXCEPT !.pc = "close", !.failure = "github"]
  <2>1. t \in Attempt
    BY <1>1 DEF Attempt, Stages, Failures
  <2>2. /\ att' \in [Attempts -> Attempt]
        /\ att'[a] = t
        /\ \A b \in Attempts \ {a} : att'[b] = att[b]
    BY <1>1, <1>4, <2>1, BecomeRecord
  <2>3. Own(a)
    BY <1>1, <1>4, <2>2 DEF Publish, Own, hostVars, TypeOK
  <2>4. Kept(a)'
    BY <1>1, <1>4, <2>2, <2>3 DEF Publish, At, Kept, StageFacts, OutcomeFacts, Done,
       CleanupOutcome,
       hostVars, Attempt, Own, TypeOK, Reviewing, BeforeSandbox, WithoutHelper
  <2>5. QED
    BY <2>3, <2>4, OwnKeeps
<1>5. QED
  BY <1>1, <1>2, <1>3, <1>4 DEF Publish, Goto, Fail, Attempt, Failures, Stages

(* The final cleanup confirms, or becomes the failure.                   *)
LEMMA FinalCleanupKeeps ==
  ASSUME IInv, NEW a \in Attempts, FinalCleanup(a)
  PROVE  IInv'
<1>1. TypeOK /\ Kept(a) /\ att[a] \in Attempt
  BY IInvByAttempt DEF TypeOK
<1>2. ASSUME Become(a, [att[a] EXCEPT !.pc = "close", !.confirmed = TRUE]),
             CleanupSucceeds(a)
      PROVE  IInv'
  <2> DEFINE t == [att[a] EXCEPT !.pc = "close", !.confirmed = TRUE]
  <2>1. t \in Attempt
    BY <1>1 DEF Attempt, Stages, Failures
  <2>2. /\ att' \in [Attempts -> Attempt]
        /\ att'[a] = t
        /\ \A b \in Attempts \ {a} : att'[b] = att[b]
    BY <1>1, <1>2, <2>1, BecomeRecord
  <2>3. Own(a)
    BY <1>1, <1>2, <2>2 DEF FinalCleanup, Own, hostVars, TypeOK, CleanupSucceeds,
       CleanupFails
  <2>4. Kept(a)'
    BY <1>1, <1>2, <2>2, <2>3 DEF FinalCleanup, At, Kept, StageFacts, OutcomeFacts, Done,
       CleanupOutcome,
       hostVars, Attempt, Own, TypeOK, Reviewing, BeforeSandbox, WithoutHelper,
       CleanupSucceeds, CleanupFails
  <2>5. QED
    BY <2>3, <2>4, OwnKeeps
<1>3. ASSUME Become(a, [att[a] EXCEPT !.pc = "close", !.failure = "cleanup"]),
             CleanupFails(a)
      PROVE  IInv'
  <2> DEFINE t == [att[a] EXCEPT !.pc = "close", !.failure = "cleanup"]
  <2>1. t \in Attempt
    BY <1>1 DEF Attempt, Stages, Failures
  <2>2. /\ att' \in [Attempts -> Attempt]
        /\ att'[a] = t
        /\ \A b \in Attempts \ {a} : att'[b] = att[b]
    BY <1>1, <1>3, <2>1, BecomeRecord
  <2>3. Own(a)
    BY <1>1, <1>3, <2>2 DEF FinalCleanup, Own, hostVars, TypeOK, CleanupSucceeds,
       CleanupFails
  <2>4. Kept(a)'
    BY <1>1, <1>3, <2>2, <2>3 DEF FinalCleanup, At, Kept, StageFacts, OutcomeFacts, Done,
       CleanupOutcome,
       hostVars, Attempt, Own, TypeOK, Reviewing, BeforeSandbox, WithoutHelper,
       CleanupSucceeds, CleanupFails
  <2>5. QED
    BY <2>3, <2>4, OwnKeeps
<1>4. QED
  BY <1>1, <1>2, <1>3 DEF FinalCleanup, Goto, Fail, Attempt, Failures, Stages,
     CleanupSucceeds, CleanupFails

(* The end of run keeps the outcome, or becomes the failure.             *)
LEMMA CloseKeeps ==
  ASSUME IInv, NEW a \in Attempts, Close(a)
  PROVE  IInv'
<1>1. TypeOK /\ Kept(a) /\ att[a] \in Attempt
  BY IInvByAttempt DEF TypeOK
<1>2. ASSUME Become(a, [att[a] EXCEPT !.pc = "done",
                   !.client = IF att[a].client = "open" THEN "closed" ELSE "none"])
      PROVE  IInv'
  <2> DEFINE t == [att[a] EXCEPT !.pc = "done",
                   !.client = IF att[a].client = "open" THEN "closed" ELSE "none"]
  <2>1. t \in Attempt
    BY <1>1 DEF Attempt, Stages, Failures
  <2>2. /\ att' \in [Attempts -> Attempt]
        /\ att'[a] = t
        /\ \A b \in Attempts \ {a} : att'[b] = att[b]
    BY <1>1, <1>2, <2>1, BecomeRecord
  <2>3. Own(a)
    BY <1>1, <1>2, <2>2 DEF Close, Own, hostVars, TypeOK
  <2>4. Kept(a)'
    BY <1>1, <1>2, <2>2, <2>3 DEF Close, At, Kept, StageFacts, OutcomeFacts, Done,
       CleanupOutcome,
       hostVars, Attempt, Own, TypeOK, Reviewing, BeforeSandbox, WithoutHelper
  <2>5. QED
    BY <2>3, <2>4, OwnKeeps
<1>3. ASSUME Become(a, [att[a] EXCEPT !.pc = "done",
                   !.failure = IF att[a].failure = "none" THEN "client_cleanup"
                                ELSE att[a].failure]),
             att[a].client = "open"
      PROVE  IInv'
  <2> DEFINE t == [att[a] EXCEPT !.pc = "done",
                   !.failure = IF att[a].failure = "none" THEN "client_cleanup" ELSE att[a].failure]
  <2>1. t \in Attempt
    BY <1>1 DEF Attempt, Stages, Failures
  <2>2. /\ att' \in [Attempts -> Attempt]
        /\ att'[a] = t
        /\ \A b \in Attempts \ {a} : att'[b] = att[b]
    BY <1>1, <1>3, <2>1, BecomeRecord
  <2>3. Own(a)
    BY <1>1, <1>3, <2>2 DEF Close, Own, hostVars, TypeOK
  <2>4. Kept(a)'
    BY <1>1, <1>3, <2>2, <2>3 DEF Close, At, Kept, StageFacts, OutcomeFacts, Done,
       CleanupOutcome,
       hostVars, Attempt, Own, TypeOK, Reviewing, BeforeSandbox, WithoutHelper
  <2>5. QED
    BY <2>3, <2>4, OwnKeeps
<1>4. QED
  BY <1>1, <1>2, <1>3 DEF Close, Goto, Fail, Attempt, Failures, Stages

(* A command that hangs changes nothing else.                            *)
LEMMA HangKeeps ==
  ASSUME IInv, NEW a \in Attempts, Hang(a)
  PROVE  IInv'
<1>1. TypeOK /\ Kept(a) /\ att[a] \in Attempt
  BY IInvByAttempt DEF TypeOK
<1>2. ASSUME Become(a, [att[a] EXCEPT !.stuck = TRUE])
      PROVE  IInv'
  <2> DEFINE t == [att[a] EXCEPT !.stuck = TRUE]
  <2>1. t \in Attempt
    BY <1>1 DEF Attempt, Stages, Failures
  <2>2. /\ att' \in [Attempts -> Attempt]
        /\ att'[a] = t
        /\ \A b \in Attempts \ {a} : att'[b] = att[b]
    BY <1>1, <1>2, <2>1, BecomeRecord
  <2>3. Own(a)
    BY <1>1, <1>2, <2>2 DEF Hang, Own, hostVars, TypeOK
  <2>4. Kept(a)'
    BY <1>1, <1>2, <2>2, <2>3 DEF Hang, At, Kept, StageFacts, OutcomeFacts, Done,
       CleanupOutcome,
       hostVars, Attempt, Own, TypeOK, Reviewing, BeforeSandbox, WithoutHelper
  <2>5. QED
    BY <2>3, <2>4, OwnKeeps
<1>3. QED
  BY <1>1, <1>2 DEF Hang, Goto, Fail, Attempt, Failures, Stages

(* The deadline leads to the finally clauses of the stage it hits.       *)
LEMMA DeadlineExpiresKeeps ==
  ASSUME IInv, NEW a \in Attempts, DeadlineExpires(a)
  PROVE  IInv'
<1> DEFINE t == [att[a] EXCEPT !.stuck = FALSE, !.failure = "review",
                   !.pc = IF att[a].pc = "clone" THEN "rmWorkspace" ELSE "rmSandbox"]
<1>1. TypeOK /\ Kept(a) /\ att[a] \in Attempt
  BY IInvByAttempt DEF TypeOK
<1>2. t \in Attempt
  BY <1>1 DEF Attempt, Stages, Failures
<1>3. /\ att' \in [Attempts -> Attempt]
      /\ att'[a] = t
      /\ \A b \in Attempts \ {a} : att'[b] = att[b]
  BY <1>1, <1>2, BecomeRecord DEF DeadlineExpires
<1>4. PICK left \in {askpass[a], FALSE} : askpass' = [askpass EXCEPT ![a] = left]
  BY DEF DeadlineExpires
<1>5. PICK made \in BOOLEAN :
        /\ sandbox' = [sandbox EXCEPT ![a] = made]
        /\ att[a].pc = "create" \/ made = sandbox[a]
  BY <1>1, Zenon DEF DeadlineExpires, TypeOK
<1>6. up' = up /\ crashes' = crashes /\ workspace' = workspace /\ att[a].stuck
  BY DEF DeadlineExpires
<1>7. Own(a)
  BY <1>1, <1>3, <1>4, <1>5, <1>6 DEF Own, TypeOK
<1>8. Kept(a)'
  BY <1>1, <1>3, <1>4, <1>5, <1>6
  DEF Kept, StageFacts, OutcomeFacts, Done, CleanupOutcome, Attempt, TypeOK, Reviewing,
      BeforeSandbox, WithoutHelper
<1>9. QED
  BY <1>7, <1>8, OwnKeeps

-----------------------------------------------------------------------------
(* A crash forgets the attempts that run, and admits nothing.            *)
LEMMA CrashKeeps ==
  ASSUME IInv, Crash
  PROVE  IInv'
<1>1. TypeOK /\ \A a \in Attempts : Kept(a)
  BY IInvByAttempt
<1>2. PICK visible \in SUBSET {a \in Attempts : att[a].pc = "publish"} :
        att' = [a \in Attempts |->
                  IF att[a].pc \in {"new", "done"} THEN att[a]
                  ELSE [att[a] EXCEPT !.pc = "dead", !.stuck = FALSE,
                                      !.published = @ \/ a \in visible]]
  BY DEF Crash
<1>3. ~up' /\ crashes' \in 0..MaxCrashes /\ UNCHANGED <<workspace, sandbox, askpass>>
  <2>1. crashes \in 0..MaxCrashes /\ crashes < MaxCrashes /\ crashes' = crashes + 1
    BY <1>1 DEF Crash, TypeOK
  <2>2. crashes' \in 0..MaxCrashes
    BY <2>1, AttemptAssumption
  <2>3. QED
    BY <2>2 DEF Crash, hostVars
<1>4. ASSUME NEW a \in Attempts PROVE att'[a] \in Attempt /\ Kept(a)'
  <2>1. att[a] \in Attempt
    BY <1>1 DEF TypeOK
  <2>2. CASE att[a].pc \in {"new", "done"}
    <3>1. att'[a] = att[a]
      BY <1>2, <2>2
    <3>2. QED
      BY <1>1, <1>3, <2>1, <2>2, <3>1
      DEF Kept, StageFacts, OutcomeFacts, Done, CleanupOutcome
  <2>3. CASE att[a].pc \notin {"new", "done"}
    <3>1. PICK v \in BOOLEAN : /\ v <=> att[a].published \/ a \in visible
                               /\ att'[a] = [att[a] EXCEPT !.pc = "dead", !.stuck = FALSE,
                                                           !.published = v]
      <4> DEFINE v == att[a].published \/ a \in visible
      <4>1. v \in BOOLEAN
        OBVIOUS
      <4>2. att'[a] = [att[a] EXCEPT !.pc = "dead", !.stuck = FALSE, !.published = v]
        BY <1>2, <2>3, Zenon
      <4>3. QED
        BY <4>1, <4>2, Zenon
    <3>2. a \in visible => att[a].pc = "publish"
      BY <1>2
    <3>3. QED
      BY <1>1, <1>3, <2>1, <2>3, <3>1, <3>2
      DEF Attempt, Stages, Kept, StageFacts, OutcomeFacts, Done, CleanupOutcome,
      Reviewing,
          BeforeSandbox, WithoutHelper
  <2>4. QED
    BY <2>2, <2>3
<1>5. TypeOK'
  <2>1. att' \in [Attempts -> Attempt]
    <3>1. DOMAIN att' = Attempts /\ att' = [a \in Attempts |-> att'[a]]
      BY <1>2, Zenon
    <3>2. QED
      BY <1>4, <3>1, Zenon
  <2>2. up' \in BOOLEAN
    BY <1>3 DEF Crash
  <2>3. QED
    BY <1>1, <1>3, <2>1, <2>2 DEF TypeOK
<1>6. QED
  BY <1>4, <1>5, IInvByAttempt DEF IInv, Kept, SuccessIsComplete,
     NoCredentialBesideSandbox,
     AdmittingMeansSwept

(* The sweep of the next start only removes.                             *)
LEMMA SweepKeeps ==
  ASSUME IInv, Restart \/ SweepFails
  PROVE  IInv'
<1>1. TypeOK /\ \A a \in Attempts : Kept(a)
  BY IInvByAttempt
<1>2. /\ att' = att /\ crashes' = crashes /\ up' \in BOOLEAN
      /\ workspace' \in [Attempts -> BOOLEAN]
      /\ sandbox' \in [Attempts -> BOOLEAN]
      /\ askpass' \in [Attempts -> BOOLEAN]
  <2>1. CASE Restart
    BY <1>1, <2>1 DEF Restart, TypeOK
  <2>2. CASE SweepFails
    <3>1. att' = att /\ crashes' = crashes /\ up' = up
      BY <2>2 DEF SweepFails
    <3>2. sandbox' \in [Attempts -> BOOLEAN]
      <4>1. CASE sandbox' = [a \in Attempts |-> FALSE]
        BY <4>1
      <4>2. ASSUME NEW left, sandbox' = [a \in Attempts |-> a \in left]
            PROVE  sandbox' \in [Attempts -> BOOLEAN]
        <5>1. \A a \in Attempts : (a \in left) \in BOOLEAN
          OBVIOUS
        <5>2. QED
          BY <4>2, <5>1, Zenon
      <4>3. QED
        BY <2>2, <4>1, <4>2 DEF SweepFails
    <3>3. workspace' \in [Attempts -> BOOLEAN] /\ askpass' \in [Attempts -> BOOLEAN]
      BY <1>1, <2>2 DEF SweepFails, TypeOK
    <3>4. QED
      BY <1>1, <3>1, <3>2, <3>3 DEF TypeOK
  <2>3. QED
    BY <2>1, <2>2
<1>3. \A a \in Attempts : /\ workspace'[a] => workspace[a]
                          /\ sandbox'[a] => sandbox[a]
                          /\ askpass'[a] => askpass[a]
                          /\ up' => ~workspace'[a] /\ ~sandbox'[a]
  <2>1. CASE Restart
    BY <1>1, <2>1 DEF Restart, TypeOK
  <2>2. CASE SweepFails
    BY <1>1, <2>2 DEF SweepFails, TypeOK
  <2>3. QED
    BY <2>1, <2>2
<1>4. ASSUME NEW a \in Attempts PROVE Kept(a)'
  BY <1>1, <1>2, <1>3 DEF Kept, StageFacts, OutcomeFacts, Done, CleanupOutcome
<1>5. TypeOK'
  BY <1>1, <1>2 DEF TypeOK
<1>6. QED
  BY <1>4, <1>5, IInvByAttempt DEF IInv, Kept, SuccessIsComplete,
     NoCredentialBesideSandbox,
     AdmittingMeansSwept

-----------------------------------------------------------------------------
(* The service starts with nothing.                                      *)
LEMMA InitIInv == Init => IInv
<1> SUFFICES ASSUME Init PROVE IInv
  OBVIOUS
<1>1. Fresh \in Attempt
  BY DEF Fresh, Attempt, Stages, Failures
<1>2. TypeOK
  BY <1>1, AttemptAssumption DEF Init, TypeOK
<1>3. ASSUME NEW a \in Attempts PROVE Kept(a)
  BY <1>1 DEF Init, Fresh, Kept, StageFacts, OutcomeFacts, Done, Reviewing, BeforeSandbox,
     WithoutHelper
<1>4. QED
  BY <1>2, <1>3, IInvByAttempt

(* Every step keeps the invariant.                                       *)
LEMMA NextIInv == IInv /\ [Next]_vars => IInv'
<1> SUFFICES ASSUME IInv, [Next]_vars PROVE IInv'
  OBVIOUS
<1>1. CASE \E a \in Attempts : Operation(a)
  BY <1>1, ConstructKeeps, CreateWorkspaceKeeps, WriteAskpassKeeps, MaterializeKeeps,
     PrepareControlKeeps, CreateSandboxKeeps, CodexKeeps, RemoveSandboxKeeps, AcceptKeeps,
     RemoveWorkspaceKeeps, CleanupKeeps, PublishKeeps, FinalCleanupKeeps, CloseKeeps
  DEF Operation
<1>2. CASE \E a \in Attempts : Hang(a) \/ DeadlineExpires(a)
  BY <1>2, HangKeeps, DeadlineExpiresKeeps
<1>3. CASE Crash
  BY <1>3, CrashKeeps
<1>4. CASE Restart \/ SweepFails
  BY <1>4, SweepKeeps
<1>5. CASE UNCHANGED vars
  BY <1>5 DEF vars, hostVars, IInv, TypeOK, StageFacts, OutcomeFacts, SuccessIsComplete,
     NoCredentialBesideSandbox, AdmittingMeansSwept, Done, CleanupOutcome
<1>6. QED
  BY <1>1, <1>2, <1>3, <1>4, <1>5 DEF Next

(* The invariant holds in every reachable state, for any attempts, any     *)
(* bound on crashes, with or without deadlines and hanging commands.       *)
THEOREM Invariance == Spec => []IInv
<1>1. QED
  BY InitIInv, NextIInv, PTL DEF Spec

(* The host's resources and the attempts always have their types.          *)
THEOREM TypeCorrect == Spec => []TypeOK
<1>1. IInv => TypeOK
  BY DEF IInv
<1>2. QED
  BY <1>1, Invariance, PTL

(* No comment of run is visible before its cleanup was confirmed, nor      *)
(* while the attempt has a workspace or a sandbox.                         *)
THEOREM CleanupPrecedesPublication == Spec => []PublishedMeansCleaned
<1>1. IInv => PublishedMeansCleaned
  BY DEF IInv, TypeOK, OutcomeFacts, PublishedMeansCleaned
<1>2. QED
  BY <1>1, Invariance, PTL

(* What run leaves on the host it reports, over any earlier failure.       *)
THEOREM NoSilentLeftover == Spec => []LeftoversAreReported
<1>1. IInv => LeftoversAreReported
  BY DEF IInv, OutcomeFacts, LeftoversAreReported, Done, CleanupOutcome
<1>2. QED
  BY <1>1, Invariance, PTL

(* The publication evidence of a finished attempt is never false.          *)
THEOREM EvidenceNeverLies == Spec => []EvidenceIsTruthful
<1>1. IInv => EvidenceIsTruthful
  BY DEF IInv, OutcomeFacts, EvidenceIsTruthful, Done, PublicationEvidence
<1>2. QED
  BY <1>1, Invariance, PTL

(* run returns only for a review that is cleaned up, published and closed. *)
THEOREM ReturnMeansComplete == Spec => []SuccessIsComplete
<1>1. IInv => SuccessIsComplete
  BY DEF IInv
<1>2. QED
  BY <1>1, Invariance, PTL

(* A service that admits reviews has nothing left of a dead process.       *)
THEOREM SweepPrecedesAdmission == Spec => []AdmittingMeansSwept
<1>1. IInv => AdmittingMeansSwept
  BY DEF IInv
<1>2. QED
  BY <1>1, Invariance, PTL

(* The credential helper and the sandbox never exist together.             *)
THEOREM CredentialNeverBesideSandbox == Spec => []NoCredentialBesideSandbox
<1>1. IInv => NoCredentialBesideSandbox
  BY DEF IInv
<1>2. QED
  BY <1>1, Invariance, PTL

-----------------------------------------------------------------------------
(* The refinement of ReviewTransactions.                                   *)

Working == Reviewing \cup {"finalCleanup"}

(* The abstract state, as functions and sets of attempts.                  *)
Phases == [a \in Attempts |-> Phase(a)]
Left == {a \in Attempts : workspace[a] \/ sandbox[a]}
Posted == {a \in Attempts : att[a].published}
Recorded == [a \in Attempts |-> Records(a)]

OthersAsBefore(a) ==
  \A b \in Attempts \ {a} :
    att'[b] = att[b] /\ workspace'[b] = workspace[b] /\ sandbox'[b] = sandbox[b]

(* What the step of one attempt does to the abstract state.                *)
LEMMA StepMaps ==
  ASSUME NEW a \in Attempts, OthersAsBefore(a)
  PROVE  /\ Phases' = [Phases EXCEPT ![a] = Phase(a)']
         /\ Recorded' = [Recorded EXCEPT ![a] = Records(a)']
         /\ Left' = IF workspace'[a] \/ sandbox'[a] THEN Left \cup {a} ELSE Left \ {a}
         /\ Posted' = IF att'[a].published THEN Posted \cup {a} ELSE Posted \ {a}
<1>1. \A b \in Attempts \ {a} : Phase(b)' = Phase(b) /\ Records(b)' = Records(b)
  BY DEF OthersAsBefore, Phase, Records, Done, CleanupOutcome, PublicationEvidence
<1>2. Phases' = [Phases EXCEPT ![a] = Phase(a)'] /\ Recorded' = [Recorded EXCEPT ![a] = Records(a)']
  BY <1>1 DEF Phases, Recorded
<1>3. Left' = IF workspace'[a] \/ sandbox'[a] THEN Left \cup {a} ELSE Left \ {a}
  BY DEF OthersAsBefore, Left
<1>4. Posted' = IF att'[a].published THEN Posted \cup {a} ELSE Posted \ {a}
  BY DEF OthersAsBefore, Posted
<1>5. QED
  BY <1>2, <1>3, <1>4

(* Every operation of an attempt leaves the other attempts alone.          *)
LEMMA OperationsAreOwn ==
  ASSUME TypeOK, NEW a \in Attempts, Operation(a) \/ Hang(a) \/ DeadlineExpires(a)
  PROVE  OthersAsBefore(a) /\ up /\ up' = up
<1>1. \E t : att' = [att EXCEPT ![a] = t]
  BY Zenon DEF Operation, Construct, CreateWorkspace, WriteAskpass, Materialize, PrepareControl,
     CreateSandbox, Codex, RemoveSandbox, Accept, RemoveWorkspace, Cleanup, Publish, FinalCleanup,
     Close, Hang, DeadlineExpires, Goto, Fail, Become
<1>2. workspace' = workspace \/ \E w : workspace' = [workspace EXCEPT ![a] = w]
  BY Zenon DEF Operation, Construct, CreateWorkspace, WriteAskpass, Materialize, PrepareControl,
     CreateSandbox, Codex, RemoveSandbox, Accept, RemoveWorkspace, Cleanup, Publish, FinalCleanup,
     Close, Hang, DeadlineExpires, CleanupSucceeds, CleanupFails, hostVars
<1>3. sandbox' = sandbox \/ \E s : sandbox' = [sandbox EXCEPT ![a] = s]
  BY Zenon DEF Operation, Construct, CreateWorkspace, WriteAskpass, Materialize, PrepareControl,
     CreateSandbox, Codex, RemoveSandbox, Accept, RemoveWorkspace, Cleanup, Publish, FinalCleanup,
     Close, Hang, DeadlineExpires, CleanupSucceeds, CleanupFails, hostVars
<1>4. up /\ up' = up
  BY Zenon DEF Operation, Construct, CreateWorkspace, WriteAskpass, Materialize, PrepareControl,
     CreateSandbox, Codex, RemoveSandbox, Accept, RemoveWorkspace, Cleanup, Publish, FinalCleanup,
     Close, Hang, DeadlineExpires, At
<1>5. QED
  BY <1>1, <1>2, <1>3, <1>4 DEF TypeOK, OthersAsBefore

(* Phases of the stages.                                                   *)
LEMMA PhaseOfStage ==
  ASSUME NEW a
  PROVE  /\ att[a].pc = "new" => Phase(a) = "waiting"
         /\ att[a].pc \in Working => Phase(a) = "working"
         /\ att[a].pc = "publish" => Phase(a) = "publishing"
         /\ att[a].pc = "close" => Phase(a) = IF att[a].completed THEN "published" ELSE "failed"
         /\ att[a].pc = "done" =>
              Phase(a) = IF att[a].failure = "none" THEN "returned" ELSE "raised"
         /\ att[a].pc = "dead" => Phase(a) = "killed"
  BY DEF Phase, Working, Reviewing, Done

(* The same after a step.                                                  *)
LEMMA NextPhaseOfStage ==
  ASSUME NEW a
  PROVE  /\ att'[a].pc \in Working => Phase(a)' = "working"
         /\ att'[a].pc = "publish" => Phase(a)' = "publishing"
         /\ att'[a].pc = "close" => Phase(a)' = IF att'[a].completed THEN "published" ELSE "failed"
         /\ att'[a].pc = "done" =>
              Phase(a)' = IF att'[a].failure = "none" THEN "returned" ELSE "raised"
  BY DEF Phase, Working, Reviewing, Done

(* Only an attempt that is done has records.                               *)
LEMMA NoRecordsYet ==
  ASSUME NEW a \in Attempts
  PROVE  /\ att[a].pc # "done" => Recorded[a] = {}
         /\ att'[a].pc # "done" => Records(a)' = {}
  BY DEF Recorded, Records, Done

(* So a step before the end records nothing.                               *)
LEMMA SilentStep ==
  ASSUME NEW a \in Attempts, OthersAsBefore(a), att[a].pc # "done", att'[a].pc # "done"
  PROVE  Recorded' = Recorded
<1>1. Recorded' = [Recorded EXCEPT ![a] = {}] /\ Recorded[a] = {}
  BY StepMaps, NoRecordsYet
<1>2. QED
  BY <1>1 DEF Recorded

(* And one that publishes nothing posts nothing.                           *)
LEMMA UnpostedStep ==
  ASSUME NEW a \in Attempts, OthersAsBefore(a), att'[a].published = att[a].published
  PROVE  Posted' = Posted
  BY StepMaps DEF Posted

(* A step within the review: workspace and sandbox come and go.            *)
LEMMA WorkMaps ==
  ASSUME NEW a \in Attempts, OthersAsBefore(a), up, up' = up,
         att[a].pc \in Working, att'[a].pc \in Working, att'[a].published = att[a].published
  PROVE  Transacting!Work(a)
<1>1. Phases[a] = "working" /\ Phases' = [Phases EXCEPT ![a] = "working"]
  BY PhaseOfStage, NextPhaseOfStage, StepMaps DEF Phases
<1>2. Left' \in {Left \cup {a}, Left \ {a}}
  BY StepMaps
<1>3. Recorded' = Recorded /\ Posted' = Posted
  BY SilentStep, UnpostedStep DEF Working, Reviewing
<1>4. QED
  BY <1>1, <1>2, <1>3 DEF Transacting!Work, Transacting!Moves, Transacting!With,
     Transacting!Without, Phases, Left, Recorded, Posted

(* The operations of a review, and a cleanup that fails.                   *)
LEMMA WorkIsWork ==
  ASSUME IInv, NEW a \in Attempts,
         \/ CreateWorkspace(a) \/ WriteAskpass(a) \/ Materialize(a) \/ PrepareControl(a)
         \/ CreateSandbox(a) \/ Codex(a) \/ RemoveSandbox(a) \/ Accept(a) \/ RemoveWorkspace(a)
         \/ (Cleanup(a) /\ CleanupFails(a) /\ Fail(a, "finalCleanup", "cleanup"))
         \/ Hang(a) \/ DeadlineExpires(a)
  PROVE  Transacting!Work(a)
<1>1. TypeOK /\ att[a] \in Attempt
  BY DEF IInv, TypeOK
<1>2. OthersAsBefore(a) /\ up /\ up' = up
  BY <1>1, OperationsAreOwn DEF Operation
<1>3. att[a].pc \in Working /\ att'[a].pc \in Working /\ att'[a].published = att[a].published
  <2>1. CASE Hang(a)
    BY <1>1, <2>1 DEF Hang, At, Become, TypeOK, Attempt, Working, Reviewing
  <2>2. CASE DeadlineExpires(a)
    <3>1. att[a].pc \in {"clone", "create", "codex"}
      BY <2>2 DEF DeadlineExpires, IInv, StageFacts
    <3>2. QED
      BY <1>1, <2>2, <3>1 DEF DeadlineExpires, Become, TypeOK, Attempt, Working, Reviewing
  <2>3. CASE ~Hang(a) /\ ~DeadlineExpires(a)
    <3>1. att[a].pc \in Working
      BY <2>3 DEF CreateWorkspace, WriteAskpass, Materialize, PrepareControl, CreateSandbox, Codex,
         RemoveSandbox, Accept, RemoveWorkspace, Cleanup, At, Working, Reviewing
    <3>2. PICK p \in Working : \/ Goto(a, p)
                               \/ \E f \in Failures : Fail(a, p, f)
      BY <2>3 DEF CreateWorkspace, WriteAskpass, Materialize, PrepareControl, CreateSandbox, Codex,
         RemoveSandbox, Accept, RemoveWorkspace, Working, Reviewing, Failures
    <3>3. p \in Stages
      BY DEF Working, Reviewing, Stages
    <3>4. PICK f \in Failures : Moves(a, p, f)
      BY <1>1, <3>2, <3>3, GotoMoves, FailMoves
    <3>5. att'[a] = [att[a] EXCEPT !.pc = p, !.failure = f]
      BY <1>1, <3>3, <3>4, MovesRecord
    <3>6. QED
      BY <1>1, <3>1, <3>5 DEF Attempt
  <2>4. QED
    BY <2>1, <2>2, <2>3
<1>4. QED
  BY <1>2, <1>3, WorkMaps

(* The construction begins the work, or fails with nothing on the host.    *)
LEMMA ConstructMaps ==
  ASSUME IInv, NEW a \in Attempts, Construct(a)
  PROVE  Transacting!Begin(a) \/ Transacting!Fail(a)
<1>1. TypeOK /\ att[a] \in Attempt
  BY DEF IInv, TypeOK
<1>2. OthersAsBefore(a) /\ up /\ up' = up
  BY <1>1, OperationsAreOwn DEF Operation
<1>3. /\ att[a].pc = "new" /\ ~workspace[a] /\ ~sandbox[a] /\ ~att[a].published
      /\ workspace' = workspace /\ sandbox' = sandbox
      /\ att[a].completed => att[a].published
  BY <1>1 DEF Construct, At, hostVars, IInv, StageFacts, OutcomeFacts, BeforeSandbox, Attempt
<1>4. /\ att'[a].published = att[a].published /\ att'[a].completed = att[a].completed
      /\ att'[a].pc \in Working \/ att'[a].pc = "close"
  <2>1. CASE Become(a, [att[a] EXCEPT !.pc = "workspace", !.bound = TRUE, !.client = "open"])
    BY <1>1, <2>1 DEF Become, TypeOK, Attempt, Working, Reviewing
  <2>2. CASE Fail(a, "close", "attempt_construction")
    BY <1>1, <2>2 DEF Become, Fail, TypeOK, Attempt
  <2>3. ASSUME NEW made \in {"none", "open"},
               Become(a, [att[a] EXCEPT !.pc = "finalCleanup", !.failure = "attempt_construction",
                                        !.bound = TRUE, !.client = made])
        PROVE  /\ att'[a].published = att[a].published /\ att'[a].completed = att[a].completed
               /\ att'[a].pc \in Working
    BY <1>1, <2>3 DEF Become, TypeOK, Attempt, Working
  <2>4. QED
    BY <2>1, <2>2, <2>3 DEF Construct
<1>5. Left' = Left
  BY <1>3 DEF Left
<1>6. Recorded' = Recorded /\ Posted' = Posted
  BY <1>2, <1>3, <1>4, SilentStep, UnpostedStep DEF Working, Reviewing
<1>7. Phases[a] = "waiting" /\ Phases' = [Phases EXCEPT ![a] = Phase(a)']
  BY <1>2, <1>3, PhaseOfStage, StepMaps DEF Phases
<1>8. CASE att'[a].pc \in Working
  <2>1. Phase(a)' = "working"
    BY <1>8, NextPhaseOfStage
  <2>2. QED
    BY <1>2, <1>5, <1>6, <1>7, <2>1 DEF Transacting!Begin, Transacting!Moves,
       Phases, Left, Recorded, Posted
<1>9. CASE att'[a].pc = "close"
  <2>1. Phase(a)' = "failed"
    BY <1>1, <1>3, <1>4, <1>9, NextPhaseOfStage DEF Attempt
  <2>2. QED
    BY <1>2, <1>5, <1>6, <1>7, <2>1 DEF Transacting!Fail, Transacting!Moves,
       Phases, Left, Recorded, Posted
<1>10. QED
  BY <1>4, <1>8, <1>9

(* Only a confirmed cleanup leads to the publication.                      *)
LEMMA CleanupMaps ==
  ASSUME IInv, NEW a \in Attempts, Cleanup(a)
  PROVE  Transacting!Clear(a) \/ Transacting!Work(a)
<1>1. TypeOK /\ att[a] \in Attempt
  BY DEF IInv, TypeOK
<1>2. OthersAsBefore(a) /\ up /\ up' = up
  BY <1>1, OperationsAreOwn DEF Operation
<1>3. CASE CleanupFails(a) /\ Fail(a, "finalCleanup", "cleanup")
  BY <1>3, WorkIsWork
<1>4. CASE CleanupSucceeds(a) /\ Become(a, [att[a] EXCEPT !.pc = "publish", !.confirmed = TRUE])
  <2>1. /\ att[a].pc \in Working /\ att'[a].pc = "publish"
        /\ att'[a].published = att[a].published
    BY <1>1, <1>4 DEF Cleanup, At, Become, TypeOK, Attempt, Working, Reviewing
  <2>2. ~workspace'[a] /\ ~sandbox'[a]
    BY <1>1, <1>4 DEF CleanupSucceeds, TypeOK
  <2>3. Left' = Left \ {a}
    BY <1>2, <2>2, StepMaps
  <2>4. Recorded' = Recorded /\ Posted' = Posted
    BY <1>2, <2>1, SilentStep, UnpostedStep DEF Working, Reviewing
  <2>5. Phases[a] = "working" /\ Phases' = [Phases EXCEPT ![a] = "publishing"]
    BY <1>2, <2>1, PhaseOfStage, NextPhaseOfStage, StepMaps DEF Phases
  <2>6. QED
    BY <1>2, <2>3, <2>4, <2>5 DEF Transacting!Clear, Transacting!Moves, Transacting!Without,
       Phases, Left, Recorded, Posted
<1>5. QED
  BY <1>3, <1>4 DEF Cleanup

(* A publication is answered, or fails with or without a comment.          *)
LEMMA PublishMaps ==
  ASSUME IInv, NEW a \in Attempts, Publish(a)
  PROVE  Transacting!Publish(a) \/ Transacting!Fail(a)
<1>1. TypeOK /\ att[a] \in Attempt
  BY DEF IInv, TypeOK
<1>2. OthersAsBefore(a) /\ up /\ up' = up
  BY <1>1, OperationsAreOwn DEF Operation
<1>3. /\ att[a].pc = "publish" /\ ~att[a].published /\ ~att[a].completed
      /\ workspace' = workspace /\ sandbox' = sandbox
  BY <1>1 DEF Publish, At, hostVars, IInv, OutcomeFacts, Attempt
<1>4. att'[a].pc = "close" /\ att'[a].completed \in BOOLEAN /\ att'[a].published \in BOOLEAN
  <2>1. CASE Become(a, [att[a] EXCEPT !.pc = "close", !.published = TRUE, !.completed = TRUE])
    BY <1>1, <2>1 DEF Become, TypeOK, Attempt
  <2>2. ASSUME NEW visible \in BOOLEAN,
               Become(a, [att[a] EXCEPT !.pc = "close", !.published = visible,
                                        !.failure = "publication"])
        PROVE  /\ att'[a].pc = "close" /\ att'[a].completed \in BOOLEAN
               /\ att'[a].published \in BOOLEAN
    BY <1>1, <2>2 DEF Become, TypeOK, Attempt
  <2>3. CASE Fail(a, "close", "github")
    BY <1>1, <2>3 DEF Become, Fail, TypeOK, Attempt
  <2>4. QED
    BY <2>1, <2>2, <2>3 DEF Publish
<1>5. Left' = Left /\ Recorded' = Recorded
  BY <1>2, <1>3, <1>4, SilentStep DEF Left
<1>6. Posted' \in {Posted, Posted \cup {a}}
  BY <1>2, <1>3, StepMaps DEF Posted
<1>7. Phases[a] = "publishing" /\ Phase(a) = "publishing"
  BY <1>3, PhaseOfStage DEF Phases
<1>8. Phases' = [Phases EXCEPT ![a] = IF att'[a].completed THEN "published" ELSE "failed"]
  BY <1>2, <1>4, NextPhaseOfStage, StepMaps
<1>9. CASE att'[a].completed
  BY <1>2, <1>5, <1>6, <1>7, <1>8, <1>9 DEF Transacting!Publish, Transacting!Moves,
     Phases, Left, Recorded, Posted
<1>10. CASE ~att'[a].completed
  BY <1>2, <1>5, <1>6, <1>7, <1>8, <1>10 DEF Transacting!Fail, Transacting!Moves,
     Phases, Left, Recorded, Posted
<1>11. QED
  BY <1>4, <1>9, <1>10

(* The last cleanup ends in a failure, whatever it removed.                *)
LEMMA FinalCleanupMaps ==
  ASSUME IInv, NEW a \in Attempts, FinalCleanup(a)
  PROVE  Transacting!Fail(a)
<1>1. TypeOK /\ att[a] \in Attempt
  BY DEF IInv, TypeOK
<1>2. OthersAsBefore(a) /\ up /\ up' = up
  BY <1>1, OperationsAreOwn DEF Operation
<1>3. att[a].pc = "finalCleanup" /\ ~att[a].completed
  BY <1>1 DEF FinalCleanup, At, IInv, OutcomeFacts, Attempt
<1>4. /\ att'[a].pc = "close" /\ att'[a].completed = att[a].completed
      /\ att'[a].published = att[a].published
  <2>1. CASE Become(a, [att[a] EXCEPT !.pc = "close", !.confirmed = TRUE])
    BY <1>1, <2>1 DEF Become, TypeOK, Attempt
  <2>2. CASE Fail(a, "close", "cleanup")
    BY <1>1, <2>2 DEF Become, Fail, TypeOK, Attempt
  <2>3. QED
    BY <2>1, <2>2 DEF FinalCleanup
<1>5. (workspace'[a] \/ sandbox'[a]) => (workspace[a] \/ sandbox[a])
  BY <1>1 DEF FinalCleanup, CleanupSucceeds, CleanupFails, hostVars, TypeOK
<1>6. Left' \in {Left, Left \ {a}}
  BY <1>2, <1>5, StepMaps DEF Left
<1>7. Recorded' = Recorded /\ Posted' = Posted
  BY <1>2, <1>3, <1>4, SilentStep, UnpostedStep
<1>8. Phases[a] = "working" /\ Phases' = [Phases EXCEPT ![a] = "failed"]
  BY <1>2, <1>3, <1>4, PhaseOfStage, NextPhaseOfStage, StepMaps DEF Phases, Working
<1>9. QED
  BY <1>2, <1>6, <1>7, <1>8 DEF Transacting!Fail, Transacting!Moves, Transacting!Without,
     Phases, Left, Recorded, Posted

(* run ends: it returns only after a publication and a confirmed cleanup,  *)
(* and its records are true.                                               *)
LEMMA CloseMaps ==
  ASSUME IInv, NEW a \in Attempts, Close(a)
  PROVE  Transacting!Return(a) \/ Transacting!Raise(a)
<1>1. TypeOK /\ att[a] \in Attempt
  BY DEF IInv, TypeOK
<1>2. OthersAsBefore(a) /\ up /\ up' = up
  BY <1>1, OperationsAreOwn DEF Operation
<1>3. /\ att[a].pc = "close" /\ workspace' = workspace /\ sandbox' = sandbox
      /\ att[a].failure = "none" => att[a].completed
      /\ att[a].completed => att[a].published
      /\ att[a].published => att[a].confirmed
      /\ att[a].confirmed => ~workspace[a] /\ ~sandbox[a]
      /\ att[a].failure = "none" => att[a].bound
  BY DEF Close, At, hostVars, IInv, OutcomeFacts
<1>4. /\ att'[a].pc = "done"
      /\ att'[a].published = att[a].published /\ att'[a].completed = att[a].completed
      /\ att'[a].confirmed = att[a].confirmed /\ att'[a].bound = att[a].bound
      /\ att[a].failure # "none" => att'[a].failure # "none"
  <2>1. CASE Become(a, [att[a] EXCEPT !.pc = "done",
                          !.client = IF att[a].client = "open" THEN "closed" ELSE "none"])
    BY <1>1, <2>1 DEF Become, TypeOK, Attempt
  <2>2. CASE Fail(a, "done", IF att[a].failure = "none" THEN "client_cleanup" ELSE att[a].failure)
    BY <1>1, <2>2 DEF Become, Fail, TypeOK, Attempt
  <2>3. QED
    BY <2>1, <2>2 DEF Close
<1>5. Left' = Left /\ Posted' = Posted
  BY <1>2, <1>3, <1>4, UnpostedStep DEF Left
<1>6. Phases[a] = IF att[a].completed THEN "published" ELSE "failed"
  BY <1>3, PhaseOfStage DEF Phases
<1>7. Phases' = [Phases EXCEPT ![a] = IF att'[a].failure = "none" THEN "returned" ELSE "raised"]
  BY <1>2, <1>4, NextPhaseOfStage, StepMaps
<1>8. \E told \in SUBSET {"cleanup", "publication"} :
        /\ "cleanup" \in told => a \notin Left
        /\ "publication" \in told => Phases[a] = "published"
        /\ att'[a].failure = "none" => "cleanup" \in told
        /\ Recorded' = [Recorded EXCEPT ![a] = @ \cup told]
  <2> DEFINE told == Records(a)'
  <2>1. told \in SUBSET {"cleanup", "publication"}
    BY DEF Records
  <2>2. "cleanup" \in told <=> att'[a].bound /\ att'[a].confirmed
    BY <1>4 DEF Records, Done, CleanupOutcome
  <2>3. "publication" \in told <=> att'[a].completed
    BY <1>4 DEF Records, Done, PublicationEvidence
  <2>4. Recorded[a] = {} /\ Recorded' = [Recorded EXCEPT ![a] = told]
    BY <1>2, <1>3, NoRecordsYet, StepMaps
  <2>5. "cleanup" \in told => a \notin Left
    BY <1>3, <1>4, <2>2 DEF Left
  <2>6. "publication" \in told => Phases[a] = "published"
    BY <1>4, <1>6, <2>3
  <2>7. att'[a].failure = "none" => "cleanup" \in told
    BY <1>3, <1>4, <2>2
  <2>8. Recorded[a] \cup told = told
    BY <2>4
  <2> HIDE DEF told
  <2>9. QED
    BY <2>1, <2>4, <2>5, <2>6, <2>7, <2>8
<1>9. CASE att'[a].failure = "none"
  BY <1>2, <1>3, <1>4, <1>5, <1>6, <1>7, <1>8, <1>9 DEF Transacting!Return, Transacting!Ends,
     Transacting!Moves, Phases, Left, Recorded, Posted
<1>10. CASE att'[a].failure # "none"
  BY <1>2, <1>5, <1>6, <1>7, <1>8, <1>10 DEF Transacting!Raise, Transacting!Ends,
     Transacting!Moves, Phases, Left, Recorded, Posted
<1>11. QED
  BY <1>9, <1>10

(* A crash kills what runs.                                                *)
LEMMA CrashMaps ==
  ASSUME IInv, Crash
  PROVE  Transacting!Kill
<1>1. TypeOK
  BY DEF IInv
<1>2. PICK visible \in SUBSET {a \in Attempts : att[a].pc = "publish"} :
        att' = [a \in Attempts |->
                  IF att[a].pc \in {"new", "done"} THEN att[a]
                  ELSE [att[a] EXCEPT !.pc = "dead", !.stuck = FALSE,
                                      !.published = @ \/ a \in visible]]
  BY DEF Crash
<1>3. up /\ up' = FALSE /\ workspace' = workspace /\ sandbox' = sandbox
  BY DEF Crash, hostVars
<1> DEFINE lost == {a \in Attempts : att[a].pc \notin {"new", "done"}}
<1>4. ASSUME NEW a \in Attempts, a \in lost
      PROVE  /\ Phase(a)' = "killed" /\ Records(a)' = Records(a)
             /\ att'[a].published <=> att[a].published \/ a \in visible
  <2> DEFINE v == att[a].published \/ a \in visible
  <2>1. att'[a] = [att[a] EXCEPT !.pc = "dead", !.stuck = FALSE, !.published = v]
    BY <1>2, <1>4, Zenon
  <2>2. att'[a].pc = "dead" /\ (att'[a].published <=> v)
    <3>1. v \in BOOLEAN /\ att[a] \in Attempt
      BY <1>1 DEF TypeOK
    <3> HIDE DEF v
    <3>2. QED
      BY <2>1, <3>1 DEF Attempt
  <2>3. QED
    BY <1>4, <2>2 DEF Phase, Done, Records, Reviewing
<1>5. ASSUME NEW a \in Attempts, a \notin lost
      PROVE  /\ Phase(a)' = Phase(a) /\ Records(a)' = Records(a)
             /\ att'[a].published = att[a].published /\ a \notin visible
  <2>1. att'[a] = att[a] /\ a \notin visible
    BY <1>2, <1>5
  <2>2. QED
    BY <2>1 DEF Phase, Done, Records, CleanupOutcome, PublicationEvidence
<1>6. Phases' = [a \in Attempts |-> IF a \in lost THEN "killed" ELSE Phases[a]]
  BY <1>4, <1>5 DEF Phases
<1>7. Recorded' = Recorded /\ Left' = Left
  BY <1>3, <1>4, <1>5 DEF Recorded, Left
<1>8. Posted' = Posted \cup visible
  BY <1>4, <1>5 DEF Posted
<1>9. \A a \in Attempts : Phases[a] \in Transacting!Running => a \in lost
  BY PhaseOfStage DEF Phases, Transacting!Running
<1>10. visible \in SUBSET {a \in Attempts : Phases[a] = "publishing"}
  BY PhaseOfStage DEF Phases
<1>11. lost \in SUBSET Attempts
  OBVIOUS
<1> HIDE DEF lost
<1>12. QED
  BY <1>3, <1>6, <1>7, <1>8, <1>9, <1>10, <1>11 DEF Transacting!Kill,
     Phases, Left, Recorded, Posted

(* The sweep precedes the next start.                                      *)
LEMMA SweepMaps ==
  ASSUME IInv, Restart \/ SweepFails
  PROVE  Transacting!Start \/ Transacting!StartFails
<1>1. TypeOK
  BY DEF IInv
<1>2. Phases' = Phases /\ Recorded' = Recorded /\ Posted' = Posted
  <2>1. att' = att
    BY DEF Restart, SweepFails
  <2>2. QED
    BY <2>1 DEF Phases, Phase, Recorded, Records, Posted, Done, CleanupOutcome,
       PublicationEvidence
<1>3. CASE Restart
  <2>1. Left' = {}
    BY <1>3 DEF Restart, Left
  <2>2. QED
    BY <1>2, <1>3, <2>1 DEF Restart, Transacting!Start, Phases, Left, Recorded, Posted
<1>4. CASE SweepFails
  <2>1. \A a \in Attempts : /\ workspace'[a] => workspace[a]
                            /\ sandbox'[a] => sandbox[a]
    BY <1>1, <1>4 DEF SweepFails, TypeOK
  <2>2. Left' \in SUBSET Left
    BY <2>1 DEF Left
  <2>3. QED
    BY <1>2, <1>4, <2>2 DEF SweepFails, Transacting!StartFails, Phases, Left, Recorded, Posted
<1>5. QED
  BY <1>3, <1>4

(* For any attempts, crashes, failures and hanging commands, run with its  *)
(* reviewer, sandbox and sweep is the transaction of ReviewTransactions.   *)
THEOREM TransactionsAreImplemented == Spec => ImplementsTransactions
<1>1. Init => Transacting!TInit
  <2> SUFFICES ASSUME Init PROVE Transacting!TInit
    OBVIOUS
  <2>1. \A a \in Attempts : /\ att[a].pc = "new" /\ ~att[a].published
                            /\ ~workspace[a] /\ ~sandbox[a]
    BY DEF Init, Fresh
  <2>2. Phases = [a \in Attempts |-> "waiting"] /\ Recorded = [a \in Attempts |-> {}]
    BY <2>1, PhaseOfStage, NoRecordsYet DEF Phases, Recorded
  <2>3. Left = {} /\ Posted = {}
    BY <2>1 DEF Left, Posted
  <2>4. QED
    BY <2>2, <2>3 DEF Init, Transacting!TInit, Phases, Left, Recorded, Posted
<1>2. ASSUME IInv, [Next]_vars
      PROVE  [Transacting!TNext]_(Transacting!tvars)
  <2>1. ASSUME NEW a \in Attempts, Operation(a)
        PROVE  Transacting!TNext
    <3>1. CASE Construct(a)
      BY <1>2, <3>1, ConstructMaps DEF Transacting!TNext
    <3>2. CASE Cleanup(a)
      BY <1>2, <3>2, CleanupMaps DEF Transacting!TNext
    <3>3. CASE Publish(a)
      BY <1>2, <3>3, PublishMaps DEF Transacting!TNext
    <3>4. CASE FinalCleanup(a)
      BY <1>2, <3>4, FinalCleanupMaps DEF Transacting!TNext
    <3>5. CASE Close(a)
      BY <1>2, <3>5, CloseMaps DEF Transacting!TNext
    <3>6. CASE \/ CreateWorkspace(a) \/ WriteAskpass(a) \/ Materialize(a) \/ PrepareControl(a)
               \/ CreateSandbox(a) \/ Codex(a) \/ RemoveSandbox(a) \/ Accept(a)
               \/ RemoveWorkspace(a)
      BY <1>2, <3>6, WorkIsWork DEF Transacting!TNext
    <3>7. QED
      BY <2>1, <3>1, <3>2, <3>3, <3>4, <3>5, <3>6 DEF Operation
  <2>2. ASSUME NEW a \in Attempts, Hang(a) \/ DeadlineExpires(a)
        PROVE  Transacting!TNext
    BY <1>2, <2>2, WorkIsWork DEF Transacting!TNext
  <2>3. CASE Crash
    BY <1>2, <2>3, CrashMaps DEF Transacting!TNext
  <2>4. CASE Restart \/ SweepFails
    BY <1>2, <2>4, SweepMaps DEF Transacting!TNext
  <2>5. CASE UNCHANGED vars
    BY <2>5 DEF vars, hostVars, Transacting!tvars, Phase, Records, Done, CleanupOutcome,
       PublicationEvidence
  <2>6. QED
    BY <1>2, <2>1, <2>2, <2>3, <2>4, <2>5 DEF Next
<1>3. QED
  BY <1>1, <1>2, Invariance, PTL DEF Spec, ImplementsTransactions, Transacting!TSpec
=============================================================================
