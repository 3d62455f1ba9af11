---------------------------- MODULE ReviewAttempt ----------------------------
(***************************************************************************)
(* The transaction of one accepted review and the host resources it owns:  *)
(* ReviewRunner.run, Reviewer.review and _SandboxLifecycle.run inside it,  *)
(* ReviewResourceManager.cleanup after them, and sweep_stale when a killed *)
(* service comes up again.  Attempts run concurrently, each with its own   *)
(* workspace directory and sandbox name.                                   *)
(*                                                                         *)
(* A step is one operation on the host, the sandbox service or GitHub,     *)
(* with the exception handling that follows it; any of them may fail.      *)
(*                                                                         *)
(* Operators named Faulty... are variants of the step that follows them,   *)
(* with a mistake in it; no specification uses them.                       *)
(***************************************************************************)
EXTENDS Naturals, FiniteSets

CONSTANTS Attempts,         \* attempt identifiers (uuid4, never reused)
          CommandsMayHang,  \* may git, sbx create or sbx exec never return?
          DeadlineActive,   \* does a review run inside review_deadline_scope?
          MaxCrashes        \* bound on crashes of the service

ASSUME AttemptAssumption ==
  /\ CommandsMayHang \in BOOLEAN
  /\ DeadlineActive \in BOOLEAN
  /\ MaxCrashes \in Nat

VARIABLES up,         \* the service runs and admits reviews
          crashes,    \* crashes so far
          workspace,  \* does the attempt's workspace directory exist?
          sandbox,    \* does the attempt's sandbox exist?
          askpass,    \* does the workspace hold the git credential helper?
          att         \* what run knows of the attempt, see Attempt

hostVars == <<workspace, sandbox, askpass>>
vars == <<up, crashes, hostVars, att>>

Stages == {"new", "workspace", "askpass", "clone", "control", "create", "codex",
           "rmSandbox", "accept", "rmWorkspace", "cleanup", "publish",
           "finalCleanup", "close", "done", "dead"}
(* The stage a failure is reported under; "github" stands for the client's *)
(* own operation names, which a ReviewError of its requests carries.       *)
Failures == {"none", "attempt_construction", "review", "cleanup", "publication",
             "github", "client_cleanup"}

Attempt ==
  [pc : Stages, bound : BOOLEAN,      \* resources is not None
   client : {"none", "open", "closed"},
   failure : Failures, confirmed : BOOLEAN, published : BOOLEAN,
   completed : BOOLEAN,               \* completion is not None
   stuck : BOOLEAN]                   \* its command does not return

Fresh == [pc |-> "new", bound |-> FALSE, client |-> "none", failure |-> "none",
          confirmed |-> FALSE, published |-> FALSE, completed |-> FALSE, stuck |-> FALSE]

Init ==
  /\ up = TRUE
  /\ crashes = 0
  /\ workspace = [a \in Attempts |-> FALSE]
  /\ sandbox = [a \in Attempts |-> FALSE]
  /\ askpass = [a \in Attempts |-> FALSE]
  /\ att = [a \in Attempts |-> Fresh]

At(a, stage) == att[a].pc = stage /\ ~att[a].stuck /\ up
Become(a, t) == att' = [att EXCEPT ![a] = t]
Goto(a, stage) == Become(a, [att[a] EXCEPT !.pc = stage])
Fail(a, stage, failure) == Become(a, [att[a] EXCEPT !.pc = stage, !.failure = failure])

-----------------------------------------------------------------------------
(* run: attempt_construction.                                              *)
Construct(a) ==
  /\ At(a, "new")
  /\ \/ Become(a, [att[a] EXCEPT !.pc = "workspace", !.bound = TRUE, !.client = "open"])
     \* for_attempt, the client factory, or the adapter and reviewer fail
     \/ Fail(a, "close", "attempt_construction")
     \/ \E made \in {"none", "open"} :
          Become(a, [att[a] EXCEPT !.pc = "finalCleanup", !.failure = "attempt_construction",
                                   !.bound = TRUE, !.client = made])
  /\ UNCHANGED <<up, crashes, hostVars>>

\* Reviewer._create_workspace; its failure is outside the try that removes it
CreateWorkspace(a) ==
  /\ At(a, "workspace")
  /\ \/ /\ ~workspace[a]
        /\ workspace' = [workspace EXCEPT ![a] = TRUE]
        /\ Goto(a, "askpass")
     \/ Fail(a, "finalCleanup", "review") /\ UNCHANGED workspace
  /\ UNCHANGED <<up, crashes, sandbox, askpass>>

\* the installation token and the credential helper for git
WriteAskpass(a) ==
  /\ At(a, "askpass")
  /\ \/ askpass' = [askpass EXCEPT ![a] = TRUE] /\ Goto(a, "clone")
     \* no token, or a helper that is written and cannot be made executable
     \/ /\ \E written \in BOOLEAN : askpass' = [askpass EXCEPT ![a] = written]
        /\ Fail(a, "rmWorkspace", "review")
  /\ UNCHANGED <<up, crashes, workspace, sandbox>>

\* the helper is left for the workspace's removal
FaultyMaterialize(a) ==
  /\ At(a, "clone")
  /\ Goto(a, "control") \/ Fail(a, "rmWorkspace", "review")
  /\ UNCHANGED <<up, crashes, hostVars>>

(* Clone and fetches, the helper's unlink in their finally clause, then    *)
(* the checkout, the exact-head and size checks and the diff.  The unlink  *)
(* may fail, which fails the materialization.                              *)
Materialize(a) ==
  /\ At(a, "clone")
  /\ \/ askpass' = [askpass EXCEPT ![a] = FALSE] /\ Goto(a, "control")
     \/ /\ \E left \in {askpass[a], FALSE} : askpass' = [askpass EXCEPT ![a] = left]
        /\ Fail(a, "rmWorkspace", "review")
  /\ UNCHANGED <<up, crashes, workspace, sandbox>>

\* _SandboxLifecycle.run: the control directory and its artifacts
PrepareControl(a) ==
  /\ At(a, "control")
  /\ Goto(a, "create") \/ Fail(a, "rmSandbox", "review")
  /\ UNCHANGED <<up, crashes, hostVars>>

\* a create that fails may have made the sandbox all the same
CreateSandbox(a) ==
  /\ At(a, "create")
  /\ \/ sandbox' = [sandbox EXCEPT ![a] = TRUE] /\ Goto(a, "codex")
     \/ /\ \E made \in BOOLEAN : sandbox' = [sandbox EXCEPT ![a] = made]
        /\ Fail(a, "rmSandbox", "review")
  /\ UNCHANGED <<up, crashes, workspace, askpass>>

\* the copy of the checkout, its head, codex, and its bounded candidate
Codex(a) ==
  /\ At(a, "codex")
  /\ Goto(a, "rmSandbox") \/ Fail(a, "rmSandbox", "review")
  /\ UNCHANGED <<up, crashes, hostVars>>

(* The finally clause of _SandboxLifecycle.run: a removal that fails is    *)
(* reported only when nothing failed before.                               *)
RemoveSandbox(a) ==
  /\ At(a, "rmSandbox")
  /\ \/ /\ sandbox' = [sandbox EXCEPT ![a] = FALSE]
        /\ Goto(a, IF att[a].failure = "none" THEN "accept" ELSE "rmWorkspace")
     \/ /\ \E left \in {sandbox[a], FALSE} : sandbox' = [sandbox EXCEPT ![a] = left]
        /\ Fail(a, "rmWorkspace", "review")
  /\ UNCHANGED <<up, crashes, workspace, askpass>>

\* CandidateAcceptance.accept: validation and grounding of the candidate
Accept(a) ==
  /\ At(a, "accept")
  /\ Goto(a, "rmWorkspace") \/ Fail(a, "rmWorkspace", "review")
  /\ UNCHANGED <<up, crashes, hostVars>>

\* the finally clause of Reviewer.review, reported like the sandbox's
RemoveWorkspace(a) ==
  /\ At(a, "rmWorkspace")
  /\ \/ /\ workspace' = [workspace EXCEPT ![a] = FALSE]
        /\ askpass' = [askpass EXCEPT ![a] = FALSE]
        /\ Goto(a, IF att[a].failure = "none" THEN "cleanup" ELSE "finalCleanup")
     \/ Fail(a, "finalCleanup", "review") /\ UNCHANGED <<workspace, askpass>>
  /\ UNCHANGED <<up, crashes, sandbox>>

-----------------------------------------------------------------------------
(* ReviewResourceManager.cleanup: both removals are tried, whatever became *)
(* of the first; it succeeds when neither failed.                          *)
CleanupSucceeds(a) ==
  /\ workspace' = [workspace EXCEPT ![a] = FALSE]
  /\ askpass' = [askpass EXCEPT ![a] = FALSE]
  /\ sandbox' = [sandbox EXCEPT ![a] = FALSE]

CleanupFails(a) ==
  \/ UNCHANGED hostVars    \* a symlink where a directory should be: nothing is tried
  \/ /\ workspace[a]       \* the workspace stays, the sandbox is removed or not
     /\ UNCHANGED <<workspace, askpass>>
     /\ \E left \in {sandbox[a], FALSE} : sandbox' = [sandbox EXCEPT ![a] = left]
  \/ /\ workspace' = [workspace EXCEPT ![a] = FALSE]   \* listing or removal fails
     /\ askpass' = [askpass EXCEPT ![a] = FALSE]
     /\ \E left \in {sandbox[a], FALSE} : sandbox' = [sandbox EXCEPT ![a] = left]

\* a best effort that does not stop the publication
FaultyCleanup(a) ==
  /\ At(a, "cleanup")
  /\ \/ /\ CleanupSucceeds(a)
        /\ Become(a, [att[a] EXCEPT !.pc = "publish", !.confirmed = TRUE])
     \/ CleanupFails(a) /\ Goto(a, "publish")
  /\ UNCHANGED <<up, crashes>>

\* the cleanup that gates publication
Cleanup(a) ==
  /\ At(a, "cleanup")
  /\ \/ /\ CleanupSucceeds(a)
        /\ Become(a, [att[a] EXCEPT !.pc = "publish", !.confirmed = TRUE])
     \/ CleanupFails(a) /\ Fail(a, "finalCleanup", "cleanup")
  /\ UNCHANGED <<up, crashes>>

\* a request that times out is a ReviewError also when it may be applied
FaultyPublish(a) ==
  /\ At(a, "publish")
  /\ \/ Become(a, [att[a] EXCEPT !.pc = "close", !.published = TRUE, !.completed = TRUE])
     \/ \E visible \in BOOLEAN, stage \in {"publication", "github"} :
          Become(a, [att[a] EXCEPT !.pc = "close", !.published = visible, !.failure = stage])
  /\ UNCHANGED <<up, crashes, hostVars>>

(* publish_review_result.  Its failure may leave a comment, see            *)
(* Publication.  A ReviewError of the client, reported under the client's  *)
(* own operation, comes from a request that is not a mutation of a comment *)
(* and precedes the mutation: after it the reconciliation replaces it.     *)
Publish(a) ==
  /\ At(a, "publish")
  /\ \/ Become(a, [att[a] EXCEPT !.pc = "close", !.published = TRUE, !.completed = TRUE])
     \/ \E visible \in BOOLEAN :
          Become(a, [att[a] EXCEPT !.pc = "close", !.published = visible,
                                   !.failure = "publication"])
     \/ Fail(a, "close", "github")
  /\ UNCHANGED <<up, crashes, hostVars>>

\* the failure that came first is kept
FaultyFinalCleanup(a) ==
  /\ At(a, "finalCleanup")
  /\ \/ /\ CleanupSucceeds(a)
        /\ Become(a, [att[a] EXCEPT !.pc = "close", !.confirmed = TRUE])
     \/ CleanupFails(a) /\ Goto(a, "close")
  /\ UNCHANGED <<up, crashes>>

\* the cleanup in run's finally clause; its failure overrides an earlier one
FinalCleanup(a) ==
  /\ At(a, "finalCleanup")
  /\ \/ /\ CleanupSucceeds(a)
        /\ Become(a, [att[a] EXCEPT !.pc = "close", !.confirmed = TRUE])
     \/ CleanupFails(a) /\ Fail(a, "close", "cleanup")
  /\ UNCHANGED <<up, crashes>>

\* the client is closed, and run returns or raises
Close(a) ==
  /\ At(a, "close")
  /\ \/ Become(a, [att[a] EXCEPT !.pc = "done",
                      !.client = IF att[a].client = "open" THEN "closed" ELSE "none"])
     \/ /\ att[a].client = "open"
        /\ Fail(a, "done", IF att[a].failure = "none" THEN "client_cleanup" ELSE att[a].failure)
  /\ UNCHANGED <<up, crashes, hostVars>>

-----------------------------------------------------------------------------
(* Commands.  Removals and listings have a timeout of their own, GitHub    *)
(* calls the HTTP client's; git, sbx create and sbx exec are bounded by    *)
(* the review deadline and by nothing else.                                *)
Hang(a) ==
  /\ CommandsMayHang
  /\ \E stage \in {"clone", "create", "codex"} : At(a, stage)
  /\ Become(a, [att[a] EXCEPT !.stuck = TRUE])
  /\ UNCHANGED <<up, crashes, hostVars>>

\* the sandbox service's commands do not use the review deadline
FaultyDeadlineExpires(a) ==
  /\ DeadlineActive
  /\ up
  /\ att[a].stuck /\ att[a].pc = "clone"
  /\ Become(a, [att[a] EXCEPT !.stuck = FALSE, !.failure = "review", !.pc = "rmWorkspace"])
  /\ askpass' = [askpass EXCEPT ![a] = FALSE]
  /\ UNCHANGED <<up, crashes, workspace, sandbox>>

\* _run_bounded_process at the deadline: the child is killed, TimeoutError
DeadlineExpires(a) ==
  /\ DeadlineActive
  /\ up
  /\ att[a].stuck
  /\ Become(a, [att[a] EXCEPT !.stuck = FALSE, !.failure = "review",
                     !.pc = IF att[a].pc = "clone" THEN "rmWorkspace" ELSE "rmSandbox"])
  /\ \E left \in {askpass[a], FALSE} : askpass' = [askpass EXCEPT ![a] = left]
  /\ \E made \in IF att[a].pc = "create" THEN BOOLEAN ELSE {sandbox[a]} :
       sandbox' = [sandbox EXCEPT ![a] = made]
  /\ UNCHANGED <<up, crashes, workspace>>

-----------------------------------------------------------------------------
(* The service is killed, and the supervisor starts it again.  Attempts of *)
(* the dead process are forgotten: nothing about them is stored.  What     *)
(* they were publishing is visible or not.                                 *)
Crash ==
  /\ up
  /\ crashes < MaxCrashes
  /\ up' = FALSE
  /\ crashes' = crashes + 1
  /\ \E visible \in SUBSET {a \in Attempts : att[a].pc = "publish"} :
       att' = [a \in Attempts |->
                 IF att[a].pc \in {"new", "done"} THEN att[a]
                 ELSE [att[a] EXCEPT !.pc = "dead", !.stuck = FALSE,
                                     !.published = @ \/ a \in visible]]
  /\ UNCHANGED hostVars

\* the service comes up whatever the sweep left
FaultyRestart ==
  /\ ~up
  /\ up' = TRUE
  /\ UNCHANGED <<crashes, hostVars, att>>

\* sweep_stale succeeds, and only then the lifecycle is entered
Restart ==
  /\ ~up
  /\ up' = TRUE
  /\ sandbox' = [a \in Attempts |-> FALSE]
  /\ workspace' = [a \in Attempts |-> FALSE]
  /\ askpass' = [a \in Attempts |-> FALSE]
  /\ UNCHANGED <<crashes, att>>

(* sweep_stale stops at the first entry it cannot remove; it turns to the  *)
(* workspaces only when every sandbox is gone.                             *)
SweepFails ==
  /\ ~up
  /\ \/ /\ \E left \in SUBSET {a \in Attempts : sandbox[a]} :
             sandbox' = [a \in Attempts |-> a \in left]
        /\ UNCHANGED <<workspace, askpass>>
     \/ /\ sandbox' = [a \in Attempts |-> FALSE]
        /\ \E left \in (SUBSET {a \in Attempts : workspace[a]}) \ {{}} :
             /\ workspace' = [a \in Attempts |-> a \in left]
             /\ askpass' = [a \in Attempts |-> askpass[a] /\ a \in left]
  /\ UNCHANGED <<up, crashes, att>>

-----------------------------------------------------------------------------
Operation(a) ==
  \/ Construct(a) \/ CreateWorkspace(a) \/ WriteAskpass(a) \/ Materialize(a)
  \/ PrepareControl(a) \/ CreateSandbox(a) \/ Codex(a) \/ RemoveSandbox(a)
  \/ Accept(a) \/ RemoveWorkspace(a) \/ Cleanup(a) \/ Publish(a)
  \/ FinalCleanup(a) \/ Close(a)

Next ==
  \/ \E a \in Attempts : Operation(a) \/ Hang(a) \/ DeadlineExpires(a)
  \/ Crash \/ Restart \/ SweepFails

Spec == Init /\ [][Next]_vars

(* A command that is not stuck returns, and an active deadline expires.    *)
(* Nothing obliges the supervisor to start a killed service again.         *)
Fairness == \A a \in Attempts : WF_vars(Operation(a)) /\ WF_vars(DeadlineExpires(a))

FairSpec == Spec /\ Fairness

-----------------------------------------------------------------------------
(* Lifecycle evidence of a finished attempt.                               *)
CleanupOutcome(a) ==
  IF ~att[a].bound THEN "not_required"
  ELSE IF att[a].confirmed THEN "confirmed" ELSE "failed"

PublicationEvidence(a) ==
  IF att[a].completed THEN "published"
  ELSE IF att[a].failure = "publication" THEN "failed" ELSE "suppressed"

(* Type invariant of the host's resources and of the attempts.             *)
TypeOK ==
  /\ up \in BOOLEAN
  /\ crashes \in 0..MaxCrashes
  /\ workspace \in [Attempts -> BOOLEAN]
  /\ sandbox \in [Attempts -> BOOLEAN]
  /\ askpass \in [Attempts -> BOOLEAN]
  /\ att \in [Attempts -> Attempt]

Done(a) == att[a].pc = "done"

(* Cleanup completes before a comment is published: in no interleaving of  *)
(* failures is a comment visible before the resource manager confirmed the *)
(* removal, or while the attempt owns a workspace or a sandbox.            *)
PublishedMeansCleaned ==
  \A a \in Attempts :
    att[a].published => att[a].confirmed /\ ~workspace[a] /\ ~sandbox[a]

(* A finished attempt that left a workspace or a sandbox behind says so:   *)
(* its cleanup evidence is "failed" and its failure is the cleanup's, not  *)
(* the one that came first.                                                *)
LeftoversAreReported ==
  \A a \in Attempts :
    Done(a) /\ (workspace[a] \/ sandbox[a]) =>
      CleanupOutcome(a) = "failed" /\ att[a].failure = "cleanup"

(* The publication evidence of a finished attempt is true whatever failed  *)
(* and in whatever order: "suppressed" means no comment was made by it, and *)
(* "published" that one was.  Only "failed" leaves it open.                *)
EvidenceIsTruthful ==
  \A a \in Attempts : Done(a) =>
    /\ PublicationEvidence(a) = "suppressed" => ~att[a].published
    /\ PublicationEvidence(a) = "published" => att[a].published

(* run returns without an exception only for a review that was cleaned up, *)
(* published, and whose client is closed.                                  *)
SuccessIsComplete ==
  \A a \in Attempts :
    Done(a) /\ att[a].failure = "none" =>
      /\ att[a].published /\ att[a].client = "closed"
      /\ CleanupOutcome(a) = "confirmed"

(* The helper that hands git the installation token is gone before a       *)
(* sandbox exists, also when its unlink or the materialization fails.      *)
NoCredentialBesideSandbox == \A a \in Attempts : ~(sandbox[a] /\ askpass[a])

(* A service that admits reviews has no resource of an attempt that died   *)
(* with an earlier process, nor a credential helper nobody will remove.    *)
AdmittingMeansSwept ==
  up => \A a \in Attempts : att[a].pc = "dead" => ~workspace[a] /\ ~sandbox[a]

(* The inductive invariant the theorems of ReviewAttemptProofs rest on:    *)
(* what an attempt's stage says of its record and of its resources.        *)
Reviewing == {"workspace", "askpass", "clone", "control", "create", "codex",
              "rmSandbox", "accept", "rmWorkspace", "cleanup"}
BeforeSandbox == {"new", "workspace", "askpass", "clone"}
WithoutHelper == {"new", "workspace", "askpass", "control", "create", "codex",
                  "rmSandbox", "accept", "publish"}

StageFacts(a) ==
  /\ att[a].stuck => att[a].pc \in {"clone", "create", "codex"}
  /\ att[a].pc = "new" => ~workspace[a]
  /\ att[a].pc \in BeforeSandbox => ~sandbox[a]
  /\ att[a].pc \in WithoutHelper => ~askpass[a]
  /\ att[a].pc \in Reviewing \cup {"publish"} => att[a].client = "open"
  /\ att[a].pc \in Reviewing \cup {"publish", "finalCleanup"} => att[a].bound
  /\ att[a].pc = "finalCleanup" => att[a].failure # "none"

OutcomeFacts(a) ==
  /\ att[a].confirmed =>
       att[a].pc \in {"publish", "close", "done", "dead"} /\ ~workspace[a] /\ ~sandbox[a]
  /\ att[a].published => att[a].pc \in {"close", "done", "dead"}
  /\ att[a].pc = "publish" \/ att[a].published => att[a].confirmed
  /\ att[a].completed => att[a].published
  /\ att[a].pc \in {"close", "done"} /\ att[a].published =>
       att[a].completed \/ att[a].failure = "publication"
  /\ att[a].pc \in {"close", "done"} /\ (workspace[a] \/ sandbox[a]) =>
       att[a].bound /\ att[a].failure = "cleanup"
  /\ att[a].pc = "close" /\ att[a].failure = "none" =>
       att[a].published /\ att[a].client = "open" /\ att[a].bound

IInv ==
  /\ TypeOK
  /\ \A a \in Attempts : StageFacts(a) /\ OutcomeFacts(a)
  /\ SuccessIsComplete
  /\ NoCredentialBesideSandbox
  /\ AdmittingMeansSwept

(* An attempt in ReviewTransactions.                                       *)
Phase(a) ==
  CASE att[a].pc = "new" -> "waiting"
    [] att[a].pc \in Reviewing \cup {"finalCleanup"} -> "working"
    [] att[a].pc = "publish" -> "publishing"
    [] att[a].pc = "close" -> IF att[a].completed THEN "published" ELSE "failed"
    [] Done(a) -> IF att[a].failure = "none" THEN "returned" ELSE "raised"
    [] att[a].pc = "dead" -> "killed"

Records(a) ==
  {r \in {"cleanup", "publication"} :
     /\ Done(a)
     /\ r = "cleanup" => CleanupOutcome(a) = "confirmed"
     /\ r = "publication" => PublicationEvidence(a) = "published"}

Transacting == INSTANCE ReviewTransactions WITH
  phase <- [a \in Attempts |-> Phase(a)],
  resources <- {a \in Attempts : workspace[a] \/ sandbox[a]},
  posted <- {a \in Attempts : att[a].published},
  records <- [a \in Attempts |-> Records(a)]

(* Whatever fails, hangs or dies, an attempt publishes only from a         *)
(* confirmed cleanup on, its records are true, and no process comes up     *)
(* beside what it left: the contract that ReviewService obeys too.         *)
ImplementsTransactions == Transacting!TSpec

(* An active review has a deadline, so that a stuck clone or model call    *)
(* does not block later reviews for ever: every attempt that began ends.   *)
EveryAttemptEnds ==
  \A a \in Attempts : (att[a].pc \notin {"new", "done", "dead"}) ~> (att[a].pc \in {"done", "dead"})
=============================================================================
