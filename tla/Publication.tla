----------------------------- MODULE Publication -----------------------------
(***************************************************************************)
(* The comments of one pull-request revision: runs of the service for that *)
(* revision, one after the other (ReviewLifecycle gives a revision to one  *)
(* at a time), from the preflight scan to publish_review_result and its    *)
(* reconciliation, against a GitHub that may lose answers and apply a      *)
(* request after its sender gave up.                                       *)
(*                                                                         *)
(* A step is one call of the GitHub client; GitHub's own delayed effects   *)
(* come between them.  A scan of the comments is one read (its pages are   *)
(* not told apart).  Comments that lack the revision's marker are left out.*)
(*                                                                         *)
(* Operators named Faulty... are variants of the step that follows them,   *)
(* with a mistake in it; no specification uses them.                       *)
(***************************************************************************)
EXTENDS Naturals, Sequences, FiniteSets

CONSTANTS Bodies,          \* rendered comments a review of the revision may end with
          NoBody,          \* none of them: nothing rendered yet
          MaxRuns,         \* runs of the service for the revision (a bound)
          MaxRechecks,     \* Len(PUBLICATION_RECHECK_DELAYS_SECONDS)
          DeadlineActive   \* is a review deadline in scope?

ASSUME PublicationAssumption ==
  /\ Bodies # {}
  /\ NoBody \notin Bodies
  /\ MaxRuns \in Nat \ {0}
  /\ MaxRechecks \in Nat \ {0}
  /\ DeadlineActive \in BOOLEAN

VARIABLES comments,   \* GitHub: the marked comments, a comment's id is its index
          inFlight,   \* GitHub: mutations whose sender got no usable answer
          run,        \* number of the current run
          pc,         \* where it is
          body,       \* its rendered comment
          target,     \* the comment it updates, 0 to create one
          index,      \* the recheck it is at
          retryAfter, \* did the lost answer carry a Retry-After?
          ended       \* how each run ended, "no" before

runVars == <<run, pc, body, target, index, retryAfter, ended>>
vars == <<comments, inFlight, runVars>>

Runs == 1..MaxRuns
Receipt == {"created", "updated", "already_current", "reconciled"}
(* "unusable": the mutation was applied, its answer is not the comment the *)
(* publisher expects.  "unknown_...": PublicationUnknownError, told apart  *)
(* by the mutation it is about.  "crashed_creating": killed with a create  *)
(* that may have been sent.                                                *)
Ending == Receipt \cup {"already_reviewed", "failed", "inconsistent", "unusable",
                        "unknown_create", "unknown_update", "crashed", "crashed_creating"}

\* _is_owned_marker_comment and owned_revision_comments
Owned == {i \in DOMAIN comments : comments[i].app = "ours"}
Current(i) == comments[i].body = body

Init ==
  /\ comments = <<>>
  /\ inFlight = {}
  /\ run = 1
  /\ pc = "preflight"
  /\ body = NoBody
  /\ target = 0
  /\ index = 0
  /\ retryAfter = FALSE
  /\ ended = [k \in Runs |-> "no"]

(* The run ends; the next one, a redelivery, starts when it likes.         *)
End(how) ==
  /\ pc' = "idle"
  /\ ended' = [ended EXCEPT ![run] = how]
  /\ UNCHANGED <<run, body, target, index, retryAfter>>

Redelivery ==
  /\ pc = "idle"
  /\ run < MaxRuns
  /\ run' = run + 1
  /\ pc' = "preflight"
  /\ body' = NoBody
  /\ target' = 0
  /\ index' = 0
  /\ retryAfter' = FALSE
  /\ UNCHANGED <<comments, inFlight, ended>>

-----------------------------------------------------------------------------
\* the comments are not looked at
FaultyPreflight ==
  /\ pc = "preflight"
  /\ pc' = "review"
  /\ UNCHANGED <<comments, inFlight, run, body, target, index, retryAfter, ended>>

\* ReviewRunner.preflight: any owned comment means the revision is reviewed
Preflight ==
  /\ pc = "preflight"
  /\ \/ Owned # {} /\ End("already_reviewed")
     \/ /\ Owned = {}
        /\ pc' = "review"
        /\ UNCHANGED <<run, body, target, index, retryAfter, ended>>
     \/ End("failed")
  /\ UNCHANGED <<comments, inFlight>>

\* the review, with a result to publish or without
Review ==
  /\ pc = "review"
  /\ \/ \E b \in Bodies :
          /\ body' = b
          /\ pc' = "scan"
          /\ UNCHANGED <<run, target, index, retryAfter, ended>>
     \/ End("failed")
  /\ UNCHANGED <<comments, inFlight>>

-----------------------------------------------------------------------------
(* publish_review_result, up to its one mutation.                          *)

ScanFails ==
  /\ pc = "scan"
  /\ End("failed")
  /\ UNCHANGED <<comments, inFlight>>

ScanCurrent ==
  /\ pc = "scan"
  /\ \E i \in Owned : Owned = {i} /\ Current(i)
  /\ End("already_current")
  /\ UNCHANGED <<comments, inFlight>>

ScanMany ==
  /\ pc = "scan"
  /\ Cardinality(Owned) > 1
  /\ End("inconsistent")
  /\ UNCHANGED <<comments, inFlight>>

ScanStale ==
  /\ pc = "scan"
  /\ \E i \in Owned : /\ Owned = {i}
                      /\ ~Current(i)
                      /\ target' = i
  /\ pc' = "mutate"
  /\ UNCHANGED <<comments, inFlight, run, body, index, retryAfter, ended>>

ScanNone ==
  /\ pc = "scan"
  /\ Owned = {}
  /\ target' = 0
  /\ pc' = "mutate"
  /\ UNCHANGED <<comments, inFlight, run, body, index, retryAfter, ended>>

-----------------------------------------------------------------------------
(* GitHub applies a mutation: a create appends, an update replaces.        *)
Apply(m) ==
  comments' = IF m.target = 0
                THEN Append(comments, [app |-> "ours", body |-> m.body])
                ELSE [comments EXCEPT ![m.target].body = m.body]

Mutation == [run |-> run, target |-> target, body |-> body]

\* refused, or the installation token could not be had: nothing was applied
MutationRefused ==
  /\ pc = "mutate"
  /\ End("failed")
  /\ UNCHANGED <<comments, inFlight>>

MutationConfirmed ==
  /\ pc = "mutate"
  /\ Apply(Mutation)
  /\ End(IF target = 0 THEN "created" ELSE "updated")
  /\ UNCHANGED inFlight

(* Applied, with an answer _validate_response or _confirmed_receipt        *)
(* rejects: an error that is not ambiguous, so nothing is reconciled.      *)
MutationUnusable ==
  /\ pc = "mutate"
  /\ Apply(Mutation)
  /\ End("unusable")
  /\ UNCHANGED inFlight

(* GitHubMutationError: a timeout, a broken connection, or a status that   *)
(* leaves open whether GitHub will apply the request.                      *)
MutationAmbiguous ==
  /\ pc = "mutate"
  /\ inFlight' = inFlight \cup {Mutation}
  /\ pc' = "recheck"
  /\ index' = 1
  /\ retryAfter' \in BOOLEAN
  /\ UNCHANGED <<comments, run, body, target, ended>>

-----------------------------------------------------------------------------
(* _reconcile_ambiguous_mutation: one iteration of its loop.               *)

\* PublicationUnknownError
GivesUp == End(IF target = 0 THEN "unknown_create" ELSE "unknown_update")

\* the first recheck waits only for a Retry-After
Delayed == index > 1 \/ retryAfter

RecheckPastDeadline ==
  /\ pc = "recheck"
  /\ DeadlineActive /\ Delayed
  /\ GivesUp
  /\ UNCHANGED <<comments, inFlight>>

RecheckScanFails ==
  /\ pc = "recheck"
  /\ GivesUp
  /\ UNCHANGED <<comments, inFlight>>

RecheckMany ==
  /\ pc = "recheck"
  /\ Cardinality(Owned) > 1
  /\ End("inconsistent")
  /\ UNCHANGED <<comments, inFlight>>

\* any owned comment confirms
FaultyRecheckConfirms ==
  /\ pc = "recheck"
  /\ Cardinality(Owned) = 1
  /\ End("reconciled")
  /\ UNCHANGED <<comments, inFlight>>

RecheckConfirms ==
  /\ pc = "recheck"
  /\ \E i \in Owned : Owned = {i} /\ Current(i)
  /\ End("reconciled")
  /\ UNCHANGED <<comments, inFlight>>

\* off by one
FaultyRecheckUndecided ==
  /\ pc = "recheck"
  /\ Cardinality(Owned) <= 1
  /\ \A i \in Owned : ~Current(i)
  /\ IF index <= MaxRechecks
       THEN index' = index + 1 /\ UNCHANGED <<run, pc, body, target, retryAfter, ended>>
       ELSE GivesUp
  /\ UNCHANGED <<comments, inFlight>>

\* the mutation is sent again
FaultyRecheckRetries ==
  /\ pc = "recheck"
  /\ Cardinality(Owned) <= 1
  /\ \A i \in Owned : ~Current(i)
  /\ pc' = "mutate"
  /\ UNCHANGED <<comments, inFlight, run, body, target, index, retryAfter, ended>>

RecheckUndecided ==
  /\ pc = "recheck"
  /\ Cardinality(Owned) <= 1
  /\ \A i \in Owned : ~Current(i)
  /\ \/ /\ index < MaxRechecks
        /\ index' = index + 1
        /\ UNCHANGED <<run, pc, body, target, retryAfter, ended>>
     \/ /\ index = MaxRechecks
        /\ GivesUp
  /\ UNCHANGED <<comments, inFlight>>

-----------------------------------------------------------------------------
\* the service is killed; a request it sent may be in flight
Crash ==
  /\ pc # "idle"
  /\ End(IF target = 0 /\ pc \in {"mutate", "recheck"} THEN "crashed_creating" ELSE "crashed")
  /\ inFlight' \in {inFlight} \cup (IF pc = "mutate" THEN {inFlight \cup {Mutation}} ELSE {})
  /\ UNCHANGED comments

\* GitHub, late: a request without a usable answer is applied after all
Lands ==
  /\ \E m \in inFlight : Apply(m) /\ inFlight' = inFlight \ {m}
  /\ UNCHANGED runVars

Dropped ==
  /\ \E m \in inFlight : inFlight' = inFlight \ {m}
  /\ UNCHANGED <<comments, runVars>>

(* Someone quotes the revision's marker in a comment of their own (once).  *)
SomeoneElse ==
  /\ \A i \in DOMAIN comments : comments[i].app = "ours"
  /\ \E b \in Bodies : comments' = Append(comments, [app |-> "other", body |-> b])
  /\ UNCHANGED <<inFlight, runVars>>

Publish ==
  \/ ScanFails \/ ScanCurrent \/ ScanMany \/ ScanStale \/ ScanNone
  \/ MutationRefused \/ MutationConfirmed \/ MutationUnusable \/ MutationAmbiguous
  \/ RecheckPastDeadline \/ RecheckScanFails \/ RecheckMany \/ RecheckConfirms
  \/ RecheckUndecided

Next ==
  \/ Redelivery \/ Preflight \/ Review \/ Publish \/ Crash \/ Lands \/ Dropped
  \/ SomeoneElse

Spec == Init /\ [][Next]_vars

(* Each call of the client returns (every request has the HTTP client's    *)
(* timeout).  Nothing obliges GitHub to apply or drop a lost request.      *)
FairSpec == Spec /\ WF_vars(Publish)

-----------------------------------------------------------------------------
(* Type invariant of the comments and of the current run.                  *)
TypeOK ==
  /\ comments \in Seq([app : {"ours", "other"}, body : Bodies])
  /\ inFlight \subseteq [run : Runs, target : Nat, body : Bodies]
  /\ run \in Runs
  /\ pc \in {"idle", "preflight", "review", "scan", "mutate", "recheck"}
  /\ body \in Bodies \cup {NoBody}
  /\ target \in Nat
  /\ index \in 0..MaxRechecks
  /\ retryAfter \in BOOLEAN
  /\ ended \in [Runs -> Ending \cup {"no"}]

Settled == Receipt \cup {"unusable", "inconsistent"}
Undecided == {"unknown_create", "crashed_creating"}
UndecidedBefore == {k \in 1..run - 1 : ended[k] \in Undecided}

(* The number of owned comments is at most one more than the number of     *)
(* earlier runs whose create was left undecided: each can cost one         *)
(* duplicate, a run that was left undecided about an update, that failed   *)
(* or died before its create costs none, and a publisher never adds a      *)
(* comment beside one it could have found.                                 *)
DuplicatesBounded == Cardinality(Owned) <= 1 + Cardinality(UndecidedBefore)

(* README.md: cleaning up before an idempotent publication prevents        *)
(* duplicate results.  One comment of the application for one revision.    *)
NoDuplicateResults == Cardinality(Owned) <= 1

(* Redelivery of a completed revision does not repeat work: once a run     *)
(* ended with a receipt, or with a comment it saw or wrote but did not     *)
(* accept, no later run gets past its preflight.                           *)
CompletedIsNotRepeated ==
  \A j, k \in Runs :
    j < k /\ ended[j] \in Settled =>
      /\ ended[k] \in {"no", "already_reviewed", "failed", "crashed"}
      /\ k = run => pc \in {"idle", "preflight"}

(* The inductive invariant of PublicationProofs.                           *)
Answered == \E k \in Runs : ended[k] \in Settled
Creates == {m \in inFlight : m.target = 0}
MaySent == (pc = "recheck" /\ target = 0) \/ (pc = "idle" /\ ended[run] \in Undecided)

\* what the current run knows at its stage
RunFacts ==
  /\ \A k \in Runs : ended[k] = "no" <=> (k > run \/ (k = run /\ pc # "idle"))
  /\ pc \in {"scan", "mutate", "recheck"} => body \in Bodies
  /\ pc = "mutate" /\ target # 0 => target \in Owned

\* an accepted answer rests on a comment, and comments stay: a run that got
\* past its preflight has no settled run before it
AnsweredFacts ==
  /\ Answered => Owned # {}
  /\ pc \in {"review", "scan", "mutate", "recheck"} => ~Answered

(* Comments that exist and creates that may still land are paid for: by    *)
(* one undecided create before each, and one run that is settled or has    *)
(* sent a create.                                                          *)
Budget ==
  Cardinality(Owned) + Cardinality(Creates)
    <= Cardinality(UndecidedBefore) + (IF Answered \/ MaySent THEN 1 ELSE 0)

IInv ==
  /\ TypeOK
  /\ IsFiniteSet(inFlight)
  /\ RunFacts
  /\ AnsweredFacts
  /\ CompletedIsNotRepeated
  /\ Budget

(* A receipt tells the truth: when publish_review_result returns one, an   *)
(* owned comment carries the rendered review, and it is the only one of    *)
(* the revision when the receipt rests on a scan.                          *)
ReceiptIsVisible ==
  [][ \A k \in Runs : ended'[k] # ended[k] /\ ended'[k] \in Receipt =>
        /\ \E i \in DOMAIN comments' : comments'[i] = [app |-> "ours", body |-> body]
        /\ ended'[k] \in {"already_current", "reconciled"} => Cardinality(Owned) = 1 ]_vars

(* Publication ends: the rechecks are bounded and nothing is retried.      *)
PublicationEnds == (pc \in {"scan", "mutate", "recheck"}) ~> (pc = "idle")
=============================================================================
