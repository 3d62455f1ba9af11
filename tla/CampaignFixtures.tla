--------------------------- MODULE CampaignFixtures ---------------------------
(***************************************************************************)
(* prepare_campaign_fixtures of fixtures.py: calls for one campaign id on  *)
(* one test repository, at the same time or one after the other, each      *)
(* pushing the branch of checkpoint B and opening its pull request, then   *)
(* those of checkpoint C.  Nothing is ever removed by the code: a call     *)
(* that fails raises the list of what it created, for an operator to       *)
(* clean up.                                                               *)
(*                                                                         *)
(* A step is one command of the boundary with what the call does about its *)
(* outcome.  A command may fail before or after its effect.  Commits of    *)
(* different calls differ; the commit of a call is named after the call.   *)
(*                                                                         *)
(* Operators named Faulty... are variants of the step that follows them,   *)
(* with a mistake in it; no specification uses them.                       *)
(***************************************************************************)
EXTENDS Naturals, FiniteSets

CONSTANTS Preparations,  \* calls of prepare_campaign_fixtures, one campaign id
          Roots, Root,   \* Root[p]: the work_root of call p
          Somebody,      \* author of a commit that is no preparation's
          Nobody,        \* "no branch"
          MaxMoves       \* moves of the default branch (a bound)

ASSUME FixtureAssumption ==
  /\ Root \in [Preparations -> Roots]
  /\ Somebody \notin Preparations
  /\ Nobody \notin Preparations \cup {Somebody}
  /\ MaxMoves \in Nat

VARIABLES tip,        \* GitHub: commits on the default branch
          maker,      \* GitHub: maker[k], who created the branch of checkpoint k
          head,       \* GitHub: head[k], whose commit it points to
          pulls,      \* GitHub: pull requests of the campaign, open or closed
          checkouts,  \* hosts: checkouts that exist under the work roots
          pc,         \* where each call is
          at,         \* the checkpoint it is at
          base,       \* base_sha, as default_branch returned it
          reported,   \* created_resources
          stage       \* where it failed

remote == <<tip, maker, head, pulls>>
locals == <<pc, at, base, reported, stage>>
vars == <<remote, checkouts, locals>>

Checkpoints == {"B", "C"}
Resources == {"branch", "pull_request"} \X Checkpoints
Stages == {"authentication", "collision", "default_branch", "push", "pull_request", "identity"}
Active == {"authenticate", "search", "look", "base", "clone", "push", "open"}

Init ==
  /\ tip = 0
  /\ maker = [k \in Checkpoints |-> Nobody]
  /\ head = [k \in Checkpoints |-> Nobody]
  /\ pulls = {}
  /\ checkouts = {}
  /\ pc = [p \in Preparations |-> "authenticate"]
  /\ at = [p \in Preparations |-> "B"]
  /\ base = [p \in Preparations |-> 0]
  /\ reported = [p \in Preparations |-> {}]
  /\ stage = [p \in Preparations |-> <<"none", "B">>]

Goto(p, step, k) ==
  /\ pc' = [pc EXCEPT ![p] = step]
  /\ at' = [at EXCEPT ![p] = k]

(* _perform_fixture_operation: every exception of an operation becomes a   *)
(* FixturePreparationError with the stage and the resources created so far.*)
Fail(p, s) ==
  /\ pc' = [pc EXCEPT ![p] = "failed"]
  /\ stage' = [stage EXCEPT ![p] = <<s, at[p]>>]
  /\ UNCHANGED <<at, base, reported>>

Reports(p, kind) == reported' = [reported EXCEPT ![p] = @ \cup {<<kind, at[p]>>}]

-----------------------------------------------------------------------------
Authenticate(p) ==
  /\ pc[p] = "authenticate"
  /\ \/ Goto(p, "search", at[p]) /\ UNCHANGED <<base, reported, stage>>
     \/ Fail(p, "authentication")
  /\ UNCHANGED <<remote, checkouts>>

(* campaign_exists searches titles: an index that may not show a pull      *)
(* request yet, and never shows one that does not exist.                   *)
Search(p) ==
  /\ pc[p] = "search"
  /\ \/ Goto(p, "look", "B") /\ UNCHANGED <<base, reported, stage>>
     \/ Fail(p, "collision")
  /\ UNCHANGED <<remote, checkouts>>

\* branch_exists of one checkpoint after the other; a branch found is a failure
Look(p) ==
  /\ pc[p] = "look"
  /\ \/ /\ maker[at[p]] = Nobody
        /\ IF at[p] = "B" THEN Goto(p, "look", "C") ELSE Goto(p, "base", "B")
        /\ UNCHANGED <<base, reported, stage>>
     \/ Fail(p, "collision")
  /\ UNCHANGED <<remote, checkouts>>

ReadBase(p) ==
  /\ pc[p] = "base"
  /\ \/ /\ base' = [base EXCEPT ![p] = tip]
        /\ Goto(p, "clone", "B")
        /\ UNCHANGED <<reported, stage>>
     \/ Fail(p, "default_branch")
  /\ UNCHANGED <<remote, checkouts>>

-----------------------------------------------------------------------------
(* push_branch: a clone of its own, which is never removed.                *)

Checkout(p) == <<Root[p], at[p]>>

CloneRefused(p) ==
  /\ pc[p] = "clone"
  /\ Checkout(p) \in checkouts
  /\ Fail(p, "push")
  /\ UNCHANGED <<remote, checkouts>>

Clone(p) ==
  /\ pc[p] = "clone"
  /\ Checkout(p) \notin checkouts
  /\ \/ /\ checkouts' = checkouts \cup {Checkout(p)}
        /\ Goto(p, "push", at[p])
        /\ UNCHANGED <<base, reported, stage>>
     \/ /\ checkouts' \in {checkouts, checkouts \cup {Checkout(p)}}
        /\ Fail(p, "push")
  /\ UNCHANGED remote

CreateBranch(p) ==
  /\ maker' = [maker EXCEPT ![at[p]] = p]
  /\ head' = [head EXCEPT ![at[p]] = p]
  /\ UNCHANGED <<tip, pulls>>

\* a local command or the push fails; a branch that exists makes the push fail
PushFails(p) ==
  /\ pc[p] = "push"
  /\ Fail(p, "push")
  /\ UNCHANGED <<remote, checkouts>>

\* the branch was pushed, and the command failed or ran out of time
PushLost(p) ==
  /\ pc[p] = "push"
  /\ maker[at[p]] = Nobody
  /\ CreateBranch(p)
  /\ Fail(p, "push")
  /\ UNCHANGED checkouts

\* git push --force
FaultyPush(p) ==
  /\ pc[p] = "push"
  /\ CreateBranch(p)
  /\ Reports(p, "branch")
  /\ Goto(p, "open", at[p])
  /\ UNCHANGED <<checkouts, base, stage>>

\* the list is written when the pull request is there
FaultyPushUnlisted(p) ==
  /\ pc[p] = "push"
  /\ maker[at[p]] = Nobody
  /\ CreateBranch(p)
  /\ Goto(p, "open", at[p])
  /\ UNCHANGED <<checkouts, base, reported, stage>>

(* Two commits on one base do not descend from each other, so GitHub takes *)
(* the push only while there is no such branch.                            *)
Push(p) ==
  /\ pc[p] = "push"
  /\ maker[at[p]] = Nobody
  /\ CreateBranch(p)
  /\ Reports(p, "branch")
  /\ Goto(p, "open", at[p])
  /\ UNCHANGED <<checkouts, base, stage>>

-----------------------------------------------------------------------------
\* the pull request GitHub makes of the branch: base.sha is the tip by then
PullRequest(p) == [checkpoint |-> at[p], by |-> p, base |-> tip, head |-> head[at[p]]]

CreatePull(p) == pulls' = pulls \cup {PullRequest(p)} /\ UNCHANGED <<tip, maker, head>>

OpenFails(p) ==
  /\ pc[p] = "open"
  /\ Fail(p, "pull_request")
  /\ UNCHANGED <<remote, checkouts>>

\* opened, without an answer or with one that is not accepted
OpenLost(p) ==
  /\ pc[p] = "open"
  /\ CreatePull(p)
  /\ Fail(p, "pull_request")
  /\ UNCHANGED checkouts

\* _verified_fixture, as far as it concerns what the calls race for
Verified(p) == PullRequest(p).base = base[p] /\ PullRequest(p).head = p

(* The identity is not the expected one: base or head differ, or, as it    *)
(* may at any time, the repository, the URL, the title, the name of the    *)
(* branch or the draft state.                                              *)
IdentityDiffers(p) ==
  /\ pc[p] = "open"
  /\ CreatePull(p)
  /\ Fail(p, "identity")
  /\ UNCHANGED checkouts

\* the base is not compared
FaultyOpen(p) ==
  /\ pc[p] = "open"
  /\ PullRequest(p).head = p
  /\ CreatePull(p)
  /\ Reports(p, "pull_request")
  /\ IF at[p] = "B" THEN Goto(p, "clone", "C") ELSE Goto(p, "done", "C")
  /\ UNCHANGED <<checkouts, base, stage>>

Open(p) ==
  /\ pc[p] = "open"
  /\ Verified(p)
  /\ CreatePull(p)
  /\ Reports(p, "pull_request")
  /\ IF at[p] = "B" THEN Goto(p, "clone", "C") ELSE Goto(p, "done", "C")
  /\ UNCHANGED <<checkouts, base, stage>>

-----------------------------------------------------------------------------
\* the command is interrupted: what it created is reported to nobody
Interrupt(p) ==
  /\ pc[p] \in Active
  /\ pc' = [pc EXCEPT ![p] = "interrupted"]
  /\ UNCHANGED <<remote, checkouts, at, base, reported, stage>>

(* The operator of a failed call removes the branches it reported, by      *)
(* their names (pull requests are closed, and stay in the search).         *)
CleanUp(p) ==
  /\ pc[p] = "failed"
  /\ pc' = [pc EXCEPT ![p] = "cleaned"]
  /\ LET gone == {k \in Checkpoints : <<"branch", k>> \in reported[p]}
     IN  /\ maker' = [k \in Checkpoints |-> IF k \in gone THEN Nobody ELSE maker[k]]
         /\ head' = [k \in Checkpoints |-> IF k \in gone THEN Nobody ELSE head[k]]
  /\ UNCHANGED <<tip, pulls, checkouts, at, base, reported, stage>>

\* somebody commits to the default branch, or to a branch of the campaign
BaseMoves ==
  /\ tip < MaxMoves
  /\ tip' = tip + 1
  /\ UNCHANGED <<maker, head, pulls, checkouts, locals>>

HeadMoves ==
  /\ \E k \in Checkpoints : maker[k] # Nobody /\ head' = [head EXCEPT ![k] = Somebody]
  /\ UNCHANGED <<tip, maker, pulls, checkouts, locals>>

Step(p) ==
  \/ Authenticate(p) \/ Search(p) \/ Look(p) \/ ReadBase(p)
  \/ CloneRefused(p) \/ Clone(p)
  \/ PushFails(p) \/ PushLost(p) \/ Push(p)
  \/ OpenFails(p) \/ OpenLost(p) \/ IdentityDiffers(p) \/ Open(p)
  \/ Interrupt(p) \/ CleanUp(p)

Next == BaseMoves \/ HeadMoves \/ \E p \in Preparations : Step(p)

Spec == Init /\ [][Next]_vars

-----------------------------------------------------------------------------
(* Type invariant of GitHub, the work roots and the calls.                 *)
TypeOK ==
  /\ tip \in Nat
  /\ maker \in [Checkpoints -> Preparations \cup {Nobody}]
  /\ head \in [Checkpoints -> Preparations \cup {Somebody, Nobody}]
  /\ pulls \subseteq [checkpoint : Checkpoints, by : Preparations, base : Nat,
                      head : Preparations \cup {Somebody, Nobody}]
  /\ checkouts \subseteq Roots \X Checkpoints
  /\ pc \in [Preparations -> Active \cup {"done", "failed", "interrupted", "cleaned"}]
  /\ at \in [Preparations -> Checkpoints]
  /\ base \in [Preparations -> Nat]
  /\ reported \in [Preparations -> SUBSET Resources]
  /\ stage \in [Preparations -> (Stages \cup {"none"}) \X Checkpoints]

\* what a call has on GitHub
Made(p) ==
  {<<"branch", k>> : k \in {j \in Checkpoints : maker[j] = p}}
    \cup {<<"pull_request", k>> :
            k \in {j \in Checkpoints : \E r \in pulls : r.by = p /\ r.checkpoint = j}}

\* what a failure may have left unreported, by its stage
InDoubt(s) ==
  {r \in Resources : /\ r[2] = s[2]
                     /\ \/ r[1] = "branch" /\ s[1] = "push"
                        \/ r[1] = "pull_request" /\ s[1] \in {"pull_request", "identity"}}

(* The error of a failed call tells an operator what to remove: everything *)
(* it names is the call's own (never a branch of a call that raced it for  *)
(* the same name), and the only resource of the call that it may not name  *)
(* is the one its stage was about.                                         *)
Exact(p) ==
  pc[p] = "failed" =>
    /\ reported[p] \subseteq Made(p)
    /\ Made(p) \ reported[p] \subseteq InDoubt(stage[p])

ReportIsExact == \A p \in Preparations : Exact(p)

(* A call that returned owns both branches and both pull requests, opened  *)
(* on the one base it read and with its own commits as heads, though the   *)
(* checks for a collision came before all of it and the default branch     *)
(* moved meanwhile.                                                        *)
PreparedIsOwn ==
  \A p \in Preparations : pc[p] = "done" =>
    /\ Made(p) = Resources
    /\ \A r \in pulls : r.by = p => r.base = base[p] /\ r.head = p

(* So of all the calls for one campaign id at most one returns.            *)
OnePrepares == \A p, q \in Preparations : pc[p] = "done" /\ pc[q] = "done" => p = q

(* The inductive invariant of CampaignFixturesProofs.  What a call that    *)
(* goes on has made, it has reported, and nothing else:                    *)
Finished(p, k) ==
  \/ pc[p] = "done"
  \/ k = "B" /\ at[p] = "C" /\ pc[p] \in {"clone", "push", "open"}

Progress(p) ==
  {<<"branch", k>> : k \in {j \in Checkpoints : \/ Finished(p, j)
                                                \/ pc[p] = "open" /\ at[p] = j}}
    \cup {<<"pull_request", k>> : k \in {j \in Checkpoints : Finished(p, j)}}

OnTrack(p) ==
  pc[p] \in Active \cup {"done"} =>
    /\ Made(p) = Progress(p)
    /\ reported[p] = Progress(p)

\* a pull request that was reported passed _verified_fixture
ReportedPullsMatch ==
  \A r \in pulls : <<"pull_request", r.checkpoint>> \in reported[r.by] =>
    r.base = base[r.by] /\ r.head = r.by

IInv ==
  /\ TypeOK
  /\ \A p \in Preparations : OnTrack(p)
  /\ ReportIsExact
  /\ ReportedPullsMatch
=============================================================================
