----------------------- MODULE CampaignFixturesProofs -----------------------
(* Proofs about CampaignFixtures: for every set of preparations of one     *)
(* campaign, however they share work roots, a call that returns owns its   *)
(* fixtures, and a call that fails reports what it created.                *)
EXTENDS CampaignFixtures, TLAPS

(* What a call has on GitHub, member by member.                            *)
LEMMA MadeMembers ==
  ASSUME NEW p
  PROVE  /\ Made(p) \subseteq Resources
         /\ \A k \in Checkpoints : <<"branch", k>> \in Made(p) <=> maker[k] = p
         /\ \A k \in Checkpoints :
              <<"pull_request", k>> \in Made(p) <=> \E r \in pulls : r.by = p /\ r.checkpoint = k
BY DEF Made, Resources

(* A branch that nobody has becomes the pushing call's.                    *)
LEMMA BranchMade ==
  ASSUME TypeOK, NEW p \in Preparations, maker[at[p]] = Nobody, CreateBranch(p)
  PROVE  /\ Made(p)' = Made(p) \cup {<<"branch", at[p]>>}
         /\ \A q \in Preparations \ {p} : Made(q)' = Made(q)
<1>1. at[p] \in Checkpoints /\ UNCHANGED pulls
  BY DEF TypeOK, CreateBranch
<1>2. \A k \in Checkpoints : maker'[k] = IF k = at[p] THEN p ELSE maker[k]
  BY DEF TypeOK, CreateBranch
<1>3. Nobody \notin Preparations
  BY FixtureAssumption
<1>4. {k \in Checkpoints : maker'[k] = p} = {k \in Checkpoints : maker[k] = p} \cup {at[p]}
  BY <1>1, <1>2
<1>5. Made(p)' = Made(p) \cup {<<"branch", at[p]>>}
  BY <1>1, <1>4 DEF Made
<1>6. ASSUME NEW q \in Preparations \ {p} PROVE Made(q)' = Made(q)
  <2>1. {k \in Checkpoints : maker'[k] = q} = {k \in Checkpoints : maker[k] = q}
    BY <1>1, <1>2, <1>3
  <2>2. QED
    BY <1>1, <2>1 DEF Made
<1>7. QED
  BY <1>5, <1>6

(* A pull request belongs to the call that opened it.                      *)
LEMMA PullMade ==
  ASSUME TypeOK, NEW p \in Preparations, CreatePull(p)
  PROVE  /\ Made(p)' = Made(p) \cup {<<"pull_request", at[p]>>}
         /\ \A q \in Preparations \ {p} : Made(q)' = Made(q)
<1>1. at[p] \in Checkpoints /\ UNCHANGED maker /\ pulls' = pulls \cup {PullRequest(p)}
  BY DEF TypeOK, CreatePull
<1>2. PullRequest(p).by = p /\ PullRequest(p).checkpoint = at[p]
  BY DEF PullRequest
<1>3. {k \in Checkpoints : \E r \in pulls' : r.by = p /\ r.checkpoint = k}
        = {k \in Checkpoints : \E r \in pulls : r.by = p /\ r.checkpoint = k} \cup {at[p]}
  BY <1>1, <1>2
<1>4. Made(p)' = Made(p) \cup {<<"pull_request", at[p]>>}
  BY <1>1, <1>3 DEF Made
<1>5. ASSUME NEW q \in Preparations \ {p} PROVE Made(q)' = Made(q)
  <2>1. {k \in Checkpoints : \E r \in pulls' : r.by = q /\ r.checkpoint = k}
          = {k \in Checkpoints : \E r \in pulls : r.by = q /\ r.checkpoint = k}
    BY <1>1, <1>2
  <2>2. QED
    BY <1>1, <2>1 DEF Made
<1>6. QED
  BY <1>4, <1>5

(* What a call has on GitHub depends on branches and pull requests only.   *)
LEMMA SameMade ==
  ASSUME UNCHANGED <<maker, pulls>>
  PROVE  \A p \in Preparations : Made(p)' = Made(p)
BY DEF Made

(* A step of call p is about p's part of the invariant and about the pull  *)
(* requests, as long as it takes nothing from the other calls.             *)
LEMMA OwnKeeps ==
  ASSUME IInv, TypeOK', NEW p \in Preparations,
         \A q \in Preparations \ {p} : /\ pc'[q] = pc[q] /\ at'[q] = at[q]
                                       /\ reported'[q] = reported[q] /\ stage'[q] = stage[q]
                                       /\ Made(q)' = Made(q),
         OnTrack(p)', Exact(p)', ReportedPullsMatch'
  PROVE  IInv'
<1>1. ASSUME NEW q \in Preparations PROVE OnTrack(q)' /\ Exact(q)'
  <2>1. CASE q = p
    BY <2>1
  <2>2. CASE q # p
    <3>1. OnTrack(q) /\ Exact(q)
      BY DEF IInv, ReportIsExact
    <3>2. OnTrack(q)'
      BY <2>2, <3>1 DEF OnTrack, Progress, Finished
    <3>3. Exact(q)'
      BY <2>2, <3>1 DEF Exact, InDoubt
    <3>4. QED
      BY <3>2, <3>3
  <2>3. QED
    BY <2>1, <2>2
<1>2. QED
  BY <1>1 DEF IInv, ReportIsExact

-----------------------------------------------------------------------------
(* Before the first call nothing is made and nothing reported.             *)
LEMMA InitIInv == Init => IInv
<1>1. SUFFICES ASSUME Init PROVE IInv
  OBVIOUS
<1>2. TypeOK
  BY <1>1, FixtureAssumption DEF Init, TypeOK, Checkpoints, Active, Stages
<1>3. ASSUME NEW p \in Preparations PROVE OnTrack(p) /\ Exact(p)
  <2>1. Made(p) = {}
    BY <1>1, FixtureAssumption DEF Init, Made
  <2>2. Progress(p) = {}
    BY <1>1 DEF Init, Progress, Finished
  <2>3. QED
    BY <1>1, <2>1, <2>2 DEF Init, OnTrack, Exact
<1>4. ReportedPullsMatch
  BY <1>1 DEF Init, ReportedPullsMatch
<1>5. QED
  BY <1>2, <1>3, <1>4 DEF IInv, ReportIsExact

(* A failing operation leaves a list that is exact up to what its stage is *)
(* about.                                                                  *)
LEMMA FailKeeps ==
  ASSUME IInv, NEW p \in Preparations, NEW s \in Stages, pc[p] \in Active, Fail(p, s),
         TypeOK', ReportedPullsMatch',
         \A q \in Preparations \ {p} : Made(q)' = Made(q),
         Made(p) \subseteq Made(p)',
         Made(p)' \ Made(p) \subseteq InDoubt(<<s, at[p]>>)
  PROVE  IInv'
<1>1. /\ pc' = [pc EXCEPT ![p] = "failed"] /\ stage' = [stage EXCEPT ![p] = <<s, at[p]>>]
      /\ UNCHANGED <<at, base, reported>>
  BY DEF Fail
<1>2. pc'[p] = "failed" /\ stage'[p] = <<s, at[p]>>
  BY <1>1 DEF IInv, TypeOK
<1>3. \A q \in Preparations \ {p} : /\ pc'[q] = pc[q] /\ at'[q] = at[q]
                                    /\ reported'[q] = reported[q] /\ stage'[q] = stage[q]
                                    /\ Made(q)' = Made(q)
  BY <1>1 DEF IInv, TypeOK
<1>4. OnTrack(p)'
  BY <1>2 DEF OnTrack, Active
<1>5. reported[p] = Made(p)
  BY DEF IInv, OnTrack
<1>6. InDoubt(stage[p])' = InDoubt(<<s, at[p]>>)
  BY <1>2 DEF InDoubt
<1>7. Exact(p)'
  BY <1>1, <1>5, <1>6 DEF Exact
<1>8. QED
  BY <1>3, <1>4, <1>7, OwnKeeps

(* A failure before or without an effect on GitHub.                        *)
LEMMA FailCleanKeeps ==
  ASSUME IInv, NEW p \in Preparations, NEW s \in Stages, pc[p] \in Active, Fail(p, s),
         UNCHANGED remote, checkouts' \subseteq Roots \X Checkpoints
  PROVE  IInv'
<1>1. TypeOK'
  BY DEF IInv, TypeOK, Fail, remote
<1>2. ReportedPullsMatch'
  BY DEF IInv, ReportedPullsMatch, Fail, remote
<1>3. \A q \in Preparations : Made(q)' = Made(q)
  BY SameMade DEF remote
<1>4. QED
  BY <1>1, <1>2, <1>3, FailKeeps

(* A step of a call that made nothing, to a place where nothing is made.   *)
LEMMA EarlyKeeps ==
  ASSUME IInv, NEW p \in Preparations,
         NEW step \in {"search", "look", "base", "clone"}, NEW k \in Checkpoints,
         step = "clone" => k = "B",
         pc[p] \in {"authenticate", "search", "look", "base"},
         Goto(p, step, k), UNCHANGED <<remote, checkouts, reported, stage>>,
         base' \in [Preparations -> Nat],
         \A q \in Preparations \ {p} : base'[q] = base[q]
  PROVE  IInv'
<1>1. TypeOK'
  BY DEF IInv, TypeOK, Goto, remote, Active
<1>2. Progress(p) = {}
  BY DEF Progress, Finished
<1>3. Progress(p)' = {}
  BY DEF IInv, TypeOK, Goto, Progress, Finished
<1>4. \A q \in Preparations : Made(q)' = Made(q)
  BY SameMade DEF remote
<1>5. Made(p) = {} /\ reported[p] = {}
  BY <1>2 DEF IInv, OnTrack, Active
<1>6. OnTrack(p)'
  BY <1>3, <1>4, <1>5 DEF OnTrack
<1>7. Exact(p)'
  BY DEF IInv, TypeOK, Goto, Exact
<1>8. ReportedPullsMatch'
  <2>1. SUFFICES ASSUME NEW r \in pulls, <<"pull_request", r.checkpoint>> \in reported[r.by]
                 PROVE  r.base = base'[r.by] /\ r.head = r.by
    BY DEF ReportedPullsMatch, remote
  <2>2. r.by # p /\ r.by \in Preparations
    BY <1>5, <2>1 DEF IInv, TypeOK
  <2>3. QED
    BY <2>1, <2>2 DEF IInv, ReportedPullsMatch
<1>9. QED
  BY <1>1, <1>4, <1>6, <1>7, <1>8, OwnKeeps DEF Goto, IInv, TypeOK

(* The same for the steps that go on in the middle of a checkpoint.        *)
LEMMA AdvanceKeeps ==
  ASSUME IInv, NEW p \in Preparations, TypeOK', ReportedPullsMatch',
         NEW step \in Active \cup {"done"}, NEW k \in Checkpoints,
         pc[p] \in Active, Goto(p, step, k), UNCHANGED stage,
         NEW made \in SUBSET Resources,
         Made(p)' = Made(p) \cup made, reported' = [reported EXCEPT ![p] = @ \cup made],
         \A q \in Preparations \ {p} : Made(q)' = Made(q),
         Progress(p)' = Progress(p) \cup made
  PROVE  IInv'
<1>1. pc'[p] = step /\ step # "failed" /\ reported'[p] = reported[p] \cup made
  BY DEF IInv, TypeOK, Goto, Active
<1>2. Made(p) = Progress(p) /\ reported[p] = Progress(p)
  BY DEF IInv, OnTrack
<1>3. OnTrack(p)'
  BY <1>1, <1>2 DEF OnTrack
<1>4. Exact(p)'
  BY <1>1 DEF Exact
<1>5. QED
  BY <1>3, <1>4, OwnKeeps DEF Goto, IInv, TypeOK

(* A clone makes nothing on GitHub, whether it succeeds or fails.          *)
LEMMA CloneKeeps == ASSUME IInv, NEW p \in Preparations, Clone(p) PROVE IInv'
<1>1. Checkout(p) \in Roots \X Checkpoints
  BY FixtureAssumption DEF IInv, TypeOK, Checkout
<1>2. CASE /\ checkouts' = checkouts \cup {Checkout(p)}
           /\ Goto(p, "push", at[p])
           /\ UNCHANGED <<base, reported, stage>>
  <2>1. TypeOK'
    BY <1>1, <1>2 DEF Clone, IInv, TypeOK, Goto, remote, Active
  <2>2. ReportedPullsMatch'
    BY <1>2 DEF Clone, IInv, ReportedPullsMatch, remote
  <2>3. \A q \in Preparations : Made(q)' = Made(q)
    BY SameMade DEF Clone, remote
  <2>4. Progress(p)' = Progress(p) \cup {} /\ at[p] \in Checkpoints
    BY <1>2 DEF Clone, IInv, TypeOK, Goto, Progress, Finished
  <2>5. /\ reported' = [reported EXCEPT ![p] = @ \cup {}]
        /\ Made(p)' = Made(p) \cup {} /\ {} \in SUBSET Resources
        /\ UNCHANGED stage
    BY <1>2, <2>3 DEF IInv, TypeOK
  <2>6. pc[p] \in Active /\ "push" \in Active
    BY DEF Clone, Active
  <2>7. QED
    BY <1>2, <2>1, <2>2, <2>3, <2>4, <2>5, <2>6, AdvanceKeeps
<1>3. CASE checkouts' \in {checkouts, checkouts \cup {Checkout(p)}} /\ Fail(p, "push")
  BY <1>1, <1>3, FailCleanKeeps DEF Clone, Active, Stages, IInv, TypeOK
<1>4. QED
  BY <1>2, <1>3 DEF Clone

(* A push whose end is not seen leaves at most the branch its stage is     *)
(* about.                                                                  *)
LEMMA PushLostKeeps == ASSUME IInv, NEW p \in Preparations, PushLost(p) PROVE IInv'
<1>1. TypeOK'
  BY DEF PushLost, CreateBranch, Fail, IInv, TypeOK, Stages
<1>2. ReportedPullsMatch'
  BY DEF PushLost, CreateBranch, Fail, IInv, ReportedPullsMatch
<1>3. /\ Made(p)' = Made(p) \cup {<<"branch", at[p]>>}
      /\ \A q \in Preparations \ {p} : Made(q)' = Made(q)
  BY BranchMade DEF PushLost, IInv
<1>4. {<<"branch", at[p]>>} \subseteq InDoubt(<<"push", at[p]>>)
  BY DEF IInv, TypeOK, InDoubt, Resources
<1>5. QED
  BY <1>1, <1>2, <1>3, <1>4, FailKeeps DEF PushLost, Active, Stages

(* A push that succeeds makes one branch and reports it in the same step.  *)
LEMMA PushKeeps == ASSUME IInv, NEW p \in Preparations, Push(p) PROVE IInv'
<1>1. TypeOK'
  BY DEF Push, CreateBranch, Reports, Goto, IInv, TypeOK, Active, Resources
<1>2. ReportedPullsMatch'
  <2>1. \A q \in Preparations, k \in Checkpoints :
          <<"pull_request", k>> \in reported'[q] => <<"pull_request", k>> \in reported[q]
    BY DEF Push, Reports, IInv, TypeOK
  <2>2. QED
    BY <2>1 DEF Push, CreateBranch, IInv, TypeOK, ReportedPullsMatch
<1>3. /\ Made(p)' = Made(p) \cup {<<"branch", at[p]>>}
      /\ \A q \in Preparations \ {p} : Made(q)' = Made(q)
  BY BranchMade DEF Push, IInv
<1>4. Progress(p)' = Progress(p) \cup {<<"branch", at[p]>>}
  <2>1. pc'[p] = "open" /\ at'[p] = at[p] /\ pc[p] = "push" /\ at[p] \in Checkpoints
    BY DEF Push, Goto, IInv, TypeOK
  <2>2. \A k : Finished(p, k)' <=> Finished(p, k)
    BY <2>1 DEF Finished
  <2>3. QED
    BY <2>1, <2>2 DEF Progress
<1>5. {<<"branch", at[p]>>} \in SUBSET Resources /\ at[p] \in Checkpoints
  BY DEF IInv, TypeOK, Resources
<1>6. pc[p] \in Active /\ "open" \in Active
  BY DEF Push, Active
<1>7. QED
  BY <1>1, <1>2, <1>3, <1>4, <1>5, <1>6, AdvanceKeeps DEF Push, Reports

-----------------------------------------------------------------------------
(* The two ways to fail with a pull request that is not reported.          *)
LEMMA PullInDoubtKeeps ==
  ASSUME IInv, NEW p \in Preparations, NEW s \in {"pull_request", "identity"},
         pc[p] = "open", CreatePull(p), Fail(p, s), UNCHANGED checkouts
  PROVE  IInv'
<1>1. /\ PullRequest(p) \in [checkpoint : Checkpoints, by : Preparations, base : Nat,
                             head : Preparations \cup {Somebody, Nobody}]
      /\ PullRequest(p).by = p /\ PullRequest(p).checkpoint = at[p]
  BY DEF IInv, TypeOK, PullRequest
<1>2. TypeOK'
  BY <1>1 DEF CreatePull, Fail, IInv, TypeOK, Stages
<1>3. <<"pull_request", at[p]>> \notin reported[p]
  BY DEF IInv, TypeOK, OnTrack, Active, Progress, Finished, Checkpoints
<1>4. ReportedPullsMatch'
  BY <1>1, <1>3 DEF CreatePull, Fail, IInv, ReportedPullsMatch
<1>5. /\ Made(p)' = Made(p) \cup {<<"pull_request", at[p]>>}
      /\ \A q \in Preparations \ {p} : Made(q)' = Made(q)
  BY PullMade DEF IInv
<1>6. {<<"pull_request", at[p]>>} \subseteq InDoubt(<<s, at[p]>>)
  BY DEF IInv, TypeOK, InDoubt, Resources
<1>7. QED
  BY <1>2, <1>4, <1>5, <1>6, FailKeeps DEF Active, Stages

(* A pull request is reported with its number, or is what its stage is     *)
(* about.                                                                  *)
LEMMA OpenKeeps == ASSUME IInv, NEW p \in Preparations, Open(p) PROVE IInv'
<1>1. /\ PullRequest(p) \in [checkpoint : Checkpoints, by : Preparations, base : Nat,
                             head : Preparations \cup {Somebody, Nobody}]
      /\ PullRequest(p).by = p /\ PullRequest(p).checkpoint = at[p]
      /\ PullRequest(p).base = base[p] /\ PullRequest(p).head = p
  BY DEF IInv, TypeOK, PullRequest, Open, Verified
<1>2. at[p] \in {"B", "C"} /\ pc[p] = "open"
  BY DEF IInv, TypeOK, Open, Checkpoints
<1>3. PICK step \in {"clone", "done"} :
        Goto(p, step, "C") /\ step = IF at[p] = "B" THEN "clone" ELSE "done"
  BY <1>2 DEF Open
<1>4. TypeOK'
  BY <1>1, <1>2, <1>3
  DEF Open, CreatePull, Reports, Goto, IInv, TypeOK, Active, Resources, Checkpoints
<1>5. ReportedPullsMatch'
  <2>1. SUFFICES ASSUME NEW r \in pulls', <<"pull_request", r.checkpoint>> \in reported'[r.by]
                 PROVE  r.base = base[r.by] /\ r.head = r.by
    BY DEF ReportedPullsMatch, Open
  <2>2. CASE r = PullRequest(p)
    BY <1>1, <2>2
  <2>3. CASE r # PullRequest(p) /\ r.by = p /\ r.checkpoint = at[p]
    <3>1. r \in pulls
      BY <2>3 DEF Open, CreatePull
    <3>2. <<"pull_request", at[p]>> \in Made(p)
      BY <2>3, <3>1, <1>2, MadeMembers DEF Checkpoints
    <3>3. <<"pull_request", at[p]>> \notin Progress(p)
      BY <1>2 DEF Progress, Finished
    <3>4. QED
      BY <3>2, <3>3, <1>2 DEF IInv, OnTrack, Active
  <2>4. CASE r # PullRequest(p) /\ ~(r.by = p /\ r.checkpoint = at[p])
    <3>1. r \in pulls /\ r.by \in Preparations
      BY <2>4 DEF Open, CreatePull, IInv, TypeOK
    <3>2. <<"pull_request", r.checkpoint>> \in reported[r.by]
      BY <2>1, <2>4, <3>1 DEF Open, Reports, IInv, TypeOK
    <3>3. QED
      BY <3>1, <3>2 DEF IInv, ReportedPullsMatch
  <2>5. QED
    BY <2>2, <2>3, <2>4
<1>6. /\ Made(p)' = Made(p) \cup {<<"pull_request", at[p]>>}
      /\ \A q \in Preparations \ {p} : Made(q)' = Made(q)
  BY PullMade DEF Open, IInv
<1>7. Progress(p)' = Progress(p) \cup {<<"pull_request", at[p]>>}
  <2>1. pc'[p] = step /\ at'[p] = "C"
    BY <1>3 DEF Goto, IInv, TypeOK
  <2>2. CASE at[p] = "B"
    <3>1. Progress(p) = {<<"branch", "B">>}
      BY <1>2, <2>2 DEF Progress, Finished, Checkpoints
    <3>2. Progress(p)' = {<<"branch", "B">>, <<"pull_request", "B">>}
      BY <1>3, <2>1, <2>2 DEF Progress, Finished, Checkpoints
    <3>3. QED
      BY <3>1, <3>2, <2>2
  <2>3. CASE at[p] = "C"
    <3>1. Progress(p) = {<<"branch", "B">>, <<"pull_request", "B">>, <<"branch", "C">>}
      BY <1>2, <2>3 DEF Progress, Finished, Checkpoints
    <3>2. Progress(p)' = Resources
      BY <1>3, <2>1, <2>3 DEF Progress, Finished, Checkpoints, Resources
    <3>3. Resources = {<<"branch", "B">>, <<"pull_request", "B">>,
                       <<"branch", "C">>, <<"pull_request", "C">>}
      BY DEF Resources, Checkpoints
    <3>4. QED
      BY <3>1, <3>2, <3>3, <2>3
  <2>4. QED
    BY <1>2, <2>2, <2>3
<1>8. {<<"pull_request", at[p]>>} \in SUBSET Resources
  BY <1>2 DEF Resources, Checkpoints
<1>9. pc[p] \in Active /\ step \in Active \cup {"done"} /\ "C" \in Checkpoints
  BY <1>2, <1>3 DEF Active, Checkpoints
<1>10. QED
  BY <1>3, <1>4, <1>5, <1>6, <1>7, <1>8, <1>9, AdvanceKeeps DEF Open, Reports

(* What an operator removes by name is the failed call's own.              *)
LEMMA CleanUpKeeps == ASSUME IInv, NEW p \in Preparations, CleanUp(p) PROVE IInv'
<1>1. TypeOK'
  BY DEF CleanUp, IInv, TypeOK
<1>2. ReportedPullsMatch'
  BY DEF CleanUp, IInv, ReportedPullsMatch
<1>3. \A k \in Checkpoints : <<"branch", k>> \in reported[p] => maker[k] = p
  BY MadeMembers DEF IInv, ReportIsExact, Exact, CleanUp
<1>4. ASSUME NEW q \in Preparations \ {p} PROVE Made(q)' = Made(q)
  <2>1. q # Nobody
    BY FixtureAssumption
  <2>2. \A k \in Checkpoints : maker'[k] = q <=> maker[k] = q
    BY <1>3, <2>1 DEF CleanUp
  <2>3. {k \in Checkpoints : maker'[k] = q} = {k \in Checkpoints : maker[k] = q}
    BY <2>2
  <2>4. QED
    BY <2>3 DEF CleanUp, Made
<1>5. OnTrack(p)' /\ Exact(p)'
  BY DEF CleanUp, IInv, TypeOK, OnTrack, Exact, Active
<1>6. QED
  BY <1>1, <1>2, <1>4, <1>5, OwnKeeps DEF CleanUp, IInv, TypeOK

(* Steps that are not about what a call made.                              *)
LEMMA OthersKeep ==
  ASSUME IInv, UNCHANGED <<maker, pulls, checkouts, locals>>,
         tip' \in Nat, head' \in [Checkpoints -> Preparations \cup {Somebody, Nobody}]
  PROVE  IInv'
<1>1. \A p \in Preparations : Made(p)' = Made(p) /\ Progress(p)' = Progress(p)
  BY SameMade DEF locals, Progress, Finished
<1>2. QED
  BY <1>1
  DEF IInv, TypeOK, ReportIsExact, ReportedPullsMatch, OnTrack, Exact, InDoubt, locals

(* A call that is interrupted raises no report, so nothing is asked of it. *)
LEMMA InterruptKeeps == ASSUME IInv, NEW p \in Preparations, Interrupt(p) PROVE IInv'
<1>1. TypeOK'
  BY DEF Interrupt, IInv, TypeOK, remote
<1>2. ReportedPullsMatch'
  BY DEF Interrupt, IInv, ReportedPullsMatch, remote
<1>3. \A q \in Preparations : Made(q)' = Made(q)
  BY SameMade DEF Interrupt, remote
<1>4. OnTrack(p)' /\ Exact(p)'
  BY DEF Interrupt, IInv, TypeOK, OnTrack, Exact, Active
<1>5. QED
  BY <1>1, <1>2, <1>3, <1>4, OwnKeeps DEF Interrupt, IInv, TypeOK

(* Every step of one call keeps the invariant.                             *)
LEMMA StepKeeps == ASSUME IInv, NEW p \in Preparations, Step(p) PROVE IInv'
<1>1. /\ at[p] \in Checkpoints /\ "B" \in Checkpoints /\ "C" \in Checkpoints
      /\ checkouts \subseteq Roots \X Checkpoints
      /\ base \in [Preparations -> Nat] /\ tip \in Nat
  BY DEF IInv, TypeOK, Checkpoints
<1>2. CASE Authenticate(p)
  <2>1. pc[p] = "authenticate" /\ pc[p] \in Active /\ "authentication" \in Stages
    BY <1>2 DEF Authenticate, Active, Stages
  <2>2. CASE Fail(p, "authentication")
    BY <1>1, <1>2, <2>1, <2>2, FailCleanKeeps DEF Authenticate
  <2>3. CASE Goto(p, "search", at[p]) /\ UNCHANGED <<base, reported, stage>>
    BY <1>1, <1>2, <2>1, <2>3, EarlyKeeps DEF Authenticate
  <2>4. QED
    BY <1>2, <2>2, <2>3 DEF Authenticate
<1>3. CASE Search(p)
  <2>1. pc[p] = "search" /\ pc[p] \in Active /\ "collision" \in Stages
    BY <1>3 DEF Search, Active, Stages
  <2>2. CASE Fail(p, "collision")
    BY <1>1, <1>3, <2>1, <2>2, FailCleanKeeps DEF Search
  <2>3. CASE Goto(p, "look", "B") /\ UNCHANGED <<base, reported, stage>>
    BY <1>1, <1>3, <2>1, <2>3, EarlyKeeps DEF Search
  <2>4. QED
    BY <1>3, <2>2, <2>3 DEF Search
<1>4. CASE Look(p)
  <2>1. pc[p] = "look" /\ pc[p] \in Active /\ "collision" \in Stages
    BY <1>4 DEF Look, Active, Stages
  <2>2. CASE Fail(p, "collision")
    BY <1>1, <1>4, <2>1, <2>2, FailCleanKeeps DEF Look
  <2>3. CASE Goto(p, "look", "C") /\ UNCHANGED <<base, reported, stage>>
    BY <1>1, <1>4, <2>1, <2>3, EarlyKeeps DEF Look
  <2>4. CASE Goto(p, "base", "B") /\ UNCHANGED <<base, reported, stage>>
    BY <1>1, <1>4, <2>1, <2>4, EarlyKeeps DEF Look
  <2>5. QED
    BY <1>4, <2>2, <2>3, <2>4 DEF Look
<1>5. CASE ReadBase(p)
  <2>1. pc[p] = "base" /\ pc[p] \in Active /\ "default_branch" \in Stages
    BY <1>5 DEF ReadBase, Active, Stages
  <2>2. CASE Fail(p, "default_branch")
    BY <1>1, <1>5, <2>1, <2>2, FailCleanKeeps DEF ReadBase
  <2>3. CASE /\ base' = [base EXCEPT ![p] = tip]
             /\ Goto(p, "clone", "B")
             /\ UNCHANGED <<reported, stage>>
    <3>1. base' \in [Preparations -> Nat] /\ \A q \in Preparations \ {p} : base'[q] = base[q]
      BY <1>1, <2>3
    <3>2. QED
      BY <1>1, <1>5, <2>1, <2>3, <3>1, EarlyKeeps DEF ReadBase
  <2>4. QED
    BY <1>5, <2>2, <2>3 DEF ReadBase
<1>6. CASE CloneRefused(p) \/ PushFails(p) \/ OpenFails(p)
  <2>1. /\ pc[p] \in Active /\ UNCHANGED <<remote, checkouts>>
        /\ \E s \in Stages : Fail(p, s)
    BY <1>6 DEF CloneRefused, PushFails, OpenFails, Active, Stages
  <2>2. QED
    BY <1>1, <2>1, FailCleanKeeps
<1>7. CASE OpenLost(p) \/ IdentityDiffers(p)
  BY <1>7, PullInDoubtKeeps DEF OpenLost, IdentityDiffers
<1>8. QED
  BY <1>2, <1>3, <1>4, <1>5, <1>6, <1>7, CloneKeeps, PushLostKeeps, PushKeeps, OpenKeeps,
     InterruptKeeps, CleanUpKeeps
  DEF Step

(* Every step keeps the invariant.                                         *)
LEMMA NextKeeps == IInv /\ [Next]_vars => IInv'
<1>1. SUFFICES ASSUME IInv, [Next]_vars PROVE IInv'
  OBVIOUS
<1>2. tip \in Nat /\ head \in [Checkpoints -> Preparations \cup {Somebody, Nobody}]
  BY <1>1 DEF IInv, TypeOK
<1>3. CASE BaseMoves
  BY <1>1, <1>2, <1>3, OthersKeep DEF BaseMoves
<1>4. CASE HeadMoves
  <2>1. head' \in [Checkpoints -> Preparations \cup {Somebody, Nobody}]
    BY <1>2, <1>4 DEF HeadMoves
  <2>2. QED
    BY <1>1, <1>2, <1>4, <2>1, OthersKeep DEF HeadMoves
<1>5. CASE UNCHANGED vars
  BY <1>1, <1>2, <1>5, OthersKeep DEF vars, remote
<1>6. QED
  BY <1>1, <1>3, <1>4, <1>5, StepKeeps DEF Next

-----------------------------------------------------------------------------
(* The inductive invariant: what a call that goes on has made is what it   *)
(* has reported, and a failure's report is exact.                          *)
THEOREM Invariance == Spec => []IInv
BY InitIInv, NextKeeps, PTL DEF Spec

(* The error of a failed call names its own resources only, and all of     *)
(* them but the one its stage was about.                                   *)
THEOREM ReportsAreExact == Spec => []ReportIsExact
<1>1. IInv => ReportIsExact
  BY DEF IInv
<1>2. QED
  BY <1>1, Invariance, PTL

(* A call that is done has reported, and therefore made, all four          *)
(* resources.                                                              *)
LEMMA DoneIsOwn == IInv => PreparedIsOwn
<1>1. SUFFICES ASSUME IInv, NEW p \in Preparations, pc[p] = "done"
               PROVE  /\ Made(p) = Resources
                      /\ \A r \in pulls : r.by = p => r.base = base[p] /\ r.head = p
  BY DEF PreparedIsOwn
<1>2. Progress(p) = Resources
  BY <1>1 DEF Progress, Finished, Resources, Checkpoints
<1>3. Made(p) = Resources /\ reported[p] = Resources
  BY <1>1, <1>2 DEF IInv, OnTrack
<1>4. \A r \in pulls : r.checkpoint \in Checkpoints
  BY <1>1 DEF IInv, TypeOK
<1>5. QED
  BY <1>1, <1>3, <1>4 DEF IInv, ReportedPullsMatch, Resources

(* A call that returned owns both fixtures, on the one base it read.       *)
THEOREM PreparedFixturesAreOwn == Spec => []PreparedIsOwn
BY DoneIsOwn, Invariance, PTL

(* At most one call for a campaign id ever returns.                        *)
THEOREM Exclusive == Spec => []OnePrepares
<1>1. PreparedIsOwn => OnePrepares
  <2>1. SUFFICES ASSUME PreparedIsOwn, NEW p \in Preparations, NEW q \in Preparations,
                        pc[p] = "done", pc[q] = "done"
                 PROVE  p = q
    BY DEF OnePrepares
  <2>2. <<"branch", "B">> \in Made(p) /\ <<"branch", "B">> \in Made(q)
    BY <2>1 DEF PreparedIsOwn, Resources, Checkpoints
  <2>3. QED
    BY <2>2, MadeMembers DEF Checkpoints
<1>2. QED
  BY <1>1, PreparedFixturesAreOwn, PTL
=============================================================================
