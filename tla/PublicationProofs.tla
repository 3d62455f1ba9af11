-------------------------- MODULE PublicationProofs --------------------------
(***************************************************************************)
(* Theorems about Publication.                                             *)
(***************************************************************************)
EXTENDS Publication, FiniteSetTheorems, SequenceTheorems, TLAPS

MarkedComment == [app : {"ours", "other"}, body : Bodies]
MutationRequest == [run : Runs, target : Nat, body : Bodies]

-----------------------------------------------------------------------------
(* What GitHub's steps do to the owned comments.                           *)

(* An update keeps the list of comments and who wrote them.                *)
LEMMA UpdateKeepsOwners ==
  ASSUME comments \in Seq(MarkedComment), NEW t \in Nat, NEW b \in Bodies,
         comments' = [comments EXCEPT ![t].body = b]
  PROVE  /\ comments' \in Seq(MarkedComment)
         /\ DOMAIN comments' = DOMAIN comments
         /\ Owned' = Owned
         /\ t \in Owned => comments'[t] = [app |-> "ours", body |-> b]
<1> DEFINE edited == [comments[t] EXCEPT !.body = b]
<1>1. /\ comments \in [1..Len(comments) -> MarkedComment]
      /\ DOMAIN comments = 1..Len(comments)
  BY LenProperties
<1>2. CASE t \in DOMAIN comments
  <2>1. comments[t] \in MarkedComment
    BY <1>1, <1>2
  <2>2. edited \in MarkedComment /\ edited.app = comments[t].app /\ edited.body = b
    BY <2>1 DEF MarkedComment
  <2>3. edited.app = "ours" => edited = [app |-> "ours", body |-> b]
    BY <2>2 DEF MarkedComment
  <2> HIDE DEF edited
  <2>4. comments' = [comments EXCEPT ![t] = edited]
    BY DEF edited
  <2>5. /\ comments' \in Seq(MarkedComment)
        /\ Len(comments') = Len(comments)
        /\ \A i \in 1..Len(comments) : comments'[i] = IF i = t THEN edited ELSE comments[i]
    BY <1>1, <1>2, <2>2, <2>4, ExceptSeq
  <2>6. DOMAIN comments' = DOMAIN comments
    BY <1>1, <2>5, LenProperties
  <2>7. \A i \in DOMAIN comments : comments'[i].app = comments[i].app
    BY <1>1, <2>2, <2>5
  <2>8. QED
    BY <1>1, <1>2, <2>2, <2>3, <2>5, <2>6, <2>7 DEF Owned
<1>3. CASE t \notin DOMAIN comments
  <2>1. comments' = comments
    BY <1>1, <1>3
  <2>2. QED
    BY <1>3, <2>1 DEF Owned
<1>4. QED
  BY <1>2, <1>3

(* A comment is added at the end.                                          *)
LEMMA AppendedComment ==
  ASSUME comments \in Seq(MarkedComment), NEW c \in MarkedComment,
         comments' = Append(comments, c)
  PROVE  /\ comments' \in Seq(MarkedComment)
         /\ Len(comments) + 1 \notin Owned
         /\ Owned' = IF c.app = "ours" THEN Owned \cup {Len(comments) + 1} ELSE Owned
         /\ Len(comments) + 1 \in DOMAIN comments' /\ comments'[Len(comments) + 1] = c
         /\ \A i \in DOMAIN comments : i \in DOMAIN comments' /\ comments'[i] = comments[i]
<1>1. DOMAIN comments = 1..Len(comments) /\ DOMAIN comments' = 1..Len(comments) + 1
      /\ Len(comments) \in Nat
  OBVIOUS
<1>2. /\ comments' \in Seq(MarkedComment)
      /\ comments'[Len(comments) + 1] = c
      /\ \A i \in 1..Len(comments) : comments'[i] = comments[i]
  OBVIOUS
<1>3. QED
  BY <1>1, <1>2 DEF Owned

(* The owned comments are finitely many.                                   *)
LEMMA OwnedFinite ==
  ASSUME comments \in Seq(MarkedComment)
  PROVE  IsFiniteSet(Owned) /\ Cardinality(Owned) \in Nat
<1>1. IsFiniteSet(1..Len(comments))
  BY FS_Interval
<1>2. Owned \subseteq 1..Len(comments)
  BY DEF Owned
<1>3. QED
  BY <1>1, <1>2, FS_Subset, FS_CardinalityType

(* The same after a step.                                                  *)
LEMMA OwnedFiniteNext ==
  ASSUME comments' \in Seq(MarkedComment)
  PROVE  IsFiniteSet(Owned') /\ Cardinality(Owned') \in Nat
<1>1. IsFiniteSet(1..Len(comments'))
  BY FS_Interval
<1>2. Owned' \subseteq 1..Len(comments')
  BY DEF Owned
<1>3. QED
  BY <1>1, <1>2, FS_Subset, FS_CardinalityType

(* The undecided runs before this one are finitely many.                   *)
LEMMA UndecidedFinite ==
  ASSUME TypeOK
  PROVE  IsFiniteSet(UndecidedBefore) /\ Cardinality(UndecidedBefore) \in Nat
<1>1. IsFiniteSet(1..run - 1)
  BY FS_Interval DEF TypeOK, Runs
<1>2. QED
  BY <1>1, FS_Subset, FS_CardinalityType DEF UndecidedBefore

(* A request that is applied: an update leaves the owned comments what     *)
(* they are, a create adds one.                                            *)
LEMMA Applied ==
  ASSUME TypeOK, NEW m \in MutationRequest, Apply(m)
  PROVE  /\ comments' \in Seq(MarkedComment)
         /\ Owned \subseteq Owned'
         /\ m.target # 0 => Owned' = Owned
         /\ m.target = 0 => /\ Owned' # {}
                            /\ Cardinality(Owned') = Cardinality(Owned) + 1
         /\ m.target \in Owned \cup {0} =>
              \E i \in DOMAIN comments' : comments'[i] = [app |-> "ours", body |-> m.body]
<1>1. comments \in Seq(MarkedComment) /\ m.target \in Nat /\ m.body \in Bodies
  BY DEF TypeOK, MarkedComment, MutationRequest
<1>2. CASE m.target = 0
  <2>1. /\ comments' = Append(comments, [app |-> "ours", body |-> m.body])
        /\ [app |-> "ours", body |-> m.body] \in MarkedComment
    BY <1>1, <1>2 DEF Apply, MarkedComment
  <2>2. /\ comments' \in Seq(MarkedComment)
        /\ Len(comments) + 1 \notin Owned
        /\ Owned' = Owned \cup {Len(comments) + 1}
        /\ Len(comments) + 1 \in DOMAIN comments'
        /\ comments'[Len(comments) + 1] = [app |-> "ours", body |-> m.body]
    BY <1>1, <2>1, AppendedComment
  <2>3. Cardinality(Owned \cup {Len(comments) + 1}) = Cardinality(Owned) + 1
    BY <1>1, <2>2, OwnedFinite, FS_AddElement
  <2>4. QED
    BY <1>2, <2>2, <2>3
<1>3. CASE m.target # 0
  <2>1. comments' = [comments EXCEPT ![m.target].body = m.body]
    BY <1>3 DEF Apply
  <2>2. /\ comments' \in Seq(MarkedComment)
        /\ DOMAIN comments' = DOMAIN comments
        /\ Owned' = Owned
        /\ m.target \in Owned => comments'[m.target] = [app |-> "ours", body |-> m.body]
    BY <1>1, <2>1, UpdateKeepsOwners
  <2>3. Owned \subseteq DOMAIN comments
    BY DEF Owned
  <2>4. QED
    BY <1>3, <2>2, <2>3
<1>4. QED
  BY <1>2, <1>3

(* Creates in flight are finitely many.                                    *)
LEMMA CreatesFinite ==
  ASSUME IsFiniteSet(inFlight)
  PROVE  IsFiniteSet(Creates) /\ Cardinality(Creates) \in Nat
BY FS_Subset, FS_CardinalityType DEF Creates

(* The same after a step.                                                  *)
LEMMA CreatesFiniteNext ==
  ASSUME IsFiniteSet(inFlight')
  PROVE  IsFiniteSet(Creates') /\ Cardinality(Creates') \in Nat
BY FS_Subset, FS_CardinalityType DEF Creates

(* A request that goes into flight is one more create, or none.            *)
LEMMA Sent ==
  ASSUME IsFiniteSet(inFlight), NEW m, inFlight' = inFlight \cup {m}
  PROVE  /\ IsFiniteSet(inFlight')
         /\ Cardinality(Creates') <= Cardinality(Creates) + (IF m.target = 0 THEN 1 ELSE 0)
<1>1. IsFiniteSet(inFlight')
  BY FS_AddElement
<1>2. CASE m.target = 0
  <2>1. Creates' = Creates \cup {m}
    BY <1>2 DEF Creates
  <2>2. IsFiniteSet(Creates) /\ Cardinality(Creates) \in Nat
    BY CreatesFinite
  <2>3. Cardinality(Creates \cup {m}) \in {Cardinality(Creates), Cardinality(Creates) + 1}
    BY <2>2, FS_AddElement
  <2>4. QED
    BY <1>1, <1>2, <2>1, <2>2, <2>3
<1>3. CASE m.target # 0
  <2>1. Creates' = Creates
    BY <1>3 DEF Creates
  <2>2. QED
    BY <1>1, <1>3, <2>1, CreatesFinite
<1>4. QED
  BY <1>2, <1>3

(* A request that leaves flight is one create less, or none.               *)
LEMMA Left ==
  ASSUME IsFiniteSet(inFlight), NEW m \in inFlight, inFlight' = inFlight \ {m}
  PROVE  /\ IsFiniteSet(inFlight')
         /\ Cardinality(Creates') =
              IF m.target = 0 THEN Cardinality(Creates) - 1 ELSE Cardinality(Creates)
<1>1. IsFiniteSet(inFlight')
  BY FS_RemoveElement
<1>2. Creates' = Creates \ {m}
  BY DEF Creates
<1>3. m \in Creates <=> m.target = 0
  BY DEF Creates
<1>4. QED
  BY <1>1, <1>2, <1>3, CreatesFinite, FS_RemoveElement

-----------------------------------------------------------------------------
(* The inductive invariant, by what a step is about.                       *)

(* A run ends.  What it adds to GitHub, at most one comment or create, it  *)
(* adds at its mutation and pays for with the way it ends.                 *)
LEMMA EndKeeps ==
  ASSUME IInv, pc # "idle", NEW how \in Ending, End(how),
         comments' \in Seq(MarkedComment), inFlight' \subseteq MutationRequest,
         IsFiniteSet(inFlight'), Owned \subseteq Owned',
         how \in Settled => Owned' # {},
         pc = "preflight" => how \in {"already_reviewed", "failed", "crashed"},
         pc = "recheck" /\ target = 0 => how \in Settled \cup Undecided,
         Cardinality(Owned') + Cardinality(Creates')
           <= Cardinality(Owned) + Cardinality(Creates)
                + (IF pc = "mutate" /\ how \in Settled \cup Undecided THEN 1 ELSE 0)
  PROVE  IInv'
<1> USE DEF Ending, Receipt, Settled, Undecided
<1>1. TypeOK'
  BY DEF IInv, TypeOK, End, MarkedComment, MutationRequest
<1>2. /\ run \in Runs /\ ended \in [Runs -> Ending \cup {"no"}]
      /\ ended' = [ended EXCEPT ![run] = how] /\ pc' = "idle" /\ run' = run
      /\ \A k \in Runs : k \in Nat
  BY DEF IInv, TypeOK, End, Runs
<1>3. RunFacts'
  BY <1>2 DEF IInv, RunFacts
<1>4. Answered' <=> (Answered \/ how \in Settled)
  BY <1>2 DEF IInv, RunFacts, Answered
<1>5. AnsweredFacts'
  BY <1>2, <1>4 DEF IInv, AnsweredFacts
<1>6. CompletedIsNotRepeated'
  <2> SUFFICES ASSUME NEW j \in Runs, NEW k \in Runs, j < k, ended'[j] \in Settled
               PROVE  ended'[k] \in {"no", "already_reviewed", "failed", "crashed"}
    BY <1>2 DEF CompletedIsNotRepeated
  <2>1. CASE j = run
    BY <1>2, <2>1 DEF IInv, RunFacts
  <2>2. CASE k = run
    BY <1>2, <2>2 DEF IInv, AnsweredFacts, Answered, TypeOK
  <2>3. CASE j # run /\ k # run
    BY <1>2, <2>3 DEF IInv, CompletedIsNotRepeated
  <2>4. QED
    BY <2>1, <2>2, <2>3
<1>7. Budget'
  <2>1. UndecidedBefore' = UndecidedBefore
    BY <1>2 DEF UndecidedBefore
  <2>2. MaySent' <=> how \in Undecided
    BY <1>2 DEF MaySent
  <2>3. MaySent => pc = "recheck" /\ target = 0
    BY DEF MaySent
  <2>4. /\ Cardinality(Owned) \in Nat /\ Cardinality(Owned') \in Nat
        /\ Cardinality(Creates) \in Nat /\ Cardinality(Creates') \in Nat
        /\ Cardinality(UndecidedBefore) \in Nat
    BY OwnedFinite, OwnedFiniteNext, CreatesFinite, CreatesFiniteNext, UndecidedFinite
       DEF IInv, TypeOK, MarkedComment
  <2>5. pc = "mutate" => ~Answered
    BY DEF IInv, AnsweredFacts
  <2>6. QED
    BY <1>4, <2>1, <2>2, <2>3, <2>4, <2>5 DEF IInv, Budget
<1>8. QED
  BY <1>1, <1>3, <1>5, <1>6, <1>7 DEF IInv

(* A run ends without a call that changes anything on GitHub.              *)
LEMMA EndQuietKeeps ==
  ASSUME IInv, pc # "idle", NEW how \in Ending, End(how), UNCHANGED <<comments, inFlight>>,
         how \in Settled => Owned # {},
         pc = "preflight" => how \in {"already_reviewed", "failed", "crashed"},
         pc = "recheck" /\ target = 0 => how \in Settled \cup Undecided
  PROVE  IInv'
<1>1. Owned' = Owned /\ Creates' = Creates
  BY DEF Owned, Creates
<1>2. /\ comments' \in Seq(MarkedComment) /\ inFlight' \subseteq MutationRequest
      /\ IsFiniteSet(inFlight')
  BY DEF IInv, TypeOK, MarkedComment, MutationRequest
<1>3. Cardinality(Owned) \in Nat /\ Cardinality(Creates) \in Nat
  BY OwnedFinite, CreatesFinite DEF IInv, TypeOK, MarkedComment
<1>4. QED
  BY <1>1, <1>2, <1>3, EndKeeps

(* A step of GitHub, or of somebody else, that adds no comment that was    *)
(* not in flight.                                                          *)
LEMMA OutsideKeeps ==
  ASSUME IInv, UNCHANGED runVars,
         comments' \in Seq(MarkedComment), inFlight' \subseteq inFlight,
         Owned \subseteq Owned',
         Cardinality(Owned') + Cardinality(Creates')
           <= Cardinality(Owned) + Cardinality(Creates)
  PROVE  IInv'
<1>1. IsFiniteSet(inFlight')
  BY FS_Subset DEF IInv
<1>2. TypeOK'
  BY DEF IInv, TypeOK, runVars, MarkedComment
<1>3. RunFacts' /\ AnsweredFacts' /\ CompletedIsNotRepeated'
  BY DEF IInv, RunFacts, AnsweredFacts, Answered, CompletedIsNotRepeated, runVars
<1>4. Budget'
  <2>1. UndecidedBefore' = UndecidedBefore /\ (Answered' <=> Answered) /\ (MaySent' <=> MaySent)
    BY DEF UndecidedBefore, Answered, MaySent, runVars
  <2>2. /\ Cardinality(Owned) \in Nat /\ Cardinality(Owned') \in Nat
        /\ Cardinality(Creates) \in Nat /\ Cardinality(Creates') \in Nat
        /\ Cardinality(UndecidedBefore) \in Nat
    BY <1>1, OwnedFinite, OwnedFiniteNext, CreatesFinite, CreatesFiniteNext, UndecidedFinite
       DEF IInv, TypeOK, MarkedComment
  <2>3. QED
    BY <2>1, <2>2 DEF IInv, Budget
<1>5. QED
  BY <1>1, <1>2, <1>3, <1>4 DEF IInv

(* A run gets a stage further.                                             *)
LEMMA AdvanceKeeps ==
  ASSUME IInv, ~Answered, pc # "idle", UNCHANGED <<comments, run, ended>>,
         pc' \in {"review", "scan", "mutate", "recheck"}, pc = "recheck" => pc' = "recheck",
         body' \in Bodies \cup {NoBody}, pc' # "review" => body' \in Bodies,
         target' \in Nat, pc' = "mutate" => target' \in Owned \cup {0},
         pc = "recheck" => target' = target,
         index' \in 0..MaxRechecks, retryAfter' \in BOOLEAN,
         inFlight' \subseteq MutationRequest, IsFiniteSet(inFlight'),
         Cardinality(Creates')
           <= Cardinality(Creates)
                + (IF pc = "mutate" /\ pc' = "recheck" /\ target' = 0 THEN 1 ELSE 0)
  PROVE  IInv'
<1>1. TypeOK'
  BY DEF IInv, TypeOK, MutationRequest
<1>2. Owned' = Owned /\ ~Answered'
  BY DEF Owned, Answered
<1>3. RunFacts'
  BY <1>2 DEF IInv, RunFacts
<1>4. AnsweredFacts'
  BY <1>2 DEF IInv, AnsweredFacts
<1>5. CompletedIsNotRepeated'
  BY <1>2 DEF CompletedIsNotRepeated, Answered
<1>6. Budget'
  <2>1. UndecidedBefore' = UndecidedBefore
    BY DEF UndecidedBefore
  <2>2. /\ MaySent => pc = "recheck" /\ target = 0
        /\ pc' = "recheck" /\ target' = 0 => MaySent'
    BY DEF MaySent
  <2>3. /\ Cardinality(Owned) \in Nat /\ Cardinality(Creates) \in Nat
        /\ Cardinality(Creates') \in Nat /\ Cardinality(UndecidedBefore) \in Nat
    BY OwnedFinite, CreatesFinite, CreatesFiniteNext, UndecidedFinite
       DEF IInv, TypeOK, MarkedComment
  <2>4. QED
    BY <1>2, <2>1, <2>2, <2>3 DEF IInv, Budget
<1>7. QED
  BY <1>1, <1>3, <1>4, <1>5, <1>6 DEF IInv

(* A stage further without a request.                                      *)
LEMMA AdvanceQuietKeeps ==
  ASSUME IInv, ~Answered, pc # "idle", UNCHANGED <<comments, inFlight, run, ended>>,
         pc' \in {"review", "scan", "mutate", "recheck"}, pc = "recheck" => pc' = "recheck",
         body' \in Bodies \cup {NoBody}, pc' # "review" => body' \in Bodies,
         target' \in Nat, pc' = "mutate" => target' \in Owned \cup {0},
         pc = "recheck" => target' = target,
         index' \in 0..MaxRechecks, retryAfter' \in BOOLEAN
  PROVE  IInv'
<1>1. inFlight' \subseteq MutationRequest /\ IsFiniteSet(inFlight')
  BY DEF IInv, TypeOK, MutationRequest
<1>2. Creates' = Creates /\ Cardinality(Creates) \in Nat
  BY CreatesFinite DEF IInv, Creates
<1>3. QED
  BY <1>1, <1>2, AdvanceKeeps

-----------------------------------------------------------------------------
(* The steps of a run before its mutation.                                 *)

(* The run that ended undecided is one of those before the next run.       *)
LEMMA RedeliveryKeeps ==
  ASSUME IInv, Redelivery
  PROVE  IInv'
<1>1. /\ pc = "idle" /\ run < MaxRuns /\ run' = run + 1 /\ pc' = "preflight" /\ body' = NoBody
      /\ target' = 0 /\ index' = 0 /\ retryAfter' = FALSE
      /\ UNCHANGED <<comments, inFlight, ended>>
      /\ run \in Runs /\ run' \in Runs /\ run \in Nat /\ MaxRuns \in Nat
      /\ \A k \in Runs : k \in Nat
  BY PublicationAssumption DEF Redelivery, IInv, TypeOK, Runs
<1>2. TypeOK'
  <2>1. 0 \in 0..MaxRechecks
    BY PublicationAssumption
  <2>2. QED
    BY <1>1, <2>1 DEF IInv, TypeOK
<1>3. Owned' = Owned /\ Creates' = Creates /\ (Answered' <=> Answered) /\ ~MaySent'
  BY <1>1 DEF Owned, Creates, Answered, MaySent
<1>4. RunFacts' /\ AnsweredFacts'
  BY <1>1, <1>3 DEF IInv, RunFacts, AnsweredFacts
<1>5. CompletedIsNotRepeated'
  BY <1>1 DEF IInv, CompletedIsNotRepeated
<1>6. Budget'
  <2>1. /\ IsFiniteSet(UndecidedBefore) /\ Cardinality(UndecidedBefore) \in Nat
        /\ Cardinality(Owned) \in Nat /\ Cardinality(Creates) \in Nat
    BY OwnedFinite, CreatesFinite, UndecidedFinite DEF IInv, TypeOK, MarkedComment
  <2>2. CASE ended[run] \in Undecided
    <3>1. UndecidedBefore' = UndecidedBefore \cup {run} /\ run \notin UndecidedBefore
      BY <1>1, <2>2 DEF UndecidedBefore, Runs
    <3>2. Cardinality(UndecidedBefore') = Cardinality(UndecidedBefore) + 1
      BY <2>1, <3>1, FS_AddElement
    <3>3. QED
      BY <1>3, <2>1, <3>2 DEF IInv, Budget
  <2>3. CASE ended[run] \notin Undecided
    <3>1. UndecidedBefore' = UndecidedBefore /\ ~MaySent
      BY <1>1, <2>3 DEF UndecidedBefore, Runs, MaySent
    <3>2. QED
      BY <1>3, <2>1, <3>1 DEF IInv, Budget
  <2>4. QED
    BY <2>2, <2>3
<1>7. QED
  BY <1>1, <1>2, <1>4, <1>5, <1>6 DEF IInv

(* The preflight lets a run past only when there is no comment, and then   *)
(* no run before it was settled.                                           *)
LEMMA PreflightKeeps ==
  ASSUME IInv, Preflight
  PROVE  IInv'
<1>1. pc = "preflight" /\ UNCHANGED <<comments, inFlight>>
  BY DEF Preflight
<1>2. ASSUME NEW how \in {"already_reviewed", "failed"}, End(how)
      PROVE  IInv'
  BY <1>1, <1>2, EndQuietKeeps DEF Ending, Receipt, Settled
<1>3. ASSUME Owned = {}, pc' = "review",
             UNCHANGED <<run, body, target, index, retryAfter, ended>>
      PROVE  IInv'
  <2>1. ~Answered
    BY <1>3 DEF IInv, AnsweredFacts
  <2>2. /\ body' \in Bodies \cup {NoBody} /\ target' \in Nat /\ index' \in 0..MaxRechecks
        /\ retryAfter' \in BOOLEAN
    BY <1>3 DEF IInv, TypeOK
  <2>3. QED
    BY <1>1, <1>3, <2>1, <2>2, AdvanceQuietKeeps
<1>4. QED
  BY <1>2, <1>3 DEF Preflight

(* The review.                                                             *)
LEMMA ReviewKeeps ==
  ASSUME IInv, Review
  PROVE  IInv'
<1>1. pc = "review" /\ UNCHANGED <<comments, inFlight>> /\ ~Answered
  BY DEF Review, IInv, AnsweredFacts
<1>2. CASE End("failed")
  BY <1>1, <1>2, EndQuietKeeps DEF Ending, Receipt, Settled
<1>3. ASSUME NEW b \in Bodies, body' = b, pc' = "scan",
             UNCHANGED <<run, target, index, retryAfter, ended>>
      PROVE  IInv'
  <2>1. target' \in Nat /\ index' \in 0..MaxRechecks /\ retryAfter' \in BOOLEAN
    BY <1>3 DEF IInv, TypeOK
  <2>2. QED
    BY <1>1, <1>3, <2>1, AdvanceQuietKeeps
<1>4. QED
  BY <1>2, <1>3 DEF Review

(* The scan decides on the mutation, or ends the run.                      *)
LEMMA ScanKeeps ==
  ASSUME IInv, ScanFails \/ ScanCurrent \/ ScanMany \/ ScanStale \/ ScanNone
  PROVE  IInv'
<1>1. pc = "scan" /\ UNCHANGED <<comments, inFlight>> /\ ~Answered
  BY DEF ScanFails, ScanCurrent, ScanMany, ScanStale, ScanNone, IInv, AnsweredFacts
<1>2. CASE ScanFails
  BY <1>1, <1>2, EndQuietKeeps DEF ScanFails, Ending, Receipt, Settled
<1>3. CASE ScanCurrent
  BY <1>1, <1>3, EndQuietKeeps DEF ScanCurrent, Ending, Receipt
<1>4. CASE ScanMany
  <2>1. Owned # {}
    BY <1>4, FS_EmptySet DEF ScanMany
  <2>2. QED
    BY <1>1, <1>4, <2>1, EndQuietKeeps DEF ScanMany, Ending
<1>5. CASE ScanStale \/ ScanNone
  <2>1. \A i \in Owned : i \in Nat
    BY LenProperties DEF IInv, TypeOK, Owned
  <2>2. /\ pc' = "mutate" /\ target' \in Owned \cup {0}
        /\ UNCHANGED <<run, body, index, retryAfter, ended>>
    BY <1>5 DEF ScanStale, ScanNone
  <2>3. /\ body' \in Bodies /\ target' \in Nat /\ index' \in 0..MaxRechecks
        /\ retryAfter' \in BOOLEAN
    BY <1>1, <2>1, <2>2 DEF IInv, TypeOK, RunFacts
  <2>4. QED
    BY <1>1, <2>2, <2>3, AdvanceQuietKeeps
<1>6. QED
  BY <1>2, <1>3, <1>4, <1>5

-----------------------------------------------------------------------------
(* The one mutation of a run, and its rechecks.                            *)

\* what a run at its mutation holds
LEMMA MutationFacts ==
  ASSUME IInv, pc = "mutate"
  PROVE  /\ ~Answered
         /\ Mutation \in MutationRequest
         /\ Mutation.target = target /\ Mutation.body = body
         /\ target \in Owned \cup {0}
BY DEF IInv, TypeOK, RunFacts, AnsweredFacts, Mutation, MutationRequest

(* A mutation GitHub applied, with an answer that ends the run: an update  *)
(* has a comment to update, a create makes one.                            *)
LEMMA AppliedKeeps ==
  ASSUME IInv, pc = "mutate", NEW how \in Settled \ {"inconsistent"}, End(how),
         Apply(Mutation), UNCHANGED inFlight
  PROVE  IInv'
<1>1. /\ Mutation \in MutationRequest /\ Mutation.target = target
      /\ target \in Owned \cup {0}
  BY MutationFacts
<1>2. /\ comments' \in Seq(MarkedComment) /\ Owned \subseteq Owned'
      /\ target # 0 => Owned' = Owned
      /\ target = 0 => Owned' # {} /\ Cardinality(Owned') = Cardinality(Owned) + 1
  BY <1>1, Applied DEF IInv
<1>3. Owned' # {}
  BY <1>1, <1>2
<1>4. Cardinality(Owned) \in Nat /\ Cardinality(Creates) \in Nat /\ Creates' = Creates
  BY OwnedFinite, CreatesFinite DEF IInv, TypeOK, MarkedComment, Creates
<1>5. Cardinality(Owned') <= Cardinality(Owned) + 1
  BY <1>2, <1>4
<1>6. inFlight' \subseteq MutationRequest /\ IsFiniteSet(inFlight')
  BY DEF IInv, TypeOK, MutationRequest
<1>7. how \in Ending /\ how \in Settled \cup Undecided
  BY DEF Settled, Ending
<1>8. Cardinality(Owned') + Cardinality(Creates')
        <= Cardinality(Owned) + Cardinality(Creates)
             + (IF pc = "mutate" /\ how \in Settled \cup Undecided THEN 1 ELSE 0)
  BY <1>2, <1>4, <1>7
<1>9. QED
  BY <1>2, <1>3, <1>6, <1>7, <1>8, EndKeeps

(* The mutation.                                                           *)
LEMMA MutationKeeps ==
  ASSUME IInv,
         MutationRefused \/ MutationConfirmed \/ MutationUnusable \/ MutationAmbiguous
  PROVE  IInv'
<1>1. pc = "mutate"
  BY DEF MutationRefused, MutationConfirmed, MutationUnusable, MutationAmbiguous
<1>2. CASE MutationRefused
  BY <1>1, <1>2, EndQuietKeeps DEF MutationRefused, Ending, Receipt, Settled
<1>3. CASE MutationConfirmed
  BY <1>1, <1>3, AppliedKeeps DEF MutationConfirmed, Settled, Receipt
<1>4. CASE MutationUnusable
  BY <1>1, <1>4, AppliedKeeps DEF MutationUnusable, Settled, Receipt
<1>5. CASE MutationAmbiguous
  <2>1. ~Answered /\ Mutation \in MutationRequest
    BY <1>1, MutationFacts
  <2>2. /\ inFlight' = inFlight \cup {Mutation} /\ pc' = "recheck" /\ index' = 1
        /\ retryAfter' \in BOOLEAN /\ UNCHANGED <<comments, run, body, target, ended>>
    BY <1>5 DEF MutationAmbiguous
  <2>3. /\ inFlight' \subseteq MutationRequest /\ IsFiniteSet(inFlight')
        /\ Cardinality(Creates') <= Cardinality(Creates) + (IF target' = 0 THEN 1 ELSE 0)
    BY <1>1, <2>1, <2>2, MutationFacts, Sent DEF IInv, TypeOK, MutationRequest
  <2>4. index' \in 0..MaxRechecks
    BY <2>2, PublicationAssumption
  <2>5. body' \in Bodies /\ target' \in Nat
    BY <1>1, <2>2 DEF IInv, TypeOK, RunFacts
  <2>6. QED
    BY <1>1, <2>1, <2>2, <2>3, <2>4, <2>5, AdvanceKeeps
<1>6. QED
  BY <1>2, <1>3, <1>4, <1>5

(* A recheck ends the run, or leaves it to the next one.                   *)
LEMMA RecheckKeeps ==
  ASSUME IInv,
         \/ RecheckPastDeadline \/ RecheckScanFails \/ RecheckMany \/ RecheckConfirms
         \/ RecheckUndecided
  PROVE  IInv'
<1>1. pc = "recheck" /\ UNCHANGED <<comments, inFlight>> /\ ~Answered
  BY DEF RecheckPastDeadline, RecheckScanFails, RecheckMany, RecheckConfirms, RecheckUndecided,
         IInv, AnsweredFacts
<1>2. CASE GivesUp
  BY <1>1, <1>2, EndQuietKeeps DEF GivesUp, Ending, Receipt, Settled, Undecided
<1>3. CASE RecheckMany
  <2>1. Owned # {}
    BY <1>3, FS_EmptySet DEF RecheckMany
  <2>2. QED
    BY <1>1, <1>3, <2>1, EndQuietKeeps DEF RecheckMany, Ending, Settled
<1>4. CASE RecheckConfirms
  BY <1>1, <1>4, EndQuietKeeps DEF RecheckConfirms, Ending, Receipt, Settled
<1>5. ASSUME index < MaxRechecks, index' = index + 1,
             UNCHANGED <<run, pc, body, target, retryAfter, ended>>
      PROVE  IInv'
  <2>1. index' \in 0..MaxRechecks
    BY <1>5, PublicationAssumption DEF IInv, TypeOK
  <2>2. body' \in Bodies /\ target' \in Nat /\ retryAfter' \in BOOLEAN
    BY <1>1, <1>5 DEF IInv, TypeOK, RunFacts
  <2>3. QED
    BY <1>1, <1>5, <2>1, <2>2, AdvanceQuietKeeps
<1>6. QED
  BY <1>2, <1>3, <1>4, <1>5 DEF RecheckPastDeadline, RecheckScanFails, RecheckUndecided, GivesUp

-----------------------------------------------------------------------------
(* What happens to a run from outside.                                     *)

(* A kill at the mutation may leave one request behind.                    *)
LEMMA CrashKeeps ==
  ASSUME IInv, Crash
  PROVE  IInv'
<1> DEFINE how == IF target = 0 /\ pc \in {"mutate", "recheck"}
                    THEN "crashed_creating" ELSE "crashed"
<1>1. /\ pc # "idle" /\ End(how) /\ UNCHANGED comments
      /\ \/ inFlight' = inFlight
         \/ pc = "mutate" /\ inFlight' = inFlight \cup {Mutation}
  BY DEF Crash
<1>2. CASE inFlight' = inFlight
  BY <1>1, <1>2, EndQuietKeeps DEF Ending, Receipt, Settled, Undecided
<1>3. CASE pc = "mutate" /\ inFlight' = inFlight \cup {Mutation}
  <2>1. Mutation \in MutationRequest
    BY <1>3, MutationFacts
  <2>2. /\ inFlight' \subseteq MutationRequest /\ IsFiniteSet(inFlight')
        /\ Cardinality(Creates') <= Cardinality(Creates) + (IF target = 0 THEN 1 ELSE 0)
    BY <1>3, <2>1, MutationFacts, Sent DEF IInv, TypeOK, MutationRequest
  <2>3. comments' \in Seq(MarkedComment) /\ Owned' = Owned
    BY <1>1 DEF IInv, TypeOK, MarkedComment, Owned
  <2>4. Cardinality(Owned) \in Nat /\ Cardinality(Creates) \in Nat /\ Cardinality(Creates') \in Nat
    BY <2>2, OwnedFinite, CreatesFinite, CreatesFiniteNext DEF IInv, TypeOK, MarkedComment
  <2>5. /\ how \in Ending /\ how \notin Settled
        /\ target = 0 => how \in Undecided
    BY <1>3 DEF Ending, Receipt, Settled, Undecided
  <2>6. Cardinality(Owned') + Cardinality(Creates')
          <= Cardinality(Owned) + Cardinality(Creates)
               + (IF pc = "mutate" /\ how \in Settled \cup Undecided THEN 1 ELSE 0)
    BY <1>3, <2>2, <2>3, <2>4, <2>5
  <2>7. QED
    BY <1>1, <1>3, <2>2, <2>3, <2>5, <2>6, EndKeeps
<1>4. QED
  BY <1>1, <1>2, <1>3

(* A late request that lands was counted as a create in flight.            *)
LEMMA LandsKeeps ==
  ASSUME IInv, Lands
  PROVE  IInv'
<1>1. PICK m \in inFlight : Apply(m) /\ inFlight' = inFlight \ {m}
  BY DEF Lands
<1>2. m \in MutationRequest
  BY DEF IInv, TypeOK, MutationRequest
<1>3. /\ comments' \in Seq(MarkedComment) /\ Owned \subseteq Owned'
      /\ m.target # 0 => Owned' = Owned
      /\ m.target = 0 => Cardinality(Owned') = Cardinality(Owned) + 1
  BY <1>1, <1>2, Applied DEF IInv
<1>4. Cardinality(Creates') =
        IF m.target = 0 THEN Cardinality(Creates) - 1 ELSE Cardinality(Creates)
  BY <1>1, Left DEF IInv
<1>5. Cardinality(Owned) \in Nat /\ Cardinality(Creates) \in Nat
  BY OwnedFinite, CreatesFinite DEF IInv, TypeOK, MarkedComment
<1>6. QED
  BY <1>1, <1>3, <1>4, <1>5, OutsideKeeps DEF Lands

(* A request GitHub drops, and a comment of somebody else.                 *)
LEMMA DroppedAndOthersKeep ==
  ASSUME IInv, Dropped \/ SomeoneElse
  PROVE  IInv'
<1>1. Cardinality(Owned) \in Nat /\ Cardinality(Creates) \in Nat
      /\ comments \in Seq(MarkedComment)
  BY OwnedFinite, CreatesFinite DEF IInv, TypeOK, MarkedComment
<1>2. CASE Dropped
  <2>1. PICK m \in inFlight : inFlight' = inFlight \ {m}
    BY <1>2 DEF Dropped
  <2>2. Cardinality(Creates') <= Cardinality(Creates)
    BY <1>1, <2>1, Left DEF IInv
  <2>3. comments' = comments /\ Owned' = Owned /\ UNCHANGED runVars
    BY <1>2 DEF Dropped, Owned
  <2>4. QED
    BY <1>1, <2>1, <2>2, <2>3, Left, CreatesFiniteNext, OutsideKeeps DEF IInv
<1>3. CASE SomeoneElse
  <2>1. PICK b \in Bodies : comments' = Append(comments, [app |-> "other", body |-> b])
    BY <1>3 DEF SomeoneElse
  <2>2. comments' \in Seq(MarkedComment) /\ Owned' = Owned
    BY <1>1, <2>1, AppendedComment DEF MarkedComment
  <2>3. UNCHANGED <<inFlight, runVars>> /\ Creates' = Creates
    BY <1>3 DEF SomeoneElse, Creates
  <2>4. QED
    BY <1>1, <2>2, <2>3, OutsideKeeps
<1>4. QED
  BY <1>2, <1>3

-----------------------------------------------------------------------------
(* Nothing is there when the first run starts.                             *)
LEMMA Initially ==
  ASSUME Init
  PROVE  IInv
<1>1. TypeOK /\ IsFiniteSet(inFlight)
  <2>1. 1 \in Runs /\ 0 \in 0..MaxRechecks
    BY PublicationAssumption DEF Runs
  <2>2. comments \in Seq([app : {"ours", "other"}, body : Bodies])
    BY DEF Init
  <2>3. QED
    BY <2>1, <2>2, FS_EmptySet DEF Init, TypeOK
<1>2. Owned = {} /\ Creates = {} /\ ~Answered
  BY DEF Init, Owned, Creates, Answered, Settled, Receipt
<1>3. RunFacts /\ AnsweredFacts /\ CompletedIsNotRepeated
  BY <1>2, PublicationAssumption
     DEF Init, RunFacts, AnsweredFacts, CompletedIsNotRepeated, Runs, Settled, Receipt
<1>4. Budget
  BY <1>1, <1>2, UndecidedFinite, FS_EmptySet DEF Budget
<1>5. QED
  BY <1>1, <1>3, <1>4 DEF IInv

(* Every step keeps the inductive invariant.                               *)
LEMMA Consecution ==
  ASSUME IInv, [Next]_vars
  PROVE  IInv'
<1>1. CASE Next
  BY <1>1, RedeliveryKeeps, PreflightKeeps, ReviewKeeps, ScanKeeps, MutationKeeps, RecheckKeeps,
     CrashKeeps, LandsKeeps, DroppedAndOthersKeep DEF Next, Publish
<1>2. CASE UNCHANGED vars
  <2>1. Owned' = Owned /\ Creates' = Creates
    BY <1>2 DEF vars, Owned, Creates
  <2>2. QED
    BY <1>2, <2>1
       DEF vars, runVars, IInv, TypeOK, RunFacts, AnsweredFacts, Answered,
           CompletedIsNotRepeated, Budget, MaySent, UndecidedBefore
<1>3. QED
  BY <1>1, <1>2

-----------------------------------------------------------------------------
(* The accounting holds in every state, for any number of runs, rechecks   *)
(* and bodies.                                                             *)
THEOREM Invariance == Spec => []IInv
<1>1. Init => IInv
  BY Initially
<1>2. IInv /\ [Next]_vars => IInv'
  BY Consecution
<1>3. QED
  BY <1>1, <1>2, PTL DEF Spec

(* The comments and the run keep their types.                              *)
THEOREM TypeCorrect == Spec => []TypeOK
<1>1. IInv => TypeOK
  BY DEF IInv
<1>2. QED
  BY <1>1, Invariance, PTL

(* There is never more than one owned comment above the number of earlier  *)
(* runs whose create was left undecided.                                   *)
THEOREM DuplicatesAreBounded == Spec => []DuplicatesBounded
<1>1. ASSUME IInv
      PROVE  DuplicatesBounded
  <2>1. /\ Cardinality(Owned) \in Nat /\ Cardinality(Creates) \in Nat
        /\ Cardinality(UndecidedBefore) \in Nat
    BY <1>1, OwnedFinite, CreatesFinite, UndecidedFinite DEF IInv, TypeOK, MarkedComment
  <2>2. QED
    BY <1>1, <2>1 DEF IInv, Budget, DuplicatesBounded
<1>2. QED
  BY <1>1, Invariance, PTL

(* README.md's promise, one comment for a revision, holds as long as no    *)
(* create of an earlier run was left undecided, whatever became of updates *)
(* and of runs that died before their create.                              *)
THEOREM OneCommentUnlessUndecided == Spec => [](UndecidedBefore = {} => NoDuplicateResults)
<1>1. ASSUME DuplicatesBounded, UndecidedBefore = {}
      PROVE  NoDuplicateResults
  BY <1>1, FS_EmptySet DEF DuplicatesBounded, NoDuplicateResults
<1>2. QED
  BY <1>1, DuplicatesAreBounded, PTL

(* Once a run was settled, no later run gets past its preflight.           *)
THEOREM CompletedStaysCompleted == Spec => []CompletedIsNotRepeated
<1>1. IInv => CompletedIsNotRepeated
  BY DEF IInv
<1>2. QED
  BY <1>1, Invariance, PTL

(* A receipt tells the truth about GitHub's comments.                      *)
THEOREM ReceiptsAreTrue == Spec => ReceiptIsVisible
<1> DEFINE Visible(k) ==
      /\ \E i \in DOMAIN comments' : comments'[i] = [app |-> "ours", body |-> body]
      /\ ended'[k] \in {"already_current", "reconciled"} => Cardinality(Owned) = 1
<1>1. ASSUME IInv, [Next]_vars, NEW k \in Runs, ended'[k] # ended[k], ended'[k] \in Receipt
      PROVE  Visible(k)
  <2>1. \A how : End(how) => ended'[k] = how
    BY <1>1 DEF End, IInv, TypeOK
  <2>2. ASSUME UNCHANGED comments, NEW i \in Owned, Owned = {i}, Current(i)
        PROVE  Visible(k)
    <3>1. comments[i] \in MarkedComment /\ i \in DOMAIN comments
      <4>1. comments \in Seq(MarkedComment)
        BY <1>1 DEF IInv, TypeOK, MarkedComment
      <4>2. comments \in [1..Len(comments) -> MarkedComment] /\ DOMAIN comments = 1..Len(comments)
        BY <4>1, LenProperties
      <4>3. QED
        BY <2>2, <4>2 DEF Owned
    <3>2. comments[i] = [app |-> "ours", body |-> body]
      BY <2>2, <3>1 DEF Owned, Current, MarkedComment
    <3>3. Cardinality(Owned) = 1
      BY <2>2, FS_Singleton
    <3>4. QED
      BY <2>2, <3>1, <3>2, <3>3
  <2>3. CASE ScanCurrent \/ RecheckConfirms
    BY <2>2, <2>3 DEF ScanCurrent, RecheckConfirms
  <2>4. CASE MutationConfirmed
    <3>1. \E i \in DOMAIN comments' : comments'[i] = [app |-> "ours", body |-> body]
      BY <1>1, <2>4, MutationFacts, Applied DEF MutationConfirmed, IInv
    <3>2. ended'[k] \in {"created", "updated"}
      BY <2>1, <2>4 DEF MutationConfirmed
    <3>3. QED
      BY <3>1, <3>2
  <2>5. CASE ~(ScanCurrent \/ RecheckConfirms \/ MutationConfirmed)
    <3>1. \E how \in Ending \ Receipt : End(how)
      BY <1>1, <2>5
         DEF Next, vars, runVars, Redelivery, Preflight, Review, Publish, Crash, Lands, Dropped,
             SomeoneElse, ScanFails, ScanMany, ScanStale, ScanNone, MutationRefused,
             MutationUnusable, MutationAmbiguous, RecheckPastDeadline, RecheckScanFails,
             RecheckMany, RecheckUndecided, GivesUp, Ending, Receipt
    <3>2. QED
      BY <1>1, <2>1, <3>1
  <2>6. QED
    BY <2>3, <2>4, <2>5
<1>2. IInv /\ [Next]_vars =>
        \A k \in Runs : ended'[k] # ended[k] /\ ended'[k] \in Receipt => Visible(k)
  BY <1>1
<1>3. QED
  BY <1>2, Invariance, PTL DEF Spec, ReceiptIsVisible
=============================================================================
