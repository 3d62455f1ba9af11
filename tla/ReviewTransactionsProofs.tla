----------------------- MODULE ReviewTransactionsProofs -----------------------
(***************************************************************************)
(* What the contract of a review transaction promises by itself, and so of *)
(* everything that implements it: ReviewAttempt with its commands, and the *)
(* reviews of ReviewService with their comments.                           *)
(***************************************************************************)
EXTENDS ReviewTransactions, TLAPS

(* Nothing has begun.                                                      *)
LEMMA TInitHolds == TInit => TInv
BY DEF TInit, TInv, TTypeOK, Phases, Running, PostedMeansClear, RecordsAreTrue, Ended

(* A step of one attempt until it has returned or raised.                  *)
LEMMA OneAttempt ==
  ASSUME TInv, NEW a \in Attempts,
         Begin(a) \/ Work(a) \/ Clear(a) \/ Post(a) \/ Publish(a) \/ Fail(a)
  PROVE  TInv'
<1> USE DEF TInv, TTypeOK, PostedMeansClear, RecordsAreTrue, Phases, Running, Ended, Moves
<1>1. CASE Begin(a)
  BY <1>1 DEF Begin, With
<1>2. CASE Work(a)
  BY <1>2 DEF Work, With, Without
<1>3. CASE Clear(a)
  BY <1>3 DEF Clear, Without
<1>4. CASE Post(a)
  BY <1>4 DEF Post
<1>5. CASE Publish(a)
  BY <1>5 DEF Publish
<1>6. CASE Fail(a)
  <2>1. CASE UNCHANGED posted
    BY <1>6, <2>1 DEF Fail, Without
  <2>2. CASE phase[a] = "publishing" /\ posted' = posted \cup {a}
    BY <1>6, <2>2 DEF Fail, Without
  <2> QED
    BY <1>6, <2>1, <2>2 DEF Fail
<1> QED
  BY <1>1, <1>2, <1>3, <1>4, <1>5, <1>6

(* The end of an attempt, with its records.                                *)
LEMMA AnEnd ==
  ASSUME TInv, NEW a \in Attempts, Return(a) \/ Raise(a)
  PROVE  TInv'
<1>1. PICK from \in {{"published"}, {"published", "failed"}}, to \in {"returned", "raised"} :
        Ends(a, from, to)
  BY DEF Return, Raise
<1>2. PICK told \in SUBSET {"cleanup", "publication"} :
        /\ "cleanup" \in told => a \notin resources
        /\ to = "returned" => "cleanup" \in told
        /\ records' = [records EXCEPT ![a] = @ \cup told]
  BY <1>1 DEF Ends
<1>3. /\ phase' = [phase EXCEPT ![a] = to]
      /\ phase[a] \in {"published", "failed"}
      /\ UNCHANGED <<up, resources, posted>>
  BY <1>1 DEF Ends, Moves
<1>4. records[a] = {}
  BY <1>3 DEF TInv, RecordsAreTrue, Ended
<1>5. TTypeOK'
  BY <1>2, <1>3 DEF TInv, TTypeOK, Phases
<1> QED
  BY <1>2, <1>3, <1>4, <1>5 DEF TInv, TTypeOK, PostedMeansClear, RecordsAreTrue, Ended

(* The process dies, stops or comes up, or the reader begins anew.         *)
LEMMA TheProcess ==
  ASSUME TInv, Kill \/ Stop \/ Start \/ StartFails \/ TakeCursor
  PROVE  TInv'
<1> USE DEF TInv, TTypeOK, PostedMeansClear, RecordsAreTrue, Phases, Running, Ended
<1>1. CASE Kill
  <2>1. PICK lost \in SUBSET Attempts :
          /\ {a \in Attempts : phase[a] \in Running} \subseteq lost
          /\ phase' = [a \in Attempts |-> IF a \in lost THEN "killed" ELSE phase[a]]
    BY <1>1 DEF Kill
  <2>2. PICK sent \in SUBSET {a \in Attempts : phase[a] = "publishing"} :
          posted' = posted \cup sent
    BY <1>1 DEF Kill
  <2> QED
    BY <1>1, <2>1, <2>2 DEF Kill
<1>2. CASE Stop
  BY <1>2 DEF Stop
<1>3. CASE Start
  BY <1>3 DEF Start
<1>4. CASE StartFails
  BY <1>4 DEF StartFails
<1>5. CASE TakeCursor
  BY <1>5 DEF TakeCursor
<1> QED
  BY <1>1, <1>2, <1>3, <1>4, <1>5

(* Whatever implements the contract keeps its invariant, for any number of *)
(* attempts, kills and starts.                                             *)
THEOREM TransactionInvariance == TSpec => []TInv
<1>1. TInv /\ [TNext]_tvars => TInv'
  <2> SUFFICES ASSUME TInv, [TNext]_tvars PROVE TInv'
    OBVIOUS
  <2>1. CASE UNCHANGED tvars
    BY <2>1 DEF tvars, TInv, TTypeOK, PostedMeansClear, RecordsAreTrue
  <2>2. CASE TNext
    BY <2>2, OneAttempt, AnEnd, TheProcess DEF TNext
  <2> QED
    BY <2>1, <2>2
<1> QED
  BY <1>1, TInitHolds, PTL DEF TSpec

(* An attempt that has, or may yet get, a comment owns nothing on the      *)
(* host, also after kills, failed starts and a cleanup that was retried.   *)
THEOREM NothingIsPostedUncleaned == TSpec => []PostedMeansClear
BY TransactionInvariance, PTL DEF TInv

(* The journal claims of an ended attempt only what is the case, and keeps *)
(* being the case.                                                         *)
THEOREM TheJournalIsTrue == TSpec => []RecordsAreTrue
BY TransactionInvariance, PTL DEF TInv
=============================================================================
