-------------------------- MODULE ReviewTransactions --------------------------
(***************************************************************************)
(* The review of an accepted delivery, as the host, GitHub and the journal *)
(* see it: what it may own, when it may publish, how it ends and what its  *)
(* records may claim.  ReviewAttempt, with every command of ReviewRunner   *)
(* and every way in which one can fail, implements it; so do the reviews   *)
(* of ReviewService, which follow a publication in more detail and the     *)
(* rest in less.                                                           *)
(***************************************************************************)
CONSTANT Attempts     \* attempt identifiers, never reused

VARIABLES up,         \* the service runs
          phase,      \* where each attempt is
          resources,  \* attempts with a workspace or a sandbox on the host
          posted,     \* attempts that GitHub has, or may yet get, a comment of
          records     \* what a reader of the journal finds of each attempt

tvars == <<up, phase, resources, posted, records>>

Running == {"working", "publishing", "published", "failed"}
Phases == Running \cup {"waiting", "returned", "raised", "killed"}

TInit ==
  /\ up \in BOOLEAN
  /\ phase = [a \in Attempts |-> "waiting"]
  /\ resources = {}
  /\ posted = {}
  /\ records = [a \in Attempts |-> {}]

Moves(a, from, to) ==
  /\ up
  /\ phase[a] \in from
  /\ phase' = [phase EXCEPT ![a] = to]
  /\ UNCHANGED up

With(a) == resources \cup {a}
Without(a) == resources \ {a}

Begin(a) ==
  /\ Moves(a, {"waiting"}, "working")
  /\ resources' \in {resources, With(a)}
  /\ UNCHANGED <<posted, records>>

(* Workspace and sandbox come and go.                                      *)
Work(a) ==
  /\ Moves(a, {"working"}, "working")
  /\ resources' \in {With(a), Without(a)}
  /\ UNCHANGED <<posted, records>>

(* A result, and the removal of everything on the host confirmed: nothing  *)
(* else leads to a publication.                                            *)
Clear(a) ==
  /\ Moves(a, {"working"}, "publishing")
  /\ resources' = Without(a)
  /\ UNCHANGED <<posted, records>>

Post(a) ==
  /\ Moves(a, {"publishing"}, "publishing")
  /\ posted' = posted \cup {a}
  /\ UNCHANGED <<resources, records>>

Publish(a) ==
  /\ Moves(a, {"publishing"}, "published")
  /\ posted' \in {posted, posted \cup {a}}
  /\ UNCHANGED <<resources, records>>

(* The attempt will raise.  It may leave resources, and it may have posted *)
(* when its publication fails.                                             *)
Fail(a) ==
  /\ Moves(a, {"waiting", "working", "publishing"}, "failed")
  /\ resources' \in {resources, Without(a)}
  /\ UNCHANGED posted \/ (phase[a] = "publishing" /\ posted' = posted \cup {a})
  /\ UNCHANGED records

(* Of a cleanup nothing is recorded but what is true, and of a publication *)
(* only one that was answered.                                             *)
Ends(a, from, to) ==
  /\ Moves(a, from, to)
  /\ \E told \in SUBSET {"cleanup", "publication"} :
       /\ "cleanup" \in told => a \notin resources
       /\ "publication" \in told => phase[a] = "published"
       /\ to = "returned" => "cleanup" \in told
       /\ records' = [records EXCEPT ![a] = @ \cup told]
  /\ UNCHANGED <<resources, posted>>

Return(a) == Ends(a, {"published"}, "returned")
Raise(a) == Ends(a, {"published", "failed"}, "raised")

-----------------------------------------------------------------------------
(* The process dies with every attempt that runs, and with those that wait *)
(* for a thread or have ended and still hold their claim.  What they leave *)
(* on the host stays there.                                                *)
Kill ==
  /\ up
  /\ up' = FALSE
  /\ \E lost \in SUBSET Attempts :
       /\ {a \in Attempts : phase[a] \in Running} \subseteq lost
       /\ phase' = [a \in Attempts |-> IF a \in lost THEN "killed" ELSE phase[a]]
  /\ \E sent \in SUBSET {a \in Attempts : phase[a] = "publishing"} : posted' = posted \cup sent
  /\ UNCHANGED <<resources, records>>

Stop ==
  /\ up
  /\ \A a \in Attempts : phase[a] \notin Running
  /\ up' = FALSE
  /\ UNCHANGED <<phase, resources, posted, records>>

(* A service comes up only on a host without leftovers.                    *)
Start ==
  /\ ~up
  /\ up' = TRUE
  /\ resources' = {}
  /\ UNCHANGED <<phase, posted, records>>

StartFails ==
  /\ ~up
  /\ resources' \in SUBSET resources
  /\ UNCHANGED <<up, phase, posted, records>>

(* The reader begins at the end of the journal.                            *)
TakeCursor ==
  /\ records' = [a \in Attempts |-> {}]
  /\ UNCHANGED <<up, phase, resources, posted>>

TNext ==
  \/ \E a \in Attempts : \/ Begin(a) \/ Work(a) \/ Clear(a) \/ Post(a) \/ Publish(a)
                         \/ Fail(a) \/ Return(a) \/ Raise(a)
  \/ Kill \/ Stop \/ Start \/ StartFails \/ TakeCursor

TSpec == TInit /\ [][TNext]_tvars

-----------------------------------------------------------------------------
TTypeOK ==
  /\ up \in BOOLEAN
  /\ phase \in [Attempts -> Phases]
  /\ resources \subseteq Attempts
  /\ posted \subseteq Attempts
  /\ records \in [Attempts -> SUBSET {"cleanup", "publication"}]

Ended == {"returned", "raised", "killed"}

(* A comment, or a create under way, and nothing of its attempt is on the  *)
(* host: ReviewRunner.run cleans up before it publishes.                   *)
PostedMeansClear == posted \cap resources = {}

(* A record is written once its attempt has ended; of a cleanup only when  *)
(* nothing is left; an attempt that returns has left nothing.              *)
RecordsAreTrue ==
  \A a \in Attempts :
    /\ records[a] # {} => phase[a] \in Ended
    /\ "cleanup" \in records[a] \/ phase[a] = "returned" => a \notin resources

(* The inductive invariant: the host is clear from the confirmed cleanup   *)
(* on, and what came before has neither posted nor recorded anything.      *)
TInv ==
  /\ TTypeOK
  /\ PostedMeansClear
  /\ RecordsAreTrue
  /\ \A a \in Attempts :
       /\ phase[a] \in {"publishing", "published"} => a \notin resources
       /\ phase[a] \in {"waiting", "working"} => a \notin posted
=============================================================================
