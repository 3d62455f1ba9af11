--------------------------- MODULE HostSetupProofs ---------------------------
(* Proofs about HostSetup: for every set of releases and every number of     *)
(* faults and changes, a tool passes only on a host without its probes.      *)
EXTENDS HostSetup, TLAPS

LEMMA InitIInv == Init => IInv
<1>1. SUFFICES ASSUME Init PROVE IInv
  OBVIOUS
<1>2. 0 \in 0..MaxFaults /\ 0 \in 0..MaxChanges
  BY SetupAssumption
<1>3. TypeOK
  BY <1>1, <1>2 DEF Init, TypeOK, Tools
<1>4. QED
  BY <1>1, <1>3 DEF Init, IInv, ProbeStages

(* The end of a tool needs no fact but that an idle host owes nothing.       *)
LEMMA EndKeeps ==
  ASSUME IInv, NEW result \in {"passed", "failed"}, End(result),
         UNCHANGED host, sandbox' \in [Tools -> BOOLEAN], mounts' \in [Tools -> BOOLEAN],
         faults' \in 0..MaxFaults, UNCHANGED changes
  PROVE  IInv'
BY DEF IInv, TypeOK, End, host, ProbeStages

(* A step of the host besides the tools.                                     *)
LEMMA HostKeeps ==
  ASSUME IInv, UNCHANGED <<probes, local, outcome, faults>>,
         checkout' \in Releases, service' \in Releases \cup {Down}, leftover' \in BOOLEAN,
         changes' \in 0..MaxChanges
  PROVE  IInv'
BY DEF IInv, TypeOK, probes, local, ProbeStages

LEMMA FaultBound ==
  ASSUME IInv, Fault PROVE faults' \in 0..MaxFaults
BY SetupAssumption DEF IInv, TypeOK, Fault

LEMMA ChangeBound ==
  ASSUME IInv, Change PROVE changes' \in 0..MaxChanges
BY SetupAssumption DEF IInv, TypeOK, Change

(* A failing command that leaves the host and the probes as they are.        *)
LEMMA FailsKeeps ==
  ASSUME IInv, Fails, UNCHANGED host, UNCHANGED changes,
         sandbox' \in [Tools -> BOOLEAN], mounts' \in [Tools -> BOOLEAN]
  PROVE  IInv'
BY FaultBound, EndKeeps DEF Fails

LEMMA StartsKeeps == ASSUME IInv, NEW t \in Tools, Starts(t) PROVE IInv'
BY DEF Starts, IInv, TypeOK, Tools, host, probes, ProbeStages

LEMMA PrepareKeeps == ASSUME IInv, Prepare PROVE IInv'
<1>1. CASE Fails
  BY <1>1, FailsKeeps DEF Prepare, IInv, TypeOK, probes
<1>2. CASE /\ pc' = "mounts" /\ probe' = "install"
           /\ UNCHANGED <<tool, created, failing, outcome, faults>>
  BY <1>2 DEF Prepare, At, IInv, TypeOK, Tools, host, probes, ProbeStages
<1>3. QED
  BY <1>1, <1>2 DEF Prepare

LEMMA ProbeOldKeeps == ASSUME IInv, ProbeOld PROVE IInv'
<1>1. CASE Fails
  <2>1. sandbox' \in [Tools -> BOOLEAN]
    BY DEF ProbeOld, IInv, TypeOK, Tools
  <2>2. QED
    BY <1>1, <2>1, FailsKeeps DEF ProbeOld, IInv, TypeOK
<1>2. CASE sandbox' = [sandbox EXCEPT !["verify"] = FALSE] /\ Passes("mounts")
  BY <1>2 DEF ProbeOld, Passes, Goto, At, IInv, TypeOK, Tools, host, ProbeStages
<1>3. QED
  BY <1>1, <1>2 DEF ProbeOld

LEMMA ProbeMountsKeeps == ASSUME IInv, ProbeMounts PROVE IInv'
<1>1. CASE mounts' = [mounts EXCEPT ![probe] = TRUE] /\ Passes("create")
  BY <1>1 DEF ProbeMounts, Passes, Goto, At, IInv, TypeOK, Tools, host, ProbeStages
<1>2. CASE Fault /\ mounts' \in [Tools -> BOOLEAN] /\ probe = "install" /\ End("failed")
  BY <1>2, FaultBound, EndKeeps DEF ProbeMounts, IInv, TypeOK
<1>3. CASE /\ Fault /\ probe = "verify" /\ pc' = "finally" /\ failing' = TRUE
           /\ \E made \in BOOLEAN : mounts' = [mounts EXCEPT ![probe] = made]
           /\ UNCHANGED <<tool, probe, created, outcome>>
  BY <1>3, FaultBound DEF ProbeMounts, At, IInv, TypeOK, Tools, host, ProbeStages
<1>4. QED
  BY <1>1, <1>2, <1>3 DEF ProbeMounts, IInv, TypeOK, Tools

LEMMA ProbeCreateKeeps == ASSUME IInv, ProbeCreate PROVE IInv'
<1>1. faults' \in 0..MaxFaults
  BY FaultBound DEF ProbeCreate, IInv, TypeOK
<1>2. CASE /\ sandbox' = [sandbox EXCEPT ![probe] = TRUE]
           /\ created' = TRUE /\ pc' = "use"
           /\ UNCHANGED <<tool, probe, failing, outcome>>
  BY <1>1, <1>2 DEF ProbeCreate, At, IInv, TypeOK, Tools, host, ProbeStages
<1>3. CASE /\ \E made \in BOOLEAN : sandbox' = [sandbox EXCEPT ![probe] = made]
           /\ failing' = TRUE /\ pc' = "finally" /\ UNCHANGED <<tool, probe, created, outcome>>
  BY <1>1, <1>3 DEF ProbeCreate, At, IInv, TypeOK, Tools, host, ProbeStages
<1>4. sandbox' = sandbox => sandbox' = [sandbox EXCEPT ![probe] = sandbox[probe]]
  BY DEF IInv, TypeOK
<1>5. QED
  BY <1>2, <1>3, <1>4 DEF ProbeCreate, IInv, TypeOK

LEMMA ProbeUseKeeps == ASSUME IInv, ProbeUse PROVE IInv'
<1>1. faults' \in 0..MaxFaults
  BY FaultBound DEF ProbeUse, IInv, TypeOK
<1>2. QED
  BY <1>1 DEF ProbeUse, At, IInv, TypeOK, Tools, host, probes, ProbeStages

LEMMA ProbeRemoveKeeps == ASSUME IInv, ProbeRemove PROVE IInv'
<1>1. CASE Fails
  <2>1. sandbox' \in [Tools -> BOOLEAN]
    BY DEF ProbeRemove, IInv, TypeOK, Tools
  <2>2. QED
    BY <1>1, <2>1, FailsKeeps DEF ProbeRemove, IInv, TypeOK
<1>2. CASE created /\ sandbox' = [sandbox EXCEPT ![probe] = FALSE] /\ Passes("tree")
  BY <1>2 DEF ProbeRemove, Passes, Goto, At, IInv, TypeOK, Tools, host, ProbeStages
<1>3. CASE ~created /\ UNCHANGED sandbox /\ Passes("tree")
  BY <1>3 DEF ProbeRemove, Passes, Goto, At, IInv, TypeOK, Tools, host, ProbeStages
<1>4. QED
  BY <1>1, <1>2, <1>3 DEF ProbeRemove

LEMMA ProbeTreeKeeps == ASSUME IInv, ProbeTree PROVE IInv'
<1>1. CASE Fails
  BY <1>1, FailsKeeps DEF ProbeTree, IInv, TypeOK
<1>2. CASE /\ mounts' = [mounts EXCEPT ![probe] = FALSE] /\ failing
           /\ End("failed") /\ UNCHANGED faults
  <2>1. mounts' \in [Tools -> BOOLEAN]
    BY <1>2 DEF IInv, TypeOK
  <2>2. QED
    BY <1>2, <2>1, EndKeeps DEF ProbeTree, IInv, TypeOK
<1>3. CASE /\ mounts' = [mounts EXCEPT ![probe] = FALSE] /\ ~failing
           /\ pc' = IF probe = "install" THEN "start" ELSE "list"
           /\ UNCHANGED <<tool, probe, failing, outcome, faults>> /\ created' = FALSE
  BY <1>3 DEF ProbeTree, At, IInv, TypeOK, Tools, host, ProbeStages
<1>4. QED
  BY <1>1, <1>2, <1>3 DEF ProbeTree

LEMMA StartUnitsKeeps == ASSUME IInv, StartUnits PROVE IInv'
<1>1. /\ service' \in Releases \cup {Down} /\ leftover' \in BOOLEAN /\ UNCHANGED checkout
  BY DEF StartUnits, SystemdStarts, IInv, TypeOK
<1>2. CASE Fails
  BY <1>1, <1>2, FaultBound DEF StartUnits, Fails, End, probes, IInv, TypeOK, ProbeStages
<1>3. CASE Passes("checks")
  BY <1>1, <1>3 DEF StartUnits, Passes, Goto, At, IInv, TypeOK, Tools, probes, ProbeStages
<1>4. QED
  BY <1>2, <1>3 DEF StartUnits

LEMMA VerifyKeeps == ASSUME IInv, Checks \/ Stale \/ ProbeList PROVE IInv'
<1>1. UNCHANGED <<host, probes, changes>>
  BY DEF Checks, Stale, ProbeList
<1>2. CASE Fails
  BY <1>1, <1>2, FailsKeeps DEF IInv, TypeOK, probes
<1>3. CASE UNCHANGED faults /\ \E result \in {"passed", "failed"} : End(result)
  BY <1>1, <1>3, EndKeeps DEF IInv, TypeOK, probes
<1>4. CASE At("checks") /\ Passes("stale1")
  BY <1>1, <1>4 DEF Passes, Goto, At, IInv, TypeOK, Tools, host, probes, ProbeStages
<1>5. CASE At("list") /\ ~sandbox["verify"] /\ Passes("stale2")
  BY <1>1, <1>5 DEF Passes, Goto, At, IInv, TypeOK, Tools, host, probes, ProbeStages
<1>6. CASE /\ At("stale1") /\ pc' = "old" /\ probe' = "verify"
           /\ UNCHANGED <<tool, created, failing, outcome, faults>>
  BY <1>1, <1>6 DEF At, IInv, TypeOK, Tools, host, probes, ProbeStages
<1>7. QED
  BY <1>2, <1>3, <1>4, <1>5, <1>6 DEF Checks, Stale, ProbeList

LEMMA HostStepKeeps == ASSUME IInv, CheckOut \/ HostChanges \/ ReviewEnds PROVE IInv'
<1>1. changes' \in 0..MaxChanges
  BY ChangeBound DEF CheckOut, HostChanges, ReviewEnds, IInv, TypeOK
<1>2. /\ checkout' \in Releases /\ service' \in Releases \cup {Down} /\ leftover' \in BOOLEAN
  BY DEF CheckOut, HostChanges, ReviewEnds, SystemdStarts, IInv, TypeOK
<1>3. QED
  BY <1>1, <1>2, HostKeeps DEF CheckOut, HostChanges, ReviewEnds

LEMMA StepIInv == IInv /\ [Next]_vars => IInv'
<1>1. SUFFICES ASSUME IInv, [Next]_vars PROVE IInv'
  OBVIOUS
<1>2. CASE \E t \in Tools : Starts(t)
  BY <1>1, <1>2, StartsKeeps
<1>3. CASE Install
  BY <1>1, <1>3, PrepareKeeps, ProbeMountsKeeps, ProbeCreateKeeps, ProbeUseKeeps,
     ProbeRemoveKeeps, ProbeTreeKeeps, StartUnitsKeeps DEF Install
<1>4. CASE Verify
  BY <1>1, <1>4, VerifyKeeps, ProbeOldKeeps DEF Verify
<1>5. CASE Killed
  BY <1>1, <1>5, FailsKeeps DEF Killed, IInv, TypeOK, probes
<1>6. CASE CheckOut \/ HostChanges \/ ReviewEnds
  BY <1>1, <1>6, HostStepKeeps
<1>7. CASE UNCHANGED vars
  BY <1>1, <1>7 DEF vars, host, probes, local, IInv, TypeOK, ProbeStages
<1>8. QED
  BY <1>1, <1>2, <1>3, <1>4, <1>5, <1>6, <1>7 DEF Next

(* The inductive invariant holds throughout: what a stage of an installation *)
(* or a verification may still own of its probe.                             *)
THEOREM Invariance == Spec => []IInv
BY InitIInv, StepIInv, PTL DEF Spec

(* A tool passes only when no sandbox and no directory of the probes it made *)
(* is left, after any sequence of failed and killed runs.                    *)
THEOREM PassLeavesNothing == Spec => PassedMeansClean
<1>1. IInv /\ [Next]_vars =>
        [Passing =>
           \A t \in Tools : t = "verify" \/ tool = "install" => ~sandbox'[t] /\ ~mounts'[t]]_vars
  <2>1. SUFFICES ASSUME IInv, Next, Passing
                 PROVE  \A t \in Tools : t = "verify" \/ tool = "install" =>
                          ~sandbox'[t] /\ ~mounts'[t]
    OBVIOUS
  <2>2. pc = "stale2" /\ UNCHANGED probes
    <3>1. outcome' = "passed" /\ tool # "none"
      BY <2>1 DEF Passing
    <3>2. ~Fails
      BY <3>1 DEF Fails, End
    <3>3. ~(\E t \in Tools : Starts(t))
      BY <3>1 DEF Starts
    <3>4. ~(UNCHANGED outcome)
      BY <2>1, <3>1 DEF Passing, IInv, TypeOK
    <3>5. ~Install
      BY <3>1, <3>2, <3>4 DEF Install, Prepare, ProbeMounts, ProbeCreate, ProbeUse, ProbeRemove,
         ProbeTree, StartUnits, Passes, Goto, End
    <3>6. ~(Killed \/ CheckOut \/ HostChanges \/ ReviewEnds)
      BY <3>2, <3>4 DEF Killed, CheckOut, HostChanges, ReviewEnds, local
    <3>7. Verify
      BY <2>1, <3>3, <3>5, <3>6 DEF Next
    <3>8. QED
      BY <3>1, <3>2, <3>4, <3>7 DEF Verify, Checks, Stale, ProbeOld, ProbeList, Passes, Goto,
         End, At
  <2>3. QED
    BY <2>1, <2>2 DEF IInv, Passing, Tools, ProbeStages, probes
<1>2. QED
  BY <1>1, Invariance, PTL DEF Spec, PassedMeansClean
=============================================================================
