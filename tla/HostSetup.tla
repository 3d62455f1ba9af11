------------------------------ MODULE HostSetup ------------------------------
(***************************************************************************)
(* NativeHostInstaller.install and InstallationVerifier.verify, which an   *)
(* operator runs one at a time and may repeat: what each leaves on the     *)
(* host when a command fails or the tool is killed, and what the next run  *)
(* makes of it.  An installation ends with a verification.                 *)
(*                                                                         *)
(* Operators named Faulty... are variants of the step that follows them,   *)
(* with a mistake in it; no specification uses them.                       *)
(***************************************************************************)
EXTENDS Naturals

CONSTANTS Releases,    \* release tags, each with an installer of its own
          MaxFaults,   \* bound on commands that fail and tools that are killed
          MaxChanges   \* bound on what else happens to the host

ASSUME SetupAssumption == MaxFaults \in Nat /\ MaxChanges \in Nat

Down == "down"
ASSUME DownIsNoRelease == Down \notin Releases

Tools == {"install", "verify"}

VARIABLES checkout,   \* the release checked out in /opt/specode-review
          service,    \* the release the running service was started from, or Down
          leftover,   \* does an attempt of the service own a sandbox or workspace?
          sandbox,    \* does the probe's sandbox exist, for each tool's name?
          mounts,     \* does the probe's directory exist, for each tool?
          tool,       \* the tool that runs, or "none"
          pc, probe,  \* its stage, and whose probe is under way
          created,    \* the local of _probe_sandbox
          failing,    \* a failure is on its way through the finally clause
          outcome,    \* of the tool that ran last
          faults, changes

host == <<checkout, service, leftover>>
probes == <<sandbox, mounts>>
local == <<tool, pc, probe, created, failing>>
vars == <<host, probes, local, outcome, faults, changes>>

Init ==
  /\ checkout \in Releases
  /\ service = Down
  /\ leftover = FALSE
  /\ sandbox = [t \in Tools |-> FALSE] /\ mounts = [t \in Tools |-> FALSE]
  /\ tool = "none" /\ pc = "idle" /\ probe = "install"
  /\ created = FALSE /\ failing = FALSE
  /\ outcome = "none"
  /\ faults = 0 /\ changes = 0

At(stage) == pc = stage
Goto(stage) == pc' = stage /\ UNCHANGED <<tool, probe, created, failing, outcome>>
Fault == faults < MaxFaults /\ faults' = faults + 1
End(result) ==
  /\ tool' = "none" /\ pc' = "idle" /\ outcome' = result
  /\ created' = FALSE /\ failing' = FALSE /\ UNCHANGED probe

\* the next stage, or the tool fails there
Passes(stage) == Goto(stage) /\ UNCHANGED faults
Fails == Fault /\ End("failed")

-----------------------------------------------------------------------------
(* The operator starts a tool; verification is for an installed host.      *)
Starts(t) ==
  /\ tool = "none"
  /\ tool' = t
  /\ pc' = IF t = "install" THEN "prepare" ELSE "checks"
  /\ outcome' = "none"
  /\ UNCHANGED <<host, probes, probe, created, failing, faults, changes>>

\* everything before the probe: tag, user, directories, files, units, tools
Prepare ==
  /\ At("prepare")
  /\ \/ /\ pc' = "mounts" /\ probe' = "install"
        /\ UNCHANGED <<tool, created, failing, outcome, faults>>
     \/ Fails
  /\ UNCHANGED <<host, probes, changes>>

\* the verifier's probe, without the removal of an old one
FaultyProbeOld ==
  /\ At("old")
  /\ Passes("mounts")
  /\ UNCHANGED <<host, probes, changes>>

\* the verifier removes a probe sandbox of an earlier run; the installer does not
ProbeOld ==
  /\ At("old")
  /\ \/ sandbox' = [sandbox EXCEPT !["verify"] = FALSE] /\ Passes("mounts")
     \/ /\ \E left \in {FALSE, sandbox["verify"]} : sandbox' = [sandbox EXCEPT !["verify"] = left]
        /\ Fails
  /\ UNCHANGED <<host, mounts, changes>>

(* The directories.  The installer makes them before its try, the verifier *)
(* in it: a failure there removes them again.                              *)
ProbeMounts ==
  /\ At("mounts")
  /\ \/ mounts' = [mounts EXCEPT ![probe] = TRUE] /\ Passes("create")
     \/ /\ Fault
        /\ \E made \in BOOLEAN :
             /\ probe = "install" /\ mounts[probe] => made
             /\ mounts' = [mounts EXCEPT ![probe] = made]
        /\ IF probe = "install" THEN End("failed")
           ELSE pc' = "finally" /\ failing' = TRUE /\ UNCHANGED <<tool, probe, created, outcome>>
  /\ UNCHANGED <<host, sandbox, changes>>

\* created is set before the command
FaultyProbeCreate ==
  /\ At("create")
  /\ created' = TRUE
  /\ \/ /\ ~sandbox[probe]
        /\ sandbox' = [sandbox EXCEPT ![probe] = TRUE]
        /\ pc' = "use"
        /\ UNCHANGED <<failing, faults>>
     \/ /\ IF sandbox[probe] THEN UNCHANGED <<sandbox, faults>>
           ELSE Fault /\ \E made \in BOOLEAN : sandbox' = [sandbox EXCEPT ![probe] = made]
        /\ failing' = TRUE /\ pc' = "finally"
  /\ UNCHANGED <<host, mounts, tool, probe, outcome, changes>>

(* sbx create.  It refuses a name that exists; and one that fails may have *)
(* made the sandbox.                                                       *)
ProbeCreate ==
  /\ At("create")
  /\ \/ /\ ~sandbox[probe]
        /\ sandbox' = [sandbox EXCEPT ![probe] = TRUE]
        /\ created' = TRUE /\ pc' = "use"
        /\ UNCHANGED <<tool, probe, failing, outcome, faults>>
     \/ /\ IF sandbox[probe] THEN UNCHANGED <<sandbox, faults>>
           ELSE Fault /\ \E made \in BOOLEAN : sandbox' = [sandbox EXCEPT ![probe] = made]
        /\ failing' = TRUE /\ pc' = "finally" /\ UNCHANGED <<tool, probe, created, outcome>>
  /\ UNCHANGED <<host, mounts, changes>>

\* policy, exec, inspect, secrets, and the list that must name the probe
ProbeUse ==
  /\ At("use")
  /\ pc' = "finally"
  /\ \/ UNCHANGED <<failing, faults>>
     \/ failing' = TRUE /\ Fault
  /\ UNCHANGED <<host, probes, tool, probe, created, outcome, changes>>

\* a sandbox that cannot be removed is not worth failing for
FaultyProbeRemove ==
  /\ At("finally")
  /\ \/ /\ created
        /\ sandbox' = [sandbox EXCEPT ![probe] = FALSE]
        /\ Passes("tree")
     \/ ~created /\ UNCHANGED sandbox /\ Passes("tree")
     \/ created /\ UNCHANGED sandbox /\ Fault /\ Goto("tree")
  /\ UNCHANGED <<host, mounts, changes>>

(* The finally clause: the sandbox, when the create had returned.  A       *)
(* removal that fails keeps the directories.                               *)
ProbeRemove ==
  /\ At("finally")
  /\ \/ /\ created
        /\ sandbox' = [sandbox EXCEPT ![probe] = FALSE]
        /\ Passes("tree")
     \/ ~created /\ UNCHANGED sandbox /\ Passes("tree")
     \/ created /\ (\E left \in BOOLEAN : sandbox' = [sandbox EXCEPT ![probe] = left]) /\ Fails
  /\ UNCHANGED <<host, mounts, changes>>

\* and then the directories
ProbeTree ==
  /\ At("tree")
  /\ \/ /\ mounts' = [mounts EXCEPT ![probe] = FALSE]
        /\ IF failing THEN End("failed")
           ELSE /\ pc' = IF probe = "install" THEN "start" ELSE "list"
                /\ UNCHANGED <<tool, probe, failing, outcome>> /\ created' = FALSE
        /\ UNCHANGED faults
     \/ UNCHANGED mounts /\ Fails
  /\ UNCHANGED <<host, sandbox, changes>>

\* the verifier looks for its probe once more
ProbeList ==
  /\ At("list")
  /\ \/ ~sandbox["verify"] /\ Passes("stale2")
     \/ sandbox["verify"] /\ End("failed") /\ UNCHANGED faults
     \/ Fails
  /\ UNCHANGED <<host, probes, changes>>

\* systemd starts what is checked out; the service sweeps before it is ready
SystemdStarts == service = Down /\ service' = checkout /\ leftover' = FALSE

(* daemon-reload, enable --now: systemd starts a unit that is not active,  *)
(* and leaves an active one as it is.                                      *)
StartUnits ==
  /\ At("start")
  /\ \/ SystemdStarts /\ Passes("checks")
     \/ service # Down /\ UNCHANGED <<service, leftover>> /\ Passes("checks")
     \/ (SystemdStarts \/ UNCHANGED <<service, leftover>>) /\ Fails
  /\ UNCHANGED <<checkout, probes, changes>>

\* units, health, webhook URL, tools and kit
Checks ==
  /\ At("checks")
  /\ \/ service # Down /\ Passes("stale1")
     \/ service = Down /\ End("failed") /\ UNCHANGED faults
     \/ Fails
  /\ UNCHANGED <<host, probes, changes>>

(* _verify_no_stale_resources, before and after the probe: names of the    *)
(* service's attempts only.                                                *)
Stale ==
  /\ \/ /\ At("stale1") /\ ~leftover
        /\ pc' = "old" /\ probe' = "verify"
        /\ UNCHANGED <<tool, created, failing, outcome, faults>>
     \/ At("stale2") /\ ~leftover /\ End("passed") /\ UNCHANGED faults
     \/ pc \in {"stale1", "stale2"} /\ leftover /\ End("failed") /\ UNCHANGED faults
     \/ pc \in {"stale1", "stale2"} /\ Fails
  /\ UNCHANGED <<host, probes, changes>>

-----------------------------------------------------------------------------
(* What happens besides.  A killed tool runs no finally clause.            *)
Killed ==
  /\ tool # "none"
  /\ Fails
  /\ UNCHANGED <<host, probes, changes>>

Change == changes < MaxChanges /\ changes' = changes + 1

CheckOut ==
  /\ tool = "none"
  /\ Change
  /\ checkout' \in Releases
  /\ UNCHANGED <<service, leftover, probes, local, outcome, faults>>

\* the service stops or is started by systemd; a review begins or ends
HostChanges ==
  /\ \/ Change /\ service' = Down /\ UNCHANGED leftover
     \/ Change /\ SystemdStarts
     \/ Change /\ service # Down /\ leftover' = TRUE /\ UNCHANGED service
  /\ UNCHANGED <<checkout, probes, local, outcome, faults>>

ReviewEnds ==
  /\ leftover /\ service # Down
  /\ leftover' = FALSE
  /\ UNCHANGED <<checkout, service, probes, local, outcome, faults, changes>>

Install ==
  Prepare \/ ProbeMounts \/ ProbeCreate \/ ProbeUse \/ ProbeRemove \/ ProbeTree \/ StartUnits
Verify == Checks \/ Stale \/ ProbeOld \/ ProbeList

Next == (\E t \in Tools : Starts(t)) \/ Install \/ Verify \/ Killed
        \/ CheckOut \/ HostChanges \/ ReviewEnds

Spec == Init /\ [][Next]_vars

(* A tool that runs goes on, reviews end, and the operator comes back to   *)
(* one tool again and again.    Faults and changes are bounded, so from    *)
(* some time on nothing fails.                                             *)
RepeatedInstallSpec ==
  Spec /\ WF_vars(Install \/ Verify) /\ WF_vars(ReviewEnds) /\ SF_vars(Starts("install"))
RepeatedVerifySpec ==
  Spec /\ WF_vars(Install \/ Verify) /\ WF_vars(ReviewEnds) /\ SF_vars(Starts("verify"))

-----------------------------------------------------------------------------
(* Type invariant of the host and of the tool that runs.                   *)
TypeOK ==
  /\ checkout \in Releases /\ service \in Releases \cup {Down} /\ leftover \in BOOLEAN
  /\ sandbox \in [Tools -> BOOLEAN] /\ mounts \in [Tools -> BOOLEAN]
  /\ tool \in Tools \cup {"none"}
  /\ pc \in {"idle", "prepare", "old", "mounts", "create", "use", "finally", "tree",
             "list", "start", "checks", "stale1", "stale2"}
  /\ probe \in Tools /\ created \in BOOLEAN /\ failing \in BOOLEAN
  /\ outcome \in {"none", "passed", "failed"}
  /\ faults \in 0..MaxFaults /\ changes \in 0..MaxChanges

Passing == tool # "none" /\ outcome' = "passed"

(* A tool passes only when nothing of the probes it made is left: neither  *)
(* a sandbox nor a directory, whatever earlier runs left and however the   *)
(* finally clause went.                                                    *)
PassedMeansClean ==
  [][Passing =>
       \A t \in Tools : t = "verify" \/ tool = "install" => ~sandbox'[t] /\ ~mounts'[t]]_vars

ProbeStages == {"mounts", "create", "use", "finally", "tree"}

(* The inductive invariant the theorems rest on.  created is set only for  *)
(* a sandbox that exists, so that its removal finds one; the end of a      *)
(* finally clause that is not failing leaves nothing of its probe; and     *)
(* what the installer's probe cleaned stays clean while its run goes on.   *)
IInv ==
  /\ TypeOK
  /\ pc = "idle" <=> tool = "none"
  /\ tool # "none" => outcome = "none"
  /\ pc \in {"prepare", "start"} => tool = "install"
  /\ pc \in ProbeStages /\ probe = "install" => tool = "install"
  /\ pc \in {"old", "list", "stale2"} => probe = "verify"
  /\ failing => pc \in {"finally", "tree"}
  /\ created => pc \in {"use", "finally", "tree"}
  /\ pc = "use" \/ (pc = "finally" /\ ~failing) => created
  /\ created /\ pc # "tree" => sandbox[probe]
  /\ pc = "tree" /\ ~failing => ~sandbox[probe]
  /\ pc \in {"list", "stale2"} => ~sandbox["verify"] /\ ~mounts["verify"]
  /\ tool = "install" /\ pc # "prepare" /\ ~(pc \in ProbeStages /\ probe = "install") =>
       ~sandbox["install"] /\ ~mounts["install"]

(* Whatever earlier runs left behind, a verification that is repeated on   *)
(* a running service passes, once nothing fails any more.                  *)
VerificationRecovers == (<>[](service # Down)) => <>(outcome = "passed")

(* The same of an installation that is repeated, on any host.              *)
InstallationConverges == <>(outcome = "passed")

(* After an installation the service, if it did not fail since, runs the   *)
(* installed release.                                                      *)
InstalledMeansRunning ==
  [][Passing /\ tool = "install" => service \in {checkout, Down}]_vars
=============================================================================
