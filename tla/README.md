# Formal model of SpeCodeReview

TLA+ specifications of the review service in `src/specode_review`, the TLC
configurations that check them on small instances, and proofs for the TLA+ proof
system (TLAPS). File names below without a directory are in `src/specode_review`.

SpeCodeReview receives pull-request webhooks, admits at most a bounded number of
reviews, runs each in a disposable Docker Sandbox against one pair of commits, and
publishes one comment per revision. It keeps nothing durable: what survives a crash
is what is on the host (workspaces, sandboxes) and on GitHub (comments).

## Inventory

| Component | State | Operations | Interacts with | What is hard | Modelled by |
|---|---|---|---|---|---|
| Review lifecycle (`lifecycle.py`, `submission.py`) | `_state`, `_claims`, `_tasks`, a condition | enter, exit (drain), submit, promotion, task end | web handler calls submit; preflight and run go to executor threads | coroutines and threads interleave; cancellation (once, twice); shutdown during a preflight; lost wake-ups; the capacity race | `ReviewLifecycle`, abstractly `ReviewAdmission` and `RevisionClaims` |
| Review transaction (`review_runner.py`) | locals of one run: resources, client, failure, completion | preflight, run | reviewer, resources, publication, GitHub client | which of several failures is reported; a cleanup that gates the publication and is retried after a failure | `ReviewAttempt`, abstractly `ReviewTransactions`; preflight also in `Publication` |
| Reviewer and candidate acceptance (`core.py`) | workspace directory, checkout, credential helper | review, materialization, accept, grounding | git, GitHub token, sandbox adapter | removal in finally clauses, failures of the removal itself; line and path bounds | `ReviewAttempt` (grounding: a choice) |
| Sandbox (`sandbox.py`) | control directory, sandbox | create, prepare checkout, invoke codex, read candidate, remove | `sbx` | a create that fails after it made the sandbox; commands that never return | `ReviewAttempt` |
| Attempt resources (`resources.py`) | names derived from the attempt id | for_attempt, cleanup, sweep_stale | file system, `sbx` | independent removals; a sweep that stops in the middle | `ReviewAttempt` |
| Publication (`publishing.py`) | none; GitHub's comments | scan, create or update, reconcile | GitHub client | lost answers, late effects, duplicates | `Publication` |
| GitHub client (`github.py`) | HTTP client | token, list, create, update, webhook URL | GitHub | which errors leave a mutation undecided; paging limits | `Publication` (classes of answers) |
| Bounded process (`process.py`), deadline (`deadline.py`) | captured output, deadline in scope | run a command | all host commands | two pipes, one limit, two time-outs, kill and reap | `BoundedProcess`; as one step in `ReviewAttempt` |
| Accepted revision (`accepted_revision.py`, `models.py`) | - | canonical identity, marker | lifecycle, publication | two spellings of one revision | values of `Revisions` |
| Production lifecycle, readiness (`production.py`, `readiness.py`) | `_lifecycle` or None | check, sweep, assemble, enter, exit | lifecycle, resources | a failed start must admit nothing; leftovers of a killed process | `ReviewAttempt` (sweep before admission), `ReviewService` |
| Web (`web.py`) | `is_ready` | lifespan, webhook, health | lifecycle | readiness against admission | `ReviewService` (refusals in one) |
| Evidence (`lifecycle_evidence.py`) | - | log records | log | truth of cleanup and publication evidence; what a reader may conclude | `ReviewAttempt` (truth), `ReviewService` (what a reader meets) |
| Campaign fixtures (`fixtures.py`) | `created_resources`, checkouts | prepare both fixtures | `git`, `gh` | commands that fail after their effect; two calls for one campaign id; a base that moves | `CampaignFixtures` |
| Signed campaign, live profile (`campaign.py`, `live.py`) | cursor, deadline | check, trigger, poll | `gh`, journal, readiness, host | evidence read in pieces while the service goes on | `SignedCampaign` on `ReviewService` |
| Installer, verifier (`installation.py`, `verification.py`) | a probe sandbox and directory each | install, verify | systemd, `sbx` | a probe that fails half way and is repeated; an upgrade under a running service | `HostSetup` |
| Configuration, errors, scripts, kit | - | parsing | - | none beyond parsing | not modelled |

What makes each component correct: the lifecycle never exceeds its capacity, never
runs two reviews of one revision, releases every claim and drains completely; the
transaction publishes only what it cleaned up and reports what it left; the
publication never adds a comment beside one it could have found, and its receipts are
true; a restarted service starts clean; a command's output is whole or refused, and its
process never outlives the call; an installation or verification that passes has told
the truth about the host, and one that failed can be repeated; a preparation of fixtures that
fails names what it left on GitHub; a release campaign passes only for a review that it
has proved, and does not fail for one it saw half done.

## Modules

**`ReviewAdmission`** is what the lifecycle promises: a window that opens and closes
once, revisions under review, at most `MaxConcurrentReviews` of them, each started
inside the window, and a close that drains.

**`RevisionClaims`** is what the rest of the system may take for granted of a claim: a
revision has at most one holder (a preflight or a running review), claimed and promoted
while the service admits, released when its call ends, and a window that closes and drains
or is killed. `ReviewLifecycle` implements it with its coroutines and threads, and
`ReviewService` with its deliveries; neither is checked against the other, only against
this contract.

**`ReviewTransactions`** is the same for the review of an accepted delivery: what it may
own on the host, that only a confirmed removal of it leads to a publication, how it may
fail, what its two records (cleanup, publication) may claim, and that a service comes up
only on a host without leftovers. `ReviewAttempt` implements it with every command of
`ReviewRunner.run` and every failure of one; `ReviewService` implements it with fewer
stages before the publication and more in it.

**`ReviewLifecycle`** is class `ReviewLifecycle`. One action is what the event loop
runs between two suspensions. The condition's lock is never held across a suspension
(its sections contain no await but `wait_for`, which releases it), so it does not
appear. `submit` is the actions `Submit...` up to the preflight, and one of
`Declines`, `AttemptIdFails`, `PromotionStopping`, `PromotionAtCapacity`, `Promote`,
`Cancelled` after it; `Cancel` is a cancellation that meets the shield, `CancelAgain`
one that meets the bare await of line 202. `preflight[c]` and `review[c]` are the
executor's threads: `asyncio.to_thread` queues them, a thread runs them, and a running
thread cannot be stopped. `Exit` and `ExitWakes` are `__aexit__` on both sides of its
wait. Deliveries are `Calls`; those with the same `Identity` carry the same revision.

**`Publication`** is the comments of one revision over several runs of the service,
one at a time, as `ReviewLifecycle` guarantees. A step is one call of the GitHub
client. A mutation is confirmed, refused, applied with an unusable answer, or
ambiguous: then it stays in flight, and GitHub applies it (`Lands`) or forgets it
(`Dropped`) whenever it likes, also after its run, also after a crash. Another author
may add a comment with the marker.

**`ReviewAttempt`** is `ReviewRunner.run` with the `Reviewer` and the sandbox
lifecycle inside it, for several concurrent attempts. A step is one operation on the
host, `sbx` or GitHub together with the exception handling that follows it. Any of
them may fail; git, `sbx create` and `sbx exec` may also hang. `Crash` kills the
service between two steps; `Restart` and `SweepFails` are the start-up of
`_ProductionLifecycle`.

**`BoundedProcess`** is `_run_bounded_process`: the loop (`Loop`, `Select`, one `Read`
per event of a select), the wait (`Await` computes its time-out, `Wait` is
`process.wait`) and `Finally`. Bytes are counted: `captured` against what the command
has `written`. The command writes what it planned, blocks on a full pipe, closes pipes,
exits in any order, and may leave a descendant with its pipes. `expired` are the timers
that ran out; the code compares a clock at the same places.

**`HostSetup`** is `NativeHostInstaller.install` and `InstallationVerifier.verify`, one
at a time, on one host. A stage is a group of commands with one effect on what later
runs meet; it passes, or a command in it fails, with or without its effect. The two
probes share their actions; `probe` says whose it is, and where the two classes differ
(the removal of an old probe, directories inside or outside the try) the actions do.
`HostChanges` is the service meanwhile: it stops, systemd starts it, it reviews.

**`CampaignFixtures`** is `prepare_campaign_fixtures`, several calls for one campaign id. A
step is one command of the boundary with what the call does about its outcome; `at` is the
checkpoint, `reported` is `created_resources`. A push or a pull request may be made and its
answer lost (`PushLost`, `OpenLost`), or answered and fail the check of `_verified_fixture`
(`IdentityDiffers`: another commit, or any other field, at any time). Checkouts are never
removed (`CloneRefused`). Others commit to the default branch and to the campaign's
branches, and the operator of a failed call removes what its error named (`CleanUp`).

**`ReviewService`** is the service as GitHub and a release campaign meet it, for one
revision: the lifespan of `create_app` on `_ProductionLifecycle` (`Start` to `Kill`), the
webhook (`Refused`, `Claim`, and the answers of a preflight), the review of an accepted
delivery with its comment, its resources and its records in the journal. What lies in
between is kept within the contracts: `ImplementsClaims` and `ImplementsTransactions` say
that the claims and the reviews of this module do nothing that `RevisionClaims` and
`ReviewTransactions` forbid, and the lifecycle and the transaction do nothing that they
forbid either. A review without a comment on GitHub reads first
(`ScanNone`) and creates later, and in between another attempt's late create may land. A
review that ends writes its records (`RunEnds`): after a failure the cleanup's may say that
it was not required, or not confirmed though nothing is left. A create may land late, as in
`Publication`. `Normal` are the steps of an idle, healthy system,
`Trouble` all others.

**`SignedCampaign`** extends it with `run_signed_review_campaign` and the two gates of
`live.py`. A step is one read or one command: the preconditions, the cursor, `Close` and
`Reopen`, then rounds of `Poll`, `Verify` (which reads the comments again), `ReadJournal`,
`CheckResources` and `Sleep`; `Raises`, `PollRaises`, `CloseRaises`, `ReopenRaises` and
`Redaction` are the ways in which one of them fails. `troubled` remembers whether
anything happened that an idle, healthy system never does.

**`ReviewLifecycleProofs`**, **`ReviewAttemptProofs`**, **`BoundedProcessProofs`**,
**`HostSetupProofs`**, **`CampaignFixturesProofs`**, **`PublicationProofs`**,
**`ReviewTransactionsProofs`** and **`SignedCampaignProofs`** hold the theorems. The `MC...`
modules give the constants values for TLC. Operators named `Faulty...` are variants of a
step with a plausible mistake; each property is known to fail when one of them replaces its
step.

## What the runs show

| Run | Question | Bounds |
|---|---|---|
| `lifecycle_safety` | capacity, one thread per revision, a stop that leaves no thread, the inductive invariant (with claim ownership), calls cancelled at most once; the lifecycle implements `RevisionClaims` | 4 calls on 2 revisions, capacity 1, 2 threads |
| `lifecycle_liveness` | with repeated cancellation: one review per revision, the drain ends, calls are answered, claims released; the lifecycle implements `ReviewAdmission` | 3 calls on 2 revisions, capacity 2, 1 thread |
| `publication` | bound on duplicates, completed work not repeated, truth of receipts, the inductive invariant, a publication ends | 3 runs, 2 bodies, 3 rechecks (the code's number) |
| `publication_duplicates` | **violated**: one comment per revision | 2 runs |
| `attempt` | cleanup before publication, leftovers reported, evidence true, the inductive invariant (with sweep before admission), every attempt ends inside a deadline; attempts implement `ReviewTransactions` | 2 attempts, 1 crash |
| `attempt_no_deadline` | **violated**: every attempt ends, without a deadline in scope | 1 attempt, 1 crash |
| `process` | output whole or refused, the limit exact and shared, child reaped; a call ends with a timer whatever its command does, and without one when the command goes on | limit 3, reads of 2, pipes of 2, up to 3 bytes on each pipe, every choice of timers |
| `setup` | what a passed installation or verification has made sure of; a repeated verification passes in the end | 2 releases, 3 faults, 3 changes of the host |
| `setup_converges` | **violated**: a repeated installation passes in the end | 1 fault, 1 change |
| `setup_upgrade` | **violated**: after an installation the service runs the installed release | 1 fault, 2 changes |
| `fixtures` | the report of a failed preparation is exact; a preparation that returns owns its fixtures | 3 calls, 2 of them in one work root, 1 move of the default branch |
| `campaign` | readiness and admission agree; a pass is proved; an untroubled campaign passes; a campaign ends | 2 deliveries of the revision (the campaign's own and another), 2 stops or kills |

Two calls of a revision are enough for a duplicate and for a redelivery after a release; two
revisions for the capacity; one free place for the race, and one thread for starvation of
the executor. `lifecycle_safety` cancels a call at most once, and shows that its thread
keeps the claim and delays the stop; the second cancellation, which frees the claim under
the thread, is in `lifecycle_liveness`, with `OneReviewPerRevision`. Three runs let the
second duplicate what the first left in flight and the third find both. Attempts share
nothing but the sweep, so two suffice, and after one crash the attempts that had not begun
run to their end.

A command that writes up to 3 bytes on each of two pipes around a limit of 3 is below, at
and above the limit on either pipe and on both together; pipes of 2 bytes block it, and
reads of 2 bytes end before, at and after what is left of the limit. Three faults make a
probe fail, its removal fail, and the next run fail again.

Three preparations let two race for the branches while a third comes after a cleanup, or
meets what the failed one left; two in one work root meet each other's checkout, the third
only the branch. One move of the default branch separates the two pull requests of a call.

One delivery besides the campaign's own can be reviewed before it, in its place, or after
it; two outages are enough to kill that review with its create in flight, let the service
serve again and be stopped under the campaign's own review. After a campaign that failed
nothing more is followed; after one that passed everything is, since its verdict must stay
true.

Symmetry is used where only safety is checked (`lifecycle_safety`,
`publication_duplicates`, `fixtures`): deliveries of one revision, bodies, and the calls
in one work root, are treated alike by the code.

Deadlock is not checked: in every model all calls may be answered, all runs ended, the
service stopped and the campaign over, and then nothing is left to do (`HostSetup` never
stops, and its runs do check it). That nothing stops earlier is what the liveness runs check.

### Fairness

In `ReviewLifecycle` the event loop runs what is ready, the executor runs what is queued,
and the runner's calls return: weak fairness of each of these steps. Deliveries,
cancellations, entering and leaving are the environment's and have none. That `runner.run`
returns is what `attempt` shows under a deadline, and what `attempt_no_deadline` refutes
without one. In `Publication` each call of the client returns, since every request has the
HTTP client's time-out; GitHub owes nothing. In `ReviewAttempt` a command that does not hang
returns and an active deadline expires; the restart has no fairness, because systemd gives
up after five starts in five minutes; so a sweep that fails start after start is only shown
not to let the service up, and that it ever succeeds is nobody's promise. `BoundedProcess`
assumes that the thread of the call runs; its two liveness properties state their own
assumption, `TimePasses` and nothing of the command, or `CommandGoesOn` and nothing of the
timers. `HostSetup`'s liveness is about an operator who repeats one tool (strong fairness of
starting it, since the other tool may be running) on a host where running reviews end;
faults and changes are bounded, which is how the model says "once nothing fails any more".
In `SignedCampaign` the campaign takes its steps, since each of its commands has a time-out,
and the clock passes its deadline; the service and GitHub owe it nothing. `CampaignFixtures`
states no liveness: its calls are sequences of commands with time-outs.

### Disagreements with the documents

*No deadline is in scope.* The specification of v0.1 asks for a configured deadline so
that a stuck command does not block later reviews for ever
(`tasks/code-review-agent-v0-1/spec-code-review-agent-v0-1.md:40`, also lines 58 and
73). `AttemptSettings.review_timeout_seconds` exists and is validated, but no code
reads it; `review_deadline_scope` is entered only in tests. `attempt_no_deadline` has
the counterexample: git hangs and the attempt never ends.

*Duplicates.* `README.md:56` says that cleaning up before an idempotent publication
prevents duplicate results of an incomplete transaction. A create whose answer was
lost can land after the rechecks and after a redelivery's scans
(`publication_duplicates`). The window is narrow, since the redelivered review has to
run while the request is in flight. `DuplicatesBounded` is what does hold, and
`OneCommentUnlessUndecided` is proved: as long as no run leaves a create undecided (the
rechecks after a lost answer gave up, or the service died with the request sent) there is
at most one comment. Runs that give up on an update, fail, or die before their create cost
none.

*Upgrades.* `docs/deployment.md:90`: upgrade and rollback use the same installer
operation. `install` ends with `systemctl enable --now`, which does not restart an active
unit, and the verification asks only for an active, healthy one: `setup_upgrade` has an
installation of one release that passes while the service started from another runs on.

*Convergence.* `installation.py:179` promises to converge, and `docs/deployment.md:41` to
rerun the installer. A probe sandbox left by a killed installation has the name that every
later installation creates, and only the verifier removes an older probe of its own
(`setup_converges`; `VerificationRecovers` shows that the verifier does recover). A
verification also passes beside such an installer probe: it looks for attempts' names and
for its own probe only. The run assumes
that `sbx create` refuses a name in use, which is what the verifier's removal is for.

### Observations

These contradict no document; the models contain them.

- If a create of an earlier attempt lands late, the campaign's own review may reconcile with
  that comment (its own create was lost, or the answer of its update), and the pass names a
  comment that another attempt created. `PassedMeansProven` states this boundary: the comment is the
  named attempt's own unless some comment was applied late.
- A pass needs the record of a publication that created or reconciled a comment: a
  campaign whose review updated one, or found it current, polls until its time is up.
- An error of GitHub at the first read of the comments is polled again; the same error at
  the second read, in `verify_live_review_evidence`, ends the campaign with stage `input`.
- A campaign that cannot reopen the pull request it closed leaves it closed, and says
  `signed_event`, as it does for a close that failed.
- A pull request whose `_verified_fixture` fails is open and not in the list of created
  resources; `ReportIsExact` says that it is the only one, and that the stage names it.
- The checkout of a failed preparation stays: a retry with the same id and work root fails
  at its push although GitHub was cleaned up.

## What is proved

`ReviewLifecycleProofs` proves, for every finite or infinite set of calls and
revisions, every capacity and every number of threads (assumption
`LifecycleAssumption`: the constants have their types):

- `TypeCorrect`, and `Invariance`: the inductive invariant `IInv`;
- `Capacity`, `OneReview`, `OneOwner`, `WakeupsArrive`, `Drained`: the safety
  properties that hold with any number of cancellations;
- `OneThread`, `NoThreadIsLeft`: with `RepeatedCancellation = FALSE`, at most one thread
  works on a revision and none outlives the service;
- `AdmissionStaysClosed`, an action property;
- `ImplementsAdmissionSafety`: every step is a step of `ReviewAdmission` or a stutter;
- `ClaimsAreImplemented`: every step is a step of `RevisionClaims` or a stutter.

The argument: the properties about threads are not inductive, since a step sees only
claims and tasks. `IInv` ties them together. Every claim has one owner
(`ClaimsHaveOneOwner`: a call that waits, or a task), a review thread exists only for
a call with a task (`ReviewsFollowCalls`), so distinct live reviews have distinct
RUNNING claims, which a promotion keeps at or below the capacity (`RunningBounded`).
Ownership is also why a release by revision frees only the releasing call's claim.
`NoLostWakeup` holds because every removal of a claim or a task notifies, and
`PreflightsFollowCalls` because the shield outlasts one cancellation. TLC checks
`IInv` in `lifecycle_safety`.

`ReviewAttemptProofs` proves, for every set of attempts and every bound on crashes,
with and without deadlines and hanging commands (`AttemptAssumption`: types only):

- `TypeCorrect`, and `Invariance`: the inductive invariant `IInv`;
- `CleanupPrecedesPublication`, `NoSilentLeftover`, `EvidenceNeverLies`,
  `ReturnMeansComplete`, `SweepPrecedesAdmission`, `CredentialNeverBesideSandbox`:
  the safety properties of `attempt`, and what a return without an exception means;
- `TransactionsAreImplemented`: every step is a step of `ReviewTransactions` or a stutter.

The argument: what is claimed of a finished attempt is decided many stages before.
`IInv` therefore says of every stage what an attempt at it owns (`StageFacts`: no
sandbox before it is created, no credential helper from the clone's end to the
workspace's removal) and what is already decided (`OutcomeFacts`: only a confirmed
cleanup leads to publication, what is left at the end is the cleanup's failure). A
step of one attempt touches its own record and resources only (`Own`), so the proof
of a step is about that attempt alone (`OwnKeeps`); a crash and the sweep are the two
steps about all of them. TLC checks `IInv` in `attempt`. The refinement has a lemma per
stage: all that happens between the construction and the last removal, hangs and expired
deadlines included, is `Work` on the attempt's own resources, and the two cleanups, the
publication and the close are each one or two actions of the contract.

`PublicationProofs` proves, for every number of runs and rechecks and every set of bodies
(`PublicationAssumption`: types, at least one body, `NoBody` is none of them):

- `Invariance`: the inductive invariant `IInv`, which contains `TypeCorrect`;
- `DuplicatesAreBounded`, `CompletedStaysCompleted`, `ReceiptsAreTrue`: the safety
  properties of `publication`;
- `OneCommentUnlessUndecided`: without a run that left its create undecided, one comment at
  most.

The argument is a budget. The application's comments, and its creates still in flight,
together never outnumber the earlier runs whose create was left undecided, plus one for
whichever run settled the matter or has just sent its create: a run creates only after a
read that showed no comment. Neither side can be bounded alone, since a late create moves
from one to the other at any moment. That completed work is not repeated needs that comments
stay: an answered run leaves one, and every later preflight that meets it stops its run.
TLC checks `IInv` in `publication`.

`ReviewTransactionsProofs` proves of the contract alone, for every set of attempts:

- `TransactionInvariance`: its inductive invariant `TInv`;
- `NothingIsPostedUncleaned`, `TheJournalIsTrue`: no comment, landed or under way, of an
  attempt that owns anything on the host; records only of ended attempts, and of a cleanup
  only when nothing is left.

Whatever implements the contract inherits both; `ServiceKeepsPromises` below does so.

`BoundedProcessProofs` proves, for every limit, read size, pipe size and plan
(`ProcessAssumption`: naturals, the two sizes not zero):

- `Invariance`: the inductive invariant `IInv`, which contains the type invariant;
- `NothingIsCutOff`, `LimitIsAllowed`, `NoChildIsLeft`: the safety properties of
  `process`; and `CaptureBound`, that memory is bounded.

The argument: nothing lies between a pipe and `captured`, so what is captured never
exceeds what was written, and a pipe that left the selector did so on an empty read with
no writer left, from when on nothing can be written to it. A call that ends without an
exception therefore ends with both pipes empty, or with `exceeded`, which is set only
after more than the limit was read. TLC checks `IInv` in `process`.

`HostSetupProofs` proves, for every set of releases and every number of faults and
changes (`SetupAssumption`, `DownIsNoRelease`):

- `Invariance`: the inductive invariant `IInv`;
- `PassLeavesNothing`: `PassedMeansClean`.

The argument: a tool passes only at its last look, long after both probes. `IInv` says
that a finally clause which ends without failing leaves nothing of its probe (its
sandbox exists exactly when `created` says so, unless the clause is failing), and that
what the installer's probe cleaned stays clean through the verification.

`CampaignFixturesProofs` proves, for every set of calls and work roots and every number of
moves (`FixtureAssumption`: types, and authors that are told apart):

- `Invariance`: the inductive invariant `IInv`;
- `ReportsAreExact`, `PreparedFixturesAreOwn`: the safety properties of `fixtures`;
- `Exclusive`: of all calls for one campaign id at most one returns.

The argument: as long as a call goes on, what it has on GitHub, what it has reported and
what its place in the code implies are the same set (`OnTrack`). A failure freezes the
report, and only the command it interrupts can have added to what was made; another call
cannot, since a push to a branch that exists is refused. A pull request is reported after
its check, hence `ReportedPullsMatch`. A call that is done is at a place where all four
resources were made. `Exclusive` follows, because a branch has one maker.

`SignedCampaignProofs` proves, for every set of deliveries and every number of outages
(`ServiceAssumption`, `CampaignAssumption`):

- `Invariance`: the inductive invariant `IInv`;
- `ReadyService`, `PassesAreProven`, `UntroubledPasses`: the three safety properties of
  `campaign`;
- `ServiceImplementsClaims`, `ServiceImplementsTransactions`: the service that the campaign
  meets implements both contracts, through stops, kills and restarts;
- `ServiceKeepsPromises`: hence no review of it has a comment, landed or in flight, beside
  a workspace or a sandbox, and its cleanup records are true.

The argument: a pass rests on reads of different moments. What makes them fit is
`OneReview`: the claim is held from the preflight to the terminal release, a review that
succeeded leaves a comment, and a comment that was not late keeps every other delivery
from a review. So the journal's attempt, once complete, stays the only one
(`EvidenceHolds`), and the comment is its own unless one was late. For an untroubled run
`Quiet` says the rest: only the campaign's own delivery is in the service, its comment is
there exactly from its publication on, and its records precede the release of its claim,
so that a read in the middle finds something incomplete and never something wrong.

The contracts join the models. `ReviewService` knows nothing of coroutines or commands, and
a campaign model with both would be out of TLC's reach. The lifecycle and the attempts are
proved to implement the contracts, and the service to implement the same ones, so what the
contracts forbid happens in none of the three, and a theorem about a contract holds for all.
The contracts are upper bounds: that every behaviour of the lifecycle and of the attempts is
also one of `ReviewService` is not proved. That is the reading of the code, and the
campaign's properties rest on it. What the refinement can find it did: an earlier `RunEnds`
let every failed review with nothing left on the host record a confirmed cleanup, which a
failed construction does not. On small instances TLC checks the refinements in
`lifecycle_safety` and `attempt`.

Only model-checked: the liveness properties and the fair part of `ReviewAdmission`'s
refinement, for which the prover has no rules here, and nothing else: every safety property
and action property of a passing run is a theorem.

Still to prove: that the comments of `ReviewService` follow `Publication` (a third contract,
of one revision's comments), and the promises of `RevisionClaims` by themselves.

## Assumptions and limits

- A scan of the comments is one read, and nobody deletes the application's comments. The
  campaign's listing of the host is one read as well.
- `sbx create` that failed or was killed has made its sandbox at once or never; the
  service manager kills the children of a killed service with it.
- Nothing cancels the tasks of `_run`: the web server awaits the drain.
- Attempt ids are unique (uuid4); one process on one host, as `docs/deployment.md`
  requires.
- Commits of different preparations differ, GitHub refuses a push that would overwrite a
  branch, and `base.sha` of a new pull request is the tip at its opening.
- In `ReviewService` an update whose answer is lost is applied by then or never
  (`Publication` has the late ones). Reviews of other revisions only take places
  (`Declined`) and appear on the host (`OthersOnHost`).
- Data is abstracted: comment bodies are values, the result of a review is a choice,
  a deadline may expire at any time.

## Not modelled

- *Pure functions of text*: the rendering of a comment and its truncation to a byte budget
  (`publishing.py:75-108`), the grounding of a finding's lines and paths
  (`core.py:77-207`), the parsing of the candidate. They have no state and no order of
  events; the models take their results as choices. The paging of comments
  (`github.py:365-412`) is a sequential loop inside one call, and one read here.
- *Configuration, errors, scripts and kit*: parsing and constants.
- *The checks of a webhook* (signature, body limit, payload, eligibility): each ends the
  request without touching any state, and they are one refusal (`Refused`).
- *The single checks of readiness and of the installer's stages*: one stage that passes or
  fails, with the effect it may leave.
- *What happens after a failed campaign*, and the command lines of the campaign and the
  fixtures, which raise before anything is done.
