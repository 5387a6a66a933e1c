# meshmedic in TLA+

meshmedic watches Prometheus for the failure signatures of a reviewed catalog and
answers a breach with a report and, in GitOps mode, a pull request. It never writes
to the cluster. So it can be wrong in four ways: by speaking twice, by not speaking,
by speaking about a cluster that is well, and by claiming to have looked when it had
not. This directory holds TLA+ models of the code that decides those four things,
the TLC runs that check them on small instances, and TLAPS proofs, for every instance,
of nearly every safety property those runs check.

All line numbers are those of `src/` at the commit beside this directory.

## The system

| Component | State it keeps | Operations | Talks to |
|---|---|---|---|
| Detector (`pkg/detect/detector.go`) | one entry per (target, scenario): inactive, pending or firing, since when, and the applies of the last hour | `Run`, `Tick`, `evaluateSignal`, `deliver`, resolutions, cycle summary | Prometheus, the incident handler, the state file, the baseline store |
| State file (`pkg/detect/state.go`) | the entries worth carrying over | `SaveState` after every tick, `LoadState` at start | disk |
| Incident handler (`cmd/meshmedic/main.go`) | none | render, path, `Client.Open` | detector (called by it), GitOps client |
| GitOps client (`pkg/gitops`) | none; the repository is its state | `Open`: default branch, base, branch, look, put, pull; `do` retries | GitHub |
| Baseline store (`pkg/baseline`) | a moving average and a count per key | `Observe`, `Baseline`, `Save`, `Load` | detector, floor collector, disk |
| Anomaly watch and recorder (`detector.go`, `pkg/recorder`) | the log of fingerprints | `watchAnomaly`, `Record` | store, Prometheus |
| Proof runner and suite (`pkg/proof/run.go`, `driver.go`, `cmd/meshmedic-prove`) | the fault in the cluster, a detector of its own, results | `Run`, `waitForFire`, `waitForResolve`, `WaitForObserver`, `Retryable` | cluster (commands), detector, Prometheus |
| Silence run (`pkg/proof/silence.go`) | a report per entry | `Silence`, `Verdict` | detector |
| Calibration (`pkg/calibrate`) | an observation per entry | `Sample`, `Report` | Prometheus |
| Catalog and lock (`pkg/catalog`, `cmd/meshmedic/lock.go`) | a file per entry, and the approved hash per entry | `LoadFS`, `LoadLock`, `Verify`, `Approve`, `Stale`, `Save`; the `approve`, `validate` and `watch` commands | disk; the detector, which is told what not to run |
| Catalog check (`pkg/promql/extract.go`, `cmd/meshmedic/against.go`) | the names found in a query, the verdict of an entry | `Extract`, `checkScenario`, `checkSeries` | Prometheus |
| Doctor (`cmd/meshmedic-prove`) | none | seven checks before a suite or a silence run | Prometheus, kubectl |
| Config, Prometheus and Kubernetes clients, PromQL lexer, reports | none that changes | parsing, one request, formatting | |

What is hard here, and where:

- **Suppression is decided between evaluation and delivery.** An entry's life depends
  on the other entries of its target and on whether anybody could see the target at all.
- **Three different things look like firing**: a delivered incident, a rate-limited one,
  and one restored from a file.
- **A tick is saved after all its deliveries**, so a kill forgets deliveries that happened.
- **Opening a pull request is six requests**, any of which may take effect and lose its
  answer, while reviewers merge.
- **Blind, empty and quiet leave the same entry behind**, and only one of them is evidence.
- **The catalog is a directory and its lock is a file**, both read without a lock of
  their own while people edit, approve and check out.
- **What is learned as normal is learned from a cluster that may not be.**
- **The proof harness is a distributed experiment**: a fault that must go away however the
  run ends, an observer that dies, a machine that sleeps.

What makes each part right is stated, in the table of runs below, as the properties
that are checked. `PROJECT.json` lists the hazards line by line, with the property
that would notice each.

## The modules

```
Episode                      the operators on one entry
   |-- Detector ------ MCDetector       the lifecycle, with the state file
   |      |  \-- DetectorProofs -- DetectorEpisodeProofs
   |      \-- ProposalLedger (INSTANCE)  what the detector promises
   |-- ProofRunner --- MCProofRunner     the fault-injection suite
   |      \-- ProofRunnerProofs
   |-- QuietCluster -- MCQuietCluster    doctor, silence runs and calibration, side by side
   |      \-- QuietClusterProofs
   \-- LearnedNormal - MCLearnedNormal   baseline, warm-up, anomaly watch
          \-- LearnedNormalProofs
PullRequests --------- MCPullRequests    incident handler and GitOps client
   |-- PullRequestsProofs
   \-- OpenPromise (INSTANCE)            what a call of Open promises
CatalogLock ---------- MCCatalogLock     approve, validate and watch on one directory
   |-- CatalogLockProofs
   \-- ApprovalRegister (INSTANCE)       what the lock promises
CatalogCheck                             validate --against-prometheus, one entry
   \-- CatalogNotation                   what the tokens of a query denote
          |-- MCCatalogCheck
          \-- CatalogCheckProofs
```

`Episode` is what the modules share, as the commands share one detector: `Breached`,
`Cleared`, `Blinded` and `HeldFor` are the transitions of an entry in `Tick` and
`evaluateSignal`. Operators marked `Fault:` are single plausible mistakes, each put
before the definition it distorts. No specification uses them; they are there so that
each property can be shown to fail on a program that is wrong.

### Detector

One process runs `Run`. `phase` says where it is: a tick visits the targets in order
(`probe`, then `evaluate` if the coverage probe saw series), ends in `save`, and
`sleep`s. `Crash` and `Restart` are the process boundary; `CrashPoints` says where a
kill is possible.

| Code | Model |
|---|---|
| `Run` 282-308 | `Wake`, `Save`, `Crash`; the tick between them |
| `Tick`, coverage probe 328-371 | `ProbeSees`, `ProbeBlind` |
| `evaluateSignal` 483-596 | `SignalBreach`, `SignalClear`, `SignalEmpty`, `SignalError` |
| `Tick`, suppression and deliveries 393-427 | `SuppressedBy`, `Suppress`, `RateLimit`, `Deliver`, `Retry`, `TargetDone` |
| `deliver`, guardrail 741-759 | `Spent`, `Pruned`, `Live` |
| `Cycle.record`, summary | `Count`, `Tally`, `Report` |
| `SaveState`, `LoadState` | `Snapshot`, `Save`, `LoadState` |
| `runWatch` start 343-384 | `Restart`; what the lock refuses is `UnlockedChoices` |

Times are naturals and 0 is Go's zero time. `MaxHandling` lets a handler call take
time, so that an apply is stamped later than the tick. The history variables
(`proposals`, `documented`, `resolved`, `lastQuiet`, `forgotten`) are read by
properties only.

`ProposalLedger` is the abstract specification: a key's episode is opened by a proposal
entered in the ledger or, when the limit is spent, by withholding one, and stays open
until it is closed. It has no probe, query, hold, cascade or process in it. The
refinement mapping reads an episode as open while the entry in memory, or in the file
of a stopped process, is firing.

### PullRequests

`Handle` is the handler of `runWatch` taking the next due incident: `SkipPullRequest` if
nothing renders, `BeginOpen` otherwise. `request` is the request `Client.Open` is at.
`Succeed`, `Reject`, `FailTransiently` and `FailForGood` are the answers, the last two
with or without the request's effect on the repository, and `do`'s three attempts are
`attempt`. A branch is named for its second, and two calls may share one, of one tick or of a
tick that follows at once on one that overran. Seconds are counted by the branches made in
them, since one without a branch is not told from the next. GitHub is external: a branch is the files it was cut from and the files it
has, and a merge puts a pull request's changes on the base. The detector is reduced to
what it does with the handler's answer.

`OpenPromise` is the abstract specification: a call for an incident opens at most one pull
request, from a branch of its own, which is its base with the incident's file put in; nothing
is added to it later; and the incident is taken in that same step, or because it renders
nothing. It has no request, retry or answer in it. The refinement mapping reads a pull request
as what its branch was cut from and what it has, so a step that writes to the branch of an
open pull request would be no step of `OpenPromise`.

### ProofRunner

`phase` follows the suite loop of `meshmedic-prove` and `Runner.Run`: observe, preflight,
inject, watch, judge, grace, reset, resolve, cleanup, verdict. What one tick sees is
chosen from `Sights`. Commands fail with or without effect, the observer answers or not,
the machine sleeps and the suite is interrupted at any point. The two waiting loops take a
slow tick for a sleep (`LoopSlept`), since they compare wall clocks (`run.go:494`, `556`).
`CheckWinnable` is an assumption on the constants, because `main` exits before the suite when it fails.
`ExitCode` is `summarize`.

### QuietCluster

`Runner.Silence` and `calibrate.Runner` watch the same rounds of one entry, so that what
they report can be compared with the rounds and with each other. `Watched` and `Verdict`
are the silence report; `Sampled`, `Near` and `Grade` are calibrate. The entry is driven
by `Episode`'s operators, as the silence run uses the real detector. Before either,
`Preflight` is the doctor's question whether the entry is already in breach
(`currentlyBreaching`), which may end the run, as may the doctor's other checks.

### LearnedNormal

The store with two keys: an entry with a `baselineMultiplier` and one anomaly signal.
`WarmupRound` and `Commit` are the floor collector, `RunRound` is a tick, `Watch` is
`watchAnomaly`. In the watch command `SaveStore` and `SaveEntry` follow every tick, and
`Crash` may come before, between or after them. A proof or a silence run warms up, never
saves, and has no recorder. Readings are naturals and NaN.

### CatalogLock

Any number of processes, each of them `approve`, `validate` or `watch`. All commands read
alike, so which one a process is, and with which flags, is settled when it decides.

| Code | Model |
|---|---|
| `LoadFS` 30-58, the listing and each file | `Start`, `ReadEntry` |
| `LoadFS` 62-87; `LoadLock`, `ParseLock` | `Loads`; `ReadLock` |
| `Hash`, `Verify`, `Stale`, `unlockedFrom` | `Hash`, `Status`, `Stale`, `Unlocked` |
| `runApprove` 59-125, `Approve`, `Save` | `Chosen`, `Refused`, `Approved`, `SaveLock` |
| `runValidate` 156-197 | `Passes`, `Judge` |
| `runWatch` 347-369 | `Launch` |
| every early exit, a failed save, a kill | `Exit` |

`Edit` is the editor or the checkout, one file at a time. A file has a text and a text has
a meaning: `Hash` is over the meaning, so a cosmetic edit exists in the model and changes no
hash. A hash stands for the form it was made of; collisions are not considered. `approvals`
(who recorded what, ever) and `fresh` (for whom nothing has changed since they began) are
history variables.

`ApprovalRegister` is the abstract specification: pairs of an entry and a form are approved,
for good; the lock vouches for some of them; a runner takes up some of them, each entry in one
form, and keeps exactly those until it stops. It has no file, edit or gate in it. What was
dropped from the lock may come back, because of two overlapping approves the later save
wins; what was never approved may not.

### CatalogCheck

One entry of `validate --against-prometheus`. A query is a record of its tokens and of what
it means: its metrics, labels and selectors, and the sets of selectors of which one set has
to be non-empty for it to return anything. The code sees the tokens only, and the properties
compare its answers with the meaning. `Extract` is the loop of that name, one action per
case; `CheckNames` is `checkScenario` against any set of series; `ProbeAnswered`,
`ProbeFails` and `PassNameless` are the loop of `checkSeries`. The names are listed before any
probe, and a server lists the name of a series that has ended, so `CheckNames` chooses the
series there are and, of `Stale`, those that are only listed. No series begins or ends
between the listing and the last probe.

`CatalogNotation` says what the tokens of a query denote, of each position by what stands
around it (is it in brackets, in braces, in the list of a clause), with no pass over the query
and nothing counted or consumed. It models no code: it is what the one pass is proved
against. Its two assumptions tie a query's meaning to its tokens, and TLC evaluates them for
each query of the run, whose meaning `MCCatalogCheck` builds along with the tokens and not
from them.

## The runs

Run one with `tlc -config <run>.cfg MC<module>.tla`. State counts are distinct states.

| Run | Asks | States |
|---|---|---|
| `Detector_lifecycle` | does an episode get one proposal, after a continuous hold, within the budget of every window, without being forgotten; is an incident silenced only by its cause; does the detector implement the ledger | 680,000 |
| `Detector_faults` | what is left of the guardrail and of the hold when kills, failing saves and failing loads come at the worst time; does the summary account for every breach | 1,470,000 |
| `PullRequests` | is a pull request one incident's change; when is there a second one; is a due incident eventually taken | 520,000 |
| `ProofRunner` | is a fault ever left behind, a pass unearned, an entry blamed for the observer, a failure retried away; what does exit status 0 say; does the suite end | 1,320,000 |
| `QuietCluster` | does the doctor admit what the detector would page for; is what silence and calibrate report true of the rounds; do they agree on what pages | 1,280,000 |
| `LearnedNormal` | can an incident or a gap move its own threshold; does a warm-up find the floor; is the store what the process knows | 1,240,000 |
| `CatalogLock` | does anything run that nobody approved; do the gates and the watch agree; does approve do what it was asked, and nothing else | 1,410,000 |
| `CatalogCheck` | is what is extracted what a query depends on; is the verdict about the target; can an entry called dead fire | 480,000 |

Deadlock is checked in `PullRequests` and `CatalogLock`. Elsewhere the model stops by
design: at `MaxClock` or `MaxRounds`, or when the window, the suite or the check ends.
`CatalogLock` is run up to the symmetry of its processes.

### What the properties say

`Detector_lifecycle`
- `RateLimited`: in no interval of an hour, wherever it starts, does the handler take more
  than `maxAppliesPerHour` incidents of a key, with slow handlers, failed handlers and
  restarts.
- `OneProposalPerEpisode`: no second proposal until the signal was seen out of breach.
- `HoldHonoured`: nothing goes out unless for longer than the hold no tick saw the signal
  quiet and none found the target unobserved.
- `DocumentedIsFiring`: what the operator was told is in memory or in the file.
- `ResolutionClosesDocument`: of an entry without a limit a recovery is announced only for
  an episode that produced a document.
- `SilenceIsExplained`: if a tick that saw every signal, and whose handler never failed, leaves
  an incident pending beyond its hold, a scenario in an open episode of the same target
  suppresses it. What is quiet, unlocked or of another target silences nothing.
- `ImplementsLedger`: every behaviour is one of the ledger.

`Detector_faults`
- `ExcessIsForgotten`: a window exceeds the limit only by proposals a stop lost.
- `NothingOverdue`: a tick that saw everything leaves no entry pending beyond its hold.
- `BucketsCoverBreaches`: the five buckets of the summary cover every breach and nothing
  but breaches and open episodes whose query failed.

`PullRequests`
- `OpensAsPromised`: every behaviour is one of `OpenPromise`. A pull request is its base with
  the incident's patch put in and stays that, also for two targets in the same second.
- `EpisodeHasPullRequest`: no episode goes quiet without a pull request, and it has a second
  one only if the first was never confirmed.
- `FailureHasCause`: `Open` fails only because a request went wrong or another branch of
  that second exists; a file left by an earlier remediation is no obstacle.
- `IncidentIsTaken`: a due incident is eventually taken.

`ProofRunner`
- `LeavesNoFault`: outside its run a fault is in the cluster only if its report says so.
- `PassIsEarned`: a pass needs both halves and a clean cluster, and a run the machine slept
  through is void, wherever it slept.
- `SuccessIsWhole`: a finding is never retried into a pass, and exit status 0 means that no
  fault is left and, unless the suite was interrupted, that every proof passed.
- `BlameIsFair`: "did not fire" is said only if every liveness check was answered and some
  tick did not see the breach, given a deadline with a poll to spare.
- `SuiteEnds`: whatever the observer does, the suite ends, unless a command of an injection or
  of a mid-run reset hangs and nobody interrupts it.

`QuietCluster`
- `ReportIsTrue`: silent means no breach was measured, a window blind throughout is not
  quiet, and an entry that was not reported was never in breach for its hold and a poll.
- `GradesAgree`: what paged is graded miscalibrated, and what was past its threshold once is
  never graded calibrated.
- `AdmittedIsQuiet`: a run begins only on a reading the detector would call clear.

`LearnedNormal`
- `EpisodeKeepsThreshold`: while an episode is open, nothing moves its threshold.
- `TypeOK` includes that a normal lies among what was measured and quiet, or is zero for
  want of anything measured.
- `WarmupFindsFloor`: if more than half of a warm-up's readings are at most h and positive,
  what it teaches is at most h and the tolerance.
- `NormalOnFile`: between ticks the file holds what the process knows.
- What the anomaly watch records and learns is decided by one guard of `watchAnomaly` and has no
  property of its own. Its key matters here because it shares the file of the entry's.

`CatalogLock`
- `RunsAsApproved`: every behaviour is one of `ApprovalRegister`. Each entry a watch runs was
  approved by somebody in the form it runs in, whatever was edited, approved and pruned
  between the watch's reads, and it runs these until it exits.
- `GateMatchesWatch`: if no meaning changed since either began, `validate` exits 0 exactly if
  the watch runs every approved entry (`--no-drift`), or every entry (`--strict`).
- `ApprovedIsLocked`: after an approve nothing overlapped, what it was asked about is locked
  as the directory has it, and a pruned lock has no approval without an entry.
- `DeliberateAct`: an approve that no other approve raced changes the standing of nothing it
  was not asked about.

`CatalogCheck`
- `RefsAreExact`: the metrics, the labels and each selector with its own matchers are those of
  the query, whatever its functions, groupings, ranges, offsets and joins. The metric of a
  selector is compared where it is written before the brace.
- `VerdictIsRight`: "matches nothing" is said if some named selector has no series for the
  target and, when every probe is answered, only then; and an entry called dead whose query
  needs all it names cannot fire on that server, unless it is one that fires on no series:
  one with `absenceIsSignal` and a threshold that 0 breaches (`ZeroBreaches`). The selectors
  meant are those with their metric before the brace; the others are not probed.

### Where the code and its documentation part

Each of these runs checks one sentence of the repository and finds a counterexample.

| Run | The sentence | What happens |
|---|---|---|
| `Detector_v_throttle` | "no further change will be proposed until the window clears" (`detector.go:754`) | the rate-limited entry becomes firing, and a firing entry is never due again while it breaches, so nothing is proposed after the window clears either |
| `PullRequests_v_retry` | losing a pull request to a network error "is not acceptable, so network errors and 5xx responses get three attempts" (`client.go:167`) | a request that took effect and lost its answer is retried as it is, meets its own branch, commit or pull request, gets a 4xx, and fails the `Open` |
| `ProofRunner_v_resolve` | blaming an entry for the observer's blindness is "the exact failure" to prevent (`run.go:37-40`) | `waitForResolve` asks nobody whether it can see, so an observer that dies after the entry fired makes the proof say "never closes" |
| `LearnedNormal_v_nan` | the baseline is saved "after each tick so it survives a restart" (`detector.go:288`) | JSON refuses NaN, so one NaN of one key stops the saving of every key |

### The bounds and why they are enough

- **Detector.** Entries of different targets share nothing but the tick, the summary and the
  file, so `Detector_lifecycle` has one target and `Detector_faults` two. In the first, two
  scenarios give a root that suppresses a limited symptom, an hour is 3 instants and the clock
  runs to 8, so windows overlap, applies expire, and an apply exactly an hour old occurs.
  Holds of 0, 1 and 2 give the same-tick case, the boundary and a hold that a blind tick can
  cut in two. In the second the clock runs to 5, which is a proposal, a stop that forgets it,
  and a second one inside an hour of 4; a stop and the end of an hour together are left to the
  proof (`ExcessBounded`), as are longer cascades (`SilenceExplained`).
- **PullRequests.** Two keys of one scenario collide on a branch name; a third does not
  render. Two episodes let a second one meet the first one's file. Three faults exhaust one
  request's attempts, or strike three different requests.
- **ProofRunner.** Two proofs, so that one can inherit the other's cluster, one with a
  resolving half and one without; one re-run; windows a little longer than the holds; a lag
  of a tick, so that a tick may fall on or beyond a deadline.
- **QuietCluster.** Six signals: with and without a hold, each kind of comparison, one whose
  absence is the signal, one not applicable. The window is longer than two holds, so a breach
  can begin in the warm-up, end in the window, and be broken by each kind of round.
- **LearnedNormal.** Five warm-up readings have a median with two on either side and room
  for a decay in either half; four rounds allow a trusted normal, a restart and a deviation.
  The weight is one half and readings are multiples of 256, so averages are exact.
- **CatalogLock.** Two processes, because a race needs two and each may be any command, one
  after the other without end. Two entries; the first has two spellings of one form, and each
  has a form that suppresses the other, so a directory may load or not, also halfway through a
  checkout. Eight command lines: `approve` of one, of all with `--prune`, of nothing, and with
  an incomplete record; both gates; `watch` with and without `--strict`. `--prune` on its own and
  every other set of command lines are left to the proofs.
- **CatalogCheck.** Five selectors (two matchers in either order, a pattern built from a
  parameter, a name inside the braces, no braces) in eight forms, and four joins of any two of
  fifteen of these: every pair of clauses next to each other. Six series, so that a metric may
  be there without a label, for another target, or healthy; some may have ended, and be listed
  only. Each query is checked as an entry with and without `absenceIsSignal`, and half of the
  forms have a threshold that 0 breaches.

### Fairness

Only two liveness properties are stated, and both rest on what the code schedules. The
detector has none, because its clock is bounded; `NothingOverdue` is the bounded form.
`approve`, `validate` and `CatalogCheck` are single passes, and a watch never ends.
`PullRequests!FairSpec` assumes that `Run`'s ticker fires, also when no signal changes
(`SteadyTick`), that the handler runs, and that every request ends, which the client's
timeout sees to (`client.go:44`). Faults are bounded, so eventually a request succeeds; this
is an assumption about GitHub. Two targets that ask for one branch must at some time ask in
different seconds, or the second of them is refused for ever; that time passes between two
calls often enough is the strong fairness of `OpenLater`. `ProofRunner!FairSuite` assumes one
process that keeps running: its sleeps end, its queries have timeouts, and the deferred reset
has three minutes (`run.go:190`). It assumes nothing of the commands of an injection or of a
mid-run reset, which run under the suite's context and have no deadline (`run.go:290`, `397`),
so the suite may hang in either until it is interrupted (`Hangs`), and `SuiteEnds` says that
this is all. The observer is under no fairness.

## The proofs

TLAPS checks every leaf. Each theorem is about the specification its run checks, for every
value of the constants that the module's named assumptions admit: every catalog, list of
targets, hold, limit, window, poll, budget, set of readings, number of processes and bound.
The assumptions give the constants their types and little else (a poll is not zero, a
moving average has a weight of at most one). Two say more, because the code does:
`WinnableAssumption`, since `main` exits before a suite that `CheckWinnable` refuses, and a
`Factor` above 1, since `watchAnomaly` puts 3 for any other (`detector.go:614-617`); it is
taken to be whole, as readings are. Those of `CatalogCheck` are about queries, and listed with
its theorems. What a theorem needs beyond them is in its table.

`Detector`

| Theorem | Assumes | Says |
|---|---|---|
| `TypeCorrect` | nothing | `[]TypeOK`; an inactive entry carries no instant of an earlier episode |
| `ExcessBounded` | nothing | `[]ExcessIsForgotten`: the guardrail holds up to what stops lost |
| `GuardrailHolds` | clean restarts | `[]RateLimited` |
| `OneProposal` | clean restarts | `OneProposalPerEpisode` |
| `DocumentedStaysFiring` | clean restarts | `[]DocumentedIsFiring` |
| `HoldIsContinuous` | clean restarts, locked catalog | `HoldHonoured` |
| `Refinement` | clean restarts | the detector implements `ProposalLedger` |
| `SummaryIsComplete` | nothing | `[]BucketsCoverBreaches` |
| `TickLeavesNothingOverdue` | nothing | `[]NothingOverdue` |
| `SilenceExplained` | nothing | `[]SilenceIsExplained` |
| `ResolutionsCloseDocuments` | clean restarts | `ResolutionClosesDocument` |

`CatalogLock`

| Theorem | Says |
|---|---|
| `TypeCorrect` | `[]TypeOK` |
| `OnlyApprovedRuns` | `[]LockInv`: the lock, what is read of it and what runs was approved |
| `Refinement` | `RunsAsApproved`: the commands implement `ApprovalRegister` |
| `GateIsRight` | `[]GateMatchesWatch` |
| `ApproveTakesHold` | `[]ApprovedIsLocked` |
| `ApproveIsDeliberate` | `DeliberateAct` |

They assume nothing about how processes overlap.

The other components

| Module | Theorem | Says |
|---|---|---|
| `PullRequests` | `TypeCorrect` | `[]TypeOK` |
| | `ProposesOneChange` | `[]` each pull request holds its incident's change only |
| | `Refinement` | `OpensAsPromised`: the handler and `Open` implement `OpenPromise` |
| | `OnePullRequestPerEpisode` | `[]EpisodeHasPullRequest` |
| | `NoFailureWithoutCause` | `FailureHasCause` |
| `ProofRunner` | `TypeCorrect` | `[]TypeOK` |
| | `FaultIsTakenAway` | `[]LeavesNoFault` |
| | `PassesAreEarned` | `[]PassIsEarned` |
| | `BlamedFairly` | `[]BlameIsFair` |
| | `SuccessSpeaksForAll` | `[]SuccessIsWhole` |
| `QuietCluster` | `TypeCorrect` | `[]TypeOK` |
| | `ReportsAreTrue` | `[]ReportIsTrue` |
| | `CalibrateAgrees` | `[]GradesAgree` |
| | `AdmissionIsQuiet` | `[]AdmittedIsQuiet` |
| `LearnedNormal` | `WatchTypeCorrect` | `[](watching => TypeOK)` |
| | `NormalIsOnFile` | `[]NormalOnFile` |
| | `ThresholdStands` | `EpisodeKeepsThreshold` |
| `CatalogCheck` | `TypeCorrect` | `[]TypeOK` |
| | `RefsAreRead` | `[]RefsAreExact` |
| | `VerdictFollows` | `[]VerdictIsRight` |

None of them has a hypothesis beyond the module's assumptions. Those about `ProofRunner` are
theorems of `SuiteSpec`, which its run checks under fairness.

*Clean restarts* (`CleanRestarts`): a state file is configured and works, and the process
stops only while it sleeps. Without it the properties fail, since `SaveState` runs once,
after all the deliveries of a tick. *Locked catalog* (`AlwaysLocked`): no process starts with an
unlocked scenario; see below for why.

The argument for the detector.

1. `SnapshotIsIdentity`: an entry `SaveState` leaves out is one with nothing in it. This
   needs the part of `TypeOK` that says an inactive entry has no `since`.
2. `RateInv`. `RateLimited` is about every window of the past and is not inductive. The
   invariant adds that the proposals of a key within the last hour, apart from the ones a
   stop has lost (`forgotten`), are applies of the entry in memory (in the file, while the
   process is down), and that no proposal lies in the future. A delivery then adds an instant
   to a window that `Live` has counted (`RoomForOne`), and a kill moves what the file lacks to
   `forgotten`. Nothing else touches either. With clean restarts nothing is ever forgotten
   (`NothingForgotten`), and `RateLimited` follows.
3. `EpisodeInv`: what is due is pending in memory, what has a document is firing. Only
   `Deliver` proposes (`OnlyDeliverProposes`), only what is due is delivered.
4. `HoldInv`: a pending entry's `since` is later than the last tick that saw the signal quiet
   or the target blind. An entry of an unlocked scenario breaks this, hence the assumption.
5. `LedgerInv` adds the other direction, that the guardrail counts nothing that was not
   proposed. The live applies of an entry are then the recent proposals of its key, so the
   guardrail refuses exactly when the ledger is full. Every action is a ledger step or a
   stutter.
6. `BucketsInv`. Between an evaluation and a delivery a breach is counted and not yet filed, so
   the summary does not add up in the middle of a tick. What is missing is `Cardinality(due)`:
   `EvaluateCounts` says that an evaluation either makes the entry due or files it once, and
   `DisposeCounts` that what takes an entry out of `due` files it once. That an entry becomes
   due only once needs `DueIsPending`. Kills start a fresh summary with nothing due, which is
   why nothing is assumed of restarts.
7. `OverdueInv` says which entries the tick is through with (`Settled`: those of a target that
   is no longer in `left`, and of the present one those neither in `todo` nor in `due`), and
   that these are not overdue unless the summary counts something blind or retrying, or
   something suppressed and the incident is explained (`Explained`). At the end of the tick
   every entry is settled, which gives both `NothingOverdue` and `SilenceIsExplained`. The
   suppressor is found among the entries in breach when the target's deliveries begin, so
   `BreachInv` has to add that these, once nothing is left to evaluate, are the open episodes
   of the target, and that no delivery of the target closes one.
8. `FiringIsDocumented`: without a limit, only `Deliver` makes an entry firing, so a firing
   entry has a document, in memory and, since restarts lose nothing, in the file.

The argument for the lock.

1. `LockInv`: every pair of id and hash in the lock, in the copy of the lock a process holds,
   and in what a watch runs, is in `approvals`. Each step copies one into another or, in
   `SaveLock`, adds to `approvals` what it adds to the lock. No two processes need be compared,
   which is why a lost update cannot hurt `RunsAsApproved`: an older lock holds only older
   approvals. `Refinement` then goes step by step: what a process runs is a function of that
   process, so a step of one changes what that one runs (`RunningStep`); a launch takes up
   (`LaunchTakesUp`), a save approves (`SaveApproves`), and everything else stutters.
2. `FreshInv`: of a process for which nothing has changed since it began, what it has read has
   the meaning of what is in the directory, what it has still to read is the rest of it, and
   the lock it holds is the lock. Every action that changes a meaning or the lock removes the
   others from `fresh`, and a cosmetic edit changes no meaning.
3. `Knows` is what is then left of a process that has decided: its verdict, its running
   entries or its saved lock are those computed from the directory and the lock as they are.
   `GateMatchesWatch` compares two such processes, `ApprovedIsLocked` looks at one.
4. `DeliberateAct` is about one step, and follows from `Approved` and `Chosen` with the types.

The argument for pull requests.

1. `TypeInv` includes what the requests have done so far: from `look` on the branch of the
   current `Open` exists, and the head of each pull request does.
2. `ChangeInv`. `ProposesOneChange` compares a branch with what it was cut from, and is
   disturbed by whoever writes to the branch later. The invariant says how far the current
   `Open` has come: until it opens its pull request no pull request has its branch, its branch
   differs from the base in no file but its own, and at `pull` that file holds its patch. A
   request that takes effect and loses its answer leaves the same branch, so the next attempt
   finds what the invariant allows. Two targets of one second are kept apart by the refusal of
   an existing branch, not by their names.
3. `EpisodeInv`: an episode not yet reported has no more pull requests than creations nobody
   confirmed; the pull request that is confirmed is the one that ends it.
4. `Refinement` needs of `ChangeInv` that a pull request's branch is not the branch of a call
   that has yet to commit, so that what is in the book stays (`BookStands`). `EffectBooks`
   says that only an accepted request for a pull request adds to the book, and what; whether
   the answer arrives (`PromiseSucceed`), is lost and ends the call (`WrongEnds`) or is lost and
   tried again (`WrongGoesOn`) decides how the step of `OpenPromise` ends. A retry of a request
   that had opened the pull request is refused, which is why a call opens no second one.
5. `CauseInv`: as long as no request went wrong, the file looked up is the file on the branch,
   and the branch is ahead of its base and has no pull request when one is asked for. An action
   property, so it is proved of a step from the invariant.

The argument for the proof runner.

1. `TypeInv` names the phases in which there is a current proof (`UnderWay`) and bounds the
   run of missed liveness checks by the phase it is counted in.
2. `ResultInv`. `LeavesNoFault` says nothing while a proof is under way, so the invariant says
   where a fault may be at all (`faults` and `findings` lie in the proofs already begun), that
   the result being built already satisfies what `PassIsEarned` asks of a recorded one
   (`Earned`), and that a run the machine slept through is blind by the time of its verdict,
   wherever the sleep was. `SuccessIsWhole` then needs `ExitCode` and that the suite ends at
   its last proof.
3. `BlameInv`: a watch that has met only answered checks and breaching ticks is in a steady
   breach (`SteadyBreach`), in which the entry's hold has been running since the first tick.
   With a poll to spare (`Roomy`) some tick falls between the hold and the deadline, and it
   fires. So a watch that ends unfired was blemished, flickered, cancelled or had no room.

The argument for quiet clusters.

1. `ReportInv` ties the run of breaches in the report to the detector's entry: of an entry not
   reported, a run of breaches is no longer than it has been pending, and it cannot be
   pending for its hold and a poll without firing.
2. `GradeInv` compares two programs that see the same rounds. A pending entry whose breach
   began in the window has an open breach in `calibrate` that began no later, so when the
   detector fires, `calibrate`'s longest breach is at least the hold. A round that ends the one
   and not the other (an error, an empty answer) is where such an invariant would break.
3. `AdmittedIsQuiet` is inductive with the types.

The argument for the learned normal.

1. `StoreInv`, of the store in memory and of the file: what is learned is counted, and a normal
   lies between the least and the greatest of what was learned, or is NaN, or is the zero of an
   empty store. The step is the lemma `AverageBetween`: a weighted average of two numbers, in
   integer division, lies between them for every weight. Its proof is about the model's
   integers; the code's floats are rounded likewise, but that is not proved.
2. `FileInv` is `NormalOnFile` extended to the moment between the two saves.
3. `EpisodeKeepsThreshold` looks at one step, from the types: who may teach.

The argument for checking a catalog. The assumptions, beside types:

- `NotationAssumption`: queries are well formed and mean what `CatalogNotation` says. Well
  formed is: no bracket and no brace inside brackets, no opening brace inside braces; a label in
  the list of a clause is followed by a comma or the end of the list; and no metric has the name
  of a keyword or an aggregator. PromQL has no query of another nesting (a subquery's brackets
  hold durations).
- `UsesAssumption`: the metrics of a query are those of the selectors it uses, a selector
  written after its metric is one of these, and it names the target by at most one matcher of
  each label, because the probe keeps only the first.
- `ParamAssumption`: no parameter is the empty string (`against.go:207`).

A selector written inside its braces is compared without the matcher that names it
(`NamedWithin`), and its metric is left open, as in the properties.


1. `Extracting`: before each token the two counters say what stands around it (one or none,
   so `TypeOK` follows), `consumed` is what the lists of the clauses before it take up, and the
   metrics and labels found are those that the tokens before it denote (`MetricsBefore`,
   `LabelsBefore`). The position is in the state, so this is an induction over steps, with one
   lemma for what a token adds to what precedes it, and none over the query.
2. `Filled`, for the selectors: those found so far are the query's first ones, whole but for the
   last, which, while its brace is open, has the matchers written so far. That a brace is the
   n-th of its query is said by the number of braces before it, likewise for matchers; this is
   what a matcher added to the wrong selector would break.
3. `EndExtractKnows`: past the last token, what precedes is everything, so `RefsAreExact`.
4. `Probing`: the named selectors before the next have series of the target, unless a probe
   failed. By `ProbeIsTarget` the probe of a selector asks exactly what names the target.
5. `DeadIsDead` has three lemmas, one for each verdict: without a metric (`MetricGone`), a label
   that a value is asked of (`LabelGone`) or a series of the target (`SelectorGone`), some
   selector the query uses selects nothing (`UseInVain`).

Attempts that failed showed three mistakes in models. `LearnedNormal!TypeOK` took the zero of a
store that has learned nothing for a reading, which is true of the run's readings and not of
every set. `CatalogCheck!DeadIsDead` called a label asked for also when a matcher compares it
with the empty string, which a series without the label satisfies; and nothing said that no
parameter is the empty string, which the code passes over. Each now says so.

### Only model-checked

- Liveness: `IncidentIsTaken`, `SuiteEnds`. The installed provers do not reason about fairness
  and ENABLED.
- `WarmupFindsFloor`, and `TypeOK` of `LearnedNormal` in a proof or a silence run: the median
  and the decay of a warm-up are folds over a sequence of readings, and what a fold computes
  needs an induction over data that the installed provers cannot do.
- The four runs that expect a violation: each is about one instance.

## What the models showed besides

Facts of the code that a reader may want to know and no run is about.

Detector
- A rate-limited entry is firing like a delivered one: from the next tick on the summary
  files it as reported, and its recovery is announced although no incident was.
- A kill between a delivery and `SaveState` loses the apply and the episode, so a restart may
  open a second pull request; the comments at `detector.go:295-298` promise this for clean
  restarts only.
- `since` is persisted, so a hold of a pending entry keeps running while the process is down.
- An unlocked scenario is passed over before the pending progress of an unobserved target is
  dropped (`detector.go:351`), so progress saved before it was unlocked survives the
  blindness and may mature at once when it is locked again.
- The loader refuses two scenarios that suppress each other, because "both would stay silent"
  (`loader.go:81`), and accepts rings of three, which stay silent in the same way: in a ring
  each silence is explained, as `SilenceIsExplained` says, and nobody speaks.
- A store and a state file of different ticks may be what a restart loads, if a kill came
  between the two saves, so an open episode may be measured against an older threshold.
- A kill between a quiet tick and its save leaves a pending entry with its old `since` in the
  file, so the hold is honoured over clean restarts only.
- `unlockedFrom` reports nothing unlocked if hashing fails (`lock.go:134`), so everything
  would run; its comment calls the opposite the safe reading. Hashing does not fail on loaded
  scenarios.

Pull requests
- The handler returns nil when the patch or the path does not render, and the detector then
  counts an apply, although "a pull request that never opened must not consume the entry's
  hourly budget" (`detector.go:779-780`).
- Two targets of one scenario handled in the same second ask for one branch. The second is
  refused and tried again in the next tick: delayed, never mixed up.
- A failed `Open` rolls nothing back, and may leave a branch without a pull request.

Proofs
- An incident that closes during the grace period, an interruption and a metric that
  vanishes in the resolving half are blamed on the entry like blindness is.
- A deadline with less than a poll beyond the hold passes `CheckWinnable` and cannot be won,
  because no tick falls between the two; `Thin` warns of it.
- A suite interrupted in the grace period or the cleanup of a proof that passes records the
  pass, logs how many proofs were not run, and exits 0.
- An interrupt in the pause between two proofs, or before the first, makes every proof that is
  left a blind result, one after the other.
- A command that hangs holds the suite, with its fault in the cluster, until somebody
  interrupts it; the interruption ends the command, and the deferred reset has a context of
  its own.
- A machine so slow that a tick takes longer than the threshold for a sleep is taken for one
  that slept, and its run is void.
- A re-run after blindness is not preceded by the pause the suite makes between proofs, and
  a proof that follows RESET FAILED starts on what was left.

Silence and calibration
- To the doctor an empty result is the healthy reading of every entry, also of one with
  `absenceIsSignal`, for which the detector calls it a breach; the check is said to catch "a
  leftover of any shape" (`meshmedic-prove/main.go:436-440`). It asks no coverage probe.
- An empty result is a quiet one to the detector and so a sample to a silence run: an entry
  whose metric returned no series all window long is reported silent, where `calibrate`
  refuses to count it ("An empty result is not a value", `calibrate.go`).
- A query error ends the run of breaches of a silence report but not the hold the detector
  counts, so the margin of a brushed entry may be overstated.
- `calibrate` gives an entry without a hold that breaches in one sample only the verdict
  marginal, with a note that it stayed quiet; its case for `For == 0` is unreachable, because
  the one before it covers it. A "<" or "<=" entry whose threshold is zero has infinite
  headroom, also when it breaches. It judges the static threshold, and an absence entry whose
  signal is empty is unmeasured to it.
- `signalContext` is cancelled by nobody, so `calibrate` never reports an interrupted window.

Learned normal
- After a NaN the threshold of an entry is NaN, nothing is above it, and it never fires until
  the process is restarted from a file written before.
- A deviation needs `base > 0` (`detector.go:624`), so a signal whose normal is zero, an error
  rate say, never deviates: it learns any value it jumps to, although "an anomaly cannot become
  the new normal" (`detector.go:600-602`), and what was normal is then the deviation.
- With a normal of zero the relative threshold of an entry is zero; with a median of zero the
  floor collector keeps every reading.
- On a target that is not observed an anomaly is recorded although a scenario is firing there,
  because only the entries a tick evaluates count as explanations (`detector.go:407`); the
  recorder's comment says "while no catalog scenario fired for the target".
- A store that fails to load drops the thresholds of open episodes to the static ones.

Catalog and lock
- Two approves that overlap both write the lock back whole, so the later rename wins: an
  approval can be lost, and one that was just pruned come back. Nothing unapproved runs by it.
- The directory is read file by file, so a load during a checkout may hold entries of two
  revisions. Approval is per entry, so each that runs was approved, though never together.
- A watch reads the directory and the lock once. Entries approved or edited later change
  nothing until it is started again.
- `Digest` is written by `Save` and read by no command; "a removed entry is as visible as a
  changed one" (`lock.go:79-80`) is the work of `Stale`.

Checking against Prometheus
- A selector named inside its braces, `{__name__="m", ...}`, keeps an empty metric, although
  the comment at `extract.go:92-93` gives it "the one named by an inner `__name__` matcher", so
  `checkSeries` passes over it and its series are never looked for. The run has such selectors,
  with the metric the comment gives them; `RefsAreExact` leaves their metric open, and
  `VerdictIsRight` is not about them. `__name__` with `!=` or a pattern counts as a metric as well.
- "They cannot fire" (`against.go:119`) is said of an entry with `absenceIsSignal` too, which
  takes no series for 0 and fires on it if 0 breaches its threshold (`detector.go:527-548`), as
  that of `traffic-vanished-triage` does. The run has such entries; `VerdictIsRight` excepts them.
- The same is untrue of a query with a way round what is missing
  (`or`, `unless`, `or vector(0)`), and of a label that occurs only in a grouping or in a
  negative matcher. `VerdictIsRight` excepts these.
- A probe that fails is passed over, so an entry whose every probe failed is reported as ok.
- Of two matchers on one label that name the target, the probe keeps the first.
- Keywords are matched in lower case, so `Inf` counts as a metric, as does the `e5` of `1e5`.

## What is not modelled

- Values and thresholds in `Detector`: a signal's answer is breach, clear, empty or error;
  the learned threshold is `LearnedNormal`'s.
- Evidence (logs, objects, rollouts) and reports: they are read-only and their failures are
  printed.
- The status "query unparseable" of an entry (`against.go:133-145`): a template that does not
  render or a string that does not end, which ends the check of that entry and no other's.
- Parsing: the YAML of an entry and its validation, the configuration, flags, templates, and
  the splitting of a query into tokens. What parses wrong ends a command early or has no run.
- The Prometheus and Kubernetes clients and the listings: single reads with no state that
  changes. The doctor's six other checks are a choice to refuse.
- The embedded catalog and its lock, which nobody can edit.
- The pause between two proofs, and how a signal decays after a fault.
- In `LearnedNormal`, several warm-ups on one store: a suite with more than one proof with a
  warm-up starts the second with what the first one taught.
- Infinities among readings, and two instants within Go's clock resolution.

## The plan

Done, in this order: `Episode`, `Detector` and `ProposalLedger`; `DetectorProofs` and
`DetectorEpisodeProofs`; `PullRequests`; `ProofRunner`; `QuietCluster`; `LearnedNormal`;
`CatalogLock` and `CatalogLockProofs`; `CatalogCheck`; the doctor in `QuietCluster` and the
exit status in `ProofRunner`; then `ProofRunnerProofs`, `QuietClusterProofs`,
`PullRequestsProofs` and `LearnedNormalProofs`; `CatalogNotation` and `CatalogCheckProofs`;
`ApprovalRegister` and `OpenPromise` with their refinements.

Next, most important first:

1. Several warm-ups on one store, and the composition of `LearnedNormal` with the resolving
   half of a proof.
2. The composition of `Detector` with `PullRequests`: the handler's answer is a choice in the
   one and the detector is reduced in the other; `OpenPromise` is what they would share.
3. An abstract specification of a proof, a fault put in and taken away around a verdict, with
   `ProofRunner` shown to implement it.
