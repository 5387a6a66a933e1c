------------------------------ MODULE Detector ------------------------------
(***************************************************************************)
(* The incident lifecycle of pkg/detect: Detector.Run, Tick, evaluateSignal *)
(* and deliver (detector.go), with the state file of state.go that carries  *)
(* the lifecycle from one process to the next.                              *)
(*                                                                          *)
(* One process runs Run: tick, save, sleep.  Tick takes every target in the *)
(* order of the config; per target it asks the coverage probe, advances one *)
(* entry per scenario, decides the cascade suppression over the whole       *)
(* target, and only then delivers what is due.  The environment answers     *)
(* probes, queries and the incident handler, and may kill the process.      *)
(*                                                                          *)
(* Abstractions.  A signal's answer is "breach", "clear", "empty" (no       *)
(* series) or "error" (also: a template that does not render): values and   *)
(* thresholds are the business of LearnedNormal.  This module is the        *)
(* configuration without a learned baseline and without an anomaly watch    *)
(* (both are nil unless configured).  Times are naturals and 0 is Go's zero *)
(* time; the applies of an entry are a set of times, because one entry      *)
(* delivers at most once in a tick and the clock moves between ticks.       *)
(***************************************************************************)
EXTENDS Episode

CONSTANTS
    NumTargets,       \* targets of the watch config, in config order
    NumScenarios,     \* scenarios of the catalog, in ID order
    Watched,          \* per target, the scenarios it wants and has params for
    Suppresses,       \* per scenario, the scenarios it suppresses
    Hold,             \* per scenario, its for-duration
    MaxApplies,       \* per scenario, maxAppliesPerHour; 0 means unlimited
    AbsenceIsSignal,  \* scenarios for which no series is a measured zero
    Hour,             \* the length of the guardrail's window
    UnlockedChoices,  \* what the lock may leave unlocked when a process starts
    ProbeAnswers,     \* subset of BOOLEAN: does the coverage probe see series
    Answers,          \* subset of SignalAnswers
    HandlerAnswers,   \* subset of {"ok", "error"}
    StateFile,        \* is a state file configured
    CrashPoints,      \* phases in which the process may be killed
    SaveFails,        \* may SaveState fail
    LoadFails,        \* may LoadState fail
    MaxClock,         \* bound: the last instant of the model
    MaxGap,           \* bound: longest sleep or downtime
    MaxHandling       \* bound: longest time one handler call takes

Target == 1..NumTargets
Scenario == 1..NumScenarios
Key == Target \X Scenario

SignalAnswers == {"breach", "clear", "empty", "error"}
Phases == {"down", "probe", "evaluate", "save", "sleep"}

ASSUME SizesAssumption ==
    /\ NumTargets \in Nat \ {0}
    /\ NumScenarios \in Nat \ {0}
    /\ Hour \in Nat \ {0}
    /\ MaxClock \in Nat
    /\ MaxGap \in Nat \ {0}
    /\ MaxHandling \in Nat

ASSUME CatalogAssumption ==
    /\ Watched \in [Target -> SUBSET Scenario]
    /\ Suppresses \in [Scenario -> SUBSET Scenario]
    /\ Hold \in [Scenario -> Nat]
    /\ MaxApplies \in [Scenario -> Nat]
    /\ AbsenceIsSignal \subseteq Scenario

ASSUME EnvironmentAssumption ==
    /\ UnlockedChoices \subseteq SUBSET Scenario
    /\ ProbeAnswers \subseteq BOOLEAN
    /\ Answers \subseteq SignalAnswers
    /\ HandlerAnswers \subseteq {"ok", "error"}
    /\ StateFile \in BOOLEAN
    /\ CrashPoints \subseteq Phases \ {"down"}
    /\ SaveFails \in BOOLEAN
    /\ LoadFails \in BOOLEAN

VARIABLES
    clock,      \* the wall clock
    phase,      \* where Run is: see Phases
    tickNow,    \* the instant Tick was called with
    left,       \* targets of this tick not finished yet; the least is current
    todo,       \* scenarios of the current target still to be evaluated
    due,        \* scenarios whose incident is due and not yet disposed of
    inBreach,   \* scenarios of the current target that are not inactive
    states,     \* the entries in memory
    disk,       \* the entries in the state file
    unlocked,   \* the scenarios this process refuses to run
    cycle,      \* the counters of the Cycle being built
    proposals,  \* history: when the handler took an incident of each key
    documented, \* history: keys whose running episode produced a document
    resolved,   \* history: keys whose last recovery was announced
    lastQuiet,  \* history: last tick that saw the key other than in breach
    forgotten   \* history: the proposals of each key a stop has lost

tickVars == <<tickNow, left, todo, due, inBreach, cycle>>
history == <<proposals, documented, resolved, lastQuiet, forgotten>>
vars == <<clock, phase, tickVars, states, disk, unlocked, history>>

-----------------------------------------------------------------------------
(* Entries                                                                 *)

\* withinLastHour: what the pruning keeps.
Live(applies, now) == {at \in applies : at > now - Hour}

Held(e, s, now) == HeldFor(e, Hold[s], now)

\* Fault: entries without an open episode are never written.
SnapshotOpenOnly(sts) ==
    [k \in Key |-> IF sts[k].state = "inactive" THEN Fresh ELSE sts[k]]

\* SaveState leaves out the entries that hold nothing worth carrying over.
Snapshot(sts) ==
    [k \in Key |-> IF sts[k].state = "inactive" /\ sts[k].applies = {}
                   THEN Fresh ELSE sts[k]]

-----------------------------------------------------------------------------
(* The cycle summary and the cascade                                       *)

Buckets == {"reported", "suppressed", "waiting", "rateLimited", "retrying"}
Counter == Buckets \cup {"inBreach", "blind"}
NoCycle == [c \in Counter |-> 0]

Count(c, name) == [c EXCEPT ![name] = @ + 1]

\* Fault: an open episode that still breaches is not counted again.
TallyPendingOnly(c, e) == IF e.state = "pending" THEN Count(c, "waiting") ELSE c

\* Tick's accounting of an entry that is not due.
Tally(c, e) ==
    CASE e.state = "pending"  -> Count(c, "waiting")
      [] e.state = "firing"   -> Count(c, "reported")
      [] e.state = "inactive" -> c

\* Fault: a suppressed scenario passes its own suppressions on only if it is
\* not breaching, so a root is silenced by its symptoms.
SuppressedByQuiet(breaching) == UNION {Suppresses[s] : s \in Scenario \ breaching}

\* suppressedBy: every scenario in breach silences those it names.
SuppressedBy(breaching) == UNION {Suppresses[s] : s \in breaching}

Least(n, S) == n \in S /\ \A m \in S : n <= m

-----------------------------------------------------------------------------
(* Starting, stopping and saving                                           *)

\* Tick begins at instant now, with nothing of it done.
BeginTick(now) ==
    /\ now <= MaxClock
    /\ clock' = now
    /\ tickNow' = now
    /\ phase' = "probe"
    /\ left' = Target
    /\ UNCHANGED <<todo, due, inBreach, cycle>>

\* Run's ticker fires.
Wake ==
    /\ phase = "sleep"
    /\ \E gap \in 1..MaxGap : BeginTick(clock + gap)
    /\ UNCHANGED <<states, disk, unlocked, history>>

\* SaveState, after every tick.  It writes a temporary file and renames it, so
\* it replaces the whole file or leaves the old one; a failure is logged.
Save ==
    /\ phase = "save"
    /\ phase' = "sleep"
    /\ \/ StateFile /\ disk' = Snapshot(states)
       \/ (SaveFails \/ ~StateFile) /\ UNCHANGED disk
    /\ UNCHANGED <<clock, tickVars, states, unlocked, history>>

\* What the process knows of its entries: its memory, or the file it will
\* load when it is started next.
Memory == IF phase = "down" THEN disk ELSE states

\* History: the recent proposals the detector no longer knows of.
Forget ==
    forgotten' = [k \in Key |-> forgotten[k] \cup
                     {p \in proposals[k] : p > clock - Hour /\ p \notin Memory'[k].applies}]

\* The process is killed, or stops between two ticks, and its memory is gone.
Crash ==
    /\ phase \in CrashPoints
    /\ phase' = "down"
    /\ states' = [k \in Key |-> Fresh]
    /\ left' = {}
    /\ todo' = {}
    /\ due' = {}
    /\ inBreach' = {}
    /\ cycle' = NoCycle
    /\ UNCHANGED <<clock, tickNow, disk, unlocked,
                   proposals, documented, resolved, lastQuiet>>
    /\ Forget

\* A load that fails is logged and leaves the detector with no open incidents.
LoadState == states' = disk \/ (LoadFails /\ UNCHANGED states)

\* runWatch: compare the catalog with the lock, load the state file, and tick
\* at once.
Restart ==
    /\ phase = "down"
    /\ unlocked' \in UnlockedChoices
    /\ LoadState
    /\ \E gap \in 1..MaxGap : BeginTick(clock + gap)
    /\ UNCHANGED <<disk, proposals, documented, resolved, lastQuiet>>
    /\ Forget

-----------------------------------------------------------------------------
(* One target                                                              *)

\* The target is visible: evaluate the scenarios the lock accepts.
ProbeSees(t) ==
    /\ phase = "probe"
    /\ Least(t, left)
    /\ TRUE \in ProbeAnswers
    /\ phase' = "evaluate"
    /\ todo' = Watched[t] \ unlocked
    /\ UNCHANGED <<clock, tickNow, left, due, inBreach, cycle,
                   states, disk, unlocked, history>>

\* The target is not visible: every locked scenario on it is blind, and its
\* pending progress is dropped.  An unlocked one is passed over before that.
ProbeBlind(t) ==
    LET evaluated == Watched[t] \ unlocked
    IN  /\ phase = "probe"
        /\ Least(t, left)
        /\ FALSE \in ProbeAnswers
        /\ left' = left \ {t}
        /\ states' = [k \in Key |-> IF k[1] = t /\ k[2] \in evaluated
                                    THEN Blinded(states[k]) ELSE states[k]]
        /\ cycle' = [cycle EXCEPT !["blind"] = @ + Cardinality(evaluated)]
        /\ lastQuiet' = [k \in Key |-> IF k[1] = t /\ k[2] \in Watched[t]
                                       THEN tickNow ELSE lastQuiet[k]]
        /\ UNCHANGED <<clock, phase, tickNow, todo, due, inBreach,
                       disk, unlocked, proposals, documented, resolved, forgotten>>

\* Every due incident of the target has been disposed of.
TargetDone(t) ==
    /\ phase = "evaluate"
    /\ Least(t, left)
    /\ todo = {}
    /\ due = {}
    /\ phase' = "probe"
    /\ left' = left \ {t}
    /\ inBreach' = {}
    /\ UNCHANGED <<clock, tickNow, todo, due, cycle, states, disk, unlocked, history>>

\* Every target has been visited: OnCycle gets the summary, Tick returns it.
Report ==
    /\ phase = "probe"
    /\ left = {}
    /\ phase' = "save"
    /\ cycle' = NoCycle
    /\ UNCHANGED <<clock, tickNow, left, todo, due, inBreach,
                   states, disk, unlocked, history>>

-----------------------------------------------------------------------------
(* One evaluation                                                          *)

Evaluating(t, s, answer) ==
    /\ phase = "evaluate"
    /\ Least(t, left)
    /\ Least(s, todo)
    /\ answer \in Answers

\* The scenario's entry becomes e, and Tick files it as due or in a bucket.
Advance(t, s, e, isDue, counted) ==
    /\ states' = [states EXCEPT ![<<t, s>>] = e]
    /\ todo' = todo \ {s}
    /\ due' = IF isDue THEN due \cup {s} ELSE due
    /\ inBreach' = IF e.state # "inactive" THEN inBreach \cup {s} ELSE inBreach
    /\ cycle' = IF isDue THEN counted ELSE Tally(counted, e)
    /\ UNCHANGED <<clock, phase, tickNow, left, disk, unlocked, proposals, forgotten>>

\* The value is over the threshold.
SignalBreach(t, s) ==
    LET k == <<t, s>>
        e == Breached(states[k], tickNow)
    IN  /\ \/ Evaluating(t, s, "breach")
           \/ Evaluating(t, s, "empty") /\ s \in AbsenceIsSignal
        /\ Advance(t, s, e, Held(e, s, tickNow), Count(cycle, "inBreach"))
        /\ resolved' = resolved \ {k}
        /\ UNCHANGED <<documented, lastQuiet>>

\* The value is under the threshold: a firing entry is announced as resolved
\* (the handler's error is only logged) and the episode is over.
SignalClear(t, s) ==
    LET k == <<t, s>>
    IN  /\ \/ Evaluating(t, s, "clear")
           \/ Evaluating(t, s, "empty") /\ s \in AbsenceIsSignal
        /\ Advance(t, s, Cleared(states[k]), FALSE, cycle)
        /\ resolved' = IF states[k].state = "firing" THEN resolved \cup {k} ELSE resolved
        /\ documented' = documented \ {k}
        /\ lastQuiet' = [lastQuiet EXCEPT ![k] = tickNow]

\* No series on a visible target: clear, and no resolution is announced.
SignalEmpty(t, s) ==
    LET k == <<t, s>>
    IN  /\ Evaluating(t, s, "empty")
        /\ s \notin AbsenceIsSignal
        /\ Advance(t, s, Cleared(states[k]), FALSE, cycle)
        /\ documented' = documented \ {k}
        /\ lastQuiet' = [lastQuiet EXCEPT ![k] = tickNow]
        /\ UNCHANGED resolved

\* The query failed: blind, and the entry survives untouched.
SignalError(t, s) ==
    /\ Evaluating(t, s, "error")
    /\ Advance(t, s, states[<<t, s>>], FALSE, Count(cycle, "blind"))
    /\ UNCHANGED <<documented, resolved, lastQuiet>>

-----------------------------------------------------------------------------
(* Delivery                                                                *)

Delivering(t, s) ==
    /\ phase = "evaluate"
    /\ Least(t, left)
    /\ todo = {}
    /\ Least(s, due)

\* The incident is a cascade symptom: it stays pending.
Suppress(t, s) ==
    /\ Delivering(t, s)
    /\ s \in SuppressedBy(inBreach)
    /\ due' = due \ {s}
    /\ cycle' = Count(cycle, "suppressed")
    /\ UNCHANGED <<clock, phase, tickNow, left, todo, inBreach,
                   states, disk, unlocked, history>>

\* Fault: the limit is compared after the proposal instead of before it.
SpentLate(s, applies, now) ==
    MaxApplies[s] > 0 /\ Cardinality(Live(applies, now)) > MaxApplies[s]

\* Fault: a scenario without a limit is taken to have a limit of nothing.
SpentUnlimited(s, applies, now) == Cardinality(Live(applies, now)) >= MaxApplies[s]

\* The guardrail: maxAppliesPerHour proposals are inside the last hour.
Spent(s, applies, now) ==
    MaxApplies[s] > 0 /\ Cardinality(Live(applies, now)) >= MaxApplies[s]

\* Only an entry with a limit has its window pruned.
Pruned(s, applies, now) == IF MaxApplies[s] > 0 THEN Live(applies, now) ELSE applies

\* deliver is called for a due incident nothing suppresses; the entry
\* becomes e and the incident is filed in the bucket.
Disposed(t, s, e, bucket) ==
    /\ Delivering(t, s)
    /\ s \notin SuppressedBy(inBreach)
    /\ states' = [states EXCEPT ![<<t, s>>] = e]
    /\ due' = due \ {s}
    /\ cycle' = Count(cycle, bucket)
    /\ UNCHANGED <<phase, tickNow, left, todo, inBreach,
                   disk, unlocked, resolved, lastQuiet, forgotten>>

\* The limit is spent: nothing is proposed, and the entry is firing.
RateLimit(t, s) ==
    LET e == states[<<t, s>>]
    IN  /\ Spent(s, e.applies, clock)
        /\ Disposed(t, s, [e EXCEPT !.state = "firing", !.applies = Live(@, clock)],
                    "rateLimited")
        /\ UNCHANGED <<clock, proposals, documented>>

\* The handler takes the incident; the apply is stamped when it returns.
Deliver(t, s) ==
    LET k == <<t, s>>
        e == states[k]
    IN  /\ "ok" \in HandlerAnswers
        /\ ~Spent(s, e.applies, clock)
        /\ clock' \in clock..(clock + MaxHandling)
        /\ clock' <= MaxClock
        /\ Disposed(t, s,
                    [e EXCEPT !.state = "firing",
                              !.applies = Pruned(s, @, clock) \cup {clock'}],
                    "reported")
        /\ proposals' = [proposals EXCEPT ![k] = @ \cup {clock'}]
        /\ documented' = documented \cup {k}

\* The handler fails: the episode stays pending and is due again next tick.
Retry(t, s) ==
    LET e == states[<<t, s>>]
    IN  /\ "error" \in HandlerAnswers
        /\ ~Spent(s, e.applies, clock)
        /\ clock' \in clock..(clock + MaxHandling)
        /\ clock' <= MaxClock
        /\ Disposed(t, s, [e EXCEPT !.applies = Pruned(s, @, clock)], "retrying")
        /\ UNCHANGED <<proposals, documented>>

-----------------------------------------------------------------------------

Init ==
    /\ clock = 0
    /\ phase = "down"
    /\ tickNow = 0
    /\ left = {}
    /\ todo = {}
    /\ due = {}
    /\ inBreach = {}
    /\ states = [k \in Key |-> Fresh]
    /\ disk = [k \in Key |-> Fresh]
    /\ unlocked = {}
    /\ cycle = NoCycle
    /\ proposals = [k \in Key |-> {}]
    /\ documented = {}
    /\ resolved = {}
    /\ lastQuiet = [k \in Key |-> 0]
    /\ forgotten = [k \in Key |-> {}]

Process == Wake \/ Save \/ Crash \/ Restart \/ Report

Visit(t) == ProbeSees(t) \/ ProbeBlind(t) \/ TargetDone(t)

Evaluate(t, s) ==
    SignalBreach(t, s) \/ SignalClear(t, s) \/ SignalEmpty(t, s) \/ SignalError(t, s)

Dispose(t, s) == Suppress(t, s) \/ RateLimit(t, s) \/ Deliver(t, s) \/ Retry(t, s)

Next ==
    \/ Process
    \/ \E t \in Target : Visit(t)
    \/ \E t \in Target, s \in Scenario : Evaluate(t, s) \/ Dispose(t, s)

Spec == Init /\ [][Next]_vars

-----------------------------------------------------------------------------
(* Properties                                                              *)

Time == 0..MaxClock

WellFormed(e) ==
    /\ IsFiniteSet(e.applies)
    /\ e.state = "inactive" => e.since = 0

EntriesOK(sts) == sts \in [Key -> Entry] /\ \A k \in Key : WellFormed(sts[k])

\* Types, and the shape of an inactive entry that lets SaveState drop it:
\* since is the zero time whenever no episode is running (state.go:165-170).
TypeOK ==
    /\ clock \in Time
    /\ phase \in Phases
    /\ tickNow \in Time /\ tickNow <= clock
    /\ left \in SUBSET Target
    /\ todo \in SUBSET Scenario
    /\ due \in SUBSET Scenario
    /\ inBreach \in SUBSET Scenario
    /\ EntriesOK(states)
    /\ EntriesOK(disk)
    /\ unlocked \in SUBSET Scenario
    /\ cycle \in [Counter -> Nat]
    /\ proposals \in [Key -> SUBSET Time]
    /\ documented \in SUBSET Key
    /\ resolved \in SUBSET Key
    /\ lastQuiet \in [Key -> Time]
    /\ forgotten \in [Key -> SUBSET Time]

\* A deployment whose restarts lose nothing: the state file is configured and
\* works, and the process stops only between a save and the next tick.
CleanRestarts ==
    /\ StateFile = TRUE
    /\ SaveFails = FALSE
    /\ LoadFails = FALSE
    /\ CrashPoints \subseteq {"sleep"}

\* Whenever the process may stop, the file holds what the memory holds.
SavedAtRest == phase = "sleep" => disk = states

\* maxAppliesPerHour is a sliding window and not a counter: in no interval of
\* length Hour, wherever it starts, does the handler take more than
\* MaxApplies incidents of one scenario for one target (detector.go:741-759),
\* including when the process is stopped and started in between (183).
Window(k, at) == {p \in proposals[k] : p > at - Hour /\ p <= at}

RateLimited ==
    \A k \in Key : MaxApplies[k[2]] > 0 =>
        \A at \in proposals[k] : Cardinality(Window(k, at)) <= MaxApplies[k[2]]

\* One episode, one proposal: the handler never takes a second incident of a
\* key unless the signal was seen out of breach since the first, restarts
\* included (state.go:152-158: a restart must not open a duplicate).
Proposed(k) == proposals'[k] # proposals[k]

OneProposalPerEpisode ==
    [][\A k \in Key : Proposed(k) => k \notin documented]_vars

\* The for-duration is continuous: an incident goes out only if for longer
\* than the scenario's hold no tick saw the signal clear or empty, and none
\* found the target unobserved (detector.go:354-368, 514-546, 577-596).
HoldHonoured ==
    [][\A k \in Key : Proposed(k) => tickNow - lastQuiet[k] > Hold[k[2]]]_vars

\* An episode the operator was told about is never forgotten: until the
\* signal is seen out of breach, memory or state file hold it as firing, so a
\* later recovery is announced and no second proposal goes out.
DocumentedIsFiring == \A k \in documented : Memory[k].state = "firing"

\* A resolution closes a document: for an entry without a limit, no recovery
\* is announced for an episode that never produced an incident
\* (detector.go:144-147, 560-566).
ResolutionClosesDocument ==
    [][\A k \in resolved' \ resolved : MaxApplies[k[2]] = 0 => k \in documented]_vars

\* No breach escapes the summary: when Tick returns, the five buckets account
\* for at least every signal in breach, and for nothing but those and the
\* open episodes whose query failed (state.go:65-94, detector.go:373-387).
BucketSum(c) == c["reported"] + c["suppressed"] + c["waiting"]
                 + c["rateLimited"] + c["retrying"]

CycleComplete == phase = "probe" /\ left = {}

BucketsCoverBreaches ==
    CycleComplete => /\ cycle["inBreach"] <= BucketSum(cycle)
                     /\ BucketSum(cycle) <= cycle["inBreach"] + cycle["blind"]

\* An incident whose hold has elapsed and that is still to be delivered.
Overdue(e, s) == e.state = "pending" /\ tickNow - e.since >= Hold[s]

\* A tick leaves no incident overdue: if it saw every signal, nothing was
\* suppressed and no handler call failed, then no entry this process runs is
\* still pending with its hold elapsed, whatever the process was restored from.
NothingOverdue ==
    (CycleComplete /\ cycle["blind"] + cycle["suppressed"] + cycle["retrying"] = 0)
        => \A t \in Target : \A s \in Watched[t] \ unlocked :
               ~Overdue(states[<<t, s>>], s)

\* The scenarios of the target with an open episode.
InEpisode(t) == {s \in Watched[t] \ unlocked : states[<<t, s>>].state # "inactive"}

\* Only a cause silences a symptom: when a tick that saw every signal, and whose
\* handler never failed, leaves an incident overdue, the same target has a scenario
\* in an open episode that suppresses it.  What was quiet in this tick, is not
\* locked or breaches on another target silences nothing (detector.go:314-316,
\* 393-420).
SilenceIsExplained ==
    (CycleComplete /\ cycle["blind"] + cycle["retrying"] = 0)
        => \A t \in Target : \A s \in Watched[t] \ unlocked :
               Overdue(states[<<t, s>>], s) => \E r \in InEpisode(t) : s \in Suppresses[r]

\* detector.go:754: an incident held back by the guardrail waits only until
\* the window clears: a firing entry that was never proposed has its window
\* still full when the tick that saw it breach ends.
ThrottleLifts ==
    CycleComplete => \A k \in Key \ documented :
        states[k].state = "firing" => Spent(k[2], states[k].applies, clock)

\* The guardrail survives any stop up to what the stop lost: whatever is
\* killed, not saved or not loaded, a window holds more than MaxApplies
\* proposals only by the ones the restarted process was not told about.
ExcessIsForgotten ==
    \A k \in Key : MaxApplies[k[2]] > 0 =>
        \A at \in proposals[k] :
            Cardinality(Window(k, at) \ forgotten[k]) <= MaxApplies[k[2]]

\* The detector implements the ledger: an episode is open while the entry in
\* memory, or in the state file of a stopped process, is firing.
Ledger == INSTANCE ProposalLedger WITH
    Keys <- Key,
    Limit <- [k \in Key |-> MaxApplies[k[2]]],
    Span <- Hour,
    now <- clock,
    open <- {k \in Key : Memory[k].state = "firing"},
    ledger <- proposals

ImplementsLedger == Ledger!LedgerSpec

\* The applies in memory are what the guardrail counts, so of the proposals
\* of the last hour only those that a stop lost may be missing there.
WindowRemembered ==
    \A k \in Key : \A p \in proposals[k] \ forgotten[k] :
        p > clock - Hour => p \in Memory[k].applies

ProposalsPast == \A k \in Key : \A p \in proposals[k] : p <= clock

\* The strengthening of ExcessIsForgotten that every step preserves: the
\* limit holds because the guardrail counts every proposal it remembers.
RateInv == WindowRemembered /\ ProposalsPast /\ ExcessIsForgotten

\* Clean restarts forget nothing, so then the limit itself holds.
NothingForgotten == SavedAtRest /\ \A k \in Key : forgotten[k] = {}

\* What is due is pending and has been evaluated; nothing is due between
\* two targets.
DueIsPending ==
    /\ phase # "evaluate" => due = {} /\ todo = {}
    /\ todo \cap due = {}
    /\ \A t \in Target : Least(t, left) =>
           \A s \in due : states[<<t, s>>].state = "pending"

\* The strengthening of OneProposalPerEpisode.
EpisodeInv == SavedAtRest /\ DocumentedIsFiring /\ DueIsPending

\* A catalog whose every scenario is locked whenever a process starts.
AlwaysLocked == UnlockedChoices \subseteq {{}}

\* What this tick has still to ask about was last seen quiet before it.
AskedOnce ==
    \A t \in left : \A s \in Scenario :
        (phase = "probe" \/ (phase = "evaluate" /\ (s \in todo \/ ~Least(t, left))))
            => lastQuiet[<<t, s>>] < tickNow

\* The strengthening of HoldHonoured: a pending episode began after the last
\* tick that saw its signal quiet.
HoldInv ==
    /\ unlocked = {}
    /\ \A k \in Key : lastQuiet[k] <= tickNow
    /\ AskedOnce
    /\ \A k \in Key : Memory[k].state = "pending" => Memory[k].since > lastQuiet[k]
    /\ \A t \in Target : Least(t, left) =>
           \A s \in due : Held(states[<<t, s>>], s, tickNow)

\* The guardrail counts nothing that was not proposed.
AppliesProposed == \A k \in Key : Memory[k].applies \subseteq proposals[k]

\* The strengthening behind the refinement.
LedgerInv == RateInv /\ NothingForgotten /\ EpisodeInv /\ AppliesProposed

=============================================================================
