---------------------------- MODULE QuietCluster ----------------------------
(***************************************************************************)
(* The two ways of asking whether an entry stays quiet on a healthy        *)
(* cluster: Runner.Silence (pkg/proof/silence.go), which runs the real      *)
(* detector, and Runner.Sample and Report (pkg/calibrate/calibrate.go),     *)
(* which grade the samples.  Both watch one entry on one target through the *)
(* same rounds, so that what they report can be compared: the entry here is *)
(* the one of the silence run's detector, driven by the operators of        *)
(* Episode.                                                                 *)
(*                                                                          *)
(* Before a silence run, as before the proofs, the doctor's checks of       *)
(* meshmedic-prove ask every entry once whether it is already in breach;    *)
(* that pass over this entry is the action Preflight, and one that fails    *)
(* ends the run before it begins.                                           *)
(*                                                                          *)
(* A round is what the cluster answers at one instant: whether the coverage *)
(* probe sees the target, and what the signal's query returns.  Calibrate   *)
(* asks no coverage probe.  The signal is chosen once, from Signals.        *)
(*                                                                          *)
(* Left out: the learned baseline; the guardrail, which cannot hold back an *)
(* entry's first report; what only words a note (peaks, counts of empty     *)
(* results and of errors); and the guard that ends a silence run without a  *)
(* report when the machine slept.                                           *)
(***************************************************************************)
EXTENDS Episode

CONSTANTS
    Signals,       \* the signals an entry may have: see Signal
    Values,        \* what a query may return
    Poll,          \* time between two rounds
    Warmup,        \* how long a silence run warms up
    Window,        \* how long both watch
    MinSamples,    \* calibrate: resolved samples needed for a grade
    MarginFactor,  \* calibrate: headroom below which a quiet entry is marginal
    MaxLag         \* bound: what a round takes beyond the poll

Signal == [comparison : {">", ">=", "<", "<="}, threshold : Int, hold : Nat,
           absence : BOOLEAN, applicable : BOOLEAN]

ASSUME QuietAssumption ==
    /\ Signals \subseteq Signal
    /\ Values \subseteq Int
    /\ {Poll, MinSamples} \subseteq Nat \ {0}
    /\ {Warmup, Window, MaxLag} \subseteq Nat
    /\ MarginFactor \in Nat \ {0, 1}

Answer == [kind : {"value"}, value : Values] \cup [kind : {"empty", "error"}, value : {0}]
Round == [seen : BOOLEAN, answer : Answer]

Phases == {"preflight", "warmup", "window", "done"}

VARIABLES
    signal,    \* the entry's signal
    phase,     \* where the loops are
    now,       \* the clock
    deadline,  \* when the current loop ends
    entry,     \* the detector's entry
    rep,       \* the silence report and its run of breaches
    obs,       \* the calibration's observation and its open breach
    doubtful,  \* history: the doctor admitted what the detector calls a breach or blind
    hushed,    \* history: a due incident was suppressed
    paged,     \* history: an episode that began in the window was reported
    answered,  \* history: a round of the window saw the target and was answered
    breaches   \* history: a round of the window measured a breach

vars == <<signal, phase, now, deadline, entry, rep, obs, doubtful, hushed, paged, answered, breaches>>

NoReport == [reported |-> FALSE, samples |-> 0, skipped |-> 0, run |-> 0, longest |-> 0]
NoObservation == [samples |-> 0, values |-> {}, open |-> FALSE, start |-> 0, longest |-> 0]

Larger(m, n) == IF m > n THEN m ELSE n

\* breached: the value is past the threshold.
Past(v) ==
    CASE signal.comparison = ">"  -> v > signal.threshold
      [] signal.comparison = ">=" -> v >= signal.threshold
      [] signal.comparison = "<"  -> v < signal.threshold
      [] signal.comparison = "<=" -> v <= signal.threshold

-----------------------------------------------------------------------------
(* The detector of a silence run                                           *)

\* A reading the threshold is compared with: a value, or a measured zero.
Reads(r) == r.answer.kind = "value" \/ (r.answer.kind = "empty" /\ signal.absence)

\* What evaluateSignal reports of the round.
Outcome(r) ==
    CASE ~r.seen                                  -> "blind"
      [] r.seen /\ ~signal.applicable              -> "notApplicable"
      [] r.seen /\ signal.applicable /\ Reads(r)   ->
            IF Past(r.answer.value) THEN "firing" ELSE "clear"
      [] r.seen /\ signal.applicable /\ ~Reads(r)  ->
            IF r.answer.kind = "empty" THEN "clear" ELSE "blind"

\* What it makes of the entry.
Looked(r) ==
    CASE Outcome(r) = "firing"             -> Breached(entry, now)
      [] Outcome(r) = "clear"              -> Cleared(entry)
      [] Outcome(r) = "blind" /\ ~r.seen   -> Blinded(entry)
      [] OTHER                             -> entry

Due(r) == Outcome(r) = "firing" /\ HeldFor(Looked(r), signal.hold, now)

-----------------------------------------------------------------------------
(* What a silence run keeps of a round                                     *)

\* Fault: a quiet round does not end the run of breaches.
WatchedWithoutReset(rp, outcome) ==
    CASE outcome = "firing" ->
            [rp EXCEPT !.samples = @ + 1, !.run = @ + Poll,
                       !.longest = Larger(@, rp.run + Poll)]
      [] outcome = "clear"         -> [rp EXCEPT !.samples = @ + 1]
      [] outcome = "blind"         -> [rp EXCEPT !.run = 0]
      [] outcome = "notApplicable" -> [rp EXCEPT !.skipped = @ + 1]

\* Fault: the longest run is taken when it ends.
WatchedLate(rp, outcome) ==
    CASE outcome = "firing" -> [rp EXCEPT !.samples = @ + 1, !.run = @ + Poll]
      [] outcome = "clear"  ->
            [rp EXCEPT !.samples = @ + 1, !.run = 0, !.longest = Larger(@, rp.run)]
      [] outcome = "blind"  -> [rp EXCEPT !.run = 0, !.longest = Larger(@, rp.run)]
      [] outcome = "notApplicable" -> [rp EXCEPT !.skipped = @ + 1]

\* A breach lengthens the run; a quiet or blind round ends it.
Watched(rp, outcome) ==
    CASE outcome = "firing" ->
            [rp EXCEPT !.samples = @ + 1, !.run = @ + Poll,
                       !.longest = Larger(@, rp.run + Poll)]
      [] outcome = "clear"         -> [rp EXCEPT !.samples = @ + 1, !.run = 0]
      [] outcome = "blind"         -> [rp EXCEPT !.run = 0]
      [] outcome = "notApplicable" -> [rp EXCEPT !.skipped = @ + 1]

\* SilenceReport.Verdict.
Verdict(rp) ==
    CASE rp.reported -> "fired"
      [] ~rp.reported /\ rp.samples = 0 -> IF rp.skipped > 0 THEN "n/a" ELSE "unwatched"
      [] ~rp.reported /\ rp.samples > 0 -> IF rp.longest > 0 THEN "brushed" ELSE "silent"

-----------------------------------------------------------------------------
(* What calibrate keeps of a round                                         *)

\* endBreach: the open breach, if any, lasted until now.
EndBreach(o) ==
    IF o.open THEN [o EXCEPT !.open = FALSE, !.start = 0, !.longest = Larger(@, now - o.start)]
    ELSE o

Resolved(o, v) == [o EXCEPT !.samples = @ + 1, !.values = @ \cup {v}]

\* A breach begins with its first sample and lasts until the present one.
InBreach(o) ==
    LET start == IF o.open THEN o.start ELSE now
    IN  [o EXCEPT !.open = TRUE, !.start = start, !.longest = Larger(@, now - start)]

\* Fault: a failing query ends a breach.
SampledErrorEnds(o, a) ==
    CASE ~signal.applicable -> o
      [] signal.applicable /\ a.kind \in {"empty", "error"} -> EndBreach(o)
      [] signal.applicable /\ a.kind = "value" ->
            IF Past(a.value) THEN InBreach(Resolved(o, a.value))
            ELSE EndBreach(Resolved(o, a.value))

\* sampleOne: an empty result ends a breach, an error leaves everything alone.
Sampled(o, a) ==
    CASE ~signal.applicable -> o
      [] signal.applicable /\ a.kind = "error" -> o
      [] signal.applicable /\ a.kind = "empty" -> EndBreach(o)
      [] signal.applicable /\ a.kind = "value" ->
            IF Past(a.value) THEN InBreach(Resolved(o, a.value))
            ELSE EndBreach(Resolved(o, a.value))

Upward == signal.comparison \in {">", ">="}

\* headroom is under the margin: the threshold is less than MarginFactor times
\* the highest value, or the lowest less than that many thresholds.  A
\* threshold of zero or less leaves a ">" no headroom and a "<" all of it.
Near(o) ==
    IF Upward
    THEN signal.threshold <= 0 \/ \E v \in o.values : signal.threshold < MarginFactor * v
    ELSE signal.threshold > 0 /\ \E v \in o.values : v < MarginFactor * signal.threshold

\* judge.
Grade(o) ==
    CASE ~signal.applicable -> "not-applicable"
      [] signal.applicable /\ o.samples < MinSamples -> "unmeasured"
      [] signal.applicable /\ o.samples >= MinSamples ->
            IF o.longest > 0
            THEN IF o.longest >= signal.hold THEN "miscalibrated" ELSE "marginal"
            ELSE IF Near(o) THEN "marginal" ELSE "calibrated"

-----------------------------------------------------------------------------
(* The loops                                                               *)

\* Fault: a query that failed says nothing against the entry.
AdmitsUnread(a) ==
    \/ ~signal.applicable
    \/ a.kind \in {"empty", "error"}
    \/ a.kind = "value" /\ ~Past(a.value)

\* The reading stands in nobody's way: the entry does not apply to the target,
\* there is no series, or the value is on the healthy side of the threshold.
Admits(a) ==
    \/ ~signal.applicable
    \/ a.kind = "empty"
    \/ a.kind = "value" /\ ~Past(a.value)

\* The doctor asks the entry once.  Its other checks look at other things and
\* may fail; then nothing is run, and the command ends.  The clock of the run
\* starts when they are through.
Preflight(a) ==
    /\ phase = "preflight"
    /\ \/ Admits(a) /\ phase' = "warmup"
       \/ phase' = "done"
    /\ doubtful' = (phase' = "warmup"
                     /\ Outcome([seen |-> TRUE, answer |-> a]) \in {"firing", "blind"})
    /\ UNCHANGED <<signal, now, deadline, entry, rep, obs, hushed, paged, answered, breaches>>

\* A tick of the detector; in the window, both take what the round gave them.
\* An incident that is due is reported unless another entry suppresses it.
Tick(r, suppressed) ==
    LET delivered == Due(r) /\ ~suppressed
        inWindow == phase = "window"
    IN  /\ phase \in {"warmup", "window"}
        /\ now < deadline
        /\ suppressed => Due(r)
        /\ entry' = IF delivered THEN [Looked(r) EXCEPT !.state = "firing"] ELSE Looked(r)
        /\ LET watched == IF inWindow THEN Watched(rep, Outcome(r)) ELSE rep
           IN  rep' = [watched EXCEPT !.reported = @ \/ delivered]
        /\ obs' = IF inWindow THEN Sampled(obs, r.answer) ELSE obs
        /\ hushed' = (hushed \/ suppressed)
        /\ paged' = (paged \/ (inWindow /\ delivered /\ Looked(r).since >= deadline - Window))
        /\ answered' = (answered \/ (inWindow /\ r.seen /\ r.answer.kind # "error"))
        /\ breaches' = (breaches \/ (inWindow /\ Outcome(r) = "firing"))
        /\ \E lag \in 0..MaxLag : now' = now + Poll + lag
        /\ UNCHANGED <<signal, phase, deadline, doubtful>>

\* The warm-up is over: the window opens.
OpenWindow ==
    /\ phase = "warmup"
    /\ now >= deadline
    /\ phase' = "window"
    /\ deadline' = now + Window
    /\ UNCHANGED <<signal, now, entry, rep, obs, doubtful, hushed, paged, answered, breaches>>

\* The window is over, or the run interrupted: what was measured is reported.
Close ==
    /\ phase \in {"warmup", "window"}
    /\ phase' = "done"
    /\ UNCHANGED <<signal, now, deadline, entry, rep, obs, doubtful, hushed, paged, answered, breaches>>

Init ==
    /\ signal \in Signals
    /\ phase = "preflight"
    /\ now = 1
    /\ deadline = 1 + Warmup
    /\ entry = Fresh
    /\ rep = NoReport
    /\ obs = NoObservation
    /\ doubtful = FALSE
    /\ hushed = FALSE
    /\ paged = FALSE
    /\ answered = FALSE
    /\ breaches = FALSE

Next ==
    \/ \E a \in Answer : Preflight(a)
    \/ \E r \in Round, suppressed \in BOOLEAN : Tick(r, suppressed)
    \/ OpenWindow
    \/ Close

Spec == Init /\ [][Next]_vars

-----------------------------------------------------------------------------
(* Properties                                                              *)

\* The state is well typed, and no run of breaches is longer than the longest.
TypeOK ==
    /\ signal \in Signals
    /\ phase \in Phases
    /\ now \in Nat /\ deadline \in Nat
    /\ entry \in Entry
    /\ rep \in [reported : BOOLEAN, samples : Nat, skipped : Nat, run : Nat, longest : Nat]
    /\ rep.run <= rep.longest
    /\ obs \in [samples : Nat, values : SUBSET Values, open : BOOLEAN, start : Nat, longest : Nat]
    /\ {doubtful, hushed, paged, answered, breaches} \subseteq BOOLEAN

Ended(verdict) == phase = "done" /\ Verdict(rep) = verdict

\* What a silence run reports of the entry is true of its window.  Silent
\* means that the signal never crossed its threshold, by the very detector
\* that would have paged (silence.go:40-41); silent and brushed, that some
\* round saw the target and was answered (49-51); and the margin a brushed
\* entry is reported with is a real one: an entry that was neither reported
\* nor suppressed was never in breach for its hold and a poll, so it does not
\* flatter a detector that should have paged (80-83).
ReportIsTrue ==
    /\ Ended("silent") => ~breaches
    /\ Ended("silent") \/ Ended("brushed") => answered
    /\ rep.reported \/ hushed \/ rep.longest = 0 \/ rep.longest < signal.hold + Poll

\* Calibrate contradicts neither the detector nor its own samples.  On the
\* rounds on which the detector reports an episode that began in the window,
\* it finds the entry miscalibrated, if it has a hold and enough samples
\* (calibrate.go:58-61), whatever was blind, empty or failing in between; and
\* an entry that was past a positive threshold once, however briefly, is
\* never graded calibrated (52-57).
GradesAgree ==
    /\ paged /\ signal.hold > 0 /\ ~signal.absence /\ obs.samples >= MinSamples
           => Grade(obs) = "miscalibrated"
    /\ signal.threshold > 0 /\ (\E v \in obs.values : Past(v)) => Grade(obs) # "calibrated"

\* The doctor and the detector read alike: a run begins only on a reading that
\* the detector itself would call clear, neither a breach nor blindness
\* (main.go:440-443, 464-484), for an entry whose signal is not absence.
AdmittedIsQuiet == doubtful => signal.absence

=============================================================================
