---------------------------- MODULE ProofRunner ----------------------------
(***************************************************************************)
(* The fault-injection proofs: the suite loop of meshmedic-prove (main.go), *)
(* Runner.Run with waitForFire and waitForResolve (pkg/proof/run.go), and   *)
(* WaitForObserver and Retryable (driver.go).                               *)
(*                                                                          *)
(* One proof asks whether anyone is watching, injects its fault, ticks a    *)
(* detector of its own until the entry fires, takes the fault away, ticks   *)
(* until the incident closes, and resets in any case.  The environment      *)
(* decides what each tick sees, whether the observer answers the liveness   *)
(* check that follows, whether a command fails and with or without effect,  *)
(* when the machine sleeps and when the suite is interrupted.               *)
(*                                                                          *)
(* The detector's entry is the subject's, driven by the operators of        *)
(* Episode; the rest of the catalog appears as a neighbour that may fire    *)
(* and as a suppression of the subject.  now is the monotonic clock, which  *)
(* stands still while the machine sleeps.  A warm-up is LearnedNormal's     *)
(* business, and how a signal decays after a fault is physics.              *)
(***************************************************************************)
EXTENDS Episode

CONSTANTS
    NumSpecs,        \* proofs of the suite, in order
    Hold,            \* per proof, the for-duration of its entry
    FiresWithin,     \* per proof, the budget of waitForFire
    ResolvesWithin,  \* per proof, the budget of waitForResolve; 0 skips it
    Poll,            \* time between two ticks
    Grace,           \* how long neighbours are watched after the subject fired
    Retries,         \* --retry-blind
    ObserverBudget,  \* polls that WaitForObserver waits
    MaxLag           \* bound: what a tick takes beyond the poll

Spec == 1..NumSpecs

ASSUME RunnerAssumption ==
    /\ NumSpecs \in Nat
    /\ {Hold, FiresWithin, ResolvesWithin} \subseteq [Spec -> Nat]
    /\ Poll \in Nat \ {0}
    /\ {Grace, Retries, ObserverBudget, MaxLag} \subseteq Nat

\* CheckWinnable: the suite refuses to start with a deadline inside a hold.
Slack(i) == FiresWithin[i] - Hold[i]
Unwinnable(i) == Slack(i) <= 0
ASSUME WinnableAssumption == \A i \in Spec : ~Unwinnable(i)

Failures == {"inject", "notFired", "names", "neighbour", "resetHalf", "notResolved",
             "resetFailed"}
Result == [fired : BOOLEAN, resolved : BOOLEAN, blind : BOOLEAN,
           failures : SUBSET Failures, passed : BOOLEAN]
NoResult == [fired |-> FALSE, resolved |-> FALSE, blind |-> FALSE,
             failures |-> {}, passed |-> FALSE]

Phases == {"next", "observe", "preflight", "inject", "watch", "judge", "grace",
           "reset", "resolve", "cleanup", "verdict", "done"}

\* What a tick sees of the subject: its signal, nothing at all because the
\* coverage probe failed, or a failing query on a visible target.
Sights == {"breach", "suppressed", "clear", "empty", "error", "blind"}

VARIABLES
    spec,        \* the proof being run
    phase,       \* where the suite and Run are
    attempt,     \* re-runs of this proof so far
    waited,      \* polls WaitForObserver has waited
    cancelled,   \* the suite was interrupted
    faults,      \* the cluster: the proofs whose fault is in it
    now,         \* the monotonic clock, from the start of the run
    deadline,    \* when the current loop gives up
    entry,       \* the subject's entry in the proof's detector
    gap,         \* the wall clock jumped since the last tick
    slept,       \* the machine slept during the run
    misses,      \* liveness checks missed in a row
    flickered,   \* some liveness check of the run was missed
    res,         \* the result Run is building
    results,     \* the results of the suite
    blemished,   \* history: a tick of the window did not see the subject breach
    unanswered,  \* history: a liveness check of the window was missed
    watched,     \* history: a tick of the resolution window saw the target
    findings     \* history: the proofs that failed in a run that was not blind

loopVars == <<now, deadline, entry, gap, misses, flickered>>
history == <<blemished, unanswered, watched, findings>>
vars == <<spec, phase, attempt, waited, cancelled, faults, loopVars, slept,
          res, results, history>>

-----------------------------------------------------------------------------
(* The detector of a proof                                                 *)

\* What a tick makes of the subject's entry, before anything is delivered.
Looked(sight) ==
    CASE sight \in {"breach", "suppressed"} -> Breached(entry, now)
      [] sight \in {"clear", "empty"}       -> Cleared(entry)
      [] sight = "blind"                    -> Blinded(entry)
      [] sight = "error"                    -> entry

\* The subject's incident is due, and nothing suppresses it.
Due(sight) == sight = "breach" /\ HeldFor(Looked(sight), Hold[spec], now)

Delivered(e) == [e EXCEPT !.state = "firing"]

\* A tick: what is due is delivered.
Ticked(sight) ==
    entry' = IF Due(sight) THEN Delivered(Looked(sight)) ELSE Looked(sight)

\* An interrupted tick cannot ask anything.
CanSee(sight) == cancelled => sight = "blind"

\* Time passes until the next tick.
Slept == \E lag \in 0..MaxLag : now' = now + Poll + lag

\* In the two loops that compare wall clocks, a tick that took long enough
\* passes for a machine that slept.
LoopSlept ==
    \E lag \in 0..MaxLag :
        /\ now' = now + Poll + lag
        /\ gap' \in BOOLEAN
        /\ gap' => lag > 0

-----------------------------------------------------------------------------
(* Ending a run                                                            *)

\* Run returns with one more failure, and the deferred reset follows.
FailWith(failure) ==
    /\ res' = [res EXCEPT !.failures = @ \cup {failure}]
    /\ phase' = "cleanup"

\* Run returns blind.
GoBlind ==
    /\ res' = [res EXCEPT !.blind = TRUE]
    /\ phase' = "cleanup"

\* Run reaches its end.
Complete(r) ==
    /\ res' = [r EXCEPT !.passed = (r.failures = {})]
    /\ phase' = "cleanup"

\* A command ran: it removed the fault, or it failed with or without effect.
ResetRuns == faults' = faults \ {spec}
ResetErrs == faults' \in {faults, faults \ {spec}}

\* Fault: only the loops look at the wall clock.
JudgedByLoops(r) == r

\* The whole-run check of the wall clock voids the result.
Judged(r) == IF slept THEN [r EXCEPT !.blind = TRUE, !.passed = FALSE] ELSE r

\* Fault: nothing is reset unless the injection went through.
CleanupIfInjected ==
    /\ phase = "cleanup"
    /\ phase' = "verdict"
    /\ \/ /\ \/ ResetRuns
             \/ "inject" \in res.failures /\ UNCHANGED faults
          /\ res' = Judged(res)
       \/ /\ ResetErrs
          /\ res' = Judged([res EXCEPT !.failures = @ \cup {"resetFailed"}, !.passed = FALSE])
    /\ UNCHANGED <<spec, attempt, waited, cancelled, loopVars, slept, results, history>>

\* The deferred reset, which does not heed the interruption.
Cleanup ==
    /\ phase = "cleanup"
    /\ phase' = "verdict"
    /\ \/ ResetRuns /\ res' = Judged(res)
       \/ /\ ResetErrs
          /\ res' = Judged([res EXCEPT !.failures = @ \cup {"resetFailed"}, !.passed = FALSE])
    /\ UNCHANGED <<spec, attempt, waited, cancelled, loopVars, slept, results, history>>

-----------------------------------------------------------------------------
(* The suite                                                               *)

\* The next proof begins with the question whether anyone is watching.
Begin ==
    /\ phase = "next"
    /\ IF spec < NumSpecs
       THEN /\ spec' = spec + 1
            /\ phase' = "observe"
            /\ attempt' = 0
            /\ waited' = 0
       ELSE phase' = "done" /\ UNCHANGED <<spec, attempt, waited>>
    /\ res' = NoResult
    /\ UNCHANGED <<cancelled, faults, loopVars, slept, results, history>>

\* The locals of a run, before and after it.
NoRun ==
    /\ now' = 0 /\ deadline' = 0
    /\ entry' = Fresh
    /\ gap' = FALSE /\ slept' = FALSE
    /\ misses' = 0 /\ flickered' = FALSE
    /\ blemished' = FALSE /\ unanswered' = FALSE /\ watched' = FALSE

\* WaitForObserver gets an answer, and Run begins.
ObserverAnswers ==
    /\ phase = "observe"
    /\ ~cancelled
    /\ phase' = "preflight"
    /\ res' = NoResult
    /\ NoRun
    /\ UNCHANGED <<spec, attempt, waited, cancelled, faults, results, findings>>

\* Fault: the wait has no budget.
ObserverSilentForever ==
    /\ phase = "observe"
    /\ ~cancelled
    /\ waited' = IF waited < ObserverBudget THEN waited + 1 ELSE 0
    /\ UNCHANGED <<spec, phase, attempt, cancelled, faults, loopVars, slept,
                   res, results, history>>

\* Fault: the budget is exceeded by a poll.
ObserverSilentOnceMore ==
    /\ phase = "observe"
    /\ ~cancelled
    /\ waited <= ObserverBudget
    /\ waited' = waited + 1
    /\ UNCHANGED <<spec, phase, attempt, cancelled, faults, loopVars, slept,
                   res, results, history>>

\* It gets none and asks again a poll later.
ObserverSilent ==
    /\ phase = "observe"
    /\ ~cancelled
    /\ waited < ObserverBudget
    /\ waited' = waited + 1
    /\ UNCHANGED <<spec, phase, attempt, cancelled, faults, loopVars, slept,
                   res, results, history>>

\* The suite takes a result and goes on, unless it was interrupted.
Record(r) ==
    /\ results' = [results EXCEPT ![spec] = r]
    /\ phase' = IF cancelled THEN "done" ELSE "next"

\* The budget is spent, or the suite interrupted: a proof that has not run is
\* skipped, which is a blind result; the suite goes on even if interrupted.
\* A re-run is given up, and the blind result of the last run stands.
ObserverGone ==
    /\ phase = "observe"
    /\ cancelled \/ waited = ObserverBudget
    /\ IF attempt = 0
       THEN /\ res' = [NoResult EXCEPT !.blind = TRUE]
            /\ results' = [results EXCEPT ![spec] = res']
            /\ phase' = "next"
       ELSE Record(res) /\ UNCHANGED res
    /\ UNCHANGED <<spec, attempt, waited, cancelled, faults, loopVars, slept, history>>

\* Fault: whatever did not pass is run again.
RetryableIfFailed(r) == ~r.passed

Retryable(r) == r.blind

\* Run has returned: re-run it, or take its result.
Verdict ==
    /\ phase = "verdict"
    /\ IF Retryable(res) /\ attempt < Retries /\ ~cancelled
       THEN /\ attempt' = attempt + 1
            /\ waited' = 0
            /\ phase' = "observe"
            /\ UNCHANGED results
       ELSE Record(res) /\ UNCHANGED <<attempt, waited>>
    /\ findings' = IF res.failures # {} /\ ~res.blind THEN findings \cup {spec} ELSE findings
    /\ NoRun
    /\ UNCHANGED <<spec, cancelled, faults, res>>

\* SIGINT or SIGTERM cancels the context of the suite.
Interrupt ==
    /\ phase # "done"
    /\ ~cancelled
    /\ cancelled' = TRUE
    /\ UNCHANGED <<spec, phase, attempt, waited, faults, loopVars, slept,
                   res, results, history>>

\* The machine sleeps for longer than a slow tick would take.
Sleep ==
    /\ phase \in {"preflight", "inject", "watch", "judge", "grace", "reset", "resolve",
                  "cleanup"}
    /\ ~slept
    /\ slept' = TRUE
    /\ gap' = TRUE
    /\ UNCHANGED <<spec, phase, attempt, waited, cancelled, faults, now, deadline, entry,
                   misses, flickered, res, results, history>>

-----------------------------------------------------------------------------
(* The firing half                                                         *)

\* A loop of ticks with its own budget and its own idea of the last tick.
StartLoop(budget) ==
    /\ deadline' = now + budget
    /\ gap' = FALSE

\* Nothing is injected while the target cannot be seen.
Preflight ==
    /\ phase = "preflight"
    /\ \/ ~cancelled /\ phase' = "inject" /\ UNCHANGED res
       \/ GoBlind
    /\ UNCHANGED <<spec, attempt, waited, cancelled, faults, loopVars, slept,
                   results, history>>

InjectRuns ==
    /\ phase = "inject"
    /\ ~cancelled
    /\ faults' = faults \cup {spec}
    /\ phase' = "watch"
    /\ entry' = Fresh
    /\ StartLoop(FiresWithin[spec])
    /\ UNCHANGED <<spec, attempt, waited, cancelled, now, misses, flickered, slept,
                   res, results, history>>

InjectErrs ==
    /\ phase = "inject"
    /\ faults' \in {faults, faults \cup {spec}}
    /\ FailWith("inject")
    /\ UNCHANGED <<spec, attempt, waited, cancelled, loopVars, slept, results, history>>

Watching(sight) ==
    /\ phase = "watch"
    /\ now < deadline
    /\ ~gap
    /\ CanSee(sight)
    /\ Ticked(sight)
    /\ blemished' = (blemished \/ sight # "breach")
    /\ UNCHANGED <<spec, attempt, waited, cancelled, faults, slept, results,
                   watched, findings>>

\* The subject fires.
WatchFires ==
    /\ Watching("breach")
    /\ Due("breach")
    /\ phase' = "grace"
    /\ deadline' = now + Grace
    /\ res' = [res EXCEPT !.fired = TRUE]
    /\ UNCHANGED <<now, gap, misses, flickered, unanswered>>

\* It does not, and the observer answers the liveness check.
WatchOn(sight) ==
    /\ Watching(sight)
    /\ ~Due(sight)
    /\ ~cancelled
    /\ misses' = 0
    /\ LoopSlept
    /\ UNCHANGED <<phase, deadline, flickered, res, unanswered>>

\* It does not, and the liveness check fails: the third in a row ends the loop.
WatchUnanswered(sight) ==
    /\ Watching(sight)
    /\ ~Due(sight)
    /\ ~cancelled
    /\ misses' = misses + 1
    /\ flickered' = TRUE
    /\ unanswered' = TRUE
    /\ IF misses' = 3
       THEN phase' = "judge" /\ UNCHANGED <<now, gap>>
       ELSE LoopSlept /\ UNCHANGED phase
    /\ UNCHANGED <<deadline, res>>

\* The suite was interrupted: the loop ends after its tick.
WatchInterrupted ==
    /\ Watching("blind")
    /\ cancelled
    /\ phase' = "judge"
    /\ UNCHANGED <<now, deadline, gap, misses, flickered, res, unanswered>>

\* The wall clock jumped between two ticks: the machine slept, or a tick was
\* slower than the threshold.
WatchSuspended ==
    /\ phase = "watch"
    /\ now < deadline
    /\ gap
    /\ GoBlind
    /\ UNCHANGED <<spec, attempt, waited, cancelled, faults, loopVars, slept,
                   results, history>>

WatchExpires ==
    /\ phase = "watch"
    /\ now >= deadline
    /\ phase' = "judge"
    /\ UNCHANGED <<spec, attempt, waited, cancelled, faults, loopVars, slept,
                   res, results, history>>

\* Fault: only three misses in a row make a run blind.
JudgeByStreak ==
    /\ phase = "judge"
    /\ \/ misses = 3 /\ GoBlind
       \/ misses < 3 /\ (GoBlind \/ (~cancelled /\ FailWith("notFired")))
    /\ UNCHANGED <<spec, attempt, waited, cancelled, faults, loopVars, slept,
                   results, history>>

\* The subject did not fire: one missed liveness check, or a target that
\* cannot be seen now, makes that a blind run; else the entry is blamed.
Judge ==
    /\ phase = "judge"
    /\ \/ flickered /\ GoBlind
       \/ ~flickered /\ (GoBlind \/ (~cancelled /\ FailWith("notFired")))
    /\ UNCHANGED <<spec, attempt, waited, cancelled, faults, loopVars, slept,
                   results, history>>

\* The subject fired: neighbours are watched for a while.
GraceTick(sight) ==
    /\ phase = "grace"
    /\ now < deadline
    /\ ~cancelled
    /\ Ticked(sight)
    /\ Slept
    /\ UNCHANGED <<spec, phase, attempt, waited, cancelled, faults, deadline, gap, misses,
                   flickered, slept, res, results, history>>

\* The report is read for the names it owes and the neighbours it counts.
GraceEnds ==
    /\ phase = "grace"
    /\ now >= deadline \/ cancelled
    /\ \E wrong \in SUBSET {"names", "neighbour"} :
           LET r == [res EXCEPT !.failures = @ \cup wrong]
           IN  IF ResolvesWithin[spec] > 0
               THEN res' = r /\ phase' = "reset"
               ELSE Complete(r)
    /\ UNCHANGED <<spec, attempt, waited, cancelled, faults, loopVars, slept,
                   results, history>>

-----------------------------------------------------------------------------
(* The resolving half                                                      *)

ResetHalfRuns ==
    /\ phase = "reset"
    /\ ~cancelled
    /\ ResetRuns
    /\ phase' = "resolve"
    /\ StartLoop(ResolvesWithin[spec])
    /\ UNCHANGED <<spec, attempt, waited, cancelled, now, entry, misses, flickered, slept,
                   res, results, history>>

ResetHalfErrs ==
    /\ phase = "reset"
    /\ ResetErrs
    /\ FailWith("resetHalf")
    /\ UNCHANGED <<spec, attempt, waited, cancelled, loopVars, slept, results, history>>

\* A tick of the same detector: the firing entry clears, and that is the
\* resolution the proof waits for, or the loop goes on.
ResolveTick(sight) ==
    /\ phase = "resolve"
    /\ now < deadline
    /\ ~cancelled
    /\ ~gap
    /\ Ticked(sight)
    /\ watched' = (watched \/ sight # "blind")
    /\ IF entry.state = "firing" /\ sight = "clear"
       THEN Complete([res EXCEPT !.resolved = TRUE]) /\ UNCHANGED <<now, gap>>
       ELSE LoopSlept /\ UNCHANGED <<phase, res>>
    /\ UNCHANGED <<spec, attempt, waited, cancelled, faults, deadline, misses,
                   flickered, slept, results, blemished, unanswered, findings>>

ResolveSuspended ==
    /\ phase = "resolve"
    /\ now < deadline
    /\ ~cancelled
    /\ gap
    /\ GoBlind
    /\ UNCHANGED <<spec, attempt, waited, cancelled, faults, loopVars, slept,
                   results, history>>

ResolveExpires ==
    /\ phase = "resolve"
    /\ now >= deadline \/ cancelled
    /\ FailWith("notResolved")
    /\ UNCHANGED <<spec, attempt, waited, cancelled, faults, loopVars, slept,
                   results, history>>

-----------------------------------------------------------------------------

Init ==
    /\ spec = 0
    /\ phase = "next"
    /\ attempt = 0
    /\ waited = 0
    /\ cancelled = FALSE
    /\ faults = {}
    /\ now = 0
    /\ deadline = 0
    /\ entry = Fresh
    /\ gap = FALSE
    /\ slept = FALSE
    /\ misses = 0
    /\ flickered = FALSE
    /\ res = NoResult
    /\ results = [i \in Spec |-> NoResult]
    /\ blemished = FALSE
    /\ unanswered = FALSE
    /\ watched = FALSE
    /\ findings = {}

\* summarize: the command fails if a recorded proof failed or was blind.  When
\* the loop ends, it has recorded every proof up to spec.
ExitCode == IF \A i \in 1..spec : results[i].passed /\ ~results[i].blind THEN 0 ELSE 1

Suite ==
    Begin \/ ObserverAnswers \/ ObserverSilent \/ ObserverGone \/ Cleanup \/ Verdict

FiringHalf ==
    \/ Preflight \/ InjectRuns \/ InjectErrs \/ WatchFires \/ WatchInterrupted
    \/ WatchSuspended \/ WatchExpires \/ Judge \/ GraceEnds
    \/ \E sight \in Sights : WatchOn(sight) \/ WatchUnanswered(sight) \/ GraceTick(sight)

ResolvingHalf ==
    \/ ResetHalfRuns \/ ResetHalfErrs \/ ResolveSuspended \/ ResolveExpires
    \/ \E sight \in Sights : ResolveTick(sight)

Runner == Suite \/ FiringHalf \/ ResolvingHalf

Next == Runner \/ Interrupt \/ Sleep

SuiteSpec == Init /\ [][Next]_vars

\* A command of the injection or of the mid-run reset runs under the context of
\* the suite: it has no deadline, and only an interruption ends one that hangs.
Hangs == phase \in {"inject", "reset"} /\ ~cancelled

\* The harness is one process that keeps running, but where it may hang: its
\* sleeps end, its queries have timeouts, and so has the deferred reset.
FairSuite == SuiteSpec /\ WF_vars(~Hangs /\ Runner)

-----------------------------------------------------------------------------
(* Properties                                                              *)

TypeOK ==
    /\ spec \in 0..NumSpecs
    /\ phase \in Phases
    /\ attempt \in 0..Retries
    /\ waited \in 0..ObserverBudget
    /\ faults \in SUBSET Spec
    /\ now \in Nat /\ deadline \in Nat
    /\ entry \in Entry
    /\ misses \in 0..3
    /\ {cancelled, gap, slept, flickered, blemished, unanswered, watched} \subseteq BOOLEAN
    /\ res \in Result
    /\ results \in [Spec -> Result]
    /\ findings \in SUBSET Spec

\* The report that stands for a proof: the one being built, or the recorded.
Report(i) == IF i = spec /\ phase # "next" /\ phase # "done" THEN res ELSE results[i]

\* No run leaves its fault behind, however it ends, except one that says RESET
\* FAILED (run.go:165-169): outside its run a fault is in the cluster only if
\* the report of its proof says so.
LeavesNoFault ==
    \A i \in faults :
        (i # spec \/ phase \in {"next", "observe", "verdict", "done"})
            => "resetFailed" \in Report(i).failures

\* A pass is earned on both halves and leaves a clean cluster: the entry
\* fired, the incident closed when the proof has a resolving half, nothing
\* failed, nothing was blind, and the fault is gone.  A run the machine slept
\* through earns none, wherever in the run it slept, also where no loop was
\* watching the clock (run.go:199-222): it is void.
PassIsEarned ==
    /\ \A i \in Spec : results[i].passed =>
           /\ results[i].fired
           /\ ResolvesWithin[i] > 0 => results[i].resolved
           /\ results[i].failures = {}
           /\ ~results[i].blind
           /\ i \in faults => i = spec /\ phase \notin {"next", "done"}
    /\ phase = "verdict" /\ slept => res.blind /\ ~res.passed

\* The entry is blamed for not firing only if every liveness check of the
\* window was answered, and some tick did not see the signal breach and
\* deliver: a signal in breach throughout the window has fired.  This is for
\* deadlines that leave a poll beyond the hold.
Blamed(failure) == phase \in {"cleanup", "verdict"} /\ failure \in res.failures

Roomy(i) == FiresWithin[i] >= Hold[i] + Poll + MaxLag

BlameIsFair ==
    Blamed("notFired") => ~unanswered /\ (Roomy(spec) => blemished)

\* Exit status 0 speaks for the suite: no proof that failed while the harness
\* could see was retried until it passed (driver.go:15-24), no fault is left in
\* the cluster, and unless the suite was interrupted every proof passed.
SuccessIsWhole ==
    /\ \A i \in findings : ~results[i].passed
    /\ phase = "done" /\ ExitCode = 0 =>
           /\ faults = {}
           /\ cancelled \/ \A i \in Spec : results[i].passed

\* The suite ends, whatever the observer does, and above all once it is
\* interrupted (main.go:191, run.go:181-190): all that can keep it from ending is
\* a command that hangs, for as long as nobody interrupts the suite.
SuiteEnds == <>[](phase = "done" \/ Hangs)

\* run.go:36-40: blindness is never blamed on the entry.  An incident is said
\* not to close only if some tick after the reset saw the target.
BlindIsNotBlamed == Blamed("notResolved") => watched

=============================================================================
