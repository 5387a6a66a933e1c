--------------------------- MODULE ProofRunnerProofs ---------------------------
(***************************************************************************)
(* Proofs about ProofRunner: its safety invariants, for every suite, every  *)
(* budget and every number of re-runs.                                      *)
(***************************************************************************)
EXTENDS ProofRunner, TLAPS

-----------------------------------------------------------------------------
(* The inductive invariant                                                   *)

\* A proof is under way from the question for an observer to its verdict.
UnderWay == phase \notin {"next", "done"}

\* Nothing of a run has happened yet.
Unstarted == phase \in {"next", "observe", "preflight", "inject", "done"}

\* Run has been called and has not begun to return.
Running == phase \in {"preflight", "inject", "watch", "judge", "grace", "reset", "resolve"}

TypeInv ==
    /\ TypeOK
    /\ UnderWay => spec \in Spec
    /\ Unstarted => misses = 0 /\ now = 0
    /\ phase = "watch" => misses < 3

\* A result of proof i that says passed has everything a pass needs.
Earned(r, i) ==
    r.passed => /\ r.fired
                /\ ResolvesWithin[i] > 0 => r.resolved
                /\ r.failures = {}
                /\ ~r.blind

\* Why a recorded result can be believed: the run that makes it has neither
\* passed nor gone blind before it returns, and no proof is ahead of the suite.
ResultInv ==
    /\ faults \subseteq 1..spec /\ findings \subseteq 1..spec
    /\ UnderWay => spec \notin findings
    /\ \A i \in findings : ~results[i].passed
    /\ \A i \in Spec : Earned(results[i], i)
    /\ UnderWay => Earned(res, spec)
    /\ Running => ~res.blind /\ ~res.passed
    /\ phase \in {"grace", "reset", "resolve"} => res.fired
    /\ phase = "observe" /\ attempt = 0 => res = NoResult
    /\ phase = "verdict" /\ slept => res.blind /\ ~res.passed
    /\ phase = "done" => cancelled \/ spec = NumSpecs
    /\ LeavesNoFault

\* A window in which every tick so far saw the signal breach: it has not begun,
\* or the entry has been pending since its first instant and its hold had not
\* elapsed a poll ago.
SteadyBreach ==
    \/ now = 0 /\ entry = Fresh
    \/ /\ entry.state = "pending" /\ entry.since = 0
       /\ now < Hold[spec] + Poll + MaxLag

\* Why blame is fair: a missed liveness check leaves its mark, and a window that
\* leaves room for a tick after the hold expires only with a mark of its own.
BlameInv ==
    /\ unanswered => flickered
    /\ Running => "notFired" \notin res.failures
    /\ phase = "watch" => deadline = FiresWithin[spec] /\ (blemished \/ SteadyBreach)
    /\ phase = "judge" => flickered \/ cancelled \/ blemished \/ ~Roomy(spec)
    /\ BlameIsFair

-----------------------------------------------------------------------------
(* Types                                                                     *)

\* The constants a step adds to its clocks.
LEMMA ConstantTypes ==
    /\ NumSpecs \in Nat /\ Spec \subseteq Nat
    /\ \A i \in Spec : Hold[i] \in Nat /\ FiresWithin[i] \in Nat /\ ResolvesWithin[i] \in Nat
    /\ Poll \in Nat /\ Grace \in Nat /\ Retries \in Nat /\ ObserverBudget \in Nat /\ MaxLag \in Nat
BY RunnerAssumption DEF Spec

LEMMA FreshType == Fresh \in Entry
BY DEF Entry, State, Fresh

LEMMA EntryTypes ==
    ASSUME NEW e \in Entry, NEW t \in Nat
    PROVE  /\ Cleared(e) \in Entry /\ Blinded(e) \in Entry /\ Breached(e, t) \in Entry
           /\ Delivered(e) \in Entry
BY DEF Entry, State, Cleared, Blinded, Breached, Delivered

\* A tick leaves the subject's entry an entry.
LEMMA TickedType ==
    ASSUME entry \in Entry, now \in Nat, NEW sight \in Sights, Ticked(sight)
    PROVE  entry' \in Entry
<1>1. Looked(sight) \in Entry
  BY EntryTypes DEF Looked, Sights
<1> QED
  BY <1>1, EntryTypes DEF Ticked

LEMMA SleptType ==
    ASSUME now \in Nat, Slept
    PROVE  now' \in Nat /\ now' >= now + Poll /\ now' <= now + Poll + MaxLag
BY ConstantTypes DEF Slept

LEMMA LoopSleptType ==
    ASSUME now \in Nat, LoopSlept
    PROVE  /\ now' \in Nat /\ now' >= now + Poll /\ now' <= now + Poll + MaxLag
           /\ gap' \in BOOLEAN
<1>1. PICK lag \in 0..MaxLag : now' = now + Poll + lag /\ gap' \in BOOLEAN
  BY DEF LoopSlept
<1> QED
  BY <1>1, ConstantTypes

\* The results a run builds are results.
LEMMA NoResultType == NoResult \in Result /\ [NoResult EXCEPT !.blind = TRUE] \in Result
BY DEF Result, NoResult, Failures

LEMMA ResultTypes ==
    /\ \A r \in Result : /\ [r EXCEPT !.blind = TRUE] \in Result
                         /\ [r EXCEPT !.fired = TRUE] \in Result
                         /\ [r EXCEPT !.resolved = TRUE] \in Result
                         /\ Judged(r) \in Result
                         /\ [r EXCEPT !.passed = (r.failures = {})] \in Result
    /\ \A r \in Result, f \in SUBSET Failures :
         /\ [r EXCEPT !.failures = @ \cup f] \in Result
         /\ [r EXCEPT !.failures = @ \cup f, !.passed = FALSE] \in Result
BY DEF Result, Failures, Judged

LEMMA TypeInit == Init => TypeInv
<1> SUFFICES ASSUME Init PROVE TypeInv
  OBVIOUS
<1>1. results \in [Spec -> Result] /\ res \in Result
  BY NoResultType DEF Init
<1>2. {cancelled, gap, slept, flickered, blemished, unanswered, watched} \subseteq BOOLEAN
  BY DEF Init
<1> QED
  BY <1>1, <1>2, ConstantTypes, FreshType
     DEF Init, TypeInv, TypeOK, UnderWay, Unstarted, Phases, Spec

LEMMA TypeStep == TypeInv /\ [Next]_vars => TypeInv'
<1> SUFFICES ASSUME TypeInv, [Next]_vars PROVE TypeInv'
  OBVIOUS
<1> USE ConstantTypes DEF TypeInv, TypeOK, UnderWay, Unstarted, Phases
<1>1. CASE Begin
  BY <1>1, NoResultType DEF Begin, loopVars, history, Spec
<1>2. CASE ObserverAnswers
  BY <1>2, NoResultType, FreshType DEF ObserverAnswers, NoRun
<1>3. CASE ObserverSilent
  BY <1>3 DEF ObserverSilent, loopVars, history
<1>4. CASE ObserverGone
  <2>1. /\ res' \in Result /\ results' \in [Spec -> Result]
        /\ phase' \in {"next", "done"} /\ misses = 0 /\ now = 0
    BY <1>4, NoResultType DEF ObserverGone, Record
  <2> QED
    BY <1>4, <2>1 DEF ObserverGone, loopVars, history
<1>5. CASE Cleanup
  BY <1>5, ResultTypes DEF Cleanup, ResetRuns, ResetErrs, loopVars, history, Failures
<1>6. CASE Verdict
  <2>1. NoRun /\ entry' \in Entry
    BY <1>6, FreshType DEF Verdict, NoRun
  <2>2. /\ results' \in [Spec -> Result] /\ findings' \in SUBSET Spec
        /\ attempt' \in 0..Retries /\ waited' \in 0..ObserverBudget
        /\ phase' \in {"observe", "next", "done"}
    BY <1>6 DEF Verdict, Record
  <2>3. {cancelled, gap, slept, flickered, blemished, unanswered, watched}' \subseteq BOOLEAN
    BY <1>6, <2>1 DEF Verdict, NoRun
  <2> QED
    BY <1>6, <2>1, <2>2, <2>3 DEF Verdict, NoRun
<1>7. CASE Preflight
  BY <1>7, ResultTypes DEF Preflight, GoBlind, loopVars, history
<1>8. CASE InjectRuns
  <2>1. spec \in Spec /\ faults' \in SUBSET Spec
    BY <1>8 DEF InjectRuns
  <2>2. deadline' \in Nat /\ gap' = FALSE /\ entry' \in Entry
    BY <1>8, <2>1, FreshType DEF InjectRuns, StartLoop
  <2>3. {cancelled, gap, slept, flickered, blemished, unanswered, watched}' \subseteq BOOLEAN
    BY <1>8, <2>2 DEF InjectRuns, history
  <2> QED
    BY <1>8, <2>1, <2>2, <2>3 DEF InjectRuns, history
<1>9. CASE InjectErrs
  BY <1>9, ResultTypes DEF InjectErrs, FailWith, loopVars, history, Failures
<1>10. CASE WatchFires
  <2>1. Watching("breach") /\ "breach" \in Sights
    BY <1>10 DEF WatchFires, Sights
  <2>2. entry' \in Entry
    BY <2>1, TickedType DEF Watching
  <2>3. deadline' = now + Grace /\ res' = [res EXCEPT !.fired = TRUE]
    BY <1>10 DEF WatchFires
  <2>4. deadline' \in Nat
    BY <2>3
  <2>5. res' \in Result
    BY <2>3, ResultTypes
  <2> QED
    BY <1>10, <2>1, <2>2, <2>4, <2>5 DEF WatchFires, Watching
<1>11. CASE WatchInterrupted
  BY <1>11, TickedType DEF WatchInterrupted, Watching, Sights
<1>12. CASE WatchSuspended
  BY <1>12, ResultTypes DEF WatchSuspended, GoBlind, loopVars, history
<1>13. CASE WatchExpires
  BY <1>13 DEF WatchExpires, loopVars, history
<1>14. CASE Judge
  <2>1. /\ phase' = "cleanup"
        /\ res' = [res EXCEPT !.blind = TRUE] \/ res' = [res EXCEPT !.failures = @ \cup {"notFired"}]
    BY <1>14 DEF Judge, GoBlind, FailWith
  <2>2. res' \in Result
    <3>1. {"notFired"} \in SUBSET Failures
      BY DEF Failures
    <3> QED
      BY <2>1, <3>1, ResultTypes
  <2> QED
    BY <1>14, <2>1, <2>2 DEF Judge, loopVars, history
<1>15. CASE GraceEnds
  <2>1. PICK wrong \in SUBSET {"names", "neighbour"} :
          LET r == [res EXCEPT !.failures = @ \cup wrong]
          IN  IF ResolvesWithin[spec] > 0
              THEN res' = r /\ phase' = "reset"
              ELSE Complete(r)
    BY <1>15 DEF GraceEnds
  <2> DEFINE r == [res EXCEPT !.failures = @ \cup wrong]
  <2>2. r \in Result
    BY ResultTypes DEF Failures
  <2>3. phase' \in {"reset", "cleanup"}
    BY <2>1 DEF Complete
  <2>4. res' = r \/ res' = [r EXCEPT !.passed = (r.failures = {})]
    BY <2>1 DEF Complete
  <2>5. res' \in Result
    <3> HIDE DEF r
    <3> QED
      BY <2>2, <2>4, ResultTypes
  <2> QED
    BY <1>15, <2>3, <2>5 DEF GraceEnds, loopVars, history
<1>16. CASE ResetHalfRuns
  <2>1. spec \in Spec /\ ResolvesWithin[spec] \in Nat
    BY <1>16 DEF ResetHalfRuns
  <2>2. deadline' \in Nat
    BY <1>16, <2>1 DEF ResetHalfRuns, StartLoop
  <2>3. faults' \in SUBSET Spec
    BY <1>16, <2>1 DEF ResetHalfRuns, ResetRuns
  <2>4. gap' = FALSE /\ phase' = "resolve"
    BY <1>16 DEF ResetHalfRuns, StartLoop
  <2> QED
    BY <1>16, <2>1, <2>2, <2>3, <2>4 DEF ResetHalfRuns, history
<1>17. CASE ResetHalfErrs
  BY <1>17, ResultTypes DEF ResetHalfErrs, ResetErrs, FailWith, loopVars, history, Failures
<1>18. CASE ResolveSuspended
  BY <1>18, ResultTypes DEF ResolveSuspended, GoBlind, loopVars, history
<1>19. CASE ResolveExpires
  BY <1>19, ResultTypes DEF ResolveExpires, FailWith, loopVars, history, Failures
<1>20. CASE Interrupt
  BY <1>20 DEF Interrupt, loopVars, history
<1>21. CASE Sleep
  BY <1>21 DEF Sleep, history
<1>22. ASSUME NEW sight \in Sights,
          WatchOn(sight) \/ WatchUnanswered(sight) \/ GraceTick(sight) \/ ResolveTick(sight)
     PROVE  TypeInv'
  <2>1. CASE WatchOn(sight)
    BY <2>1, TickedType, LoopSleptType DEF WatchOn, Watching
  <2>2. CASE WatchUnanswered(sight)
    BY <2>2, TickedType, LoopSleptType DEF WatchUnanswered, Watching
  <2>3. CASE GraceTick(sight)
    BY <2>3, TickedType, SleptType DEF GraceTick, history
  <2>4. CASE ResolveTick(sight)
    <3>1. res' \in Result /\ phase' \in {"resolve", "cleanup"}
      BY <2>4, ResultTypes DEF ResolveTick, Complete
    <3>2. now' \in Nat /\ gap' \in BOOLEAN /\ entry' \in Entry /\ watched' \in BOOLEAN
      BY <2>4, TickedType, LoopSleptType DEF ResolveTick
    <3> QED
      BY <2>4, <3>1, <3>2 DEF ResolveTick
  <2> QED
    BY <1>22, <2>1, <2>2, <2>3, <2>4
<1>23. CASE UNCHANGED vars
  BY <1>23 DEF vars, loopVars, history
<1> QED
  BY <1>1, <1>2, <1>3, <1>4, <1>5, <1>6, <1>7, <1>8, <1>9, <1>10, <1>11, <1>12, <1>13, <1>14, <1>15, <1>16, <1>17, <1>18, <1>19, <1>20, <1>21, <1>22, <1>23 DEF Next, Runner, Suite, FiringHalf, ResolvingHalf

-----------------------------------------------------------------------------
(* Results                                                                   *)

LEMMA ResultInit == Init => ResultInv
BY ConstantTypes
   DEF Init, ResultInv, UnderWay, Running, Earned, LeavesNoFault, Report, NoResult, Spec

\* A run that completes passes only if nothing failed in either half.
LEMMA CompleteEarns ==
    ASSUME NEW r \in Result, Complete(r), r.fired, ~r.blind, ResolvesWithin[spec] > 0 => r.resolved
    PROVE  phase' = "cleanup" /\ Earned(res', spec)
<1>1. /\ phase' = "cleanup"
      /\ res' = [r EXCEPT !.passed = (r.failures = {})]
  BY DEF Complete
<1>2. /\ res'.fired = r.fired /\ res'.resolved = r.resolved /\ res'.blind = r.blind
      /\ res'.failures = r.failures /\ res'.passed = (r.failures = {})
  BY <1>1 DEF Result
<1> QED
  BY <1>1, <1>2 DEF Earned

LEMMA ResultStep == TypeInv /\ ResultInv /\ [Next]_vars => ResultInv'
<1> SUFFICES ASSUME TypeInv, ResultInv, [Next]_vars PROVE ResultInv'
  OBVIOUS
<1>0. /\ spec \in Nat /\ NumSpecs \in Nat /\ spec <= NumSpecs
      /\ res \in Result /\ results \in [Spec -> Result] /\ phase \in Phases
      /\ UnderWay => spec \in Spec
      /\ cancelled \in BOOLEAN /\ slept \in BOOLEAN
      /\ attempt \in Nat
  BY ConstantTypes DEF TypeInv, TypeOK
<1> USE <1>0 DEF ResultInv, UnderWay, Running, LeavesNoFault, Report, Earned, Phases
<1>1. CASE Begin
  BY <1>1 DEF Begin, loopVars, history, Spec, NoResult
<1>2. CASE ObserverAnswers
  BY <1>2 DEF ObserverAnswers, NoRun, NoResult
<1>3. CASE ObserverSilent
  BY <1>3 DEF ObserverSilent, loopVars, history
<1>4. CASE ObserverGone
  <2>1. /\ phase = "observe" /\ phase' \in {"next", "done"} /\ (phase' = "done" => cancelled)
        /\ UNCHANGED <<spec, faults, cancelled, slept, findings>>
    BY <1>4 DEF ObserverGone, Record, history
  <2>2. \/ results' = [results EXCEPT ![spec] = res]
        \/ attempt = 0 /\ results' = [results EXCEPT ![spec] = [NoResult EXCEPT !.blind = TRUE]]
    BY <1>4 DEF ObserverGone, Record
  <2>3. CASE results' = [results EXCEPT ![spec] = res]
    <3>1. /\ results'[spec] = res
          /\ \A i \in Spec \ {spec} : results'[i] = results[i]
      BY <2>1, <2>3
    <3> QED
      BY <2>1, <3>1 DEF Spec
  <2>4. CASE /\ attempt = 0
             /\ results' = [results EXCEPT ![spec] = [NoResult EXCEPT !.blind = TRUE]]
    <3>1. /\ ~results'[spec].passed
          /\ \A i \in Spec \ {spec} : results'[i] = results[i]
      BY <2>1, <2>4 DEF NoResult
    <3>2. spec \notin faults
      BY <2>1, <2>4 DEF NoResult
    <3> QED
      BY <2>1, <3>1, <3>2 DEF Spec
  <2> QED
    BY <2>2, <2>3, <2>4
<1>5. CASE Cleanup
  <2>1. /\ phase = "cleanup" /\ phase' = "verdict"
        /\ UNCHANGED <<spec, slept, results, findings>>
        /\ faults' \subseteq faults
    BY <1>5 DEF Cleanup, ResetRuns, ResetErrs, history
  <2>2. /\ spec \notin faults' \/ "resetFailed" \in res'.failures
        /\ slept => res'.blind /\ ~res'.passed
        /\ Earned(res', spec)
    <3>1. CASE ResetRuns /\ res' = Judged(res)
      <4>1. /\ spec \notin faults'
            /\ res' = IF slept THEN [res EXCEPT !.blind = TRUE, !.passed = FALSE] ELSE res
        BY <3>1 DEF ResetRuns, Judged
      <4>2. CASE slept
        BY <4>1, <4>2 DEF Result
      <4>3. CASE ~slept
        BY <2>1, <4>1, <4>3
      <4> QED
        BY <4>2, <4>3
    <3>2. CASE res' = Judged([res EXCEPT !.failures = @ \cup {"resetFailed"}, !.passed = FALSE])
      BY <3>2 DEF Judged, Result
    <3> QED
      BY <1>5, <3>1, <3>2 DEF Cleanup
  <2> QED
    BY <2>1, <2>2
<1>6. CASE Verdict
  <2>1. phase = "verdict" /\ UNCHANGED <<spec, faults, cancelled, res>> /\ slept' = FALSE
    BY <1>6 DEF Verdict, NoRun
  <2>2. CASE phase' = "observe" /\ res.blind /\ attempt' = attempt + 1 /\ UNCHANGED results
    <3>1. findings' = findings /\ attempt' # 0
      BY <1>6, <2>2 DEF Verdict
    <3> QED
      BY <2>1, <2>2, <3>1
  <2>3. CASE /\ results' = [results EXCEPT ![spec] = res]
             /\ phase' = IF cancelled THEN "done" ELSE "next"
    <3>1. /\ results'[spec] = res
          /\ \A i \in Spec \ {spec} : results'[i] = results[i]
      BY <2>3, <2>1
    <3>2. /\ findings' \subseteq findings \cup {spec}
          /\ spec \in findings' => res.failures # {}
      BY <1>6, <2>1 DEF Verdict
    <3>3. \A i \in findings' : ~results'[i].passed
      BY <2>1, <3>1, <3>2 DEF Spec
    <3>4. findings' \subseteq 1..spec
      BY <2>1, <3>2 DEF Spec
    <3>5. LeavesNoFault'
      BY <2>1, <2>3, <3>1 DEF Spec
    <3> QED
      BY <2>1, <2>3, <3>1, <3>3, <3>4, <3>5
  <2> QED
    BY <1>6, <2>2, <2>3 DEF Verdict, Record, Retryable
<1>7. CASE Preflight
  BY <1>7 DEF Preflight, GoBlind, loopVars, history, Result
<1>8. CASE InjectRuns
  <2>1. /\ phase = "inject" /\ phase' = "watch" /\ UNCHANGED <<spec, res, results, findings>>
        /\ faults' = faults \cup {spec}
    BY <1>8 DEF InjectRuns, history
  <2>2. faults' \subseteq 1..spec
    BY <2>1 DEF Spec
  <2> QED
    BY <2>1, <2>2
<1>9. CASE InjectErrs
  <2>1. /\ phase = "inject" /\ phase' = "cleanup" /\ UNCHANGED <<spec, results, findings>>
        /\ faults' \subseteq faults \cup {spec}
        /\ res'.passed = res.passed
    BY <1>9 DEF InjectErrs, FailWith, history, Result
  <2>2. faults' \subseteq 1..spec
    BY <2>1 DEF Spec
  <2> QED
    BY <2>1, <2>2
<1>10. CASE WatchFires
  BY <1>10 DEF WatchFires, Watching, Result
<1>11. CASE WatchInterrupted
  BY <1>11 DEF WatchInterrupted, Watching
<1>12. CASE WatchSuspended
  BY <1>12 DEF WatchSuspended, GoBlind, loopVars, history, Result
<1>13. CASE WatchExpires
  BY <1>13 DEF WatchExpires, loopVars, history
<1>14. CASE Judge
  BY <1>14 DEF Judge, GoBlind, FailWith, loopVars, history, Result
<1>15. CASE GraceEnds
  <2>1. /\ phase = "grace" /\ res.fired /\ ~res.blind /\ ~res.passed /\ spec \in Spec
        /\ UNCHANGED <<spec, cancelled, faults, slept, results, findings>>
    BY <1>15 DEF GraceEnds, history
  <2>2. PICK wrong \in SUBSET {"names", "neighbour"} :
           IF ResolvesWithin[spec] > 0
           THEN res' = [res EXCEPT !.failures = @ \cup wrong] /\ phase' = "reset"
           ELSE Complete([res EXCEPT !.failures = @ \cup wrong])
    BY <1>15 DEF GraceEnds
  <2> DEFINE r == [res EXCEPT !.failures = @ \cup wrong]
  <2>3. r \in Result /\ r.fired /\ ~r.blind /\ ~r.passed
    BY <2>1 DEF Result, Failures
  <2> HIDE DEF r
  <2>4. CASE res' = r /\ phase' = "reset"
    BY <2>1, <2>3, <2>4
  <2>5. CASE ~(ResolvesWithin[spec] > 0) /\ Complete(r)
    <3>1. phase' = "cleanup" /\ Earned(res', spec)
      BY <2>3, <2>5, CompleteEarns
    <3> QED
      BY <2>1, <3>1
  <2> QED
    BY <2>2, <2>4, <2>5 DEF r
<1>16. CASE ResetHalfRuns
  <2>1. /\ phase = "reset" /\ phase' = "resolve" /\ UNCHANGED <<spec, res, results, findings>>
        /\ faults' = faults \ {spec}
    BY <1>16 DEF ResetHalfRuns, ResetRuns, history
  <2> QED
    BY <2>1
<1>17. CASE ResetHalfErrs
  BY <1>17 DEF ResetHalfErrs, ResetErrs, FailWith, loopVars, history, Result
<1>18. CASE ResolveSuspended
  BY <1>18 DEF ResolveSuspended, GoBlind, loopVars, history, Result
<1>19. CASE ResolveExpires
  BY <1>19 DEF ResolveExpires, FailWith, loopVars, history, Result
<1>20. CASE Interrupt
  BY <1>20 DEF Interrupt, loopVars, history
<1>21. CASE Sleep
  BY <1>21 DEF Sleep, history
<1>22. ASSUME NEW sight \in Sights,
          WatchOn(sight) \/ WatchUnanswered(sight) \/ GraceTick(sight) \/ ResolveTick(sight)
     PROVE  ResultInv'
  <2>1. CASE WatchOn(sight)
    BY <2>1 DEF WatchOn, Watching
  <2>2. CASE WatchUnanswered(sight)
    BY <2>2 DEF WatchUnanswered, Watching
  <2>3. CASE GraceTick(sight)
    BY <2>3 DEF GraceTick, history
  <2>4. CASE ResolveTick(sight)
    <3>1. /\ phase = "resolve" /\ res.fired /\ ~res.blind /\ ~res.passed /\ spec \in Spec
          /\ UNCHANGED <<spec, cancelled, faults, slept, results, findings>>
      BY <2>4 DEF ResolveTick
    <3> DEFINE r == [res EXCEPT !.resolved = TRUE]
    <3>2. r \in Result /\ r.fired /\ ~r.blind /\ r.resolved
      BY <3>1 DEF Result
    <3>3. Complete(r) \/ UNCHANGED <<phase, res>>
      BY <2>4 DEF ResolveTick
    <3> HIDE DEF r
    <3>4. CASE Complete(r)
      <4>1. phase' = "cleanup" /\ Earned(res', spec)
        BY <3>2, <3>4, CompleteEarns
      <4> QED
        BY <3>1, <4>1
    <3>5. CASE UNCHANGED <<phase, res>>
      BY <3>1, <3>5
    <3> QED
      BY <3>3, <3>4, <3>5
  <2> QED
    BY <1>22, <2>1, <2>2, <2>3, <2>4
<1>23. CASE UNCHANGED vars
  BY <1>23 DEF vars, loopVars, history
<1> QED
  BY <1>1, <1>2, <1>3, <1>4, <1>5, <1>6, <1>7, <1>8, <1>9, <1>10, <1>11, <1>12, <1>13, <1>14, <1>15, <1>16, <1>17, <1>18, <1>19, <1>20, <1>21, <1>22, <1>23 DEF Next, Runner, Suite, FiringHalf, ResolvingHalf

-----------------------------------------------------------------------------
(* Blame                                                                     *)

LEMMA BlameInit == Init => BlameInv
BY DEF Init, BlameInv, Running, BlameIsFair, Blamed, NoResult

\* A tick that sees a breach throughout the window and delivers nothing finds
\* the entry pending since the start, and its hold not over.
LEMMA SteadyTick ==
    ASSUME TypeInv, spec \in Spec, SteadyBreach, Ticked("breach"), ~Due("breach")
    PROVE  entry'.state = "pending" /\ entry'.since = 0 /\ now < Hold[spec]
<1>1. Looked("breach") = Breached(entry, now)
  BY DEF Looked
<1>2. Breached(entry, now).state = "pending" /\ Breached(entry, now).since = 0
  BY DEF SteadyBreach, Breached, Fresh, TypeInv, TypeOK, Entry
<1>3. entry' = Breached(entry, now)
  BY <1>1 DEF Ticked
<1>4. ~(now - 0 >= Hold[spec])
  BY <1>1, <1>2 DEF Due, HeldFor
<1> QED
  BY <1>2, <1>3, <1>4, ConstantTypes DEF TypeInv, TypeOK

LEMMA BlameStep == TypeInv /\ BlameInv /\ [Next]_vars => BlameInv'
<1> SUFFICES ASSUME TypeInv, BlameInv, [Next]_vars PROVE BlameInv'
  OBVIOUS
<1>0. /\ res \in Result /\ phase \in Phases
      /\ now \in Nat /\ deadline \in Nat
      /\ UnderWay => spec \in Spec
      /\ Unstarted => now = 0
  BY DEF TypeInv, TypeOK
<1> USE <1>0 DEF BlameInv, UnderWay, Unstarted, Running, BlameIsFair, Blamed, Phases
<1>1. CASE Begin
  BY <1>1 DEF Begin, loopVars, history, NoResult
<1>2. CASE ObserverAnswers
  BY <1>2 DEF ObserverAnswers, NoRun, NoResult
<1>3. CASE ObserverSilent
  BY <1>3 DEF ObserverSilent, loopVars, history
<1>4. CASE ObserverGone
  BY <1>4 DEF ObserverGone, Record, loopVars, history
<1>5. CASE Cleanup
  <2>1. /\ phase = "cleanup" /\ phase' = "verdict"
        /\ UNCHANGED <<spec, flickered, blemished, unanswered>>
    BY <1>5 DEF Cleanup, loopVars, history
  <2>2. \/ res' = Judged(res)
        \/ res' = Judged([res EXCEPT !.failures = @ \cup {"resetFailed"}, !.passed = FALSE])
    BY <1>5 DEF Cleanup
  <2>3. "notFired" \in res'.failures => "notFired" \in res.failures
    <3> DEFINE r == [res EXCEPT !.failures = @ \cup {"resetFailed"}, !.passed = FALSE]
    <3>1. \A x \in Result : Judged(x).failures = x.failures
      BY DEF Judged, Result
    <3>2. r \in Result
      BY ResultTypes DEF Failures
    <3>3. r.failures = res.failures \cup {"resetFailed"}
      BY DEF Result
    <3>4. res' = Judged(res) \/ res' = Judged(r)
      BY <2>2
    <3> HIDE DEF r
    <3> QED
      BY <3>1, <3>2, <3>3, <3>4
  <2> QED
    BY <2>1, <2>3 DEF Roomy
<1>6. CASE Verdict
  BY <1>6 DEF Verdict, Record, NoRun
<1>7. CASE Preflight
  BY <1>7 DEF Preflight, GoBlind, loopVars, history, Result
<1>8. CASE InjectRuns
  <2>1. /\ phase = "inject" /\ phase' = "watch" /\ now' = 0 /\ entry' = Fresh
        /\ deadline' = 0 + FiresWithin[spec]
        /\ UNCHANGED <<spec, res, flickered, unanswered>>
    BY <1>8 DEF InjectRuns, StartLoop, history
  <2>2. deadline' = FiresWithin[spec]
    <3>1. FiresWithin[spec] \in Nat
      BY <2>1, ConstantTypes
    <3> QED
      BY <2>1, <3>1
  <2> QED
    BY <2>1, <2>2 DEF SteadyBreach
<1>9. CASE InjectErrs
  BY <1>9 DEF InjectErrs, FailWith, loopVars, history, Result
<1>10. CASE WatchFires
  BY <1>10 DEF WatchFires, Watching, Result
<1>11. CASE WatchInterrupted
  BY <1>11 DEF WatchInterrupted, Watching
<1>12. CASE WatchSuspended
  BY <1>12 DEF WatchSuspended, GoBlind, loopVars, history, Result
<1>13. CASE WatchExpires
  <2>1. /\ phase = "watch" /\ phase' = "judge" /\ now >= FiresWithin[spec]
        /\ UNCHANGED <<spec, res, cancelled, flickered, blemished, unanswered>>
    BY <1>13 DEF WatchExpires, loopVars, history
  <2>2. spec \in Spec /\ FiresWithin[spec] \in Nat /\ Hold[spec] \in Nat
    BY <2>1, ConstantTypes
  <2>3. FiresWithin[spec] > 0
    BY <2>2, WinnableAssumption DEF Unwinnable, Slack
  <2>4. SteadyBreach => ~Roomy(spec)
    BY <2>1, <2>2, <2>3, ConstantTypes DEF SteadyBreach, Roomy
  <2>5. (~Roomy(spec))' <=> ~Roomy(spec)
    BY <2>1 DEF Roomy
  <2> QED
    BY <2>1, <2>4, <2>5
<1>14. CASE Judge
  BY <1>14 DEF Judge, GoBlind, FailWith, loopVars, history, Result
<1>15. CASE GraceEnds
  <2>1. PICK wrong \in SUBSET {"names", "neighbour"} :
          LET r == [res EXCEPT !.failures = @ \cup wrong]
          IN  IF ResolvesWithin[spec] > 0
              THEN res' = r /\ phase' = "reset"
              ELSE Complete(r)
    BY <1>15 DEF GraceEnds
  <2>2. /\ phase = "grace" /\ phase' \in {"reset", "cleanup"}
        /\ UNCHANGED <<spec, flickered, blemished, unanswered>>
    BY <1>15, <2>1 DEF GraceEnds, Complete, loopVars, history
  <2>3. res'.failures = res.failures \cup wrong
    BY <2>1 DEF Complete, Result
  <2> QED
    BY <2>2, <2>3
<1>16. CASE ResetHalfRuns
  BY <1>16 DEF ResetHalfRuns, StartLoop, history
<1>17. CASE ResetHalfErrs
  BY <1>17 DEF ResetHalfErrs, FailWith, loopVars, history, Result
<1>18. CASE ResolveSuspended
  BY <1>18 DEF ResolveSuspended, GoBlind, loopVars, history, Result
<1>19. CASE ResolveExpires
  BY <1>19 DEF ResolveExpires, FailWith, loopVars, history, Result
<1>20. CASE Interrupt
  BY <1>20 DEF Interrupt, loopVars, history, SteadyBreach, Roomy
<1>21. CASE Sleep
  BY <1>21 DEF Sleep, history, SteadyBreach, Roomy
<1>22. ASSUME NEW sight \in Sights,
          WatchOn(sight) \/ WatchUnanswered(sight) \/ GraceTick(sight) \/ ResolveTick(sight)
     PROVE  BlameInv'
  <2>1. ASSUME Watching(sight), ~Due(sight), LoopSlept, ~blemished'
        PROVE  SteadyBreach'
    <3>1. SteadyBreach /\ sight = "breach" /\ spec' = spec
      BY <2>1 DEF Watching
    <3>2. entry'.state = "pending" /\ entry'.since = 0 /\ now < Hold[spec]
      BY <2>1, <3>1, SteadyTick DEF Watching
    <3> QED
      BY <2>1, <3>1, <3>2, LoopSleptType, ConstantTypes DEF SteadyBreach, Watching
  <2>2. CASE WatchOn(sight)
    BY <2>1, <2>2 DEF WatchOn, Watching
  <2>3. CASE WatchUnanswered(sight)
    BY <2>1, <2>3 DEF WatchUnanswered, Watching
  <2>4. CASE GraceTick(sight)
    BY <2>4 DEF GraceTick, history
  <2>5. CASE ResolveTick(sight)
    BY <2>5 DEF ResolveTick, Complete, Result
  <2> QED
    BY <1>22, <2>2, <2>3, <2>4, <2>5
<1>23. CASE UNCHANGED vars
  BY <1>23 DEF vars, loopVars, history, SteadyBreach, Roomy
<1> QED
  BY <1>1, <1>2, <1>3, <1>4, <1>5, <1>6, <1>7, <1>8, <1>9, <1>10, <1>11, <1>12, <1>13, <1>14, <1>15, <1>16, <1>17, <1>18, <1>19, <1>20, <1>21, <1>22, <1>23 DEF Next, Runner, Suite, FiringHalf, ResolvingHalf

-----------------------------------------------------------------------------
(* Theorems                                                                  *)

\* Every reachable state is well typed: run.go and main.go never leave a proof
\* number, an attempt, a wait or a run of missed liveness checks out of range.
THEOREM TypeCorrect == SuiteSpec => []TypeOK
<1>1. TypeInv => TypeOK
  BY DEF TypeInv
<1> QED
  BY <1>1, TypeInit, TypeStep, PTL DEF SuiteSpec

LEMMA RunnerInvariant == SuiteSpec => [](TypeInv /\ ResultInv /\ BlameInv)
BY TypeInit, TypeStep, ResultInit, ResultStep, BlameInit, BlameStep, PTL DEF SuiteSpec

\* Whatever fails, is interrupted or goes blind, a fault outlives its run only
\* if the report of its proof says RESET FAILED (run.go:165-197).
THEOREM FaultIsTakenAway == SuiteSpec => []LeavesNoFault
<1>1. ResultInv => LeavesNoFault
  BY DEF ResultInv
<1> QED
  BY <1>1, RunnerInvariant, PTL

\* A recorded pass means both halves, no failure, no blindness, no sleep and a
\* clean cluster (run.go:199-222, 421-422).
THEOREM PassesAreEarned == SuiteSpec => []PassIsEarned
<1>1. TypeInv /\ ResultInv => PassIsEarned
  BY DEF TypeInv, TypeOK, ResultInv, PassIsEarned, Earned, LeavesNoFault, Report
<1> QED
  BY <1>1, RunnerInvariant, PTL

\* An entry is blamed for not firing only after a window of answered liveness
\* checks, some tick of which did not see the breach (run.go:321-349).
THEOREM BlamedFairly == SuiteSpec => []BlameIsFair
<1>1. BlameInv => BlameIsFair
  BY DEF BlameInv
<1> QED
  BY <1>1, RunnerInvariant, PTL

\* Exit status 0 speaks for the whole suite, and no finding was retried away
\* (driver.go:15-27, main.go:651-711).
THEOREM SuccessSpeaksForAll == SuiteSpec => []SuccessIsWhole
<1>1. ASSUME TypeInv, ResultInv PROVE SuccessIsWhole
  <2> SUFFICES ASSUME phase = "done", ExitCode = 0
               PROVE  faults = {} /\ (cancelled \/ \A i \in Spec : results[i].passed)
    BY <1>1 DEF SuccessIsWhole, ResultInv
  <2>1. \A i \in 1..spec : results[i].passed
    BY DEF ExitCode
  <2>2. faults \subseteq 1..spec /\ faults \subseteq Spec
    BY <1>1 DEF TypeInv, TypeOK, ResultInv
  <2>3. \A i \in faults : "resetFailed" \in results[i].failures
    BY <1>1 DEF ResultInv, LeavesNoFault, Report
  <2>4. \A i \in faults : results[i].failures = {}
    BY <1>1, <2>1, <2>2 DEF ResultInv, Earned
  <2>5. faults = {}
    BY <2>3, <2>4
  <2>6. cancelled \/ spec = NumSpecs
    BY <1>1 DEF ResultInv
  <2> QED
    BY <2>1, <2>5, <2>6 DEF Spec
<1> QED
  BY <1>1, RunnerInvariant, PTL

=============================================================================
