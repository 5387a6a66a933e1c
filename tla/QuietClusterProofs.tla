--------------------------- MODULE QuietClusterProofs ---------------------------
(***************************************************************************)
(* Proofs about QuietCluster: the verdicts of a silence run and the grades  *)
(* of a calibration, for every signal, set of values, window and poll.      *)
(***************************************************************************)
EXTENDS QuietCluster, TLAPS

-----------------------------------------------------------------------------
(* The inductive invariant                                                   *)

\* The clocks are ordered: what is open began before now.
TypeInv ==
    /\ TypeOK
    /\ obs.start <= now
    /\ entry.state = "pending" => entry.since < now

\* The run of breaches a silence run reports lies within the episode its
\* detector counts, and an open episode has been reported.
ReportInv ==
    /\ phase \in {"preflight", "warmup"} => rep.run = 0
    /\ breaches => rep.longest > 0
    /\ rep.samples > 0 => answered
    /\ entry.state = "firing" => rep.reported
    /\ ~rep.reported /\ rep.run > 0 => entry.state = "pending" /\ entry.since + rep.run <= now
    /\ rep.reported \/ hushed \/ rep.longest = 0 \/ rep.longest < signal.hold + Poll

\* The episode of the window that the detector holds pending lies within the
\* breach that calibrate has open.
GradeInv ==
    /\ phase = "window" /\ ~signal.absence /\ entry.state = "pending"
         /\ entry.since >= deadline - Window => obs.open /\ obs.start <= entry.since
    /\ paged => signal.applicable
    /\ paged /\ ~signal.absence => obs.longest >= signal.hold

-----------------------------------------------------------------------------
(* The operators                                                             *)

LEMMA ConstantTypes ==
    /\ Poll \in Nat /\ Poll > 0 /\ MinSamples \in Nat /\ MinSamples > 0
    /\ Warmup \in Nat /\ Window \in Nat /\ MaxLag \in Nat
    /\ MarginFactor \in Nat /\ MarginFactor >= 2
BY QuietAssumption

LEMMA SignalTypes ==
    ASSUME signal \in Signals
    PROVE  /\ signal.comparison \in {">", ">=", "<", "<="}
           /\ signal.threshold \in Int /\ signal.hold \in Nat
           /\ signal.absence \in BOOLEAN /\ signal.applicable \in BOOLEAN
BY QuietAssumption DEF Signal

LEMMA AnswerTypes ==
    ASSUME NEW a \in Answer
    PROVE  /\ a.kind \in {"value", "empty", "error"}
           /\ a.value \in Int
           /\ a.kind = "value" => a.value \in Values
<1>1. CASE a \in [kind : {"value"}, value : Values]
  BY <1>1, QuietAssumption
<1>2. CASE a \in [kind : {"empty", "error"}, value : {0}]
  BY <1>2
<1> QED
  BY <1>1, <1>2 DEF Answer

LEMMA RoundTypes ==
    ASSUME NEW r \in Round
    PROVE  /\ r.seen \in BOOLEAN /\ r.answer \in Answer
           /\ r.answer.kind \in {"value", "empty", "error"}
           /\ r.answer.value \in Int
           /\ r.answer.kind = "value" => r.answer.value \in Values
BY AnswerTypes DEF Round

\* What evaluateSignal reports, and on what grounds.
LEMMA OutcomeGrounds ==
    ASSUME signal \in Signals, NEW r \in Round
    PROVE  /\ Outcome(r) \in {"blind", "notApplicable", "firing", "clear"}
           /\ Outcome(r) = "firing" =>
                r.seen /\ signal.applicable /\ Reads(r) /\ Past(r.answer.value)
           /\ Outcome(r) = "clear" =>
                /\ r.seen /\ signal.applicable
                /\ r.answer.kind = "empty" \/ (r.answer.kind = "value" /\ ~Past(r.answer.value))
           /\ Outcome(r) = "notApplicable" => r.seen /\ ~signal.applicable
           /\ Outcome(r) = "blind" /\ r.seen => r.answer.kind = "error"
           /\ ~r.seen => Outcome(r) = "blind"
BY SignalTypes, RoundTypes DEF Outcome, Reads

LEMMA BreachedShape ==
    ASSUME NEW e \in Entry, NEW t \in Nat
    PROVE  /\ Breached(e, t) \in Entry
           /\ Breached(e, t).state = (IF e.state = "firing" THEN "firing" ELSE "pending")
           /\ Breached(e, t).since = (IF e.state = "inactive" THEN t ELSE e.since)
BY DEF Entry, State, Breached

LEMMA QuietShape ==
    ASSUME NEW e \in Entry
    PROVE  /\ Cleared(e) \in Entry /\ Cleared(e).state = "inactive"
           /\ Blinded(e) \in Entry /\ Blinded(e).state # "pending"
           /\ Blinded(e).state = "firing" => e.state = "firing"
BY DEF Entry, State, Cleared, Blinded

ReportType == [reported : BOOLEAN, samples : Nat, skipped : Nat, run : Nat, longest : Nat]
ObservationType ==
    [samples : Nat, values : SUBSET Values, open : BOOLEAN, start : Nat, longest : Nat]

\* What a silence run keeps of a round, field by field.
LEMMA WatchedFields ==
    ASSUME NEW rp \in ReportType, rp.run <= rp.longest,
           NEW outcome \in {"blind", "notApplicable", "firing", "clear"}
    PROVE  /\ Watched(rp, outcome) \in ReportType
           /\ Watched(rp, outcome).reported = rp.reported
           /\ Watched(rp, outcome).samples > 0
                => rp.samples > 0 \/ outcome \in {"firing", "clear"}
           /\ outcome = "firing" =>
                /\ Watched(rp, outcome).run = rp.run + Poll
                /\ Watched(rp, outcome).longest = Larger(rp.longest, rp.run + Poll)
           /\ outcome # "firing" => Watched(rp, outcome).longest = rp.longest
           /\ outcome \in {"clear", "blind"} => Watched(rp, outcome).run = 0
           /\ outcome = "notApplicable" => Watched(rp, outcome).run = rp.run
           /\ Watched(rp, outcome).run <= Watched(rp, outcome).longest
<1> USE ConstantTypes DEF ReportType, Watched, Larger
<1>1. CASE outcome = "firing"
  <2> DEFINE w == [rp EXCEPT !.samples = @ + 1, !.run = @ + Poll,
                             !.longest = Larger(@, rp.run + Poll)]
  <2>1. Watched(rp, outcome) = w
    BY <1>1
  <2>2. /\ w.reported = rp.reported /\ w.samples = rp.samples + 1 /\ w.skipped = rp.skipped
        /\ w.run = rp.run + Poll /\ w.longest = Larger(rp.longest, rp.run + Poll)
    OBVIOUS
  <2>3. /\ Larger(rp.longest, rp.run + Poll) \in Nat
        /\ rp.run + Poll <= Larger(rp.longest, rp.run + Poll)
    OBVIOUS
  <2>4. w \in ReportType
    <3> DEFINE longer == Larger(rp.longest, rp.run + Poll)
               run == rp.run + Poll
               samples == rp.samples + 1
    <3>1. samples \in Nat /\ run \in Nat /\ longer \in Nat
      BY <2>3
    <3>2. w = [rp EXCEPT !.samples = samples, !.run = run, !.longest = longer]
      OBVIOUS
    <3> HIDE DEF samples, run, longer
    <3> QED
      BY <3>1, <3>2
  <2> QED
    BY <1>1, <2>1, <2>2, <2>3, <2>4
<1>2. CASE outcome = "clear"
  <2> DEFINE w == [rp EXCEPT !.samples = @ + 1, !.run = 0]
  <2>1. Watched(rp, outcome) = w
    BY <1>2
  <2>2. /\ w.reported = rp.reported /\ w.samples = rp.samples + 1 /\ w.skipped = rp.skipped
        /\ w.run = 0 /\ w.longest = rp.longest
    OBVIOUS
  <2>3. w \in ReportType
    <3> DEFINE samples == rp.samples + 1
    <3>1. samples \in Nat
      OBVIOUS
    <3>2. w = [rp EXCEPT !.samples = samples, !.run = 0]
      OBVIOUS
    <3> HIDE DEF samples
    <3> QED
      BY <3>1, <3>2
  <2> HIDE DEF w
  <2> QED
    BY <1>2, <2>1, <2>2, <2>3
<1>3. CASE outcome = "blind"
  BY <1>3
<1>4. CASE outcome = "notApplicable"
  BY <1>4
<1> QED
  BY <1>1, <1>2, <1>3, <1>4

\* What calibrate keeps of a round: a breach lasts from its first sample.
LEMMA SampledFields ==
    ASSUME signal \in Signals, now \in Nat,
           NEW o \in ObservationType, o.start <= now, NEW a \in Answer
    PROVE  /\ Sampled(o, a) \in ObservationType
           /\ Sampled(o, a).start <= now
           /\ Sampled(o, a).longest >= o.longest
           /\ ~signal.applicable \/ a.kind = "error" => Sampled(o, a) = o
           /\ signal.applicable /\ a.kind = "value" /\ Past(a.value) =>
                /\ Sampled(o, a).open
                /\ Sampled(o, a).start = (IF o.open THEN o.start ELSE now)
                /\ Sampled(o, a).longest >= now - Sampled(o, a).start
<1> USE SignalTypes DEF ObservationType
<1>0. a.kind \in {"value", "empty", "error"} /\ (a.kind = "value" => a.value \in Values)
  BY AnswerTypes
<1>1. ASSUME NEW q \in ObservationType, q.start <= now
      PROVE  /\ EndBreach(q) \in ObservationType /\ EndBreach(q).start <= now
             /\ EndBreach(q).longest >= q.longest
  <2>1. CASE q.open
    <3> DEFINE n == Larger(q.longest, now - q.start)
    <3>1. n \in Nat /\ n >= q.longest
      BY <1>1 DEF Larger
    <3>2. EndBreach(q) = [q EXCEPT !.open = FALSE, !.start = 0, !.longest = n]
      BY <2>1 DEF EndBreach
    <3> DEFINE e == [q EXCEPT !.open = FALSE, !.start = 0, !.longest = n]
    <3> HIDE DEF n
    <3>3. e \in ObservationType /\ e.start = 0 /\ e.longest = n
      BY <3>1
    <3> HIDE DEF e
    <3> QED
      BY <3>1, <3>2, <3>3 DEF e
  <2>2. CASE ~q.open
    BY <1>1, <2>2 DEF EndBreach
  <2> QED
    BY <2>1, <2>2
<1>2. ASSUME NEW v \in Values
      PROVE  /\ Resolved(o, v) \in ObservationType /\ Resolved(o, v).open = o.open
             /\ Resolved(o, v).start = o.start /\ Resolved(o, v).longest = o.longest
  <2>1. o.samples + 1 \in Nat /\ o.values \cup {v} \in SUBSET Values
    OBVIOUS
  <2>2. Resolved(o, v) = [o EXCEPT !.samples = o.samples + 1, !.values = o.values \cup {v}]
    BY DEF Resolved
  <2> QED
    BY <2>1, <2>2
<1>3. ASSUME NEW q \in ObservationType, q.start <= now
      PROVE  /\ InBreach(q) \in ObservationType /\ InBreach(q).start <= now
             /\ InBreach(q).longest >= q.longest /\ InBreach(q).open
             /\ InBreach(q).start = (IF q.open THEN q.start ELSE now)
             /\ InBreach(q).longest >= now - InBreach(q).start
  <2> DEFINE start == IF q.open THEN q.start ELSE now
             n == Larger(q.longest, now - start)
  <2>1. start \in Nat /\ start <= now
    BY <1>3
  <2> HIDE DEF start
  <2>2. n \in Nat /\ n >= q.longest /\ n >= now - start
    BY <2>1 DEF Larger
  <2>3. InBreach(q) = [q EXCEPT !.open = TRUE, !.start = start, !.longest = n]
    BY DEF InBreach, start
  <2> HIDE DEF n
  <2> QED
    BY <2>1, <2>2, <2>3 DEF start
<1>4. CASE ~signal.applicable \/ a.kind = "error"
  BY <1>0, <1>4 DEF Sampled
<1>5. CASE signal.applicable /\ a.kind = "empty"
  BY <1>1, <1>5 DEF Sampled
<1>6. CASE signal.applicable /\ a.kind = "value"
  <2>1. Sampled(o, a) = IF Past(a.value) THEN InBreach(Resolved(o, a.value))
                        ELSE EndBreach(Resolved(o, a.value))
    BY <1>6 DEF Sampled
  <2>2. /\ Resolved(o, a.value) \in ObservationType /\ Resolved(o, a.value).open = o.open
        /\ Resolved(o, a.value).start = o.start /\ Resolved(o, a.value).longest = o.longest
    BY <1>0, <1>2, <1>6
  <2> QED
    BY <1>1, <1>3, <1>6, <2>1, <2>2
<1> QED
  BY <1>0, <1>4, <1>5, <1>6

-----------------------------------------------------------------------------
(* One tick                                                                  *)

LEMMA LookedCases ==
    ASSUME TypeInv, NEW r \in Round
    PROVE  /\ Looked(r) \in Entry
           /\ Outcome(r) = "firing" => Looked(r) = Breached(entry, now)
           /\ Outcome(r) = "clear" => Looked(r) = Cleared(entry)
           /\ ~r.seen => Looked(r) = Blinded(entry)
           /\ Outcome(r) = "notApplicable" \/ (Outcome(r) = "blind" /\ r.seen)
                => Looked(r) = entry
<1>1. signal \in Signals /\ entry \in Entry /\ now \in Nat
  BY DEF TypeInv, TypeOK
<1>2. Outcome(r) \in {"blind", "notApplicable", "firing", "clear"}
      /\ r.seen \in BOOLEAN /\ (~r.seen => Outcome(r) = "blind")
  BY <1>1, OutcomeGrounds, RoundTypes
<1> QED
  BY <1>1, <1>2, BreachedShape, QuietShape DEF Looked

\* A breach opens an entry or finds it open, and nothing else does.
LEMMA LookedShape ==
    ASSUME TypeInv, NEW r \in Round
    PROVE  /\ entry \in Entry /\ entry.state \in State /\ entry.since \in Nat /\ now \in Nat
           /\ Looked(r) \in Entry
           /\ Looked(r).state = "firing" => entry.state = "firing"
           /\ Looked(r).state = "pending" => r.seen
           /\ Looked(r).state = "pending" /\ Outcome(r) # "firing" =>
                /\ Looked(r) = entry
                /\ Outcome(r) \in {"notApplicable", "blind"}
           /\ Outcome(r) = "firing" =>
                /\ Looked(r).state = (IF entry.state = "firing" THEN "firing" ELSE "pending")
                /\ Looked(r).since = (IF entry.state = "inactive" THEN now ELSE entry.since)
<1>1. signal \in Signals /\ entry \in Entry /\ now \in Nat
  BY DEF TypeInv, TypeOK
<1>2. entry.state \in State /\ entry.since \in Nat
  BY <1>1 DEF Entry
<1>3. Outcome(r) \in {"blind", "notApplicable", "firing", "clear"}
      /\ r.seen \in BOOLEAN /\ (~r.seen => Outcome(r) = "blind")
  BY <1>1, OutcomeGrounds, RoundTypes
<1>4. /\ Breached(entry, now).state = (IF entry.state = "firing" THEN "firing" ELSE "pending")
      /\ Breached(entry, now).since = (IF entry.state = "inactive" THEN now ELSE entry.since)
      /\ Cleared(entry).state = "inactive"
      /\ Blinded(entry).state # "pending"
      /\ Blinded(entry).state = "firing" => entry.state = "firing"
  BY <1>1, BreachedShape, QuietShape
<1> QED
  BY <1>1, <1>2, <1>3, <1>4, LookedCases

\* An incident goes out, the entry is then firing; or the entry is as it looked.
\* What is due and does not go out is suppressed.
LEMMA TickEntry ==
    ASSUME TypeInv, NEW r \in Round, NEW suppressed \in BOOLEAN, Tick(r, suppressed)
    PROVE  /\ UNCHANGED <<signal, phase, deadline, doubtful>>
           /\ phase \in {"warmup", "window"} /\ now < deadline
           /\ now' \in Nat /\ now' >= now + Poll /\ now' > now
           /\ entry' \in Entry
           /\ \/ /\ Due(r) /\ ~suppressed
                 /\ entry'.state = "firing" /\ rep'.reported
              \/ /\ Due(r) => suppressed
                 /\ entry' = Looked(r)
                 /\ rep'.reported = rep.reported
           /\ suppressed => Due(r)
<1>1. signal \in Signals /\ entry \in Entry /\ now \in Nat /\ rep \in ReportType
      /\ rep.run <= rep.longest
  BY DEF TypeInv, TypeOK, ReportType
<1>2. Looked(r) \in Entry
  BY LookedCases
<1>3. now' \in Nat /\ now' >= now + Poll /\ now' > now
  BY <1>1, ConstantTypes DEF Tick
<1>4. /\ UNCHANGED <<signal, phase, deadline, doubtful>>
      /\ phase \in {"warmup", "window"} /\ now < deadline
      /\ suppressed => Due(r)
  BY DEF Tick
<1>5. LET watched == IF phase = "window" THEN Watched(rep, Outcome(r)) ELSE rep
      IN  /\ watched \in ReportType /\ watched.reported = rep.reported
          /\ rep' = [watched EXCEPT !.reported = @ \/ (Due(r) /\ ~suppressed)]
  BY <1>1, OutcomeGrounds, WatchedFields DEF Tick
<1>6. rep'.reported = (rep.reported \/ (Due(r) /\ ~suppressed))
  BY <1>5 DEF ReportType
<1>7. entry' = IF Due(r) /\ ~suppressed THEN [Looked(r) EXCEPT !.state = "firing"]
               ELSE Looked(r)
  BY DEF Tick
<1>8. CASE Due(r) /\ ~suppressed
  <2>1. entry' = [Looked(r) EXCEPT !.state = "firing"]
    BY <1>7, <1>8
  <2>2. entry' \in Entry /\ entry'.state = "firing"
    BY <1>2, <2>1 DEF Entry, State
  <2> QED
    BY <1>3, <1>4, <1>6, <1>8, <2>2
<1>9. CASE ~(Due(r) /\ ~suppressed)
  <2>1. entry' = Looked(r)
    BY <1>7, <1>9
  <2>2. rep'.reported = rep.reported
    BY <1>1, <1>6, <1>9 DEF ReportType
  <2> QED
    BY <1>2, <1>3, <1>4, <1>9, <2>1, <2>2
<1> QED
  BY <1>8, <1>9

\* What the silence report keeps of the tick.
LEMMA TickReport ==
    ASSUME TypeInv, NEW r \in Round, NEW suppressed \in BOOLEAN, Tick(r, suppressed)
    PROVE  /\ rep' \in ReportType /\ rep'.run <= rep'.longest
           /\ phase = "warmup" => /\ rep'.samples = rep.samples /\ rep'.run = rep.run
                                  /\ rep'.longest = rep.longest
           /\ phase = "window" =>
                /\ rep'.samples = Watched(rep, Outcome(r)).samples
                /\ rep'.run = Watched(rep, Outcome(r)).run
                /\ rep'.longest = Watched(rep, Outcome(r)).longest
<1> DEFINE watched == IF phase = "window" THEN Watched(rep, Outcome(r)) ELSE rep
<1>1. signal \in Signals /\ rep \in ReportType /\ rep.run <= rep.longest
      /\ phase \in {"warmup", "window"}
  BY DEF TypeInv, TypeOK, ReportType, Tick
<1>2. watched \in ReportType /\ watched.run <= watched.longest
  BY <1>1, OutcomeGrounds, WatchedFields
<1>3. rep' = [watched EXCEPT !.reported = @ \/ (Due(r) /\ ~suppressed)]
  BY DEF Tick
<1> HIDE DEF watched
<1>4. /\ rep' \in ReportType /\ rep'.samples = watched.samples
      /\ rep'.run = watched.run /\ rep'.longest = watched.longest
  BY <1>2, <1>3 DEF ReportType
<1> QED
  BY <1>1, <1>2, <1>4 DEF watched

-----------------------------------------------------------------------------
(* Types                                                                     *)

LEMMA TypeInit == Init => TypeInv
<1> SUFFICES ASSUME Init PROVE TypeInv
  OBVIOUS
<1>1. Fresh \in Entry /\ Fresh.state # "pending"
  BY DEF Fresh, Entry, State
<1>2. {doubtful, hushed, paged, answered, breaches} \subseteq BOOLEAN
  BY DEF Init
<1>3. /\ rep \in ReportType /\ rep.run <= rep.longest
      /\ obs \in ObservationType /\ obs.start <= now
  BY DEF Init, NoReport, NoObservation, ReportType, ObservationType
<1> QED
  BY <1>1, <1>2, <1>3, ConstantTypes
     DEF Init, TypeInv, TypeOK, Phases, ReportType, ObservationType

LEMMA TypeStep == TypeInv /\ [Next]_vars => TypeInv'
<1> SUFFICES ASSUME TypeInv, [Next]_vars PROVE TypeInv'
  OBVIOUS
<1>1. ASSUME NEW a \in Answer, Preflight(a) PROVE TypeInv'
  BY <1>1 DEF Preflight, TypeInv, TypeOK, Phases
<1>2. ASSUME NEW r \in Round, NEW suppressed \in BOOLEAN, Tick(r, suppressed)
      PROVE  TypeInv'
  <2>1. signal \in Signals /\ now \in Nat /\ obs \in ObservationType /\ obs.start <= now
        /\ entry \in Entry
    BY DEF TypeInv, TypeOK, ObservationType
  <2>2. obs' \in ObservationType /\ obs'.start <= now
    <3>1. r.answer \in Answer
      BY RoundTypes
    <3>2. obs' = Sampled(obs, r.answer) \/ obs' = obs
      BY <1>2 DEF Tick
    <3> QED
      BY <2>1, <3>1, <3>2, SampledFields
  <2>3. obs'.start <= now'
    BY <1>2, <2>1, <2>2, TickEntry DEF ObservationType
  <2>4. entry'.state = "pending" => entry'.since < now'
    <3>1. CASE entry'.state = "firing"
      BY <3>1
    <3>2. CASE entry' = Looked(r)
      <4>1. now' > now /\ now' \in Nat
        BY <1>2, TickEntry
      <4>2. entry.state = "pending" => entry.since < now
        BY DEF TypeInv
      <4> QED
        BY <3>2, <4>1, <4>2, LookedShape DEF State
    <3> QED
      BY <1>2, <3>1, <3>2, TickEntry
  <2>5. {doubtful, hushed, paged, answered, breaches}' \subseteq BOOLEAN
    BY <1>2 DEF Tick, TypeInv, TypeOK
  <2> QED
    BY <1>2, <2>2, <2>3, <2>4, <2>5, TickEntry, TickReport
       DEF TypeInv, TypeOK, ReportType, ObservationType
<1>3. CASE OpenWindow
  BY <1>3, ConstantTypes DEF OpenWindow, TypeInv, TypeOK, Phases
<1>4. CASE Close
  BY <1>4 DEF Close, TypeInv, TypeOK, Phases
<1>5. CASE UNCHANGED vars
  BY <1>5 DEF vars, TypeInv, TypeOK
<1> QED
  BY <1>1, <1>2, <1>3, <1>4, <1>5 DEF Next

-----------------------------------------------------------------------------
(* What a silence run reports                                                *)

LEMMA ReportInit == Init => ReportInv
BY DEF Init, ReportInv, NoReport, Fresh

\* A breach that is not due is younger than the hold.
LEMMA NotDueYet ==
    ASSUME TypeInv, NEW r \in Round, Outcome(r) = "firing", ~Due(r), entry.state # "firing"
    PROVE  /\ Looked(r).state = "pending"
           /\ Looked(r).since = (IF entry.state = "pending" THEN entry.since ELSE now)
           /\ Looked(r).since <= now
           /\ now < Looked(r).since + signal.hold
<1>1. /\ entry \in Entry /\ entry.since \in Nat /\ entry.state \in State
      /\ now \in Nat /\ signal.hold \in Nat
      /\ entry.state = "pending" => entry.since < now
  BY SignalTypes DEF TypeInv, TypeOK, Entry
<1>4. Looked(r).state = "pending"
  BY LookedShape
<1>5. Looked(r).since = (IF entry.state = "pending" THEN entry.since ELSE now)
  BY <1>1, LookedShape DEF State
<1>6. ~(now - Looked(r).since >= signal.hold)
  BY <1>4 DEF Due, HeldFor
<1> QED
  BY <1>1, <1>4, <1>5, <1>6

\* The histories of a tick.
LEMMA TickHistory ==
    ASSUME NEW r \in Round, NEW suppressed \in BOOLEAN, Tick(r, suppressed)
    PROVE  /\ hushed' = (hushed \/ suppressed)
           /\ answered' = (answered \/ (phase = "window" /\ r.seen /\ r.answer.kind # "error"))
           /\ breaches' = (breaches \/ (phase = "window" /\ Outcome(r) = "firing"))
BY DEF Tick

\* A tick that measures a breach lengthens the run; it is reported, hushed, or
\* within a pending episode whose hold is not over.
LEMMA ReportBreach ==
    ASSUME TypeInv, ReportInv, NEW r \in Round, NEW suppressed \in BOOLEAN,
           Tick(r, suppressed), phase = "window", Outcome(r) = "firing"
    PROVE  ReportInv'
<1>1. /\ rep \in ReportType /\ rep.run <= rep.longest /\ now \in Nat
      /\ entry \in Entry /\ signal.hold \in Nat /\ Poll \in Nat /\ Poll > 0
  BY SignalTypes, ConstantTypes DEF TypeInv, TypeOK, ReportType
<1>2. /\ rep' \in ReportType
      /\ rep'.run = rep.run + Poll
      /\ rep'.longest = Larger(rep.longest, rep.run + Poll)
  BY <1>1, TickReport, WatchedFields
<1>3. rep'.longest > 0 /\ rep'.longest \in {rep.longest, rep.run + Poll}
  BY <1>1, <1>2 DEF Larger, ReportType
<1>4. answered' = TRUE /\ phase' = "window" /\ signal' = signal
  <2>1. r.seen /\ Reads(r)
    BY OutcomeGrounds DEF TypeInv, TypeOK
  <2> QED
    BY <2>1, RoundTypes, TickHistory, TickEntry DEF Reads
<1>5. CASE entry'.state = "firing" /\ rep'.reported
  BY <1>3, <1>4, <1>5 DEF ReportInv
<1>6. CASE /\ Due(r) => suppressed
           /\ entry' = Looked(r)
           /\ rep'.reported = rep.reported
  <2>1. now' \in Nat /\ now' >= now + Poll /\ hushed' = (hushed \/ suppressed)
    BY TickEntry, TickHistory
  <2>2. CASE entry.state = "firing"
    <3>1. rep'.reported
      BY <1>6, <2>2 DEF ReportInv
    <3> QED
      BY <1>3, <1>4, <3>1 DEF ReportInv
  <2>3. CASE entry.state # "firing"
    <3>1. /\ Looked(r).state = "pending"
          /\ Looked(r).since = (IF entry.state = "pending" THEN entry.since ELSE now)
      BY <2>3, LookedShape DEF State
    <3>2. ~rep.reported => Looked(r).since + rep.run <= now
      BY <1>1, <3>1 DEF ReportInv, TypeInv, TypeOK, ReportType, Entry
    <3>3. ~rep'.reported /\ rep'.run > 0 =>
             entry'.state = "pending" /\ entry'.since + rep'.run <= now'
      BY <1>1, <1>2, <1>6, <2>1, <3>1, <3>2 DEF ReportType, Entry
    <3>4. rep'.reported \/ hushed' \/ rep'.longest < signal.hold + Poll
                        \/ rep'.longest = rep.longest
      <4> SUFFICES ASSUME ~rep'.reported, ~suppressed, rep'.longest = rep.run + Poll
                   PROVE  rep'.longest < signal.hold + Poll
        BY <1>3, <2>1
      <4>1. ~Due(r)
        BY <1>6
      <4>2. now < Looked(r).since + signal.hold
        BY <2>3, <4>1, NotDueYet
      <4>3. Looked(r).since \in Nat
        BY LookedCases DEF Entry
      <4> QED
        BY <1>1, <1>6, <3>2, <4>2, <4>3 DEF ReportType
    <3>5. entry'.state = "pending"
      BY <1>6, <3>1
    <3> QED
      BY <1>3, <1>4, <1>6, <2>1, <3>3, <3>4, <3>5 DEF ReportInv
  <2> QED
    BY <2>2, <2>3
<1> QED
  BY <1>5, <1>6, TickEntry

\* Any other tick of the window reports nothing and ends the run, unless the
\* entry does not apply to the target, when nothing ever breaches.
LEMMA ReportQuiet ==
    ASSUME TypeInv, ReportInv, NEW r \in Round, NEW suppressed \in BOOLEAN,
           Tick(r, suppressed), phase = "window", Outcome(r) # "firing"
    PROVE  ReportInv'
<1>1. /\ rep \in ReportType /\ rep.run <= rep.longest /\ entry \in Entry /\ now \in Nat
      /\ signal \in Signals
  BY DEF TypeInv, TypeOK, ReportType
<1>2. Outcome(r) \in {"blind", "notApplicable", "clear"}
  BY <1>1, OutcomeGrounds
<1>3. ~Due(r) /\ ~suppressed
  BY TickEntry DEF Due
<1>4. /\ entry' = Looked(r) /\ rep'.reported = rep.reported
      /\ UNCHANGED <<signal, phase>> /\ now' \in Nat /\ now' > now
  BY <1>3, TickEntry
<1>5. /\ rep' \in ReportType /\ rep'.longest = rep.longest
      /\ rep'.samples > 0 => rep.samples > 0 \/ Outcome(r) = "clear"
      /\ Outcome(r) # "notApplicable" => rep'.run = 0
      /\ Outcome(r) = "notApplicable" => rep'.run = rep.run
  BY <1>1, <1>2, TickReport, WatchedFields
<1>6. hushed' = hushed /\ breaches' = breaches
  BY <1>3, TickHistory DEF TypeInv, TypeOK
<1>7. rep'.samples > 0 => answered'
  <2>1. Outcome(r) = "clear" => r.seen /\ r.answer.kind # "error"
    BY <1>1, OutcomeGrounds
  <2> QED
    BY <1>5, <2>1, TickHistory DEF ReportInv
<1>8. entry'.state = "firing" => rep'.reported
  <2>1. entry'.state = "firing" => entry.state = "firing"
    BY <1>4, LookedShape
  <2> QED
    BY <1>4, <2>1 DEF ReportInv
<1>9. ~rep'.reported /\ rep'.run > 0 => entry'.state = "pending" /\ entry'.since + rep'.run <= now'
  <2>1. CASE Outcome(r) = "notApplicable"
    <3>1. entry' = entry
      BY <1>4, <2>1, LookedCases
    <3> QED
      BY <1>1, <1>4, <1>5, <2>1, <3>1 DEF ReportInv, ReportType, Entry
  <2>2. CASE Outcome(r) # "notApplicable"
    BY <1>5, <2>2
  <2> QED
    BY <2>1, <2>2
<1> QED
  BY <1>4, <1>5, <1>6, <1>7, <1>8, <1>9 DEF ReportInv

LEMMA ReportStep == TypeInv /\ ReportInv /\ [Next]_vars => ReportInv'
<1> SUFFICES ASSUME TypeInv, ReportInv, [Next]_vars PROVE ReportInv'
  OBVIOUS
<1>1. ASSUME NEW a \in Answer, Preflight(a) PROVE ReportInv'
  BY <1>1 DEF Preflight, ReportInv
<1>2. ASSUME NEW r \in Round, NEW suppressed \in BOOLEAN, Tick(r, suppressed),
             phase = "warmup"
      PROVE  ReportInv'
  <2>1. /\ UNCHANGED <<signal, phase>>
        /\ rep'.samples = rep.samples /\ rep'.run = 0 /\ rep'.longest = rep.longest
        /\ rep'.reported \/ (rep'.reported = rep.reported /\ entry' = Looked(r))
        /\ (hushed => hushed') /\ answered' = answered /\ breaches' = breaches
    BY <1>2, TickEntry, TickReport, TickHistory DEF ReportInv, TypeInv, TypeOK
  <2>2. entry'.state = "firing" => rep'.reported
    BY <2>1, LookedShape DEF ReportInv
  <2>3. rep.reported => rep'.reported
    BY <1>2, TickEntry
  <2> QED
    BY <1>2, <2>1, <2>2, <2>3 DEF ReportInv
<1>3. ASSUME NEW r \in Round, NEW suppressed \in BOOLEAN, Tick(r, suppressed)
      PROVE  ReportInv'
  <2>1. phase \in {"warmup", "window"}
    BY <1>3, TickEntry
  <2> QED
    BY <1>2, <1>3, <2>1, ReportBreach, ReportQuiet
<1>4. CASE OpenWindow
  BY <1>4 DEF OpenWindow, ReportInv
<1>5. CASE Close
  BY <1>5 DEF Close, ReportInv
<1>6. CASE UNCHANGED vars
  BY <1>6 DEF vars, ReportInv
<1> QED
  BY <1>1, <1>3, <1>4, <1>5, <1>6 DEF Next

-----------------------------------------------------------------------------
(* What calibrate grades                                                     *)

LEMMA GradeInit == Init => GradeInv
BY DEF Init, GradeInv

\* What calibrate keeps of a round of the window: all that Sampled says.
LEMMA TickSample ==
    ASSUME TypeInv, NEW r \in Round, NEW suppressed \in BOOLEAN, Tick(r, suppressed)
    PROVE  /\ obs' = (IF phase = "window" THEN Sampled(obs, r.answer) ELSE obs)
           /\ paged' = (paged \/ (/\ phase = "window" /\ Due(r) /\ ~suppressed
                                  /\ Looked(r).since >= deadline - Window))
           /\ obs'.longest \in Nat /\ obs'.start \in Nat /\ obs'.longest >= obs.longest
           /\ obs.longest \in Nat
<1>1. signal \in Signals /\ now \in Nat /\ obs \in ObservationType /\ obs.start <= now
  BY DEF TypeInv, TypeOK, ObservationType
<1>2. r.answer \in Answer
  BY RoundTypes
<1>3. /\ obs' = (IF phase = "window" THEN Sampled(obs, r.answer) ELSE obs)
      /\ paged' = (paged \/ (/\ phase = "window" /\ Due(r) /\ ~suppressed
                             /\ Looked(r).since >= deadline - Window))
  BY DEF Tick
<1>4. obs' \in ObservationType /\ obs'.longest >= obs.longest
  BY <1>1, <1>2, <1>3, SampledFields DEF ObservationType
<1> QED
  BY <1>1, <1>3, <1>4 DEF ObservationType

\* While a breach is measured that does not come from absence, the breach that
\* calibrate has open holds the pending episode that began in the window.
LEMMA EpisodeWithinBreach ==
    ASSUME TypeInv, GradeInv, NEW r \in Round, NEW suppressed \in BOOLEAN,
           Tick(r, suppressed), phase = "window", ~signal.absence, Outcome(r) = "firing",
           Looked(r).state = "pending", Looked(r).since >= deadline - Window
    PROVE  /\ obs'.open /\ obs'.start <= Looked(r).since
           /\ obs'.longest >= now - Looked(r).since
<1>1. /\ signal \in Signals /\ now \in Nat /\ obs \in ObservationType /\ obs.start <= now
      /\ entry.since \in Nat /\ entry.state \in State /\ r.answer \in Answer
  BY LookedShape, RoundTypes DEF TypeInv, TypeOK, ObservationType
<1>2. signal.applicable /\ r.answer.kind = "value" /\ Past(r.answer.value)
  BY <1>1, OutcomeGrounds DEF Reads
<1>3. obs' = Sampled(obs, r.answer)
  BY TickSample
<1>4. /\ obs'.open /\ obs'.start = (IF obs.open THEN obs.start ELSE now)
      /\ obs'.longest >= now - obs'.start
  BY <1>1, <1>2, <1>3, SampledFields
<1>5. CASE entry.state = "pending"
  <2>1. Looked(r).since = entry.since
    BY <1>5, LookedShape
  <2>2. obs.open /\ obs.start <= entry.since
    BY <1>5, <2>1 DEF GradeInv
  <2> QED
    BY <1>1, <1>4, <2>1, <2>2, TickSample DEF ObservationType
<1>6. CASE entry.state # "pending"
  <2>1. Looked(r).since = now
    BY <1>1, <1>6, LookedShape DEF State
  <2> QED
    BY <1>1, <1>4, <2>1, TickSample DEF ObservationType
<1> QED
  BY <1>5, <1>6

LEMMA GradeTick ==
    ASSUME TypeInv, GradeInv, NEW r \in Round, NEW suppressed \in BOOLEAN,
           Tick(r, suppressed), phase = "window"
    PROVE  GradeInv'
<1>1. /\ signal \in Signals /\ now \in Nat /\ obs \in ObservationType /\ obs.start <= now
      /\ r.answer \in Answer /\ signal.hold \in Nat
  BY RoundTypes, SignalTypes DEF TypeInv, TypeOK, ObservationType
<1>2. UNCHANGED <<signal, phase, deadline>>
  BY TickEntry
<1>3. ASSUME ~signal.absence, entry'.state = "pending", entry'.since >= deadline - Window
      PROVE  obs'.open /\ obs'.start <= entry'.since
  <2>1. entry' = Looked(r)
    BY <1>3, TickEntry
  <2>2. CASE Outcome(r) = "firing"
    BY <1>3, <2>1, <2>2, EpisodeWithinBreach
  <2>3. CASE Outcome(r) # "firing"
    <3>1. entry' = entry /\ Outcome(r) \in {"notApplicable", "blind"} /\ r.seen
      BY <1>3, <2>1, <2>3, LookedShape
    <3>2. ~signal.applicable \/ r.answer.kind = "error"
      BY <1>1, <3>1, OutcomeGrounds
    <3>3. obs' = obs
      BY <1>1, <3>2, TickSample, SampledFields
    <3> QED
      BY <1>3, <3>1, <3>3 DEF GradeInv
  <2> QED
    BY <2>2, <2>3
<1>4. ASSUME paged' PROVE signal.applicable
  <2>1. CASE paged
    BY <2>1 DEF GradeInv
  <2>2. CASE Due(r)
    BY <1>1, <2>2, OutcomeGrounds DEF Due
  <2> QED
    BY <1>4, <2>1, <2>2, TickSample
<1>5. ASSUME paged', ~signal.absence PROVE obs'.longest >= signal.hold
  <2>1. CASE paged
    <3>1. obs.longest >= signal.hold
      BY <1>5, <2>1 DEF GradeInv
    <3> QED
      BY <1>1, <3>1, TickSample
  <2>2. CASE Due(r) /\ Looked(r).since >= deadline - Window
    <3>1. Looked(r).state = "pending" /\ now - Looked(r).since >= signal.hold
          /\ Outcome(r) = "firing"
      BY <2>2 DEF Due, HeldFor
    <3>2. obs'.longest >= now - Looked(r).since /\ Looked(r).since \in Nat
      BY <1>5, <2>2, <3>1, EpisodeWithinBreach, LookedCases DEF Entry
    <3> QED
      BY <1>1, <3>1, <3>2, TickSample
  <2> QED
    BY <1>5, <2>1, <2>2, TickSample
<1> QED
  BY <1>2, <1>3, <1>4, <1>5 DEF GradeInv

LEMMA GradeStep == TypeInv /\ GradeInv /\ [Next]_vars => GradeInv'
<1> SUFFICES ASSUME TypeInv, GradeInv, [Next]_vars PROVE GradeInv'
  OBVIOUS
<1>1. ASSUME NEW a \in Answer, Preflight(a) PROVE GradeInv'
  BY <1>1 DEF Preflight, GradeInv
<1>2. ASSUME NEW r \in Round, NEW suppressed \in BOOLEAN, Tick(r, suppressed)
      PROVE  GradeInv'
  <2>1. phase \in {"warmup", "window"} /\ UNCHANGED <<signal, phase, deadline>>
    BY <1>2, TickEntry
  <2>2. CASE phase = "warmup"
    <3>1. obs' = obs /\ paged' = paged
      BY <1>2, <2>2, TickSample DEF TypeInv, TypeOK
    <3> QED
      BY <2>1, <2>2, <3>1 DEF GradeInv
  <2> QED
    BY <1>2, <2>1, <2>2, GradeTick
<1>3. CASE OpenWindow
  <2>1. entry.state = "pending" => ~(entry.since >= deadline' - Window)
    BY <1>3, ConstantTypes DEF OpenWindow, TypeInv, TypeOK, Entry
  <2> QED
    BY <1>3, <2>1 DEF OpenWindow, GradeInv
<1>4. CASE Close
  BY <1>4 DEF Close, GradeInv
<1>5. CASE UNCHANGED vars
  BY <1>5 DEF vars, GradeInv
<1> QED
  BY <1>1, <1>2, <1>3, <1>4, <1>5 DEF Next

\* A value past a positive threshold leaves no margin.
LEMMA PastIsNear ==
    ASSUME signal \in Signals, NEW o \in ObservationType, signal.threshold > 0,
           NEW v \in o.values, Past(v)
    PROVE  Near(o)
<1>1. v \in Int /\ signal.threshold \in Int /\ signal.comparison \in {">", ">=", "<", "<="}
  BY SignalTypes, QuietAssumption DEF ObservationType
<1>2. ASSUME NEW x \in Int, x > 0 PROVE MarginFactor * x > x
  <2>1. MarginFactor \in Int /\ MarginFactor > 1
    BY ConstantTypes
  <2>2. ASSUME NEW m \in Int, m > 1 PROVE m * x > x
    BY <1>2, <2>2
  <2> QED
    BY <2>1, <2>2
<1>3. MarginFactor * v \in Int /\ MarginFactor * signal.threshold \in Int
  BY <1>1, ConstantTypes
<1>4. CASE Upward
  <2>1. signal.comparison \in {">", ">="}
    BY <1>1, <1>4 DEF Upward
  <2>2. v >= signal.threshold
    <3>1. CASE signal.comparison = ">"
      BY <1>1, <3>1 DEF Past
    <3>2. CASE signal.comparison = ">="
      BY <1>1, <3>2 DEF Past
    <3> QED
      BY <2>1, <3>1, <3>2
  <2>3. signal.threshold < MarginFactor * v
    BY <1>1, <1>2, <1>3, <2>2
  <2> QED
    BY <1>4, <2>3 DEF Near
<1>5. CASE ~Upward
  <2>1. signal.comparison \in {"<", "<="}
    BY <1>1, <1>5 DEF Upward
  <2>2. v <= signal.threshold
    <3>1. CASE signal.comparison = "<"
      BY <1>1, <3>1 DEF Past
    <3>2. CASE signal.comparison = "<="
      BY <1>1, <3>2 DEF Past
    <3> QED
      BY <2>1, <3>1, <3>2
  <2>3. v < MarginFactor * signal.threshold
    BY <1>1, <1>2, <1>3, <2>2
  <2> QED
    BY <1>5, <2>3 DEF Near
<1> QED
  BY <1>4, <1>5

LEMMA GradeImplies == TypeInv /\ GradeInv => GradesAgree
<1> SUFFICES ASSUME TypeInv, GradeInv PROVE GradesAgree
  OBVIOUS
<1>1. /\ signal \in Signals /\ obs \in ObservationType
      /\ obs.samples \in Nat /\ obs.longest \in Nat
      /\ signal.hold \in Nat /\ signal.applicable \in BOOLEAN /\ MinSamples \in Nat
  BY SignalTypes, ConstantTypes DEF TypeInv, TypeOK, ObservationType
<1>2. ASSUME paged, signal.hold > 0, ~signal.absence, obs.samples >= MinSamples
      PROVE  Grade(obs) = "miscalibrated"
  <2>1. signal.applicable /\ obs.longest >= signal.hold
    BY <1>2 DEF GradeInv
  <2> QED
    BY <1>1, <1>2, <2>1 DEF Grade
<1>3. ASSUME signal.threshold > 0, NEW v \in obs.values, Past(v)
      PROVE  Grade(obs) # "calibrated"
  <2>1. Near(obs)
    BY <1>1, <1>3, PastIsNear
  <2> QED
    BY <1>1, <2>1 DEF Grade
<1> QED
  BY <1>2, <1>3 DEF GradesAgree

-----------------------------------------------------------------------------
(* What the doctor admits                                                    *)

LEMMA AdmittedInit == Init => AdmittedIsQuiet
BY DEF Init, AdmittedIsQuiet

LEMMA AdmittedStep == TypeInv /\ AdmittedIsQuiet /\ [Next]_vars => AdmittedIsQuiet'
<1> SUFFICES ASSUME TypeInv, AdmittedIsQuiet, [Next]_vars PROVE AdmittedIsQuiet'
  OBVIOUS
<1>1. ASSUME NEW a \in Answer, Preflight(a) PROVE AdmittedIsQuiet'
  <2> DEFINE r == [seen |-> TRUE, answer |-> a]
  <2>1. r \in Round /\ r.seen /\ r.answer = a
    BY DEF Round
  <2>2. UNCHANGED signal /\ signal \in Signals
        /\ doubtful' = (phase' = "warmup" /\ Outcome(r) \in {"firing", "blind"})
        /\ (phase' = "warmup" => Admits(a))
    BY <1>1 DEF Preflight, TypeInv, TypeOK
  <2> HIDE DEF r
  <2>3. SUFFICES ASSUME doubtful' PROVE signal.absence
    BY <2>2 DEF AdmittedIsQuiet
  <2>4. Admits(a) /\ Outcome(r) \in {"firing", "blind"}
    BY <2>2, <2>3
  <2>5. a.kind # "error" => Outcome(r) # "blind"
    BY <2>1, <2>2, OutcomeGrounds
  <2>6. CASE Outcome(r) = "firing"
    BY <2>1, <2>2, <2>4, <2>6, OutcomeGrounds DEF Admits, Reads
  <2>7. CASE Outcome(r) = "blind"
    \* an error is admitted of an entry that does not apply, which is not blind
    <3>1. a.kind = "error"
      BY <2>5, <2>7
    <3>2. ~signal.applicable
      BY <2>4, <3>1 DEF Admits
    <3>3. Outcome(r) = "notApplicable"
      BY <2>1, <3>2 DEF Outcome
    <3> QED
      BY <2>7, <3>3
  <2> QED
    BY <2>4, <2>6, <2>7
<1>2. ASSUME NEW r \in Round, NEW suppressed \in BOOLEAN, Tick(r, suppressed)
      PROVE  AdmittedIsQuiet'
  BY <1>2 DEF Tick, AdmittedIsQuiet
<1>3. CASE OpenWindow
  BY <1>3 DEF OpenWindow, AdmittedIsQuiet
<1>4. CASE Close
  BY <1>4 DEF Close, AdmittedIsQuiet
<1>5. CASE UNCHANGED vars
  BY <1>5 DEF vars, AdmittedIsQuiet
<1> QED
  BY <1>1, <1>2, <1>3, <1>4, <1>5 DEF Next

-----------------------------------------------------------------------------
(* The theorems                                                              *)

LEMMA TypeInvariant == Spec => []TypeInv
<1>1. Init => TypeInv
  BY TypeInit
<1>2. TypeInv /\ [Next]_vars => TypeInv'
  BY TypeStep
<1> QED
  BY <1>1, <1>2, PTL DEF Spec

\* The state of the runs is well typed, and no run of breaches is longer than
\* the longest one kept for the report (silence.go:255-290).
THEOREM TypeCorrect == Spec => []TypeOK
<1>1. TypeInv => TypeOK
  BY DEF TypeInv
<1> QED
  BY <1>1, TypeInvariant, PTL

LEMMA ReportImplies == TypeInv /\ ReportInv => ReportIsTrue
<1> SUFFICES ASSUME TypeInv, ReportInv PROVE ReportIsTrue
  OBVIOUS
<1>1. rep.reported \in BOOLEAN /\ rep.samples \in Nat /\ rep.skipped \in Nat
      /\ rep.longest \in Nat
  BY DEF TypeInv, TypeOK
<1>2. Ended("silent") => rep.samples > 0 /\ ~(rep.longest > 0)
  BY <1>1 DEF Ended, Verdict
<1>3. Ended("brushed") => rep.samples > 0
  BY <1>1 DEF Ended, Verdict
<1> QED
  BY <1>2, <1>3 DEF ReportInv, ReportIsTrue

\* A silence run reports the truth of its window (silence.go:40-51, 80-83),
\* whatever the poll, the hold and the answers: silent is never said of an
\* entry that crossed its threshold, silent and brushed never of one nobody
\* could see, and the margin of a brushed entry is under its hold and a poll.
THEOREM ReportsAreTrue == Spec => []ReportIsTrue
<1>1. Init => ReportInv
  BY ReportInit
<1>2. TypeInv /\ ReportInv /\ [Next]_vars => ReportInv'
  BY ReportStep
<1>3. TypeInv /\ ReportInv => ReportIsTrue
  BY ReportImplies
<1> QED
  BY <1>1, <1>2, <1>3, TypeInvariant, PTL DEF Spec

\* Calibrate agrees with the detector (calibrate.go:52-61), however long a
\* round takes and whatever was blind, empty or failing between two samples: an
\* entry with a hold, whose signal is not absence and which was sampled often
\* enough, is miscalibrated if the same rounds paged somebody for it; and one
\* that was past its positive threshold once is never calibrated.
THEOREM CalibrateAgrees == Spec => []GradesAgree
<1>1. Init => GradeInv
  BY GradeInit
<1>2. TypeInv /\ GradeInv /\ [Next]_vars => GradeInv'
  BY GradeStep
<1>3. TypeInv /\ GradeInv => GradesAgree
  BY GradeImplies
<1> QED
  BY <1>1, <1>2, <1>3, TypeInvariant, PTL DEF Spec

\* The doctor of meshmedic-prove (main.go:440-443, 464-484) admits no reading
\* that the detector would take for a breach or for blindness, unless absence
\* is the entry's signal.
THEOREM AdmissionIsQuiet == Spec => []AdmittedIsQuiet
<1>1. Init => AdmittedIsQuiet
  BY AdmittedInit
<1>2. TypeInv /\ AdmittedIsQuiet /\ [Next]_vars => AdmittedIsQuiet'
  BY AdmittedStep
<1> QED
  BY <1>1, <1>2, TypeInvariant, PTL DEF Spec

=============================================================================
