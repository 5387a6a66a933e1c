--------------------------- MODULE DetectorProofs ---------------------------
(***************************************************************************)
(* Theorems about Detector, for every catalog, target list, hold, limit,    *)
(* window length and bound.                                                 *)
(***************************************************************************)
EXTENDS Detector, FiniteSetTheorems, TLAPS

-----------------------------------------------------------------------------
(* Entries                                                                 *)

LEMMA FreshEntry == Fresh \in Entry /\ WellFormed(Fresh)
  BY FS_EmptySet DEF Fresh, Entry, State, WellFormed

LEMMA LiveFinite ==
  ASSUME NEW applies, IsFiniteSet(applies), NEW now
  PROVE  IsFiniteSet(Live(applies, now)) /\ Live(applies, now) \subseteq applies
  <1>1. Live(applies, now) \subseteq applies
    BY DEF Live
  <1> QED
    BY <1>1, FS_Subset

\* Replacing one entry by a good one leaves all entries good.
LEMMA EntriesUpdate ==
  ASSUME NEW sts, EntriesOK(sts), NEW k \in Key, NEW e \in Entry, WellFormed(e)
  PROVE  EntriesOK([sts EXCEPT ![k] = e])
  BY DEF EntriesOK

LEMMA EntriesPick ==
  ASSUME NEW sts, EntriesOK(sts), NEW k \in Key
  PROVE  /\ sts[k] \in Entry
         /\ WellFormed(sts[k])
  BY DEF EntriesOK

LEMMA EntriesFresh == EntriesOK([k \in Key |-> Fresh])
  BY FreshEntry DEF EntriesOK

LEMMA ClearedEntry ==
  ASSUME NEW e \in Entry, WellFormed(e)
  PROVE  Cleared(e) \in Entry /\ WellFormed(Cleared(e))
  BY DEF Cleared, Entry, State, WellFormed

LEMMA BlindedEntry ==
  ASSUME NEW e \in Entry, WellFormed(e)
  PROVE  Blinded(e) \in Entry /\ WellFormed(Blinded(e))
  BY ClearedEntry DEF Blinded

LEMMA BreachedEntry ==
  ASSUME NEW e \in Entry, WellFormed(e), NEW now \in Nat
  PROVE  Breached(e, now) \in Entry /\ WellFormed(Breached(e, now))
  BY DEF Breached, Entry, State, WellFormed

\* SaveState drops nothing: what it leaves out is what LoadState starts from.
LEMMA SnapshotIsIdentity ==
  ASSUME NEW sts, EntriesOK(sts)
  PROVE  Snapshot(sts) = sts
  <1>1. ASSUME NEW k \in Key, sts[k].state = "inactive", sts[k].applies = {}
        PROVE  sts[k] = Fresh
    BY <1>1 DEF EntriesOK, WellFormed, Entry, Fresh
  <1> QED
    BY <1>1 DEF Snapshot, EntriesOK

-----------------------------------------------------------------------------
(* Types                                                                   *)

LEMMA CounterFacts ==
  /\ NoCycle \in [Counter -> Nat]
  /\ \A c \in [Counter -> Nat], name \in Counter : Count(c, name) \in [Counter -> Nat]
  BY DEF NoCycle, Count

LEMMA TallyType ==
  ASSUME NEW c \in [Counter -> Nat], NEW e \in Entry
  PROVE  Tally(c, e) \in [Counter -> Nat]
  BY CounterFacts DEF Tally, Counter, Buckets, Entry, State

LEMMA WatchedFinite ==
  ASSUME NEW t \in Target, NEW S
  PROVE  Cardinality(Watched[t] \ S) \in Nat
  <1>1. IsFiniteSet(Scenario)
    BY SizesAssumption, FS_Interval DEF Scenario
  <1>2. Watched[t] \ S \in SUBSET Scenario
    BY CatalogAssumption
  <1> QED
    BY <1>1, <1>2, FS_Subset, FS_CardinalityType

\* What every evaluation leaves typed.
LEMMA AdvanceType ==
  ASSUME TypeOK, NEW t \in Target, NEW s \in Scenario,
         NEW e \in Entry, WellFormed(e), NEW isDue,
         NEW counted \in [Counter -> Nat],
         Advance(t, s, e, isDue, counted)
  PROVE  /\ EntriesOK(states')
         /\ todo' \in SUBSET Scenario
         /\ due' \in SUBSET Scenario
         /\ inBreach' \in SUBSET Scenario
         /\ cycle' \in [Counter -> Nat]
         /\ UNCHANGED <<clock, phase, tickNow, left, disk, unlocked, proposals, forgotten>>
  <1>1. <<t, s>> \in Key
    BY DEF Key
  <1>2. EntriesOK(states')
    BY <1>1, EntriesUpdate DEF Advance, TypeOK
  <1>3. cycle' \in [Counter -> Nat]
    BY TallyType DEF Advance
  <1> QED
    BY <1>2, <1>3 DEF Advance, TypeOK

\* What every disposal of a due incident leaves typed.
LEMMA DisposedType ==
  ASSUME TypeOK, NEW t \in Target, NEW s \in Scenario,
         NEW e \in Entry, WellFormed(e), NEW bucket \in Buckets,
         Disposed(t, s, e, bucket)
  PROVE  /\ EntriesOK(states')
         /\ due' \in SUBSET Scenario
         /\ cycle' \in [Counter -> Nat]
         /\ UNCHANGED <<phase, tickNow, left, todo, inBreach, disk, unlocked,
                        resolved, lastQuiet, forgotten>>
  <1>1. <<t, s>> \in Key
    BY DEF Key
  <1>2. EntriesOK(states')
    BY <1>1, EntriesUpdate DEF Disposed, TypeOK
  <1>3. cycle' \in [Counter -> Nat]
    BY CounterFacts DEF Disposed, TypeOK, Counter
  <1> QED
    BY <1>2, <1>3 DEF Disposed, TypeOK

LEMMA PrunedFinite ==
  ASSUME NEW s, NEW applies \in SUBSET Nat, IsFiniteSet(applies), NEW now
  PROVE  Pruned(s, applies, now) \in SUBSET Nat /\ IsFiniteSet(Pruned(s, applies, now))
  BY LiveFinite DEF Pruned

\* The entries deliver writes are good ones.
LEMMA DeliveredEntry ==
  ASSUME NEW e \in Entry, WellFormed(e), NEW s, NEW now, NEW at \in Nat
  PROVE  LET f == [e EXCEPT !.state = "firing",
                            !.applies = Pruned(s, @, now) \cup {at}]
         IN  f \in Entry /\ WellFormed(f)
  <1> DEFINE A == Pruned(s, e.applies, now) \cup {at}
  <1>1. A \in SUBSET Nat /\ IsFiniteSet(A)
    <2>1. e.applies \in SUBSET Nat /\ IsFiniteSet(e.applies)
      BY DEF Entry, WellFormed
    <2> QED
      BY <2>1, PrunedFinite, FS_AddElement
  <1> HIDE DEF A
  <1>2. [e EXCEPT !.state = "firing", !.applies = A] \in Entry
    BY <1>1 DEF Entry, State
  <1>3. WellFormed([e EXCEPT !.state = "firing", !.applies = A])
    BY <1>1 DEF Entry, WellFormed
  <1> QED
    BY <1>2, <1>3 DEF A

LEMMA ThrottledEntry ==
  ASSUME NEW e \in Entry, WellFormed(e), NEW now
  PROVE  LET f == [e EXCEPT !.state = "firing", !.applies = Live(@, now)]
         IN  f \in Entry /\ WellFormed(f)
  <1> DEFINE A == Live(e.applies, now)
  <1>1. A \in SUBSET Nat /\ IsFiniteSet(A)
    <2>1. e.applies \in SUBSET Nat /\ IsFiniteSet(e.applies)
      BY DEF Entry, WellFormed
    <2> QED
      BY <2>1, LiveFinite
  <1> HIDE DEF A
  <1>2. [e EXCEPT !.state = "firing", !.applies = A] \in Entry
    BY <1>1 DEF Entry, State
  <1>3. WellFormed([e EXCEPT !.state = "firing", !.applies = A])
    BY <1>1 DEF Entry, WellFormed
  <1> QED
    BY <1>2, <1>3 DEF A

LEMMA RetriedEntry ==
  ASSUME NEW e \in Entry, WellFormed(e), NEW s, NEW now
  PROVE  LET f == [e EXCEPT !.applies = Pruned(s, @, now)]
         IN  f \in Entry /\ WellFormed(f)
  <1> DEFINE A == Pruned(s, e.applies, now)
  <1>1. A \in SUBSET Nat /\ IsFiniteSet(A)
    <2>1. e.applies \in SUBSET Nat /\ IsFiniteSet(e.applies)
      BY DEF Entry, WellFormed
    <2> QED
      BY <2>1, PrunedFinite
  <1> HIDE DEF A
  <1>2. [e EXCEPT !.applies = A] \in Entry
    BY <1>1 DEF Entry
  <1>3. WellFormed([e EXCEPT !.applies = A])
    BY <1>1 DEF Entry, WellFormed
  <1> QED
    BY <1>2, <1>3 DEF A

LEMMA InitTyped == Init => TypeOK
  <1>1. EntriesOK([k \in Key |-> Fresh])
    BY EntriesFresh
  <1>2. NoCycle \in [Counter -> Nat]
    BY CounterFacts
  <1>3. 0 \in Time
    BY SizesAssumption DEF Time
  <1> QED
    BY <1>1, <1>2, <1>3 DEF Init, TypeOK, Phases

LEMMA BeginTickTyped ==
  ASSUME TypeOK, NEW gap \in 1..MaxGap, BeginTick(clock + gap)
  PROVE  /\ clock' \in Time /\ tickNow' = clock' /\ clock' > clock
         /\ phase' = "probe" /\ left' = Target
         /\ UNCHANGED <<todo, due, inBreach, cycle>>
  BY SizesAssumption DEF BeginTick, TypeOK, Time

LEMMA ForgetTyped ==
  ASSUME TypeOK, Forget
  PROVE  /\ forgotten' \in [Key -> SUBSET Time]
         /\ \A k \in Key : /\ forgotten[k] \subseteq forgotten'[k]
                           /\ \A p \in proposals[k] \ forgotten'[k] :
                                 p > clock - Hour => p \in Memory'[k].applies
  BY DEF TypeOK, Forget

LEMMA ProcessTyped == TypeOK /\ Process => TypeOK'
  <1> SUFFICES ASSUME TypeOK, Process PROVE TypeOK'
    OBVIOUS
  <1>1. CASE Wake
    <2>1. PICK gap \in 1..MaxGap : BeginTick(clock + gap)
      BY <1>1 DEF Wake
    <2>2. /\ clock' \in Time /\ tickNow' = clock' /\ phase' = "probe" /\ left' = Target
          /\ UNCHANGED <<todo, due, inBreach, cycle>>
      BY <2>1, BeginTickTyped
    <2>3. UNCHANGED <<states, disk, unlocked, proposals, documented, resolved,
                      lastQuiet, forgotten>>
      BY <1>1 DEF Wake, history
    <2>4. tickNow' <= clock'
      BY <2>2 DEF Time
    <2> QED
      BY <2>2, <2>3, <2>4 DEF TypeOK, Phases
  <1>2. CASE Save
    <2>1. EntriesOK(disk')
      BY <1>2, SnapshotIsIdentity DEF Save, TypeOK
    <2>2. phase' \in Phases
      BY <1>2 DEF Save, Phases
    <2>3. UNCHANGED <<clock, tickNow, left, todo, due, inBreach, cycle, states,
                      unlocked, proposals, documented, resolved, lastQuiet, forgotten>>
      BY <1>2 DEF Save, tickVars, history
    <2> QED
      BY <2>1, <2>2, <2>3 DEF TypeOK
  <1>3. CASE Crash
    <2>1. forgotten' \in [Key -> SUBSET Time]
      BY <1>3, ForgetTyped DEF Crash
    <2> QED
      BY <1>3, <2>1, EntriesFresh, CounterFacts DEF Crash, TypeOK, Phases
  <1>4. CASE Restart
    <2>1. PICK gap \in 1..MaxGap : BeginTick(clock + gap)
      BY <1>4 DEF Restart, LoadState
    <2>2. unlocked' \in SUBSET Scenario /\ EntriesOK(states')
      BY <1>4, EnvironmentAssumption DEF Restart, LoadState, TypeOK
    <2>3. /\ clock' \in Time /\ tickNow' = clock' /\ phase' = "probe" /\ left' = Target
          /\ UNCHANGED <<todo, due, inBreach, cycle>>
      BY <2>1, BeginTickTyped
    <2>4. /\ forgotten' \in [Key -> SUBSET Time]
          /\ UNCHANGED <<disk, proposals, documented, resolved, lastQuiet>>
      BY <1>4, ForgetTyped DEF Restart, LoadState
    <2>5. tickNow' <= clock'
      BY <2>3 DEF Time
    <2> QED
      BY <2>2, <2>3, <2>4, <2>5 DEF TypeOK, Phases
  <1>5. CASE Report
    BY <1>5, CounterFacts DEF Report, TypeOK, history, Phases
  <1> QED
    BY <1>1, <1>2, <1>3, <1>4, <1>5 DEF Process

LEMMA VisitTyped ==
  ASSUME TypeOK, NEW t \in Target, Visit(t)
  PROVE  TypeOK'
  <1>1. CASE ProbeSees(t)
    <2>1. Watched[t] \ unlocked \in SUBSET Scenario
      BY CatalogAssumption
    <2> QED
      BY <1>1, <2>1 DEF ProbeSees, TypeOK, history, Phases
  <1>2. CASE ProbeBlind(t)
    <2>1. EntriesOK(states')
      <3>1. states' = [k \in Key |-> IF k[1] = t /\ k[2] \in Watched[t] \ unlocked
                                    THEN Blinded(states[k]) ELSE states[k]]
        BY <1>2 DEF ProbeBlind
      <3>2. ASSUME NEW k \in Key
            PROVE  /\ states[k] \in Entry /\ WellFormed(states[k])
                   /\ Blinded(states[k]) \in Entry /\ WellFormed(Blinded(states[k]))
        BY EntriesPick, BlindedEntry DEF TypeOK
      <3> QED
        BY <3>1, <3>2 DEF EntriesOK
    <2>2. cycle' \in [Counter -> Nat]
      <3> DEFINE n == Cardinality(Watched[t] \ unlocked)
      <3>1. n \in Nat
        BY WatchedFinite
      <3>2. cycle' = [cycle EXCEPT !["blind"] = @ + n]
        BY <1>2 DEF ProbeBlind
      <3> HIDE DEF n
      <3> QED
        BY <3>1, <3>2 DEF TypeOK, Counter
    <2>3. lastQuiet' \in [Key -> Time]
      BY <1>2 DEF ProbeBlind, TypeOK
    <2>4. /\ left' \in SUBSET Target
          /\ UNCHANGED <<clock, phase, tickNow, todo, due, inBreach, disk, unlocked,
                         proposals, documented, resolved, forgotten>>
      BY <1>2 DEF ProbeBlind, TypeOK
    <2> QED
      BY <2>1, <2>2, <2>3, <2>4 DEF TypeOK
  <1>3. CASE TargetDone(t)
    BY <1>3 DEF TargetDone, TypeOK, history, Phases
  <1> QED
    BY <1>1, <1>2, <1>3 DEF Visit

LEMMA EvaluateTyped ==
  ASSUME TypeOK, NEW t \in Target, NEW s \in Scenario, Evaluate(t, s)
  PROVE  TypeOK'
  <1> DEFINE k == <<t, s>>
  <1>1. k \in Key /\ states[k] \in Entry /\ WellFormed(states[k]) /\ tickNow \in Nat
    BY EntriesPick DEF Key, TypeOK, Time
  <1>2. Count(cycle, "inBreach") \in [Counter -> Nat] /\ Count(cycle, "blind") \in [Counter -> Nat]
    BY CounterFacts DEF TypeOK, Counter
  <1> HIDE DEF k
  <1>3. CASE SignalBreach(t, s)
    <2>1. Breached(states[k], tickNow) \in Entry /\ WellFormed(Breached(states[k], tickNow))
      BY <1>1, BreachedEntry
    <2>2. Advance(t, s, Breached(states[k], tickNow),
                  Held(Breached(states[k], tickNow), s, tickNow), Count(cycle, "inBreach"))
      BY <1>3 DEF SignalBreach, k
    <2> QED
      BY <1>3, <1>2, <2>1, <2>2, AdvanceType DEF SignalBreach, TypeOK
  <1>4. CASE SignalClear(t, s)
    <2>1. Cleared(states[k]) \in Entry /\ WellFormed(Cleared(states[k]))
      BY <1>1, ClearedEntry
    <2>2. Advance(t, s, Cleared(states[k]), FALSE, cycle)
      BY <1>4 DEF SignalClear, k
    <2>3. resolved' \in SUBSET Key /\ documented' \in SUBSET Key
          /\ lastQuiet' \in [Key -> Time] /\ UNCHANGED forgotten
      BY <1>4, <1>1 DEF SignalClear, TypeOK, k, Advance
    <2> QED
      BY <2>1, <2>2, <2>3, AdvanceType DEF TypeOK
  <1>5. CASE SignalEmpty(t, s)
    <2>1. Cleared(states[k]) \in Entry /\ WellFormed(Cleared(states[k]))
      BY <1>1, ClearedEntry
    <2>2. Advance(t, s, Cleared(states[k]), FALSE, cycle)
      BY <1>5 DEF SignalEmpty, k
    <2>3. resolved' \in SUBSET Key /\ documented' \in SUBSET Key
          /\ lastQuiet' \in [Key -> Time] /\ UNCHANGED forgotten
      BY <1>5, <1>1 DEF SignalEmpty, TypeOK, k, Advance
    <2> QED
      BY <2>1, <2>2, <2>3, AdvanceType DEF TypeOK
  <1>6. CASE SignalError(t, s)
    <2>1. Advance(t, s, states[k], FALSE, Count(cycle, "blind"))
      BY <1>6 DEF SignalError, k
    <2> QED
      BY <1>6, <1>1, <1>2, <2>1, AdvanceType DEF SignalError, TypeOK
  <1> QED
    BY <1>3, <1>4, <1>5, <1>6 DEF Evaluate

LEMMA ClockMoves ==
  ASSUME TypeOK, clock' \in clock..(clock + MaxHandling), clock' <= MaxClock
  PROVE  clock' \in Time /\ clock' >= clock /\ tickNow <= clock' /\ clock' \in Nat
  BY SizesAssumption DEF TypeOK, Time

LEMMA DisposeTyped ==
  ASSUME TypeOK, NEW t \in Target, NEW s \in Scenario, Dispose(t, s)
  PROVE  TypeOK'
  <1> DEFINE k == <<t, s>>
             e == states[k]
  <1>1. k \in Key /\ e \in Entry /\ WellFormed(e)
    BY EntriesPick DEF Key, TypeOK
  <1> HIDE DEF k
  <1>2. CASE Suppress(t, s)
    <2>1. cycle' \in [Counter -> Nat]
      BY <1>2, CounterFacts DEF Suppress, TypeOK, Counter, Buckets
    <2> QED
      BY <1>2, <2>1 DEF Suppress, TypeOK, history
  <1>3. CASE RateLimit(t, s)
    <2> DEFINE f == [e EXCEPT !.state = "firing", !.applies = Live(@, clock)]
    <2>1. f \in Entry /\ WellFormed(f)
      BY <1>1, ThrottledEntry
    <2>2. Disposed(t, s, f, "rateLimited")
      BY <1>3 DEF RateLimit, k
    <2> HIDE DEF f
    <2> QED
      BY <1>3, <2>1, <2>2, DisposedType DEF RateLimit, TypeOK, Buckets
  <1>4. CASE Deliver(t, s)
    <2>1. clock' \in Time /\ tickNow <= clock' /\ clock' \in Nat
      BY <1>4, ClockMoves DEF Deliver
    <2> DEFINE f == [e EXCEPT !.state = "firing",
                              !.applies = Pruned(s, @, clock) \cup {clock'}]
    <2>2. f \in Entry /\ WellFormed(f)
      BY <1>1, <2>1, DeliveredEntry
    <2>3. Disposed(t, s, f, "reported")
      BY <1>4 DEF Deliver, k
    <2> HIDE DEF f
    <2>4. proposals' \in [Key -> SUBSET Time] /\ documented' \in SUBSET Key
      BY <1>4, <1>1, <2>1 DEF Deliver, TypeOK, k
    <2> QED
      BY <2>1, <2>2, <2>3, <2>4, DisposedType DEF TypeOK, Buckets
  <1>5. CASE Retry(t, s)
    <2>1. clock' \in Time /\ tickNow <= clock'
      BY <1>5, ClockMoves DEF Retry
    <2> DEFINE f == [e EXCEPT !.applies = Pruned(s, @, clock)]
    <2>2. f \in Entry /\ WellFormed(f)
      BY <1>1, RetriedEntry
    <2>3. Disposed(t, s, f, "retrying")
      BY <1>5 DEF Retry, k
    <2> HIDE DEF f
    <2> QED
      BY <1>5, <2>1, <2>2, <2>3, DisposedType DEF Retry, TypeOK, Buckets
  <1> QED
    BY <1>2, <1>3, <1>4, <1>5 DEF Dispose

LEMMA StutterTyped == TypeOK /\ UNCHANGED vars => TypeOK'
  BY DEF TypeOK, vars, tickVars, history

\* Every reachable state is well typed, and every inactive entry is as bare
\* as the one SaveState leaves out of its file.
THEOREM TypeCorrect == Spec => []TypeOK
  <1>1. TypeOK /\ [Next]_vars => TypeOK'
    BY ProcessTyped, VisitTyped, EvaluateTyped, DisposeTyped, StutterTyped DEF Next
  <1> QED
    BY <1>1, InitTyped, PTL DEF Spec

-----------------------------------------------------------------------------
(* What each group of actions does to the memory                           *)

\* Ticking, saving, stopping and starting change nothing the detector knows.
LEMMA ProcessKeepsMemory ==
  ASSUME CleanRestarts, TypeOK, SavedAtRest, Process
  PROVE  /\ Memory' = Memory
         /\ SavedAtRest'
         /\ clock' \in Time /\ clock' >= clock
         /\ UNCHANGED <<proposals, documented>>
  <1>0. clock \in Time
    BY DEF TypeOK
  <1>1. CASE Wake
    <2>1. PICK gap \in 1..MaxGap : BeginTick(clock + gap)
      BY <1>1 DEF Wake
    <2>2. clock' \in Time /\ clock' >= clock /\ phase' = "probe"
      BY <2>1, BeginTickTyped DEF TypeOK, Time
    <2> QED
      BY <1>1, <2>2 DEF Wake, Memory, SavedAtRest, history
  <1>2. CASE Save
    <2>1. disk' = states
      BY <1>2, SnapshotIsIdentity DEF Save, TypeOK, CleanRestarts
    <2> QED
      BY <1>0, <1>2, <2>1 DEF Save, Memory, SavedAtRest, history, Time
  <1>3. CASE Crash
    BY <1>0, <1>3 DEF Crash, CleanRestarts, Memory, SavedAtRest, Time
  <1>4. CASE Restart
    <2>1. PICK gap \in 1..MaxGap : BeginTick(clock + gap)
      BY <1>4 DEF Restart, LoadState
    <2>2. clock' \in Time /\ clock' >= clock /\ phase' = "probe"
      BY <2>1, BeginTickTyped DEF TypeOK, Time
    <2> QED
      BY <1>4, <2>2 DEF Restart, LoadState, CleanRestarts, Memory, SavedAtRest, history
  <1>5. CASE Report
    BY <1>0, <1>5 DEF Report, Memory, SavedAtRest, history, Time
  <1> QED
    BY <1>1, <1>2, <1>3, <1>4, <1>5 DEF Process

\* A visit to a target forgets no apply and no firing entry.
LEMMA VisitMemory ==
  ASSUME TypeOK, NEW t \in Target, Visit(t)
  PROVE  /\ Memory = states /\ Memory' = states'
         /\ SavedAtRest'
         /\ UNCHANGED <<clock, proposals, documented, forgotten>>
         /\ \A k \in Key : /\ states'[k].applies = states[k].applies
                           /\ states'[k].state = "firing" <=> states[k].state = "firing"
  <1>1. CASE ProbeSees(t)
    BY <1>1 DEF ProbeSees, Memory, SavedAtRest, history
  <1>2. CASE ProbeBlind(t)
    <2>1. ASSUME NEW k \in Key
          PROVE  /\ Blinded(states[k]).applies = states[k].applies
                 /\ Blinded(states[k]).state = "firing" <=> states[k].state = "firing"
      BY EntriesPick DEF TypeOK, Blinded, Cleared, Entry
    <2>2. states' = [k \in Key |-> IF k[1] = t /\ k[2] \in Watched[t] \ unlocked
                                  THEN Blinded(states[k]) ELSE states[k]]
      BY <1>2 DEF ProbeBlind
    <2> QED
      BY <1>2, <2>1, <2>2 DEF ProbeBlind, Memory, SavedAtRest
  <1>3. CASE TargetDone(t)
    BY <1>3 DEF TargetDone, Memory, SavedAtRest, history
  <1> QED
    BY <1>1, <1>2, <1>3 DEF Visit

\* An evaluation keeps the applies, and a firing entry unless its episode ends.
LEMMA EvaluateMemory ==
  ASSUME TypeOK, NEW t \in Target, NEW s \in Scenario, Evaluate(t, s)
  PROVE  /\ Memory = states /\ Memory' = states'
         /\ SavedAtRest'
         /\ UNCHANGED <<clock, proposals, forgotten>>
         /\ documented' \subseteq documented
         /\ \A k \in Key : /\ states'[k].applies = states[k].applies
                           /\ states'[k].state = "firing" => states[k].state = "firing"
         /\ \A k \in documented' :
               states[k].state = "firing" => states'[k].state = "firing"
  <1> DEFINE k == <<t, s>>
  <1>1. k \in Key /\ states \in [Key -> Entry]
    BY DEF Key, TypeOK, EntriesOK
  <1>2. /\ Cleared(states[k]).applies = states[k].applies
        /\ Cleared(states[k]).state = "inactive"
    BY <1>1 DEF Cleared, Entry
  <1>3. /\ Breached(states[k], tickNow).applies = states[k].applies
        /\ Breached(states[k], tickNow).state = "firing" <=> states[k].state = "firing"
    BY <1>1 DEF Breached, Entry
  <1> HIDE DEF k
  <1>4. CASE SignalBreach(t, s)
    <2>1. states' = [states EXCEPT ![k] = Breached(states[k], tickNow)]
      BY <1>4 DEF SignalBreach, Advance, k
    <2> QED
      BY <1>1, <1>3, <1>4, <2>1 DEF SignalBreach, Evaluating, Advance, Memory, SavedAtRest, TypeOK
  <1>5. CASE SignalClear(t, s)
    <2>1. states' = [states EXCEPT ![k] = Cleared(states[k])] /\ documented' = documented \ {k}
      BY <1>5 DEF SignalClear, Advance, k
    <2> QED
      BY <1>1, <1>2, <1>5, <2>1 DEF SignalClear, Evaluating, Advance, Memory, SavedAtRest, TypeOK
  <1>6. CASE SignalEmpty(t, s)
    <2>1. states' = [states EXCEPT ![k] = Cleared(states[k])] /\ documented' = documented \ {k}
      BY <1>6 DEF SignalEmpty, Advance, k
    <2> QED
      BY <1>1, <1>2, <1>6, <2>1 DEF SignalEmpty, Evaluating, Advance, Memory, SavedAtRest, TypeOK
  <1>7. CASE SignalError(t, s)
    <2>1. states' = states
      BY <1>1, <1>7 DEF SignalError, Advance, k
    <2> QED
      BY <1>7, <2>1 DEF SignalError, Evaluating, Advance, Memory, SavedAtRest
  <1> QED
    BY <1>4, <1>5, <1>6, <1>7 DEF Evaluate

-----------------------------------------------------------------------------
(* The guardrail                                                           *)

\* A subset of a typed set of instants has no more elements than the set.
LEMMA FewerInstants ==
  ASSUME NEW A, NEW B \in SUBSET Time, A \subseteq B, NEW n \in Nat, Cardinality(B) <= n
  PROVE  Cardinality(A) <= n
  <1>1. IsFiniteSet(Time)
    BY SizesAssumption, FS_Interval DEF Time
  <1>2. IsFiniteSet(B)
    BY <1>1, FS_Subset
  <1>3. IsFiniteSet(A) /\ Cardinality(A) <= Cardinality(B)
    BY <1>2, FS_Subset
  <1>4. Cardinality(A) \in Nat /\ Cardinality(B) \in Nat
    BY <1>2, <1>3, FS_CardinalityType
  <1> QED
    BY <1>3, <1>4

\* A step that proposes nothing, and puts down as forgotten every recent
\* apply it loses, keeps the guardrail's invariant.
LEMMA RateKept ==
  ASSUME TypeOK, RateInv,
         clock' \in Time, clock' >= clock, UNCHANGED proposals,
         \A k \in Key : forgotten[k] \subseteq forgotten'[k],
         \A k \in Key : \A p \in proposals[k] \ forgotten'[k] :
             p > clock - Hour /\ p \in Memory[k].applies => p \in Memory'[k].applies
  PROVE  RateInv'
  <1>1. /\ clock \in Nat /\ clock' \in Nat /\ Hour \in Nat
        /\ \A k \in Key : proposals[k] \subseteq Nat
    BY SizesAssumption DEF TypeOK, Time
  <1>2. WindowRemembered'
    <2> SUFFICES ASSUME NEW k \in Key, NEW p \in proposals[k] \ forgotten'[k],
                        p > clock' - Hour
                 PROVE  p \in Memory'[k].applies
      BY DEF WindowRemembered
    <2>1. p > clock - Hour
      BY <1>1
    <2>2. p \in Memory[k].applies
      BY <2>1 DEF RateInv, WindowRemembered
    <2> QED
      BY <2>1, <2>2
  <1>3. ProposalsPast'
    <2> SUFFICES ASSUME NEW k \in Key, NEW p \in proposals[k] PROVE p <= clock'
      BY DEF ProposalsPast
    <2>1. p <= clock /\ p \in Nat
      BY <1>1 DEF RateInv, ProposalsPast
    <2> QED
      BY <1>1, <2>1
  <1>4. ExcessIsForgotten'
    <2> SUFFICES ASSUME NEW k \in Key, MaxApplies[k[2]] > 0, NEW at \in proposals[k]
                 PROVE  Cardinality(Window(k, at) \ forgotten'[k]) <= MaxApplies[k[2]]
      BY DEF ExcessIsForgotten, Window
    <2>1. Cardinality(Window(k, at) \ forgotten[k]) <= MaxApplies[k[2]]
      BY DEF RateInv, ExcessIsForgotten
    <2>2. /\ Window(k, at) \ forgotten[k] \in SUBSET Time
          /\ Window(k, at) \ forgotten'[k] \subseteq Window(k, at) \ forgotten[k]
      BY DEF TypeOK, Window
    <2>3. MaxApplies[k[2]] \in Nat
      BY CatalogAssumption DEF Key
    <2> QED
      BY <2>1, <2>2, <2>3, FewerInstants
  <1> QED
    BY <1>2, <1>3, <1>4 DEF RateInv

\* Room for one more: when the guardrail lets an incident through, the window
\* that ends with its proposal is within the limit.
LEMMA RoomForOne ==
  ASSUME NEW s \in Scenario, MaxApplies[s] > 0,
         NEW applies, IsFiniteSet(applies), NEW at, ~Spent(s, applies, clock),
         NEW W, W \subseteq Live(applies, clock) \cup {at}
  PROVE  Cardinality(W) <= MaxApplies[s]
  <1> DEFINE L == Live(applies, clock)
  <1>1. IsFiniteSet(L)
    BY LiveFinite
  <1>2. Cardinality(L) \in Nat /\ MaxApplies[s] \in Nat
    BY <1>1, FS_CardinalityType, CatalogAssumption
  <1>3. Cardinality(L) < MaxApplies[s]
    BY <1>2 DEF Spent
  <1> HIDE DEF L
  <1>4. IsFiniteSet(L \cup {at}) /\ Cardinality(L \cup {at}) <= Cardinality(L) + 1
    BY <1>1, <1>2, FS_AddElement
  <1>5. /\ Cardinality(W) \in Nat
        /\ Cardinality(L \cup {at}) \in Nat
        /\ Cardinality(W) <= Cardinality(L \cup {at})
    <2>1. W \subseteq L \cup {at}
      BY DEF L
    <2>2. IsFiniteSet(W) /\ Cardinality(W) <= Cardinality(L \cup {at})
      BY <2>1, <1>4, FS_Subset
    <2> QED
      BY <2>2, <1>4, FS_CardinalityType
  <1> QED
    BY <1>2, <1>3, <1>4, <1>5

\* A proposal is stamped after all the earlier ones of its key, so it starts a
\* window of its own and leaves the windows of the earlier ones as they were.
LEMMA DeliverKeepsRate ==
  ASSUME TypeOK, RateInv, NEW t \in Target, NEW s \in Scenario, Deliver(t, s)
  PROVE  RateInv'
  <1> DEFINE k == <<t, s>>
             A == states[k].applies
  <1>1. k \in Key /\ states[k] \in Entry /\ WellFormed(states[k])
    BY EntriesPick DEF Key, TypeOK
  <1>2. A \subseteq Nat /\ IsFiniteSet(A)
    BY <1>1 DEF Entry, WellFormed
  <1>3. clock \in Nat /\ Hour \in Nat /\ \A j \in Key : proposals[j] \subseteq Nat
    BY SizesAssumption DEF TypeOK, Time
  <1>4. clock' \in Nat /\ clock' >= clock
    BY ClockMoves DEF Deliver
  <1>5. /\ phase = "evaluate" /\ phase' = "evaluate" /\ k[2] = s
        /\ proposals' = [proposals EXCEPT ![k] = @ \cup {clock'}]
        /\ ~Spent(s, A, clock)
    BY DEF Deliver, Disposed, Delivering
  <1>6. /\ states'[k].applies = Pruned(s, A, clock) \cup {clock'}
        /\ \A j \in Key \ {k} : states'[j] = states[j]
    <2> DEFINE B == Pruned(s, A, clock) \cup {clock'}
    <2>1. states' = [states EXCEPT ![k] = [states[k] EXCEPT !.state = "firing", !.applies = B]]
      BY DEF Deliver, Disposed
    <2> HIDE DEF B
    <2>2. states'[k].applies = B /\ \A j \in Key \ {k} : states'[j] = states[j]
      BY <1>1, <2>1 DEF TypeOK, EntriesOK, Entry
    <2> QED
      BY <2>2 DEF B
  <1>7. Memory = states /\ Memory' = states'
    BY <1>5 DEF Memory
  <1>8. /\ proposals'[k] = proposals[k] \cup {clock'}
        /\ \A j \in Key \ {k} : proposals'[j] = proposals[j]
    BY <1>1, <1>5 DEF TypeOK
  <1>9. \A j \in Key : \A p \in proposals[j] \ forgotten[j] :
            p > clock - Hour => p \in states[j].applies
    BY <1>7 DEF RateInv, WindowRemembered
  <1>10. \A j \in Key : \A p \in proposals[j] : p <= clock
    BY DEF RateInv, ProposalsPast
  <1> HIDE DEF k, A
  <1>11. forgotten' = forgotten
    BY DEF Deliver, Disposed
  <1>12. ProposalsPast'
    <2> SUFFICES ASSUME NEW j \in Key, NEW p \in proposals'[j] PROVE p <= clock'
      BY DEF ProposalsPast
    <2> QED
      BY <1>3, <1>4, <1>8, <1>10
  <1>13. WindowRemembered'
    <2> SUFFICES ASSUME NEW j \in Key, NEW p \in proposals'[j] \ forgotten[j],
                        p > clock' - Hour
                 PROVE  p \in states'[j].applies
      BY <1>7, <1>11 DEF WindowRemembered
    <2>1. CASE j # k
      <3>1. p \in Nat /\ p > clock - Hour
        BY <1>3, <1>4, <1>8, <2>1
      <3> QED
        BY <1>6, <1>8, <1>9, <2>1, <3>1
    <2>2. CASE j = k /\ p = clock'
      BY <1>6, <2>2
    <2>3. CASE j = k /\ p \in proposals[k]
      <3>1. p \in Nat /\ p > clock - Hour
        BY <1>1, <1>3, <1>4, <2>3
      <3>2. p \in A
        BY <1>1, <1>9, <2>3, <3>1 DEF A
      <3>3. p \in Pruned(s, A, clock)
        BY <3>1, <3>2 DEF Pruned, Live
      <3> QED
        BY <1>6, <2>3, <3>3
    <2> QED
      BY <1>8, <2>1, <2>2, <2>3
  <1>14. ExcessIsForgotten'
    <2> SUFFICES ASSUME NEW j \in Key, MaxApplies[j[2]] > 0, NEW at \in proposals'[j]
                 PROVE  Cardinality({p \in proposals'[j] : p > at - Hour /\ p <= at} \ forgotten[j])
                            <= MaxApplies[j[2]]
      BY <1>11 DEF ExcessIsForgotten, Window
    <2>1. ASSUME at \in proposals[j],
                 {p \in proposals'[j] : p > at - Hour /\ p <= at}
                     = {p \in proposals[j] : p > at - Hour /\ p <= at}
          PROVE  Cardinality({p \in proposals'[j] : p > at - Hour /\ p <= at} \ forgotten[j])
                     <= MaxApplies[j[2]]
      BY <2>1 DEF RateInv, ExcessIsForgotten, Window
    <2>2. CASE j # k
      BY <1>8, <2>1, <2>2
    <2>3. CASE j = k /\ at # clock'
      <3>1. at \in proposals[j] /\ at <= clock /\ at \in Nat
        BY <1>3, <1>8, <1>10, <2>3
      <3>2. at < clock'
        BY <1>3, <1>4, <2>3, <3>1
      <3>3. ~(clock' <= at)
        BY <1>4, <3>1, <3>2
      <3> QED
        BY <1>8, <2>1, <2>3, <3>1, <3>3
    <2>4. CASE j = k /\ at = clock'
      <3> DEFINE W == {p \in proposals'[j] : p > at - Hour /\ p <= at} \ forgotten[j]
      <3>1. W \subseteq Live(A, clock) \cup {at}
        <4> SUFFICES ASSUME NEW p \in W, p # at PROVE p \in Live(A, clock)
          OBVIOUS
        <4>1. p \in proposals[k] \ forgotten[k] /\ p > clock' - Hour
          BY <1>8, <2>4
        <4>2. p \in Nat /\ p > clock - Hour
          BY <1>1, <1>3, <1>4, <4>1
        <4>3. p \in A
          BY <1>1, <1>9, <4>1, <4>2 DEF A
        <4> QED
          BY <4>2, <4>3 DEF Live
      <3> HIDE DEF W
      <3>2. Cardinality(W) <= MaxApplies[s]
        BY <1>2, <1>5, <2>4, <3>1, RoomForOne
      <3> QED
        BY <1>5, <2>4, <3>2 DEF W
    <2> QED
      BY <2>2, <2>3, <2>4
  <1> QED
    BY <1>12, <1>13, <1>14 DEF RateInv

\* Delivering anything but a proposal keeps the applies the guardrail counts.
LEMMA DisposeKeepsRate ==
  ASSUME TypeOK, RateInv, NEW t \in Target, NEW s \in Scenario, Dispose(t, s)
  PROVE  RateInv'
  <1> DEFINE k == <<t, s>>
             A == states[k].applies
  <1>1. k \in Key /\ states[k] \in Entry /\ A \subseteq Nat /\ states \in [Key -> Entry]
    BY EntriesPick DEF Key, TypeOK, EntriesOK, Entry
  <1>2. clock \in Nat /\ clock \in Time /\ Hour \in Nat
    BY SizesAssumption DEF TypeOK, Time
  <1>3. ASSUME NEW B, NEW state,
               states' = [states EXCEPT ![k] = [states[k] EXCEPT !.state = state, !.applies = B]],
               Live(A, clock) \subseteq B,
               phase = "evaluate", phase' = "evaluate",
               clock' \in Time, clock' >= clock, UNCHANGED <<proposals, forgotten>>
        PROVE  RateInv'
    <2> HIDE DEF A, k
    <2>1. states'[k].applies = B /\ \A j \in Key \ {k} : states'[j] = states[j]
      BY <1>1, <1>3 DEF Entry
    <2>2. Memory = states /\ Memory' = states'
      BY <1>3 DEF Memory
    <2>3. ASSUME NEW j \in Key, NEW p \in Memory[j].applies, p > clock - Hour
          PROVE  p \in Memory'[j].applies
      <3>1. CASE j # k
        BY <2>1, <2>2, <2>3, <3>1
      <3>2. CASE j = k
        <4>1. p \in Live(A, clock)
          BY <2>2, <2>3, <3>2 DEF Live, A
        <4> QED
          BY <1>3, <2>1, <2>2, <3>2, <4>1
      <3> QED
        BY <3>1, <3>2
    <2> QED
      BY <1>3, <2>2, <2>3, RateKept
  <1>4. CASE Suppress(t, s)
    <2>1. UNCHANGED <<states, phase, clock, proposals, forgotten>> /\ phase = "evaluate"
      BY <1>4 DEF Suppress, Delivering, history
    <2>2. Memory' = Memory
      BY <2>1 DEF Memory
    <2> QED
      BY <1>2, <2>1, <2>2, RateKept
  <1>5. CASE RateLimit(t, s)
    <2> DEFINE B == Live(A, clock)
    <2>1. /\ states' = [states EXCEPT ![k] = [states[k] EXCEPT !.state = "firing", !.applies = B]]
          /\ phase = "evaluate" /\ phase' = "evaluate" /\ UNCHANGED <<clock, proposals, forgotten>>
      BY <1>5 DEF RateLimit, Disposed, Delivering
    <2>2. Live(A, clock) \subseteq B /\ clock >= clock
      BY <1>2
    <2> HIDE DEF B, k, A
    <2> QED
      BY <1>2, <1>3, <2>1, <2>2
  <1>6. CASE Deliver(t, s)
    BY <1>6, DeliverKeepsRate
  <1>7. CASE Retry(t, s)
    <2> DEFINE B == Pruned(s, A, clock)
    <2>1. /\ states' = [states EXCEPT ![k] = [states[k] EXCEPT !.applies = B]]
          /\ phase = "evaluate" /\ phase' = "evaluate" /\ UNCHANGED <<proposals, forgotten>>
      BY <1>7 DEF Retry, Disposed, Delivering
    <2>2. clock' \in Time /\ clock' >= clock
      BY <1>7, ClockMoves DEF Retry
    <2>3. Live(A, clock) \subseteq B
      BY DEF Pruned, Live
    <2> HIDE DEF B, A, k
    <2>4. [states[k] EXCEPT !.applies = B]
              = [states[k] EXCEPT !.state = states[k].state, !.applies = B]
      BY <1>1 DEF Entry
    <2>5. states' = [states EXCEPT ![k] = [states[k] EXCEPT !.state = states[k].state,
                                                            !.applies = B]]
      BY <2>1, <2>4
    <2> QED
      BY <1>3, <2>1, <2>2, <2>3, <2>5
  <1> QED
    BY <1>4, <1>5, <1>6, <1>7 DEF Dispose

LEMMA InitRate == Init => RateInv
  BY DEF Init, RateInv, WindowRemembered, ProposalsPast, ExcessIsForgotten

\* What a stop loses is put down as forgotten; starting, saving and sleeping
\* lose nothing.
LEMMA ProcessKeepsRate ==
  ASSUME TypeOK, RateInv, Process
  PROVE  RateInv'
  <1>0. clock \in Time /\ clock >= clock
    BY DEF TypeOK, Time
  <1>1. CASE Wake
    <2>1. PICK gap \in 1..MaxGap : BeginTick(clock + gap)
      BY <1>1 DEF Wake
    <2>2. clock' \in Time /\ clock' >= clock /\ phase' = "probe"
      BY <2>1, BeginTickTyped DEF TypeOK, Time
    <2>3. Memory' = Memory /\ UNCHANGED <<proposals, forgotten>>
      BY <1>1, <2>2 DEF Wake, Memory, history
    <2> QED
      BY <2>2, <2>3, RateKept
  <1>2. CASE Save
    <2>1. Memory' = Memory /\ UNCHANGED <<clock, proposals, forgotten>>
      BY <1>2 DEF Save, Memory, history
    <2> QED
      BY <1>0, <2>1, RateKept
  <1>3. CASE Crash
    <2>1. Forget /\ UNCHANGED <<clock, proposals>>
      BY <1>3 DEF Crash
    <2> QED
      BY <1>0, <2>1, ForgetTyped, RateKept
  <1>4. CASE Restart
    <2>1. PICK gap \in 1..MaxGap : BeginTick(clock + gap)
      BY <1>4 DEF Restart, LoadState
    <2>2. clock' \in Time /\ clock' >= clock
      BY <2>1, BeginTickTyped DEF TypeOK, Time
    <2>3. Forget /\ UNCHANGED proposals
      BY <1>4 DEF Restart, LoadState
    <2> QED
      BY <2>2, <2>3, ForgetTyped, RateKept
  <1>5. CASE Report
    <2>1. Memory' = Memory /\ UNCHANGED <<clock, proposals, forgotten>>
      BY <1>5 DEF Report, Memory, history
    <2> QED
      BY <1>0, <2>1, RateKept
  <1> QED
    BY <1>1, <1>2, <1>3, <1>4, <1>5 DEF Process

LEMMA StepKeepsRate ==
  ASSUME TypeOK, RateInv, [Next]_vars
  PROVE  RateInv'
  <1>0. clock \in Time /\ clock >= clock
    BY DEF TypeOK, Time
  <1>1. CASE Process
    BY <1>1, ProcessKeepsRate
  <1>2. ASSUME NEW t \in Target, Visit(t) PROVE RateInv'
    BY <1>0, <1>2, VisitMemory, RateKept
  <1>3. ASSUME NEW t \in Target, NEW s \in Scenario, Evaluate(t, s) PROVE RateInv'
    BY <1>0, <1>3, EvaluateMemory, RateKept
  <1>4. ASSUME NEW t \in Target, NEW s \in Scenario, Dispose(t, s) PROVE RateInv'
    BY <1>4, DisposeKeepsRate
  <1>5. CASE UNCHANGED vars
    BY <1>5 DEF vars, tickVars, history, RateInv, Memory, WindowRemembered,
                ProposalsPast, ExcessIsForgotten, Window
  <1> QED
    BY <1>1, <1>2, <1>3, <1>4, <1>5 DEF Next

\* Whatever is killed, not saved or not loaded, and however often, a window
\* exceeds maxAppliesPerHour only by proposals the process was never told of.
THEOREM ExcessBounded == Spec => []ExcessIsForgotten
  <1>1. TypeOK /\ RateInv /\ [Next]_vars => RateInv'
    BY StepKeepsRate
  <1>2. RateInv => ExcessIsForgotten
    BY DEF RateInv
  <1> QED
    BY <1>1, <1>2, InitRate, TypeCorrect, PTL DEF Spec

LEMMA InitForgetsNothing == Init => NothingForgotten
  BY DEF Init, NothingForgotten, SavedAtRest

LEMMA StepForgetsNothing ==
  ASSUME CleanRestarts, TypeOK, RateInv, NothingForgotten, [Next]_vars
  PROVE  NothingForgotten'
  <1>1. CASE Process
    <2>1. Memory' = Memory /\ SavedAtRest'
      BY <1>1, ProcessKeepsMemory DEF NothingForgotten
    <2>2. CASE Forget
      <3> SUFFICES ASSUME NEW k \in Key PROVE forgotten'[k] = {}
        BY <2>1 DEF NothingForgotten
      <3>1. \A p \in proposals[k] : p > clock - Hour => p \in Memory[k].applies
        BY DEF RateInv, WindowRemembered, NothingForgotten
      <3> QED
        BY <2>1, <2>2, <3>1 DEF Forget, NothingForgotten
    <2>3. Forget \/ UNCHANGED forgotten
      BY <1>1 DEF Process, Wake, Save, Crash, Restart, LoadState, Report, history
    <2> QED
      BY <2>1, <2>2, <2>3 DEF NothingForgotten
  <1>2. ASSUME NEW t \in Target, Visit(t) PROVE NothingForgotten'
    BY <1>2, VisitMemory DEF NothingForgotten
  <1>3. ASSUME NEW t \in Target, NEW s \in Scenario, Evaluate(t, s)
        PROVE  NothingForgotten'
    BY <1>3, EvaluateMemory DEF NothingForgotten
  <1>4. ASSUME NEW t \in Target, NEW s \in Scenario, Dispose(t, s)
        PROVE  NothingForgotten'
    <2>1. UNCHANGED <<forgotten, phase>> /\ phase = "evaluate"
      BY <1>4 DEF Dispose, Suppress, RateLimit, Deliver, Retry, Disposed, Delivering, history
    <2> QED
      BY <2>1 DEF NothingForgotten, SavedAtRest
  <1>5. CASE UNCHANGED vars
    BY <1>5 DEF vars, history, NothingForgotten, SavedAtRest
  <1> QED
    BY <1>1, <1>2, <1>3, <1>4, <1>5 DEF Next

\* maxAppliesPerHour holds in every window of every length, restarts included,
\* in any deployment whose restarts lose nothing.
THEOREM GuardrailHolds == ASSUME CleanRestarts PROVE Spec => []RateLimited
  <1>1. TypeOK /\ RateInv /\ NothingForgotten /\ [Next]_vars
            => RateInv' /\ NothingForgotten'
    BY StepKeepsRate, StepForgetsNothing
  <1>2. RateInv /\ NothingForgotten => RateLimited
    <2> SUFFICES ASSUME ExcessIsForgotten, NothingForgotten,
                        NEW k \in Key, MaxApplies[k[2]] > 0, NEW at \in proposals[k]
                 PROVE  Cardinality(Window(k, at)) <= MaxApplies[k[2]]
      BY DEF RateLimited, RateInv
    <2>1. Window(k, at) \ forgotten[k] = Window(k, at)
      BY DEF NothingForgotten
    <2> QED
      BY <2>1 DEF ExcessIsForgotten
  <1> QED
    BY <1>1, <1>2, InitRate, InitForgetsNothing, TypeCorrect, PTL DEF Spec

=============================================================================
