----------------------- MODULE DetectorEpisodeProofs -----------------------
(***************************************************************************)
(* Theorems about the episodes of Detector: one proposal per episode, the   *)
(* continuous hold, and the refinement of ProposalLedger; and about what    *)
(* one Tick accounts for: the buckets of the cycle summary, the incidents   *)
(* it leaves overdue and what silences them, and resolutions.  They rest    *)
(* on the types and on the guardrail's invariant of DetectorProofs.         *)
(***************************************************************************)
EXTENDS DetectorProofs

-----------------------------------------------------------------------------
(* What a step changes                                                     *)

LEMMA OneLeast ==
  ASSUME NEW S \in SUBSET Target, NEW t \in Target, NEW u \in Target,
         Least(t, S), Least(u, S)
  PROVE  t = u
  BY DEF Least, Target

LEMMA EvaluateChanges ==
  ASSUME TypeOK, NEW t \in Target, NEW s \in Scenario, Evaluate(t, s)
  PROVE  /\ phase = "evaluate" /\ phase' = "evaluate"
         /\ Least(t, left) /\ s \in todo
         /\ UNCHANGED <<tickNow, left, unlocked>>
         /\ todo' = todo \ {s}
         /\ due' = due \/ (due' = due \cup {s} /\ Held(states'[<<t, s>>], s, tickNow))
         /\ \A j \in Key \ {<<t, s>>} : states'[j] = states[j]
         /\ \/ lastQuiet' = lastQuiet /\ states'[<<t, s>>] = states[<<t, s>>]
            \/ /\ lastQuiet' = lastQuiet
               /\ states'[<<t, s>>] = Breached(states[<<t, s>>], tickNow)
            \/ /\ lastQuiet' = [lastQuiet EXCEPT ![<<t, s>>] = tickNow]
               /\ states'[<<t, s>>].state = "inactive"
  <1> DEFINE k == <<t, s>>
  <1>1. k \in Key /\ states \in [Key -> Entry]
    BY DEF Key, TypeOK, EntriesOK
  <1>2. Cleared(states[k]).state = "inactive"
    BY <1>1 DEF Cleared, Entry
  <1>3. ASSUME NEW e, NEW isDue, NEW counted,
               Advance(t, s, e, isDue, counted), isDue => Held(e, s, tickNow)
        PROVE  /\ phase' = phase /\ UNCHANGED <<tickNow, left, unlocked>>
               /\ todo' = todo \ {s}
               /\ due' = due \/ (due' = due \cup {s} /\ Held(states'[k], s, tickNow))
               /\ states'[k] = e
               /\ \A j \in Key \ {k} : states'[j] = states[j]
    <2>1. states' = [states EXCEPT ![k] = e]
      BY <1>3 DEF Advance, k
    <2> HIDE DEF k
    <2>2. states'[k] = e /\ \A j \in Key \ {k} : states'[j] = states[j]
      BY <1>1, <2>1
    <2> QED
      BY <1>3, <2>2 DEF Advance
  <1>4. CASE SignalBreach(t, s)
    <2> DEFINE e == Breached(states[k], tickNow)
    <2>1. Advance(t, s, e, Held(e, s, tickNow), Count(cycle, "inBreach"))
      BY <1>4 DEF SignalBreach
    <2>2. /\ phase = "evaluate" /\ Least(t, left) /\ s \in todo
          /\ lastQuiet' = lastQuiet
      BY <1>4 DEF SignalBreach, Evaluating, Least
    <2> HIDE DEF e, k
    <2> QED
      BY <1>3, <2>1, <2>2 DEF e, k
  <1>5. CASE SignalClear(t, s)
    <2>1. /\ phase = "evaluate" /\ Least(t, left) /\ s \in todo
          /\ lastQuiet' = [lastQuiet EXCEPT ![k] = tickNow]
          /\ Advance(t, s, Cleared(states[k]), FALSE, cycle)
      BY <1>5 DEF SignalClear, Evaluating, Least
    <2> QED
      BY <1>2, <1>3, <2>1
  <1>6. CASE SignalEmpty(t, s)
    <2>1. /\ phase = "evaluate" /\ Least(t, left) /\ s \in todo
          /\ lastQuiet' = [lastQuiet EXCEPT ![k] = tickNow]
          /\ Advance(t, s, Cleared(states[k]), FALSE, cycle)
      BY <1>6 DEF SignalEmpty, Evaluating, Least
    <2> QED
      BY <1>2, <1>3, <2>1
  <1>7. CASE SignalError(t, s)
    <2>1. /\ phase = "evaluate" /\ Least(t, left) /\ s \in todo
          /\ lastQuiet' = lastQuiet
          /\ Advance(t, s, states[k], FALSE, Count(cycle, "blind"))
      BY <1>7 DEF SignalError, Evaluating, Least
    <2> QED
      BY <1>3, <2>1
  <1> QED
    BY <1>4, <1>5, <1>6, <1>7 DEF Evaluate

LEMMA DisposeChanges ==
  ASSUME TypeOK, NEW t \in Target, NEW s \in Scenario, Dispose(t, s)
  PROVE  /\ phase = "evaluate" /\ phase' = "evaluate"
         /\ Least(t, left) /\ s \in due /\ todo = {}
         /\ UNCHANGED <<tickNow, left, todo, unlocked, lastQuiet, disk>>
         /\ due' = due \ {s}
         /\ \A j \in Key \ {<<t, s>>} : states'[j] = states[j]
         /\ states'[<<t, s>>].since = states[<<t, s>>].since
         /\ \/ /\ states'[<<t, s>>].state = states[<<t, s>>].state
               /\ documented' = documented
            \/ /\ states'[<<t, s>>].state = "firing"
               /\ documented' \subseteq documented \cup {<<t, s>>}
  <1> DEFINE k == <<t, s>>
  <1>1. k \in Key /\ states \in [Key -> Entry]
    BY DEF Key, TypeOK, EntriesOK
  <1>2. ASSUME NEW f, NEW bucket, Disposed(t, s, f, bucket), f.since = states[k].since
        PROVE  /\ phase = "evaluate" /\ phase' = "evaluate"
               /\ Least(t, left) /\ s \in due /\ todo = {}
               /\ UNCHANGED <<tickNow, left, todo, unlocked, lastQuiet, disk>>
               /\ due' = due \ {s}
               /\ \A j \in Key \ {k} : states'[j] = states[j]
               /\ states'[k] = f
               /\ states'[k].since = states[k].since
    <2>1. states' = [states EXCEPT ![k] = f]
      BY <1>2 DEF Disposed, k
    <2> HIDE DEF k
    <2>2. states'[k] = f /\ \A j \in Key \ {k} : states'[j] = states[j]
      BY <1>1, <2>1
    <2> QED
      BY <1>2, <2>2 DEF Disposed, Delivering, Least
  <1>3. ASSUME NEW A, NEW state
        PROVE  /\ [states[k] EXCEPT !.state = state, !.applies = A].since = states[k].since
               /\ [states[k] EXCEPT !.state = state, !.applies = A].state = state
               /\ [states[k] EXCEPT !.applies = A].since = states[k].since
               /\ [states[k] EXCEPT !.applies = A].state = states[k].state
    BY <1>1 DEF Entry
  <1>4. CASE Suppress(t, s)
    BY <1>4 DEF Suppress, Delivering, Least, history
  <1>5. CASE RateLimit(t, s)
    <2> DEFINE A == Live(states[k].applies, clock)
               f == [states[k] EXCEPT !.state = "firing", !.applies = A]
    <2>1. Disposed(t, s, f, "rateLimited") /\ documented' = documented
      BY <1>5 DEF RateLimit
    <2> HIDE DEF A
    <2>2. f.since = states[k].since /\ f.state = "firing"
      BY <1>3
    <2> HIDE DEF f
    <2> QED
      BY <1>2, <2>1, <2>2
  <1>6. CASE Deliver(t, s)
    <2> DEFINE A == Pruned(s, states[k].applies, clock) \cup {clock'}
               f == [states[k] EXCEPT !.state = "firing", !.applies = A]
    <2>1. Disposed(t, s, f, "reported") /\ documented' = documented \cup {k}
      BY <1>6 DEF Deliver
    <2> HIDE DEF A
    <2>2. f.since = states[k].since /\ f.state = "firing"
      BY <1>3
    <2> HIDE DEF f
    <2> QED
      BY <1>2, <2>1, <2>2
  <1>7. CASE Retry(t, s)
    <2> DEFINE A == Pruned(s, states[k].applies, clock)
               f == [states[k] EXCEPT !.applies = A]
    <2>1. Disposed(t, s, f, "retrying") /\ documented' = documented
      BY <1>7 DEF Retry
    <2> HIDE DEF A
    <2>2. f.since = states[k].since /\ f.state = states[k].state
      BY <1>3
    <2> HIDE DEF f
    <2> QED
      BY <1>2, <2>1, <2>2
  <1> QED
    BY <1>4, <1>5, <1>6, <1>7 DEF Dispose

-----------------------------------------------------------------------------
(* One proposal per episode                                                *)

LEMMA ProcessDue ==
  ASSUME DueIsPending, Process
  PROVE  due' = {} /\ todo' = {} /\ DueIsPending'
  <1>1. due' = {} /\ todo' = {}
    BY DEF DueIsPending, Process, Wake, Save, Crash, Restart, LoadState, Report, BeginTick, tickVars
  <1> QED
    BY <1>1 DEF DueIsPending

LEMMA VisitDue ==
  ASSUME DueIsPending, NEW t \in Target, Visit(t)
  PROVE  due = {} /\ DueIsPending'
  <1>1. due = {} /\ due' = {}
    BY DEF DueIsPending, Visit, ProbeSees, ProbeBlind, TargetDone
  <1>2. phase' # "evaluate" => todo' = {}
    BY DEF DueIsPending, Visit, ProbeSees, ProbeBlind, TargetDone
  <1> QED
    BY <1>1, <1>2 DEF DueIsPending

LEMMA EvaluateDue ==
  ASSUME TypeOK, DueIsPending, NEW t \in Target, NEW s \in Scenario, Evaluate(t, s)
  PROVE  DueIsPending'
  <1>1. /\ phase' = "evaluate" /\ Least(t, left) /\ s \in todo /\ left' = left
        /\ todo' = todo \ {s}
        /\ due' = due \/ (due' = due \cup {s} /\ Held(states'[<<t, s>>], s, tickNow))
        /\ \A j \in Key \ {<<t, s>>} : states'[j] = states[j]
    BY EvaluateChanges
  <1>2. s \notin due /\ todo \cap due = {}
    BY <1>1 DEF DueIsPending
  <1>3. ASSUME NEW u \in Target, Least(u, left), NEW r \in due'
        PROVE  states'[<<u, r>>].state = "pending"
    <2>1. u = t
      BY <1>1, <1>3, OneLeast DEF TypeOK
    <2>2. CASE r = s
      BY <1>1, <1>2, <1>3, <2>1, <2>2 DEF Held, HeldFor
    <2>3. CASE r # s
      <3>1. r \in due /\ <<t, r>> \in Key \ {<<t, s>>}
        BY <1>1, <1>3, <2>3 DEF TypeOK, Key
      <3> QED
        BY <1>1, <2>1, <3>1 DEF DueIsPending
    <2> QED
      BY <2>2, <2>3
  <1> QED
    BY <1>1, <1>2, <1>3 DEF DueIsPending

LEMMA DisposeDue ==
  ASSUME TypeOK, DueIsPending, NEW t \in Target, NEW s \in Scenario, Dispose(t, s)
  PROVE  states[<<t, s>>].state = "pending" /\ DueIsPending'
  <1>1. /\ phase' = "evaluate" /\ Least(t, left) /\ s \in due /\ left' = left
        /\ todo' = {} /\ due' = due \ {s}
        /\ \A j \in Key \ {<<t, s>>} : states'[j] = states[j]
    BY DisposeChanges
  <1>2. ASSUME NEW u \in Target, Least(u, left), NEW r \in due'
        PROVE  states'[<<u, r>>].state = "pending"
    <2>1. u = t /\ r # s /\ r \in due
      BY <1>1, <1>2, OneLeast DEF TypeOK
    <2>2. <<t, r>> \in Key \ {<<t, s>>}
      BY <2>1 DEF TypeOK, Key
    <2> QED
      BY <1>1, <2>1, <2>2 DEF DueIsPending
  <1> QED
    BY <1>1, <1>2 DEF DueIsPending

LEMMA InitEpisode == Init => EpisodeInv
  BY DEF Init, EpisodeInv, SavedAtRest, DocumentedIsFiring, DueIsPending

LEMMA StepKeepsEpisode ==
  ASSUME CleanRestarts, TypeOK, EpisodeInv, [Next]_vars
  PROVE  EpisodeInv'
  <1> USE DEF EpisodeInv
  <1>0. documented \subseteq Key
    BY DEF TypeOK
  <1>1. CASE Process
    <2>1. Memory' = Memory /\ SavedAtRest' /\ documented' = documented
      BY <1>1, ProcessKeepsMemory
    <2> QED
      BY <1>1, <2>1, ProcessDue DEF DocumentedIsFiring
  <1>2. ASSUME NEW t \in Target, Visit(t) PROVE EpisodeInv'
    BY <1>0, <1>2, VisitMemory, VisitDue DEF DocumentedIsFiring
  <1>3. ASSUME NEW t \in Target, NEW s \in Scenario, Evaluate(t, s) PROVE EpisodeInv'
    BY <1>0, <1>3, EvaluateMemory, EvaluateDue DEF DocumentedIsFiring
  <1>4. ASSUME NEW t \in Target, NEW s \in Scenario, Dispose(t, s) PROVE EpisodeInv'
    <2> DEFINE k == <<t, s>>
    <2>1. /\ phase = "evaluate" /\ phase' = "evaluate"
          /\ \A j \in Key \ {k} : states'[j] = states[j]
          /\ \/ states'[k].state = states[k].state /\ documented' = documented
             \/ states'[k].state = "firing" /\ documented' \subseteq documented \cup {k}
      BY <1>4, DisposeChanges
    <2>2. Memory = states /\ Memory' = states' /\ SavedAtRest'
      BY <2>1 DEF Memory, SavedAtRest
    <2> HIDE DEF k
    <2>3. DocumentedIsFiring'
      BY <1>0, <2>1, <2>2 DEF DocumentedIsFiring
    <2> QED
      BY <1>4, <2>2, <2>3, DisposeDue
  <1>5. CASE UNCHANGED vars
    BY <1>5 DEF vars, tickVars, history, SavedAtRest, Memory, DocumentedIsFiring, DueIsPending
  <1> QED
    BY <1>1, <1>2, <1>3, <1>4, <1>5 DEF Next

\* A proposal is made only for an entry that is due.
LEMMA OnlyDeliverProposes ==
  ASSUME CleanRestarts, TypeOK, EpisodeInv, [Next]_vars,
         NEW k \in Key, proposals'[k] # proposals[k]
  PROVE  \E t \in Target, s \in Scenario : k = <<t, s>> /\ Dispose(t, s)
  <1>1. ~ Process
    BY ProcessKeepsMemory DEF EpisodeInv
  <1>2. ASSUME NEW t \in Target PROVE ~Visit(t)
    BY VisitMemory
  <1>3. ASSUME NEW t \in Target, NEW s \in Scenario PROVE ~Evaluate(t, s)
    BY EvaluateMemory
  <1>4. ASSUME NEW t \in Target, NEW s \in Scenario, Dispose(t, s)
        PROVE  k = <<t, s>>
    <2>1. Deliver(t, s)
      BY <1>4 DEF Dispose, Suppress, RateLimit, Retry, history
    <2>2. proposals' = [proposals EXCEPT ![<<t, s>>] = @ \cup {clock'}]
      BY <2>1 DEF Deliver
    <2> QED
      BY <2>2 DEF TypeOK
  <1>5. ~ UNCHANGED vars
    BY DEF vars, history
  <1> QED
    BY <1>1, <1>2, <1>3, <1>4, <1>5 DEF Next

\* One episode, one proposal, for every catalog and every interleaving of
\* answers, failures and stops between two ticks.
THEOREM OneProposal == ASSUME CleanRestarts PROVE Spec => OneProposalPerEpisode
  <1>1. TypeOK /\ EpisodeInv /\ [Next]_vars => EpisodeInv'
    BY StepKeepsEpisode
  <1>2. TypeOK /\ EpisodeInv /\ [Next]_vars
            => [\A k \in Key : Proposed(k) => k \notin documented]_vars
    <2> SUFFICES ASSUME TypeOK, EpisodeInv, [Next]_vars, NEW k \in Key, Proposed(k)
                 PROVE  k \notin documented
      OBVIOUS
    <2>1. PICK t \in Target, s \in Scenario : k = <<t, s>> /\ Dispose(t, s)
      BY OnlyDeliverProposes DEF Proposed
    <2>2. states[k].state = "pending" /\ phase = "evaluate"
      BY <2>1, DisposeDue, DisposeChanges DEF EpisodeInv
    <2> QED
      BY <2>2 DEF EpisodeInv, DocumentedIsFiring, Memory
  <1> QED
    BY <1>1, <1>2, InitEpisode, TypeCorrect, PTL DEF Spec, OneProposalPerEpisode

\* What the operator was told about stays firing in memory or on disk.
THEOREM DocumentedStaysFiring == ASSUME CleanRestarts PROVE Spec => []DocumentedIsFiring
  <1>1. TypeOK /\ EpisodeInv /\ [Next]_vars => EpisodeInv'
    BY StepKeepsEpisode
  <1>2. EpisodeInv => DocumentedIsFiring
    BY DEF EpisodeInv
  <1> QED
    BY <1>1, <1>2, InitEpisode, TypeCorrect, PTL DEF Spec

-----------------------------------------------------------------------------
(* The hold                                                                *)

LEMMA InitHold == Init => HoldInv
  BY DEF Init, HoldInv, AskedOnce, Key, Memory, Fresh

LEMMA BeginTickHold ==
  ASSUME AlwaysLocked, CleanRestarts, TypeOK, EpisodeInv, HoldInv, Wake \/ Restart
  PROVE  HoldInv'
  <1>1. PICK gap \in 1..MaxGap : BeginTick(clock + gap)
    BY DEF Wake, Restart, LoadState
  <1>2. /\ tickNow' = clock' /\ clock' > clock /\ clock' \in Time
        /\ phase' = "probe" /\ UNCHANGED due
    BY <1>1, BeginTickTyped
  <1>3. /\ Memory' = Memory /\ due' = {}
    BY ProcessKeepsMemory, ProcessDue DEF EpisodeInv, Process
  <1>4. lastQuiet' = lastQuiet /\ unlocked' = {}
    BY DEF Wake, Restart, LoadState, AlwaysLocked, HoldInv, history
  <1>5. \A k \in Key : lastQuiet[k] < tickNow'
    <2> TAKE k \in Key
    <2>1. lastQuiet[k] \in Nat /\ lastQuiet[k] <= tickNow /\ tickNow <= clock
          /\ tickNow \in Nat /\ clock \in Nat /\ clock' \in Nat
      BY <1>2 DEF HoldInv, TypeOK, Time
    <2> QED
      BY <1>2, <2>1
  <1>6. left' \in SUBSET Target
    BY <1>1 DEF BeginTick
  <1>7. tickNow' \in Nat /\ \A k \in Key : lastQuiet[k] \in Nat
    BY <1>2 DEF TypeOK, Time
  <1> QED
    BY <1>2, <1>3, <1>4, <1>5, <1>6, <1>7 DEF HoldInv, AskedOnce, Key

LEMMA ProcessHold ==
  ASSUME AlwaysLocked, CleanRestarts, TypeOK, EpisodeInv, HoldInv, Process
  PROVE  HoldInv'
  <1>1. CASE Wake \/ Restart
    BY <1>1, BeginTickHold
  <1>2. CASE Save \/ Crash \/ Report
    <2>1. /\ Memory' = Memory /\ due' = {}
      BY ProcessKeepsMemory, ProcessDue DEF EpisodeInv
    <2>2. UNCHANGED <<tickNow, lastQuiet, unlocked>>
      BY <1>2 DEF Save, Crash, Report, tickVars, history
    <2>3. left' = {} \/ phase' \notin {"probe", "evaluate"}
      BY <1>2 DEF Save, Crash, Report
    <2> QED
      BY <2>1, <2>2, <2>3 DEF HoldInv, AskedOnce
  <1> QED
    BY <1>1, <1>2 DEF Process

\* An unobserved target is quiet: its pending episodes are gone.
LEMMA BlindHold ==
  ASSUME TypeOK, EpisodeInv, HoldInv, NEW t \in Target, ProbeBlind(t)
  PROVE  HoldInv'
  <1>1. /\ phase = "probe" /\ phase' = "probe" /\ due = {} /\ due' = {}
        /\ left' = left \ {t} /\ t \in left
        /\ UNCHANGED <<tickNow, unlocked>> /\ unlocked = {}
        /\ lastQuiet' = [k \in Key |-> IF k[1] = t /\ k[2] \in Watched[t]
                                       THEN tickNow ELSE lastQuiet[k]]
        /\ states' = [k \in Key |-> IF k[1] = t /\ k[2] \in Watched[t]
                                    THEN Blinded(states[k]) ELSE states[k]]
    BY DEF ProbeBlind, EpisodeInv, DueIsPending, HoldInv, Least
  <1>2. tickNow \in Nat
    BY DEF TypeOK, Time
  <1>3. \A k \in Key : lastQuiet'[k] <= tickNow
    BY <1>1, <1>2 DEF HoldInv
  <1>4. AskedOnce'
    <2> SUFFICES ASSUME NEW u \in left', NEW s \in Scenario
                 PROVE  lastQuiet'[<<u, s>>] < tickNow'
      BY DEF AskedOnce
    <2>1. u \in left /\ u # t /\ <<u, s>> \in Key
      BY <1>1 DEF TypeOK, Key
    <2> QED
      BY <1>1, <2>1 DEF HoldInv, AskedOnce
  <1>5. ASSUME NEW k \in Key, states'[k].state = "pending"
        PROVE  states'[k].since > lastQuiet'[k]
    <2>1. states[k] \in Entry
      BY EntriesPick DEF TypeOK
    <2>2. Blinded(states[k]).state # "pending"
      BY <2>1 DEF Blinded, Cleared, Entry
    <2>3. ~(k[1] = t /\ k[2] \in Watched[t])
      BY <1>1, <1>5, <2>2
    <2>4. states'[k] = states[k] /\ lastQuiet'[k] = lastQuiet[k]
      BY <1>1, <2>3
    <2> QED
      BY <1>1, <1>5, <2>4 DEF HoldInv, Memory
  <1> QED
    BY <1>1, <1>3, <1>4, <1>5 DEF HoldInv, Memory

LEMMA VisitHold ==
  ASSUME TypeOK, EpisodeInv, HoldInv, NEW t \in Target, Visit(t)
  PROVE  HoldInv'
  <1>1. CASE ProbeSees(t)
    <2>1. /\ phase = "probe" /\ phase' = "evaluate" /\ due' = {}
          /\ UNCHANGED <<tickNow, left, unlocked, lastQuiet, states>>
      BY <1>1 DEF ProbeSees, EpisodeInv, DueIsPending, history
    <2> QED
      BY <2>1 DEF HoldInv, AskedOnce, Memory
  <1>2. CASE ProbeBlind(t)
    BY <1>2, BlindHold
  <1>3. CASE TargetDone(t)
    <2>1. /\ phase = "evaluate" /\ phase' = "probe" /\ due' = {}
          /\ left' = left \ {t} /\ Least(t, left) /\ left \subseteq Target
          /\ UNCHANGED <<tickNow, unlocked, lastQuiet, states>>
      BY <1>3 DEF TargetDone, history, TypeOK
    <2>2. AskedOnce'
      <3> SUFFICES ASSUME NEW u \in left', NEW s \in Scenario
                   PROVE  lastQuiet[<<u, s>>] < tickNow
        BY <2>1 DEF AskedOnce
      <3>1. u \in left /\ ~Least(u, left)
        BY <2>1, OneLeast
      <3> QED
        BY <2>1, <3>1 DEF HoldInv, AskedOnce
    <2> QED
      BY <2>1, <2>2 DEF HoldInv, Memory
  <1> QED
    BY <1>1, <1>2, <1>3 DEF Visit

LEMMA EvaluateHold ==
  ASSUME TypeOK, EpisodeInv, HoldInv, NEW t \in Target, NEW s \in Scenario, Evaluate(t, s)
  PROVE  HoldInv'
  <1> DEFINE k == <<t, s>>
  <1>1. k \in Key /\ states[k] \in Entry
    BY EntriesPick DEF Key, TypeOK
  <1>2. /\ phase = "evaluate" /\ phase' = "evaluate"
        /\ Least(t, left) /\ s \in todo
        /\ UNCHANGED <<tickNow, left, unlocked>>
        /\ todo' = todo \ {s}
        /\ due' = due \/ (due' = due \cup {s} /\ Held(states'[k], s, tickNow))
        /\ \A j \in Key \ {k} : states'[j] = states[j]
        /\ \/ lastQuiet' = lastQuiet /\ states'[k] = states[k]
           \/ lastQuiet' = lastQuiet /\ states'[k] = Breached(states[k], tickNow)
           \/ /\ lastQuiet' = [lastQuiet EXCEPT ![k] = tickNow]
              /\ states'[k].state = "inactive"
    BY EvaluateChanges
  <1>3. s \notin due /\ t \in left /\ tickNow \in Nat
    BY <1>2 DEF EpisodeInv, DueIsPending, Least, TypeOK, Time
  <1>4. lastQuiet[k] < tickNow
    BY <1>2, <1>3 DEF HoldInv, AskedOnce
  <1>5. \A j \in Key \ {k} : lastQuiet'[j] = lastQuiet[j]
    BY <1>2 DEF TypeOK
  <1>6. lastQuiet'[k] <= tickNow
    BY <1>1, <1>2, <1>3 DEF HoldInv, TypeOK
  <1>7. states'[k].state = "pending" => states'[k].since > lastQuiet'[k]
    <2>1. states[k].state = "pending" => states[k].since > lastQuiet[k]
      BY <1>1, <1>2 DEF HoldInv, Memory
    <2>2. Breached(states[k], tickNow).state = "pending"
             => \/ Breached(states[k], tickNow) = states[k]
                \/ Breached(states[k], tickNow).since = tickNow
      BY <1>1 DEF Breached, Entry
    <2>3. lastQuiet[k] \in Nat
      BY <1>1 DEF TypeOK, Time
    <2> QED
      BY <1>2, <1>3, <1>4, <2>1, <2>2, <2>3
  <1> HIDE DEF k
  <1>8. \A j \in Key : lastQuiet'[j] <= tickNow'
    BY <1>2, <1>5, <1>6 DEF HoldInv
  <1>9. AskedOnce'
    <2> SUFFICES ASSUME NEW u \in left', NEW r \in Scenario,
                        r \in todo' \/ ~Least(u, left')
                 PROVE  lastQuiet'[<<u, r>>] < tickNow'
      BY <1>2 DEF AskedOnce
    <2>1. u \in left /\ (r \in todo \/ ~Least(u, left)) /\ <<u, r>> \in Key
      BY <1>2 DEF TypeOK, Key
    <2>2. <<u, r>> # k
      BY <1>2 DEF k
    <2>3. lastQuiet[<<u, r>>] < tickNow
      BY <1>2, <2>1 DEF HoldInv, AskedOnce
    <2> QED
      BY <1>2, <1>5, <2>1, <2>2, <2>3
  <1>10. \A j \in Key : states'[j].state = "pending" => states'[j].since > lastQuiet'[j]
    <2> TAKE j \in Key
    <2>1. CASE j = k
      BY <1>7, <2>1
    <2>2. CASE j # k
      BY <1>2, <1>5, <2>2 DEF HoldInv, Memory
    <2> QED
      BY <2>1, <2>2
  <1>11. ASSUME NEW u \in Target, Least(u, left'), NEW r \in due'
         PROVE  Held(states'[<<u, r>>], r, tickNow')
    <2>1. u = t
      BY <1>2, <1>11, OneLeast DEF TypeOK
    <2>2. CASE r = s /\ r \notin due
      BY <1>2, <1>11, <2>1, <2>2 DEF k
    <2>3. CASE r \in due
      <3>1. r # s /\ r \in Scenario
        BY <1>3, <2>3 DEF TypeOK
      <3>2. <<t, r>> \in Key \ {k}
        BY <3>1 DEF Key, k
      <3>3. Held(states[<<t, r>>], r, tickNow)
        BY <1>2, <2>3 DEF HoldInv
      <3> QED
        BY <1>2, <2>1, <3>2, <3>3
    <2> QED
      BY <1>2, <1>11, <2>2, <2>3
  <1> QED
    BY <1>2, <1>8, <1>9, <1>10, <1>11 DEF HoldInv, Memory

LEMMA DisposeHold ==
  ASSUME TypeOK, EpisodeInv, HoldInv, NEW t \in Target, NEW s \in Scenario, Dispose(t, s)
  PROVE  /\ tickNow - lastQuiet[<<t, s>>] > Hold[s]
         /\ HoldInv'
  <1> DEFINE k == <<t, s>>
  <1>1. k \in Key /\ states[k] \in Entry
    BY EntriesPick DEF Key, TypeOK
  <1>2. /\ phase = "evaluate" /\ phase' = "evaluate"
        /\ Least(t, left) /\ s \in due /\ todo = {}
        /\ UNCHANGED <<tickNow, left, todo, unlocked, lastQuiet>>
        /\ due' = due \ {s}
        /\ \A j \in Key \ {k} : states'[j] = states[j]
        /\ states'[k].since = states[k].since
        /\ states'[k].state = states[k].state \/ states'[k].state = "firing"
    BY DisposeChanges
  <1>3. states[k].state = "pending" /\ tickNow - states[k].since >= Hold[s]
    BY <1>2 DEF HoldInv, Held, HeldFor
  <1>4. states[k].since > lastQuiet[k]
    BY <1>1, <1>2, <1>3 DEF HoldInv, Memory
  <1>5. tickNow - lastQuiet[k] > Hold[s]
    <2>1. tickNow \in Nat /\ lastQuiet[k] \in Nat /\ states[k].since \in Nat /\ Hold[s] \in Nat
      BY <1>1, CatalogAssumption DEF TypeOK, Time, Entry
    <2> QED
      BY <1>3, <1>4, <2>1
  <1>6. \A j \in Key : states'[j].state = "pending" => states'[j].since > lastQuiet'[j]
    <2> HIDE DEF k
    <2> QED
      BY <1>2, <1>4 DEF HoldInv, Memory
  <1>7. ASSUME NEW u \in Target, Least(u, left'), NEW r \in due'
        PROVE  Held(states'[<<u, r>>], r, tickNow')
    <2>1. u = t /\ r # s /\ r \in due
      BY <1>2, <1>7, OneLeast DEF TypeOK
    <2>2. <<t, r>> \in Key \ {k}
      BY <2>1 DEF TypeOK, Key
    <2>3. Held(states[<<t, r>>], r, tickNow)
      BY <1>2, <2>1 DEF HoldInv
    <2> QED
      BY <1>2, <2>1, <2>2, <2>3
  <1>8. AskedOnce' /\ unlocked' = {} /\ \A j \in Key : lastQuiet'[j] <= tickNow'
    BY <1>2 DEF HoldInv, AskedOnce
  <1> QED
    BY <1>2, <1>5, <1>6, <1>7, <1>8 DEF HoldInv, Memory

LEMMA StepKeepsHold ==
  ASSUME AlwaysLocked, CleanRestarts, TypeOK, EpisodeInv, HoldInv, [Next]_vars
  PROVE  HoldInv'
  <1>1. CASE UNCHANGED vars
    BY <1>1 DEF vars, tickVars, history, HoldInv, AskedOnce, Memory
  <1> QED
    BY <1>1, ProcessHold, VisitHold, EvaluateHold, DisposeHold DEF Next

\* The for-duration is continuous, for every hold and every length of tick,
\* sleep or downtime: nothing goes out within a hold of the last quiet tick.
THEOREM HoldIsContinuous ==
  ASSUME CleanRestarts, AlwaysLocked PROVE Spec => HoldHonoured
  <1>1. TypeOK /\ EpisodeInv /\ [Next]_vars => EpisodeInv'
    BY StepKeepsEpisode
  <1>2. TypeOK /\ EpisodeInv /\ HoldInv /\ [Next]_vars => HoldInv'
    BY StepKeepsHold
  <1>3. TypeOK /\ EpisodeInv /\ HoldInv /\ [Next]_vars
            => [\A k \in Key : Proposed(k) => tickNow - lastQuiet[k] > Hold[k[2]]]_vars
    BY OnlyDeliverProposes, DisposeHold DEF Proposed
  <1> QED
    BY <1>1, <1>2, <1>3, InitEpisode, InitHold, TypeCorrect, PTL DEF Spec, HoldHonoured

-----------------------------------------------------------------------------
(* The refinement of ProposalLedger                                        *)

Open == {k \in Key : Memory[k].state = "firing"}

\* The ledger counts as the detector does.
LEMMA SameCount == \A S : Ledger!Cardinality(S) = Cardinality(S)
  BY DEF Cardinality, Ledger!Cardinality

\* In a state with LedgerInv the guardrail's window is the ledger's.
LEMMA WindowIsLedger ==
  ASSUME TypeOK, LedgerInv, phase # "down", NEW k \in Key
  PROVE  /\ Ledger!Recent(k) = Live(states[k].applies, clock)
         /\ Ledger!Full(k) <=> Spent(k[2], states[k].applies, clock)
  <1>1. Ledger!Recent(k) = {p \in proposals[k] : p > clock - Hour}
    BY DEF Ledger!Recent
  <1>2. \A p \in proposals[k] : p > clock - Hour => p \in states[k].applies
    BY DEF LedgerInv, RateInv, WindowRemembered, NothingForgotten, Memory
  <1>3. states[k].applies \subseteq proposals[k]
    BY DEF LedgerInv, AppliesProposed, Memory
  <1>4. Ledger!Recent(k) = Live(states[k].applies, clock)
    BY <1>1, <1>2, <1>3 DEF Live
  <1>5. Ledger!Cardinality(Ledger!Recent(k)) = Cardinality(Live(states[k].applies, clock))
    BY <1>4, SameCount
  <1> QED
    BY <1>4, <1>5 DEF Ledger!Full, Spent

LEMMA InitLedger == Init => LedgerInv /\ Ledger!Start
  BY InitRate, InitForgetsNothing, InitEpisode
     DEF Init, LedgerInv, AppliesProposed, Memory, Fresh, Ledger!Start

LEMMA StayPut ==
  ASSUME clock' \in Time, clock' >= clock, UNCHANGED proposals, Open' = Open
  PROVE  Ledger!Step
  BY SizesAssumption DEF Open, Ledger!Step, Ledger!Pass, Ledger!Later, Time

LEMMA ProcessRefines ==
  ASSUME CleanRestarts, TypeOK, LedgerInv, Process
  PROVE  Ledger!Step /\ AppliesProposed'
  <1>1. /\ Memory' = Memory /\ clock' \in Time /\ clock' >= clock
        /\ UNCHANGED proposals
    BY ProcessKeepsMemory DEF LedgerInv, NothingForgotten
  <1>2. Open' = Open
    BY <1>1 DEF Open
  <1> QED
    BY <1>1, <1>2, StayPut DEF LedgerInv, AppliesProposed

LEMMA VisitRefines ==
  ASSUME TypeOK, LedgerInv, NEW t \in Target, Visit(t)
  PROVE  Ledger!Step /\ AppliesProposed'
  <1>1. /\ Memory = states /\ Memory' = states' /\ UNCHANGED <<clock, proposals>>
        /\ \A k \in Key : /\ states'[k].applies = states[k].applies
                          /\ states'[k].state = "firing" <=> states[k].state = "firing"
    BY VisitMemory
  <1>2. Open' = Open
    BY <1>1 DEF Open
  <1>3. clock' \in Time /\ clock' >= clock
    BY <1>1 DEF TypeOK, Time
  <1> QED
    BY <1>1, <1>2, <1>3, StayPut DEF LedgerInv, AppliesProposed

LEMMA EvaluateRefines ==
  ASSUME TypeOK, LedgerInv, NEW t \in Target, NEW s \in Scenario, Evaluate(t, s)
  PROVE  Ledger!Step /\ AppliesProposed'
  <1> DEFINE k == <<t, s>>
  <1>1. /\ Memory = states /\ Memory' = states' /\ UNCHANGED <<clock, proposals>>
        /\ \A j \in Key : /\ states'[j].applies = states[j].applies
                          /\ states'[j].state = "firing" => states[j].state = "firing"
    BY EvaluateMemory
  <1>2. \A j \in Key \ {k} : states'[j] = states[j]
    BY EvaluateChanges
  <1>3. k \in Key
    BY DEF Key
  <1>4. clock' \in Time /\ clock' >= clock
    BY <1>1 DEF TypeOK, Time
  <1> HIDE DEF k
  <1>5. Open' = Open \/ (k \in Open /\ Open' = Open \ {k})
    BY <1>1, <1>2, <1>3 DEF Open
  <1>6. CASE Open' = Open
    BY <1>1, <1>4, <1>6, StayPut DEF LedgerInv, AppliesProposed
  <1>7. CASE k \in Open /\ Open' = Open \ {k}
    <2>1. Ledger!Close(k)
      BY <1>1, <1>7 DEF Ledger!Close, Open
    <2> QED
      BY <1>1, <1>3, <2>1 DEF LedgerInv, AppliesProposed, Ledger!Step
  <1> QED
    BY <1>5, <1>6, <1>7

\* What a disposal does to the applies of its entry.
LEMMA DisposeApplies ==
  ASSUME TypeOK, NEW t \in Target, NEW s \in Scenario, Dispose(t, s)
  PROVE  LET k == <<t, s>> IN
         \/ /\ states'[k].applies \subseteq states[k].applies
            /\ proposals' = proposals
         \/ /\ states'[k].applies \subseteq states[k].applies \cup {clock'}
            /\ proposals' = [proposals EXCEPT ![k] = @ \cup {clock'}]
  <1> DEFINE k == <<t, s>>
             A == states[k].applies
  <1>1. k \in Key /\ states[k] \in Entry /\ states \in [Key -> Entry]
    BY EntriesPick DEF Key, TypeOK, EntriesOK
  <1>2. Live(A, clock) \subseteq A /\ Pruned(s, A, clock) \subseteq A
    BY DEF Live, Pruned
  <1>3. ASSUME NEW B, NEW state,
               \/ states' = [states EXCEPT ![k] = [states[k] EXCEPT !.state = state, !.applies = B]]
               \/ states' = [states EXCEPT ![k] = [states[k] EXCEPT !.applies = B]]
        PROVE  states'[k].applies = B
    <2> HIDE DEF k
    <2> QED
      BY <1>1, <1>3 DEF Entry
  <1>4. CASE Suppress(t, s)
    BY <1>4 DEF Suppress, history
  <1>5. CASE RateLimit(t, s)
    <2> DEFINE B == Live(A, clock)
    <2>1. /\ states' = [states EXCEPT ![k] = [states[k] EXCEPT !.state = "firing", !.applies = B]]
          /\ proposals' = proposals
      BY <1>5 DEF RateLimit, Disposed
    <2> HIDE DEF B
    <2>2. states'[k].applies = B
      BY <1>3, <2>1
    <2> QED
      BY <1>2, <2>1, <2>2 DEF B
  <1>6. CASE Deliver(t, s)
    <2> DEFINE B == Pruned(s, A, clock) \cup {clock'}
    <2>1. /\ states' = [states EXCEPT ![k] = [states[k] EXCEPT !.state = "firing", !.applies = B]]
          /\ proposals' = [proposals EXCEPT ![k] = @ \cup {clock'}]
      BY <1>6 DEF Deliver, Disposed
    <2> HIDE DEF B
    <2>2. states'[k].applies = B
      BY <1>3, <2>1
    <2> QED
      BY <1>2, <2>1, <2>2 DEF B
  <1>7. CASE Retry(t, s)
    <2> DEFINE B == Pruned(s, A, clock)
    <2>1. /\ states' = [states EXCEPT ![k] = [states[k] EXCEPT !.applies = B]]
          /\ proposals' = proposals
      BY <1>7 DEF Retry, Disposed
    <2> HIDE DEF B
    <2>2. states'[k].applies = B
      BY <1>3, <2>1
    <2> QED
      BY <1>2, <2>1, <2>2 DEF B
  <1> QED
    BY <1>4, <1>5, <1>6, <1>7 DEF Dispose

LEMMA DisposeRefines ==
  ASSUME TypeOK, LedgerInv, NEW t \in Target, NEW s \in Scenario, Dispose(t, s)
  PROVE  Ledger!Step /\ AppliesProposed'
  <1> DEFINE k == <<t, s>>
  <1>1. k \in Key /\ k[2] = s
    BY DEF Key
  <1>2. /\ phase = "evaluate" /\ phase' = "evaluate"
        /\ \A j \in Key \ {k} : states'[j] = states[j]
    BY DisposeChanges
  <1>3. Memory = states /\ Memory' = states' /\ phase # "down"
    BY <1>2 DEF Memory
  <1>4. states[k].state = "pending"
    BY DisposeDue DEF LedgerInv, EpisodeInv
  <1>5. states \in [Key -> Entry] /\ states[k] \in Entry
    BY <1>1 DEF TypeOK, EntriesOK
  <1>6. \/ /\ states'[k].applies \subseteq states[k].applies
           /\ proposals' = proposals
        \/ /\ states'[k].applies \subseteq states[k].applies \cup {clock'}
           /\ proposals' = [proposals EXCEPT ![k] = @ \cup {clock'}]
    BY DisposeApplies
  <1> HIDE DEF k
  <1>7. AppliesProposed'
    BY <1>1, <1>2, <1>3, <1>6 DEF LedgerInv, AppliesProposed, TypeOK
  <1>8. ASSUME states'[k].state = "firing"
        PROVE  k \notin Open /\ Open' = Open \cup {k}
    BY <1>1, <1>2, <1>3, <1>4, <1>8 DEF Open
  <1>9. ASSUME states'[k].state = "pending"
        PROVE  Open' = Open
    BY <1>1, <1>2, <1>3, <1>4, <1>9 DEF Open
  <1>10. clock \in Time /\ clock >= clock
    BY DEF TypeOK, Time
  <1>11. CASE Suppress(t, s)
    <2>1. UNCHANGED <<clock, proposals>> /\ states'[k].state = "pending"
      BY <1>4, <1>11 DEF Suppress, history
    <2> QED
      BY <1>7, <1>9, <1>10, <2>1, StayPut
  <1>12. CASE RateLimit(t, s)
    <2>1. UNCHANGED <<clock, proposals>> /\ Spent(s, states[k].applies, clock)
      BY <1>12 DEF RateLimit, k
    <2>2. states'[k].state = "firing"
      <3> DEFINE A == Live(states[k].applies, clock)
      <3>1. states' = [states EXCEPT ![k] = [states[k] EXCEPT !.state = "firing", !.applies = A]]
        BY <1>12 DEF RateLimit, Disposed, k
      <3> HIDE DEF A
      <3> QED
        BY <1>1, <1>5, <3>1 DEF Entry
    <2>3. Ledger!Withhold(k)
      BY <1>1, <1>3, <1>8, <2>1, <2>2, WindowIsLedger DEF Ledger!Withhold, Open
    <2> QED
      BY <1>1, <1>7, <2>3 DEF Ledger!Step
  <1>13. CASE Deliver(t, s)
    <2>1. ~Spent(s, states[k].applies, clock)
          /\ proposals' = [proposals EXCEPT ![k] = @ \cup {clock'}]
      BY <1>13 DEF Deliver, k
    <2>2. states'[k].state = "firing"
      <3> DEFINE A == Pruned(s, states[k].applies, clock) \cup {clock'}
      <3>1. states' = [states EXCEPT ![k] = [states[k] EXCEPT !.state = "firing", !.applies = A]]
        BY <1>13 DEF Deliver, Disposed, k
      <3> HIDE DEF A
      <3> QED
        BY <1>1, <1>5, <3>1 DEF Entry
    <2>3. clock' \in Nat /\ clock' >= clock
      BY <1>13, ClockMoves DEF Deliver
    <2>4. Ledger!Propose(k)
      BY <1>1, <1>3, <1>8, <2>1, <2>2, <2>3, WindowIsLedger
         DEF Ledger!Propose, Ledger!Later, Open
    <2> QED
      BY <1>1, <1>7, <2>4 DEF Ledger!Step
  <1>14. CASE Retry(t, s)
    <2>1. UNCHANGED proposals /\ clock' \in Time /\ clock' >= clock
      BY <1>14, ClockMoves DEF Retry
    <2>2. states'[k].state = "pending"
      <3> DEFINE A == Pruned(s, states[k].applies, clock)
      <3>1. states' = [states EXCEPT ![k] = [states[k] EXCEPT !.applies = A]]
        BY <1>14 DEF Retry, Disposed, k
      <3> HIDE DEF A
      <3> QED
        BY <1>1, <1>4, <1>5, <3>1 DEF Entry
    <2> QED
      BY <1>7, <1>9, <2>1, <2>2, StayPut
  <1> QED
    BY <1>11, <1>12, <1>13, <1>14 DEF Dispose

LEMMA StepRefines ==
  ASSUME CleanRestarts, TypeOK, LedgerInv, [Next]_vars
  PROVE  LedgerInv' /\ [Ledger!Step]_<<clock, Open, proposals>>
  <1>1. RateInv' /\ NothingForgotten' /\ EpisodeInv'
    BY StepKeepsRate, StepForgetsNothing, StepKeepsEpisode DEF LedgerInv
  <1>2. CASE UNCHANGED vars
    <2>1. Open' = Open /\ AppliesProposed'
      BY <1>2 DEF vars, history, Open, Memory, LedgerInv, AppliesProposed
    <2> QED
      BY <1>1, <1>2, <2>1 DEF vars, history, LedgerInv
  <1>3. CASE Next
    <2>1. Ledger!Step /\ AppliesProposed'
      BY <1>3, ProcessRefines, VisitRefines, EvaluateRefines, DisposeRefines DEF Next
    <2> QED
      BY <1>1, <2>1 DEF LedgerInv
  <1> QED
    BY <1>2, <1>3

\* The detector, with its probes, holds, cascades and restarts, is an
\* implementation of the proposal ledger.
THEOREM Refinement == ASSUME CleanRestarts PROVE Spec => ImplementsLedger
  <1>1. TypeOK /\ LedgerInv /\ [Next]_vars => LedgerInv'
    BY StepRefines
  <1>2. TypeOK /\ LedgerInv /\ [Next]_vars => [Ledger!Step]_(Ledger!ledgerVars)
    BY StepRefines DEF Ledger!ledgerVars, Open
  <1> QED
    BY <1>1, <1>2, InitLedger, TypeCorrect, PTL
       DEF Spec, ImplementsLedger, Ledger!LedgerSpec

-----------------------------------------------------------------------------
(* The invariants of a tick                                                *)

\* What a tick did not see, and what its handler did not take.
Unseen(c) == c["blind"] + c["retrying"]

\* In the middle of a tick, what is due is still to be filed in a bucket.
BucketsInv ==
  /\ cycle["inBreach"] <= BucketSum(cycle) + Cardinality(due)
  /\ BucketSum(cycle) + Cardinality(due) <= cycle["inBreach"] + cycle["blind"]

\* The tick is through with the scenario of the target.
Settled(t, s) ==
  /\ phase \in {"probe", "evaluate"}
  /\ t \notin left \/ (phase = "evaluate" /\ Least(t, left) /\ s \notin todo \cup due)

\* Something silences the scenario: while its target is evaluated, among what was
\* found in breach; afterwards, among the open episodes of the target.
Explained(t, s) ==
  \E r \in (IF t \in left THEN inBreach ELSE InEpisode(t)) : s \in Suppresses[r]

\* What the tick is through with is overdue only if it was suppressed.
OverdueInv ==
  Unseen(cycle) = 0 =>
    \A t \in Target : \A s \in Watched[t] \ unlocked :
      Settled(t, s) /\ Overdue(states[<<t, s>>], s)
        => cycle["suppressed"] > 0 /\ Explained(t, s)

\* What counts as in breach has been evaluated and has an open episode.
BreachInv ==
  /\ phase # "evaluate" => inBreach = {}
  /\ phase = "evaluate" =>
       /\ todo \cap inBreach = {}
       /\ \A t \in Target : Least(t, left) =>
            todo \subseteq Watched[t] \ unlocked /\ inBreach \subseteq InEpisode(t)

\* The strengthening of ResolutionClosesDocument: without a limit, nothing but
\* a document makes an entry firing.
FiringIsDocumented ==
  \A k \in Key : MaxApplies[k[2]] = 0 /\ Memory[k].state = "firing" => k \in documented

-----------------------------------------------------------------------------
(* Counting                                                                *)

LEMMA CountedFields ==
  ASSUME NEW c \in [Counter -> Nat], NEW name \in Counter
  PROVE  /\ Count(c, name) \in [Counter -> Nat]
         /\ \A x \in Counter : Count(c, name)[x] = IF x = name THEN c[x] + 1 ELSE c[x]
  BY CounterFacts DEF Count

LEMMA CountedSums ==
  ASSUME NEW c \in [Counter -> Nat], NEW name \in Counter
  PROVE  /\ BucketSum(c) \in Nat /\ Unseen(c) \in Nat
         /\ c["inBreach"] \in Nat /\ c["blind"] \in Nat /\ c["suppressed"] \in Nat
         /\ BucketSum(Count(c, name)) = BucketSum(c) + (IF name \in Buckets THEN 1 ELSE 0)
         /\ Count(c, name)["inBreach"] = c["inBreach"] + (IF name = "inBreach" THEN 1 ELSE 0)
         /\ Count(c, name)["blind"] = c["blind"] + (IF name = "blind" THEN 1 ELSE 0)
         /\ Count(c, name)["suppressed"]
              = c["suppressed"] + (IF name = "suppressed" THEN 1 ELSE 0)
         /\ Unseen(Count(c, name)) = Unseen(c) + (IF name \in {"blind", "retrying"} THEN 1 ELSE 0)
  <1>1. \A x \in Counter : c[x] \in Nat /\ Count(c, name)[x] = IF x = name THEN c[x] + 1 ELSE c[x]
    BY CountedFields
  <1>2. /\ {"reported", "suppressed", "waiting", "rateLimited", "retrying"} \subseteq Counter
        /\ {"inBreach", "blind"} \subseteq Counter
    BY DEF Counter, Buckets
  <1>3. name \in {"reported", "suppressed", "waiting", "rateLimited", "retrying",
                  "inBreach", "blind"}
    BY DEF Counter, Buckets
  <1> QED
    BY <1>1, <1>2, <1>3 DEF BucketSum, Unseen, Buckets

\* An entry that is not due is filed once if its episode is open.
LEMMA TalliedSums ==
  ASSUME NEW c \in [Counter -> Nat], NEW e \in Entry
  PROVE  /\ Tally(c, e) \in [Counter -> Nat]
         /\ BucketSum(Tally(c, e)) = BucketSum(c) + (IF e.state = "inactive" THEN 0 ELSE 1)
         /\ Tally(c, e)["inBreach"] = c["inBreach"]
         /\ Tally(c, e)["blind"] = c["blind"]
         /\ Tally(c, e)["suppressed"] = c["suppressed"]
         /\ Unseen(Tally(c, e)) = Unseen(c)
  <1>1. e.state \in {"pending", "firing", "inactive"}
    BY DEF Entry, State
  <1>2. "waiting" \in Buckets /\ "reported" \in Buckets /\ Buckets \subseteq Counter
    BY DEF Buckets, Counter
  <1>3. Tally(c, e) \in [Counter -> Nat]
    BY TallyType
  <1>4. CASE e.state = "pending"
    <2>1. Tally(c, e) = Count(c, "waiting")
      BY <1>4 DEF Tally
    <2> QED
      BY <1>2, <1>3, <1>4, <2>1, CountedSums
  <1>5. CASE e.state = "firing"
    <2>1. Tally(c, e) = Count(c, "reported")
      BY <1>5 DEF Tally
    <2> QED
      BY <1>2, <1>3, <1>5, <2>1, CountedSums
  <1>6. CASE e.state = "inactive"
    <2>1. Tally(c, e) = c
      BY <1>6 DEF Tally
    <2>2. BucketSum(c) \in Nat
      BY <1>2, CountedSums
    <2> QED
      BY <1>6, <2>1, <2>2
  <1> QED
    BY <1>1, <1>4, <1>5, <1>6

\* What an evaluation makes of the entry, and where it counts it.
LEMMA EvaluateCounts ==
  ASSUME TypeOK, NEW t \in Target, NEW s \in Scenario, Evaluate(t, s)
  PROVE  LET e == states'[<<t, s>>] IN
         /\ e \in Entry
         /\ \/ due' = due \cup {s} /\ cycle' = Count(cycle, "inBreach")
            \/ /\ due' = due /\ e.state # "inactive" /\ ~Held(e, s, tickNow)
               /\ cycle' = Tally(Count(cycle, "inBreach"), e)
            \/ due' = due /\ e.state = "inactive" /\ cycle' = cycle
            \/ due' = due /\ cycle' = Tally(Count(cycle, "blind"), e)
  <1> DEFINE k == <<t, s>>
  <1>1. k \in Key /\ states[k] \in Entry /\ WellFormed(states[k]) /\ tickNow \in Nat
        /\ states \in [Key -> Entry]
    BY EntriesPick DEF Key, TypeOK, Time, EntriesOK
  <1>2. ASSUME NEW e \in Entry, NEW isDue, NEW counted, Advance(t, s, e, isDue, counted)
        PROVE  /\ states'[k] = e
               /\ due' = (IF isDue THEN due \cup {s} ELSE due)
               /\ cycle' = (IF isDue THEN counted ELSE Tally(counted, e))
    BY <1>1, <1>2 DEF Advance
  <1>3. /\ Cleared(states[k]) \in Entry /\ Cleared(states[k]).state = "inactive"
        /\ Breached(states[k], tickNow) \in Entry
        /\ Breached(states[k], tickNow).state # "inactive"
    BY <1>1 DEF Entry, State, Cleared, Breached
  <1> HIDE DEF k
  <1>4. CASE SignalBreach(t, s)
    <2> DEFINE e == Breached(states[k], tickNow)
    <2>1. Advance(t, s, e, Held(e, s, tickNow), Count(cycle, "inBreach"))
      BY <1>4 DEF SignalBreach, k
    <2> HIDE DEF e
    <2>2. e \in Entry /\ e.state # "inactive"
      BY <1>3 DEF e
    <2> QED
      BY <1>2, <2>1, <2>2 DEF k
  <1>5. CASE SignalClear(t, s) \/ SignalEmpty(t, s)
    <2>1. Advance(t, s, Cleared(states[k]), FALSE, cycle)
      BY <1>5 DEF SignalClear, SignalEmpty, k
    <2>2. states'[k] = Cleared(states[k]) /\ due' = due /\ cycle' = Tally(cycle, states'[k])
      BY <1>2, <1>3, <2>1
    <2>3. cycle' = cycle
      BY <1>3, <2>2 DEF Tally
    <2> QED
      BY <1>3, <2>2, <2>3 DEF k
  <1>6. CASE SignalError(t, s)
    <2>1. Advance(t, s, states[k], FALSE, Count(cycle, "blind"))
      BY <1>6 DEF SignalError, k
    <2> QED
      BY <1>1, <1>2, <2>1 DEF k
  <1> QED
    BY <1>4, <1>5, <1>6 DEF Evaluate

\* Every way of disposing of a due incident has a bucket of its own.
LEMMA DisposeCounts ==
  ASSUME TypeOK, NEW t \in Target, NEW s \in Scenario, Dispose(t, s)
  PROVE  \E bucket \in Buckets :
           /\ cycle' = Count(cycle, bucket)
           /\ \/ bucket = "retrying"
              \/ bucket = "suppressed" /\ s \in SuppressedBy(inBreach)
              \/ states'[<<t, s>>].state = "firing"
  <1> DEFINE k == <<t, s>>
  <1>1. k \in Key /\ states \in [Key -> Entry]
    BY DEF Key, TypeOK, EntriesOK
  <1>2. ASSUME NEW e, NEW bucket, Disposed(t, s, e, bucket)
        PROVE  states'[k] = e /\ cycle' = Count(cycle, bucket)
    BY <1>1, <1>2 DEF Disposed
  <1> HIDE DEF k
  <1>3. CASE Suppress(t, s)
    BY <1>3 DEF Suppress, Buckets
  <1>4. CASE Retry(t, s)
    <2>1. Disposed(t, s, [states[k] EXCEPT !.applies = Pruned(s, @, clock)], "retrying")
      BY <1>4 DEF Retry, k
    <2> QED
      BY <1>2, <2>1 DEF Buckets
  <1>5. CASE RateLimit(t, s)
    <2> DEFINE e == [states[k] EXCEPT !.state = "firing", !.applies = Live(@, clock)]
    <2>1. Disposed(t, s, e, "rateLimited")
      BY <1>5 DEF RateLimit, k
    <2>2. e.state = "firing"
      BY <1>1 DEF Entry
    <2> HIDE DEF e
    <2> QED
      BY <1>2, <2>1, <2>2 DEF Buckets, k
  <1>6. CASE Deliver(t, s)
    <2> DEFINE e == [states[k] EXCEPT !.state = "firing",
                                      !.applies = Pruned(s, @, clock) \cup {clock'}]
    <2>1. Disposed(t, s, e, "reported")
      BY <1>6 DEF Deliver, k
    <2>2. e.state = "firing"
      BY <1>1 DEF Entry
    <2> HIDE DEF e
    <2> QED
      BY <1>2, <2>1, <2>2 DEF Buckets, k
  <1> QED
    BY <1>3, <1>4, <1>5, <1>6 DEF Dispose

-----------------------------------------------------------------------------
(* The buckets                                                             *)

LEMMA InitBuckets == Init => BucketsInv
  BY FS_EmptySet DEF Init, BucketsInv, BucketSum, NoCycle, Counter, Buckets

LEMMA InitDue == Init => DueIsPending
  BY DEF Init, DueIsPending

LEMMA StepKeepsDue ==
  ASSUME TypeOK, DueIsPending, [Next]_vars
  PROVE  DueIsPending'
  <1>1. CASE UNCHANGED vars
    BY <1>1 DEF vars, tickVars, DueIsPending
  <1> QED
    BY <1>1, ProcessDue, VisitDue, EvaluateDue, DisposeDue DEF Next

LEMMA FreshBuckets ==
  ASSUME due' = {}, cycle' = NoCycle
  PROVE  BucketsInv'
  <1>1. Cardinality(due') = 0
    BY FS_EmptySet
  <1> QED
    BY <1>1 DEF BucketsInv, BucketSum, NoCycle, Counter, Buckets

LEMMA ProcessBuckets ==
  ASSUME DueIsPending, BucketsInv, Process
  PROVE  BucketsInv'
  <1>1. due' = {}
    BY ProcessDue
  <1>2. CASE Wake \/ Save \/ Restart
    <2>1. due = {} /\ cycle' = cycle
      BY <1>2 DEF DueIsPending, Wake, Save, Restart, BeginTick, tickVars
    <2> QED
      BY <1>1, <2>1 DEF BucketsInv
  <1>3. CASE Crash \/ Report
    BY <1>1, <1>3, FreshBuckets DEF Crash, Report
  <1> QED
    BY <1>2, <1>3 DEF Process

\* A blind target counts its scenarios as blind, and nothing else.
LEMMA BlindCounts ==
  ASSUME TypeOK, NEW t \in Target, ProbeBlind(t)
  PROVE  LET n == Cardinality(Watched[t] \ unlocked) IN
         /\ n \in Nat /\ (n = 0 => Watched[t] \ unlocked = {})
         /\ BucketSum(cycle') = BucketSum(cycle)
         /\ cycle'["inBreach"] = cycle["inBreach"]
         /\ cycle'["blind"] = cycle["blind"] + n
         /\ cycle'["suppressed"] = cycle["suppressed"]
         /\ Unseen(cycle') = Unseen(cycle) + n
  <1> DEFINE E == Watched[t] \ unlocked
             n == Cardinality(E)
  <1>1. n \in Nat
    BY WatchedFinite
  <1>2. IsFiniteSet(E)
    <2>1. IsFiniteSet(Scenario)
      BY SizesAssumption, FS_Interval DEF Scenario
    <2>2. E \in SUBSET Scenario
      BY CatalogAssumption
    <2> QED
      BY <2>1, <2>2, FS_Subset
  <1>3. n = 0 => E = {}
    BY <1>2, FS_EmptySet
  <1>4. cycle \in [Counter -> Nat] /\ cycle' = [cycle EXCEPT !["blind"] = cycle["blind"] + n]
    BY DEF ProbeBlind, TypeOK
  <1>5. "blind" \in Counter /\ {"reported", "suppressed", "waiting", "rateLimited", "retrying",
                                "inBreach"} \subseteq Counter
    BY DEF Counter, Buckets
  <1> HIDE DEF n, E
  <1>6. /\ \A x \in Counter : cycle[x] \in Nat
        /\ \A x \in Counter : cycle'[x] = IF x = "blind" THEN cycle[x] + n ELSE cycle[x]
    BY <1>4
  <1>7. /\ BucketSum(cycle') = BucketSum(cycle)
        /\ cycle'["inBreach"] = cycle["inBreach"]
        /\ cycle'["blind"] = cycle["blind"] + n
        /\ cycle'["suppressed"] = cycle["suppressed"]
    BY <1>5, <1>6 DEF BucketSum
  <1>8. Unseen(cycle') = Unseen(cycle) + n
    BY <1>1, <1>5, <1>6 DEF Unseen
  <1> QED
    BY <1>1, <1>3, <1>7, <1>8 DEF n, E

LEMMA CycleTypes ==
  ASSUME TypeOK
  PROVE  /\ cycle \in [Counter -> Nat] /\ BucketSum(cycle) \in Nat /\ Unseen(cycle) \in Nat
         /\ cycle["inBreach"] \in Nat /\ cycle["blind"] \in Nat /\ cycle["suppressed"] \in Nat
         /\ IsFiniteSet(due) /\ Cardinality(due) \in Nat
  <1>1. cycle \in [Counter -> Nat] /\ "blind" \in Counter /\ due \in SUBSET Scenario
    BY DEF TypeOK, Counter
  <1>2. IsFiniteSet(due)
    <2>1. IsFiniteSet(Scenario)
      BY SizesAssumption, FS_Interval DEF Scenario
    <2> QED
      BY <1>1, <2>1, FS_Subset
  <1> QED
    BY <1>1, <1>2, CountedSums, FS_CardinalityType

LEMMA VisitBuckets ==
  ASSUME TypeOK, DueIsPending, BucketsInv, NEW t \in Target, Visit(t)
  PROVE  BucketsInv'
  <1>1. CASE ProbeBlind(t)
    <2>1. due' = due
      BY <1>1 DEF ProbeBlind
    <2> DEFINE n == Cardinality(Watched[t] \ unlocked)
               d == Cardinality(due)
    <2>2. /\ n \in Nat /\ BucketSum(cycle') = BucketSum(cycle)
          /\ cycle'["inBreach"] = cycle["inBreach"] /\ cycle'["blind"] = cycle["blind"] + n
      BY <1>1, BlindCounts
    <2>3. /\ BucketSum(cycle) \in Nat /\ cycle["inBreach"] \in Nat /\ cycle["blind"] \in Nat
          /\ d \in Nat
      BY CycleTypes
    <2>4. cycle["inBreach"] <= BucketSum(cycle) + d
          /\ BucketSum(cycle) + d <= cycle["inBreach"] + cycle["blind"]
      BY DEF BucketsInv
    <2>5. Cardinality(due') = d
      BY <2>1
    <2> HIDE DEF n, d
    <2> QED
      BY <2>2, <2>3, <2>4, <2>5 DEF BucketsInv
  <1>2. CASE ProbeSees(t) \/ TargetDone(t)
    BY <1>2 DEF ProbeSees, TargetDone, BucketsInv
  <1> QED
    BY <1>1, <1>2 DEF Visit

LEMMA EvaluateBuckets ==
  ASSUME TypeOK, DueIsPending, BucketsInv, NEW t \in Target, NEW s \in Scenario, Evaluate(t, s)
  PROVE  BucketsInv'
  <1> DEFINE e == states'[<<t, s>>]
             n == Cardinality(due)
  <1>0. /\ cycle \in [Counter -> Nat] /\ BucketSum(cycle) \in Nat
        /\ cycle["inBreach"] \in Nat /\ cycle["blind"] \in Nat
        /\ IsFiniteSet(due) /\ n \in Nat /\ "inBreach" \in Counter /\ "blind" \in Counter
        /\ "inBreach" \notin Buckets /\ "blind" \notin Buckets
    BY CycleTypes DEF Counter, Buckets
  <1>1. s \notin due
    BY EvaluateChanges DEF DueIsPending
  <1>2. e \in Entry
    BY EvaluateCounts
  <1>3. /\ cycle["inBreach"] <= BucketSum(cycle) + n
        /\ BucketSum(cycle) + n <= cycle["inBreach"] + cycle["blind"]
    BY DEF BucketsInv
  <1>4. Cardinality(due \cup {s}) = n + 1
    BY <1>0, <1>1, FS_AddElement
  <1>5. /\ Count(cycle, "inBreach") \in [Counter -> Nat]
        /\ BucketSum(Count(cycle, "inBreach")) = BucketSum(cycle)
        /\ Count(cycle, "inBreach")["inBreach"] = cycle["inBreach"] + 1
        /\ Count(cycle, "inBreach")["blind"] = cycle["blind"]
    BY <1>0, CountedFields, CountedSums
  <1>6. /\ Count(cycle, "blind") \in [Counter -> Nat]
        /\ BucketSum(Count(cycle, "blind")) = BucketSum(cycle)
        /\ Count(cycle, "blind")["inBreach"] = cycle["inBreach"]
        /\ Count(cycle, "blind")["blind"] = cycle["blind"] + 1
    BY <1>0, CountedFields, CountedSums
  <1> HIDE DEF n
  <1>7. CASE due' = due \cup {s} /\ cycle' = Count(cycle, "inBreach")
    <2>1. Cardinality(due') = n + 1
      BY <1>4, <1>7
    <2> QED
      BY <1>0, <1>3, <1>5, <1>7, <2>1 DEF BucketsInv
  <1>8. CASE /\ due' = due /\ e.state # "inactive"
             /\ cycle' = Tally(Count(cycle, "inBreach"), e)
    <2>1. /\ BucketSum(cycle') = BucketSum(cycle) + 1
          /\ cycle'["inBreach"] = cycle["inBreach"] + 1
          /\ cycle'["blind"] = cycle["blind"]
      BY <1>0, <1>2, <1>5, <1>8, TalliedSums
    <2> QED
      BY <1>0, <1>3, <1>8, <2>1 DEF BucketsInv, n
  <1>9. CASE due' = due /\ cycle' = cycle
    BY <1>9 DEF BucketsInv
  <1>10. CASE due' = due /\ cycle' = Tally(Count(cycle, "blind"), e)
    <2>1. /\ BucketSum(cycle') \in {BucketSum(cycle), BucketSum(cycle) + 1}
          /\ cycle'["inBreach"] = cycle["inBreach"]
          /\ cycle'["blind"] = cycle["blind"] + 1
      BY <1>0, <1>2, <1>6, <1>10, TalliedSums
    <2> QED
      BY <1>0, <1>3, <1>10, <2>1 DEF BucketsInv, n
  <1> QED
    BY <1>7, <1>8, <1>9, <1>10, EvaluateCounts

LEMMA DisposeBuckets ==
  ASSUME TypeOK, BucketsInv, NEW t \in Target, NEW s \in Scenario, Dispose(t, s)
  PROVE  BucketsInv'
  <1>1. PICK bucket \in Buckets : cycle' = Count(cycle, bucket)
    BY DisposeCounts
  <1>2. s \in due /\ due' = due \ {s}
    BY DisposeChanges
  <1>3. bucket \in Counter /\ bucket \notin {"inBreach", "blind"}
    BY DEF Counter, Buckets
  <1>4. /\ BucketSum(cycle') = BucketSum(cycle) + 1
        /\ cycle'["inBreach"] = cycle["inBreach"]
        /\ cycle'["blind"] = cycle["blind"]
    BY <1>1, <1>3, CycleTypes, CountedSums
  <1>5. Cardinality(due') = Cardinality(due) - 1
    BY <1>2, CycleTypes, FS_RemoveElement
  <1> QED
    BY <1>4, <1>5, CycleTypes DEF BucketsInv

LEMMA StepKeepsBuckets ==
  ASSUME TypeOK, DueIsPending, BucketsInv, [Next]_vars
  PROVE  BucketsInv'
  <1>1. CASE UNCHANGED vars
    BY <1>1 DEF vars, tickVars, BucketsInv
  <1> QED
    BY <1>1, ProcessBuckets, VisitBuckets, EvaluateBuckets, DisposeBuckets DEF Next

-----------------------------------------------------------------------------
(* What counts as in breach                                                *)

LEMMA InitBreach == Init => BreachInv
  BY DEF Init, BreachInv

LEMMA VisitBreach ==
  ASSUME TypeOK, BreachInv, NEW t \in Target, Visit(t)
  PROVE  BreachInv'
  <1>1. CASE ProbeSees(t)
    <2>1. /\ phase = "probe" /\ phase' = "evaluate" /\ Least(t, left)
          /\ todo' = Watched[t] \ unlocked
          /\ UNCHANGED <<left, inBreach, states, unlocked>>
      BY <1>1 DEF ProbeSees
    <2>2. inBreach' = {}
      BY <2>1 DEF BreachInv
    <2>3. \A u \in Target : Least(u, left') => u = t
      BY <2>1, OneLeast DEF TypeOK
    <2> QED
      BY <2>1, <2>2, <2>3 DEF BreachInv
  <1>2. CASE ProbeBlind(t) \/ TargetDone(t)
    <2>1. phase' = "probe" /\ inBreach' = {}
      BY <1>2 DEF ProbeBlind, TargetDone, BreachInv
    <2> QED
      BY <2>1 DEF BreachInv
  <1> QED
    BY <1>1, <1>2 DEF Visit

\* What an evaluation adds to inBreach has an open episode.
LEMMA EvaluateAdds ==
  ASSUME TypeOK, NEW t \in Target, NEW s \in Scenario, Evaluate(t, s)
  PROVE  inBreach' = inBreach
         \/ (inBreach' = inBreach \cup {s} /\ states'[<<t, s>>].state # "inactive")
  <1>1. PICK e, isDue, counted : Advance(t, s, e, isDue, counted)
    BY DEF Evaluate, SignalBreach, SignalClear, SignalEmpty, SignalError
  <1>2. <<t, s>> \in Key /\ states \in [Key -> Entry]
    BY DEF Key, TypeOK, EntriesOK
  <1> QED
    BY <1>1, <1>2 DEF Advance

LEMMA EvaluateBreach ==
  ASSUME TypeOK, BreachInv, NEW t \in Target, NEW s \in Scenario, Evaluate(t, s)
  PROVE  BreachInv'
  <1>1. /\ phase = "evaluate" /\ phase' = "evaluate" /\ Least(t, left) /\ s \in todo
        /\ UNCHANGED <<left, unlocked>> /\ todo' = todo \ {s}
        /\ \A j \in Key \ {<<t, s>>} : states'[j] = states[j]
    BY EvaluateChanges
  <1>2. /\ todo \cap inBreach = {} /\ todo \subseteq Watched[t] \ unlocked
        /\ inBreach \subseteq InEpisode(t)
    BY <1>1 DEF BreachInv
  <1>3. inBreach' = inBreach
        \/ (inBreach' = inBreach \cup {s} /\ states'[<<t, s>>].state # "inactive")
    BY EvaluateAdds
  <1>4. inBreach' \subseteq InEpisode(t)'
    <2> SUFFICES ASSUME NEW r \in inBreach' PROVE r \in InEpisode(t)'
      OBVIOUS
    <2>1. CASE r = s
      BY <1>1, <1>2, <1>3, <2>1 DEF InEpisode
    <2>2. CASE r # s
      <3>1. r \in Watched[t] \ unlocked /\ states[<<t, r>>].state # "inactive"
        BY <1>2, <1>3, <2>2 DEF InEpisode
      <3>2. <<t, r>> \in Key \ {<<t, s>>}
        BY <2>2, <3>1, CatalogAssumption DEF Key
      <3> QED
        BY <1>1, <3>1, <3>2 DEF InEpisode
    <2> QED
      BY <2>1, <2>2
  <1>5. \A u \in Target : Least(u, left') => u = t
    BY <1>1, OneLeast DEF TypeOK
  <1> QED
    BY <1>1, <1>2, <1>3, <1>4, <1>5 DEF BreachInv

LEMMA DisposeBreach ==
  ASSUME TypeOK, BreachInv, NEW t \in Target, NEW s \in Scenario, Dispose(t, s)
  PROVE  BreachInv' /\ inBreach' = inBreach
  <1>1. /\ phase = "evaluate" /\ phase' = "evaluate" /\ Least(t, left)
        /\ UNCHANGED <<left, todo, unlocked>>
        /\ \A j \in Key \ {<<t, s>>} : states'[j] = states[j]
        /\ states'[<<t, s>>].state = states[<<t, s>>].state
           \/ states'[<<t, s>>].state = "firing"
    BY DisposeChanges
  <1>2. inBreach' = inBreach
    BY DEF Dispose, Suppress, RateLimit, Deliver, Retry, Disposed
  <1>3. /\ todo \cap inBreach = {} /\ todo \subseteq Watched[t] \ unlocked
        /\ inBreach \subseteq InEpisode(t)
    BY <1>1 DEF BreachInv
  <1>4. inBreach \subseteq InEpisode(t)'
    <2> SUFFICES ASSUME NEW r \in inBreach PROVE r \in InEpisode(t)'
      OBVIOUS
    <2>1. r \in Watched[t] \ unlocked /\ states[<<t, r>>].state # "inactive"
      BY <1>3 DEF InEpisode
    <2>2. <<t, r>> \in Key
      BY <2>1, CatalogAssumption DEF Key
    <2>3. states'[<<t, r>>].state # "inactive"
      BY <1>1, <2>1, <2>2
    <2> QED
      BY <1>1, <2>1, <2>3 DEF InEpisode
  <1>5. \A u \in Target : Least(u, left') => u = t
    BY <1>1, OneLeast DEF TypeOK
  <1> QED
    BY <1>1, <1>2, <1>3, <1>4, <1>5 DEF BreachInv

LEMMA StepKeepsBreach ==
  ASSUME TypeOK, BreachInv, [Next]_vars
  PROVE  BreachInv'
  <1>1. CASE UNCHANGED vars
    BY <1>1 DEF vars, tickVars, BreachInv, InEpisode
  <1>2. CASE Process
    <2>1. phase' # "evaluate"
      BY <1>2 DEF Process, Wake, Save, Crash, Restart, Report, BeginTick
    <2>2. inBreach' = {}
      <3>1. CASE Crash
        BY <3>1 DEF Crash
      <3>2. CASE Wake \/ Save \/ Restart \/ Report
        BY <3>2 DEF BreachInv, Wake, Save, Restart, Report, BeginTick, tickVars
      <3> QED
        BY <1>2, <3>1, <3>2 DEF Process
    <2> QED
      BY <2>1, <2>2 DEF BreachInv
  <1> QED
    BY <1>1, <1>2, VisitBreach, EvaluateBreach, DisposeBreach DEF Next

-----------------------------------------------------------------------------
(* What is overdue                                                         *)

LEMMA InitOverdue == Init => OverdueInv
  BY DEF Init, OverdueInv, Settled

\* A tick begins with nothing settled.
LEMMA ProcessOverdue ==
  ASSUME OverdueInv, Process
  PROVE  OverdueInv'
  <1> SUFFICES ASSUME NEW t \in Target, NEW s \in Scenario PROVE ~Settled(t, s)'
    BY CatalogAssumption DEF OverdueInv
  <1>1. CASE Wake \/ Restart
    <2>1. phase' = "probe" /\ left' = Target
      BY <1>1 DEF Wake, Restart, BeginTick
    <2> QED
      BY <2>1 DEF Settled
  <1>2. CASE Save \/ Crash \/ Report
    <2>1. phase' \in {"sleep", "down", "save"}
      BY <1>2 DEF Save, Crash, Report
    <2> QED
      BY <2>1 DEF Settled
  <1> QED
    BY <1>1, <1>2 DEF Process

LEMMA VisitOverdue ==
  ASSUME TypeOK, BreachInv, OverdueInv, NEW t \in Target, Visit(t)
  PROVE  OverdueInv'
  <1>0. left \in SUBSET Target /\ Least(t, left) /\ unlocked' = unlocked /\ tickNow' = tickNow
    BY DEF TypeOK, Visit, ProbeSees, ProbeBlind, TargetDone
  <1>1. CASE ProbeSees(t)
    <2>1. /\ phase = "probe" /\ phase' = "evaluate" /\ todo' = Watched[t] \ unlocked
          /\ UNCHANGED <<left, due, cycle, states, inBreach>>
      BY <1>1 DEF ProbeSees
    <2>2. ASSUME NEW u \in Target, NEW s \in Watched[u] \ unlocked, Settled(u, s)'
          PROVE  Settled(u, s)
      <3>1. Least(u, left)' => u = t
        BY <1>0, <2>1, OneLeast
      <3> QED
        BY <2>1, <2>2, <3>1 DEF Settled
    <2> QED
      BY <1>0, <2>1, <2>2 DEF OverdueInv, Overdue, Explained, InEpisode
  <1>2. CASE TargetDone(t)
    <2>1. /\ phase = "evaluate" /\ todo = {} /\ due = {} /\ phase' = "probe"
          /\ left' = left \ {t} /\ UNCHANGED <<cycle, states>>
      BY <1>2 DEF TargetDone
    <2>2. ASSUME NEW u \in Target, NEW s \in Watched[u] \ unlocked, Settled(u, s)'
          PROVE  Settled(u, s) /\ (Explained(u, s) => Explained(u, s)')
      <3>1. Settled(u, s) /\ u \notin left'
        BY <1>0, <2>1, <2>2 DEF Settled
      <3>2. InEpisode(u)' = InEpisode(u) /\ (u \in left => inBreach \subseteq InEpisode(u))
        BY <1>0, <2>1, <3>1 DEF InEpisode, BreachInv
      <3> QED
        BY <3>1, <3>2 DEF Explained
    <2> QED
      BY <1>0, <2>1, <2>2 DEF OverdueInv, Overdue
  <1>3. CASE ProbeBlind(t)
    <2>1. /\ phase = "probe" /\ phase' = "probe" /\ left' = left \ {t}
          /\ states' = [k \in Key |-> IF k[1] = t /\ k[2] \in Watched[t] \ unlocked
                                      THEN Blinded(states[k]) ELSE states[k]]
      BY <1>3 DEF ProbeBlind
    <2> SUFFICES ASSUME Unseen(cycle') = 0,
                        NEW u \in Target, NEW s \in Watched[u] \ unlocked, Settled(u, s)',
                        Overdue(states'[<<u, s>>], s)
                 PROVE  cycle'["suppressed"] > 0 /\ Explained(u, s)'
      BY <1>0 DEF OverdueInv, Overdue
    <2>2. /\ Unseen(cycle) = 0 /\ Watched[t] \ unlocked = {}
          /\ cycle'["suppressed"] = cycle["suppressed"]
      <3> DEFINE n == Cardinality(Watched[t] \ unlocked)
      <3>1. /\ n \in Nat /\ (n = 0 => Watched[t] \ unlocked = {})
            /\ cycle'["suppressed"] = cycle["suppressed"]
            /\ Unseen(cycle') = Unseen(cycle) + n
        BY <1>3, BlindCounts
      <3>2. Unseen(cycle) \in Nat
        BY CycleTypes
      <3> HIDE DEF n
      <3>3. Unseen(cycle) = 0 /\ n = 0
        BY <3>1, <3>2
      <3> QED
        BY <3>1, <3>3
    <2>3. u # t /\ s \in Scenario
      BY <2>2, CatalogAssumption
    <2>4. \A r \in Scenario : states'[<<u, r>>] = states[<<u, r>>]
      BY <2>1, <2>3 DEF Key
    <2>5. Settled(u, s) /\ u \notin left /\ u \notin left'
      BY <2>1, <2>3 DEF Settled
    <2>6. cycle["suppressed"] > 0 /\ Explained(u, s)
      BY <2>2, <2>3, <2>4, <2>5 DEF OverdueInv
    <2>7. InEpisode(u)' = InEpisode(u)
      BY <1>0, <2>4, CatalogAssumption DEF InEpisode
    <2> QED
      BY <2>2, <2>5, <2>6, <2>7 DEF Explained
  <1> QED
    BY <1>1, <1>2, <1>3 DEF Visit

\* While a target is evaluated, what explains a silence stays.
LEMMA ExplanationStays ==
  ASSUME TypeOK, NEW t \in Target, Least(t, left), UNCHANGED <<left, unlocked>>,
         inBreach \subseteq inBreach',
         \A j \in Key : j[1] # t => states'[j] = states[j],
         NEW u \in Target, NEW r \in Scenario, u = t \/ u \notin left, Explained(u, r)
  PROVE  Explained(u, r)'
  <1>1. CASE u = t
    BY <1>1 DEF Explained, Least
  <1>2. CASE u \notin left
    <2>1. u # t
      BY <1>2 DEF Least
    <2>2. InEpisode(u)' = InEpisode(u)
      BY <2>1, CatalogAssumption DEF InEpisode, Key
    <2> QED
      BY <1>2, <2>2 DEF Explained
  <1> QED
    BY <1>1, <1>2

\* What an evaluation files as waiting has not been in breach for its hold.
LEMMA EvaluateOverdue ==
  ASSUME TypeOK, OverdueInv, NEW t \in Target, NEW s \in Scenario, Evaluate(t, s)
  PROVE  OverdueInv'
  <1>1. /\ phase = "evaluate" /\ phase' = "evaluate" /\ Least(t, left)
        /\ UNCHANGED <<tickNow, left, unlocked>> /\ todo' = todo \ {s}
        /\ \A j \in Key \ {<<t, s>>} : states'[j] = states[j]
    BY EvaluateChanges
  <1>2. due' = due \/ due' = due \cup {s}
    BY EvaluateChanges
  <1>3. left \in SUBSET Target
    BY DEF TypeOK
  <1> SUFFICES ASSUME Unseen(cycle') = 0,
                      NEW u \in Target, NEW r \in Watched[u] \ unlocked, Settled(u, r)',
                      Overdue(states'[<<u, r>>], r)
               PROVE  cycle'["suppressed"] > 0 /\ Explained(u, r)'
    BY <1>1 DEF OverdueInv, Overdue
  <1> DEFINE e == states'[<<t, s>>]
  <1>4. /\ Unseen(cycle) = 0 /\ cycle'["suppressed"] = cycle["suppressed"]
        /\ due' = due \cup {s} \/ e.state = "inactive" \/ ~Held(e, s, tickNow)
    <2>0. /\ cycle \in [Counter -> Nat] /\ Unseen(cycle) \in Nat
          /\ "inBreach" \in Counter /\ "blind" \in Counter
      BY CycleTypes DEF Counter
    <2>1. /\ Count(cycle, "inBreach") \in [Counter -> Nat]
          /\ Unseen(Count(cycle, "inBreach")) = Unseen(cycle)
          /\ Count(cycle, "inBreach")["suppressed"] = cycle["suppressed"]
          /\ Count(cycle, "blind") \in [Counter -> Nat]
          /\ Unseen(Count(cycle, "blind")) = Unseen(cycle) + 1
      BY <2>0, CountedFields, CountedSums, CycleTypes
    <2>2. e \in Entry
      BY EvaluateCounts
    <2>3. /\ Unseen(Tally(Count(cycle, "inBreach"), e)) = Unseen(cycle)
          /\ Tally(Count(cycle, "inBreach"), e)["suppressed"] = cycle["suppressed"]
          /\ Unseen(Tally(Count(cycle, "blind"), e)) = Unseen(cycle) + 1
      BY <2>1, <2>2, TalliedSums
    <2>4. \/ due' = due \cup {s} /\ cycle' = Count(cycle, "inBreach")
          \/ /\ due' = due /\ e.state # "inactive" /\ ~Held(e, s, tickNow)
             /\ cycle' = Tally(Count(cycle, "inBreach"), e)
          \/ due' = due /\ e.state = "inactive" /\ cycle' = cycle
          \/ due' = due /\ cycle' = Tally(Count(cycle, "blind"), e)
      BY EvaluateCounts
    <2> HIDE DEF e
    <2> QED
      BY <2>0, <2>1, <2>3, <2>4
  <1>5. r \in Scenario
    BY CatalogAssumption
  <1>6. ~(u = t /\ r = s)
    <2> SUFFICES ASSUME u = t, r = s PROVE FALSE
      OBVIOUS
    <2>1. t \in left /\ s \notin due'
      BY <1>1 DEF Settled, Least
    <2>2. e.state = "inactive" \/ ~Held(e, s, tickNow)
      BY <1>4, <2>1
    <2>3. Overdue(e, s)
      BY <1>1 DEF Overdue
    <2> HIDE DEF e
    <2> QED
      BY <2>2, <2>3 DEF Overdue, Held, HeldFor
  <1>7. <<u, r>> \in Key \ {<<t, s>>}
    BY <1>5, <1>6 DEF Key
  <1>8. states'[<<u, r>>] = states[<<u, r>>]
    BY <1>1, <1>7
  <1>9. Settled(u, r) /\ (u = t \/ u \notin left)
    <2>1. Least(u, left) => u = t
      BY <1>1, <1>3, OneLeast
    <2>2. Settled(u, r)' => u \notin left \/ (Least(u, left) /\ r \notin todo' \cup due')
      BY <1>1 DEF Settled, Least
    <2> QED
      BY <1>1, <1>2, <1>6, <2>1, <2>2 DEF Settled
  <1>10. cycle["suppressed"] > 0 /\ Explained(u, r)
    BY <1>1, <1>4, <1>8, <1>9 DEF OverdueInv, Overdue
  <1>11. Explained(u, r)'
    <2>1. inBreach \subseteq inBreach'
      BY EvaluateAdds
    <2>2. \A j \in Key : j[1] # t => states'[j] = states[j]
      BY <1>1
    <2> QED
      BY <1>1, <1>5, <1>9, <1>10, <2>1, <2>2, ExplanationStays
  <1> QED
    BY <1>4, <1>10, <1>11

\* What is disposed of is firing, suppressed by a cause, or counted as retrying.
LEMMA DisposeOverdue ==
  ASSUME TypeOK, BreachInv, OverdueInv, NEW t \in Target, NEW s \in Scenario, Dispose(t, s)
  PROVE  OverdueInv'
  <1>1. /\ phase = "evaluate" /\ phase' = "evaluate" /\ Least(t, left)
        /\ UNCHANGED <<tickNow, left, todo, unlocked>> /\ due' = due \ {s}
        /\ \A j \in Key \ {<<t, s>>} : states'[j] = states[j]
    BY DisposeChanges
  <1>2. left \in SUBSET Target /\ inBreach' = inBreach
    BY DisposeBreach DEF TypeOK
  <1> SUFFICES ASSUME Unseen(cycle') = 0,
                      NEW u \in Target, NEW r \in Watched[u] \ unlocked, Settled(u, r)',
                      Overdue(states'[<<u, r>>], r)
               PROVE  cycle'["suppressed"] > 0 /\ Explained(u, r)'
    BY <1>1 DEF OverdueInv, Overdue
  <1>3. /\ Unseen(cycle) = 0
        /\ \/ states'[<<t, s>>].state = "firing" /\ cycle'["suppressed"] >= cycle["suppressed"]
           \/ cycle'["suppressed"] > 0 /\ s \in SuppressedBy(inBreach)
        /\ cycle'["suppressed"] >= cycle["suppressed"] /\ cycle["suppressed"] \in Nat
        /\ cycle'["suppressed"] \in Nat
    <2>1. PICK bucket \in Buckets :
             /\ cycle' = Count(cycle, bucket)
             /\ \/ bucket = "retrying"
                \/ bucket = "suppressed" /\ s \in SuppressedBy(inBreach)
                \/ states'[<<t, s>>].state = "firing"
      BY DisposeCounts
    <2>2. bucket \in Counter
      BY DEF Counter
    <2> QED
      BY <2>1, <2>2, CycleTypes, CountedSums
  <1>4. r \in Scenario
    BY CatalogAssumption
  <1>5. CASE u = t /\ r = s
    <2>1. cycle'["suppressed"] > 0 /\ s \in SuppressedBy(inBreach)
      BY <1>3, <1>5 DEF Overdue
    <2> QED
      BY <1>1, <1>2, <1>5, <2>1 DEF Explained, SuppressedBy, Least
  <1>6. CASE ~(u = t /\ r = s)
    <2>1. <<u, r>> \in Key \ {<<t, s>>}
      BY <1>4, <1>6 DEF Key
    <2>2. states'[<<u, r>>] = states[<<u, r>>]
      BY <1>1, <2>1
    <2>3. Settled(u, r) /\ (u = t \/ u \notin left)
      <3>1. Least(u, left) => u = t
        BY <1>1, <1>2, OneLeast
      <3>2. Settled(u, r)' => u \notin left \/ (Least(u, left) /\ r \notin todo \cup due')
        BY <1>1 DEF Settled, Least
      <3> QED
        BY <1>1, <1>6, <3>1, <3>2 DEF Settled
    <2>4. cycle["suppressed"] > 0 /\ Explained(u, r)
      BY <1>1, <1>3, <2>2, <2>3 DEF OverdueInv, Overdue
    <2>5. \A j \in Key : j[1] # t => states'[j] = states[j]
      BY <1>1
    <2>6. Explained(u, r)'
      BY <1>1, <1>2, <1>4, <2>3, <2>4, <2>5, ExplanationStays
    <2> QED
      BY <1>3, <2>4, <2>6
  <1> QED
    BY <1>5, <1>6

LEMMA StepKeepsOverdue ==
  ASSUME TypeOK, BreachInv, OverdueInv, [Next]_vars
  PROVE  OverdueInv'
  <1>1. CASE UNCHANGED vars
    BY <1>1 DEF vars, tickVars, OverdueInv, Settled, Overdue, Explained, InEpisode
  <1> QED
    BY <1>1, ProcessOverdue, VisitOverdue, EvaluateOverdue, DisposeOverdue DEF Next

-----------------------------------------------------------------------------
(* Resolutions                                                             *)

LEMMA InitDocumented == Init => FiringIsDocumented
  BY DEF Init, FiringIsDocumented, Memory, Fresh

\* An evaluation ends the documented episode only with the entry's.
LEMMA EvaluateDocuments ==
  ASSUME TypeOK, NEW t \in Target, NEW s \in Scenario, Evaluate(t, s)
  PROVE  \/ documented' = documented
         \/ /\ documented' = documented \ {<<t, s>>}
            /\ states'[<<t, s>>].state # "firing"
  <1> DEFINE k == <<t, s>>
  <1>1. k \in Key /\ states \in [Key -> Entry]
    BY DEF Key, TypeOK, EntriesOK
  <1>2. Cleared(states[k]).state # "firing"
    BY <1>1 DEF Cleared, Entry
  <1>3. CASE SignalBreach(t, s) \/ SignalError(t, s)
    BY <1>3 DEF SignalBreach, SignalError
  <1>4. CASE SignalClear(t, s) \/ SignalEmpty(t, s)
    <2>1. /\ states' = [states EXCEPT ![k] = Cleared(states[k])]
          /\ documented' = documented \ {k}
      BY <1>4 DEF SignalClear, SignalEmpty, Advance
    <2> QED
      BY <1>1, <1>2, <2>1
  <1> QED
    BY <1>3, <1>4 DEF Evaluate

\* Without a limit an incident that is disposed of as firing was taken.
LEMMA DisposeDocuments ==
  ASSUME TypeOK, NEW t \in Target, NEW s \in Scenario, Dispose(t, s)
  PROVE  /\ documented \subseteq documented'
         /\ MaxApplies[s] = 0 /\ states'[<<t, s>>].state = "firing"
               => <<t, s>> \in documented' \/ states[<<t, s>>].state = "firing"
  <1> DEFINE k == <<t, s>>
  <1>1. k \in Key /\ states \in [Key -> Entry]
    BY DEF Key, TypeOK, EntriesOK
  <1>2. CASE Suppress(t, s)
    BY <1>2 DEF Suppress, history
  <1>3. CASE Retry(t, s)
    <2> DEFINE A == Pruned(s, states[k].applies, clock)
    <2>1. states' = [states EXCEPT ![k] = [states[k] EXCEPT !.applies = A]]
          /\ documented' = documented
      BY <1>3 DEF Retry, Disposed
    <2> HIDE DEF A
    <2>2. states'[k].state = states[k].state
      BY <1>1, <2>1 DEF Entry
    <2> QED
      BY <2>1, <2>2
  <1>4. CASE RateLimit(t, s)
    BY <1>4 DEF RateLimit, Spent
  <1>5. CASE Deliver(t, s)
    BY <1>5 DEF Deliver
  <1> QED
    BY <1>2, <1>3, <1>4, <1>5 DEF Dispose

LEMMA StepKeepsDocumented ==
  ASSUME CleanRestarts, TypeOK, SavedAtRest, FiringIsDocumented, [Next]_vars
  PROVE  FiringIsDocumented'
  <1>1. CASE Process
    BY <1>1, ProcessKeepsMemory DEF FiringIsDocumented
  <1>2. ASSUME NEW t \in Target, Visit(t) PROVE FiringIsDocumented'
    BY <1>2, VisitMemory DEF FiringIsDocumented
  <1>3. ASSUME NEW t \in Target, NEW s \in Scenario, Evaluate(t, s)
        PROVE  FiringIsDocumented'
    <2>1. /\ Memory = states /\ Memory' = states'
          /\ \A k \in Key : states'[k].state = "firing" => states[k].state = "firing"
      BY <1>3, EvaluateMemory
    <2>2. \/ documented' = documented
          \/ documented' = documented \ {<<t, s>>} /\ states'[<<t, s>>].state # "firing"
      BY <1>3, EvaluateDocuments
    <2> QED
      BY <2>1, <2>2 DEF FiringIsDocumented
  <1>4. ASSUME NEW t \in Target, NEW s \in Scenario, Dispose(t, s)
        PROVE  FiringIsDocumented'
    <2> DEFINE k == <<t, s>>
    <2>1. /\ phase = "evaluate" /\ phase' = "evaluate"
          /\ \A j \in Key \ {k} : states'[j] = states[j]
      BY <1>4, DisposeChanges
    <2>2. Memory = states /\ Memory' = states'
      BY <2>1 DEF Memory
    <2>3. /\ documented \subseteq documented'
          /\ MaxApplies[s] = 0 /\ states'[k].state = "firing"
                => k \in documented' \/ states[k].state = "firing"
      BY <1>4, DisposeDocuments
    <2>4. k \in Key /\ k[2] = s
      BY DEF Key
    <2> HIDE DEF k
    <2> QED
      BY <2>1, <2>2, <2>3, <2>4 DEF FiringIsDocumented
  <1>5. CASE UNCHANGED vars
    BY <1>5 DEF vars, tickVars, history, Memory, FiringIsDocumented
  <1> QED
    BY <1>1, <1>2, <1>3, <1>4, <1>5 DEF Next

ClosesDocument ==
  \A k \in resolved' \ resolved : MaxApplies[k[2]] = 0 => k \in documented

LEMMA ResolutionStep ==
  ASSUME TypeOK, FiringIsDocumented, [Next]_vars
  PROVE  ClosesDocument
  <1>1. CASE resolved' \subseteq resolved
    BY <1>1 DEF ClosesDocument
  <1>2. ASSUME NEW t \in Target, NEW s \in Scenario, SignalClear(t, s)
        PROVE  ClosesDocument
    <2>1. <<t, s>> \in Key /\ Memory = states
      BY <1>2 DEF Key, SignalClear, Evaluating, Memory
    <2>2. resolved' = IF states[<<t, s>>].state = "firing" THEN resolved \cup {<<t, s>>}
                      ELSE resolved
      BY <1>2 DEF SignalClear
    <2> QED
      BY <2>1, <2>2 DEF ClosesDocument, FiringIsDocumented
  <1>3. CASE Process
    BY <1>1, <1>3 DEF Process, Wake, Save, Crash, Restart, Report, history
  <1>4. ASSUME NEW t \in Target, Visit(t) PROVE ClosesDocument
    BY <1>1, <1>4 DEF Visit, ProbeSees, ProbeBlind, TargetDone, history
  <1>5. ASSUME NEW t \in Target, NEW s \in Scenario, Evaluate(t, s) PROVE ClosesDocument
    BY <1>1, <1>2, <1>5 DEF Evaluate, SignalBreach, SignalEmpty, SignalError
  <1>6. ASSUME NEW t \in Target, NEW s \in Scenario, Dispose(t, s) PROVE ClosesDocument
    BY <1>1, <1>6 DEF Dispose, Suppress, RateLimit, Deliver, Retry, Disposed, history
  <1>7. CASE UNCHANGED vars
    BY <1>1, <1>7 DEF vars, history
  <1> QED
    BY <1>3, <1>4, <1>5, <1>6, <1>7 DEF Next

-----------------------------------------------------------------------------
(* The theorems about a tick                                               *)

\* No breach escapes the summary a tick hands to OnCycle (state.go:65-94,
\* detector.go:373-387), however many targets and scenarios there are, which
\* of them suppress each other, whatever fails, and wherever the process was
\* stopped before.
THEOREM SummaryIsComplete == Spec => []BucketsCoverBreaches
  <1>1. TypeOK /\ DueIsPending /\ [Next]_vars => DueIsPending'
    BY StepKeepsDue
  <1>2. TypeOK /\ DueIsPending /\ BucketsInv /\ [Next]_vars => BucketsInv'
    BY StepKeepsBuckets
  <1>3. TypeOK /\ DueIsPending /\ BucketsInv => BucketsCoverBreaches
    <2> SUFFICES ASSUME TypeOK, DueIsPending, BucketsInv, CycleComplete
                 PROVE  /\ cycle["inBreach"] <= BucketSum(cycle)
                        /\ BucketSum(cycle) <= cycle["inBreach"] + cycle["blind"]
      BY DEF BucketsCoverBreaches
    <2>1. Cardinality(due) = 0
      BY FS_EmptySet DEF DueIsPending, CycleComplete
    <2> QED
      BY <2>1, CycleTypes DEF BucketsInv
  <1> QED
    BY <1>1, <1>2, <1>3, InitDue, InitBuckets, TypeCorrect, PTL DEF Spec

\* A tick that saw everything, suppressed nothing and had no handler error
\* leaves no incident overdue (detector.go:332-447), whatever the process was
\* restored from and whatever became of its state file.
THEOREM TickLeavesNothingOverdue == Spec => []NothingOverdue
  <1>1. TypeOK /\ BreachInv /\ OverdueInv /\ [Next]_vars => OverdueInv'
    BY StepKeepsOverdue
  <1>2. TypeOK /\ OverdueInv => NothingOverdue
    <2> SUFFICES ASSUME TypeOK, OverdueInv, CycleComplete,
                        cycle["blind"] + cycle["suppressed"] + cycle["retrying"] = 0,
                        NEW t \in Target, NEW s \in Watched[t] \ unlocked
                 PROVE  ~Overdue(states[<<t, s>>], s)
      BY DEF NothingOverdue
    <2>1. /\ cycle["blind"] \in Nat /\ cycle["retrying"] \in Nat
          /\ cycle["suppressed"] \in Nat
      BY DEF TypeOK, Counter, Buckets
    <2>2. Unseen(cycle) = 0 /\ ~(cycle["suppressed"] > 0)
      BY <2>1 DEF Unseen
    <2>3. Settled(t, s)
      BY DEF CycleComplete, Settled
    <2> QED
      BY <2>2, <2>3 DEF OverdueInv
  <1>3. TypeOK /\ BreachInv /\ [Next]_vars => BreachInv'
    BY StepKeepsBreach
  <1> QED
    BY <1>1, <1>2, <1>3, InitOverdue, InitBreach, TypeCorrect, PTL DEF Spec

\* Only a cause silences a symptom (detector.go:314-316, 393-420): in any catalog,
\* rings of suppressions included, what a tick with nothing unseen and no handler
\* error leaves overdue is suppressed by an open episode of the same target, whatever
\* the process was restored from.
THEOREM SilenceExplained == Spec => []SilenceIsExplained
  <1>1. TypeOK /\ BreachInv /\ OverdueInv /\ [Next]_vars => OverdueInv'
    BY StepKeepsOverdue
  <1>2. TypeOK /\ BreachInv /\ [Next]_vars => BreachInv'
    BY StepKeepsBreach
  <1>3. OverdueInv => SilenceIsExplained
    BY DEF OverdueInv, SilenceIsExplained, CycleComplete, Settled, Unseen, Explained
  <1> QED
    BY <1>1, <1>2, <1>3, InitOverdue, InitBreach, TypeCorrect, PTL DEF Spec

\* Where restarts lose nothing, the recovery of an entry without a limit is
\* announced only for an episode that produced a document (detector.go:144-147,
\* 560-566).
THEOREM ResolutionsCloseDocuments ==
  ASSUME CleanRestarts PROVE Spec => ResolutionClosesDocument
  <1>1. TypeOK /\ EpisodeInv /\ [Next]_vars => EpisodeInv'
    BY StepKeepsEpisode
  <1>2. TypeOK /\ EpisodeInv /\ FiringIsDocumented /\ [Next]_vars => FiringIsDocumented'
    BY StepKeepsDocumented DEF EpisodeInv
  <1>3. TypeOK /\ FiringIsDocumented /\ [Next]_vars => [ClosesDocument]_vars
    BY ResolutionStep
  <1>4. Spec => [][ClosesDocument]_vars
    BY <1>1, <1>2, <1>3, InitEpisode, InitDocumented, TypeCorrect, PTL DEF Spec
  <1> QED
    BY <1>4 DEF ResolutionClosesDocument, ClosesDocument

=============================================================================
