------------------------- MODULE LearnedNormalProofs -------------------------
(***************************************************************************)
(* Proofs about LearnedNormal: what the watch command learns and keeps, for *)
(* every set of readings, every weight of the average and every factor.     *)
(***************************************************************************)
EXTENDS LearnedNormal, TLAPS

-----------------------------------------------------------------------------
(* The inductive invariant                                                   *)

\* A normal that was learned is NaN with a NaN, or lies between two readings.
Between(st, readings) ==
    st.count > 0 =>
        IF st.ewma = NaN THEN NaN \in readings
        ELSE \E v, w \in readings \ {NaN} : v <= st.ewma /\ st.ewma <= w

StoreType == [stat : Stat, normal : Stat, learned : SUBSET Reading]

\* A store of the watch command, in memory or on file.
StoreInv(st) ==
    /\ st \in StoreType
    /\ st.stat.count = 0 <=> st.learned = {}
    /\ Between(st.stat, st.learned)

\* Only the watch command saves, and it neither warms up nor commits.
TypeInv ==
    /\ watching \in BOOLEAN
    /\ phase \in Phases
    /\ watching => phase # "warmup"
    /\ phase \in {"save", "saveState", "down"} => watching
    /\ now \in Nat
    /\ entry \in Entry
    /\ saved \in Entry
    /\ collected \in Seq(Reading)
    /\ normal \in Stat
    /\ fingerprints \in Nat
    /\ unsaved \in BOOLEAN
    /\ StoreInv(file)
    /\ watching => StoreInv(Store)

\* A save that wrote leaves on file what is in memory, until the next tick.
FileInv == phase \in {"run", "saveState"} /\ watching /\ ~unsaved /\ Encodable => file = Store

-----------------------------------------------------------------------------
(* The operators                                                             *)

LEMMA ConstantTypes ==
    /\ Readings \subseteq Nat /\ NaN \notin Nat
    /\ Empty \notin Reading /\ Failed \notin Reading
    /\ AlphaNum \in Nat /\ AlphaDen \in Nat /\ 0 < AlphaNum /\ AlphaNum <= AlphaDen
    /\ MinSamples \in Nat /\ MinSamples > 0 /\ Factor \in Nat /\ Factor > 1
    /\ MaxWarmup \in Nat
<1>1. Readings \subseteq Nat /\ NaN \notin Nat
  BY LearnedAssumption
<1>2. Reading \subseteq Nat \cup {NaN}
  BY <1>1 DEF Reading
<1>3. Empty \notin Reading /\ Failed \notin Reading
  BY <1>2, LearnedAssumption
<1>4. /\ AlphaNum \in Nat \ {0} /\ AlphaDen \in Nat \ {0} /\ AlphaNum <= AlphaDen
      /\ MinSamples \in Nat \ {0} /\ Factor \in Nat \ {0, 1} /\ MaxWarmup \in Nat
  BY LearnedAssumption
<1> QED
  BY <1>1, <1>3, <1>4

LEMMA Division ==
    ASSUME NEW n \in Nat, NEW d \in Nat, d > 0
    PROVE  /\ n \div d \in Nat
           /\ d * (n \div d) <= n
           /\ n < d * ((n \div d) + 1)
OBVIOUS

\* An average lies between what it is the average of.
LEMMA AverageBetween ==
    ASSUME NEW e \in Nat, NEW v \in Nat, NEW lo \in Nat, NEW hi \in Nat,
           lo <= e, lo <= v, e <= hi, v <= hi
    PROVE  Average(e, v) \in Nat /\ lo <= Average(e, v) /\ Average(e, v) <= hi
<1> DEFINE a == AlphaNum
           b == AlphaDen - AlphaNum
           d == AlphaDen
           n == a * v + b * e
           q == n \div d
<1>1. a \in Nat /\ b \in Nat /\ d \in Nat /\ d > 0 /\ d = a + b
  BY ConstantTypes
<1>2. Average(e, v) = q
  BY DEF Average
<1> HIDE DEF a, b, d
<1>3. ASSUME NEW m \in Nat, NEW x \in Nat, NEW y \in Nat, x <= y PROVE m * x <= m * y
  BY <1>3
<1>4. a * lo <= a * v /\ b * lo <= b * e /\ a * v <= a * hi /\ b * e <= b * hi
  BY <1>1, <1>3
<1>5. /\ a * lo \in Nat /\ b * lo \in Nat /\ a * v \in Nat /\ b * e \in Nat
      /\ a * hi \in Nat /\ b * hi \in Nat
  BY <1>1
<1>6. d * lo = a * lo + b * lo /\ d * hi = a * hi + b * hi
  BY <1>1
<1>7. n \in Nat /\ d * lo <= n /\ n <= d * hi
  BY <1>4, <1>5, <1>6
<1> HIDE DEF n
<1>8. q \in Nat /\ d * q <= n /\ n < d * (q + 1)
  BY <1>1, <1>7, Division
<1> HIDE DEF q
<1>9. lo <= q
  <2> SUFFICES ASSUME q + 1 <= lo PROVE FALSE
    BY <1>8
  <2>1. d * (q + 1) <= d * lo
    BY <1>1, <1>3, <1>8
  <2>2. d * (q + 1) \in Nat /\ d * lo \in Nat
    BY <1>1, <1>8
  <2> QED
    BY <1>7, <1>8, <2>1, <2>2
<1>10. q <= hi
  <2> SUFFICES ASSUME hi + 1 <= q PROVE FALSE
    BY <1>8
  <2>1. d * (hi + 1) <= d * q
    BY <1>1, <1>3, <1>8
  <2>2. d * (hi + 1) = d * hi + d /\ d * hi \in Nat /\ d * q \in Nat
    BY <1>1, <1>8
  <2> QED
    BY <1>1, <1>7, <1>8, <2>1, <2>2
<1> QED
  BY <1>2, <1>8, <1>9, <1>10

\* A reading more keeps a normal among the readings learned.
LEMMA ObserveBetween ==
    ASSUME NEW st \in Stat, NEW readings \in SUBSET Reading, NEW v \in Reading,
           st.count = 0 <=> readings = {}, Between(st, readings)
    PROVE  /\ Observe(st, v) \in Stat
           /\ Observe(st, v).count > 0
           /\ Between(Observe(st, v), readings \cup {v})
<1>1. /\ Reading \subseteq Nat \cup {NaN} /\ NaN \notin Nat
      /\ st.count \in Nat /\ st.ewma \in Nat \cup {NaN}
  BY ConstantTypes DEF Reading, Stat
<1> DEFINE o == Observe(st, v)
<1>2. CASE st.count = 0
  <2>1. o = [ewma |-> v, count |-> 1]
    BY <1>2 DEF Observe
  <2>2. o \in Stat /\ o.count = 1 /\ o.ewma = v
    BY <1>1, <2>1 DEF Stat
  <2> HIDE DEF o
  <2>3. Between(o, readings \cup {v})
    BY <1>1, <2>2 DEF Between
  <2> QED
    BY <2>2, <2>3 DEF o
<1>3. CASE st.count # 0 /\ NaN \in {v, st.ewma}
  <2>1. o = [ewma |-> NaN, count |-> st.count + 1]
    BY <1>3 DEF Observe
  <2>2. o \in Stat /\ o.count > 0 /\ o.ewma = NaN
    BY <1>1, <2>1 DEF Stat
  <2>3. NaN \in readings \cup {v}
    BY <1>1, <1>3 DEF Between
  <2> HIDE DEF o
  <2>4. Between(o, readings \cup {v})
    BY <2>2, <2>3 DEF Between
  <2> QED
    BY <2>2, <2>4 DEF o
<1>4. CASE st.count # 0 /\ NaN \notin {v, st.ewma}
  <2>1. o = [ewma |-> Average(st.ewma, v), count |-> st.count + 1]
    BY <1>4 DEF Observe
  <2>2. PICK lo \in readings \ {NaN}, hi \in readings \ {NaN} : lo <= st.ewma /\ st.ewma <= hi
    BY <1>1, <1>4 DEF Between
  <2>3. v \in Nat /\ st.ewma \in Nat /\ lo \in Nat /\ hi \in Nat
    BY <1>1, <1>4
  <2> DEFINE l == IF v < lo THEN v ELSE lo
             h == IF v > hi THEN v ELSE hi
  <2>4. /\ l \in (readings \cup {v}) \ {NaN} /\ h \in (readings \cup {v}) \ {NaN}
        /\ l \in Nat /\ h \in Nat
        /\ l <= st.ewma /\ l <= v /\ st.ewma <= h /\ v <= h
    BY <1>1, <1>4, <2>2, <2>3
  <2> HIDE DEF l, h
  <2>5. Average(st.ewma, v) \in Nat /\ l <= Average(st.ewma, v) /\ Average(st.ewma, v) <= h
    BY <2>3, <2>4, AverageBetween
  <2>6. o \in Stat /\ o.count > 0 /\ o.ewma = Average(st.ewma, v)
    BY <1>1, <2>1, <2>5 DEF Stat
  <2> HIDE DEF o
  <2>7. Between(o, readings \cup {v})
    BY <1>1, <2>4, <2>5, <2>6 DEF Between
  <2> QED
    BY <2>6, <2>7 DEF o
<1> QED
  BY <1>2, <1>3, <1>4

LEMMA ObserveType ==
    ASSUME NEW st \in Stat, NEW v \in Reading
    PROVE  Observe(st, v) \in Stat /\ Observe(st, v).count > 0
<1>1. /\ Reading \subseteq Nat \cup {NaN} /\ NaN \notin Nat
      /\ st.count \in Nat /\ st.ewma \in Nat \cup {NaN}
  BY ConstantTypes DEF Reading, Stat
<1> DEFINE ewma == IF NaN \in {v, st.ewma} THEN NaN ELSE Average(st.ewma, v)
<1>2. ewma \in Nat \cup {NaN}
  <2>1. CASE NaN \notin {v, st.ewma}
    <3>1. v \in Nat /\ st.ewma \in Nat
      BY <1>1, <2>1
    <3>2. CASE v <= st.ewma
      BY <2>1, <3>1, <3>2, AverageBetween
    <3>3. CASE st.ewma <= v
      BY <2>1, <3>1, <3>3, AverageBetween
    <3> QED
      BY <3>1, <3>2, <3>3
  <2> QED
    BY <2>1
<1>3. Observe(st, v) = (IF st.count = 0 THEN [ewma |-> v, count |-> 1]
                        ELSE [ewma |-> ewma, count |-> st.count + 1])
  BY DEF Observe
<1> HIDE DEF ewma
<1>4. st.count + 1 \in Nat /\ st.count + 1 > 0
  BY <1>1
<1> QED
  BY <1>1, <1>2, <1>3, <1>4 DEF Stat

LEMMA FreshTypes ==
    /\ Fresh \in Entry /\ Fresh.state = "inactive"
    /\ NoStat \in Stat /\ NoStat.count = 0
BY DEF Fresh, Entry, State, NoStat, Stat

LEMMA NoStoreFits == StoreInv(NoStore)
BY FreshTypes DEF NoStore, StoreInv, StoreType, Between

\* What an answer makes of the entry; a threshold teaches only what it clears.
LEMMA EvaluatedShape ==
    ASSUME entry \in Entry, now \in Nat, NEW answer \in Answer, NEW threshold
    PROVE  /\ Evaluated(answer, threshold) \in Entry
           /\ Teaches(answer, threshold) => Evaluated(answer, threshold).state = "inactive"
<1>1. Cleared(entry) \in Entry /\ Cleared(entry).state = "inactive"
  BY DEF Entry, State, Cleared
<1>2. Breached(entry, now) \in Entry
  BY DEF Entry, State, Breached
<1>3. [Breached(entry, now) EXCEPT !.state = "firing"] \in Entry
  BY <1>2 DEF Entry, State
<1>4. CASE answer \in Reading
  <2>1. answer # Failed /\ answer # Empty
    BY <1>4, ConstantTypes
  <2>2. Evaluated(answer, threshold) =
            IF ~Above(answer, threshold) THEN Cleared(entry)
            ELSE IF Due(Breached(entry, now))
                 THEN [Breached(entry, now) EXCEPT !.state = "firing"]
                 ELSE Breached(entry, now)
    BY <1>4, <2>1 DEF Evaluated
  <2> QED
    BY <1>1, <1>2, <1>3, <2>2 DEF Teaches
<1>5. CASE answer \in {Empty, Failed}
  <2>1. answer \notin Reading
    BY <1>5, ConstantTypes
  <2>2. Evaluated(answer, threshold) \in {entry, Cleared(entry)}
    BY <1>5, <2>1 DEF Evaluated
  <2> QED
    BY <1>1, <2>1, <2>2 DEF Teaches
<1> QED
  BY <1>4, <1>5 DEF Answer

LEMMA BlindedShape == entry \in Entry => Blinded(entry) \in Entry
BY DEF Entry, State, Blinded, Cleared

\* The anomaly watch learns at most the reading it was given.
LEMMA WatchShape ==
    ASSUME normal \in Stat, fingerprints \in Nat,
           NEW v \in Answer, NEW active, Watch(v, active)
    PROVE  /\ fingerprints' \in Nat
           /\ normal' \in Stat
<1>1. fingerprints' \in Nat
  BY DEF Watch, Record
<1>2. \/ UNCHANGED normal
      \/ v \in Reading /\ normal' = Observe(normal, v)
  BY DEF Watch
<1> QED
  BY <1>1, <1>2, ObserveType

-----------------------------------------------------------------------------
(* Types                                                                     *)

LEMMA TypeInit == Init => TypeInv
<1> SUFFICES ASSUME Init PROVE TypeInv
  OBVIOUS
<1>1. StoreInv(file)
  BY NoStoreFits DEF Init
<1>2. Store = NoStore
  BY DEF Init, Store, NoStore
<1>3. StoreInv(Store)
  BY <1>2, NoStoreFits
<1>4. collected \in Seq(Reading)
  BY DEF Init
<1>5. /\ watching \in BOOLEAN /\ phase \in {"warmup", "run"}
      /\ watching => phase = "run"
  BY DEF Init
<1>6. now \in Nat
  BY ConstantTypes DEF Init
<1>7. /\ entry = Fresh /\ saved = Fresh /\ normal = NoStat /\ fingerprints = 0
      /\ unsaved = FALSE
  BY DEF Init
<1> QED
  BY <1>1, <1>3, <1>4, <1>5, <1>6, <1>7, FreshTypes DEF TypeInv, Phases

LEMMA TypeWarmup ==
    ASSUME TypeInv, NEW seen \in BOOLEAN, NEW answer \in Answer, WarmupRound(seen, answer)
    PROVE  TypeInv'
<1>1. /\ entry \in Entry /\ now \in Nat /\ phase = "warmup" /\ ~watching
  BY DEF TypeInv, WarmupRound
<1>2. entry' \in Entry
  BY <1>1, EvaluatedShape, BlindedShape DEF WarmupRound
<1>3. collected' \in Seq(Reading)
  BY DEF WarmupRound, Teaches, TypeInv
<1>4. /\ UNCHANGED <<watching, phase, normal, fingerprints, file, saved, unsaved>>
      /\ now' = now + 1
  BY DEF WarmupRound, files
<1> QED
  BY <1>1, <1>2, <1>3, <1>4 DEF TypeInv

LEMMA TypeCommit == TypeInv /\ Commit => TypeInv'
<1> SUFFICES ASSUME TypeInv, Commit PROVE TypeInv'
  OBVIOUS
<1>1. /\ ~watching /\ phase' = "run" /\ entry' \in {Fresh, entry} /\ collected' = <<>>
      /\ UNCHANGED <<watching, now, normal, fingerprints, file, saved, unsaved>>
  BY DEF Commit, files, TypeInv
<1> QED
  BY <1>1, FreshTypes DEF TypeInv, Phases

LEMMA TypeRun ==
    ASSUME TypeInv, NEW seen \in BOOLEAN, NEW answer \in Answer, NEW generic \in Answer,
           RunRound(seen, answer, generic)
    PROVE  TypeInv'
<1> DEFINE taught == seen /\ Teaches(answer, Threshold(stat))
<1>1. /\ entry \in Entry /\ now \in Nat /\ normal \in Stat /\ fingerprints \in Nat
    BY DEF TypeInv
<1>2. /\ now' = now + 1
      /\ phase' = (IF watching THEN "save" ELSE "run")
      /\ UNCHANGED <<watching, collected, file, saved, unsaved>>
      /\ stat' = (IF taught THEN Observe(stat, answer) ELSE stat)
      /\ learned' = (IF taught THEN learned \cup {answer} ELSE learned)
  BY DEF RunRound, files
<1>3. entry' \in Entry
  BY <1>1, EvaluatedShape, BlindedShape DEF RunRound
<1>4. normal' \in Stat /\ fingerprints' \in Nat
  <2>1. Watch(generic, seen /\ entry'.state # "inactive")
        \/ UNCHANGED <<fingerprints, normal>>
    BY DEF RunRound
  <2> QED
    BY <1>1, <2>1, WatchShape
<1>5. watching => StoreInv(Store)'
  <2> SUFFICES ASSUME watching PROVE StoreInv(Store')
    BY DEF Store, StoreInv
  <2>1. /\ stat \in Stat /\ learned \in SUBSET Reading
        /\ stat.count = 0 <=> learned = {}
        /\ Between(stat, learned)
    BY DEF TypeInv, StoreInv, Store, StoreType
  <2>2. /\ stat' \in Stat /\ learned' \in SUBSET Reading
        /\ stat'.count = 0 <=> learned' = {}
        /\ Between(stat', learned')
    <3>1. CASE taught
      <4>1. answer \in Reading
        BY <3>1 DEF Teaches
      <4>2. Observe(stat, answer) \in Stat /\ Observe(stat, answer).count > 0
        BY <2>1, <4>1, ObserveBetween
      <4>3. Observe(stat, answer).count # 0
        BY <4>2
      <4> QED
        BY <1>2, <2>1, <3>1, <4>1, <4>3, ObserveBetween
    <3>2. CASE ~taught
      BY <1>2, <2>1, <3>2
    <3> QED
      BY <3>1, <3>2
  <2> QED
    BY <1>4, <2>2 DEF Store, StoreInv, StoreType
<1>6. phase' \in Phases /\ phase' # "warmup" /\ (phase' = "save" => watching')
      /\ phase' \in {"save", "run"}
  BY <1>2 DEF Phases
<1> QED
  BY <1>1, <1>2, <1>3, <1>4, <1>5, <1>6 DEF TypeInv

LEMMA TypeSaveStore == TypeInv /\ SaveStore => TypeInv'
<1> SUFFICES ASSUME TypeInv, SaveStore PROVE TypeInv'
  OBVIOUS
<1>1. /\ phase = "save" /\ phase' = "saveState" /\ watching
      /\ file' \in {file, Store} /\ unsaved' \in BOOLEAN
      /\ UNCHANGED <<watching, now, entry, collected, stat, normal, fingerprints, saved, learned>>
  BY DEF SaveStore, TypeInv
<1>2. StoreInv(file')
  BY <1>1 DEF TypeInv
<1>3. Store' = Store
  BY <1>1 DEF Store
<1>4. StoreInv(Store')
  BY <1>1, <1>3 DEF TypeInv
<1>5. StoreInv(file)' /\ StoreInv(Store)'
  BY <1>2, <1>4 DEF StoreInv, Between
<1> QED
  BY <1>1, <1>5 DEF TypeInv, Phases

LEMMA TypeSaveEntry == TypeInv /\ SaveEntry => TypeInv'
<1> SUFFICES ASSUME TypeInv, SaveEntry PROVE TypeInv'
  OBVIOUS
<1>1. /\ phase = "saveState" /\ phase' = "run" /\ watching /\ saved' \in {entry, saved}
      /\ UNCHANGED <<watching, now, entry, collected, stat, normal, fingerprints, file,
                     learned, unsaved>>
  BY DEF SaveEntry, TypeInv
<1>2. StoreInv(file)' /\ StoreInv(Store)'
  BY <1>1 DEF TypeInv, StoreInv, Between, Store
<1> QED
  BY <1>1, <1>2 DEF TypeInv, Phases

LEMMA TypeCrash == TypeInv /\ Crash => TypeInv'
<1> SUFFICES ASSUME TypeInv, Crash PROVE TypeInv'
  OBVIOUS
<1>1. /\ watching /\ phase' = "down" /\ entry' = Fresh
      /\ normal' = NoStat /\ unsaved' = FALSE
      /\ UNCHANGED <<watching, now, collected, fingerprints, file, saved>>
  BY DEF Crash, files
<1>2. Store' = NoStore
  BY DEF Crash, Store, NoStore
<1>3. StoreInv(Store)'
  BY <1>2, NoStoreFits DEF StoreInv, Between
<1> QED
  BY <1>1, <1>3, FreshTypes DEF TypeInv, Phases

LEMMA TypeRestart == TypeInv /\ Restart => TypeInv'
<1> SUFFICES ASSUME TypeInv, Restart PROVE TypeInv'
  OBVIOUS
<1>1. /\ watching /\ phase' = "run" /\ now' = now + 1 /\ entry' \in {saved, Fresh}
      /\ UNCHANGED <<watching, collected, fingerprints, file, saved>>
  BY DEF Restart, files, TypeInv
<1>2. PICK loaded \in Loadable :
         /\ stat' = loaded.stat /\ normal' = loaded.normal
         /\ learned' = loaded.learned
         /\ unsaved' = (loaded # file)
  BY DEF Restart
<1>3. StoreInv(loaded)
  BY NoStoreFits DEF Loadable, TypeInv
<1>4. Store' = loaded
  BY <1>2, <1>3 DEF Store, StoreInv, StoreType
<1>5. StoreInv(Store)'
  BY <1>3, <1>4 DEF StoreInv, Between
<1>6. normal' \in Stat /\ unsaved' \in BOOLEAN
  BY <1>2, <1>3 DEF StoreInv, StoreType
<1> QED
  BY <1>1, <1>5, <1>6, FreshTypes DEF TypeInv, Phases

LEMMA TypeStep == TypeInv /\ [Next]_vars => TypeInv'
<1> SUFFICES ASSUME TypeInv, [Next]_vars PROVE TypeInv'
  OBVIOUS
<1>1. CASE UNCHANGED vars
  <2>1. UNCHANGED <<watching, phase, now, entry, collected, stat, normal, fingerprints,
                    file, saved, learned, unsaved>>
    BY <1>1 DEF vars, files
  <2> QED
    BY <2>1 DEF TypeInv, StoreInv, Between, Store
<1> QED
  BY <1>1, TypeWarmup, TypeCommit, TypeRun, TypeSaveStore, TypeSaveEntry, TypeCrash,
     TypeRestart DEF Next

-----------------------------------------------------------------------------
(* What is on file                                                           *)

LEMMA FileInit == Init => FileInv
BY DEF Init, FileInv, Store, NoStore

LEMMA FileStep == TypeInv /\ FileInv /\ [Next]_vars => FileInv'
<1> SUFFICES ASSUME TypeInv, FileInv, [Next]_vars PROVE FileInv'
  OBVIOUS
<1>1. ASSUME NEW seen \in BOOLEAN, NEW answer \in Answer, WarmupRound(seen, answer)
      PROVE  FileInv'
  BY <1>1 DEF WarmupRound, FileInv
<1>2. CASE Commit
  BY <1>2 DEF Commit, TypeInv, FileInv
<1>3. ASSUME NEW seen \in BOOLEAN, NEW answer \in Answer, NEW generic \in Answer,
             RunRound(seen, answer, generic)
      PROVE  FileInv'
  BY <1>3 DEF RunRound, FileInv
<1>4. CASE SaveStore
  <2>1. UNCHANGED <<stat, normal, learned>>
    BY <1>4 DEF SaveStore
  <2>2. Store' = Store /\ Encodable' = Encodable
    BY <2>1 DEF Store, Encodable
  <2> QED
    BY <1>4, <2>2 DEF SaveStore, FileInv
<1>5. CASE SaveEntry
  <2>1. UNCHANGED <<stat, normal, learned, file, watching, unsaved>>
        /\ phase = "saveState"
    BY <1>5 DEF SaveEntry
  <2>2. Store' = Store /\ Encodable' = Encodable
    BY <2>1 DEF Store, Encodable
  <2> QED
    BY <2>1, <2>2 DEF FileInv
<1>6. CASE Crash
  BY <1>6 DEF Crash, FileInv
<1>7. CASE Restart
  <2>1. PICK loaded \in Loadable :
           /\ stat' = loaded.stat /\ normal' = loaded.normal
           /\ learned' = loaded.learned
           /\ unsaved' = (loaded # file)
    BY <1>7 DEF Restart
  <2>2. UNCHANGED file
    BY <1>7 DEF Restart, files
  <2>3. file \in StoreType
    BY DEF TypeInv, StoreInv
  <2>4. ~unsaved' => Store' = file
    BY <2>1, <2>3 DEF Store, StoreType
  <2> QED
    BY <2>2, <2>4 DEF FileInv
<1>8. CASE UNCHANGED vars
  <2>1. UNCHANGED <<watching, phase, stat, normal, file, learned, unsaved>>
    BY <1>8 DEF vars, files
  <2> QED
    BY <2>1 DEF FileInv, Store, Encodable
<1> QED
  BY <1>1, <1>2, <1>3, <1>4, <1>5, <1>6, <1>7, <1>8 DEF Next

-----------------------------------------------------------------------------
(* Thresholds                                                                *)

KeepsThreshold == OpenEpisode => Threshold(stat') = Threshold(stat)

LEMMA ThresholdStep == TypeInv /\ [Next]_vars => KeepsThreshold
<1> SUFFICES ASSUME TypeInv, [Next]_vars, OpenEpisode PROVE stat' = stat
  BY DEF KeepsThreshold
<1>0. /\ phase \in {"run", "save", "saveState"}
      /\ entry'.state # "inactive"
  BY DEF OpenEpisode
<1>1. ASSUME NEW seen \in BOOLEAN, NEW answer \in Answer, NEW generic \in Answer,
             RunRound(seen, answer, generic)
      PROVE  stat' = stat
  <2>1. entry \in Entry /\ now \in Nat
    BY DEF TypeInv
  <2>2. CASE seen /\ Teaches(answer, Threshold(stat))
    <3>1. entry' = Evaluated(answer, Threshold(stat))
      BY <1>1, <2>2 DEF RunRound
    <3> QED
      BY <1>0, <2>1, <2>2, <3>1, EvaluatedShape
  <2>3. CASE ~(seen /\ Teaches(answer, Threshold(stat)))
    BY <1>1, <2>3 DEF RunRound
  <2> QED
    BY <2>2, <2>3
<1>2. CASE Crash
  BY <1>0, <1>2, FreshTypes DEF Crash
<1>3. CASE SaveStore
  BY <1>3 DEF SaveStore
<1>4. CASE SaveEntry
  BY <1>4 DEF SaveEntry
<1>5. CASE UNCHANGED vars
  BY <1>5 DEF vars
<1> QED
  BY <1>0, <1>1, <1>2, <1>3, <1>4, <1>5 DEF Next, WarmupRound, Commit, Restart

-----------------------------------------------------------------------------
(* The theorems                                                              *)

LEMMA TypeInvariant == Spec => []TypeInv
<1>1. Init => TypeInv
  BY TypeInit
<1>2. TypeInv /\ [Next]_vars => TypeInv'
  BY TypeStep
<1> QED
  BY <1>1, <1>2, PTL DEF Spec

\* In the watch command the state is well typed, and what a normal averages to
\* lies between two readings that were learned, in memory and on file, through
\* crashes, loads and failed saves (store.go:42-115): the moving average is
\* bounded by its readings for every weight alpha.
THEOREM WatchTypeCorrect == Spec => [](watching => TypeOK)
<1>1. TypeInv => (watching => TypeOK)
  <2> SUFFICES ASSUME TypeInv, watching PROVE TypeOK
    OBVIOUS
  <2>1. /\ stat \in Stat /\ learned \in SUBSET Reading
        /\ stat.count = 0 <=> learned = {}
        /\ Between(stat, learned)
    BY DEF TypeInv, StoreInv, Store, StoreType
  <2>2. /\ file.stat \in Stat /\ file.normal \in Stat /\ file.learned \in SUBSET Reading
    BY DEF TypeInv, StoreInv, StoreType
  <2>3. InRange
    BY <2>1 DEF InRange, Between
  <2>4. unsaved \in BOOLEAN /\ {entry, saved} \subseteq Entry
    BY DEF TypeInv
  <2> QED
    BY <2>1, <2>2, <2>3, <2>4 DEF TypeInv, TypeOK
<1> QED
  BY <1>1, TypeInvariant, PTL

\* Between two ticks the file holds what the process knows (store.go:1-4,
\* detector.go:288-294), however often it was killed and restarted, unless a
\* write failed or a NaN is in the store.
THEOREM NormalIsOnFile == Spec => []NormalOnFile
<1>1. Init => FileInv
  BY FileInit
<1>2. TypeInv /\ FileInv /\ [Next]_vars => FileInv'
  BY FileStep
<1>3. FileInv => NormalOnFile
  BY DEF FileInv, NormalOnFile
<1> QED
  BY <1>1, <1>2, <1>3, TypeInvariant, PTL DEF Spec

\* An ongoing incident cannot silence itself (detector.go:568-573): nothing
\* moves the threshold of an open episode.
THEOREM ThresholdStands == Spec => EpisodeKeepsThreshold
<1>1. TypeInv /\ [Next]_vars => [KeepsThreshold]_vars
  BY ThresholdStep
<1>2. Spec => [][KeepsThreshold]_vars
  BY <1>1, TypeInvariant, PTL DEF Spec
<1> QED
  BY <1>2 DEF EpisodeKeepsThreshold, KeepsThreshold

=============================================================================
