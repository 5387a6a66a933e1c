---------------------------- MODULE LearnedNormal ----------------------------
(***************************************************************************)
(* What the detector learns of normal, and what it does with it: the        *)
(* baseline store (pkg/baseline), the threshold of an entry with a          *)
(* baselineMultiplier and the anomaly watch (pkg/detect/detector.go), the   *)
(* recorder (pkg/recorder), and the warm-up of the proof and silence runs,  *)
(* which learns through a floorCollector (pkg/proof/run.go).                *)
(*                                                                          *)
(* One target, one entry and one watched anomaly signal, each with a key of *)
(* its own in the store.  The watch command saves the store after every     *)
(* tick, then the state file, and loads both when it starts; it may be      *)
(* killed at any point.  A proof or a silence run warms up and saves        *)
(* nothing.                                                                 *)
(*                                                                          *)
(* Readings are naturals, or NaN, which Prometheus returns for 0/0 and      *)
(* which no comparison is true of.  The moving average is exact if readings *)
(* are multiples of AlphaDen to the power of the observations, as they are  *)
(* in the runs.  Incidents are delivered and never suppressed here.         *)
(***************************************************************************)
EXTENDS Episode, Sequences

LOCAL INSTANCE SequencesExt

CONSTANTS
    Readings,         \* what a query may return, NaN apart
    NaN,              \* the reading that is not a number
    Empty,            \* the answer of a query that finds no series
    Failed,           \* the answer of a query that fails
    Static,           \* the entry's static threshold; its comparison is ">"
    Multiplier,       \* its baselineMultiplier
    Hold,             \* its for-duration
    MinSamples,       \* observations until a learned normal is trusted
    Factor,           \* AnomalyFactor
    AlphaNum,         \* the weight of an observation is AlphaNum / AlphaDen
    AlphaDen,
    ToleranceNum,     \* the collector's tolerance is ToleranceNum / ToleranceDen
    ToleranceDen,
    SaveFails,        \* may a save fail to write its file
    LoadFails,        \* may a load fail to read one
    MaxWarmup,        \* the rounds of a warm-up
    MaxRounds         \* bound: rounds of the run

ASSUME LearnedAssumption ==
    /\ Readings \subseteq Nat /\ NaN \notin Nat
    /\ {Empty, Failed} \cap (Nat \cup {NaN}) = {}
    /\ {Static, Hold, MaxWarmup, MaxRounds} \subseteq Nat
    /\ {Multiplier, MinSamples, AlphaNum, AlphaDen, ToleranceNum, ToleranceDen}
           \subseteq Nat \ {0}
    /\ Factor \in Nat \ {0, 1}
    /\ AlphaNum <= AlphaDen
    /\ {SaveFails, LoadFails} \subseteq BOOLEAN

Reading == Readings \cup {NaN}
Answer == Reading \cup {Empty, Failed}

VARIABLES
    watching,      \* is it the watch command
    phase,         \* where the process is: see Phases
    now,           \* the rounds so far
    entry,         \* the entry
    collected,     \* the warm-up's readings
    stat,          \* the store: the entry's learned normal
    normal,        \* the store: the anomaly signal's
    fingerprints,  \* the recorder: how many were appended
    file,          \* the store's file: see Store
    saved,         \* the state file
    learned,       \* history: the readings in the entry's normal
    unsaved        \* history: did the last save of the store fail to write

files == <<file, saved>>
vars == <<watching, phase, now, entry, collected, stat, normal, fingerprints,
          files, learned, unsaved>>

\* "run" is the sleep between two ticks of a run.
Phases == {"warmup", "run", "save", "saveState", "down"}

-----------------------------------------------------------------------------
(* The store                                                               *)

NoStat == [ewma |-> 0, count |-> 0]

Average(e, v) == (AlphaNum * v + (AlphaDen - AlphaNum) * e) \div AlphaDen

\* Fault: the first reading is not counted.
ObserveFromZero(st, v) ==
    IF st.count = 0 THEN [ewma |-> v, count |-> 0]
    ELSE [ewma  |-> IF NaN \in {v, st.ewma} THEN NaN ELSE Average(st.ewma, v),
          count |-> st.count + 1]

\* Store.Observe.
Observe(st, v) ==
    IF st.count = 0 THEN [ewma |-> v, count |-> 1]
    ELSE [ewma  |-> IF NaN \in {v, st.ewma} THEN NaN ELSE Average(st.ewma, v),
          count |-> st.count + 1]

\* Store.Baseline: enough observations to be trusted.
Trusted(st) == st.count >= MinSamples

Above(v, limit) == NaN \notin {v, limit} /\ v > limit

-----------------------------------------------------------------------------
(* The entry                                                               *)

\* effectiveThreshold, with the store's answer.
Threshold(st) ==
    IF Trusted(st) THEN (IF st.ewma = NaN THEN NaN ELSE st.ewma * Multiplier) ELSE Static

Due(e) == HeldFor(e, Hold, now)

\* An answer against a threshold: the entry, with its incident delivered.
Evaluated(answer, threshold) ==
    CASE answer = Failed -> entry
      [] answer = Empty  -> Cleared(entry)
      [] answer \in Reading ->
            IF ~Above(answer, threshold) THEN Cleared(entry)
            ELSE IF Due(Breached(entry, now))
                 THEN [Breached(entry, now) EXCEPT !.state = "firing"]
                 ELSE Breached(entry, now)

\* Fault: every reading is taught, whatever it says.
TeachesAlways(answer, threshold) == answer \in Reading

\* Only a reading that is not in breach is taught.
Teaches(answer, threshold) == answer \in Reading /\ ~Above(answer, threshold)

-----------------------------------------------------------------------------
(* The anomaly watch                                                       *)

\* Off by more than the factor, in either direction.
Off(v, base) ==
    NaN \notin {v, base} /\ (v > base * Factor \/ v * Factor < base)

Deviating(v) == Trusted(normal) /\ Above(normal.ewma, 0) /\ Off(v, normal.ewma)

\* Recorder.Record appends a line, or fails and is logged.
Record == fingerprints' \in {fingerprints + 1} \cup (IF SaveFails THEN {fingerprints} ELSE {})

\* watchAnomaly: a deviation is recorded, unless a scenario explains it, and
\* anything else is learned.  An empty result is passed over like a failure.
Watch(v, active) ==
    /\ IF v \in Reading /\ Deviating(v) /\ ~active THEN Record ELSE UNCHANGED fingerprints
    /\ IF v \in Reading /\ ~Deviating(v)
       THEN normal' = Observe(normal, v)
       ELSE UNCHANGED normal

-----------------------------------------------------------------------------
(* The warm-up                                                             *)

\* NaN sorts before every number.
Sooner(v, w) == w # NaN /\ (v = NaN \/ v < w)

\* Fault: the highest reading of the window takes the median's place.
TwiceHighest(readings) ==
    LET sorted == SortSeq(readings, Sooner)
        last   == sorted[Len(sorted)]
    IN  IF last = NaN THEN NaN ELSE 2 * last

\* Twice the median of the readings; the middle two are summed if they are two.
TwiceMedian(readings) ==
    LET sorted == SortSeq(readings, Sooner)
        mid    == Len(sorted) \div 2
        lower  == sorted[IF Len(sorted) % 2 = 1 THEN mid + 1 ELSE mid]
        upper  == sorted[mid + 1]
    IN  IF NaN \in {lower, upper} THEN NaN ELSE lower + upper

\* commit keeps a reading that is within the tolerance of the median; with a
\* median of zero, or not a number, it keeps every reading.
Kept(v, readings) ==
    LET twice == TwiceMedian(readings)
    IN  ~(Above(twice, 0) /\ Above(v, 0) /\ 2 * v * ToleranceDen > twice * ToleranceNum)

\* A tick against the static threshold, whose readings are collected.
WarmupRound(seen, answer) ==
    /\ phase = "warmup"
    /\ now <= MaxWarmup
    /\ now' = now + 1
    /\ entry' = IF seen THEN Evaluated(answer, Static) ELSE Blinded(entry)
    /\ collected' = IF seen /\ Teaches(answer, Static) THEN Append(collected, answer)
                    ELSE collected
    /\ UNCHANGED <<watching, phase, stat, normal, fingerprints, files, learned, unsaved>>

\* commit teaches the store, in order.  A proof goes on with a new detector,
\* a silence run with the one that warmed up.
Commit ==
    LET kept == SelectSeq(collected, LAMBDA v : Kept(v, collected))
    IN  /\ phase = "warmup"
        /\ now > MaxWarmup
        /\ phase' = "run"
        /\ entry' \in {Fresh, entry}
        /\ stat' = FoldLeft(Observe, stat, kept)
        /\ learned' = ToSet(kept)
        /\ collected' = <<>>
        /\ UNCHANGED <<watching, now, normal, fingerprints, files, unsaved>>

\* A tick of the run: the entry, then, in the watch command, the anomaly watch.
\* On a target that is not seen the entry explains nothing.
RunRound(seen, answer, generic) ==
    LET taught == seen /\ Teaches(answer, Threshold(stat))
    IN  /\ phase = "run"
        /\ now <= MaxWarmup + MaxRounds
        /\ now' = now + 1
        /\ entry' = IF seen THEN Evaluated(answer, Threshold(stat)) ELSE Blinded(entry)
        /\ stat' = IF taught THEN Observe(stat, answer) ELSE stat
        /\ learned' = IF taught THEN learned \cup {answer} ELSE learned
        /\ IF watching THEN Watch(generic, seen /\ entry'.state # "inactive")
           ELSE UNCHANGED <<fingerprints, normal>>
        /\ phase' = IF watching THEN "save" ELSE "run"
        /\ UNCHANGED <<watching, collected, files, unsaved>>

-----------------------------------------------------------------------------
(* The watch command's files                                               *)

\* What the file holds, with the histories of what went into it.
Store == [stat |-> stat, normal |-> normal, learned |-> learned]
NoStore == [stat |-> NoStat, normal |-> NoStat, learned |-> {}]

\* JSON has no NaN: a store that holds one for any key cannot be encoded.
Encodable == NaN \notin {stat.ewma, normal.ewma}

\* Store.Save replaces the file as a whole, or fails and is logged.
SaveStore ==
    /\ phase = "save"
    /\ phase' = "saveState"
    /\ \/ Encodable /\ file' = Store /\ unsaved' = FALSE
       \/ SaveFails /\ UNCHANGED file /\ unsaved' = TRUE
       \/ ~Encodable /\ UNCHANGED <<file, unsaved>>
    /\ UNCHANGED <<watching, now, entry, collected, stat, normal, fingerprints, saved, learned>>

\* SaveState, then the sleep.
SaveEntry ==
    /\ phase = "saveState"
    /\ phase' = "run"
    /\ saved' \in {entry} \cup (IF SaveFails THEN {saved} ELSE {})
    /\ UNCHANGED <<watching, now, entry, collected, stat, normal, fingerprints, file,
                   learned, unsaved>>

\* The process stops, or is killed between a tick and its saves.
Crash ==
    /\ watching
    /\ phase \in {"run", "save", "saveState"}
    /\ now <= MaxWarmup + MaxRounds
    /\ phase' = "down"
    /\ entry' = Fresh
    /\ stat' = NoStat /\ normal' = NoStat
    /\ learned' = {}
    /\ unsaved' = FALSE
    /\ UNCHANGED <<watching, now, collected, fingerprints, files>>

\* Store.Load: what the process starts from.
Loadable == {file} \cup (IF LoadFails THEN {NoStore} ELSE {})

\* Fault: the store is not loaded.
RestartWithoutStore ==
    /\ phase = "down"
    /\ phase' = "run"
    /\ now' = now + 1
    /\ entry' \in {saved} \cup (IF LoadFails THEN {Fresh} ELSE {})
    /\ UNCHANGED <<watching, collected, stat, normal, fingerprints, files,
                   learned, unsaved>>

\* runWatch loads the state file, then the store; one that fails to load is
\* logged and started afresh.
Restart ==
    /\ phase = "down"
    /\ phase' = "run"
    /\ now' = now + 1
    /\ entry' \in {saved} \cup (IF LoadFails THEN {Fresh} ELSE {})
    /\ \E loaded \in Loadable :
          /\ stat' = loaded.stat /\ normal' = loaded.normal
          /\ learned' = loaded.learned
          /\ unsaved' = (loaded # file)
    /\ UNCHANGED <<watching, collected, fingerprints, files>>

Init ==
    /\ watching \in BOOLEAN
    /\ \/ phase = "warmup" /\ now = 1 /\ ~watching
       \/ phase = "run" /\ now = MaxWarmup + 1
    /\ entry = Fresh
    /\ collected = <<>>
    /\ stat = NoStat
    /\ normal = NoStat
    /\ fingerprints = 0
    /\ file = NoStore
    /\ saved = Fresh
    /\ learned = {}
    /\ unsaved = FALSE

Next ==
    \/ \E seen \in BOOLEAN, answer \in Answer :
          \/ WarmupRound(seen, answer)
          \/ \E generic \in Answer \ {Empty} : RunRound(seen, answer, generic)
    \/ Commit
    \/ SaveStore
    \/ SaveEntry
    \/ Crash
    \/ Restart

Spec == Init /\ [][Next]_vars

-----------------------------------------------------------------------------
(* Properties                                                              *)

Stat == [ewma : Nat \cup {NaN}, count : Nat]

\* A normal stays among what was learned, through the warm-up, its commit and
\* the run, so that a threshold is a multiple of a value that was once
\* measured and quiet; unless NaN was learned, which it never leaves.
InRange ==
    stat.count > 0 =>
        IF stat.ewma = NaN THEN NaN \in learned
        ELSE \E v, w \in learned \ {NaN} : v <= stat.ewma /\ stat.ewma <= w

\* The state is well typed, and an average belongs to at least one reading and
\* lies between two of them.
TypeOK ==
    /\ watching \in BOOLEAN
    /\ phase \in Phases
    /\ now \in Nat
    /\ {entry, saved} \subseteq Entry
    /\ collected \in Seq(Reading)
    /\ {stat, normal, file.stat, file.normal} \subseteq Stat
    /\ stat.count = 0 <=> learned = {}
    /\ InRange
    /\ fingerprints \in Nat
    /\ learned \cup file.learned \subseteq Reading
    /\ unsaved \in BOOLEAN

\* An ongoing incident cannot silence itself: as long as an episode of the
\* run is open, nothing moves the threshold it is measured against, neither
\* its own readings nor gaps in sight (detector.go:568-573).
OpenEpisode ==
    phase \in {"run", "save", "saveState"} /\ entry.state # "inactive" /\ entry'.state # "inactive"

EpisodeKeepsThreshold == [][OpenEpisode => Threshold(stat') = Threshold(stat)]_vars

\* What the warm-up is for: if more than half of its readings are between 1
\* and h, the normal it teaches is not above h by more than the tolerance,
\* whatever the cluster was still decaying from (run.go:663-672).
Settled(h) == {i \in DOMAIN collected : collected[i] # NaN /\ collected[i] \in 1..h}

WarmupFindsFloor ==
    [][(phase = "warmup" /\ phase' = "run" /\ stat'.ewma # NaN) =>
        \A h \in Readings \ {0} :
            2 * Cardinality(Settled(h)) > Len(collected)
                => stat'.ewma * ToleranceDen <= h * ToleranceNum]_vars

\* Between two ticks the file holds what the process knows, so that a normal
\* survives a restart (store.go:1-4, detector.go:288-294), unless a write
\* failed or a NaN is in the store.
NormalOnFile ==
    phase = "run" /\ watching /\ ~unsaved /\ Encodable => file = Store

\* The same for the entry's normal alone, whatever another key has learned.
OwnNormalOnFile ==
    phase = "run" /\ watching /\ ~unsaved /\ stat.ewma # NaN => file.stat = stat

=============================================================================
