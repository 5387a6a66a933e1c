--------------------------- MODULE CatalogLockProofs ---------------------------
(***************************************************************************)
(* Proofs about CatalogLock, for every catalog, every set of command lines  *)
(* and any number of processes.                                             *)
(***************************************************************************)
EXTENDS CatalogLock, TLAPS

-----------------------------------------------------------------------------
(* Partial functions                                                         *)

\* A function on some of D with values in R is partial, and the converse.
LEMMA PartialIntro ==
    ASSUME NEW D, NEW R, NEW S \in SUBSET D, NEW f \in [S -> R]
    PROVE  f \in Partial(D, R)
BY DEF Partial

LEMMA PartialElim ==
    ASSUME NEW D, NEW R, NEW f \in Partial(D, R)
    PROVE  /\ DOMAIN f \subseteq D
           /\ f \in [DOMAIN f -> R]
           /\ \A x \in DOMAIN f : f[x] \in R
BY DEF Partial

\* What approve writes: hashes of entries, for ids.
LEMMA ApprovedType ==
    ASSUME NEW job \in Job, NEW l \in Partial(Id, Form), NEW s \in Partial(Id, Text)
    PROVE  /\ Approved(job, l, s) \in Partial(Id, Form)
           /\ Chosen(job, l, s) \subseteq DOMAIN s
           /\ DOMAIN Approved(job, l, s) \subseteq DOMAIN l \cup Chosen(job, l, s)
           /\ \A id \in DOMAIN Approved(job, l, s) :
                Approved(job, l, s)[id] =
                    IF id \in Chosen(job, l, s) THEN Hash(s[id]) ELSE l[id]
<1> DEFINE chosen == Chosen(job, l, s)
           kept == IF "prune" \in job.flags THEN DOMAIN l \ Stale(l, s) ELSE DOMAIN l
           written == [id \in kept \cup chosen |-> IF id \in chosen THEN Hash(s[id]) ELSE l[id]]
<1>1. /\ DOMAIN l \subseteq Id /\ \A id \in DOMAIN l : l[id] \in Form
      /\ DOMAIN s \subseteq Id /\ \A id \in DOMAIN s : s[id] \in Text
  BY PartialElim
<1>2. chosen \subseteq DOMAIN s
  BY DEF Chosen
<1>3. kept \subseteq DOMAIN l
  OBVIOUS
<1>4. Approved(job, l, s) = written
  BY DEF Approved
<1>5. \A id \in DOMAIN s : Hash(s[id]) \in Form
  BY <1>1, CatalogAssumption DEF Hash
<1> HIDE DEF chosen, kept
<1>6. written \in [kept \cup chosen -> Form]
  BY <1>1, <1>2, <1>3, <1>5
<1>7. kept \cup chosen \in SUBSET Id
  BY <1>1, <1>2, <1>3
<1>8. written \in Partial(Id, Form)
  BY <1>6, <1>7, PartialIntro
<1>9. \A id \in DOMAIN written :
        written[id] = IF id \in chosen THEN Hash(s[id]) ELSE l[id]
  OBVIOUS
<1>10. DOMAIN written \subseteq DOMAIN l \cup chosen
  BY <1>3
<1> QED
  BY <1>2, <1>4, <1>8, <1>9, <1>10 DEF chosen

\* The empty function is partial, so an idle process has its type.
LEMMA NoneType == \A D, R : None \in Partial(D, R)
<1> SUFFICES ASSUME NEW D, NEW R PROVE None \in Partial(D, R)
  OBVIOUS
<1>1. None \in [{} -> R]
  BY DEF None
<1> QED
  BY <1>1, PartialIntro

-----------------------------------------------------------------------------
(* Types                                                                     *)

ProcType == [phase : {"idle", "reading", "deciding", "approved", "green", "red", "running"},
             job : Job \cup {None},
             left : SUBSET Id,
             seen : Partial(Id, Text),
             lock : Partial(Id, Form)]

LEMMA IdleType == Idle \in ProcType
BY NoneType DEF Idle, ProcType

\* A step that gives one process a record of its type, and leaves the rest alone,
\* keeps the type of all processes.
LEMMA ProcStep ==
    ASSUME TypeOK, NEW p \in Proc, NEW r \in ProcType,
           r.phase \in {"approved", "green", "red"} => r.job \in Job,
           proc' = [proc EXCEPT ![p] = r]
    PROVE  /\ proc' \in [Proc -> ProcType]
           /\ \A q \in Proc : proc'[q].phase \in {"approved", "green", "red"}
                                => proc'[q].job \in Job
BY DEF TypeOK, ProcType

LEMMA TypeStep == TypeOK /\ [Next]_vars => TypeOK'
<1> SUFFICES ASSUME TypeOK, [Next]_vars PROVE TypeOK'
  OBVIOUS
<1>0. proc \in [Proc -> ProcType]
  BY DEF TypeOK, ProcType
<1>1. CASE Edit
  <2>1. PICK id \in Id :
          \/ \E text \in TextsOf[id] :
                catalog' = [i \in DOMAIN catalog \cup {id} |->
                                IF i = id THEN text ELSE catalog[i]]
          \/ catalog' = [i \in DOMAIN catalog \ {id} |-> catalog[i]]
    BY <1>1 DEF Edit
  <2>2. DOMAIN catalog \subseteq Id /\ \A i \in DOMAIN catalog : catalog[i] \in Text
    BY PartialElim DEF TypeOK
  <2>3. TextsOf[id] \subseteq Text
    BY CatalogAssumption
  <2>4. catalog' \in Partial(Id, Text)
    <3>1. CASE \E text \in TextsOf[id] :
                catalog' = [i \in DOMAIN catalog \cup {id} |->
                                IF i = id THEN text ELSE catalog[i]]
      <4>1. catalog' \in [DOMAIN catalog \cup {id} -> Text]
        BY <3>1, <2>2, <2>3
      <4> QED
        BY <4>1, <2>2, PartialIntro
    <3>2. CASE catalog' = [i \in DOMAIN catalog \ {id} |-> catalog[i]]
      <4>1. catalog' \in [DOMAIN catalog \ {id} -> Text]
        BY <3>2, <2>2
      <4> QED
        BY <4>1, <2>2, PartialIntro
    <3> QED
      BY <2>1, <3>1, <3>2
  <2>5. fresh' \subseteq Proc /\ UNCHANGED <<lock, proc, approvals>>
    BY <1>1 DEF Edit, TypeOK
  <2> QED
    BY <2>4, <2>5 DEF TypeOK
<1>2. CASE \E p \in Proc : Start(p) \/ ReadEntry(p) \/ ReadLock(p) \/ Exit(p)
  <2> SUFFICES ASSUME NEW p \in Proc, Start(p) \/ ReadEntry(p) \/ ReadLock(p) \/ Exit(p)
               PROVE  TypeOK'
    BY <1>2
  <2>1. UNCHANGED <<catalog, lock, approvals>> /\ fresh' \subseteq Proc
    BY DEF Start, ReadEntry, ReadLock, Exit, TypeOK
  <2>2. \E r \in ProcType : /\ proc' = [proc EXCEPT ![p] = r]
                            /\ r.phase \notin {"approved", "green", "red"}
    <3>1. CASE Start(p)
      <4>1. DOMAIN catalog \subseteq Id
        BY PartialElim DEF TypeOK
      <4>2. [Idle EXCEPT !.phase = "reading", !.left = DOMAIN catalog] \in ProcType
        BY <4>1, IdleType DEF ProcType
      <4>3. [Idle EXCEPT !.phase = "reading", !.left = DOMAIN catalog].phase = "reading"
        BY DEF Idle
      <4> QED
        BY <3>1, <4>2, <4>3 DEF Start
    <3>2. CASE ReadEntry(p)
      <4>1. PICK id \in proc[p].left \cap DOMAIN catalog :
              proc' = [proc EXCEPT
                ![p].left = @ \ {id},
                ![p].seen = [i \in DOMAIN @ \cup {id} |->
                                IF i = id THEN catalog[id] ELSE @[i]]]
        BY <3>2 DEF ReadEntry
      <4> DEFINE old == proc[p].seen
             seen == [i \in DOMAIN old \cup {id} |-> IF i = id THEN catalog[id] ELSE old[i]]
      <4>2. proc[p] \in ProcType /\ old \in Partial(Id, Text) /\ proc[p].left \subseteq Id
        BY <1>0 DEF ProcType
      <4>3. /\ DOMAIN old \subseteq Id /\ \A i \in DOMAIN old : old[i] \in Text
            /\ id \in Id /\ catalog[id] \in Text
        BY <4>2, PartialElim DEF TypeOK
      <4>4. seen \in [DOMAIN old \cup {id} -> Text]
        BY <4>3
      <4>5. seen \in Partial(Id, Text)
        BY <4>3, <4>4, PartialIntro
      <4>6. [proc[p] EXCEPT !.left = @ \ {id}, !.seen = seen] \in ProcType
        BY <4>2, <4>5 DEF ProcType
      <4>7. proc' = [proc EXCEPT ![p] = [proc[p] EXCEPT !.left = @ \ {id}, !.seen = seen]]
        BY <4>1, <1>0 DEF ProcType
      <4>8. proc[p].phase = "reading"
        BY <3>2 DEF ReadEntry
      <4>9. [proc[p] EXCEPT !.left = @ \ {id}, !.seen = seen].phase = "reading"
        BY <4>8, <4>2 DEF ProcType
      <4> QED
        BY <4>6, <4>7, <4>9
    <3>3. CASE ReadLock(p)
      <4>1. proc' = [proc EXCEPT ![p] = [proc[p] EXCEPT !.phase = "deciding", !.lock = lock]]
        BY <3>3, <1>0 DEF ReadLock, ProcType
      <4>2. [proc[p] EXCEPT !.phase = "deciding", !.lock = lock] \in ProcType
        BY <1>0 DEF ProcType, TypeOK
      <4>3. [proc[p] EXCEPT !.phase = "deciding", !.lock = lock].phase = "deciding"
        BY <1>0 DEF ProcType
      <4> QED
        BY <4>1, <4>2, <4>3
    <3>4. CASE Exit(p)
      BY <3>4, IdleType DEF Exit, Idle
    <3> QED
      BY <3>1, <3>2, <3>3, <3>4
  <2> QED
    BY <2>1, <2>2, ProcStep DEF TypeOK, ProcType
<1>3. CASE \E p \in Proc, job \in Job : SaveLock(p, job)
  <2> SUFFICES ASSUME NEW p \in Proc, NEW job \in Job, SaveLock(p, job) PROVE TypeOK'
    BY <1>3
  <2>1. proc[p].lock \in Partial(Id, Form) /\ proc[p].seen \in Partial(Id, Text)
    BY <1>0 DEF ProcType
  <2>2. lock' \in Partial(Id, Form)
    BY <2>1, ApprovedType DEF SaveLock
  <2>3. Chosen(job, proc[p].lock, proc[p].seen) \subseteq DOMAIN proc[p].seen
    BY <2>1, ApprovedType
  <2>4. \A id \in DOMAIN proc[p].seen : id \in Id /\ Hash(proc[p].seen[id]) \in Form
    BY <2>1, PartialElim, CatalogAssumption DEF Hash
  <2>5. approvals' \subseteq Id \X Form
    BY <2>3, <2>4 DEF SaveLock, TypeOK
  <2>6. [Idle EXCEPT !.phase = "approved", !.job = job] \in ProcType
    BY IdleType DEF ProcType
  <2>7. [Idle EXCEPT !.phase = "approved", !.job = job].job = job
    BY DEF Idle
  <2>8. fresh' \subseteq Proc /\ UNCHANGED catalog
    BY DEF SaveLock, TypeOK
  <2>9. proc' = [proc EXCEPT ![p] = [Idle EXCEPT !.phase = "approved", !.job = job]]
    BY DEF SaveLock
  <2> QED
    BY <2>2, <2>5, <2>6, <2>7, <2>8, <2>9, ProcStep DEF TypeOK, ProcType
<1>4. CASE \E p \in Proc, job \in Job : Judge(p, job)
  <2> SUFFICES ASSUME NEW p \in Proc, NEW job \in Job, Judge(p, job) PROVE TypeOK'
    BY <1>4
  <2>1. PICK verdict \in {"green", "red"} :
          proc' = [proc EXCEPT ![p] = [Idle EXCEPT !.phase = verdict, !.job = job]]
    BY DEF Judge
  <2>2. [Idle EXCEPT !.phase = verdict, !.job = job] \in ProcType
    BY IdleType DEF ProcType
  <2>3. [Idle EXCEPT !.phase = verdict, !.job = job].job = job
    BY DEF Idle
  <2>4. UNCHANGED <<catalog, lock, approvals, fresh>>
    BY DEF Judge
  <2> QED
    BY <2>1, <2>2, <2>3, <2>4, ProcStep DEF TypeOK, ProcType
<1>5. CASE \E p \in Proc, job \in Job : Launch(p, job)
  <2> SUFFICES ASSUME NEW p \in Proc, NEW job \in Job, Launch(p, job) PROVE TypeOK'
    BY <1>5
  <2> DEFINE s == proc[p].seen
         running == DOMAIN s \ Unlocked(proc[p].lock, s)
         r == [Idle EXCEPT !.phase = "running", !.seen = [id \in running |-> s[id]]]
  <2>1. proc' = [proc EXCEPT ![p] = r] /\ UNCHANGED <<catalog, lock, approvals, fresh>>
    BY DEF Launch
  <2>2. DOMAIN s \subseteq Id /\ \A id \in DOMAIN s : s[id] \in Text
    BY <1>0, PartialElim DEF ProcType
  <2>3. [id \in running |-> s[id]] \in [running -> Text]
    BY <2>2
  <2>4. [id \in running |-> s[id]] \in Partial(Id, Text)
    BY <2>2, <2>3, PartialIntro
  <2>5. r \in ProcType /\ r.phase = "running"
    BY <2>4, IdleType DEF ProcType, Idle
  <2> QED
    BY <2>1, <2>5, ProcStep DEF TypeOK, ProcType
<1>6. CASE UNCHANGED vars
  BY <1>6 DEF vars, TypeOK
<1> QED
  BY <1>1, <1>2, <1>3, <1>4, <1>5, <1>6 DEF Next

\* Every file, lock and process has the type TypeOK gives it.
THEOREM TypeCorrect == Spec => []TypeOK
<1>1. Init => TypeOK
  BY NoneType, IdleType DEF Init, TypeOK, ProcType, Idle
<1> QED
  BY <1>1, TypeStep, PTL DEF Spec

-----------------------------------------------------------------------------
(* What runs is what was approved                                            *)

\* Everything recorded as approved is an approve's doing: what the lock file holds,
\* what a process has loaded from it, and what a watch runs.
Recorded(f) == \A id \in DOMAIN f : <<id, f[id]>> \in approvals

\* What a watch runs was approved in the form it runs in.
InApprovedForm ==
    \A p \in Proc : proc[p].phase = "running" =>
        \A id \in DOMAIN proc[p].seen : <<id, Hash(proc[p].seen[id])>> \in approvals

LockInv ==
    /\ TypeOK
    /\ Recorded(lock)
    /\ \A p \in Proc : proc[p].phase = "deciding" => Recorded(proc[p].lock)
    /\ InApprovedForm

\* The entries that are not unlocked have, in the lock, the hash they have on disk.
LEMMA LockedIsRecorded ==
    ASSUME NEW l, NEW s, NEW id \in DOMAIN s \ Unlocked(l, s)
    PROVE  id \in DOMAIN l /\ l[id] = Hash(s[id])
BY DEF Unlocked, Status

\* Approvals are never taken back, so a process that is not touched stays as it was.
LEMMA OthersKeep ==
    ASSUME LockInv, NEW q \in Proc, approvals \subseteq approvals', proc'[q] = proc[q]
    PROVE  /\ proc'[q].phase = "deciding" =>
                \A id \in DOMAIN proc'[q].lock : <<id, proc'[q].lock[id]>> \in approvals'
           /\ proc'[q].phase = "running" =>
                \A id \in DOMAIN proc'[q].seen :
                    <<id, Hash(proc'[q].seen[id])>> \in approvals'
BY DEF LockInv, Recorded, InApprovedForm

LEMMA LockStep == LockInv /\ [Next]_vars => LockInv'
<1> SUFFICES ASSUME LockInv, [Next]_vars PROVE LockInv'
  OBVIOUS
<1>1. TypeOK'
  BY TypeStep DEF LockInv
<1>2. CASE Edit \/ UNCHANGED vars
  <2>1. UNCHANGED <<lock, proc, approvals>>
    BY <1>2 DEF Edit, vars
  <2> QED
    BY <1>1, <2>1 DEF LockInv, Recorded, InApprovedForm, Hash
<1>3. CASE \E p \in Proc : Start(p) \/ ReadEntry(p) \/ Exit(p)
  <2> SUFFICES ASSUME NEW p \in Proc, Start(p) \/ ReadEntry(p) \/ Exit(p) PROVE LockInv'
    BY <1>3
  <2>1. UNCHANGED <<lock, approvals>>
    BY DEF Start, ReadEntry, Exit
  <2>2. /\ \A q \in Proc \ {p} : proc'[q] = proc[q]
        /\ proc'[p].phase \notin {"deciding", "running"}
    <3>0. proc \in [Proc -> ProcType]
      BY DEF LockInv, TypeOK, ProcType
    <3>1. CASE Start(p)
      BY <3>0, <3>1 DEF Start, Idle
    <3>2. CASE ReadEntry(p)
      BY <3>0, <3>2 DEF ReadEntry, ProcType
    <3>3. CASE Exit(p)
      BY <3>0, <3>3 DEF Exit, Idle
    <3> QED
      BY <3>1, <3>2, <3>3
  <2> QED
    BY <1>1, <2>1, <2>2, OthersKeep DEF LockInv, Recorded, InApprovedForm, Hash
<1>4. CASE \E p \in Proc : ReadLock(p)
  <2> SUFFICES ASSUME NEW p \in Proc, ReadLock(p) PROVE LockInv'
    BY <1>4
  <2>1. UNCHANGED <<lock, approvals>>
    BY DEF ReadLock
  <2>2. /\ \A q \in Proc \ {p} : proc'[q] = proc[q]
        /\ proc'[p].phase = "deciding" /\ proc'[p].lock = lock
    BY DEF ReadLock, LockInv, TypeOK
  <2> QED
    BY <1>1, <2>1, <2>2, OthersKeep DEF LockInv, Recorded, InApprovedForm, Hash
<1>5. CASE \E p \in Proc, job \in Job : SaveLock(p, job)
  <2> SUFFICES ASSUME NEW p \in Proc, NEW job \in Job, SaveLock(p, job) PROVE LockInv'
    BY <1>5
  <2> DEFINE l == proc[p].lock
         s == proc[p].seen
         chosen == Chosen(job, l, s)
  <2>1. /\ lock' = Approved(job, l, s)
        /\ approvals' = approvals \cup {<<id, Hash(s[id])>> : id \in chosen}
        /\ proc[p].phase = "deciding"
    BY DEF SaveLock
  <2>2. /\ \A q \in Proc \ {p} : proc'[q] = proc[q]
        /\ proc'[p].phase = "approved"
    BY DEF SaveLock, Idle, LockInv, TypeOK
  <2>3. l \in Partial(Id, Form) /\ s \in Partial(Id, Text)
    BY DEF LockInv, TypeOK
  <2>4. \A id \in DOMAIN l : <<id, l[id]>> \in approvals
    BY <2>1 DEF LockInv, Recorded
  <2>5. \A id \in DOMAIN lock' : <<id, lock'[id]>> \in approvals'
    <3>1. /\ DOMAIN lock' \subseteq DOMAIN l \cup chosen
          /\ \A id \in DOMAIN lock' : lock'[id] = IF id \in chosen THEN Hash(s[id]) ELSE l[id]
      BY <2>1, <2>3, ApprovedType
    <3> HIDE DEF chosen, l, s
    <3> QED
      BY <2>1, <2>4, <3>1
  <2> QED
    BY <1>1, <2>1, <2>2, <2>5, OthersKeep DEF LockInv, Recorded, InApprovedForm, Hash
<1>6. CASE \E p \in Proc, job \in Job : Judge(p, job)
  <2> SUFFICES ASSUME NEW p \in Proc, NEW job \in Job, Judge(p, job) PROVE LockInv'
    BY <1>6
  <2>1. UNCHANGED <<lock, approvals>>
    BY DEF Judge
  <2>2. /\ \A q \in Proc \ {p} : proc'[q] = proc[q]
        /\ proc'[p].phase \in {"green", "red"}
    BY DEF Judge, Idle, LockInv, TypeOK
  <2> QED
    BY <1>1, <2>1, <2>2, OthersKeep DEF LockInv, Recorded, InApprovedForm, Hash
<1>7. CASE \E p \in Proc, job \in Job : Launch(p, job)
  <2> SUFFICES ASSUME NEW p \in Proc, NEW job \in Job, Launch(p, job) PROVE LockInv'
    BY <1>7
  <2> DEFINE l == proc[p].lock
         s == proc[p].seen
         running == [id \in DOMAIN s \ Unlocked(l, s) |-> s[id]]
  <2>1. UNCHANGED <<lock, approvals>> /\ proc[p].phase = "deciding"
    BY DEF Launch
  <2>2. /\ \A q \in Proc \ {p} : proc'[q] = proc[q]
        /\ proc'[p].phase = "running" /\ proc'[p].seen = running
    BY DEF Launch, Idle, LockInv, TypeOK
  <2>3. \A id \in DOMAIN running : <<id, Hash(running[id])>> \in approvals
    BY <2>1, LockedIsRecorded DEF LockInv, Recorded
  <2> QED
    BY <1>1, <2>1, <2>2, <2>3, OthersKeep DEF LockInv, Recorded, InApprovedForm, Hash
<1> QED
  BY <1>2, <1>3, <1>4, <1>5, <1>6, <1>7 DEF Next

LEMMA LockInit == Init => LockInv
<1> SUFFICES ASSUME Init PROVE LockInv
  OBVIOUS
<1>1. TypeOK
  BY NoneType, IdleType DEF Init, TypeOK, ProcType, Idle
<1>2. Recorded(lock)
  BY DEF Init, None, Recorded
<1>3. \A p \in Proc : proc[p].phase = "idle"
  BY DEF Init, Idle
<1> QED
  BY <1>1, <1>2, <1>3 DEF LockInv, InApprovedForm

\* No interleaving of edits, approvals, prunings and starts makes a watch run an entry
\* in a form nobody approved, and neither the lock file nor what a process has read of it
\* holds one.
THEOREM OnlyApprovedRuns == Spec => []LockInv
BY LockInit, LockStep, PTL DEF Spec

-----------------------------------------------------------------------------
(* The lock is an approval register                                          *)

\* What each process runs, one of them at a time.
RunsOf(r) ==
    IF r.phase = "running" THEN [id \in DOMAIN r.seen |-> Hash(r.seen[id])] ELSE None

LEMMA RunningIs == \A p \in Proc : Running[p] = RunsOf(proc[p])
BY DEF Running, RunsOf

\* A step of one process changes what that one runs, and of the others nothing.
LEMMA RunningStep ==
    ASSUME TypeOK, NEW p \in Proc, \A q \in Proc \ {p} : proc'[q] = proc[q]
    PROVE  Running' = [Running EXCEPT ![p] = RunsOf(proc'[p])]
BY DEF Running, RunsOf, Hash

LEMMA RunningSame ==
    ASSUME TypeOK, NEW p \in Proc, \A q \in Proc \ {p} : proc'[q] = proc[q],
           RunsOf(proc'[p]) = RunsOf(proc[p])
    PROVE  Running' = Running
<1>1. Running = [q \in Proc |-> RunsOf(proc[q])]
  BY DEF Running, RunsOf
<1>2. Running' = [q \in Proc |-> RunsOf(proc'[q])]
  BY DEF Running, RunsOf, Hash
<1>3. \A q \in Proc : RunsOf(proc'[q]) = RunsOf(proc[q])
  OBVIOUS
<1> QED
  BY <1>1, <1>2, <1>3

\* Of a process that was not running, what its launch starts.
LEMMA LaunchTakesUp ==
    ASSUME LockInv, NEW p \in Proc, NEW job \in Job, Launch(p, job)
    PROVE  Register!TakeUp(p)
<1> DEFINE s == proc[p].seen
           run == [id \in DOMAIN s \ Unlocked(proc[p].lock, s) |-> s[id]]
<1>1. UNCHANGED <<lock, approvals>> /\ proc[p].phase = "deciding"
  BY DEF Launch
<1>2. /\ \A q \in Proc \ {p} : proc'[q] = proc[q]
      /\ proc'[p].phase = "running" /\ proc'[p].seen = run
  BY DEF Launch, Idle, LockInv, TypeOK
<1>3. Running[p] = None
  BY <1>1, RunningIs DEF RunsOf
<1>4. Running' = [Running EXCEPT ![p] = RunsOf(proc'[p])]
  BY <1>2, RunningStep DEF LockInv
<1>5. Running'[p] = RunsOf(proc'[p])
  BY <1>4 DEF Running
<1>6. RunsOf(proc'[p]) = [id \in DOMAIN run |-> Hash(run[id])]
  BY <1>2 DEF RunsOf
<1>7. \A id \in DOMAIN run : <<id, Hash(run[id])>> \in approvals
  BY <1>1, LockedIsRecorded DEF LockInv, Recorded
<1> HIDE DEF run
<1>8. Register!Pairs(Running'[p]) \subseteq approvals
  BY <1>5, <1>6, <1>7 DEF Register!Pairs
<1> QED
  BY <1>1, <1>3, <1>4, <1>5, <1>8 DEF Register!TakeUp

\* A save approves what it has chosen, and writes nothing else than what it had read.
LEMMA SaveApproves ==
    ASSUME LockInv, NEW p \in Proc, NEW job \in Job, SaveLock(p, job)
    PROVE  Register!Approve
<1> DEFINE l == proc[p].lock
           s == proc[p].seen
           chosen == Chosen(job, l, s)
<1>1. /\ lock' = Approved(job, l, s)
      /\ approvals' = approvals \cup {<<id, Hash(s[id])>> : id \in chosen}
      /\ proc[p].phase = "deciding"
  BY DEF SaveLock
<1>2. /\ \A q \in Proc \ {p} : proc'[q] = proc[q]
      /\ proc'[p].phase = "approved"
  BY DEF SaveLock, Idle, LockInv, TypeOK
<1>3. UNCHANGED Running
  BY <1>1, <1>2, RunningSame DEF LockInv, RunsOf
<1>4. Recorded(lock)'
  BY LockStep DEF LockInv, Next
<1>5. Register!Pairs(lock') \subseteq approvals'
  BY <1>4 DEF Register!Pairs, Recorded
<1>6. \A id \in chosen : id \in DOMAIN lock' /\ lock'[id] = Hash(s[id])
  BY <1>1 DEF Approved
<1>7. approvals' \ approvals \subseteq Register!Pairs(lock')
  <2> HIDE DEF chosen, s, l
  <2> QED BY <1>1, <1>6 DEF Register!Pairs
<1> QED
  BY <1>1, <1>3, <1>5, <1>7 DEF Register!Approve

\* Every step is one of the register or a stutter.
LEMMA RegisterStep ==
    LockInv /\ [Next]_vars => [Register!Move]_(Register!registerVars)
<1> SUFFICES ASSUME LockInv, [Next]_vars
             PROVE  [Register!Move]_(Register!registerVars)
  OBVIOUS
<1>0. proc \in [Proc -> ProcType]
  BY DEF LockInv, TypeOK, ProcType
<1>1. CASE Edit \/ UNCHANGED vars
  <2>1. UNCHANGED <<lock, proc, approvals>>
    BY <1>1 DEF Edit, vars
  <2> QED
    BY <2>1 DEF Running, Hash, Register!registerVars
<1>2. ASSUME NEW p \in Proc, Start(p) \/ ReadEntry(p) \/ ReadLock(p)
      PROVE  UNCHANGED Register!registerVars
  <2>1. UNCHANGED <<lock, approvals>>
    BY <1>2 DEF Start, ReadEntry, ReadLock
  <2>2. /\ \A q \in Proc \ {p} : proc'[q] = proc[q]
        /\ proc[p].phase # "running" /\ proc'[p].phase # "running"
    <3>1. CASE Start(p)
      BY <1>0, <3>1 DEF Start, Idle
    <3>2. CASE ReadEntry(p)
      BY <1>0, <3>2 DEF ReadEntry, ProcType
    <3>3. CASE ReadLock(p)
      BY <1>0, <3>3 DEF ReadLock, ProcType
    <3> QED
      BY <1>2, <3>1, <3>2, <3>3
  <2>3. UNCHANGED Running
    BY <2>2, RunningSame DEF LockInv, RunsOf
  <2> QED
    BY <2>1, <2>3 DEF Register!registerVars
<1>3. ASSUME NEW p \in Proc, NEW job \in Job, Judge(p, job)
      PROVE  UNCHANGED Register!registerVars
  <2>1. UNCHANGED <<lock, approvals>> /\ proc[p].phase = "deciding"
    BY <1>3 DEF Judge
  <2>2. /\ \A q \in Proc \ {p} : proc'[q] = proc[q]
        /\ proc'[p].phase \in {"green", "red"}
    BY <1>3 DEF Judge, Idle, LockInv, TypeOK
  <2>3. UNCHANGED Running
    BY <2>1, <2>2, RunningSame DEF LockInv, RunsOf
  <2> QED
    BY <2>1, <2>3 DEF Register!registerVars
<1>4. ASSUME NEW p \in Proc, Exit(p)
      PROVE  Register!Stop(p)
  <2>1. UNCHANGED <<lock, approvals>>
    BY <1>4 DEF Exit
  <2>2. /\ \A q \in Proc \ {p} : proc'[q] = proc[q]
        /\ proc'[p].phase = "idle"
    BY <1>0, <1>4 DEF Exit, Idle
  <2>3. Running' = [Running EXCEPT ![p] = None]
    BY <2>2, RunningStep DEF LockInv, RunsOf
  <2> QED
    BY <2>1, <2>3 DEF Register!Stop
<1> QED
  BY <1>1, <1>2, <1>3, <1>4, LaunchTakesUp, SaveApproves DEF Next, Register!Move

\* The commands implement the register: edits, reads and gates are invisible to it, a save
\* approves, a launch takes up what was approved by the lock it has read, however old that
\* is, and only its exit changes what a watch runs.
THEOREM Refinement == Spec => RunsAsApproved
<1>1. Init => Register!Begin
  <2> SUFFICES ASSUME Init PROVE Register!Begin
    OBVIOUS
  <2>1. Running = [p \in Proc |-> None]
    BY DEF Init, Running, Idle
  <2> QED
    BY <2>1 DEF Init, Register!Begin
<1> QED
  BY <1>1, RegisterStep, OnlyApprovedRuns, PTL
  DEF Spec, RunsAsApproved, Register!RegisterSpec

\* Only its own save takes a process from its decision to "approved".
LEMMA OnlySaveApproves ==
    ASSUME TypeOK, Next, NEW p \in Proc,
           proc[p].phase = "deciding", proc'[p].phase = "approved"
    PROVE  \E job \in Job : SaveLock(p, job)
<1>0. proc \in [Proc -> ProcType]
  BY DEF TypeOK, ProcType
<1>1. ASSUME NEW q \in Proc, Start(q) \/ ReadEntry(q) \/ ReadLock(q) \/ Exit(q)
      PROVE  proc'[p] = proc[p] \/ proc'[p].phase # "approved"
  <2>1. CASE q # p
    BY <1>0, <1>1, <2>1 DEF Start, ReadEntry, ReadLock, Exit
  <2>2. CASE q = p
    BY <1>0, <1>1, <2>2 DEF Start, ReadEntry, ReadLock, Exit, Idle
  <2> QED
    BY <2>1, <2>2
<1>2. ASSUME NEW q \in Proc, NEW job \in Job, Judge(q, job) \/ Launch(q, job)
      PROVE  proc'[p] = proc[p] \/ proc'[p].phase # "approved"
  <2>1. CASE q # p
    BY <1>0, <1>2, <2>1 DEF Judge, Launch
  <2>2. CASE Judge(p, job)
    BY <1>0, <2>2 DEF Judge, Idle
  <2>3. CASE Launch(p, job)
    BY <1>0, <2>3 DEF Launch, Idle
  <2> QED
    BY <1>2, <2>1, <2>2, <2>3
<1>3. ASSUME NEW q \in Proc, NEW job \in Job, SaveLock(q, job), q # p
      PROVE  proc'[p] = proc[p]
  BY <1>0, <1>3 DEF SaveLock
<1> QED
  BY <1>1, <1>2, <1>3 DEF Next, Edit

\* An approve that nobody raced leaves the standing of every entry it was not asked
\* about as it was.
THEOREM ApproveIsDeliberate == Spec => DeliberateAct
<1> DEFINE Kept(p, id) ==
             /\ id \in DOMAIN lock <=> id \in DOMAIN lock'
             /\ id \in DOMAIN lock => lock[id] = lock'[id]
       Asked(p, id) ==
             \/ id \in proc'[p].job.want
             \/ /\ "all" \in proc'[p].job.flags /\ proc'[p].job.want = {}
                /\ id \in DOMAIN proc[p].seen
             \/ "prune" \in proc'[p].job.flags /\ id \notin DOMAIN proc[p].seen
<1>1. TypeOK /\ [Next]_vars => [DeliberateStep]_vars
  <2> SUFFICES ASSUME TypeOK, Next, NEW p \in Proc, proc[p].phase = "deciding",
                      proc'[p].phase = "approved", proc[p].lock = lock
               PROVE  \A id \in Id : Kept(p, id) \/ Asked(p, id)
    BY DEF DeliberateStep
  <2> TAKE id \in Id
  <2>1. PICK job \in Job : SaveLock(p, job)
    BY OnlySaveApproves DEF TypeOK
  <2> DEFINE s == proc[p].seen
         chosen == Chosen(job, lock, s)
         kept == IF "prune" \in job.flags THEN DOMAIN lock \ Stale(lock, s) ELSE DOMAIN lock
  <2>2. proc'[p].job = job
    BY <2>1 DEF SaveLock, Idle, TypeOK
  <2>3. lock' = [i \in kept \cup chosen |-> IF i \in chosen THEN Hash(s[i]) ELSE lock[i]]
    BY <2>1 DEF SaveLock, Approved
  <2>4. CASE id \in chosen
    BY <2>2, <2>4 DEF Chosen, PruneOnly
  <2>5. CASE id \notin chosen /\ "prune" \in job.flags /\ id \notin DOMAIN s
    BY <2>2, <2>5
  <2>6. CASE id \notin chosen /\ ~("prune" \in job.flags /\ id \notin DOMAIN s)
    <3>1. id \in kept <=> id \in DOMAIN lock
      BY <2>6 DEF Stale
    <3> HIDE DEF chosen, kept
    <3> QED
      BY <2>3, <2>6, <3>1
  <2> QED
    BY <2>4, <2>5, <2>6
<1>2. Spec => []TypeOK
  BY TypeCorrect
<1> QED
  BY <1>1, <1>2, PTL DEF Spec, DeliberateAct

-----------------------------------------------------------------------------
(* What a process that nothing has overtaken knows                           *)

\* The entries whose approval is that of what the directory holds.
Sound == {id \in DOMAIN catalog \cap DOMAIN lock : lock[id] = Hash(catalog[id])}

Asked(job) ==
    IF job.want # {} THEN job.want
    ELSE IF "all" \in job.flags THEN DOMAIN catalog ELSE {}

SeenAsIs(p) == \A id \in DOMAIN proc[p].seen : /\ id \in DOMAIN catalog
                                              /\ Hash(proc[p].seen[id]) = Hash(catalog[id])

\* For each phase, what follows for the directory and the lock as they are.
Knows(p) ==
    /\ proc[p].phase = "reading" =>
            /\ proc[p].left \cup DOMAIN proc[p].seen = DOMAIN catalog
            /\ SeenAsIs(p)
    /\ proc[p].phase = "deciding" =>
            /\ DOMAIN proc[p].seen = DOMAIN catalog
            /\ SeenAsIs(p)
            /\ proc[p].lock = lock
    /\ proc[p].phase = "running" => DOMAIN proc[p].seen = Sound
    /\ proc[p].phase \in {"green", "red"} =>
            (proc[p].phase = "green" <=> Covered(proc[p].job, Sound))
    /\ proc[p].phase = "approved" =>
            /\ \A id \in Asked(proc[p].job) : id \in DOMAIN lock /\ lock[id] = Hash(catalog[id])
            /\ "prune" \in proc[p].job.flags => DOMAIN lock \subseteq DOMAIN catalog
            /\ proc[p].job.want \subseteq DOMAIN catalog

FreshInv == TypeOK /\ \A p \in fresh : Knows(p)

\* While neither the lock nor any meaning changes, what a process knows stays true.
LEMMA KnowledgeKeeps ==
    ASSUME NEW p \in Proc, Knows(p), proc'[p] = proc[p], lock' = lock,
           DOMAIN catalog' = DOMAIN catalog,
           \A id \in DOMAIN catalog : Hash(catalog'[id]) = Hash(catalog[id])
    PROVE  Knows(p)'
<1>1. Sound' = Sound
  BY DEF Sound, Hash
<1>2. \A job : Covered(job, Sound)' = Covered(job, Sound)
  BY <1>1 DEF Covered
<1>3. SeenAsIs(p) => SeenAsIs(p)'
  BY DEF SeenAsIs, Hash
<1>5. CASE proc[p].phase = "reading"
  BY <1>3, <1>5 DEF Knows
<1>6. CASE proc[p].phase = "deciding"
  BY <1>3, <1>6 DEF Knows
<1>7. CASE proc[p].phase = "running"
  BY <1>1, <1>7 DEF Knows
<1>8. CASE proc[p].phase \in {"green", "red"}
  BY <1>2, <1>8 DEF Knows
<1>9. CASE proc[p].phase = "approved"
  <2>1. \A id \in Asked(proc[p].job) : id \in DOMAIN lock /\ lock[id] = Hash(catalog[id])
    BY <1>9 DEF Knows
  <2>2. Asked(proc[p].job) \subseteq DOMAIN catalog
    BY <1>9 DEF Knows, Asked
  <2>3. Asked(proc[p].job)' = Asked(proc[p].job)
    BY DEF Asked
  <2>4. \A id \in Asked(proc[p].job)' : id \in DOMAIN lock' /\ lock'[id] = Hash(catalog'[id])
    BY <2>1, <2>2, <2>3
  <2>5. /\ "prune" \in proc'[p].job.flags => DOMAIN lock' \subseteq DOMAIN catalog'
        /\ proc'[p].job.want \subseteq DOMAIN catalog'
    BY <1>9 DEF Knows
  <2> QED
    BY <1>9, <2>4, <2>5 DEF Knows, Hash
<1>10. CASE proc[p].phase \notin {"reading", "deciding", "running", "green", "red", "approved"}
  BY <1>10 DEF Knows
<1> QED
  BY <1>5, <1>6, <1>7, <1>8, <1>9, <1>10

\* A process that decides on what is there: the unlocked are those that are not sound.
LEMMA DecidesOnWhatIs ==
    ASSUME NEW p \in Proc, Knows(p), proc[p].phase = "deciding"
    PROVE  /\ DOMAIN proc[p].seen = DOMAIN catalog
           /\ proc[p].lock = lock
           /\ DOMAIN proc[p].seen \ Unlocked(proc[p].lock, proc[p].seen) = Sound
           /\ \A id \in DOMAIN catalog : Hash(proc[p].seen[id]) = Hash(catalog[id])
<1>1. /\ DOMAIN proc[p].seen = DOMAIN catalog
      /\ proc[p].lock = lock
      /\ \A id \in DOMAIN catalog : Hash(proc[p].seen[id]) = Hash(catalog[id])
  BY DEF Knows, SeenAsIs
<1>2. \A id \in DOMAIN catalog : id \in Unlocked(lock, proc[p].seen) <=> id \notin Sound
  BY <1>1 DEF Unlocked, Status, Sound
<1> QED
  BY <1>1, <1>2 DEF Sound

LEMMA FreshStep == FreshInv /\ [Next]_vars => FreshInv'
<1> SUFFICES ASSUME FreshInv, [Next]_vars, NEW p \in fresh' PROVE Knows(p)'
  BY TypeStep DEF FreshInv
<1>0. proc \in [Proc -> ProcType] /\ fresh \subseteq Proc /\ p \in Proc
  BY TypeStep DEF FreshInv, TypeOK, ProcType
<1>1. CASE Edit
  <2>1. PICK id \in Id : /\ p \in fresh
                        /\ id \in DOMAIN catalog \cap DOMAIN catalog'
                        /\ Meaning[catalog[id]] = Meaning[catalog'[id]]
                        /\ \/ \E text \in TextsOf[id] :
                                catalog' = [i \in DOMAIN catalog \cup {id} |->
                                                IF i = id THEN text ELSE catalog[i]]
                           \/ catalog' = [i \in DOMAIN catalog \ {id} |-> catalog[i]]
    BY <1>1 DEF Edit
  <2>2. /\ DOMAIN catalog' = DOMAIN catalog
        /\ \A i \in DOMAIN catalog : Hash(catalog'[i]) = Hash(catalog[i])
    BY <2>1 DEF Hash
  <2>3. UNCHANGED <<lock, proc>>
    BY <1>1 DEF Edit
  <2> QED
    BY <1>0, <2>1, <2>2, <2>3, KnowledgeKeeps DEF FreshInv
<1>2. CASE UNCHANGED vars
  BY <1>0, <1>2, KnowledgeKeeps DEF FreshInv, vars
<1>3. ASSUME NEW q \in Proc, q # p,
             \/ Start(q) \/ ReadEntry(q) \/ ReadLock(q) \/ Exit(q)
             \/ \E job \in Job : SaveLock(q, job) \/ Judge(q, job) \/ Launch(q, job)
      PROVE  Knows(p)'
  <2>1. p \in fresh /\ UNCHANGED catalog /\ lock' = lock
    BY <1>3 DEF Start, ReadEntry, ReadLock, Exit, SaveLock, Judge, Launch
  <2>2. proc'[p] = proc[p]
    BY <1>0, <1>3 DEF Start, ReadEntry, ReadLock, Exit, SaveLock, Judge, Launch
  <2> QED
    BY <1>0, <2>1, <2>2, KnowledgeKeeps DEF FreshInv
<1>4. CASE Start(p)
  <2>1. /\ proc'[p].phase = "reading" /\ proc'[p].left = DOMAIN catalog
        /\ DOMAIN proc'[p].seen = {} /\ UNCHANGED catalog
    BY <1>0, <1>4 DEF Start, Idle, None
  <2> QED
    BY <2>1 DEF Knows, SeenAsIs
<1>5. CASE ReadEntry(p)
  <2>1. PICK id \in proc[p].left \cap DOMAIN catalog :
          proc' = [proc EXCEPT
            ![p].left = @ \ {id},
            ![p].seen = [i \in DOMAIN @ \cup {id} |-> IF i = id THEN catalog[id] ELSE @[i]]]
    BY <1>5 DEF ReadEntry
  <2>2. /\ proc'[p].phase = "reading" /\ proc[p].phase = "reading"
        /\ proc'[p].left = proc[p].left \ {id}
        /\ proc'[p].seen = [i \in DOMAIN proc[p].seen \cup {id} |->
                                IF i = id THEN catalog[id] ELSE proc[p].seen[i]]
    BY <1>0, <1>5, <2>1 DEF ReadEntry, ProcType
  <2>3. UNCHANGED catalog /\ Knows(p)
    BY <1>5 DEF ReadEntry, FreshInv
  <2> QED
    BY <2>2, <2>3 DEF Knows, SeenAsIs, Hash
<1>6. CASE ReadLock(p)
  <2>1. /\ proc'[p].phase = "deciding" /\ proc[p].phase = "reading" /\ proc[p].left = {}
        /\ proc'[p].seen = proc[p].seen /\ proc'[p].lock = lock
    BY <1>0, <1>6 DEF ReadLock, ProcType
  <2>2. UNCHANGED <<catalog, lock>> /\ Knows(p)
    BY <1>6 DEF ReadLock, FreshInv
  <2> QED
    BY <2>1, <2>2 DEF Knows, SeenAsIs, Hash
<1>7. CASE Exit(p)
  BY <1>7 DEF Exit
<1>8. ASSUME NEW job \in Job, SaveLock(p, job) PROVE Knows(p)'
  <2> DEFINE s == proc[p].seen
         chosen == Chosen(job, lock, s)
         kept == IF "prune" \in job.flags THEN DOMAIN lock \ Stale(lock, s) ELSE DOMAIN lock
  <2>0. p \in fresh /\ proc[p].phase = "deciding" /\ UNCHANGED catalog
    BY <1>8 DEF SaveLock
  <2>1. /\ DOMAIN s = DOMAIN catalog /\ proc[p].lock = lock
        /\ DOMAIN s \ Unlocked(lock, s) = Sound
        /\ \A id \in DOMAIN catalog : Hash(s[id]) = Hash(catalog[id])
    BY <1>0, <2>0, DecidesOnWhatIs DEF FreshInv
  <2>2. /\ proc'[p].phase = "approved" /\ proc'[p].job = job
    BY <1>0, <1>8 DEF SaveLock, Idle
  <2>3. /\ lock' = [i \in kept \cup chosen |-> IF i \in chosen THEN Hash(s[i]) ELSE lock[i]]
        /\ job.want \subseteq DOMAIN s
    BY <1>8, <2>1 DEF SaveLock, Approved, Refused
  <2>4. ASSUME NEW id \in Asked(job) PROVE id \in DOMAIN lock' /\ lock'[id] = Hash(catalog[id])
    <3>1. id \in DOMAIN s /\ (job.want = {} \/ id \in job.want) /\ ~PruneOnly(job)
      BY <2>1, <2>3, <2>4 DEF Asked, PruneOnly
    <3>2. CASE id \in chosen
      BY <2>1, <2>3, <3>1, <3>2
    <3>3. CASE id \notin chosen
      <4>1. id \notin Unlocked(lock, s)
        BY <3>1, <3>3 DEF Chosen, Unlocked
      <4>2. id \in DOMAIN lock /\ lock[id] = Hash(catalog[id])
        BY <2>1, <3>1, <4>1 DEF Sound
      <4>3. id \in kept
        BY <3>1, <4>2 DEF Stale
      <4> HIDE DEF chosen, kept
      <4> QED
        BY <2>3, <3>3, <4>2, <4>3
    <3> QED
      BY <3>2, <3>3
  <2>5. "prune" \in job.flags => DOMAIN lock' \subseteq DOMAIN catalog
    BY <2>1, <2>3 DEF Stale, Chosen
  <2>6. Asked(job)' = Asked(job)
    BY <2>0 DEF Asked
  <2> QED
    BY <2>0, <2>1, <2>2, <2>3, <2>4, <2>5, <2>6 DEF Knows, Hash
<1>9. ASSUME NEW job \in Job, Judge(p, job) PROVE Knows(p)'
  <2> DEFINE s == proc[p].seen
  <2>0. p \in fresh /\ proc[p].phase = "deciding" /\ UNCHANGED <<catalog, lock>>
    BY <1>9 DEF Judge
  <2>1. /\ DOMAIN s = DOMAIN catalog /\ proc[p].lock = lock
        /\ DOMAIN s \ Unlocked(lock, s) = Sound
    BY <1>0, <2>0, DecidesOnWhatIs DEF FreshInv
  <2>2. /\ proc'[p].phase = IF Passes(job, lock, s) THEN "green" ELSE "red"
        /\ proc'[p].job = job
    BY <1>0, <1>9, <2>1 DEF Judge, Idle
  <2>3. Unlocked(lock, s) = DOMAIN catalog \ Sound
    BY <2>1 DEF Unlocked
  <2>4. Passes(job, lock, s) <=> Covered(job, Sound)
    BY <2>1, <2>3 DEF Passes, Covered, Stale, Sound
  <2>5. Covered(job, Sound)' = Covered(job, Sound)
    BY <2>0 DEF Covered, Sound, Hash
  <2> QED
    BY <2>2, <2>4, <2>5 DEF Knows
<1>10. ASSUME NEW job \in Job, Launch(p, job) PROVE Knows(p)'
  <2>0. p \in fresh /\ proc[p].phase = "deciding" /\ UNCHANGED <<catalog, lock>>
    BY <1>10 DEF Launch
  <2>1. /\ proc'[p].phase = "running"
        /\ DOMAIN proc'[p].seen = DOMAIN proc[p].seen \ Unlocked(proc[p].lock, proc[p].seen)
    BY <1>0, <1>10 DEF Launch, Idle
  <2>2. DOMAIN proc'[p].seen = Sound
    BY <1>0, <2>0, <2>1, DecidesOnWhatIs DEF FreshInv
  <2> QED
    BY <2>0, <2>1, <2>2 DEF Knows, Sound, Hash
<1> QED
  BY <1>1, <1>2, <1>3, <1>4, <1>5, <1>6, <1>7, <1>8, <1>9, <1>10 DEF Next

LEMMA FreshInvariant == Spec => []FreshInv
<1>1. Init => FreshInv
  BY NoneType, IdleType DEF Init, FreshInv, TypeOK, ProcType, Idle
<1> QED
  BY <1>1, FreshStep, PTL DEF Spec

\* validate and watch never disagree about what is covered, whatever happened before
\* and whoever else runs.
THEOREM GateIsRight == Spec => []GateMatchesWatch
<1>1. FreshInv => GateMatchesWatch
  BY DEF FreshInv, Knows, GateMatchesWatch
<1> QED
  BY <1>1, FreshInvariant, PTL

\* What approve was asked for is what the lock says, and nothing it pruned is left.
THEOREM ApproveTakesHold == Spec => []ApprovedIsLocked
<1>1. FreshInv => ApprovedIsLocked
  BY DEF FreshInv, Knows, ApprovedIsLocked, Asked
<1> QED
  BY <1>1, FreshInvariant, PTL
=============================================================================
