------------------------------ MODULE CatalogLock ------------------------------
(***************************************************************************)
(* The catalog directory, its lock file and the commands that read them:   *)
(* pkg/catalog (LoadFS, lock.go) and the approve, validate and watch        *)
(* commands.  Every command first reads the directory, file by file, then   *)
(* the lock, then decides; approve writes the lock back whole.  Nothing     *)
(* locks the two against an editor or against another approve.              *)
(***************************************************************************)
EXTENDS Integers

CONSTANTS
    Id,          \* the entries' ids, which are also the order of their files
    Text,        \* what a file of the catalog may say
    Form,        \* what an entry may mean: the parsed scenario
    Meaning,     \* the form each text has
    Suppresses,  \* the ids a form suppresses
    TextsOf,     \* the texts an editor may give an entry
    Job,         \* the command lines used
    Proc         \* the processes that may run at a time

ASSUME CatalogAssumption ==
    /\ Id \subseteq Int
    /\ Meaning \in [Text -> Form]
    /\ Suppresses \in [Form -> SUBSET Id]
    /\ TextsOf \in [Id -> SUBSET Text]

Command == {"approve", "validate", "watch"}
Flag == {"all", "prune", "istio", "testbed", "strict", "no-drift"}

ASSUME JobAssumption ==
    \A job \in Job : /\ job.command \in Command
                     /\ job.flags \subseteq Flag
                     /\ job.want \subseteq Id

VARIABLES
    catalog,    \* the directory: the text of every entry that has a file
    lock,       \* the lock file: the hash of every approved entry
    proc,       \* what each process has read, and how far it is
    approvals,  \* history: every <<id, hash>> an approve has recorded
    fresh       \* history: the processes for whom nothing has changed since they began

vars == <<catalog, lock, proc, approvals, fresh>>

None == [id \in {} |-> id]
Idle == [phase |-> "idle", job |-> None, left |-> {}, seen |-> None, lock |-> None]

-----------------------------------------------------------------------------
(* Hashes and standing                                                       *)

\* Fault: the file's bytes are hashed.
HashOfBytes(text) == text

\* The hash is over the parsed scenario and stands for it.
Hash(text) == Meaning[text]

\* Fault: an entry edited after its approval still counts as approved.
StatusById(l, s) ==
    [id \in DOMAIN s |-> IF id \in DOMAIN l THEN "locked" ELSE "missing"]

\* Lock.Verify
Status(l, s) ==
    [id \in DOMAIN s |->
        IF id \notin DOMAIN l THEN "missing"
        ELSE IF l[id] # Hash(s[id]) THEN "mismatch" ELSE "locked"]

\* unlockedFrom
Unlocked(l, s) == {id \in DOMAIN s : Status(l, s)[id] # "locked"}

\* Lock.Stale
Stale(l, s) == DOMAIN l \ DOMAIN s

-----------------------------------------------------------------------------
(* What approve makes of what it has read                                    *)

PruneOnly(job) == job.want = {} /\ "all" \notin job.flags

\* Fault: --all passes over entries approved in an older form.
ChosenMissing(job, l, s) ==
    IF PruneOnly(job) THEN {}
    ELSE {id \in DOMAIN s :
            /\ job.want = {} \/ id \in job.want
            /\ ~("all" \in job.flags /\ Status(l, s)[id] # "missing")}

\* The entries that are approved: those asked for, with --all without the locked.
Chosen(job, l, s) ==
    IF PruneOnly(job) THEN {}
    ELSE {id \in DOMAIN s :
            /\ job.want = {} \/ id \in job.want
            /\ ~("all" \in job.flags /\ Status(l, s)[id] = "locked")}

\* approve exits without saving: nothing asked for, no record of what the entries
\* were validated against, or an id nobody has an entry for.
Refused(job, l, s) ==
    \/ PruneOnly(job) /\ "prune" \notin job.flags
    \/ Chosen(job, l, s) # {} /\ ~({"istio", "testbed"} \subseteq job.flags)
    \/ ~(job.want \subseteq DOMAIN s)

\* Fault: stale approvals are dropped whether asked or not.
ApprovedPruned(job, l, s) ==
    [id \in (DOMAIN l \ Stale(l, s)) \cup Chosen(job, l, s) |->
        IF id \in Chosen(job, l, s) THEN Hash(s[id]) ELSE l[id]]

\* The lock as approve leaves it: pruned if asked, the chosen entries recorded.
Approved(job, l, s) ==
    LET kept == IF "prune" \in job.flags THEN DOMAIN l \ Stale(l, s) ELSE DOMAIN l
        chosen == Chosen(job, l, s)
    IN  [id \in kept \cup chosen |-> IF id \in chosen THEN Hash(s[id]) ELSE l[id]]

-----------------------------------------------------------------------------
(* What validate makes of it                                                 *)

\* Fault: a removed entry is no drift.
PassesWithoutStale(job, l, s) ==
    /\ "strict" \in job.flags => Unlocked(l, s) = {}
    /\ "no-drift" \in job.flags => Unlocked(l, s) \cap DOMAIN l = {}

\* validate exits 0: --strict wants every entry locked, --no-drift every approval
\* to be that of the entry that is there.
Passes(job, l, s) ==
    /\ "strict" \in job.flags => Unlocked(l, s) = {}
    /\ "no-drift" \in job.flags =>
            /\ Stale(l, s) = {}
            /\ Unlocked(l, s) \cap DOMAIN l = {}

\* LoadFS: suppression names loaded entries, never itself and never an entry that
\* suppresses back.
Loads(s) ==
    \A id \in DOMAIN s : \A other \in Suppresses[Meaning[s[id]]] :
        /\ other # id
        /\ other \in DOMAIN s
        /\ id \notin Suppresses[Meaning[s[other]]]

-----------------------------------------------------------------------------
Partial(D, R) == UNION {[S -> R] : S \in SUBSET D}

TypeOK ==
    /\ catalog \in Partial(Id, Text)
    /\ lock \in Partial(Id, Form)
    /\ proc \in [Proc -> [phase : {"idle", "reading", "deciding",
                                   "approved", "green", "red", "running"},
                          job : Job \cup {None},
                          left : SUBSET Id,
                          seen : Partial(Id, Text),
                          lock : Partial(Id, Form)]]
    /\ \A p \in Proc : proc[p].phase \in {"approved", "green", "red"} => proc[p].job \in Job
    /\ approvals \subseteq Id \X Form
    /\ fresh \subseteq Proc

Init ==
    /\ catalog \in Partial(Id, Text)
    /\ \A id \in DOMAIN catalog : catalog[id] \in TextsOf[id]
    /\ lock = None
    /\ proc = [p \in Proc |-> Idle]
    /\ approvals = {}
    /\ fresh = {}

\* An editor, or a checkout, replaces, adds or removes one file.  An edit that
\* leaves the meaning alone is none to anybody.
Edit ==
    \E id \in Id :
        /\ \/ \E text \in TextsOf[id] :
                catalog' = [i \in DOMAIN catalog \cup {id} |->
                                IF i = id THEN text ELSE catalog[i]]
           \/ catalog' = [i \in DOMAIN catalog \ {id} |-> catalog[i]]
        /\ catalog' # catalog
        /\ LET cosmetic == /\ id \in DOMAIN catalog \cap DOMAIN catalog'
                           /\ Meaning[catalog[id]] = Meaning[catalog'[id]]
           IN  fresh' = IF cosmetic THEN fresh ELSE {}
        /\ UNCHANGED <<lock, proc, approvals>>

\* A command starts: ReadDir lists the files.  All commands read alike, so which one
\* it is, is settled when it decides.
Start(p) ==
    /\ proc[p].phase = "idle"
    /\ proc' = [proc EXCEPT ![p] = [Idle EXCEPT !.phase = "reading",
                                               !.left = DOMAIN catalog]]
    /\ fresh' = fresh \cup {p}
    /\ UNCHANGED <<catalog, lock, approvals>>

\* The next listed file is read; if it is gone by now, the command fails (Exit).
ReadEntry(p) ==
    /\ proc[p].phase = "reading"
    /\ \E id \in proc[p].left \cap DOMAIN catalog :
        /\ \A other \in proc[p].left : id <= other
        /\ proc' = [proc EXCEPT
                ![p].left = @ \ {id},
                ![p].seen = [i \in DOMAIN @ \cup {id} |->
                                IF i = id THEN catalog[id] ELSE @[i]]]
    /\ UNCHANGED <<catalog, lock, approvals, fresh>>

\* Every file is read, the references between the entries hold (or the command ends):
\* LoadLock.  A lock that is not there is an empty one.
ReadLock(p) ==
    /\ proc[p].phase = "reading"
    /\ proc[p].left = {}
    /\ Loads(proc[p].seen)
    /\ proc' = [proc EXCEPT ![p].phase = "deciding", ![p].lock = lock]
    /\ UNCHANGED <<catalog, lock, approvals, fresh>>

\* runApprove from its decision to the rename that replaces the lock file.
SaveLock(p, job) ==
    LET l == proc[p].lock
        s == proc[p].seen
    IN  /\ proc[p].phase = "deciding"
        /\ job.command = "approve"
        /\ ~Refused(job, l, s)
        /\ lock' = Approved(job, l, s)
        /\ approvals' = approvals \cup {<<id, Hash(s[id])>> : id \in Chosen(job, l, s)}
        /\ proc' = [proc EXCEPT ![p] = [Idle EXCEPT !.phase = "approved", !.job = job]]
        /\ fresh' = IF lock' = lock THEN fresh ELSE fresh \cap {p}
        /\ UNCHANGED catalog

\* validate reports and exits 0 or 1.
Judge(p, job) ==
    /\ proc[p].phase = "deciding"
    /\ job.command = "validate"
    /\ proc' = [proc EXCEPT ![p] = [Idle EXCEPT
            !.phase = IF Passes(job, proc[p].lock, proc[p].seen) THEN "green" ELSE "red",
            !.job = job]]
    /\ UNCHANGED <<catalog, lock, approvals, fresh>>

\* runWatch hands the detector the entries, less the unlocked ones; with --strict it
\* refuses to start instead.  It reads the directory and the lock once: seen is what
\* it runs from here on.
Launch(p, job) ==
    LET s == proc[p].seen
        unlocked == Unlocked(proc[p].lock, s)
    IN  /\ proc[p].phase = "deciding"
        /\ job.command = "watch"
        /\ "strict" \in job.flags => unlocked = {}
        /\ proc' = [proc EXCEPT ![p] = [Idle EXCEPT !.phase = "running",
                !.seen = [id \in DOMAIN s \ unlocked |-> s[id]]]]
        /\ UNCHANGED <<catalog, lock, approvals, fresh>>

\* A process ends: its verdict has been read; a file was gone or did not parse or
\* validate, the lock did not parse, the save failed, which leaves the old lock; approve
\* or a strict watch refused; or it was killed.
Exit(p) ==
    /\ proc[p].phase # "idle"
    /\ proc' = [proc EXCEPT ![p] = Idle]
    /\ fresh' = fresh \ {p}
    /\ UNCHANGED <<catalog, lock, approvals>>

Next ==
    \/ Edit
    \/ \E p \in Proc :
        \/ Start(p) \/ ReadEntry(p) \/ ReadLock(p) \/ Exit(p)
        \/ \E job \in Job : SaveLock(p, job) \/ Judge(p, job) \/ Launch(p, job)

Spec == Init /\ [][Next]_vars

-----------------------------------------------------------------------------
(* Properties                                                                *)

\* What each watch runs.
Running ==
    [p \in Proc |->
        IF proc[p].phase = "running"
        THEN [id \in DOMAIN proc[p].seen |-> Hash(proc[p].seen[id])] ELSE None]

Register == INSTANCE ApprovalRegister
                WITH Runner <- Proc, NoEntries <- None, approved <- approvals,
                     vouched <- lock, running <- Running

\* "The entry running is the entry that was reviewed" (lock.go:15): whatever edits,
\* approvals and prunings fall between the reads of a watch, each entry it starts to run
\* was approved by somebody in the very form it runs in, it runs exactly these until it
\* ends, and the lock vouches for nothing that was never approved.
RunsAsApproved == Register!RegisterSpec

\* What a gate asks of the entries a watch runs.
Covered(job, running) ==
    /\ "strict" \in job.flags => DOMAIN catalog \subseteq running
    /\ "no-drift" \in job.flags => DOMAIN lock \subseteq running

\* "Shared by watch and validate so the two can never disagree about what is
\* covered" (lock.go:128): if no meaning changed since either began, validate exits
\* 0 exactly if the watch runs every approved entry (--no-drift), or every entry
\* there is (--strict).
GateMatchesWatch ==
    \A p, q \in Proc :
        /\ proc[p].phase \in {"green", "red"} /\ p \in fresh
        /\ proc[q].phase = "running" /\ q \in fresh
        => (proc[p].phase = "green" <=> Covered(proc[p].job, DOMAIN proc[q].seen))

\* After an approve that nothing overlapped, what it was asked to approve is locked
\* in the form the directory has, and with --prune no approval outlives its entry
\* (lock.go:186).
ApprovedIsLocked ==
    \A p \in Proc : proc[p].phase = "approved" /\ p \in fresh =>
        LET job == proc[p].job
            asked == IF job.want # {} THEN job.want
                     ELSE IF "all" \in job.flags THEN DOMAIN catalog ELSE {}
        IN  /\ \A id \in asked : id \in DOMAIN lock /\ lock[id] = Hash(catalog[id])
            /\ "prune" \in job.flags => DOMAIN lock \subseteq DOMAIN catalog

\* A step of approve that nobody raced changes the standing of an entry only if asked.
DeliberateStep ==
    \A p \in Proc :
        proc[p].phase = "deciding" /\ proc'[p].phase = "approved" /\ proc[p].lock = lock =>
            \A id \in Id :
                \/ /\ id \in DOMAIN lock <=> id \in DOMAIN lock'
                   /\ id \in DOMAIN lock => lock[id] = lock'[id]
                \/ id \in proc'[p].job.want
                \/ /\ "all" \in proc'[p].job.flags /\ proc'[p].job.want = {}
                   /\ id \in DOMAIN proc[p].seen
                \/ "prune" \in proc'[p].job.flags /\ id \notin DOMAIN proc[p].seen

\* "approving is a deliberate act" (cmd/meshmedic/lock.go:78): an approve changes the
\* standing of no entry it was not asked about, unless another approve saved between
\* its read and its save.
DeliberateAct == [][DeliberateStep]_vars
=============================================================================
