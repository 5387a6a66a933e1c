---------------------------- MODULE ApprovalRegister ----------------------------
(***************************************************************************)
(* What the lock promises the people who review entries, with no files,     *)
(* hashes, directory or commands in it.  An entry is approved in a form, a  *)
(* pair of the two, and an approval is for good; the lock vouches for some  *)
(* entries, each in a form it was approved in; a runner takes up some, each *)
(* in a form it was approved in, and keeps exactly these until it stops.    *)
(***************************************************************************)
CONSTANTS
    Runner,    \* who may run entries
    NoEntries  \* the function on no entry

VARIABLES
    approved,  \* the pairs ever approved
    vouched,   \* the form of each entry the lock vouches for
    running    \* per runner, the form of each entry it runs

registerVars == <<approved, vouched, running>>

\* The pairs a function of entries stands for.
Pairs(f) == {<<entry, f[entry]>> : entry \in DOMAIN f}

Begin ==
    /\ approved = {}
    /\ vouched = NoEntries
    /\ running = [r \in Runner |-> NoEntries]

\* What is newly approved is vouched for at once.  What was vouched for may be dropped,
\* and what was dropped may be taken up again, but nothing else is.
Approve ==
    /\ running' = running
    /\ approved \subseteq approved'
    /\ approved' \ approved \subseteq Pairs(vouched')
    /\ Pairs(vouched') \subseteq approved'

\* A runner starts; the lock it goes by may be an older one.
TakeUp(r) ==
    /\ UNCHANGED <<approved, vouched>>
    /\ running[r] = NoEntries
    /\ Pairs(running'[r]) \subseteq approved
    /\ running' = [running EXCEPT ![r] = running'[r]]

Stop(r) ==
    /\ UNCHANGED <<approved, vouched>>
    /\ running' = [running EXCEPT ![r] = NoEntries]

Move == Approve \/ \E r \in Runner : TakeUp(r) \/ Stop(r)

RegisterSpec == Begin /\ [][Move]_registerVars
=============================================================================
