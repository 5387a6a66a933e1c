------------------------------ MODULE OpenPromise ------------------------------
(***************************************************************************)
(* What the handler of an incident promises the detector, and Open the      *)
(* people who review, with no requests, branches in the making, retries or  *)
(* answers in it.  A call is for one incident and opens at most one pull    *)
(* request, from a branch of its own, which is its base with the incident's *)
(* file put in and stays that; and it is only in opening one that it takes  *)
(* the incident, unless there is nothing to open.                           *)
(***************************************************************************)
CONSTANTS
    Incident,     \* what may be asked for
    FileOf,       \* the file the patch of each goes to
    Unrenderable  \* those without a patch

VARIABLES
    asked,  \* the incident of the call under way, if there is one
    given,  \* has that call opened a pull request
    taken,  \* the incidents the detector need not hand over again
    book    \* the pull requests

promiseVars == <<asked, given, taken, book>>

Begin == asked = {} /\ ~given /\ taken = {} /\ book = {}

Ask(k) ==
    /\ asked = {} /\ k \notin Unrenderable
    /\ asked' = {k}
    /\ UNCHANGED <<given, taken, book>>

\* A pull request for k, from a branch no other has.
Proposal(pr, k) ==
    /\ pr.key = k /\ ~pr.merged
    /\ pr.files = [pr.base EXCEPT ![FileOf[k]] = k]
    /\ \A other \in book : other.head # pr.head

\* It is opened, and the call ends with it, in success or not, or goes on.
Open(k) ==
    /\ asked = {k} /\ ~given
    /\ \E pr \in book' : Proposal(pr, k) /\ book' = book \cup {pr}
    /\ \/ asked' = asked /\ given' /\ taken' = taken
       \/ asked' = {} /\ ~given' /\ taken' \in {taken, taken \cup {k}}

\* The call fails, whether it has opened one by then or not.
Fail ==
    /\ asked # {}
    /\ asked' = {} /\ ~given'
    /\ UNCHANGED <<taken, book>>

\* There is nothing to open.
PassOver(k) ==
    /\ asked = {} /\ k \in Unrenderable
    /\ taken' = taken \cup {k}
    /\ UNCHANGED <<asked, given, book>>

\* Episodes end, between calls.
Clear ==
    /\ asked = {}
    /\ taken' \subseteq taken
    /\ UNCHANGED <<asked, given, book>>

Merge(pr) ==
    /\ ~pr.merged
    /\ book' = (book \ {pr}) \cup {[pr EXCEPT !.merged = TRUE]}
    /\ UNCHANGED <<asked, given, taken>>

Move ==
    \/ \E k \in Incident : Ask(k) \/ Open(k) \/ PassOver(k)
    \/ Fail \/ Clear
    \/ \E pr \in book : Merge(pr)

PromiseSpec == Begin /\ [][Move]_promiseVars
=============================================================================
