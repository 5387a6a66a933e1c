------------------------------ MODULE Episode ------------------------------
(***************************************************************************)
(* The entry the detector keeps for one scenario on one target              *)
(* (detector.go: state, entry), and what a measurement does to it.  The     *)
(* detector of `watch`, and the ones the proof and silence runs build, all  *)
(* drive their entries through these.                                       *)
(*                                                                          *)
(* 0 is Go's zero time.  applies is a set of times: one entry delivers at   *)
(* most once in a tick, and the clock moves between ticks.                  *)
(***************************************************************************)
EXTENDS Integers, FiniteSets

State == {"inactive", "pending", "firing"}
Entry == [state : State, since : Nat, applies : SUBSET Nat]
Fresh == [state |-> "inactive", since |-> 0, applies |-> {}]

\* Fault: the instant the episode began is left behind.
ClearedKeepsSince(e) == [e EXCEPT !.state = "inactive"]

Cleared(e) == [e EXCEPT !.state = "inactive", !.since = 0]

\* Fault: a blind target keeps its pending progress.
BlindedKeeps(e) == e

\* An unobserved target loses its pending progress; a firing entry stays.
Blinded(e) == IF e.state = "pending" THEN Cleared(e) ELSE e

\* Fault: an open episode that is still breaching is opened again.
BreachedReopens(e, now) == [e EXCEPT !.state = "pending", !.since = now]

\* A breach opens an inactive entry; a firing one stays quiet.
Breached(e, now) ==
    IF e.state = "inactive" THEN [e EXCEPT !.state = "pending", !.since = now] ELSE e

\* Fault: the hold must be exceeded instead of reached.
HeldOverFor(e, hold, now) == e.state = "pending" /\ now - e.since > hold

\* The episode has lasted for the scenario's for-duration.
HeldFor(e, hold, now) == e.state = "pending" /\ now - e.since >= hold
=============================================================================
