--------------------------- MODULE ProposalLedger ---------------------------
(***************************************************************************)
(* What the detector promises the people who read its pull requests, with   *)
(* no probes, queries, holds, cascades, state files or processes in it: an  *)
(* episode of a key is opened at most once, either by a proposal that is    *)
(* entered in the ledger or, when the key's limit is spent, by withholding  *)
(* one; it stays open until it is closed.                                   *)
(***************************************************************************)
EXTENDS Integers, FiniteSets

CONSTANTS
    Keys,   \* the (target, scenario) pairs
    Limit,  \* per key, proposals allowed in any window; 0 means unlimited
    Span    \* the length of the window

VARIABLES
    now,    \* the time
    open,   \* the keys whose episode is open
    ledger  \* per key, when something was proposed

ledgerVars == <<now, open, ledger>>

Recent(k) == {p \in ledger[k] : p > now - Span}

Full(k) == Limit[k] > 0 /\ Cardinality(Recent(k)) >= Limit[k]

Start ==
    /\ now = 0
    /\ open = {}
    /\ ledger = [k \in Keys |-> {}]

Later == now' \in Nat /\ now' >= now

Pass == Later /\ UNCHANGED <<open, ledger>>

\* A proposal is decided on now and recorded when it has been made.
Propose(k) ==
    /\ k \notin open
    /\ ~Full(k)
    /\ Later
    /\ open' = open \cup {k}
    /\ ledger' = [ledger EXCEPT ![k] = @ \cup {now'}]

Withhold(k) ==
    /\ k \notin open
    /\ Full(k)
    /\ open' = open \cup {k}
    /\ UNCHANGED <<now, ledger>>

Close(k) ==
    /\ k \in open
    /\ open' = open \ {k}
    /\ UNCHANGED <<now, ledger>>

Step == Pass \/ \E k \in Keys : Propose(k) \/ Withhold(k) \/ Close(k)

LedgerSpec == Start /\ [][Step]_ledgerVars
=============================================================================
