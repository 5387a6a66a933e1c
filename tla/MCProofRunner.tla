--------------------------- MODULE MCProofRunner ---------------------------
(* Small instances of ProofRunner for TLC.                                  *)
EXTENDS ProofRunner

\* The first proof has a resolving half, the second has none.
TwoHolds == <<1, 0>>
TwoWindows == <<3, 2>>
TwoClosings == <<2, 0>>

\* One proof with both halves.
OneHold == <<0>>
OneWindow == <<1>>
OneClosing == <<2>>
=============================================================================
