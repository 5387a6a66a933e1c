--------------------------- MODULE MCLearnedNormal ---------------------------
(* A small instance of LearnedNormal for the model checker.  An observation  *)
(* weighs one half, so a unit of 2^8 keeps nine of them exact.              *)
EXTENDS LearnedNormal

Unit == 256
Quantities == {n * Unit : n \in {0, 1, 2, 8}}
StaticThreshold == 7 * Unit
=============================================================================
