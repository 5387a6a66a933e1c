--------------------------- MODULE MCQuietCluster ---------------------------
(* Signals for the model checker: the shape every entry of the catalog has,  *)
(* one without a hold, one that fires on small values, one whose absence is  *)
(* the signal, and one that needs a parameter the target lacks.              *)
EXTENDS QuietCluster

Above(hold) == [comparison |-> ">", threshold |-> 4, hold |-> hold,
                absence |-> FALSE, applicable |-> TRUE]

AllSignals ==
    { Above(2), Above(0),
      [Above(2) EXCEPT !.comparison = ">="],
      [Above(2) EXCEPT !.comparison = "<="],
      [Above(1) EXCEPT !.comparison = "<", !.threshold = 1, !.absence = TRUE],
      [Above(2) EXCEPT !.applicable = FALSE] }

=============================================================================
