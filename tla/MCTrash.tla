------------------------------ MODULE MCTrash -------------------------------
(* Instances of Trash for TLC: bounds on the events that may repeat.       *)
EXTENDS Trash, TLC

\* Two failed calls and a crash: enough for two unresolved rows of a comic.
FaultLimits == [failure |-> 2, crash |-> 1]

Symmetry == Permutations(Comics)
=============================================================================
