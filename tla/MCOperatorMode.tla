--------------------------- MODULE MCOperatorMode ---------------------------
(* OperatorMode with two dialogs and two calls at a time. *)
EXTENDS OperatorMode, TLC

Symmetry == Permutations(Calls) \cup Permutations(Dialogs)
=============================================================================
