---------------------------- MODULE MCWidgetAuth ----------------------------
(* WidgetAuth with a few users, requests and codes. *)
EXTENDS WidgetAuth, TLC

Symmetry == Permutations(Conns) \cup Permutations(Origins) \cup Permutations(Jtis)
=============================================================================
