---------------------------- MODULE MCFirstContact ----------------------------
\* FirstContact on a small instance: handlers are interchangeable.
EXTENDS FirstContact, TLC

Symmetry == Permutations(Handlers)
=============================================================================
