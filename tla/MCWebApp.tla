----------------------------- MODULE MCWebApp -----------------------------
(* Two partners of whom one has written a message; a message of the user.  *)
EXTENDS WebApp, TLC
CONSTANTS p1, p2, r1, r2
FromValue == [t \in Theirs |-> p1]
Symmetry == Permutations(Requests)
=============================================================================
