----------------------------- MODULE MCPresence -----------------------------
(* Three connections, at most all at the same time; the times of the code. *)
EXTENDS Presence, TLC
CONSTANTS c1, c2, c3
Symmetry == Permutations(Conns)
=============================================================================
