-------------------------- MODULE MCChatDirectory --------------------------
(* Three calls by any of three users to any of them, himself included.     *)
EXTENDS ChatDirectory, TLC
CONSTANTS a, b, c, c1, c2, c3
Symmetry == Permutations(Users) \union Permutations(Callers)
=============================================================================
