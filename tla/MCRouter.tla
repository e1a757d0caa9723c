------------------------------- MODULE MCRouter -------------------------------
(* Overlapping logins of one user.                                         *)
EXTENDS Router
CONSTANTS c1, c2, c3
MCUserOf == [c \in Clients |-> "u1"]
=============================================================================
