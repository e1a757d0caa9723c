------------------------------ MODULE MCGroups ------------------------------
(* Three users: one who connects twice, and one who is not connected to    *)
(* the process (he is at another one, or offline) but may be a member.     *)
EXTENDS Groups, TLC
CONSTANTS a, b, c, a1, b1, b2, i1
MCUserOf == a1 :> a @@ b1 :> b @@ b2 :> b
MCInstanceOf == a1 :> i1 @@ b1 :> i1 @@ b2 :> i1
=============================================================================
