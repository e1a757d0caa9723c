----------------------------- MODULE MCConnection -----------------------------
(* One user who logs in twice; the connections' own goroutines and the     *)
(* pub/sub forwarders all send to that user.                               *)
EXTENDS Connection
MCUserOf == [c \in Clients |-> CHOOSE u \in Users : TRUE]
=============================================================================
