--------------------------- MODULE MCDirectMessages ---------------------------
(* Alice writes to Bob, who logs in twice.  In one run a note of Alice to  *)
(* herself is queued, stored in the chat she has with Bob.                 *)
EXTENDS DirectMessages, TLC
CONSTANTS a1, b1, b2, i1, i2, m1, m2
MCUserOf == [c \in Clients |-> IF c = a1 THEN "alice" ELSE "bob"]
OneProcess == [c \in Clients |-> i1]
TwoProcesses == [c \in Clients |-> IF c = b2 THEN i2 ELSE i1]
NoneQueued == <<>>
OneQueued == <<m1>>
MCSenderOf == [m \in Messages |-> "alice"]
AllToBob == [m \in Messages |-> "bob"]
NoteToSelf == [m \in Messages |-> IF m = m1 THEN "alice" ELSE "bob"]
MCMemberOf == [m \in Messages |-> "bob"]
=============================================================================
