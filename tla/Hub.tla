--------------------------------- MODULE Hub ---------------------------------
(***************************************************************************)
(* The connection hub of one server process (server/ws/hub.go): a map from *)
(* users to their current Client, guarded by a mutex, and the bounded      *)
(* outgoing channel `send` of every Client.                                *)
(*                                                                         *)
(* Each action is one step that is atomic in the code: a critical section  *)
(* of Hub.mu, or one channel operation.  Hub.Send is two such steps, a     *)
(* lookup that changes nothing and a push (or an Unregister when the       *)
(* channel is full); how other goroutines come between them is the subject *)
(* of module Connection, which implements this one.                        *)
(***************************************************************************)
EXTENDS HubConstants

VARIABLES
    clients,    \* Hub.clients: [user -> its current client, or NoClient]
    issued,     \* the clients that were ever registered
    buffered,   \* buffered[c]: how many frames wait in c.send
    closes      \* closes[c]: how many times close(c.send) was executed

vars == <<clients, issued, buffered, closes>>

TypeOK ==
    /\ clients \in [Users -> Clients \union {NoClient}]
    /\ issued \subseteq Clients
    /\ buffered \in [Clients -> 0..Capacity]
    /\ closes \in [Clients -> Nat]

IsCurrent(c) == clients[UserOf[c]] = c

Init ==
    /\ clients = [u \in Users |-> NoClient]
    /\ issued = {}
    /\ buffered = [c \in Clients |-> 0]
    /\ closes = [c \in Clients |-> 0]

(* A client is registered once, right after it was allocated.  The entry   *)
(* of an older connection is overwritten; its channel is left open.        *)
Register(c) ==
    /\ c \in Clients \ issued
    /\ clients' = [clients EXCEPT ![UserOf[c]] = c]
    /\ issued' = issued \union {c}
    /\ UNCHANGED <<buffered, closes>>

(* The channel is closed only together with the entry that points to it;   *)
(* for a client without an entry Unregister does nothing (a stutter here). *)
Unregister(c) ==
    /\ c \in issued
    /\ IsCurrent(c)
    /\ clients' = [clients EXCEPT ![UserOf[c]] = NoClient]
    /\ closes' = [closes EXCEPT ![c] = @ + 1]
    /\ UNCHANGED <<issued, buffered>>

(* The first branch of Send's select.                                      *)
Push(c) ==
    /\ c \in issued
    /\ closes[c] = 0
    /\ buffered[c] < Capacity
    /\ buffered' = [buffered EXCEPT ![c] = @ + 1]
    /\ UNCHANGED <<clients, issued, closes>>

(* writePump receives; a closed channel still hands out what it holds.     *)
Pop(c) ==
    /\ c \in issued
    /\ buffered[c] > 0
    /\ buffered' = [buffered EXCEPT ![c] = @ - 1]
    /\ UNCHANGED <<clients, issued, closes>>

(* The process dies and starts again with NewHub(): no entry survives, and *)
(* no goroutine is left that holds a client of the old process.            *)
Crash ==
    /\ clients' = [u \in Users |-> NoClient]
    /\ buffered' = [c \in Clients |-> 0]
    /\ UNCHANGED <<issued, closes>>

Next ==
    \/ \E c \in Clients : Register(c) \/ Unregister(c) \/ Push(c) \/ Pop(c)
    \/ Crash

Spec == Init /\ [][Next]_vars

-----------------------------------------------------------------------------
(* No channel is closed twice, whatever combination of a connection's own  *)
(* exit, a full channel and a reconnect calls Unregister: a second close   *)
(* is a panic in Go (hub.go:43-50).                                        *)
NoDoubleClose == \A c \in Clients : closes[c] <= 1

(* The client a lookup returns has an open channel and belongs to the user *)
(* who was looked up, so a push made in the lookup's own critical section  *)
(* could neither panic nor reach a stranger (hub.go:54-62).                *)
CurrentIsOpen ==
    \A u \in Users : clients[u] # NoClient =>
        /\ UserOf[clients[u]] = u
        /\ clients[u] \in issued
        /\ closes[clients[u]] = 0
=============================================================================
