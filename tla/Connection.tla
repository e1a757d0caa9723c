------------------------------ MODULE Connection ------------------------------
(***************************************************************************)
(* The goroutines of the WebSocket connections of one server process       *)
(* (server/ws/client.go, handler.go) and the calls of Hub.Send they make,  *)
(* step by step.                                                           *)
(*                                                                         *)
(* A connection is a client c with two goroutines.  reader[c] is the one   *)
(* that runs ServeWS and then readPump:                                    *)
(*    new -> connecting -> reading -> leaving -> closing -> done           *)
(* writer[c] is the writePump.  Hub.Send looks its target up under the     *)
(* lock, releases it, and only then pushes; call[g] holds what goroutine g *)
(* found.  Senders are the connections' own goroutines (in the connect     *)
(* hook and in Dispatch) and the pub/sub forwarders.                       *)
(*                                                                         *)
(* A panic in a goroutine of readPump or of a forwarder ends the process.  *)
(* The connect hook runs inside an HTTP handler: gin's Recovery catches    *)
(* its panic, and the connection stays registered without any pump.        *)
(***************************************************************************)
EXTENDS HubConstants

CONSTANTS
    Forwarders,     \* goroutines of pubsub.Router.Subscribe
    MaxBacklog      \* most frames a connect hook pushes (bound; 100 in the code)

ASSUME ForwardersAssumption == Forwarders \intersect (Clients \union {NoClient}) = {}
ASSUME MaxBacklogAssumption == MaxBacklog \in Nat

VARIABLES
    clients, buffered, closes,  \* the hub, as in module Hub
    reader,     \* where ServeWS / readPump of the client stands
    writer,     \* where writePump of the client stands
    sock,       \* "open" or "shut": whether conn.Close() was called
    peer,       \* "up", or "down" once the other side is gone for good
    backlog,    \* frames the connect hook of the client has yet to push
    call,       \* the Hub.Send a goroutine is executing
    panicked    \* some goroutine pushed into a closed channel

hubVars == <<clients, buffered, closes>>
connVars == <<reader, writer, sock, peer, backlog>>
vars == <<hubVars, connVars, call, panicked>>

Goroutines == Clients \union Forwarders

Idle == [step |-> "idle", to |-> NoClient]

Call == {Idle} \union [step : {"found", "full"}, to : Clients]

H == INSTANCE Hub WITH issued <- {c \in Clients : reader[c] # "new"}

TypeOK ==
    /\ H!TypeOK
    /\ reader \in [Clients -> {"new", "connecting", "reading", "leaving",
                               "closing", "done", "abandoned", "dead"}]
    /\ writer \in [Clients -> {"none", "writing", "done"}]
    /\ sock \in [Clients -> {"open", "shut"}]
    /\ peer \in [Clients -> {"up", "down"}]
    /\ backlog \in [Clients -> 0..MaxBacklog]
    /\ call \in [Goroutines -> Call]
    /\ panicked \in BOOLEAN

Init ==
    /\ clients = [u \in Users |-> NoClient]
    /\ buffered = [c \in Clients |-> 0]
    /\ closes = [c \in Clients |-> 0]
    /\ reader = [c \in Clients |-> "new"]
    /\ writer = [c \in Clients |-> "none"]
    /\ sock = [c \in Clients |-> "open"]
    /\ peer = [c \in Clients |-> "up"]
    /\ backlog = [c \in Clients |-> 0]
    /\ call = [g \in Goroutines |-> Idle]
    /\ panicked = FALSE

-----------------------------------------------------------------------------
(* Mutant of Unregister: no identity check.                                *)
UnregisterAnyone(c) ==
    /\ clients' = [clients EXCEPT ![UserOf[c]] = NoClient]
    /\ closes' = [closes EXCEPT ![c] = @ + 1]

(* Hub.Unregister: nothing happens unless c is the current client.         *)
Unregister(c) ==
    IF clients[UserOf[c]] = c
    THEN /\ clients' = [clients EXCEPT ![UserOf[c]] = NoClient]
         /\ closes' = [closes EXCEPT ![c] = @ + 1]
    ELSE UNCHANGED <<clients, closes>>

(* Hub.Send, first step: the lookup under the read lock.                   *)
Lookup(g, u) ==
    /\ call[g] = Idle
    /\ call' = [call EXCEPT ![g] = IF clients[u] = NoClient THEN Idle
                                   ELSE [step |-> "found", to |-> clients[u]]]

(* Hub.Send, second step: the select on the channel that was found.        *)
Push(g) ==
    /\ call[g].step = "found"
    /\ closes[call[g].to] = 0
    /\ buffered[call[g].to] < Capacity
    /\ buffered' = [buffered EXCEPT ![call[g].to] = @ + 1]
    /\ call' = [call EXCEPT ![g] = Idle]
    /\ UNCHANGED <<clients, closes, connVars, panicked>>

PushFull(g) ==
    /\ call[g].step = "found"
    /\ closes[call[g].to] = 0
    /\ buffered[call[g].to] = Capacity
    /\ call' = [call EXCEPT ![g] = [step |-> "full", to |-> call[g].to]]
    /\ UNCHANGED <<hubVars, connVars, panicked>>

(* Mutant of Evict: it unregisters whoever is the user's current client.   *)
EvictUser(g) ==
    /\ call[g].step = "full"
    /\ LET u == UserOf[call[g].to]
       IN  IF clients[u] = NoClient THEN UNCHANGED <<clients, closes>>
                                    ELSE Unregister(clients[u])
    /\ call' = [call EXCEPT ![g] = Idle]
    /\ UNCHANGED <<buffered, connVars, panicked>>

(* The default branch: by now the channel may have room again, or the      *)
(* client may have been unregistered by someone else.                      *)
Evict(g) ==
    /\ call[g].step = "full"
    /\ Unregister(call[g].to)
    /\ call' = [call EXCEPT ![g] = Idle]
    /\ UNCHANGED <<buffered, connVars, panicked>>

(* The process is gone: its hub, its goroutines and its sockets.  The next *)
(* process starts with an empty hub and serves the clients still new.      *)
ProcessEnds ==
    /\ clients' = [u \in Users |-> NoClient]
    /\ buffered' = [c \in Clients |-> 0]
    /\ reader' = [c \in Clients |-> IF reader[c] = "new" THEN "new" ELSE "dead"]
    /\ writer' = [c \in Clients |-> IF reader[c] = "new" THEN "none" ELSE "done"]
    /\ sock' = [c \in Clients |-> IF reader[c] = "new" THEN "open" ELSE "shut"]
    /\ backlog' = [c \in Clients |-> 0]
    /\ call' = [g \in Goroutines |-> Idle]
    /\ UNCHANGED <<closes, peer>>

(* A send on a closed channel panics, full or not.                         *)
PushClosed(g) ==
    /\ call[g].step = "found"
    /\ closes[call[g].to] > 0
    /\ panicked' = TRUE
    /\ IF g \in Clients /\ reader[g] = "connecting"
       THEN /\ reader' = [reader EXCEPT ![g] = "abandoned"]
            /\ call' = [call EXCEPT ![g] = Idle]
            /\ UNCHANGED <<hubVars, writer, sock, peer, backlog>>
       ELSE ProcessEnds

Kill == ProcessEnds /\ UNCHANGED panicked

-----------------------------------------------------------------------------
(* ServeWS: a new client becomes the user's current one.                   *)
Register(c) ==
    /\ reader[c] = "new"
    /\ clients' = [clients EXCEPT ![UserOf[c]] = c]
    /\ reader' = [reader EXCEPT ![c] = "connecting"]
    /\ \E n \in 0..MaxBacklog : backlog' = [backlog EXCEPT ![c] = n]
    /\ UNCHANGED <<buffered, closes, writer, sock, peer, call, panicked>>

(* The connect hook pushes the user's pending messages, before any pump.   *)
HookSend(c) ==
    /\ reader[c] = "connecting"
    /\ backlog[c] > 0
    /\ Lookup(c, UserOf[c])
    /\ backlog' = [backlog EXCEPT ![c] = @ - 1]
    /\ UNCHANGED <<hubVars, reader, writer, sock, peer, panicked>>

StartPumps(c) ==
    /\ reader[c] = "connecting"
    /\ backlog[c] = 0
    /\ call[c] = Idle
    /\ reader' = [reader EXCEPT ![c] = "reading"]
    /\ writer' = [writer EXCEPT ![c] = "writing"]
    /\ UNCHANGED <<hubVars, sock, peer, backlog, call, panicked>>

(* A frame arrives and its handler sends something to some user.           *)
Dispatch(c) ==
    /\ reader[c] = "reading"
    /\ sock[c] = "open"
    /\ peer[c] = "up"
    /\ \E u \in Users : Lookup(c, u)
    /\ UNCHANGED <<hubVars, connVars, panicked>>

Forward(f) ==
    /\ \E u \in Users : Lookup(f, u)
    /\ UNCHANGED <<hubVars, connVars, panicked>>

Broken(c) == peer[c] = "down" \/ sock[c] = "shut"

(* ReadMessage fails: the peer closed, the read deadline passed without a  *)
(* pong, or the writer closed the socket.                                  *)
ReadError(c) ==
    /\ reader[c] = "reading"
    /\ call[c] = Idle
    /\ Broken(c)
    /\ reader' = [reader EXCEPT ![c] = "leaving"]
    /\ UNCHANGED <<hubVars, writer, sock, peer, backlog, call, panicked>>

(* Mutant of Leave: the deferred Unregister is missing.                    *)
LeaveRegistered(c) ==
    /\ reader[c] = "leaving"
    /\ reader' = [reader EXCEPT ![c] = "closing"]
    /\ UNCHANGED <<hubVars, writer, sock, peer, backlog, call, panicked>>

(* The deferred calls of readPump.                                         *)
Leave(c) ==
    /\ reader[c] = "leaving"
    /\ Unregister(c)
    /\ reader' = [reader EXCEPT ![c] = "closing"]
    /\ UNCHANGED <<buffered, writer, sock, peer, backlog, call, panicked>>

CloseConn(c) ==
    /\ reader[c] = "closing"
    /\ sock' = [sock EXCEPT ![c] = "shut"]
    /\ reader' = [reader EXCEPT ![c] = "done"]
    /\ UNCHANGED <<hubVars, writer, peer, backlog, call, panicked>>

-----------------------------------------------------------------------------
(* writePump.  Writing to a peer that is gone may still look successful.   *)
Write(c) ==
    /\ writer[c] = "writing"
    /\ buffered[c] > 0
    /\ sock[c] = "open"
    /\ buffered' = [buffered EXCEPT ![c] = @ - 1]
    /\ UNCHANGED <<clients, closes, connVars, call, panicked>>

(* Mutant of WriterReturns: the deferred conn.Close() is missing.          *)
WriterReturnsOpen(c) ==
    /\ writer' = [writer EXCEPT ![c] = "done"]
    /\ UNCHANGED <<clients, closes, reader, sock, peer, backlog, call, panicked>>

(* Every return of writePump runs the deferred conn.Close().               *)
WriterReturns(c) ==
    /\ writer' = [writer EXCEPT ![c] = "done"]
    /\ sock' = [sock EXCEPT ![c] = "shut"]
    /\ UNCHANGED <<clients, closes, reader, peer, backlog, call, panicked>>

WriteError(c) ==
    /\ writer[c] = "writing"
    /\ buffered[c] > 0
    /\ Broken(c)
    /\ buffered' = [buffered EXCEPT ![c] = @ - 1]
    /\ WriterReturns(c)

WriteClose(c) ==
    /\ writer[c] = "writing"
    /\ buffered[c] = 0
    /\ closes[c] > 0
    /\ WriterReturns(c)
    /\ UNCHANGED buffered

(* Mutant of PingError: the loop goes on after a failed ping.              *)
PingErrorIgnored(c) ==
    /\ writer[c] = "writing"
    /\ Broken(c)
    /\ UNCHANGED vars

PingError(c) ==
    /\ writer[c] = "writing"
    /\ Broken(c)
    /\ WriterReturns(c)
    /\ UNCHANGED buffered

LosePeer(c) ==
    /\ reader[c] # "new"
    /\ peer[c] = "up"
    /\ peer' = [peer EXCEPT ![c] = "down"]
    /\ UNCHANGED <<hubVars, reader, writer, sock, backlog, call, panicked>>

-----------------------------------------------------------------------------
SendStep(g) == Push(g) \/ PushFull(g) \/ Evict(g) \/ PushClosed(g)

WriteStep(c) == Write(c) \/ WriteError(c) \/ WriteClose(c)

Next ==
    \/ \E g \in Goroutines : SendStep(g)
    \/ \E f \in Forwarders : Forward(f)
    \/ \E c \in Clients :
          \/ Register(c) \/ HookSend(c) \/ StartPumps(c) \/ Dispatch(c)
          \/ ReadError(c) \/ Leave(c) \/ CloseConn(c)
          \/ WriteStep(c) \/ PingError(c) \/ LosePeer(c)
    \/ Kill

(* The Go scheduler runs every goroutine that can run; a read deadline or  *)
(* a closed socket ends a read, and the ping ticker finds a closed socket. *)
(* Nothing is assumed of peers, of new connections or of incoming frames.  *)
Fairness ==
    /\ \A g \in Goroutines : WF_vars(SendStep(g))
    /\ \A c \in Clients :
          /\ WF_vars(HookSend(c)) /\ WF_vars(StartPumps(c))
          /\ WF_vars(ReadError(c)) /\ WF_vars(Leave(c)) /\ WF_vars(CloseConn(c))
          /\ WF_vars(WriteStep(c)) /\ WF_vars(PingError(c) /\ sock[c] = "shut")

Spec == Init /\ [][Next]_vars
FairSpec == Spec /\ Fairness

-----------------------------------------------------------------------------
(* The goroutines implement the atomic hub of module Hub: although a Send  *)
(* is split in two and evictions race with exits and reconnects, every     *)
(* change of the map and of a channel is one of the hub's steps.           *)
HubSpec == H!Spec

(* No channel is closed twice, whatever combination of a connection's own  *)
(* exit, a full channel and a reconnect calls Unregister: a second close   *)
(* is a panic in Go (hub.go:43-50).                                        *)
NoDoubleClose == H!NoDoubleClose

(* What a lookup returns was open and registered for that very user at the *)
(* time of the lookup (hub.go:54-56).                                      *)
CurrentIsOpen == H!CurrentIsOpen

(* An entry is removed only by the exit of that very connection or by a    *)
(* Send that found its channel full: the late teardown of an older         *)
(* connection never takes the newer login of the same user offline         *)
(* (hub.go:46).                                                            *)
NewerLoginSurvives ==
    [][\A c \in Clients :
          clients[UserOf[c]] = c /\ clients'[UserOf[c]] = NoClient =>
             \/ reader[c] = "leaving"
             \/ reader'[c] = "dead"
             \/ \E g \in Goroutines : call[g] = [step |-> "full", to |-> c]]_vars

(* Once the read goroutine of a connection is past its deferred            *)
(* Unregister, no lookup can find the connection again, even if the user   *)
(* reconnected or was evicted in between (client.go:42-45).                *)
GoneIsNotFound ==
    \A c \in Clients :
        reader[c] \in {"closing", "done", "dead"} => clients[UserOf[c]] # c

(* A client dropped because its channel was full does not linger: its      *)
(* writer drains the channel, closes the socket, and that makes the reader *)
(* leave (client.go:83-85, 57).  Only a connection abandoned by a panic in *)
(* its own connect hook has no pump to do so.                              *)
DroppedConnectionEnds ==
    \A c \in Clients :
        closes[c] > 0 ~> reader[c] \in {"done", "dead", "abandoned"}

(* No writer outlives its reader for ever, although the channel of a       *)
(* replaced client is never closed: the ping on the closed socket fails    *)
(* (client.go:92-96).                                                      *)
WriterEnds ==
    \A c \in Clients : reader[c] = "done" ~> writer[c] = "done"

(* What the hub's comments and tests say of Send: to a client that was     *)
(* unregistered or dropped it reports false.  The push happens after the   *)
(* lock was released, so it may meet a closed channel and panic.           *)
SendNeverPanics == ~panicked
=============================================================================
