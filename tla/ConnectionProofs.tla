--------------------------- MODULE ConnectionProofs ---------------------------
(***************************************************************************)
(* Theorems about module Connection: its goroutines implement the atomic   *)
(* hub of module Hub, and two safety properties of its teardown, for any   *)
(* number of users, connections and forwarders.                            *)
(***************************************************************************)
EXTENDS Connection, TLAPS

(* What a goroutine or the map knows is a client that was registered.      *)
Known ==
    /\ \A u \in Users : clients[u] # NoClient =>
          reader[clients[u]] # "new" /\ UserOf[clients[u]] = u
    /\ \A g \in Goroutines : call[g] # Idle => reader[call[g].to] # "new"
    /\ \A c \in Clients : writer[c] = "writing" => reader[c] # "new"

IInv == TypeOK /\ Known /\ GoneIsNotFound

(* The invariant holds when the process starts.                            *)
LEMMA InvInit == Init => IInv
<1> SUFFICES ASSUME Init
             PROVE  IInv
  OBVIOUS
<1>1. TypeOK
  <2>1. H!TypeOK
    BY UserOfAssumption, NoClientAssumption, CapacityAssumption DEF Init, H!TypeOK
  <2>2. call \in [Goroutines -> Call]
    BY DEF Init, Call
  <2>3. backlog \in [Clients -> 0..MaxBacklog]
    BY MaxBacklogAssumption DEF Init
  <2>. QED
    BY <2>1, <2>2, <2>3 DEF Init, TypeOK
<1>2. Known /\ GoneIsNotFound
  BY UserOfAssumption, NoClientAssumption, CapacityAssumption DEF Init, Known, GoneIsNotFound
<1>. QED
  BY <1>1, <1>2 DEF IInv

-----------------------------------------------------------------------------
(* The steps of hub.Send (hub.go:52-68), taken by any goroutine, keep the  *)
(* invariant.                                                              *)
LEMMA SendInv ==
  ASSUME IInv, NEW g \in Goroutines, Push(g) \/ PushFull(g) \/ Evict(g)
  PROVE  IInv'
<1> USE UserOfAssumption, NoClientAssumption, CapacityAssumption
    DEF IInv, TypeOK, H!TypeOK, Known, GoneIsNotFound, Call, Idle, hubVars, connVars
<1>1. CASE Push(g)
  BY <1>1 DEF Push
<1>2. CASE PushFull(g)
  BY <1>2 DEF PushFull
<1>3. CASE Evict(g)
  BY <1>3 DEF Evict, Unregister
<1>. QED
  BY <1>1, <1>2, <1>3

(* The end of the process (client.go:42-99 stops) keeps the invariant.     *)
LEMMA EndInv ==
  ASSUME IInv, ProcessEnds, panicked' \in BOOLEAN
  PROVE  IInv'
BY UserOfAssumption, NoClientAssumption, CapacityAssumption, MaxBacklogAssumption
DEF IInv, TypeOK, H!TypeOK, Known, GoneIsNotFound, Call, Idle, ProcessEnds

(* A push into a closed channel, recovered by gin or not, keeps the        *)
(* invariant.                                                              *)
LEMMA ClosedInv ==
  ASSUME IInv, NEW g \in Goroutines, PushClosed(g)
  PROVE  IInv'
<1>1. panicked' \in BOOLEAN
  BY DEF PushClosed
<1>2. CASE g \in Clients /\ reader[g] = "connecting"
  BY <1>1, <1>2, UserOfAssumption, NoClientAssumption, CapacityAssumption
  DEF PushClosed, IInv, TypeOK, H!TypeOK, Known, GoneIsNotFound, Call, Idle, hubVars
<1>3. CASE ~(g \in Clients /\ reader[g] = "connecting")
  BY <1>1, <1>3, EndInv DEF PushClosed
<1>. QED
  BY <1>2, <1>3

(* The locked lookup of hub.Send (hub.go:53-56) keeps the invariant: it    *)
(* finds only connections that are still there.                            *)
LEMMA LookupInv ==
  ASSUME IInv, NEW g \in Goroutines, NEW u \in Users, Lookup(g, u),
         UNCHANGED <<hubVars, reader, writer, sock, peer, panicked>>,
         backlog' \in [Clients -> 0..MaxBacklog]
  PROVE  IInv'
BY UserOfAssumption, NoClientAssumption, CapacityAssumption
DEF IInv, TypeOK, H!TypeOK, Known, GoneIsNotFound, Call, Idle, Lookup, hubVars

(* The steps of ServeWS and readPump keep the invariant (handler.go:28-61, *)
(* client.go:41-70).                                                       *)
LEMMA ReaderInv ==
  ASSUME IInv, NEW c \in Clients,
         \/ Register(c) \/ HookSend(c) \/ StartPumps(c) \/ Dispatch(c)
         \/ ReadError(c) \/ Leave(c) \/ CloseConn(c)
  PROVE  IInv'
<1> USE UserOfAssumption, NoClientAssumption, CapacityAssumption, MaxBacklogAssumption
<1> USE DEF IInv, TypeOK, H!TypeOK, Known, GoneIsNotFound, hubVars, connVars
<1>1. CASE Register(c)
  BY <1>1 DEF Register, Call, Idle
<1>2. CASE HookSend(c)
  <2>1. c \in Goroutines /\ UserOf[c] \in Users
    BY DEF Goroutines
  <2>2. backlog' \in [Clients -> 0..MaxBacklog]
    BY <1>2 DEF HookSend
  <2>. QED
    BY <1>2, <2>1, <2>2, LookupInv DEF HookSend
<1>3. CASE StartPumps(c)
  BY <1>3 DEF StartPumps
<1>4. CASE Dispatch(c)
  <2>1. c \in Goroutines
    BY DEF Goroutines
  <2>. QED
    BY <1>4, <2>1, LookupInv DEF Dispatch
<1>5. CASE ReadError(c)
  BY <1>5 DEF ReadError
<1>6. CASE Leave(c)
  BY <1>6 DEF Leave, Unregister, Call, Idle
<1>7. CASE CloseConn(c)
  BY <1>7 DEF CloseConn
<1>. QED
  BY <1>1, <1>2, <1>3, <1>4, <1>5, <1>6, <1>7

(* The steps of writePump keep the invariant (client.go:72-99).            *)
LEMMA WriterInv ==
  ASSUME IInv, NEW c \in Clients, WriteStep(c) \/ PingError(c) \/ LosePeer(c)
  PROVE  IInv'
<1> USE UserOfAssumption, NoClientAssumption, CapacityAssumption
    DEF IInv, TypeOK, H!TypeOK, Known, GoneIsNotFound, WriterReturns, hubVars, connVars
<1>1. CASE Write(c)
  BY <1>1 DEF Write
<1>2. CASE WriteError(c)
  BY <1>2 DEF WriteError
<1>3. CASE WriteClose(c)
  BY <1>3 DEF WriteClose
<1>4. CASE PingError(c)
  BY <1>4 DEF PingError
<1>5. CASE LosePeer(c)
  BY <1>5 DEF LosePeer
<1>. QED
  BY <1>1, <1>2, <1>3, <1>4, <1>5 DEF WriteStep

(* Every step keeps the invariant.                                         *)
LEMMA InvStep == IInv /\ [Next]_vars => IInv'
<1> SUFFICES ASSUME IInv, [Next]_vars
             PROVE  IInv'
  OBVIOUS
<1>1. ASSUME NEW g \in Goroutines, SendStep(g)
      PROVE  IInv'
  BY <1>1, SendInv, ClosedInv DEF SendStep
<1>2. ASSUME NEW f \in Forwarders, Forward(f)
      PROVE  IInv'
  <2>1. f \in Goroutines
    BY DEF Goroutines
  <2>2. backlog' \in [Clients -> 0..MaxBacklog]
    BY <1>2 DEF Forward, connVars, IInv, TypeOK
  <2>. QED
    BY <1>2, <2>1, <2>2, LookupInv DEF Forward, connVars
<1>3. ASSUME NEW c \in Clients,
             \/ Register(c) \/ HookSend(c) \/ StartPumps(c) \/ Dispatch(c)
             \/ ReadError(c) \/ Leave(c) \/ CloseConn(c)
      PROVE  IInv'
  BY <1>3, ReaderInv
<1>4. ASSUME NEW c \in Clients, WriteStep(c) \/ PingError(c) \/ LosePeer(c)
      PROVE  IInv'
  BY <1>4, WriterInv
<1>5. CASE Kill
  <2>1. ProcessEnds /\ panicked' \in BOOLEAN
    BY <1>5 DEF Kill, IInv, TypeOK
  <2>. QED
    BY <2>1, EndInv
<1>6. CASE UNCHANGED vars
  BY <1>6 DEF vars, hubVars, connVars, IInv, TypeOK, H!TypeOK, Known, GoneIsNotFound
<1>. QED
  BY <1>1, <1>2, <1>3, <1>4, <1>5, <1>6 DEF Next

(* The invariant holds in every reachable state.                           *)
THEOREM InvHolds == Spec => []IInv
  BY InvInit, InvStep, PTL DEF Spec

(* Every variable of the connections keeps its type.                       *)
THEOREM TypeCorrect == Spec => []TypeOK
<1>1. IInv => TypeOK
  BY DEF IInv
<1>. QED
  BY InvHolds, <1>1, PTL

(* A connection past its deferred Unregister is never found again          *)
(* (client.go:42-45).                                                      *)
THEOREM GoneStaysGone == Spec => []GoneIsNotFound
<1>1. IInv => GoneIsNotFound
  BY DEF IInv
<1>. QED
  BY InvHolds, <1>1, PTL

-----------------------------------------------------------------------------
(* Implementation of module Hub: each step of a goroutine is one step of   *)
(* the hub or leaves it unchanged.                                         *)
LEMMA HubInit == Init => H!Init
  BY DEF Init, H!Init

(* A step that keeps the map, the channels and the set of registered       *)
(* clients is a stutter of the hub.                                        *)
Registered == {c \in Clients : reader[c] # "new"}

(* A step that changes neither the hub's variables nor who is registered is*)
(* a stutter of the hub.                                                   *)
LEMMA HubStutter ==
  ASSUME UNCHANGED hubVars, Registered' = Registered
  PROVE  UNCHANGED H!vars
BY DEF hubVars, H!vars, Registered

(* The Unregister of a goroutine is the Unregister of the hub, or a stutter*)
(* when the client is not current (hub.go:43-50).                          *)
LEMMA UnregisterImplements ==
  ASSUME IInv, NEW c \in Registered, Unregister(c), UNCHANGED buffered,
         Registered' = Registered
  PROVE  H!Next \/ UNCHANGED H!vars
<1>1. c \in Clients
  BY DEF Registered
<1>2. CASE clients[UserOf[c]] = c
  <2>1. H!Unregister(c)
    BY <1>2 DEF Unregister, H!Unregister, H!IsCurrent, Registered
  <2>. QED
    BY <1>1, <2>1 DEF H!Next
<1>3. CASE clients[UserOf[c]] # c
  BY <1>3, HubStutter DEF Unregister, hubVars
<1>. QED
  BY <1>2, <1>3

(* The end of the process is the crash of the hub.                         *)
LEMMA EndImplements ==
  ASSUME IInv, ProcessEnds
  PROVE  H!Next
<1>1. Registered' = Registered
  BY DEF ProcessEnds, Registered, IInv, TypeOK
<1>2. H!Crash
  BY <1>1 DEF ProcessEnds, H!Crash, Registered
<1>. QED
  BY <1>2 DEF H!Next

(* Lookup, push and eviction of a Send map to Push, Unregister or a stutter*)
(* of the hub (hub.go:52-68).                                              *)
LEMMA SendImplements ==
  ASSUME IInv, NEW g \in Goroutines, SendStep(g)
  PROVE  H!Next \/ UNCHANGED H!vars
<1> DEFINE to == call[g].to
<1>1. call[g].step \in {"found", "full"} => to \in Registered /\ to \in Clients
  <2>1. call[g] \in {Idle} \union [step : {"found", "full"}, to : Clients]
    BY DEF IInv, TypeOK, Call
  <2>2. call[g] # Idle => reader[to] # "new"
    BY DEF IInv, Known
  <2>. QED
    BY <2>1, <2>2 DEF Registered, Idle
<1>2. CASE Push(g)
  <2>1. to \in Registered /\ to \in Clients
    BY <1>1, <1>2 DEF Push
  <2>2. H!Push(to)
    BY <1>2, <2>1 DEF Push, H!Push, Registered, connVars
  <2>. QED
    BY <2>1, <2>2 DEF H!Next
<1>3. CASE PushFull(g)
  BY <1>3, HubStutter DEF PushFull, connVars, Registered
<1>4. CASE Evict(g)
  <2>1. to \in Registered /\ Unregister(to) /\ UNCHANGED <<buffered, connVars>>
    BY <1>1, <1>4 DEF Evict
  <2>2. Registered' = Registered
    BY <2>1 DEF connVars, Registered
  <2>. QED
    BY <2>1, <2>2, UnregisterImplements
<1>5. CASE PushClosed(g)
  <2>1. CASE g \in Clients /\ reader[g] = "connecting"
    <3>1. Registered' = Registered /\ UNCHANGED hubVars
      BY <1>5, <2>1 DEF PushClosed, Registered, IInv, TypeOK
    <3>. QED
      BY <3>1, HubStutter
  <2>2. CASE ~(g \in Clients /\ reader[g] = "connecting")
    BY <1>5, <2>2, EndImplements DEF PushClosed
  <2>. QED
    BY <2>1, <2>2
<1>. QED
  BY <1>2, <1>3, <1>4, <1>5 DEF SendStep

(* The steps of ServeWS and readPump map to Register, Unregister or a      *)
(* stutter of the hub.                                                     *)
LEMMA ReaderImplements ==
  ASSUME IInv, NEW c \in Clients,
         \/ Register(c) \/ HookSend(c) \/ StartPumps(c) \/ Dispatch(c)
         \/ ReadError(c) \/ Leave(c) \/ CloseConn(c)
  PROVE  H!Next \/ UNCHANGED H!vars
<1> USE DEF IInv, TypeOK
<1>1. CASE Register(c)
  <2>1. Registered' = Registered \union {c} /\ c \notin Registered
    BY <1>1 DEF Register, Registered
  <2>2. H!Register(c)
    BY <1>1, <2>1 DEF Register, H!Register, Registered
  <2>. QED
    BY <2>2 DEF H!Next
<1>2. CASE HookSend(c)
  BY <1>2, HubStutter DEF HookSend, Registered
<1>3. CASE StartPumps(c)
  <2>1. Registered' = Registered
    BY <1>3 DEF StartPumps, Registered
  <2>. QED
    BY <1>3, <2>1, HubStutter DEF StartPumps
<1>4. CASE Dispatch(c)
  BY <1>4, HubStutter DEF Dispatch, connVars, Registered
<1>5. CASE ReadError(c)
  <2>1. Registered' = Registered
    BY <1>5 DEF ReadError, Registered
  <2>. QED
    BY <1>5, <2>1, HubStutter DEF ReadError
<1>6. CASE Leave(c)
  <2>1. Registered' = Registered /\ c \in Registered
    BY <1>6 DEF Leave, Registered
  <2>. QED
    BY <1>6, <2>1, UnregisterImplements DEF Leave
<1>7. CASE CloseConn(c)
  <2>1. Registered' = Registered
    BY <1>7 DEF CloseConn, Registered
  <2>. QED
    BY <1>7, <2>1, HubStutter DEF CloseConn
<1>. QED
  BY <1>1, <1>2, <1>3, <1>4, <1>5, <1>6, <1>7

(* The steps of writePump map to Pop or a stutter of the hub.              *)
LEMMA WriterImplements ==
  ASSUME IInv, NEW c \in Clients, WriteStep(c) \/ PingError(c) \/ LosePeer(c)
  PROVE  H!Next \/ UNCHANGED H!vars
<1>1. Registered' = Registered /\ UNCHANGED <<clients, closes>>
  BY DEF WriteStep, Write, WriteError, WriteClose, PingError, LosePeer,
         WriterReturns, connVars, hubVars, Registered
<1>2. CASE Write(c) \/ WriteError(c)
  <2>1. c \in Registered
    BY <1>2 DEF Write, WriteError, Registered, IInv, Known
  <2>2. H!Pop(c)
    BY <1>1, <1>2, <2>1 DEF Write, WriteError, H!Pop, Registered
  <2>. QED
    BY <2>2 DEF H!Next
<1>3. CASE WriteClose(c) \/ PingError(c) \/ LosePeer(c)
  <2>1. UNCHANGED hubVars
    BY <1>1, <1>3 DEF WriteClose, PingError, LosePeer, hubVars
  <2>. QED
    BY <1>1, <2>1, HubStutter
<1>. QED
  BY <1>2, <1>3 DEF WriteStep

(* Every step of the goroutines maps to a step of the hub or a stutter.    *)
LEMMA HubStep ==
  ASSUME IInv, [Next]_vars
  PROVE  [H!Next]_(H!vars)
<1>1. ASSUME NEW f \in Forwarders, Forward(f)
      PROVE  UNCHANGED H!vars
  BY <1>1, HubStutter DEF Forward, connVars, Registered
<1>2. CASE Kill
  BY <1>2, EndImplements DEF Kill
<1>3. CASE UNCHANGED vars
  BY <1>3, HubStutter DEF vars, connVars, Registered
<1>. QED
  BY <1>1, <1>2, <1>3, SendImplements, ReaderImplements, WriterImplements DEF Next

(* The pumps, the connect hook and the forwarders implement the atomic hub *)
(* of module Hub: every step maps to a hub step or a stutter.              *)
THEOREM ImplementsHub == Spec => HubSpec
  BY InvHolds, HubInit, HubStep, PTL DEF Spec, HubSpec, H!Spec

-----------------------------------------------------------------------------
(* Only the exit of the very connection, a Send that found its channel     *)
(* full, or the end of the process takes a user offline (hub.go:46).       *)
Evicting(c) == \E g \in Goroutines : call[g] = [step |-> "full", to |-> c]

SurvivesStep ==
    \A c \in Clients :
        clients[UserOf[c]] = c /\ clients'[UserOf[c]] = NoClient =>
            reader[c] = "leaving" \/ reader'[c] = "dead" \/ Evicting(c)

(* A Send evicts the client it looked up itself and no other (hub.go:65).  *)
LEMMA SurvivesEvict ==
  ASSUME IInv, NEW g \in Goroutines, Evict(g)
  PROVE  SurvivesStep
<1> SUFFICES ASSUME NEW c \in Clients,
                    clients[UserOf[c]] = c, clients'[UserOf[c]] = NoClient
             PROVE  Evicting(c)
  BY DEF SurvivesStep
<1>1. call[g] \in {Idle} \union [step : {"found", "full"}, to : Clients]
  BY DEF IInv, TypeOK, Call
<1>2. call[g] = [step |-> "full", to |-> call[g].to] /\ call[g].to \in Clients
  BY <1>1 DEF Evict, Idle
<1>3. clients' # clients
  BY UserOfAssumption, NoClientAssumption, CapacityAssumption
<1>4. clients[UserOf[call[g].to]] = call[g].to
      /\ clients' = [clients EXCEPT ![UserOf[call[g].to]] = NoClient]
  BY <1>3 DEF Evict, Unregister
<1>5. UserOf[c] \in Users /\ clients \in [Users -> Clients \union {NoClient}]
  BY UserOfAssumption, NoClientAssumption, CapacityAssumption DEF IInv, TypeOK, H!TypeOK
<1>6. UserOf[call[g].to] = UserOf[c]
  BY <1>4, <1>5, UserOfAssumption, NoClientAssumption, CapacityAssumption
<1>7. call[g].to = c
  BY <1>4, <1>6
<1>. QED
  BY <1>2, <1>7 DEF Evicting

(* The end of the process ends every connection with it.                   *)
LEMMA SurvivesEnd ==
  ASSUME IInv, ProcessEnds
  PROVE  SurvivesStep
<1> SUFFICES ASSUME NEW c \in Clients, clients[UserOf[c]] = c
             PROVE  reader'[c] = "dead"
  BY DEF SurvivesStep
<1>1. UserOf[c] \in Users /\ c # NoClient
  BY UserOfAssumption, NoClientAssumption, CapacityAssumption
<1>2. reader[c] # "new"
  BY <1>1 DEF IInv, Known
<1>. QED
  BY <1>2 DEF ProcessEnds

(* A deferred Unregister takes out the client it belongs to and no other   *)
(* (client.go:43).                                                         *)
LEMMA SurvivesReader ==
  ASSUME IInv, NEW c \in Clients,
         \/ Register(c) \/ HookSend(c) \/ StartPumps(c) \/ Dispatch(c)
         \/ ReadError(c) \/ Leave(c) \/ CloseConn(c)
  PROVE  SurvivesStep
<1> USE UserOfAssumption, NoClientAssumption, CapacityAssumption DEF IInv, TypeOK, H!TypeOK, SurvivesStep
<1>1. CASE Register(c)
  BY <1>1 DEF Register
<1>2. CASE Leave(c)
  BY <1>2 DEF Leave, Unregister
<1>3. CASE HookSend(c) \/ StartPumps(c) \/ Dispatch(c) \/ ReadError(c) \/ CloseConn(c)
  <2>1. clients' = clients
    BY <1>3 DEF HookSend, StartPumps, Dispatch, ReadError, CloseConn, hubVars
  <2>. QED
    BY <2>1
<1>. QED
  BY <1>1, <1>2, <1>3

(* Every step lets a registered client stay unless that client leaves, is  *)
(* evicted or its process ends.                                            *)
LEMMA SurvivesNext ==
  ASSUME IInv, [Next]_vars
  PROVE  SurvivesStep
<1>1. ASSUME UNCHANGED clients
      PROVE  SurvivesStep
  BY <1>1, UserOfAssumption, NoClientAssumption, CapacityAssumption DEF SurvivesStep
<1>2. ASSUME NEW g \in Goroutines, SendStep(g)
      PROVE  SurvivesStep
  <2>1. CASE Push(g) \/ PushFull(g)
    BY <1>1, <2>1 DEF Push, PushFull, hubVars
  <2>2. CASE Evict(g)
    BY <2>2, SurvivesEvict
  <2>3. CASE PushClosed(g)
    BY <1>1, <2>3, SurvivesEnd DEF PushClosed, hubVars
  <2>. QED
    BY <1>2, <2>1, <2>2, <2>3 DEF SendStep
<1>3. ASSUME NEW f \in Forwarders, Forward(f)
      PROVE  SurvivesStep
  BY <1>1, <1>3 DEF Forward, hubVars
<1>4. ASSUME NEW c \in Clients, WriteStep(c) \/ PingError(c) \/ LosePeer(c)
      PROVE  SurvivesStep
  BY <1>1, <1>4 DEF WriteStep, Write, WriteError, WriteClose, PingError, LosePeer,
                    WriterReturns, hubVars
<1>5. CASE Kill
  BY <1>5, SurvivesEnd DEF Kill
<1>6. CASE UNCHANGED vars
  BY <1>1, <1>6 DEF vars, hubVars
<1>. QED
  BY <1>2, <1>3, <1>4, <1>5, <1>6, SurvivesReader DEF Next

(* The late teardown of an older connection never takes the newer login of *)
(* the same user offline (hub.go:46).                                      *)
THEOREM NewerSurvives == Spec => NewerLoginSurvives
<1>1. IInv /\ [Next]_vars =>
        [\A c \in Clients :
           clients[UserOf[c]] = c /\ clients'[UserOf[c]] = NoClient =>
             \/ reader[c] = "leaving"
             \/ reader'[c] = "dead"
             \/ \E g \in Goroutines : call[g] = [step |-> "full", to |-> c]]_vars
  BY SurvivesNext DEF SurvivesStep, Evicting
<1>. QED
  BY InvHolds, <1>1, PTL DEF Spec, NewerLoginSurvives

-----------------------------------------------------------------------------
(* What holds of the atomic hub holds of the goroutines that implement it. *)
(* In this section H! is the atomic hub, on its own.                       *)

(* Every variable of the hub keeps its type; in particular no channel ever *)
(* holds more than Capacity frames (hub.go:61, client.go:37).              *)
THEOREM HubTypeCorrect == H!Spec => []H!TypeOK
<1>1. H!Init => H!TypeOK
  BY CapacityAssumption DEF H!Init, H!TypeOK
<1>2. H!TypeOK /\ [H!Next]_(H!vars) => H!TypeOK'
  <2> SUFFICES ASSUME H!TypeOK, [H!Next]_(H!vars)
               PROVE  H!TypeOK'
    OBVIOUS
  <2> USE UserOfAssumption, CapacityAssumption DEF H!TypeOK
  <2>1. ASSUME NEW c \in Clients, H!Register(c)
        PROVE  H!TypeOK'
    BY <2>1 DEF H!Register
  <2>2. ASSUME NEW c \in Clients, H!Unregister(c)
        PROVE  H!TypeOK'
    BY <2>2 DEF H!Unregister
  <2>3. ASSUME NEW c \in Clients, H!Push(c)
        PROVE  H!TypeOK'
    BY <2>3 DEF H!Push
  <2>4. ASSUME NEW c \in Clients, H!Pop(c)
        PROVE  H!TypeOK'
    BY <2>4 DEF H!Pop
  <2>5. CASE H!Crash
    BY <2>5 DEF H!Crash
  <2>6. CASE UNCHANGED H!vars
    BY <2>6 DEF H!vars
  <2>. QED
    BY <2>1, <2>2, <2>3, <2>4, <2>5, <2>6 DEF H!Next
<1>. QED
  BY <1>1, <1>2, PTL DEF H!Spec

(* NoDoubleClose is not inductive: a client could be current although its  *)
(* channel is closed.  CurrentIsOpen excludes it, and in turn needs that a *)
(* client not yet registered was never closed.                             *)
Issued == {c \in Clients : reader[c] # "new"}

FreshIsOpen == \A c \in Clients \ Issued : closes[c] = 0

HubInv == H!TypeOK /\ H!NoDoubleClose /\ H!CurrentIsOpen /\ FreshIsOpen

(* The invariant of the hub holds when the process starts.                 *)
LEMMA HubInvInit == H!Init => HubInv
  BY CapacityAssumption
  DEF H!Init, HubInv, H!TypeOK, H!NoDoubleClose, H!CurrentIsOpen, FreshIsOpen, Issued

(* One step of the hub keeps the invariant.                                *)
LEMMA HubInvStep == HubInv /\ H!TypeOK' /\ [H!Next]_(H!vars) => HubInv'
<1> SUFFICES ASSUME HubInv, H!TypeOK', [H!Next]_(H!vars)
             PROVE  HubInv'
  OBVIOUS
<1> USE UserOfAssumption, NoClientAssumption
    DEF HubInv, H!TypeOK, H!NoDoubleClose, H!CurrentIsOpen, FreshIsOpen, Issued
<1>1. ASSUME NEW c \in Clients, H!Register(c)
      PROVE  HubInv'
  <2>1. UserOf[c] \in Users /\ closes[c] = 0 /\ closes' = closes
    BY <1>1 DEF H!Register
  <2>2. H!CurrentIsOpen'
    BY <1>1, <2>1 DEF H!Register
  <2>3. H!NoDoubleClose' /\ FreshIsOpen'
    BY <1>1, <2>1 DEF H!Register
  <2>. QED
    BY <2>2, <2>3
<1>2. ASSUME NEW c \in Clients, H!Unregister(c)
      PROVE  HubInv'
  <2>1. UserOf[c] \in Users /\ clients[UserOf[c]] = c /\ closes[c] = 0
    BY <1>2 DEF H!Unregister, H!IsCurrent
  <2>2. closes'[c] = 1 /\ \A d \in Clients \ {c} : closes'[d] = closes[d]
    BY <1>2, <2>1 DEF H!Unregister
  <2>3. H!NoDoubleClose' /\ FreshIsOpen'
    BY <1>2, <2>2 DEF H!Unregister
  <2>4. H!CurrentIsOpen'
    BY <1>2, <2>1, <2>2 DEF H!Unregister
  <2>. QED
    BY <2>3, <2>4
<1>3. ASSUME NEW c \in Clients, H!Push(c) \/ H!Pop(c)
      PROVE  HubInv'
  BY <1>3 DEF H!Push, H!Pop
<1>4. CASE H!Crash
  BY <1>4 DEF H!Crash
<1>5. CASE UNCHANGED H!vars
  BY <1>5 DEF H!vars
<1>. QED
  BY <1>1, <1>2, <1>3, <1>4, <1>5 DEF H!Next

(* The invariant holds in every reachable state of the hub.                *)
LEMMA HubInvHolds == H!Spec => []HubInv
BY HubTypeCorrect, HubInvInit, HubInvStep, PTL DEF H!Spec

(* No channel is closed twice, whatever combination of exits, full         *)
(* channels and reconnects calls Unregister (hub.go:43-50).                *)
THEOREM NeverClosedTwice == Spec => []NoDoubleClose
<1>1. HubInv => NoDoubleClose
  BY DEF HubInv, NoDoubleClose
<1>. QED
  BY <1>1, HubInvHolds, ImplementsHub, PTL DEF HubSpec

(* What a lookup returns is open and registered for that user              *)
(* (hub.go:54-56).                                                         *)
THEOREM LookupIsOpen == Spec => []CurrentIsOpen
<1>1. HubInv => CurrentIsOpen
  BY DEF HubInv, CurrentIsOpen
<1>. QED
  BY <1>1, HubInvHolds, ImplementsHub, PTL DEF HubSpec
=============================================================================
