-------------------------------- MODULE Router --------------------------------
(***************************************************************************)
(* The pub/sub router of one server process (server/pubsub/router.go) and  *)
(* its Redis subscriptions.  Every connection subscribes its user when it  *)
(* arrives and unsubscribes the user when it is gone; the router keeps ONE *)
(* subscription per user in a map, so with two logins of a user it is not  *)
(* in general its own subscription that a connection closes.               *)
(*                                                                         *)
(* A subscription (redis.PubSub) is named after the connection whose       *)
(* Subscribe call opened it.  The life of a connection in the router is    *)
(*    none -> opening -> subscribed -> closing -> gone                     *)
(* "closing" being between the locked part of Unsubscribe and sub.Close(). *)
(***************************************************************************)
EXTENDS Naturals, FiniteSets

CONSTANTS
    Users, Clients, UserOf, NoClient,   \* as in module Hub
    InboxRoom   \* frames a subscription's channel holds (100 in go-redis)

ASSUME UserOfAssumption == UserOf \in [Clients -> Users]
ASSUME NoClientAssumption == NoClient \notin Clients
ASSUME ClientsAssumption == IsFiniteSet(Clients)
ASSUME InboxRoomAssumption == InboxRoom \in Nat

VARIABLES
    subs,       \* Router.subs: [user -> the subscription in the map]
    open,       \* the subscriptions that are open
    listening,  \* those of them Redis currently delivers to
    inbox,      \* frames received for a subscription and not yet forwarded
    stage,      \* stage[c]: where connection c stands
    held        \* held[c]: what c took out of the map and is about to close

vars == <<subs, open, listening, inbox, stage, held>>

Stages == {"none", "opening", "subscribed", "closing", "gone"}

TypeOK ==
    /\ subs \in [Users -> Clients \union {NoClient}]
    /\ open \subseteq Clients
    /\ listening \subseteq open
    /\ inbox \in [Clients -> 0..InboxRoom]
    /\ stage \in [Clients -> Stages]
    /\ held \in [Clients -> Clients \union {NoClient}]

(* The open subscriptions of a user, and the connections of the user that  *)
(* have subscribed and not yet finished to unsubscribe.                    *)
OpenOf(u) == {s \in open : UserOf[s] = u}
ConnectionsOf(u) ==
    {c \in Clients : UserOf[c] = u /\ stage[c] \in {"opening", "subscribed", "closing"}}

Init ==
    /\ subs = [u \in Users |-> NoClient]
    /\ open = {}
    /\ listening = {}
    /\ inbox = [c \in Clients |-> 0]
    /\ stage = [c \in Clients |-> "none"]
    /\ held = [c \in Clients |-> NoClient]

-----------------------------------------------------------------------------
(* Mutant of StoreSub: it closes the subscription it replaces.             *)
StoreSubClosingOld(c) ==
    /\ stage[c] = "opening"
    /\ open' = open \ {subs[UserOf[c]]}
    /\ listening' = listening \ {subs[UserOf[c]]}
    /\ subs' = [subs EXCEPT ![UserOf[c]] = c]
    /\ stage' = [stage EXCEPT ![c] = "subscribed"]
    /\ UNCHANGED <<inbox, held>>

(* Subscribe: open the subscription, then store it under the lock.  What   *)
(* the map held before stays open.                                         *)
OpenSub(c) ==
    /\ stage[c] = "none"
    /\ open' = open \union {c}
    /\ stage' = [stage EXCEPT ![c] = "opening"]
    /\ UNCHANGED <<subs, listening, inbox, held>>

StoreSub(c) ==
    /\ stage[c] = "opening"
    /\ subs' = [subs EXCEPT ![UserOf[c]] = c]
    /\ stage' = [stage EXCEPT ![c] = "subscribed"]
    /\ UNCHANGED <<open, listening, inbox, held>>

(* Mutant of CloseSub: every subscription of the user is closed.           *)
CloseAllSubs(c) ==
    /\ stage[c] = "closing"
    /\ open' = open \ OpenOf(UserOf[c])
    /\ listening' = listening \ OpenOf(UserOf[c])
    /\ held' = [held EXCEPT ![c] = NoClient]
    /\ stage' = [stage EXCEPT ![c] = "gone"]
    /\ UNCHANGED <<subs, inbox>>

(* Unsubscribe: take whatever the map holds for the user, then close it.   *)
TakeSub(c) ==
    /\ stage[c] = "subscribed"
    /\ subs[UserOf[c]] # NoClient
    /\ held' = [held EXCEPT ![c] = subs[UserOf[c]]]
    /\ subs' = [subs EXCEPT ![UserOf[c]] = NoClient]
    /\ stage' = [stage EXCEPT ![c] = "closing"]
    /\ UNCHANGED <<open, listening, inbox>>

TakeNothing(c) ==
    /\ stage[c] = "subscribed"
    /\ subs[UserOf[c]] = NoClient
    /\ stage' = [stage EXCEPT ![c] = "gone"]
    /\ UNCHANGED <<subs, open, listening, inbox, held>>

CloseSub(c) ==
    /\ stage[c] = "closing"
    /\ open' = open \ {held[c]}
    /\ listening' = listening \ {held[c]}
    /\ held' = [held EXCEPT ![c] = NoClient]
    /\ stage' = [stage EXCEPT ![c] = "gone"]
    /\ UNCHANGED <<subs, inbox>>

-----------------------------------------------------------------------------
(* Redis.  Subscribe does not wait for the confirmation; go-redis repeats  *)
(* the subscription after the connection to Redis was lost.                *)
Confirm(s) ==
    /\ s \in open \ listening
    /\ listening' = listening \union {s}
    /\ UNCHANGED <<subs, open, inbox, stage, held>>

LoseRedis(s) ==
    /\ s \in listening
    /\ listening' = listening \ {s}
    /\ UNCHANGED <<subs, open, inbox, stage, held>>

(* A frame published for u, by any process, reaches every subscription     *)
(* that listens at that moment; one whose channel is full loses it.        *)
Publish(u) ==
    /\ inbox' = [s \in Clients |->
                   IF s \in listening /\ UserOf[s] = u /\ inbox[s] < InboxRoom
                   THEN inbox[s] + 1 ELSE inbox[s]]
    /\ UNCHANGED <<subs, open, listening, stage, held>>

(* The forwarder, started after StoreSub, hands a frame to Hub.Send.       *)
Forward(s) ==
    /\ stage[s] \notin {"none", "opening"}
    /\ inbox[s] > 0
    /\ inbox' = [inbox EXCEPT ![s] = @ - 1]
    /\ UNCHANGED <<subs, open, listening, stage, held>>

(* The process ends: so do its connections and its subscriptions.          *)
Crash ==
    /\ subs' = [u \in Users |-> NoClient]
    /\ open' = {}
    /\ listening' = {}
    /\ inbox' = [c \in Clients |-> 0]
    /\ stage' = [c \in Clients |-> IF stage[c] = "none" THEN "none" ELSE "gone"]
    /\ held' = [c \in Clients |-> NoClient]

-----------------------------------------------------------------------------
Next ==
    \/ \E c \in Clients :
          \/ OpenSub(c) \/ StoreSub(c) \/ TakeSub(c) \/ TakeNothing(c) \/ CloseSub(c)
          \/ Confirm(c) \/ LoseRedis(c) \/ Forward(c)
    \/ \E u \in Users : Publish(u)
    \/ Crash

(* Goroutines run on, and Redis answers a subscription eventually.  When   *)
(* a connection ends is not up to the router: no fairness on TakeSub.      *)
Fairness ==
    \A c \in Clients : WF_vars(StoreSub(c)) /\ WF_vars(CloseSub(c)) /\ WF_vars(Confirm(c))

Spec == Init /\ [][Next]_vars
FairSpec == Spec /\ Fairness

-----------------------------------------------------------------------------
(* However the logins and logouts of a user overlap, and although they     *)
(* close each other's subscriptions, a user with a running connection has  *)
(* an open subscription in that process (router.go:39-68).                 *)
StillSubscribed ==
    \A c \in Clients : stage[c] = "subscribed" => OpenOf(UserOf[c]) # {}

(* Two disconnects never take the same subscription, and what one of them  *)
(* is about to close is neither closed already nor back in the map: the    *)
(* deletion is in the critical section of the lookup (router.go:58-63).    *)
HeldOnce ==
    \A c \in Clients : stage[c] = "closing" =>
        /\ held[c] \in OpenOf(UserOf[c])
        /\ \A u \in Users : subs[u] # held[c]
        /\ \A d \in Clients : stage[d] = "closing" /\ held[d] = held[c] => d = c

(* A running connection is not cut off from the other processes for ever:  *)
(* some subscription of its user listens again, unless it leaves.          *)
EventuallyListening ==
    \A c \in Clients :
        stage[c] = "subscribed" ~>
            stage[c] # "subscribed" \/ OpenOf(UserOf[c]) \intersect listening # {}

-----------------------------------------------------------------------------
(* Why StillSubscribed holds: every connection brings a subscription and   *)
(* takes away at most one, and no subscription is taken away twice.        *)
MapIsOpen ==
    \A u \in Users : subs[u] # NoClient => subs[u] \in OpenOf(u)

(* A subscription not yet stored is where its connection left it.          *)
Untouched ==
    \A c \in Clients :
        /\ stage[c] = "none" => c \notin open
        /\ stage[c] = "opening" => c \in open
        /\ stage[c] \in {"none", "opening"} =>
              /\ \A u \in Users : subs[u] # c
              /\ \A d \in Clients : held[d] # c

EnoughOpen ==
    \A u \in Users : Cardinality(ConnectionsOf(u)) <= Cardinality(OpenOf(u))

IInv == TypeOK /\ MapIsOpen /\ Untouched /\ HeldOnce /\ EnoughOpen
=============================================================================
