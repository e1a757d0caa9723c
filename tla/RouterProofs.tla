----------------------------- MODULE RouterProofs -----------------------------
(***************************************************************************)
(* Theorems about module Router: for any number of users and any finite    *)
(* number of overlapping connections.                                      *)
(***************************************************************************)
EXTENDS Router, FiniteSetTheorems, TLAPS

(* Every variable of the router keeps its type; a subscription that Redis  *)
(* delivers to is open.                                                    *)
THEOREM TypeCorrect == Spec => []TypeOK
<1>1. Init => TypeOK
  BY InboxRoomAssumption DEF Init, TypeOK, Stages
<1>2. TypeOK /\ [Next]_vars => TypeOK'
  <2> SUFFICES ASSUME TypeOK, [Next]_vars
               PROVE  TypeOK'
    OBVIOUS
  <2> USE UserOfAssumption, InboxRoomAssumption DEF TypeOK, Stages
  <2>1. ASSUME NEW c \in Clients, OpenSub(c)
        PROVE  TypeOK'
    BY <2>1 DEF OpenSub
  <2>2. ASSUME NEW c \in Clients, StoreSub(c)
        PROVE  TypeOK'
    BY <2>2 DEF StoreSub
  <2>3. ASSUME NEW c \in Clients, TakeSub(c)
        PROVE  TypeOK'
    BY <2>3 DEF TakeSub
  <2>4. ASSUME NEW c \in Clients, TakeNothing(c)
        PROVE  TypeOK'
    BY <2>4 DEF TakeNothing
  <2>5. ASSUME NEW c \in Clients, CloseSub(c)
        PROVE  TypeOK'
    BY <2>5 DEF CloseSub
  <2>6. ASSUME NEW s \in Clients, Confirm(s) \/ LoseRedis(s)
        PROVE  TypeOK'
    BY <2>6 DEF Confirm, LoseRedis
  <2>7. ASSUME NEW s \in Clients, Forward(s)
        PROVE  TypeOK'
    BY <2>7 DEF Forward
  <2>8. ASSUME NEW u \in Users, Publish(u)
        PROVE  TypeOK'
    BY <2>8 DEF Publish
  <2>9. CASE Crash
    BY <2>9 DEF Crash
  <2>10. CASE UNCHANGED vars
    BY <2>10 DEF vars
  <2>. QED
    BY <2>1, <2>2, <2>3, <2>4, <2>5, <2>6, <2>7, <2>8, <2>9, <2>10 DEF Next
<1>. QED
  BY <1>1, <1>2, PTL DEF Spec

-----------------------------------------------------------------------------
(* The steps that leave the subscriptions and the connections alone.       *)
LEMMA RedisStep ==
  ASSUME IInv, TypeOK', UNCHANGED <<subs, open, stage, held>>
  PROVE  IInv'
BY DEF IInv, MapIsOpen, Untouched, HeldOnce, EnoughOpen, OpenOf, ConnectionsOf

(* MapIsOpen, Untouched and HeldOnce are inductive together: a stored      *)
(* subscription is open, not held, and becomes held by leaving the map.    *)
LEMMA OwnershipStep ==
  ASSUME TypeOK, TypeOK', MapIsOpen, Untouched, HeldOnce, NEW c \in Clients,
         OpenSub(c) \/ StoreSub(c) \/ TakeSub(c) \/ TakeNothing(c) \/ CloseSub(c)
  PROVE  MapIsOpen' /\ Untouched' /\ HeldOnce'
<1> USE UserOfAssumption, NoClientAssumption
    DEF TypeOK, Stages, MapIsOpen, Untouched, HeldOnce, OpenOf
<1>1. CASE OpenSub(c)
  BY <1>1 DEF OpenSub
<1>2. CASE StoreSub(c)
  <2>1. c \in open
    BY <1>2 DEF StoreSub
  <2>. QED
    BY <1>2, <2>1 DEF StoreSub
<1>3. CASE TakeSub(c)
  <2>1. subs[UserOf[c]] \in Clients /\ subs[UserOf[c]] \in open
        /\ UserOf[subs[UserOf[c]]] = UserOf[c]
    BY <1>3 DEF TakeSub
  <2>2. \A u \in Users : subs'[u] # subs[UserOf[c]]
    BY <1>3, <2>1 DEF TakeSub
  <2>3. \A d \in Clients \ {c} : stage'[d] = stage[d] /\ held'[d] = held[d]
    BY <1>3 DEF TakeSub
  <2>4. stage'[c] = "closing" /\ held'[c] = subs[UserOf[c]] /\ open' = open
    BY <1>3 DEF TakeSub
  <2>5. HeldOnce'
    BY <1>3, <2>1, <2>2, <2>3, <2>4 DEF TakeSub
  <2>6. MapIsOpen' /\ Untouched'
    BY <1>3, <2>1, <2>3, <2>4 DEF TakeSub
  <2>. QED
    BY <2>5, <2>6
<1>4. CASE TakeNothing(c)
  BY <1>4 DEF TakeNothing
<1>5. CASE CloseSub(c)
  <2>1. held[c] \in open /\ \A u \in Users : subs[u] # held[c]
    BY <1>5 DEF CloseSub
  <2>2. \A d \in Clients \ {c} : stage'[d] = stage[d] /\ held'[d] = held[d]
    BY <1>5 DEF CloseSub
  <2>3. stage'[c] = "gone" /\ held'[c] = NoClient /\ open' = open \ {held[c]} /\ subs' = subs
    BY <1>5 DEF CloseSub
  <2>4. HeldOnce'
    BY <1>5, <2>1, <2>2, <2>3 DEF CloseSub
  <2>5. MapIsOpen' /\ Untouched'
    BY <2>1, <2>2, <2>3
  <2>. QED
    BY <2>4, <2>5
<1>. QED
  BY <1>1, <1>2, <1>3, <1>4, <1>5
-----------------------------------------------------------------------------
(* The counting argument.  Only OpenSub raises the number of connections,  *)
(* and only CloseSub lowers the number of open subscriptions.              *)

(* The two sets that are counted are finite.                               *)
LEMMA SetsAreFinite ==
  ASSUME TypeOK, NEW u
  PROVE  IsFiniteSet(OpenOf(u)) /\ IsFiniteSet(ConnectionsOf(u))
<1>1. OpenOf(u) \in SUBSET Clients /\ ConnectionsOf(u) \in SUBSET Clients
  BY DEF TypeOK, OpenOf, ConnectionsOf
<1>. QED
  BY <1>1, ClientsAssumption, FS_Subset

(* A connect adds one connection and one open subscription of its user     *)
(* (router.go:41).                                                         *)
LEMMA CountOpenSub ==
  ASSUME IInv, NEW c \in Clients, OpenSub(c)
  PROVE  EnoughOpen'
<1> USE UserOfAssumption DEF IInv
<1> SUFFICES ASSUME NEW u \in Users
             PROVE  Cardinality(ConnectionsOf(u)') <= Cardinality(OpenOf(u)')
  BY DEF EnoughOpen
<1>1. /\ IsFiniteSet(OpenOf(u)) /\ IsFiniteSet(ConnectionsOf(u))
      /\ Cardinality(OpenOf(u)) \in Nat /\ Cardinality(ConnectionsOf(u)) \in Nat
      /\ Cardinality(ConnectionsOf(u)) <= Cardinality(OpenOf(u))
  BY SetsAreFinite, FS_CardinalityType DEF EnoughOpen
<1>2. CASE UserOf[c] = u
  <2>1. /\ ConnectionsOf(u)' = ConnectionsOf(u) \cup {c}
        /\ c \notin ConnectionsOf(u)
    BY <1>2 DEF OpenSub, ConnectionsOf, TypeOK
  <2>2. /\ OpenOf(u)' = OpenOf(u) \cup {c}
        /\ c \notin OpenOf(u)
    BY <1>2 DEF OpenSub, OpenOf, Untouched
  <2>3. Cardinality(ConnectionsOf(u)') = Cardinality(ConnectionsOf(u)) + 1
    BY <1>1, <2>1, FS_AddElement
  <2>4. Cardinality(OpenOf(u)') = Cardinality(OpenOf(u)) + 1
    BY <1>1, <2>2, FS_AddElement
  <2>. QED
    BY <1>1, <2>3, <2>4
<1>3. CASE UserOf[c] # u
  <2>1. ConnectionsOf(u)' = ConnectionsOf(u)
    BY <1>3 DEF OpenSub, ConnectionsOf, TypeOK
  <2>2. OpenOf(u)' = OpenOf(u)
    BY <1>3 DEF OpenSub, OpenOf
  <2>. QED
    BY <1>1, <2>1, <2>2
<1>. QED
  BY <1>2, <1>3

(* A disconnect that closes a subscription was counted: one connection     *)
(* less, one subscription less (router.go:66).                             *)
LEMMA CountCloseSub ==
  ASSUME IInv, NEW c \in Clients, CloseSub(c)
  PROVE  EnoughOpen'
<1> USE UserOfAssumption DEF IInv
<1> SUFFICES ASSUME NEW u \in Users
             PROVE  Cardinality(ConnectionsOf(u)') <= Cardinality(OpenOf(u)')
  BY DEF EnoughOpen
<1>1. /\ IsFiniteSet(OpenOf(u)) /\ IsFiniteSet(ConnectionsOf(u))
      /\ Cardinality(OpenOf(u)) \in Nat /\ Cardinality(ConnectionsOf(u)) \in Nat
      /\ Cardinality(ConnectionsOf(u)) <= Cardinality(OpenOf(u))
  BY SetsAreFinite, FS_CardinalityType DEF EnoughOpen
<1>2. held[c] \in OpenOf(UserOf[c])
  BY DEF CloseSub, HeldOnce
<1>3. CASE UserOf[c] = u
  <2>1. /\ ConnectionsOf(u)' = ConnectionsOf(u) \ {c}
        /\ c \in ConnectionsOf(u)
    BY <1>3 DEF CloseSub, ConnectionsOf, TypeOK
  <2>2. /\ OpenOf(u)' = OpenOf(u) \ {held[c]}
        /\ held[c] \in OpenOf(u)
    BY <1>2, <1>3 DEF CloseSub, OpenOf
  <2>3. Cardinality(ConnectionsOf(u)') = Cardinality(ConnectionsOf(u)) - 1
    BY <1>1, <2>1, FS_RemoveElement
  <2>4. Cardinality(OpenOf(u)') = Cardinality(OpenOf(u)) - 1
    BY <1>1, <2>2, FS_RemoveElement
  <2>. QED
    BY <1>1, <2>3, <2>4
<1>4. CASE UserOf[c] # u
  <2>1. ConnectionsOf(u)' = ConnectionsOf(u)
    BY <1>4 DEF CloseSub, ConnectionsOf, TypeOK
  <2>2. OpenOf(u)' = OpenOf(u)
    BY <1>2, <1>4 DEF CloseSub, OpenOf
  <2>. QED
    BY <1>1, <2>1, <2>2
<1>. QED
  BY <1>3, <1>4

(* The other steps neither add a connection nor close a subscription.      *)
LEMMA CountOtherSteps ==
  ASSUME IInv, NEW c \in Clients, StoreSub(c) \/ TakeSub(c) \/ TakeNothing(c)
  PROVE  EnoughOpen'
<1> USE UserOfAssumption DEF IInv
<1> SUFFICES ASSUME NEW u \in Users
             PROVE  Cardinality(ConnectionsOf(u)') <= Cardinality(OpenOf(u)')
  BY DEF EnoughOpen
<1>1. /\ IsFiniteSet(OpenOf(u)) /\ IsFiniteSet(ConnectionsOf(u))
      /\ Cardinality(OpenOf(u)) \in Nat /\ Cardinality(ConnectionsOf(u)) \in Nat
      /\ Cardinality(ConnectionsOf(u)) <= Cardinality(OpenOf(u))
  BY SetsAreFinite, FS_CardinalityType DEF EnoughOpen
<1>2. OpenOf(u)' = OpenOf(u)
  BY DEF StoreSub, TakeSub, TakeNothing, OpenOf
<1>3. ConnectionsOf(u)' \in SUBSET ConnectionsOf(u)
  BY DEF StoreSub, TakeSub, TakeNothing, ConnectionsOf, TypeOK, Stages
<1>4. /\ Cardinality(ConnectionsOf(u)') \in Nat
      /\ Cardinality(ConnectionsOf(u)') <= Cardinality(ConnectionsOf(u))
  BY <1>1, <1>3, FS_Subset, FS_CardinalityType
<1>. QED
  BY <1>1, <1>2, <1>4

(* A crash leaves no connection and no subscription.                       *)
LEMMA CrashStep ==
  ASSUME IInv, TypeOK', Crash
  PROVE  IInv'
<1>1. \A u \in Users : ConnectionsOf(u)' = {} /\ OpenOf(u)' = {}
  BY DEF Crash, ConnectionsOf, OpenOf
<1>2. EnoughOpen'
  BY <1>1, FS_EmptySet DEF EnoughOpen
<1>3. MapIsOpen' /\ Untouched' /\ HeldOnce'
  BY NoClientAssumption
  DEF IInv, TypeOK, Crash, MapIsOpen, Untouched, HeldOnce, OpenOf
<1>. QED
  BY <1>2, <1>3 DEF IInv

-----------------------------------------------------------------------------
(* The invariant holds when the process starts.                            *)
LEMMA InvInit == Init => IInv
<1> SUFFICES ASSUME Init
             PROVE  IInv
  OBVIOUS
<1>1. \A u \in Users : ConnectionsOf(u) = {} /\ OpenOf(u) = {}
  BY DEF Init, ConnectionsOf, OpenOf
<1>2. EnoughOpen
  BY <1>1, FS_EmptySet DEF EnoughOpen
<1>3. TypeOK /\ MapIsOpen /\ Untouched /\ HeldOnce
  BY InboxRoomAssumption, NoClientAssumption
  DEF Init, TypeOK, Stages, MapIsOpen, Untouched, HeldOnce
<1>. QED
  BY <1>2, <1>3 DEF IInv

(* Every step keeps the invariant.                                         *)
LEMMA InvStep == IInv /\ TypeOK' /\ [Next]_vars => IInv'
<1> SUFFICES ASSUME IInv, TypeOK', [Next]_vars
             PROVE  IInv'
  OBVIOUS
<1>1. ASSUME NEW c \in Clients,
             OpenSub(c) \/ StoreSub(c) \/ TakeSub(c) \/ TakeNothing(c) \/ CloseSub(c)
      PROVE  IInv'
  <2>1. MapIsOpen' /\ Untouched' /\ HeldOnce'
    BY <1>1, OwnershipStep DEF IInv
  <2>2. EnoughOpen'
    BY <1>1, CountOpenSub, CountCloseSub, CountOtherSteps
  <2>. QED
    BY <2>1, <2>2 DEF IInv
<1>2. ASSUME NEW s \in Clients, Confirm(s) \/ LoseRedis(s) \/ Forward(s)
      PROVE  IInv'
  BY <1>2, RedisStep DEF Confirm, LoseRedis, Forward
<1>3. ASSUME NEW u \in Users, Publish(u)
      PROVE  IInv'
  BY <1>3, RedisStep DEF Publish
<1>4. CASE Crash
  BY <1>4, CrashStep
<1>5. CASE UNCHANGED vars
  BY <1>5, RedisStep DEF vars
<1>. QED
  BY <1>1, <1>2, <1>3, <1>4, <1>5 DEF Next

(* The invariant holds in every reachable state.                           *)
THEOREM InvHolds == Spec => []IInv
  BY TypeCorrect, InvInit, InvStep, PTL DEF Spec

(* No subscription is taken out of the map by two disconnects, and what a  *)
(* disconnect closes was still open (router.go:56-68).                     *)
THEOREM ClosedOnce == Spec => []HeldOnce
<1>1. IInv => HeldOnce
  BY DEF IInv
<1>. QED
  BY InvHolds, <1>1, PTL

(* A user with a running connection keeps an open subscription, however    *)
(* many logins and logouts of the user overlap (router.go:39-68).          *)
THEOREM StaysSubscribed == Spec => []StillSubscribed
<1>1. IInv => StillSubscribed
  <2> SUFFICES ASSUME IInv, NEW c \in Clients, stage[c] = "subscribed"
               PROVE  OpenOf(UserOf[c]) # {}
    BY DEF StillSubscribed
  <2> DEFINE u == UserOf[c]
  <2>1. IsFiniteSet(OpenOf(u)) /\ IsFiniteSet(ConnectionsOf(u))
    BY SetsAreFinite DEF IInv
  <2>2. c \in ConnectionsOf(u)
    BY DEF ConnectionsOf
  <2>3. Cardinality(ConnectionsOf(u)) \in Nat /\ Cardinality(ConnectionsOf(u)) # 0
    BY <2>1, <2>2, FS_EmptySet, FS_CardinalityType
  <2>4. u \in Users /\ Cardinality(ConnectionsOf(u)) <= Cardinality(OpenOf(u))
    BY UserOfAssumption DEF IInv, EnoughOpen
  <2>5. Cardinality(OpenOf(u)) \in Nat /\ Cardinality(OpenOf(u)) # 0
    BY <2>1, <2>3, <2>4, FS_CardinalityType
  <2>. QED
    BY <2>5, FS_EmptySet
<1>. QED
  BY InvHolds, <1>1, PTL
=============================================================================
