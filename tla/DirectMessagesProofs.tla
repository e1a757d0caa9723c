------------------------ MODULE DirectMessagesProofs ------------------------
(***************************************************************************)
(* Theorems about module DirectMessages: for any number of users,           *)
(* connections, processes and messages, whatever fails; and that the hub    *)
(* and the router of every process are those of modules Hub and Router.     *)
(***************************************************************************)
EXTENDS DirectMessages, SequenceTheorems, WellFoundedInduction, TLAPS

-----------------------------------------------------------------------------
(* A nonempty set of natural numbers has a least element.                 *)
LEMMA NatLeast ==
  ASSUME NEW T, T \subseteq Nat, T # {}
  PROVE  \E n \in T : \A k \in T : ~(k < n)
<1> DEFINE less == OpToRel(<, Nat)
<1>1. IsWellFoundedOn(less, Nat)
  BY NatLessThanWellFounded
<1>2. \E x \in T : \A y \in T : ~ (<<y, x>> \in less)
  BY <1>1, WFMin
<1>3. \A y, x \in Nat : y < x => <<y, x>> \in less
  BY DEF OpToRel
<1>. QED
  BY <1>2, <1>3

(* Induction, stated of a set of numbers instead of a predicate: a theorem *)
(* whose parameter is an operator is out of the provers' reach.            *)
LEMMA SetInduction ==
  ASSUME NEW T, T \subseteq Nat, 0 \in T, \A n \in T : n + 1 \in T
  PROVE  T = Nat
<1>1. SUFFICES ASSUME Nat \ T # {}
               PROVE  FALSE
  OBVIOUS
<1>2. PICK n \in Nat \ T : \A k \in Nat \ T : ~(k < n)
  <2>1. Nat \ T \subseteq Nat
    OBVIOUS
  <2>. QED
    BY <1>1, <2>1, NatLeast
<1>3. n # 0 /\ n - 1 \in Nat /\ n - 1 < n
  BY <1>2
<1>4. n - 1 \in T
  BY <1>2, <1>3
<1>. QED
  BY <1>2, <1>3, <1>4

-----------------------------------------------------------------------------
(* Sequences and their elements.                                           *)

(* What Select adds for the element x.                                     *)
Chosen(rows, x, S) == IF x \in S THEN Append(rows, x) ELSE rows

(* f[n] is what Select takes from the first n elements of s, for n <= N.   *)
Selects(f, s, S, N) ==
    f = [n \in 0..N |-> IF n = 0 THEN <<>> ELSE Chosen(f[n - 1], s[n], S)]

(* The recursive function by which Select is defined exists.               *)
LEMMA SelectsExists ==
  ASSUME NEW s, NEW S, NEW N \in Nat
  PROVE  \E f : Selects(f, s, S, N)
<1> DEFINE T == {n \in Nat : \E f : Selects(f, s, S, n)}
<1>1. 0 \in T
  <2> DEFINE f == [n \in 0..0 |-> <<>>]
  <2>1. Selects(f, s, S, 0)
    BY DEF Selects
  <2>. QED
    BY <2>1
<1>2. ASSUME NEW n \in T
      PROVE  n + 1 \in T
  <2>1. n \in Nat /\ \E f : Selects(f, s, S, n)
    OBVIOUS
  <2>2. PICK f : Selects(f, s, S, n)
    BY <2>1
  <2> DEFINE g == [k \in 0..(n + 1) |->
                     IF k = n + 1 THEN Chosen(f[n], s[n + 1], S) ELSE f[k]]
  <2>3. \A k \in 0..n : f[k] = IF k = 0 THEN <<>> ELSE Chosen(f[k - 1], s[k], S)
    BY <2>1, <2>2 DEF Selects
  <2>4. \A k \in 0..(n + 1) : g[k] = IF k = 0 THEN <<>> ELSE Chosen(g[k - 1], s[k], S)
    BY <2>1, <2>3
  <2>5. g = [k \in 0..(n + 1) |-> IF k = 0 THEN <<>> ELSE Chosen(g[k - 1], s[k], S)]
    BY <2>1, <2>4
  <2>6. Selects(g, s, S, n + 1)
    BY <2>5 DEF Selects
  <2> HIDE DEF g
  <2>. QED
    BY <2>1, <2>6
<1>3. T = Nat
  <2>1. T \subseteq Nat
    OBVIOUS
  <2> HIDE DEF T
  <2>. QED
    BY <1>1, <1>2, <2>1, SetInduction
<1>. QED
  BY <1>3

(* Select is the last value of that function.                              *)
LEMMA SelectDef ==
  ASSUME NEW s, NEW S, Len(s) \in Nat
  PROVE  \E f : Selects(f, s, S, Len(s)) /\ Select(s, S) = f[Len(s)]
<1> DEFINE f == CHOOSE g : g = [n \in 0..Len(s) |->
                    IF n = 0 THEN <<>>
                    ELSE IF s[n] \in S THEN Append(g[n - 1], s[n]) ELSE g[n - 1]]
<1>1. Select(s, S) = f[Len(s)]
  BY DEF Select
<1>2. \E g : Selects(g, s, S, Len(s))
  BY SelectsExists
<1>3. Selects(f, s, S, Len(s))
  BY <1>2 DEF Selects, Chosen
<1>. QED
  BY <1>1, <1>3

(* The elements of a sequence with one more at its end.                    *)
LEMMA ToSetAppend ==
  ASSUME NEW M, NEW s \in Seq(M), NEW e \in M
  PROVE  Append(s, e) \in Seq(M) /\ ToSet(Append(s, e)) = ToSet(s) \union {e}
<1>1. /\ Append(s, e) \in Seq(M) /\ Len(Append(s, e)) = Len(s) + 1
      /\ \A i \in 1..Len(s) : Append(s, e)[i] = s[i]
      /\ Append(s, e)[Len(s) + 1] = e
  BY AppendProperties
<1>2. /\ Len(s) \in Nat /\ DOMAIN s = 1..Len(s)
      /\ DOMAIN Append(s, e) = 1..(Len(s) + 1)
  BY <1>1, LenProperties
<1> HIDE DEF Append
<1>. QED
  BY <1>1, <1>2 DEF ToSet

(* The elements of a sequence are in the set it is a sequence over.        *)
LEMMA ToSetMember ==
  ASSUME NEW M, NEW s \in Seq(M)
  PROVE  ToSet(s) \subseteq M
BY LenProperties, ElementOfSeq DEF ToSet

(* The elements of a sequence are its first and those of the rest.         *)
LEMMA ToSetHeadTail ==
  ASSUME NEW M, NEW s \in Seq(M), s # <<>>
  PROVE  /\ Head(s) \in M /\ Tail(s) \in Seq(M) /\ Len(Tail(s)) = Len(s) - 1
         /\ ToSet(s) = ToSet(Tail(s)) \union {Head(s)}
<1>1. /\ Head(s) \in M /\ Tail(s) \in Seq(M) /\ Len(Tail(s)) = Len(s) - 1
      /\ \A i \in 1..Len(Tail(s)) : Tail(s)[i] = s[i + 1]
  BY HeadTailProperties
<1>2. /\ Len(s) \in Nat \ {0} /\ DOMAIN s = 1..Len(s)
      /\ DOMAIN Tail(s) = 1..(Len(s) - 1)
      /\ Head(s) = s[1]
  BY <1>1, LenProperties, EmptySeq
<1>3. \A i \in 2..Len(s) : Tail(s)[i - 1] = s[i] /\ i - 1 \in DOMAIN Tail(s)
  BY <1>1, <1>2
<1>4. ToSet(s) \subseteq ToSet(Tail(s)) \union {Head(s)}
  <2>1. ASSUME NEW i \in 2..Len(s)
        PROVE  s[i] \in ToSet(Tail(s))
    BY <1>3 DEF ToSet
  <2>. QED
    BY <1>2, <2>1 DEF ToSet
<1>5. ToSet(Tail(s)) \union {Head(s)} \subseteq ToSet(s)
  BY <1>1, <1>2 DEF ToSet
<1>. QED
  BY <1>1, <1>4, <1>5

(* The first elements of a sequence are elements of it.                    *)
LEMMA ToSetSubSeq ==
  ASSUME NEW M, NEW s \in Seq(M), NEW n \in Nat, n <= Len(s)
  PROVE  /\ SubSeq(s, 1, n) \in Seq(M)
         /\ ToSet(SubSeq(s, 1, n)) \subseteq ToSet(s)
<1>1. Len(s) \in Nat /\ DOMAIN s = 1..Len(s) /\ \A i \in 1..n : s[i] \in M
  BY LenProperties, ElementOfSeq
<1>2. /\ SubSeq(s, 1, n) \in Seq(M)
      /\ Len(SubSeq(s, 1, n)) = n
      /\ \A i \in 1..n : SubSeq(s, 1, n)[i] = s[i]
  BY <1>1, SubSeqProperties
<1>. QED
  BY <1>1, <1>2, LenProperties DEF ToSet

(* Select(s, S) holds exactly the elements of s that are in S, so the      *)
(* query for the pending rows (messages.go:82-88) omits none of them.      *)
LEMMA SelectProperties ==
  ASSUME NEW M, NEW s \in Seq(M), NEW S
  PROVE  /\ Select(s, S) \in Seq(M)
         /\ ToSet(Select(s, S)) = ToSet(s) \intersect S
<1>0. Len(s) \in Nat /\ DOMAIN s = 1..Len(s) /\ \A i \in 1..Len(s) : s[i] \in M
  BY LenProperties, ElementOfSeq
<1>1. PICK f : Selects(f, s, S, Len(s)) /\ Select(s, S) = f[Len(s)]
  BY <1>0, SelectDef
<1>2. \A k \in 0..Len(s) : f[k] = IF k = 0 THEN <<>> ELSE Chosen(f[k - 1], s[k], S)
  BY <1>0, <1>1 DEF Selects
<1> DEFINE P(n) == /\ f[n] \in Seq(M)
                   /\ ToSet(f[n]) = {s[i] : i \in 1..n} \intersect S
           T == {n \in Nat : n <= Len(s) => P(n)}
<1>3. 0 \in T
  <2>1. f[0] = <<>>
    BY <1>0, <1>2
  <2>2. f[0] \in Seq(M) /\ ToSet(f[0]) = {}
    BY <2>1, EmptySeq DEF ToSet
  <2>. QED
    BY <2>2
<1>4. ASSUME NEW n \in T
      PROVE  n + 1 \in T
  <2>1. SUFFICES ASSUME n + 1 <= Len(s)
                 PROVE  P(n + 1)
    OBVIOUS
  <2>2. n \in Nat /\ P(n)
    BY <1>0, <2>1
  <2>3. f[n + 1] = Chosen(f[n], s[n + 1], S)
    BY <1>0, <1>2, <2>1, <2>2
  <2>4. s[n + 1] \in M
    BY <1>0, <2>1, <2>2
  <2>5. ToSet(Append(f[n], s[n + 1])) = ToSet(f[n]) \union {s[n + 1]}
        /\ Append(f[n], s[n + 1]) \in Seq(M)
    BY <2>2, <2>4, ToSetAppend
  <2>6. {s[i] : i \in 1..(n + 1)} = {s[i] : i \in 1..n} \union {s[n + 1]}
    BY <2>2
  <2>. QED
    BY <2>2, <2>3, <2>4, <2>5, <2>6 DEF Chosen
<1>5. T = Nat
  <2>1. T \subseteq Nat
    OBVIOUS
  <2> HIDE DEF T
  <2>. QED
    BY <1>3, <1>4, <2>1, SetInduction
<1>6. Len(s) \in T
  BY <1>0, <1>5
<1>7. P(Len(s))
  BY <1>0, <1>6
<1>. QED
  BY <1>0, <1>1, <1>7 DEF ToSet

-----------------------------------------------------------------------------
(* The variables of a goroutine are no more than their parts.              *)
USE DEF localVars

(* An acknowledgement for somebody; and what leaves no trace but in the    *)
(* database: the insert whose reply is lost and the silent acknowledgement.*)
AckAny(c, m) == \E u \in Users : AckRead(c, m, u)
QuietStep(c) == \E m \in Messages : InsertLost(c, m) \/ AckSilently(c, m)

-----------------------------------------------------------------------------
(* The inductive invariant.  First, who has which message in hand: a       *)
(* goroutine that sends has one, and the connect hook has the first of the *)
(* rows it has still to push.                                              *)
WithMessage == SendLabels \union {"row_mark", "dm_mark", "dm_publish", "ack_publish"}

InHand ==
    /\ \A c \in Clients :
          /\ pc[c] \in WithMessage => cur[c] \in Messages
          /\ pc[c] \in {"row_send", "row_mark"} => todo[c] # <<>> /\ cur[c] = Head(todo[c])
    /\ \A g \in Goroutines : call[g] # Idle => Sending(g)

(* Where a client is found: under its own user, in its own process, and    *)
(* only once it has registered.                                            *)
Located ==
    /\ \A i \in Instances, u \in Users : clients[i][u] # NoClient =>
          /\ UserOf[clients[i][u]] = u /\ InstanceOf[clients[i][u]] = i
          /\ pc[clients[i][u]] # "new"
    /\ \A g \in Goroutines : call[g] # Idle =>
          /\ UserOf[call[g].to] = Target(g) /\ InstanceOf[call[g].to] = InstanceOf[g[1]]
          /\ pc[call[g].to] # "new"

(* A frame fits where it is: a read receipt where an acknowledgement of    *)
(* the message sent it, any other with the users of its row.  Redis        *)
(* carries no acknowledgements, and messages to their receiver only.       *)
Fits(c, f) ==
    /\ f.kind # "read" => db[f.msg] # "absent"
    /\ f.kind = "sent" => UserOf[c] = SenderOf[f.msg]
    /\ f.kind = "read" => UserOf[c] \in named[f.msg]
    /\ f.kind = "message" => UserOf[c] \in {ReceiverOf[f.msg], MemberOf[f.msg]}

ViaRedis(c, f) ==
    f.kind # "sent" /\ (f.kind = "message" => UserOf[c] = ReceiverOf[f.msg])

Acking == {"ack_notify", "ack_publish"}

FramesInv ==
    \A c \in Clients :
        /\ \A f \in ToSet(chan[c]) : Fits(c, f)
        /\ \A f \in ToSet(inbox[c]) : Fits(c, f) /\ ViaRedis(c, f)
        /\ carried[c] # NoFrame => Fits(c, carried[c]) /\ ViaRedis(c, carried[c])
        /\ \A m \in ToSet(todo[c]) : db[m] # "absent" /\ MemberOf[m] = UserOf[c]
        /\ pc[c] \in WithMessage \ Acking => db[cur[c]] # "absent"
        /\ pc[c] \in Acking => ackTo[c] \in named[cur[c]]

(* HandleDM comes to its acknowledgement only past a push or a publish.    *)
Routed(m) == handed[m] > 0 \/ m \in published

RoutedInv ==
    /\ \A c \in Clients : pc[c] \in {"dm_mark", "dm_ack"} => Routed(cur[c])
    /\ AckedWasRouted

(* Before a connection registers, and before it subscribes, it has left    *)
(* nothing behind.                                                         *)
Untouched ==
    \A c \in Clients :
        /\ pc[c] = "new" => chan[c] = <<>>
        /\ pc[c] \in {"new", "hook", "dead"} => c \notin open /\ inbox[c] = <<>>
        /\ pc[c] # "closing" => held[c] = NoClient
        /\ held[c] # NoClient => InstanceOf[held[c]] = InstanceOf[c]

SubsLocated ==
    \A i \in Instances, u \in Users : subs[i][u] # NoClient => InstanceOf[subs[i][u]] = i

(* Why no message falls between its handler and the receiver's connect     *)
(* hook.  What is pending was stored, and before it is stored it has       *)
(* neither a handler nor a place in the queue; what is being sent was not  *)
(* queued.                                                                 *)
RowsInv ==
    /\ \A m \in Messages :
          /\ db[m] = "sent" => m \in ToSet(stored)
          /\ db[m] = "absent" => handler[m] = NoClient /\ m \notin ToSet(Queued)
    /\ \A c \in Clients : pc[c] = "dm_send" => cur[c] \notin ToSet(Queued)

(* What the connect hook of c would fetch: all of PendingFor, and the      *)
(* notes that were sent since by the other member of a chat.               *)
Fetchable(c, m) == db[m] = "sent" /\ MemberOf[m] = UserOf[c]

(* A connection that caught up is past its fetch; its hook calls its own   *)
(* channel as long as it is current, and then marks only what it pushed.   *)
HookInv ==
    \A c \in Clients :
        /\ c \in caughtUp => pc[c] \notin {"new", "hook", "opened", "fetch"}
        /\ Current(c) /\ pc[c] = "row_mark" => handed[cur[c]] > 0
        /\ Current(c) /\ pc[c] = "row_send" /\ call[<<c, "conn">>] # Idle =>
              call[<<c, "conn">>].to = c

(* A handler whose lookup found another client than the current one looked *)
(* up before that one registered, so the message was stored before it      *)
(* fetched.                                                                *)
HandlerInv ==
    \A h \in Clients, c \in caughtUp :
        /\ pc[h] = "dm_send" /\ call[<<h, "conn">>] # Idle
        /\ Current(c) /\ PendingFor(c, cur[h]) /\ InstanceOf[h] = InstanceOf[c]
        => \/ call[<<h, "conn">>].to = c
           \/ handed[cur[h]] > 0
           \/ cur[h] \in ToSet(todo[c])

IInv ==
    /\ TypeOK /\ InHand /\ Located
    /\ FramesInv /\ RoutedInv
    /\ Untouched /\ SubsLocated
    /\ RowsInv /\ HookInv /\ HandlerInv /\ NoneStranded

-----------------------------------------------------------------------------
(* Types.                                                                  *)

(* A goroutine that sends has a user to send to and a frame to send.       *)
LEMMA SendingHasFrame ==
  ASSUME TypeOK, InHand, NEW g \in Goroutines, Sending(g)
  PROVE  /\ g[1] \in Clients /\ g[2] \in {"conn", "fwd"} /\ g = <<g[1], g[2]>>
         /\ Target(g) \in Users
         /\ FrameIn(g) \in Frame
         /\ Found(g) \in Clients \union {NoClient}
<1> USE UserOfAssumption, InstanceOfAssumption, MessagesAssumption
<1>1. g[1] \in Clients /\ g[2] \in {"conn", "fwd"} /\ g = <<g[1], g[2]>>
  BY DEF Goroutines
<1>2. g[2] # "fwd" => pc[g[1]] \in SendLabels /\ cur[g[1]] \in Messages
  BY <1>1 DEF Sending, InHand, WithMessage
<1>3. Target(g) \in Users
  BY <1>1, <1>2 DEF Target, TypeOK
<1>4. FrameIn(g) \in Frame
  BY <1>1, <1>2 DEF Sending, FrameIn, TypeOK, Frame
<1>5. Found(g) \in Clients \union {NoClient}
  BY <1>1, <1>3 DEF Found, TypeOK
<1>. QED
  BY <1>1, <1>3, <1>4, <1>5

(* What the return of a send changes: its goroutine alone goes on.         *)
LEMMA ReturnEffect ==
  ASSUME TypeOK, InHand, NEW g \in Goroutines, Sending(g), NEW ok \in BOOLEAN,
         Return(g, ok)
  PROVE  /\ call' = [call EXCEPT ![g] = Idle]
         /\ call' \in [Goroutines -> {Idle} \union [step : {"found", "full"}, to : Clients]]
         /\ pc' \in [Clients -> Pcs]
         /\ carried' \in [Clients -> Frame \union {NoFrame}]
         /\ g[2] = "fwd" => pc' = pc /\ carried' = [carried EXCEPT ![g[1]] = NoFrame]
         /\ g[2] = "conn" => /\ carried' = carried
                             /\ pc' = [pc EXCEPT ![g[1]] = After(pc[g[1]], ok)]
                             /\ pc[g[1]] \in SendLabels
<1>1. g[1] \in Clients /\ g[2] \in {"conn", "fwd"}
  BY SendingHasFrame
<1>2. call' = [call EXCEPT ![g] = Idle]
  BY DEF Return
<1>3. CASE g[2] = "fwd"
  BY <1>1, <1>2, <1>3 DEF Return, TypeOK
<1>4. CASE g[2] = "conn"
  <2>1. pc[g[1]] \in SendLabels
    BY <1>4 DEF Sending
  <2>2. After(pc[g[1]], ok) \in Pcs
    BY <2>1 DEF After, SendLabels, Pcs, InHook, Serving
  <2>. QED
    BY <1>1, <1>2, <1>4, <2>1, <2>2 DEF Return, Goto, TypeOK
<1>. QED
  BY <1>1, <1>3, <1>4

(* Unregister changes the hub alone.                                       *)
LEMMA UnregisterType ==
  ASSUME TypeOK, NEW c \in Clients, Unregister(c)
  PROVE  /\ clients' \in [Instances -> [Users -> Clients \union {NoClient}]]
         /\ closes' \in [Clients -> Nat]
<1>1. CASE Current(c)
  <2>1. UserOf[c] \in Users /\ InstanceOf[c] \in Instances
    BY UserOfAssumption, InstanceOfAssumption
  <2>2. /\ clients' = [clients EXCEPT ![InstanceOf[c]][UserOf[c]] = NoClient]
        /\ closes' = [closes EXCEPT ![c] = @ + 1]
    BY <1>1 DEF Unregister
  <2>. QED
    BY <2>1, <2>2 DEF TypeOK
<1>2. CASE ~Current(c)
  BY <1>2 DEF TypeOK, Unregister
<1>. QED
  BY <1>1, <1>2

(* A process that ends resets the connections it had.                      *)
LEMMA ProcessEndsType ==
  ASSUME TypeOK, NEW i \in Instances, ProcessEnds(i)
  PROVE  TypeOK'
<1> DEFINE Dies(c) == InstanceOf[c] = i /\ pc[c] # "new"
<1>1. /\ clients' \in [Instances -> [Users -> Clients \union {NoClient}]]
      /\ subs' \in [Instances -> [Users -> Clients \union {NoClient}]]
  BY DEF TypeOK, ProcessEnds
<1>2. open' \subseteq Clients /\ listening' \subseteq open'
  BY DEF TypeOK, ProcessEnds
<1>3. chan' \in [Clients -> Seq(Frame)] /\ inbox' \in [Clients -> Seq(Frame)]
  BY EmptySeq DEF TypeOK, ProcessEnds
<1>4. /\ held' \in [Clients -> Clients \union {NoClient}]
      /\ carried' \in [Clients -> Frame \union {NoFrame}]
      /\ cur' \in [Clients -> Messages \union {NoMsg}]
  BY DEF TypeOK, ProcessEnds
<1>5. todo' \in [Clients -> Seq(Messages)]
  BY EmptySeq DEF TypeOK, ProcessEnds
<1>6. pc' \in [Clients -> Pcs]
  BY DEF TypeOK, ProcessEnds, Pcs
<1>7. call' \in [Goroutines -> {Idle} \union [step : {"found", "full"}, to : Clients]]
  BY DEF TypeOK, ProcessEnds
<1>. QED
  BY <1>1, <1>2, <1>3, <1>4, <1>5, <1>6, <1>7
  DEF TypeOK, ProcessEnds, dbVars, history

(* The steps of Hub.Send.                                                  *)
LEMMA SendType ==
  ASSUME TypeOK, InHand, NEW g \in Goroutines, SendStep(g)
  PROVE  TypeOK'
<1> USE DEF dbVars, hubVars, subVars, history
<1>0. call[g] # Idle => Sending(g) /\ call[g].to \in Clients
  BY DEF TypeOK, InHand
<1>1. CASE LookupNone(g)
  BY <1>1, ReturnEffect DEF LookupNone, TypeOK
<1>2. CASE Lookup(g)
  <2>1. Found(g) \in Clients
    BY <1>2, SendingHasFrame DEF Lookup
  <2>2. call' \in [Goroutines -> {Idle} \union [step : {"found", "full"}, to : Clients]]
    BY <1>2, <2>1 DEF Lookup, TypeOK
  <2>. QED
    BY <1>2, <2>2 DEF Lookup, TypeOK
<1>3. CASE Push(g)
  <2>1. call[g] # Idle
    BY <1>3 DEF Push, Idle
  <2>2. Sending(g) /\ call[g].to \in Clients /\ FrameIn(g) \in Frame
    BY <1>0, <2>1, SendingHasFrame
  <2>3. chan' \in [Clients -> Seq(Frame)]
    BY <1>3, <2>2, ToSetAppend DEF Push, TypeOK
  <2>4. handed' \in [Messages -> Nat]
    BY <1>3, <2>2 DEF Push, TypeOK, Frame
  <2>5. Return(g, TRUE)
    BY <1>3 DEF Push
  <2>. QED
    BY <1>3, <2>2, <2>3, <2>4, <2>5, ReturnEffect DEF Push, TypeOK
<1>4. CASE PushFull(g)
  <2>1. call[g] # Idle
    BY <1>4 DEF PushFull, Idle
  <2>2. call' \in [Goroutines -> {Idle} \union [step : {"found", "full"}, to : Clients]]
    BY <1>0, <1>4, <2>1 DEF PushFull, TypeOK
  <2>. QED
    BY <1>4, <2>2 DEF PushFull, TypeOK
<1>5. CASE Evict(g)
  <2>1. call[g] # Idle
    BY <1>5 DEF Evict, Idle
  <2>2. Sending(g) /\ call[g].to \in Clients /\ Unregister(call[g].to) /\ Return(g, FALSE)
    BY <1>0, <1>5, <2>1 DEF Evict
  <2>. QED
    BY <1>5, <2>2, UnregisterType, ReturnEffect DEF Evict, TypeOK
<1>6. CASE PushClosed(g)
  <2>1. call[g] # Idle
    BY <1>6 DEF PushClosed, Idle
  <2>2. g[1] \in Clients /\ InstanceOf[g[1]] \in Instances
    BY <1>0, <2>1, SendingHasFrame, InstanceOfAssumption
  <2>3. CASE g[2] = "conn" /\ pc[g[1]] = "row_send"
    <3>1. pc' \in [Clients -> Pcs]
      BY <1>6, <2>2, <2>3 DEF PushClosed, Goto, TypeOK, Pcs
    <3>2. call' \in [Goroutines -> {Idle} \union [step : {"found", "full"}, to : Clients]]
      BY <1>6, <2>3 DEF PushClosed, TypeOK
    <3>. QED
      BY <1>6, <2>3, <3>1, <3>2 DEF PushClosed, TypeOK
  <2>4. CASE ~(g[2] = "conn" /\ pc[g[1]] = "row_send")
    BY <1>6, <2>2, <2>4, ProcessEndsType DEF PushClosed
  <2>. QED
    BY <2>3, <2>4
<1>. QED
  BY <1>1, <1>2, <1>3, <1>4, <1>5, <1>6 DEF SendStep

(* What the connect hook fetches: rows that are pending for its user, and  *)
(* all of them unless there are more than the limit.                       *)
LEMMA FetchedRows ==
  ASSUME TypeOK, NEW c \in Clients, Fetch(c)
  PROVE  \E rows \in Seq(Messages) :
            /\ NextRow(c, rows)
            /\ \A m \in ToSet(rows) : m \in Messages /\ Fetchable(c, m)
            /\ \/ \A m \in ToSet(stored) : Fetchable(c, m) => m \in ToSet(rows)
               \/ caughtUp' = caughtUp
<1> DEFINE all == Pending(UserOf[c])
           some == SubSeq(all, 1, PendingLimit)
<1>1. /\ all \in Seq(Messages)
      /\ ToSet(all) = ToSet(stored) \intersect
                        {m \in Messages : /\ db[m] = "sent"
                                          /\ MemberOf[m] = UserOf[c] /\ SenderOf[m] # UserOf[c]}
  BY SelectProperties DEF TypeOK, Pending
<1>2. ToSet(stored) \subseteq Messages
  BY ToSetMember DEF TypeOK
<1>3. ToSet(all) = {m \in ToSet(stored) : Fetchable(c, m)}
  BY <1>1, <1>2, MembersAssumption DEF Fetchable
<1> HIDE DEF all
<1>4. CASE Len(all) <= PendingLimit
  BY <1>1, <1>2, <1>3, <1>4 DEF Fetch, all
<1>5. CASE ~(Len(all) <= PendingLimit)
  <2>1. Len(all) \in Nat /\ PendingLimit \in Nat /\ PendingLimit <= Len(all)
    BY <1>1, <1>5, LenProperties, BoundsAssumption
  <2>2. some \in Seq(Messages) /\ ToSet(some) \subseteq ToSet(all)
    BY <1>1, <2>1, ToSetSubSeq
  <2>3. NextRow(c, some) /\ caughtUp' = caughtUp
    BY <1>5 DEF Fetch, all
  <2>. QED
    BY <1>2, <1>3, <2>2, <2>3
<1>. QED
  BY <1>4, <1>5

(* The steps of the connect hook.                                          *)
LEMMA HookType ==
  ASSUME TypeOK, InHand, NEW c \in Clients,
         \/ Register(c) \/ OpenSub(c) \/ StoreSub(c)
         \/ Fetch(c) \/ FetchError(c) \/ RowMark(c)
  PROVE  TypeOK'
<1> USE UserOfAssumption, InstanceOfAssumption
    DEF TypeOK, Pcs, InHook, Serving, Goto, dbVars, hubVars, subVars, history
<1>0. UserOf[c] \in Users /\ InstanceOf[c] \in Instances
  OBVIOUS
<1>1. CASE Register(c)
  BY <1>0, <1>1 DEF Register
<1>2. CASE StoreSub(c)
  BY <1>0, <1>2 DEF StoreSub
<1>3. CASE OpenSub(c) \/ FetchError(c)
  BY <1>3 DEF OpenSub, FetchError
<1>4. ASSUME NEW rows \in Seq(Messages), NextRow(c, rows)
      PROVE  /\ todo' \in [Clients -> Seq(Messages)]
             /\ cur' \in [Clients -> Messages \union {NoMsg}]
             /\ pc' \in [Clients -> Pcs]
  BY <1>4, ToSetHeadTail DEF NextRow
<1>5. CASE Fetch(c)
  <2>1. PICK rows \in Seq(Messages) : NextRow(c, rows)
    BY <1>5, FetchedRows DEF Fetch
  <2>. QED
    BY <1>4, <1>5, <2>1 DEF Fetch
<1>6. CASE RowMark(c)
  <2>1. cur[c] \in Messages /\ todo[c] # <<>>
    BY <1>6 DEF RowMark, InHand, WithMessage
  <2>2. Tail(todo[c]) \in Seq(Messages)
    BY <2>1, ToSetHeadTail
  <2>3. NextRow(c, Tail(todo[c])) /\ MarkDelivered(cur[c])
    BY <1>6 DEF RowMark
  <2>4. db' \in [Messages -> {"absent", "sent", "delivered", "read"}]
    BY <2>1, <2>3 DEF MarkDelivered, Mark, MarkRead
  <2>. QED
    BY <1>4, <1>6, <2>2, <2>3, <2>4 DEF RowMark
<1>. QED
  BY <1>1, <1>2, <1>3, <1>5, <1>6

(* The steps of HandleDM and HandleAck.                                    *)
LEMMA HandlerType ==
  ASSUME TypeOK, InHand, NEW c \in Clients,
         \/ DmMark(c) \/ DmPublish(c) \/ DmPublishError(c) \/ AckPublish(c)
         \/ \E m \in Messages : Insert(c, m) \/ AckAny(c, m)
         \/ QuietStep(c)
  PROVE  TypeOK'
<1> USE DEF TypeOK, Pcs, InHook, Serving, Goto, dbVars, hubVars, subVars, history
<1>1. CASE DmMark(c)
  <2>1. cur[c] \in Messages
    BY <1>1 DEF DmMark, InHand, WithMessage
  <2>. QED
    BY <1>1, <2>1 DEF DmMark, MarkDelivered, Mark, MarkRead
<1>2. ASSUME NEW u, NEW f \in Frame, Publish(u, f)
      PROVE  inbox' \in [Clients -> Seq(Frame)]
  BY <1>2, ToSetAppend DEF Publish
<1>3. CASE DmPublish(c)
  <2>1. cur[c] \in Messages
    BY <1>3 DEF DmPublish, InHand, WithMessage
  <2>2. [kind |-> "message", msg |-> cur[c]] \in Frame
    BY <2>1 DEF Frame
  <2>. QED
    BY <1>2, <1>3, <2>1, <2>2 DEF DmPublish
<1>4. CASE DmPublishError(c)
  BY <1>4 DEF DmPublishError
<1>5. CASE AckPublish(c)
  <2>1. cur[c] \in Messages
    BY <1>5 DEF AckPublish, InHand, WithMessage
  <2>2. [kind |-> "read", msg |-> cur[c]] \in Frame
    BY <2>1 DEF Frame
  <2>3. inbox' \in [Clients -> Seq(Frame)]
    BY <1>2, <1>5, <2>2 DEF AckPublish
  <2>. QED
    BY <1>5, <2>3 DEF AckPublish
<1>6. ASSUME NEW m \in Messages,
             Insert(c, m) \/ AckAny(c, m) \/ InsertLost(c, m) \/ AckSilently(c, m)
      PROVE  TypeOK'
  <2>1. CASE Insert(c, m)
    BY <2>1, ToSetAppend DEF Insert, InsertRow, Mark, MarkRead
  <2>2. CASE InsertLost(c, m)
    BY <2>2, ToSetAppend DEF InsertLost, InsertRow, Mark
  <2>3. ASSUME MarkRead(m)
        PROVE  db' \in [Messages -> {"absent", "sent", "delivered", "read"}]
    BY <2>3 DEF MarkRead, Mark
  <2>4. CASE AckAny(c, m)
    <3>1. PICK u \in Users : AckRead(c, m, u)
      BY <2>4 DEF AckAny
    <3>2. /\ ackTo' = [ackTo EXCEPT ![c] = u] /\ cur' = [cur EXCEPT ![c] = m]
          /\ named' = [named EXCEPT ![m] = @ \union {u}]
          /\ pc' = [pc EXCEPT ![c] = "ack_notify"]
      BY <3>1 DEF AckRead
    <3>3. ackTo' \in [Clients -> Users] /\ named' \in [Messages -> SUBSET Users]
      BY <3>2
    <3>. QED
      BY <2>3, <3>1, <3>2, <3>3 DEF AckRead
  <2>5. CASE AckSilently(c, m)
    BY <2>3, <2>5 DEF AckSilently
  <2>. QED
    BY <1>6, <2>1, <2>2, <2>4, <2>5
<1>. QED
  BY <1>1, <1>3, <1>4, <1>5, <1>6 DEF QuietStep

(* The steps of the write pump, of the disconnect and of Redis.            *)
LEMMA OtherType ==
  ASSUME TypeOK, NEW c \in Clients,
         \/ Write(c) \/ Disconnect(c) \/ Leave(c) \/ TakeSub(c) \/ CloseSub(c)
         \/ Confirm(c) \/ LoseRedis(c) \/ Forward(c)
  PROVE  TypeOK'
<1> USE UserOfAssumption, InstanceOfAssumption
    DEF TypeOK, Pcs, InHook, Serving, Goto, dbVars, hubVars, subVars, history
<1>1. CASE Write(c)
  BY <1>1, ToSetHeadTail DEF Write
<1>2. CASE Disconnect(c)
  BY <1>2 DEF Disconnect
<1>3. CASE Leave(c)
  BY <1>3, UnregisterType DEF Leave
<1>4. CASE TakeSub(c)
  BY <1>4 DEF TakeSub, Sub
<1>5. CASE CloseSub(c)
  BY <1>5 DEF CloseSub
<1>6. CASE Confirm(c) \/ LoseRedis(c)
  BY <1>6 DEF Confirm, LoseRedis
<1>7. CASE Forward(c)
  <2>1. Head(inbox[c]) \in Frame /\ Tail(inbox[c]) \in Seq(Frame)
    BY <1>7, ToSetHeadTail DEF Forward
  <2>. QED
    BY <1>7, <2>1 DEF Forward
<1>. QED
  BY <1>1, <1>2, <1>3, <1>4, <1>5, <1>6, <1>7

(* Every step keeps the types.                                             *)
LEMMA TypeStep ==
  ASSUME TypeOK, InHand, [Next]_vars
  PROVE  TypeOK'
<1>1. CASE UNCHANGED vars
  BY <1>1 DEF vars, dbVars, hubVars, subVars, history, TypeOK
<1>2. ASSUME NEW i \in Instances, Crash(i)
      PROVE  TypeOK'
  BY <1>2, ProcessEndsType DEF Crash
<1>. QED
  BY <1>1, <1>2, SendType, HookType, HandlerType, OtherType DEF Next, QuietStep, AckAny

-----------------------------------------------------------------------------
(* Messages in hand.                                                       *)

(* A goroutine is a connection with its role.                              *)
LEMMA GoroutinePairs ==
  /\ \A g \in Goroutines : g[1] \in Clients /\ g[2] \in {"conn", "fwd"}
  /\ \A g, h \in Goroutines : g[1] = h[1] /\ g[2] = h[2] => g = h
  /\ \A c \in Clients, r \in {"conn", "fwd"} :
        <<c, r>> \in Goroutines /\ <<c, r>>[1] = c /\ <<c, r>>[2] = r
BY DEF Goroutines

(* A process that ends takes everything out of its goroutines' hands.      *)
LEMMA ProcessEndsInHand ==
  ASSUME TypeOK, InHand, NEW i \in Instances, ProcessEnds(i)
  PROVE  InHand'
<1> USE DEF WithMessage, SendLabels
<1>1. ASSUME NEW c \in Clients
      PROVE  /\ pc'[c] \in WithMessage => cur'[c] \in Messages
             /\ pc'[c] \in {"row_send", "row_mark"} => todo'[c] # <<>> /\ cur'[c] = Head(todo'[c])
  BY DEF ProcessEnds, InHand
<1>2. ASSUME NEW g \in Goroutines, call'[g] # Idle
      PROVE  Sending(g)'
  <2>1. g[1] \in Clients
    BY GoroutinePairs
  <2>2. ~(InstanceOf[g[1]] = i /\ pc[g[1]] # "new") /\ call[g] # Idle
    BY <1>2 DEF ProcessEnds
  <2>3. pc'[g[1]] = pc[g[1]] /\ carried'[g[1]] = carried[g[1]]
    BY <2>1, <2>2 DEF ProcessEnds
  <2>. QED
    BY <2>2, <2>3 DEF InHand, Sending
<1>. QED
  BY <1>1, <1>2 DEF InHand

(* The steps of Hub.Send: only its return moves a message, to a step that  *)
(* still has it in hand or to the end of the handler.                      *)
LEMMA SendInHand ==
  ASSUME TypeOK, InHand, NEW g \in Goroutines, SendStep(g)
  PROVE  InHand'
<1> USE DEF WithMessage, SendLabels
<1>1. ASSUME NEW ok \in BOOLEAN, Sending(g), Return(g, ok), UNCHANGED <<cur, todo>>
      PROVE  InHand'
  <2>1. g[1] \in Clients /\ g[2] \in {"conn", "fwd"} /\ g = <<g[1], g[2]>>
    BY <1>1, SendingHasFrame
  <2>2. call' = [call EXCEPT ![g] = Idle]
    BY <1>1, ReturnEffect
  <2>3. CASE g[2] = "fwd"
    <3>1. pc' = pc /\ carried' = [carried EXCEPT ![g[1]] = NoFrame]
      BY <1>1, <2>3, ReturnEffect
    <3>2. \A h \in Goroutines : h # g => call'[h] = call[h] /\ (Sending(h)' <=> Sending(h))
      <4>1. \A h \in Goroutines : h # g => call'[h] = call[h]
        BY <2>2 DEF TypeOK
      <4>2. ASSUME NEW h \in Goroutines, h # g, h[2] = "fwd"
            PROVE  Sending(h)' <=> Sending(h)
        <5>1. h[1] # g[1] /\ h[1] \in Clients
          BY <2>3, <4>2, GoroutinePairs
        <5>. QED
          BY <3>1, <4>2, <5>1 DEF Sending, TypeOK
      <4>3. ASSUME NEW h \in Goroutines, h[2] # "fwd"
            PROVE  Sending(h)' <=> Sending(h)
        BY <3>1, <4>3 DEF Sending
      <4>. QED
        BY <4>1, <4>2, <4>3
    <3>. QED
      BY <1>1, <2>2, <3>1, <3>2 DEF InHand, TypeOK
  <2>4. CASE g[2] = "conn"
    <3>1. /\ carried' = carried /\ pc[g[1]] \in SendLabels
          /\ pc' = [pc EXCEPT ![g[1]] = After(pc[g[1]], ok)]
      BY <1>1, <2>4, ReturnEffect
    <3>2. \A h \in Goroutines : h # g => call'[h] = call[h] /\ (Sending(h)' <=> Sending(h))
      <4>1. \A h \in Goroutines : h # g => call'[h] = call[h]
        BY <2>2 DEF TypeOK
      <4>2. ASSUME NEW h \in Goroutines, h # g, h[2] = "conn"
            PROVE  Sending(h)' <=> Sending(h)
        <5>1. h[1] # g[1] /\ h[1] \in Clients
          BY <2>4, <4>2, GoroutinePairs
        <5>. QED
          BY <3>1, <4>2, <5>1 DEF Sending, TypeOK
      <4>3. ASSUME NEW h \in Goroutines, h[2] = "fwd"
            PROVE  Sending(h)' <=> Sending(h)
        BY <3>1, <4>3 DEF Sending
      <4>. QED
        BY <4>1, <4>2, <4>3, GoroutinePairs
    <3>3. After(pc[g[1]], ok) = "row_mark" => pc[g[1]] = "row_send"
      BY DEF After
    <3>4. After(pc[g[1]], ok) # "row_send"
      BY DEF After
    <3>. QED
      BY <1>1, <2>1, <2>2, <3>1, <3>2, <3>3, <3>4 DEF InHand, TypeOK
  <2>. QED
    BY <2>1, <2>3, <2>4
<1>2. ASSUME NEW step, call' = [call EXCEPT ![g] = step], Sending(g),
             UNCHANGED <<pc, cur, todo, carried>>
      PROVE  InHand'
  BY <1>2 DEF InHand, Sending, TypeOK
<1>3. CASE LookupNone(g)
  BY <1>1, <1>3 DEF LookupNone
<1>4. CASE Lookup(g)
  BY <1>2, <1>4 DEF Lookup
<1>5. ASSUME call[g].step \in {"found", "full"}
      PROVE  Sending(g) /\ g[1] \in Clients
  <2>1. call[g] # Idle
    BY <1>5 DEF Idle
  <2>. QED
    BY <2>1, SendingHasFrame DEF InHand
<1>6. CASE Push(g)
  BY <1>1, <1>5, <1>6 DEF Push
<1>7. CASE PushFull(g)
  BY <1>2, <1>5, <1>7 DEF PushFull
<1>8. CASE Evict(g)
  BY <1>1, <1>5, <1>8 DEF Evict
<1>9. CASE PushClosed(g)
  <2>1. CASE g[2] = "conn" /\ pc[g[1]] = "row_send"
    <3>1. /\ call' = [call EXCEPT ![g] = Idle] /\ pc' = [pc EXCEPT ![g[1]] = "abandoned"]
          /\ UNCHANGED <<cur, todo, carried>>
      BY <1>9, <2>1 DEF PushClosed, Goto
    <3>2. \A h \in Goroutines : h # g => call'[h] = call[h] /\ (Sending(h)' <=> Sending(h))
      <4>1. \A h \in Goroutines : h # g => call'[h] = call[h]
        BY <3>1 DEF TypeOK
      <4>2. ASSUME NEW h \in Goroutines, h # g, h[2] = "conn"
            PROVE  Sending(h)' <=> Sending(h)
        <5>1. h[1] # g[1] /\ h[1] \in Clients
          BY <2>1, <4>2, GoroutinePairs
        <5>. QED
          BY <3>1, <4>2, <5>1 DEF Sending, TypeOK
      <4>3. ASSUME NEW h \in Goroutines, h[2] = "fwd"
            PROVE  Sending(h)' <=> Sending(h)
        BY <3>1, <4>3 DEF Sending
      <4>. QED
        BY <4>1, <4>2, <4>3, GoroutinePairs
    <3>. QED
      BY <3>1, <3>2 DEF InHand, TypeOK
  <2>2. CASE ~(g[2] = "conn" /\ pc[g[1]] = "row_send")
    BY <1>5, <1>9, <2>2, ProcessEndsInHand, InstanceOfAssumption DEF PushClosed
  <2>. QED
    BY <2>1, <2>2
<1>. QED
  BY <1>3, <1>4, <1>6, <1>7, <1>8, <1>9 DEF SendStep

(* A goroutine that is not sending goes on by itself.                      *)
LEMMA StepsInHand ==
  ASSUME TypeOK, InHand, NEW c \in Clients,
         pc[c] \notin SendLabels,
         \A d \in Clients \ {c} : pc'[d] = pc[d] /\ cur'[d] = cur[d] /\ todo'[d] = todo[d],
         UNCHANGED <<call, carried>>,
         pc'[c] \in WithMessage => cur'[c] \in Messages,
         pc'[c] \in {"row_send", "row_mark"} => todo'[c] # <<>> /\ cur'[c] = Head(todo'[c])
  PROVE  InHand'
<1>1. \A g \in Goroutines : g[1] \in Clients /\ g[2] \in {"conn", "fwd"}
  BY DEF Goroutines
<1>2. \A g \in Goroutines : Sending(g) => Sending(g)'
  BY <1>1 DEF Sending
<1>. QED
  BY <1>2 DEF InHand

(* Every step keeps who has which message in hand.                         *)
LEMMA InHandStep ==
  ASSUME TypeOK, InHand, [Next]_vars
  PROVE  InHand'
<1> USE DEF WithMessage, SendLabels, dbVars, hubVars, subVars, history
<1>1. ASSUME NEW c \in Clients, NEW rows \in Seq(Messages), NextRow(c, rows),
             pc[c] \notin SendLabels, UNCHANGED <<call, carried>>
      PROVE  InHand'
  <2>1. rows # <<>> => Head(rows) \in Messages
    BY ToSetHeadTail
  <2>. QED
    BY <1>1, <2>1, StepsInHand DEF NextRow, Goto, TypeOK
<1>2. ASSUME NEW c \in Clients, Fetch(c)
      PROVE  InHand'
  BY <1>1, <1>2, FetchedRows DEF Fetch
<1>3. ASSUME NEW c \in Clients, RowMark(c)
      PROVE  InHand'
  <2>1. Tail(todo[c]) \in Seq(Messages)
    BY <1>3, ToSetHeadTail DEF RowMark, InHand, TypeOK
  <2>. QED
    BY <1>1, <1>3, <2>1 DEF RowMark
<1>4. ASSUME NEW c \in Clients,
             \/ Register(c) \/ OpenSub(c) \/ StoreSub(c) \/ FetchError(c)
             \/ DmMark(c) \/ DmPublish(c) \/ DmPublishError(c) \/ AckPublish(c)
      PROVE  InHand'
  <2>1. /\ pc[c] \notin SendLabels
        /\ UNCHANGED <<call, carried, cur, todo>>
    BY <1>4 DEF Register, OpenSub, StoreSub, FetchError, DmMark, DmPublish, DmPublishError,
                AckPublish
  <2>2. \E l \in {"hook", "opened", "fetch", "reading", "dm_ack"} :
           /\ pc' = [pc EXCEPT ![c] = l]
           /\ l = "dm_ack" => pc[c] \in {"dm_mark", "dm_publish"}
    BY <1>4 DEF Register, OpenSub, StoreSub, FetchError, DmMark, DmPublish, DmPublishError,
                AckPublish, Goto
  <2>3. pc[c] \in WithMessage => cur[c] \in Messages
    BY DEF InHand
  <2>. QED
    BY <2>1, <2>2, <2>3, StepsInHand DEF TypeOK
<1>5. ASSUME NEW c \in Clients, NEW m \in Messages,
             Insert(c, m) \/ AckAny(c, m) \/ InsertLost(c, m) \/ AckSilently(c, m)
      PROVE  InHand'
  <2>1. CASE Insert(c, m) \/ AckAny(c, m)
    <3>1. \E l \in {"dm_send", "ack_notify"} : pc' = [pc EXCEPT ![c] = l]
      BY <2>1 DEF Insert, AckAny, AckRead, Goto
    <3>2. /\ pc[c] = "reading" /\ cur' = [cur EXCEPT ![c] = m]
          /\ UNCHANGED <<call, carried, todo>>
      BY <2>1 DEF Insert, AckAny, AckRead
    <3>. QED
      BY <3>1, <3>2, StepsInHand DEF TypeOK
  <2>2. CASE InsertLost(c, m) \/ AckSilently(c, m)
    BY <2>2 DEF InsertLost, AckSilently, InHand, Sending
  <2>. QED
    BY <1>5, <2>1, <2>2
<1>6. ASSUME NEW c \in Clients, Disconnect(c) \/ Leave(c) \/ TakeSub(c) \/ CloseSub(c)
      PROVE  InHand'
  <2>1. /\ pc[c] \notin SendLabels
        /\ UNCHANGED <<call, carried, cur, todo>>
    BY <1>6 DEF Disconnect, Leave, TakeSub, CloseSub
  <2>2. \E l \in {"leaving", "left", "closing", "gone"} : pc' = [pc EXCEPT ![c] = l]
    BY <1>6 DEF Disconnect, Leave, TakeSub, CloseSub, Goto
  <2>. QED
    BY <2>1, <2>2, StepsInHand DEF TypeOK
<1>7. ASSUME NEW c \in Clients, Write(c) \/ Confirm(c) \/ LoseRedis(c)
      PROVE  InHand'
  BY <1>7 DEF Write, Confirm, LoseRedis, InHand, Sending
<1>8. ASSUME NEW c \in Clients, Forward(c)
      PROVE  InHand'
  <2>1. /\ UNCHANGED <<call, pc, cur, todo>>
        /\ \A d \in Clients : carried[d] # NoFrame => carried'[d] = carried[d]
    BY <1>8 DEF Forward, TypeOK
  <2>2. \A g \in Goroutines : Sending(g) => Sending(g)'
    BY <2>1 DEF Sending, Goroutines
  <2>. QED
    BY <2>1, <2>2 DEF InHand
<1>9. CASE UNCHANGED vars
  BY <1>9 DEF vars, InHand, Sending
<1>10. ASSUME NEW i \in Instances, Crash(i)
       PROVE  InHand'
  BY <1>10, ProcessEndsInHand DEF Crash
<1>. QED
  BY <1>2, <1>3, <1>4, <1>5, <1>6, <1>7, <1>8, <1>9, <1>10, SendInHand DEF Next, AckAny

-----------------------------------------------------------------------------
(* Where things come from: what a step can change of every part of the     *)
(* state, whatever step it is.  The invariants follow from these facts.    *)

(* A client in the hub was there before, or registers in this step.        *)
LEMMA ClientsStep ==
  ASSUME TypeOK, InHand, [Next]_vars, NEW i \in Instances, NEW u \in Users,
         clients'[i][u] # NoClient, clients'[i][u] # clients[i][u]
  PROVE  \E c \in Clients : /\ Register(c) /\ clients'[i][u] = c
                            /\ UserOf[c] = u /\ InstanceOf[c] = i
<1> USE UserOfAssumption, InstanceOfAssumption DEF TypeOK, hubVars
<1>1. ASSUME NEW j \in Instances, ProcessEnds(j)
      PROVE  FALSE
  BY <1>1 DEF ProcessEnds
<1>2. ASSUME NEW c \in Clients, Unregister(c)
      PROVE  FALSE
  <2>1. UserOf[c] \in Users /\ InstanceOf[c] \in Instances
    OBVIOUS
  <2>2. CASE Current(c)
    <3>1. clients' = [clients EXCEPT ![InstanceOf[c]][UserOf[c]] = NoClient]
      BY <1>2, <2>2 DEF Unregister
    <3>. QED
      BY <2>1, <3>1
  <2>3. CASE ~Current(c)
    BY <1>2, <2>3 DEF Unregister
  <2>. QED
    BY <2>2, <2>3
<1>3. clients' # clients
  OBVIOUS
<1>4. ASSUME NEW g \in Goroutines, SendStep(g)
      PROVE  FALSE
  <2>1. g[1] \in Clients
    BY DEF Goroutines
  <2>2. call[g].step = "full" => call[g].to \in Clients
    BY DEF Idle
  <2>. QED
    BY <1>1, <1>2, <1>3, <1>4, <2>1, <2>2
    DEF SendStep, LookupNone, Lookup, Push, PushFull, Evict, PushClosed
<1>5. ASSUME NEW c \in Clients, Register(c)
      PROVE  clients'[i][u] = c /\ UserOf[c] = u /\ InstanceOf[c] = i
  <2>1. UserOf[c] \in Users /\ InstanceOf[c] \in Instances
    OBVIOUS
  <2>. QED
    BY <1>5, <2>1 DEF Register
<1>6. ASSUME NEW c \in Clients,
             \/ OpenSub(c) \/ StoreSub(c) \/ Fetch(c) \/ FetchError(c) \/ RowMark(c)
             \/ DmMark(c) \/ DmPublish(c) \/ DmPublishError(c) \/ AckPublish(c)
             \/ \E m \in Messages : Insert(c, m) \/ AckAny(c, m)
             \/ QuietStep(c) \/ Write(c) \/ Disconnect(c) \/ TakeSub(c) \/ CloseSub(c)
             \/ Confirm(c) \/ LoseRedis(c) \/ Forward(c)
      PROVE  FALSE
  BY <1>3, <1>6 DEF OpenSub, StoreSub, Fetch, FetchError, RowMark, DmMark, DmPublish,
       DmPublishError, AckPublish, Insert, QuietStep, InsertLost, AckSilently, AckAny, AckRead,
       Write, Disconnect, TakeSub, CloseSub, Confirm, LoseRedis, Forward
<1>7. ASSUME NEW c \in Clients, Leave(c)
      PROVE  FALSE
  BY <1>2, <1>7 DEF Leave
<1>8. ASSUME NEW j \in Instances, Crash(j)
      PROVE  FALSE
  BY <1>1, <1>8 DEF Crash
<1>9. [Next]_vars => Next
  BY <1>3 DEF vars
<1>. QED
  BY <1>4, <1>5, <1>6, <1>7, <1>8, <1>9 DEF Next, QuietStep, AckAny

(* Rows are not removed, what was delivered is not pending again, and the  *)
(* counts of pushes and the messages that Redis accepted only grow.        *)
LEMMA RowsStep ==
  ASSUME TypeOK, InHand, [Next]_vars, NEW m \in Messages
  PROVE  /\ db[m] # "absent" => db'[m] # "absent"
         /\ db[m] \in {"delivered", "read"} => db'[m] \in {"delivered", "read"}
         /\ handed'[m] >= handed[m]
         /\ m \in published => m \in published'
<1> USE DEF TypeOK, dbVars, history
<1>1. ASSUME UNCHANGED <<db, handed, published>>
      PROVE  /\ db[m] # "absent" => db'[m] # "absent"
             /\ db[m] \in {"delivered", "read"} => db'[m] \in {"delivered", "read"}
             /\ handed'[m] >= handed[m]
             /\ m \in published => m \in published'
  BY <1>1
<1>2. ASSUME NEW i \in Instances, ProcessEnds(i)
      PROVE  UNCHANGED <<db, handed, published>>
  BY <1>2 DEF ProcessEnds
<1>3. ASSUME NEW g \in Goroutines, SendStep(g)
      PROVE  /\ UNCHANGED <<db, published>> /\ handed'[m] >= handed[m]
  <2>1. g[1] \in Clients /\ InstanceOf[g[1]] \in Instances
    BY InstanceOfAssumption DEF Goroutines
  <2>2. CASE Push(g)
    <3>1. call[g] # Idle
      BY <2>2 DEF Push, Idle
    <3>2. FrameIn(g) \in Frame
      BY <3>1, SendingHasFrame DEF InHand
    <3>3. FrameIn(g).msg \in Messages
      BY <3>2 DEF Frame
    <3>4. /\ db' = db /\ published' = published
          /\ handed' = IF FrameIn(g).kind = "message"
                       THEN [handed EXCEPT ![FrameIn(g).msg] = @ + 1] ELSE handed
      BY <2>2 DEF Push
    <3>5. handed \in [Messages -> Nat]
      OBVIOUS
    <3>6. handed'[m] >= handed[m]
      <4> HIDE DEF TypeOK
      <4>. QED
        BY <3>3, <3>4, <3>5
    <3>. QED
      BY <3>4, <3>6
  <2>3. CASE PushClosed(g)
    <3>1. UNCHANGED <<db, handed, published>>
      BY <1>2, <2>1, <2>3 DEF PushClosed
    <3>. QED
      BY <1>1, <3>1
  <2>4. CASE LookupNone(g) \/ Lookup(g) \/ PushFull(g) \/ Evict(g)
    <3>1. UNCHANGED <<db, handed, published>>
      BY <2>4 DEF LookupNone, Lookup, PushFull, Evict
    <3>. QED
      BY <1>1, <3>1
  <2>. QED
    BY <1>1, <1>3, <2>2, <2>3, <2>4 DEF SendStep
<1>4. ASSUME NEW c \in Clients, RowMark(c) \/ DmMark(c) \/ DmPublish(c)
      PROVE  /\ db[m] # "absent" => db'[m] # "absent"
             /\ db[m] \in {"delivered", "read"} => db'[m] \in {"delivered", "read"}
             /\ handed' = handed
             /\ m \in published => m \in published'
  BY <1>4 DEF RowMark, DmMark, DmPublish, MarkDelivered, Mark, MarkRead
<1>5. ASSUME NEW c \in Clients, NEW n \in Messages,
             Insert(c, n) \/ AckAny(c, n) \/ InsertLost(c, n) \/ AckSilently(c, n)
      PROVE  /\ db[m] # "absent" => db'[m] # "absent"
             /\ db[m] \in {"delivered", "read"} => db'[m] \in {"delivered", "read"}
             /\ UNCHANGED <<handed, published>>
  BY <1>5 DEF Insert, InsertLost, AckSilently, AckAny, AckRead, InsertRow, Mark, MarkRead
<1>6. ASSUME NEW c \in Clients,
             \/ Register(c) \/ OpenSub(c) \/ StoreSub(c) \/ Fetch(c) \/ FetchError(c)
             \/ DmPublishError(c) \/ AckPublish(c)
             \/ Write(c) \/ Disconnect(c) \/ Leave(c) \/ TakeSub(c) \/ CloseSub(c)
             \/ Confirm(c) \/ LoseRedis(c) \/ Forward(c)
      PROVE  UNCHANGED <<db, handed, published>>
  BY <1>6 DEF Register, OpenSub, StoreSub, Fetch, FetchError, DmPublishError, AckPublish,
       Write, Disconnect, Leave, TakeSub, CloseSub, Confirm, LoseRedis, Forward
<1>7. ASSUME NEW i \in Instances, Crash(i)
      PROVE  UNCHANGED <<db, handed, published>>
  BY <1>2, <1>7 DEF Crash
<1>8. CASE UNCHANGED vars
  BY <1>1, <1>8 DEF vars
<1>. QED
  BY <1>1, <1>3, <1>4, <1>5, <1>6, <1>7, <1>8 DEF Next, AckAny

(* A process that ends leaves none of its clients in the hub, and empties  *)
(* what its connections had.                                               *)
LEMMA ProcessEndsEffect ==
  ASSUME TypeOK, NEW i \in Instances, ProcessEnds(i)
  PROVE  /\ \A u \in Users : clients'[i][u] = NoClient
         /\ \A c \in Clients : \/ /\ InstanceOf[c] = i /\ pc[c] # "new"
                                  /\ pc'[c] = IF pc[c] \in {"hook", "dead"} THEN "dead" ELSE "gone"
                                  /\ chan'[c] = <<>> /\ inbox'[c] = <<>> /\ todo'[c] = <<>>
                                  /\ held'[c] = NoClient /\ carried'[c] = NoFrame
                                  /\ c \notin open' /\ c \notin listening'
                               \/ /\ InstanceOf[c] # i \/ pc[c] = "new"
                                  /\ pc'[c] = pc[c] /\ chan'[c] = chan[c] /\ inbox'[c] = inbox[c]
                                  /\ todo'[c] = todo[c] /\ held'[c] = held[c]
                                  /\ carried'[c] = carried[c] /\ cur'[c] = cur[c]
                                  /\ c \in open' <=> c \in open
                                  /\ c \in listening' <=> c \in listening
         /\ \A g \in Goroutines : \/ call'[g] = Idle
                                  \/ /\ call'[g] = call[g]
                                     /\ InstanceOf[g[1]] # i \/ pc[g[1]] = "new"
         /\ UNCHANGED <<dbVars, closes, history>>
<1>1. \A u \in Users : clients'[i][u] = NoClient
  BY DEF ProcessEnds, TypeOK
<1>2. ASSUME NEW c \in Clients, InstanceOf[c] = i, pc[c] # "new"
      PROVE  /\ pc'[c] = IF pc[c] \in {"hook", "dead"} THEN "dead" ELSE "gone"
             /\ chan'[c] = <<>> /\ inbox'[c] = <<>> /\ todo'[c] = <<>>
             /\ held'[c] = NoClient /\ carried'[c] = NoFrame
             /\ c \notin open' /\ c \notin listening'
  BY <1>2 DEF ProcessEnds
<1>3. ASSUME NEW c \in Clients, InstanceOf[c] # i \/ pc[c] = "new"
      PROVE  /\ pc'[c] = pc[c] /\ chan'[c] = chan[c] /\ inbox'[c] = inbox[c]
             /\ todo'[c] = todo[c] /\ held'[c] = held[c]
             /\ carried'[c] = carried[c] /\ cur'[c] = cur[c]
             /\ c \in open' <=> c \in open
             /\ c \in listening' <=> c \in listening
  BY <1>3 DEF ProcessEnds
<1>4. \A g \in Goroutines : \/ call'[g] = Idle
                            \/ /\ call'[g] = call[g]
                               /\ InstanceOf[g[1]] # i \/ pc[g[1]] = "new"
  BY DEF ProcessEnds
<1>5. UNCHANGED <<dbVars, closes, history>>
  BY DEF ProcessEnds
<1>. QED
  BY <1>1, <1>2, <1>3, <1>4, <1>5

(* The steps that move a connection on by itself.                           *)
OwnStep(c) ==
    \/ Register(c) \/ OpenSub(c) \/ StoreSub(c)
    \/ Fetch(c) \/ FetchError(c) \/ RowMark(c)
    \/ DmMark(c) \/ DmPublish(c) \/ DmPublishError(c) \/ AckPublish(c)
    \/ \E m \in Messages : Insert(c, m) \/ AckAny(c, m)
    \/ Disconnect(c) \/ Leave(c) \/ TakeSub(c) \/ CloseSub(c)

(* A connection's own goroutine, or the end of its process, moves it on and *)
(* gives it another message or other rows; nobody else does.                *)
LEMMA WhoMoves ==
  ASSUME TypeOK, InHand, [Next]_vars, NEW c \in Clients,
         ~(pc'[c] = pc[c] /\ cur'[c] = cur[c] /\ todo'[c] = todo[c])
  PROVE  \/ OwnStep(c)
         \/ SendStep(<<c, "conn">>) /\ cur' = cur /\ todo' = todo
         \/ ProcessEnds(InstanceOf[c]) /\ pc[c] # "new"
<1> USE DEF TypeOK, Goto, NextRow
<1>1. ASSUME NEW d \in Clients, OwnStep(d)
      PROVE  d = c
  BY <1>1 DEF OwnStep, Register, OpenSub, StoreSub, Fetch, FetchError, RowMark, DmMark,
       DmPublish, DmPublishError, AckPublish, Insert, AckAny, AckRead, Disconnect, Leave, TakeSub,
       CloseSub
<1>2. ASSUME NEW d \in Clients,
             \/ Write(d) \/ Confirm(d) \/ LoseRedis(d) \/ Forward(d)
             \/ QuietStep(d)
      PROVE  FALSE
  BY <1>2 DEF Write, Confirm, LoseRedis, Forward, QuietStep, InsertLost, AckSilently
<1>3. ASSUME NEW i \in Instances, ProcessEnds(i)
      PROVE  i = InstanceOf[c] /\ pc[c] # "new"
  BY <1>3, ProcessEndsEffect
<1>4. ASSUME NEW g \in Goroutines, SendStep(g)
      PROVE  \/ g = <<c, "conn">> /\ cur' = cur /\ todo' = todo
             \/ ProcessEnds(InstanceOf[c]) /\ pc[c] # "new"
  <2>1. g[1] \in Clients /\ g[2] \in {"conn", "fwd"} /\ InstanceOf[g[1]] \in Instances
    BY GoroutinePairs, InstanceOfAssumption
  <2>2. g[1] = c /\ g[2] = "conn" => g = <<c, "conn">>
    BY DEF Goroutines
  <2>3. ASSUME NEW ok \in BOOLEAN, Return(g, ok)
        PROVE  pc'[c] # pc[c] => g[1] = c /\ g[2] = "conn"
    BY <2>1, <2>3 DEF Return
  <2>4. CASE LookupNone(g) \/ Lookup(g) \/ PushFull(g) \/ Evict(g) \/ Push(g)
    BY <2>2, <2>3, <2>4 DEF LookupNone, Lookup, PushFull, Evict, Push
  <2>5. CASE PushClosed(g)
    <3>1. CASE g[2] = "conn" /\ pc[g[1]] = "row_send"
      BY <2>1, <2>2, <2>5, <3>1 DEF PushClosed
    <3>2. CASE ~(g[2] = "conn" /\ pc[g[1]] = "row_send")
      BY <1>3, <2>1, <2>5, <3>2 DEF PushClosed
    <3>. QED
      BY <3>1, <3>2
  <2>. QED
    BY <1>4, <2>4, <2>5 DEF SendStep
<1>5. ~UNCHANGED vars
  BY DEF vars
<1>6. ASSUME NEW i \in Instances, Crash(i)
      PROVE  ProcessEnds(InstanceOf[c]) /\ pc[c] # "new"
  BY <1>3, <1>6 DEF Crash
<1> HIDE DEF TypeOK, Goto, NextRow
<1>. QED
  BY <1>1, <1>2, <1>4, <1>5, <1>6 DEF Next, OwnStep, QuietStep, AckAny
(* The steps of a connection that come neither from its goroutine nor from *)
(* a send: its write pump, its subscription and its forwarder.             *)
SideStep(c) == Write(c) \/ Confirm(c) \/ LoseRedis(c) \/ Forward(c)

(* Every step, by who takes it.                                            *)
LEMMA WhoSteps ==
  ASSUME Next
  PROVE  \/ \E g \in Goroutines : SendStep(g)
         \/ \E c \in Clients : \/ OwnStep(c) \/ SideStep(c)
                               \/ QuietStep(c)
         \/ \E i \in Instances : ProcessEnds(i)
BY DEF Next, OwnStep, SideStep, QuietStep, AckAny, Crash

(* A send that is not a push into a closed channel ends no process.        *)
LEMMA SendCases ==
  ASSUME TypeOK, InHand, NEW g \in Goroutines, SendStep(g)
  PROVE  \/ /\ LookupNone(g) \/ Lookup(g) \/ PushFull(g) \/ Evict(g) \/ Push(g)
            /\ UNCHANGED <<dbVars, subVars, cur, todo, handler, published, caughtUp>>
            /\ \A c \in Clients : carried'[c] \in {carried[c], NoFrame}
         \/ /\ PushClosed(g) /\ g[2] = "conn" /\ pc[g[1]] = "row_send"
            /\ call' = [call EXCEPT ![g] = Idle]
            /\ pc' = [pc EXCEPT ![g[1]] = "abandoned"]
            /\ UNCHANGED <<dbVars, hubVars, subVars, carried, cur, todo, history>>
         \/ InstanceOf[g[1]] \in Instances /\ ProcessEnds(InstanceOf[g[1]])
<1>1. g[1] \in Clients /\ InstanceOf[g[1]] \in Instances
  BY GoroutinePairs, InstanceOfAssumption
<1>2. ASSUME NEW ok \in BOOLEAN, Return(g, ok)
      PROVE  \A c \in Clients : carried'[c] \in {carried[c], NoFrame}
  BY <1>2 DEF Return, TypeOK
<1>3. CASE LookupNone(g) \/ Evict(g) \/ Push(g)
  BY <1>2, <1>3 DEF LookupNone, Evict, Push, history, subVars, hubVars, dbVars
<1>4. CASE Lookup(g) \/ PushFull(g)
  BY <1>4 DEF Lookup, PushFull, history
<1>5. CASE PushClosed(g)
  BY <1>1, <1>5 DEF PushClosed, Goto
<1>. QED
  BY <1>3, <1>4, <1>5 DEF SendStep

(* Whatever comes into a channel is pushed there by a send to its client.  *)
LEMMA ChanStep ==
  ASSUME TypeOK, InHand, [Next]_vars, NEW c \in Clients,
         NEW f \in ToSet(chan'[c]), f \notin ToSet(chan[c])
  PROVE  \E g \in Goroutines : /\ Push(g) /\ Sending(g)
                               /\ call[g] # Idle /\ call[g].to = c /\ f = FrameIn(g)
<1>1. chan'[c] # chan[c]
  OBVIOUS
<1>2. chan'[c] # <<>>
  BY DEF ToSet
<1>3. ASSUME NEW d \in Clients, OwnStep(d) \/ SideStep(d) \/ QuietStep(d)
      PROVE  FALSE
  <2>1. ASSUME Write(d)
        PROVE  FALSE
    <3>1. chan[c] # <<>> /\ chan'[c] = Tail(chan[c]) /\ chan[c] \in Seq(Frame)
      BY <1>1, <2>1 DEF Write, TypeOK
    <3>. QED
      BY <3>1, ToSetHeadTail
  <2>. QED
    BY <1>1, <1>3, <2>1 DEF OwnStep, SideStep, Register, OpenSub, StoreSub, Fetch, FetchError,
         RowMark, DmMark, DmPublish, DmPublishError, AckPublish, Insert, AckAny, AckRead,
         Disconnect,
         Leave, TakeSub, CloseSub, QuietStep, InsertLost, AckSilently, Confirm, LoseRedis,
         Forward, hubVars
<1>4. ASSUME NEW i \in Instances, ProcessEnds(i)
      PROVE  FALSE
  BY <1>1, <1>2, <1>4, ProcessEndsEffect
<1>5. ASSUME NEW g \in Goroutines, SendStep(g)
      PROVE  /\ Push(g) /\ Sending(g)
             /\ call[g] # Idle /\ call[g].to = c /\ f = FrameIn(g)
  <2>1. Push(g)
    BY <1>1, <1>4, <1>5, SendCases DEF LookupNone, Lookup, PushFull, Evict, hubVars
  <2>2. call[g] # Idle
    BY <2>1 DEF Push, Idle
  <2>3. Sending(g) /\ call[g].to \in Clients
    BY <2>2 DEF InHand, TypeOK
  <2>4. FrameIn(g) \in Frame
    BY <2>3, SendingHasFrame
  <2>5. chan' = [chan EXCEPT ![call[g].to] = Append(@, FrameIn(g))]
    BY <2>1 DEF Push
  <2>6. call[g].to = c /\ chan'[c] = Append(chan[c], FrameIn(g)) /\ chan[c] \in Seq(Frame)
    BY <1>1, <2>3, <2>5 DEF TypeOK
  <2>7. f = FrameIn(g)
    BY <2>4, <2>6, ToSetAppend
  <2>. QED
    BY <2>1, <2>2, <2>3, <2>6, <2>7
<1>6. Next
  BY <1>1 DEF vars, hubVars
<1>. QED
  BY <1>3, <1>4, <1>5, <1>6, WhoSteps

(* Whatever comes into a subscription is published by a handler.           *)
LEMMA InboxStep ==
  ASSUME TypeOK, InHand, [Next]_vars, NEW c \in Clients,
         NEW f \in ToSet(inbox'[c]), f \notin ToSet(inbox[c])
  PROVE  \E d \in Clients :
            /\ c \in listening
            /\ \/ /\ pc[d] = "dm_publish" /\ f = [kind |-> "message", msg |-> cur[d]]
                  /\ UserOf[c] = ReceiverOf[cur[d]]
               \/ /\ pc[d] = "ack_publish" /\ f = [kind |-> "read", msg |-> cur[d]]
                  /\ UserOf[c] = ackTo[d]
<1>1. inbox'[c] # inbox[c]
  OBVIOUS
<1>2. inbox'[c] # <<>>
  BY DEF ToSet
<1>3. inbox[c] \in Seq(Frame)
  BY DEF TypeOK
<1>4. ASSUME NEW u, NEW x \in Frame, Publish(u, x)
      PROVE  c \in listening /\ UserOf[c] = u /\ f = x
  <2>1. c \in listening /\ UserOf[c] = u /\ inbox'[c] = Append(inbox[c], x)
    BY <1>1, <1>4 DEF Publish
  <2>. QED
    BY <1>3, <2>1, ToSetAppend
<1>5. ASSUME NEW d \in Clients, DmPublish(d)
      PROVE  /\ c \in listening /\ pc[d] = "dm_publish" /\ f = [kind |-> "message", msg |-> cur[d]]
             /\ UserOf[c] = ReceiverOf[cur[d]]
  <2>1. cur[d] \in Messages /\ pc[d] = "dm_publish"
    BY <1>5 DEF DmPublish, InHand, WithMessage
  <2>2. [kind |-> "message", msg |-> cur[d]] \in Frame
    BY <2>1 DEF Frame
  <2>. QED
    BY <1>4, <1>5, <2>1, <2>2 DEF DmPublish
<1>6. ASSUME NEW d \in Clients, AckPublish(d)
      PROVE  /\ c \in listening /\ pc[d] = "ack_publish" /\ f = [kind |-> "read", msg |-> cur[d]]
             /\ UserOf[c] = ackTo[d]
  <2>1. cur[d] \in Messages /\ pc[d] = "ack_publish"
    BY <1>6 DEF AckPublish, InHand, WithMessage
  <2>2. [kind |-> "read", msg |-> cur[d]] \in Frame
    BY <2>1 DEF Frame
  <2>. QED
    BY <1>1, <1>4, <1>6, <2>1, <2>2 DEF AckPublish
<1>7. ASSUME NEW d \in Clients, Forward(d)
      PROVE  FALSE
  <2>1. inbox[c] # <<>> /\ inbox'[c] = Tail(inbox[c])
    BY <1>1, <1>7 DEF Forward, TypeOK
  <2>. QED
    BY <1>3, <2>1, ToSetHeadTail
<1>8. ASSUME NEW d \in Clients, OwnStep(d) \/ SideStep(d) \/ QuietStep(d)
      PROVE  DmPublish(d) \/ AckPublish(d) \/ Forward(d)
  BY <1>1, <1>8 DEF OwnStep, SideStep, Register, OpenSub, StoreSub, Fetch, FetchError,
         RowMark, DmMark, DmPublishError, Insert, AckAny, AckRead, Disconnect,
         Leave, TakeSub, CloseSub, QuietStep, InsertLost, AckSilently, Write, Confirm,
         LoseRedis, subVars
<1>9. ASSUME NEW i \in Instances, ProcessEnds(i)
      PROVE  FALSE
  BY <1>1, <1>2, <1>9, ProcessEndsEffect
<1>10. ASSUME NEW g \in Goroutines, SendStep(g)
       PROVE  FALSE
  BY <1>1, <1>9, <1>10, SendCases DEF subVars
<1>11. Next
  BY <1>1 DEF vars, subVars
<1>. QED
  BY <1>5, <1>6, <1>7, <1>8, <1>9, <1>10, <1>11, WhoSteps

(* A forwarder hands on a frame of its subscription.                       *)
LEMMA CarriedStep ==
  ASSUME TypeOK, InHand, [Next]_vars, NEW c \in Clients,
         carried'[c] # carried[c], carried'[c] # NoFrame
  PROVE  carried'[c] \in ToSet(inbox[c])
<1>1. ASSUME NEW d \in Clients, OwnStep(d) \/ SideStep(d) \/ QuietStep(d)
      PROVE  carried'[c] \in ToSet(inbox[c])
  <2>1. Forward(d)
    BY <1>1 DEF OwnStep, SideStep, Register, OpenSub, StoreSub, Fetch, FetchError,
         RowMark, DmMark, DmPublish, DmPublishError, AckPublish, Insert, AckAny, AckRead,
         Disconnect,
         Leave, TakeSub, CloseSub, QuietStep, InsertLost, AckSilently, Write, Confirm, LoseRedis
  <2>2. inbox[c] # <<>> /\ carried'[c] = Head(inbox[c]) /\ inbox[c] \in Seq(Frame)
    BY <2>1 DEF Forward, TypeOK
  <2>. QED
    BY <2>2, ToSetHeadTail
<1>2. ASSUME NEW i \in Instances, ProcessEnds(i)
      PROVE  FALSE
  BY <1>2, ProcessEndsEffect
<1>3. ASSUME NEW g \in Goroutines, SendStep(g)
      PROVE  FALSE
  BY <1>2, <1>3, SendCases
<1>4. Next
  BY DEF vars
<1>. QED
  BY <1>1, <1>2, <1>3, <1>4, WhoSteps

(* Whom an acknowledgement names is set when it comes, and kept on record. *)
LEMMA NamedStep ==
  ASSUME TypeOK, InHand, [Next]_vars
  PROVE  /\ \A m \in Messages : named[m] \subseteq named'[m]
         /\ \A c \in Clients : \/ ackTo'[c] = ackTo[c]
                               \/ pc[c] = "reading" /\ \E m \in Messages : AckAny(c, m)
<1> DEFINE Good ==
      /\ \A m \in Messages : named[m] \subseteq named'[m]
      /\ \A c \in Clients : \/ ackTo'[c] = ackTo[c]
                            \/ pc[c] = "reading" /\ \E m \in Messages : AckAny(c, m)
<1>1. ASSUME UNCHANGED <<named, ackTo>>
      PROVE  Good
  BY <1>1
<1>2. ASSUME NEW d \in Clients, NEW n \in Messages, AckAny(d, n)
      PROVE  Good
  <2>1. PICK u \in Users : /\ named' = [named EXCEPT ![n] = @ \union {u}]
                           /\ ackTo' = [ackTo EXCEPT ![d] = u]
                           /\ pc[d] = "reading"
    BY <1>2 DEF AckAny, AckRead
  <2>. QED
    BY <1>2, <2>1 DEF TypeOK
<1>3. ASSUME NEW d \in Clients, OwnStep(d) \/ SideStep(d) \/ QuietStep(d)
      PROVE  UNCHANGED <<named, ackTo>> \/ \E n \in Messages : AckAny(d, n)
  BY <1>3 DEF OwnStep, SideStep, Register, OpenSub, StoreSub, Fetch, FetchError, RowMark,
     DmMark, DmPublish, DmPublishError, AckPublish, Insert, QuietStep, InsertLost, AckSilently,
     Disconnect, Leave, TakeSub, CloseSub, Write, Confirm, LoseRedis, Forward, history
<1>4. ASSUME NEW i \in Instances, ProcessEnds(i)
      PROVE  UNCHANGED <<named, ackTo>>
  BY <1>4 DEF ProcessEnds, history
<1>5. ASSUME NEW g \in Goroutines, SendStep(g)
      PROVE  UNCHANGED <<named, ackTo>>
  BY <1>4, <1>5, GoroutinePairs, InstanceOfAssumption
  DEF SendStep, LookupNone, Lookup, Push, PushFull, Evict, PushClosed, history
<1> HIDE DEF Good
<1>6. Good
  <2>1. CASE Next
    BY <1>1, <1>2, <1>3, <1>4, <1>5, <2>1, WhoSteps
  <2>2. CASE UNCHANGED vars
    BY <1>1, <2>2 DEF vars, history
  <2>. QED
    BY <2>1, <2>2
<1>. QED
  BY <1>6 DEF Good

(* While a send is under way, its goroutine stays where it is, with the    *)
(* message it has in hand; a send begins with the lookup of its target.    *)
LEMMA CallStep ==
  ASSUME TypeOK, InHand, [Next]_vars, NEW g \in Goroutines, call'[g] # Idle
  PROVE  /\ Sending(g) /\ Target(g)' = Target(g) /\ FrameIn(g)' = FrameIn(g)
         /\ g[2] = "conn" => /\ pc'[g[1]] = pc[g[1]] /\ cur'[g[1]] = cur[g[1]]
                             /\ ackTo'[g[1]] = ackTo[g[1]]
         /\ \/ call[g] # Idle /\ call'[g].to = call[g].to
            \/ call[g] = Idle /\ Lookup(g) /\ call'[g].to = Found(g)
<1>1. g[1] \in Clients /\ g[2] \in {"conn", "fwd"} /\ g = <<g[1], g[2]>>
      /\ InstanceOf[g[1]] \in Instances
  BY InstanceOfAssumption DEF Goroutines
<1>2. CASE call[g] # Idle /\ call'[g] = call[g]
  <2>1. Sending(g) /\ Sending(g)'
    <3>1. InHand'
      BY InHandStep
    <3>. QED
      BY <1>2, <3>1 DEF InHand
  <2>2. ASSUME g[2] = "conn"
        PROVE  pc'[g[1]] = pc[g[1]] /\ cur'[g[1]] = cur[g[1]]
    <3>1. pc[g[1]] \in SendLabels
      BY <2>1, <2>2 DEF Sending
    <3>2. ~OwnStep(g[1])
      BY <3>1 DEF OwnStep, Register, OpenSub, StoreSub, Fetch, FetchError, RowMark, DmMark,
         DmPublish, DmPublishError, AckPublish, Insert, AckAny, AckRead, Disconnect, Leave, TakeSub,
         CloseSub, SendLabels
    <3>3. ~(ProcessEnds(InstanceOf[g[1]]) /\ pc[g[1]] # "new")
      BY <1>1, <1>2, ProcessEndsEffect
    <3>4. ASSUME SendStep(g)
          PROVE  pc'[g[1]] = pc[g[1]]
      <4>1. ~Return(g, TRUE) /\ ~Return(g, FALSE)
        BY <1>2 DEF Return, TypeOK
      <4>2. ~PushClosed(g)
        BY <1>1, <1>2, <3>1, <3>3 DEF PushClosed, TypeOK, SendLabels
      <4>. QED
        BY <3>4, <4>1, <4>2 DEF SendStep, LookupNone, Lookup, Push, PushFull, Evict
    <3>. QED
      BY <1>1, <2>2, <3>2, <3>3, <3>4, WhoMoves
  <2>3. ASSUME g[2] = "fwd"
        PROVE  carried'[g[1]] = carried[g[1]]
    <3>1. carried[g[1]] # NoFrame /\ carried'[g[1]] # NoFrame
      BY <2>1, <2>3 DEF Sending
    <3>2. ASSUME NEW d \in Clients, OwnStep(d) \/ SideStep(d) \/ QuietStep(d)
          PROVE  carried'[g[1]] = carried[g[1]]
      BY <1>1, <3>1, <3>2 DEF OwnStep, SideStep, Register, OpenSub, StoreSub, Fetch, FetchError,
         RowMark, DmMark, DmPublish, DmPublishError, AckPublish, Insert, AckAny, AckRead,
         Disconnect,
         Leave, TakeSub, CloseSub, QuietStep, InsertLost, AckSilently, Write, Confirm,
         LoseRedis, Forward, TypeOK
    <3>3. ASSUME NEW i \in Instances, ProcessEnds(i)
          PROVE  carried'[g[1]] = carried[g[1]]
      BY <1>1, <3>1, <3>3, ProcessEndsEffect
    <3>4. ASSUME NEW h \in Goroutines, SendStep(h)
          PROVE  carried'[g[1]] = carried[g[1]]
      BY <1>1, <3>1, <3>3, <3>4, SendCases
    <3>5. CASE UNCHANGED vars
      BY <3>5 DEF vars
    <3>. QED
      BY <3>2, <3>3, <3>4, <3>5, WhoSteps
  <2>4. g[2] = "conn" => ackTo'[g[1]] = ackTo[g[1]]
    BY <1>1, <2>1, NamedStep DEF Sending, SendLabels
  <2>. QED
    BY <1>1, <1>2, <2>1, <2>2, <2>3, <2>4 DEF Target, FrameIn
<1>3. CASE ~(call[g] # Idle /\ call'[g] = call[g])
  <2>1. call'[g] # call[g]
    BY <1>3
  <2>2. ASSUME NEW d \in Clients, OwnStep(d) \/ SideStep(d) \/ QuietStep(d)
        PROVE  FALSE
    BY <2>1, <2>2 DEF OwnStep, SideStep, Register, OpenSub, StoreSub, Fetch, FetchError,
       RowMark, DmMark, DmPublish, DmPublishError, AckPublish, Insert, AckAny, AckRead, Disconnect,
       Leave, TakeSub, CloseSub, QuietStep, InsertLost, AckSilently, Write, Confirm, LoseRedis,
       Forward
  <2>3. ASSUME NEW i \in Instances, ProcessEnds(i)
        PROVE  FALSE
    BY <2>1, <2>3, ProcessEndsEffect
  <2>4. ASSUME NEW h \in Goroutines, SendStep(h)
        PROVE  h = g /\ (Lookup(g) \/ PushFull(g))
    <3>1. ASSUME NEW ok \in BOOLEAN, Return(h, ok)
          PROVE  FALSE
      BY <2>1, <3>1 DEF Return, TypeOK
    <3>2. ~PushClosed(h)
      <4>1. ~ProcessEnds(InstanceOf[h[1]])
        BY <2>3, GoroutinePairs, InstanceOfAssumption
      <4>2. ~(call' = [call EXCEPT ![h] = Idle])
        BY <2>1 DEF TypeOK
      <4>. QED
        BY <4>1, <4>2 DEF PushClosed
    <3>3. Lookup(h) \/ PushFull(h)
      BY <2>4, <3>1, <3>2 DEF SendStep, LookupNone, Push, Evict
    <3>. QED
      BY <2>1, <3>3 DEF Lookup, PushFull, TypeOK
  <2>5. Next
    BY <2>1 DEF vars
  <2>6. Lookup(g) \/ PushFull(g)
    BY <2>2, <2>3, <2>4, <2>5, WhoSteps
  <2>7. /\ UNCHANGED <<pc, cur, ackTo, carried>>
        /\ Sending(g)
    BY <2>6 DEF Lookup, PushFull, InHand, Idle
  <2>8. Target(g)' = Target(g) /\ FrameIn(g)' = FrameIn(g)
    BY <2>7 DEF Target, FrameIn
  <2>9. CASE Lookup(g)
    <3>1. call[g] = Idle /\ call'[g].to = Found(g)
      BY <2>9 DEF Lookup, TypeOK
    <3>. QED
      BY <2>7, <2>8, <2>9, <3>1
  <2>10. CASE PushFull(g)
    <3>1. call[g] # Idle /\ call'[g].to = call[g].to
      BY <2>10 DEF PushFull, TypeOK, Idle
    <3>. QED
      BY <2>7, <2>8, <3>1
  <2>. QED
    BY <2>6, <2>9, <2>10
<1>. QED
  BY <1>2, <1>3

(* Subscriptions are opened by their own connection, and the map of a      *)
(* process names only connections that stored theirs there.                *)
LEMMA SubsStep ==
  ASSUME TypeOK, InHand, [Next]_vars
  PROVE  /\ \A c \in Clients : c \in open' => c \in open \/ OpenSub(c)
         /\ \A c \in Clients : held'[c] = held[c] \/ held'[c] = NoClient \/ TakeSub(c)
         /\ \A i \in Instances, u \in Users :
               \/ subs'[i][u] \in {subs[i][u], NoClient}
               \/ \E c \in Clients : StoreSub(c) /\ InstanceOf[c] = i /\ subs'[i][u] = c
<1> DEFINE Good ==
      /\ \A c \in Clients : c \in open' => c \in open \/ OpenSub(c)
      /\ \A c \in Clients : held'[c] = held[c] \/ held'[c] = NoClient \/ TakeSub(c)
      /\ \A i \in Instances, u \in Users :
            \/ subs'[i][u] \in {subs[i][u], NoClient}
            \/ \E c \in Clients : StoreSub(c) /\ InstanceOf[c] = i /\ subs'[i][u] = c
<1>1. ASSUME UNCHANGED <<open, held, subs>>
      PROVE  Good
  BY <1>1
<1>2. ASSUME NEW d \in Clients, OpenSub(d) \/ StoreSub(d) \/ TakeSub(d) \/ CloseSub(d)
      PROVE  Good
  <2>1. UserOf[d] \in Users /\ InstanceOf[d] \in Instances
    BY UserOfAssumption, InstanceOfAssumption
  <2>2. CASE OpenSub(d)
    BY <2>2 DEF OpenSub
  <2>3. CASE StoreSub(d)
    BY <2>1, <2>3 DEF StoreSub, TypeOK
  <2>4. CASE TakeSub(d)
    BY <2>1, <2>4 DEF TakeSub, TypeOK
  <2>5. CASE CloseSub(d)
    BY <2>5 DEF CloseSub, TypeOK
  <2>. QED
    BY <1>2, <2>2, <2>3, <2>4, <2>5
<1>3. ASSUME NEW d \in Clients, OwnStep(d) \/ SideStep(d) \/ QuietStep(d)
      PROVE  UNCHANGED <<open, held, subs>>
             \/ OpenSub(d) \/ StoreSub(d) \/ TakeSub(d) \/ CloseSub(d)
  BY <1>3 DEF OwnStep, SideStep, Register, Fetch, FetchError,
     RowMark, DmMark, DmPublish, DmPublishError, AckPublish, Insert, AckAny, AckRead, Disconnect,
     Leave, QuietStep, InsertLost, AckSilently, Write, Confirm, LoseRedis, Forward, subVars
<1>4. ASSUME NEW i \in Instances, ProcessEnds(i)
      PROVE  Good
  BY <1>4 DEF ProcessEnds, TypeOK
<1>5. ASSUME NEW g \in Goroutines, SendStep(g)
      PROVE  Good
  BY <1>1, <1>4, <1>5, SendCases DEF subVars
<1> HIDE DEF Good
<1>6. Good
  <2>1. ASSUME NEW d \in Clients, OwnStep(d) \/ SideStep(d) \/ QuietStep(d)
        PROVE  Good
    BY <1>1, <1>2, <1>3, <2>1
  <2>2. CASE Next
    BY <1>4, <1>5, <2>1, <2>2, WhoSteps
  <2>3. CASE UNCHANGED vars
    BY <1>1, <2>3 DEF vars, subVars
  <2>. QED
    BY <2>2, <2>3
<1>. QED
  BY <1>6 DEF Good

(* A message becomes pending, and gets its handler, when its row is        *)
(* inserted; a row stays where it is in the table.                         *)
LEMMA StoredStep ==
  ASSUME TypeOK, InHand, [Next]_vars, NEW m \in Messages
  PROVE  /\ db'[m] = "sent" => \/ db[m] = "sent"
                               \/ db[m] = "absent" /\ m \in ToSet(stored')
         /\ m \in ToSet(stored) => m \in ToSet(stored')
         /\ \/ handler'[m] = handler[m]
            \/ \E c \in Clients : Insert(c, m) /\ handler'[m] = c
<1> DEFINE Good ==
      /\ db'[m] = "sent" => db[m] = "sent" \/ (db[m] = "absent" /\ m \in ToSet(stored'))
      /\ m \in ToSet(stored) => m \in ToSet(stored')
      /\ handler'[m] = handler[m] \/ \E c \in Clients : (Insert(c, m) /\ handler'[m] = c)
<1>1. ASSUME UNCHANGED <<stored, handler>>, db' = db \/ db'[m] # "sent" \/ db[m] = "sent"
      PROVE  Good
  BY <1>1
<1>2. ASSUME NEW n \in Messages, InsertRow(n)
      PROVE  /\ db'[m] = "sent" => db[m] = "sent" \/ (db[m] = "absent" /\ m \in ToSet(stored'))
             /\ m \in ToSet(stored) => m \in ToSet(stored')
  <2>1. ToSet(stored') = ToSet(stored) \union {n}
    BY <1>2, ToSetAppend DEF InsertRow, TypeOK
  <2>. QED
    BY <1>2, <2>1 DEF InsertRow, Mark, MarkRead, TypeOK
<1>3. ASSUME NEW d \in Clients, NEW n \in Messages, Insert(d, n) \/ InsertLost(d, n)
      PROVE  Good
  BY <1>2, <1>3 DEF Insert, InsertLost, history, TypeOK
<1>4. ASSUME NEW d \in Clients,
             RowMark(d) \/ DmMark(d) \/ \E n \in Messages : AckAny(d, n) \/ AckSilently(d, n)
      PROVE  Good
  <2>1. UNCHANGED <<stored, handler>>
    BY <1>4 DEF RowMark, DmMark, AckAny, AckRead, AckSilently, history
  <2>2. db' = db \/ db'[m] # "sent" \/ db[m] = "sent"
    BY <1>4 DEF RowMark, DmMark, AckAny, AckRead, AckSilently, MarkDelivered, Mark, MarkRead,
                TypeOK
  <2>. QED
    BY <1>1, <2>1, <2>2
<1>5. ASSUME NEW d \in Clients, OwnStep(d) \/ SideStep(d) \/ QuietStep(d)
      PROVE  \/ UNCHANGED <<db, stored, handler>>
             \/ RowMark(d) \/ DmMark(d)
             \/ \E n \in Messages : \/ AckAny(d, n) \/ AckSilently(d, n)
                                     \/ Insert(d, n) \/ InsertLost(d, n)
  BY <1>5 DEF OwnStep, SideStep, Register, OpenSub, StoreSub, Fetch, FetchError,
     DmPublish, DmPublishError, AckPublish, QuietStep, Disconnect,
     Leave, TakeSub, CloseSub, Write, Confirm, LoseRedis, Forward, dbVars, history
<1>6. ASSUME NEW i \in Instances, ProcessEnds(i)
      PROVE  Good
  BY <1>1, <1>6, ProcessEndsEffect DEF dbVars, history
<1>7. ASSUME NEW g \in Goroutines, SendStep(g)
      PROVE  Good
  BY <1>1, <1>6, <1>7, SendCases DEF dbVars, history
<1> HIDE DEF Good
<1>8. Good
  <2>1. ASSUME NEW d \in Clients, OwnStep(d) \/ SideStep(d) \/ QuietStep(d)
        PROVE  Good
    BY <1>1, <1>3, <1>4, <1>5, <2>1
  <2>2. CASE Next
    BY <1>6, <1>7, <2>1, <2>2, WhoSteps
  <2>3. CASE UNCHANGED vars
    BY <1>1, <2>3 DEF vars, dbVars, history
  <2>. QED
    BY <2>2, <2>3
<1>. QED
  BY <1>8 DEF Good

(* Only a fetch makes a connection one that has caught up.                 *)
LEMMA CaughtUpStep ==
  ASSUME TypeOK, InHand, [Next]_vars, NEW c \in Clients, c \in caughtUp', c \notin caughtUp
  PROVE  Fetch(c)
<1>1. ASSUME NEW d \in Clients, OwnStep(d) \/ SideStep(d) \/ QuietStep(d)
      PROVE  Fetch(c)
  <2>1. ~Fetch(d) => caughtUp' = caughtUp
    BY <1>1 DEF OwnStep, SideStep, Register, OpenSub, StoreSub, FetchError, RowMark, DmMark,
       DmPublish, DmPublishError, AckPublish, Insert, AckAny, AckRead, QuietStep, InsertLost,
       AckSilently, Disconnect, Leave, TakeSub, CloseSub, Write, Confirm, LoseRedis, Forward,
       history
  <2>2. Fetch(d) => caughtUp' \subseteq caughtUp \union {d}
    BY DEF Fetch
  <2>. QED
    BY <2>1, <2>2
<1>2. ASSUME NEW i \in Instances, ProcessEnds(i)
      PROVE  FALSE
  BY <1>2, ProcessEndsEffect DEF history
<1>3. ASSUME NEW g \in Goroutines, SendStep(g)
      PROVE  FALSE
  BY <1>2, <1>3, SendCases DEF history
<1>4. Next
  BY DEF vars, history
<1>. QED
  BY <1>1, <1>2, <1>3, <1>4, WhoSteps
(* What a send makes of the place of its own goroutine.                    *)
LEMMA SendMoves ==
  ASSUME TypeOK, InHand, NEW c \in Clients, SendStep(<<c, "conn">>),
         pc'[c] # pc[c]
  PROVE  \/ ProcessEnds(InstanceOf[c])
         \/ /\ pc[c] \in SendLabels /\ cur' = cur
            /\ \/ LookupNone(<<c, "conn">>) /\ pc'[c] = After(pc[c], FALSE)
               \/ Evict(<<c, "conn">>) /\ pc'[c] = After(pc[c], FALSE)
               \/ Push(<<c, "conn">>) /\ pc'[c] = After(pc[c], TRUE)
               \/ PushClosed(<<c, "conn">>) /\ pc[c] = "row_send" /\ pc'[c] = "abandoned"
<1> DEFINE g == <<c, "conn">>
<1>1. g \in Goroutines /\ g[1] = c /\ g[2] = "conn"
  BY DEF Goroutines
<1>2. call[g] # Idle => Sending(g)
  BY <1>1 DEF InHand
<1>3. Sending(g) => pc[c] \in SendLabels
  BY <1>1 DEF Sending
<1>4. ASSUME NEW ok \in BOOLEAN, Return(g, ok)
      PROVE  pc'[c] = After(pc[c], ok)
  <2>1. pc' = [pc EXCEPT ![c] = After(pc[c], ok)]
    BY <1>1, <1>4 DEF Return, Goto
  <2>. QED
    BY <2>1 DEF TypeOK
<1> HIDE DEF g
<1>5. CASE LookupNone(g)
  BY <1>3, <1>4, <1>5 DEF LookupNone, g
<1>6. CASE Evict(g)
  <2>1. call[g] # Idle
    BY <1>6 DEF Evict, Idle
  <2>. QED
    BY <1>2, <1>3, <1>4, <1>6, <2>1 DEF Evict, g
<1>7. CASE Push(g)
  <2>1. call[g] # Idle
    BY <1>7 DEF Push, Idle
  <2>. QED
    BY <1>2, <1>3, <1>4, <1>7, <2>1 DEF Push, g
<1>8. CASE Lookup(g) \/ PushFull(g)
  BY <1>8 DEF Lookup, PushFull
<1>9. CASE PushClosed(g)
  <2>1. CASE pc[c] = "row_send"
    <3>1. pc' = [pc EXCEPT ![c] = "abandoned"] /\ cur' = cur
      BY <1>1, <1>9, <2>1 DEF PushClosed, Goto
    <3>2. pc'[c] = "abandoned"
      BY <3>1 DEF TypeOK
    <3>. QED
      BY <1>9, <2>1, <3>1, <3>2 DEF SendLabels, g
  <2>2. CASE pc[c] # "row_send"
    BY <1>1, <1>9, <2>2 DEF PushClosed
  <2>. QED
    BY <2>1, <2>2
<1>. QED
  BY <1>5, <1>6, <1>7, <1>8, <1>9 DEF SendStep, g

Early == {"new", "hook", "opened", "fetch"}

(* A connection does not become new again, and does not come back to its   *)
(* fetch once it is past it.                                               *)
LEMMA PcStep ==
  ASSUME TypeOK, InHand, [Next]_vars, NEW c \in Clients
  PROVE  /\ pc[c] # "new" => pc'[c] # "new"
         /\ pc[c] \notin Early => pc'[c] \notin Early
         /\ pc'[c] \in {"new", "hook", "dead"} /\ pc[c] \notin {"new", "hook", "dead"} => FALSE
<1> USE DEF Early
<1>1. CASE pc'[c] = pc[c]
  BY <1>1
<1>2. CASE OwnStep(c)
  BY <1>2 DEF OwnStep, Register, OpenSub, StoreSub, Fetch, FetchError, RowMark,
     DmMark, DmPublish, DmPublishError, AckPublish, Insert, AckAny, AckRead, Disconnect,
     Leave, TakeSub, CloseSub, Goto, NextRow, TypeOK
<1>3. CASE ProcessEnds(InstanceOf[c])
  BY <1>3, ProcessEndsEffect, InstanceOfAssumption
<1>4. CASE SendStep(<<c, "conn">>) /\ pc'[c] # pc[c]
  BY <1>3, <1>4, SendMoves DEF After, SendLabels
<1>. QED
  BY <1>1, <1>2, <1>3, <1>4, WhoMoves

(* The message in hand was in hand, is a row to push, or was just taken    *)
(* from the client's request.                                              *)
LEMMA HandStep ==
  ASSUME TypeOK, InHand, [Next]_vars, NEW c \in Clients, pc'[c] \in WithMessage
  PROVE  \/ pc[c] \in WithMessage /\ cur'[c] = cur[c]
         \/ cur'[c] \in ToSet(todo'[c]) /\ pc'[c] \in {"row_send", "row_mark"}
         \/ \E m \in Messages : Insert(c, m) /\ cur'[c] = m /\ pc'[c] = "dm_send"
         \/ \E m \in Messages, u \in Users :
               /\ AckRead(c, m, u) /\ cur'[c] = m /\ pc'[c] = "ack_notify"
<1> USE DEF WithMessage
<1>1. CASE pc'[c] = pc[c] /\ cur'[c] = cur[c]
  BY <1>1
<1>2. CASE OwnStep(c) /\ pc'[c] \notin {"row_send", "row_mark"}
  <2>1. ASSUME NEW m \in Messages, Insert(c, m)
        PROVE  cur'[c] = m /\ pc'[c] = "dm_send"
    BY <2>1 DEF Insert, Goto, TypeOK
  <2>2. ASSUME NEW m \in Messages, AckAny(c, m)
        PROVE  \E u \in Users : AckRead(c, m, u) /\ cur'[c] = m /\ pc'[c] = "ack_notify"
    BY <2>2 DEF AckAny, AckRead, Goto, TypeOK
  <2>3. CASE \A m \in Messages : ~Insert(c, m) /\ ~AckAny(c, m)
    BY <1>2, <2>3 DEF OwnStep, Register, OpenSub, StoreSub, Fetch, FetchError, RowMark,
       DmMark, DmPublish, DmPublishError, AckPublish, Disconnect,
       Leave, TakeSub, CloseSub, Goto, NextRow, TypeOK, SendLabels
  <2>. QED
    BY <2>1, <2>2, <2>3
<1>3. CASE pc'[c] \in {"row_send", "row_mark"}
  <2>1. TypeOK' /\ InHand'
    BY TypeStep, InHandStep
  <2>2. todo'[c] # <<>> /\ cur'[c] = Head(todo'[c]) /\ todo'[c] \in Seq(Messages)
    BY <1>3, <2>1 DEF TypeOK, InHand
  <2>. QED
    BY <1>3, <2>2, ToSetHeadTail
<1>4. CASE ProcessEnds(InstanceOf[c]) /\ pc[c] # "new"
  BY <1>4, ProcessEndsEffect, InstanceOfAssumption DEF SendLabels
<1>5. CASE SendStep(<<c, "conn">>) /\ cur' = cur /\ pc'[c] # pc[c]
  <2>1. CASE ProcessEnds(InstanceOf[c])
    BY <1>5, <2>1, ProcessEndsEffect, InstanceOfAssumption DEF SendLabels
  <2>. QED
    BY <1>5, <2>1, SendMoves DEF After
<1>. QED
  BY <1>1, <1>2, <1>3, <1>4, <1>5, WhoMoves

(* The stages of HandleAck are entered with the acknowledgement and left   *)
(* with the end of the handler.                                            *)
LEMMA AckingStep ==
  ASSUME TypeOK, InHand, [Next]_vars, NEW c \in Clients
  PROVE  /\ pc'[c] \in Acking => \/ pc[c] \in Acking /\ cur'[c] = cur[c]
                                 \/ \E m \in Messages, u \in Users : AckRead(c, m, u)
         /\ pc[c] \in Acking => pc'[c] \in Acking \/ pc'[c] \notin WithMessage
<1> USE DEF WithMessage, SendLabels, Acking
<1>1. CASE pc'[c] = pc[c] /\ cur'[c] = cur[c]
  BY <1>1
<1>2. CASE OwnStep(c)
  BY <1>2 DEF OwnStep, Register, OpenSub, StoreSub, Fetch, FetchError, RowMark,
     DmMark, DmPublish, DmPublishError, AckPublish, Insert, AckAny, AckRead, Disconnect,
     Leave, TakeSub, CloseSub, Goto, NextRow, TypeOK
<1>3. CASE ProcessEnds(InstanceOf[c]) /\ pc[c] # "new"
  BY <1>3, ProcessEndsEffect, InstanceOfAssumption
<1>4. CASE SendStep(<<c, "conn">>) /\ cur' = cur /\ pc'[c] # pc[c]
  <2>1. CASE ProcessEnds(InstanceOf[c])
    BY <1>4, <2>1, ProcessEndsEffect, InstanceOfAssumption
  <2>. QED
    BY <1>4, <2>1, SendMoves DEF After
<1>. QED
  BY <1>1, <1>2, <1>3, <1>4, WhoMoves

(* The rows to push are those of the fetch, and one goes when it is        *)
(* marked, or all with the process.                                        *)
LEMMA TodoStep ==
  ASSUME TypeOK, InHand, [Next]_vars, NEW c \in Clients
  PROVE  /\ \A m \in ToSet(todo'[c]) : \/ m \in ToSet(todo[c])
                                       \/ m \in Messages /\ Fetchable(c, m)
         /\ \A m \in ToSet(todo[c]) : \/ m \in ToSet(todo'[c])
                                      \/ pc[c] = "row_mark" /\ m = cur[c]
                                      \/ pc[c] = "fetch"
                                      \/ ProcessEnds(InstanceOf[c])
<1>1. CASE todo'[c] = todo[c]
  BY <1>1
<1>2. CASE OwnStep(c) /\ todo'[c] # todo[c]
  <2>1. Fetch(c) \/ RowMark(c)
    BY <1>2 DEF OwnStep, Register, OpenSub, StoreSub, FetchError,
     DmMark, DmPublish, DmPublishError, AckPublish, Insert, AckAny, AckRead, Disconnect,
     Leave, TakeSub, CloseSub
  <2>2. CASE Fetch(c)
    <3>1. PICK rows \in Seq(Messages) : /\ NextRow(c, rows)
                                        /\ \A m \in ToSet(rows) : m \in Messages /\ Fetchable(c, m)
      BY <2>2, FetchedRows
    <3>2. todo'[c] = rows /\ pc[c] = "fetch"
      BY <2>2, <3>1 DEF NextRow, Fetch, TypeOK
    <3>. QED
      BY <3>1, <3>2
  <2>3. CASE RowMark(c)
    <3>1. todo'[c] = Tail(todo[c]) /\ pc[c] = "row_mark"
      BY <2>3 DEF RowMark, NextRow, TypeOK
    <3>2. todo[c] # <<>> /\ cur[c] = Head(todo[c]) /\ todo[c] \in Seq(Messages)
      BY <3>1 DEF InHand, TypeOK
    <3>. QED
      BY <3>1, <3>2, ToSetHeadTail
  <2>. QED
    BY <2>1, <2>2, <2>3
<1>3. CASE ProcessEnds(InstanceOf[c])
  <2>1. todo'[c] = todo[c] \/ todo'[c] = <<>>
    BY <1>3, ProcessEndsEffect, InstanceOfAssumption
  <2>. QED
    BY <1>3, <2>1 DEF ToSet
<1>4. CASE SendStep(<<c, "conn">>) /\ todo' = todo
  BY <1>1, <1>4
<1>. QED
  BY <1>1, <1>2, <1>3, <1>4, WhoMoves

(* A client of the hub was there before, or registers in this step.        *)
LEMMA CurrentStep ==
  ASSUME TypeOK, InHand, [Next]_vars, NEW c \in Clients, Current(c)'
  PROVE  Current(c) \/ (Register(c) /\ pc[c] = "new")
<1>1. UserOf[c] \in Users /\ InstanceOf[c] \in Instances /\ c # NoClient
  BY UserOfAssumption, InstanceOfAssumption, NoneAssumption
<1>2. clients'[InstanceOf[c]][UserOf[c]] = c
  BY DEF Current
<1>3. CASE clients'[InstanceOf[c]][UserOf[c]] = clients[InstanceOf[c]][UserOf[c]]
  BY <1>2, <1>3 DEF Current
<1>4. CASE clients'[InstanceOf[c]][UserOf[c]] # clients[InstanceOf[c]][UserOf[c]]
  <2>1. \E d \in Clients : Register(d) /\ clients'[InstanceOf[c]][UserOf[c]] = d
    BY <1>1, <1>2, <1>4, ClientsStep
  <2>. QED
    BY <1>2, <2>1 DEF Register
<1>. QED
  BY <1>3, <1>4

(* A process that ends has no current client.                              *)
LEMMA EndedNotCurrent ==
  ASSUME TypeOK, NEW c \in Clients, ProcessEnds(InstanceOf[c])
  PROVE  ~Current(c)'
BY ProcessEndsEffect, UserOfAssumption, InstanceOfAssumption, NoneAssumption DEF Current
-----------------------------------------------------------------------------
(* The parts of the invariant, each kept by every step.                    *)

(* Clients stay under their own user and process (hub.go:37-51).            *)
LEMMA LocatedStep ==
  ASSUME TypeOK, InHand, Located, [Next]_vars
  PROVE  Located'
<1>1. ASSUME NEW i \in Instances, NEW u \in Users, clients'[i][u] # NoClient
      PROVE  /\ UserOf[clients'[i][u]] = u /\ InstanceOf[clients'[i][u]] = i
             /\ pc'[clients'[i][u]] # "new"
  <2>1. CASE clients'[i][u] = clients[i][u]
    <3>1. clients[i][u] \in Clients
      BY <1>1, <2>1 DEF TypeOK
    <3>. QED
      BY <1>1, <2>1, <3>1, PcStep DEF Located
  <2>2. CASE clients'[i][u] # clients[i][u]
    <3>1. PICK c \in Clients : /\ Register(c) /\ clients'[i][u] = c
                               /\ UserOf[c] = u /\ InstanceOf[c] = i
      BY <1>1, <2>2, ClientsStep
    <3>. QED
      BY <3>1 DEF Register, Goto, TypeOK
  <2>. QED
    BY <2>1, <2>2
<1>2. ASSUME NEW g \in Goroutines, call'[g] # Idle
      PROVE  /\ UserOf[call'[g].to] = Target(g)' /\ InstanceOf[call'[g].to] = InstanceOf[g[1]]
             /\ pc'[call'[g].to] # "new"
  <2>1. g[1] \in Clients /\ InstanceOf[g[1]] \in Instances
    BY InstanceOfAssumption DEF Goroutines
  <2>2. Sending(g) /\ Target(g)' = Target(g)
    BY <1>2, CallStep
  <2>3. CASE call[g] # Idle /\ call'[g].to = call[g].to
    <3>1. call[g].to \in Clients
      BY <2>3 DEF TypeOK
    <3>. QED
      BY <2>2, <2>3, <3>1, PcStep DEF Located
  <2>4. CASE Lookup(g) /\ call'[g].to = Found(g)
    <3>1. Target(g) \in Users /\ Found(g) \in Clients /\ Found(g) # NoClient
      BY <2>2, <2>4, SendingHasFrame DEF Lookup
    <3>. QED
      BY <2>1, <2>2, <2>4, <3>1, PcStep DEF Located, Found
  <2>. QED
    BY <1>2, <2>3, <2>4, CallStep
<1>3. \A g \in Goroutines : InstanceOf[g[1]]' = InstanceOf[g[1]]
  OBVIOUS
<1>. QED
  BY <1>1, <1>2 DEF Located

(* What is sent fits its target: the frame is about a stored row, and of   *)
(* the kind that the target is to hear of.                                 *)
LEMMA SentFits ==
  ASSUME TypeOK, InHand, Located, FramesInv, NEW g \in Goroutines, call[g] # Idle
  PROVE  Fits(call[g].to, FrameIn(g))
<1>1. Sending(g) /\ UserOf[call[g].to] = Target(g)
  BY DEF InHand, Located
<1>2. g[1] \in Clients /\ g[2] \in {"conn", "fwd"}
  BY DEF Goroutines
<1>3. CASE g[2] = "fwd"
  <2>1. carried[g[1]] # NoFrame /\ FrameIn(g) = carried[g[1]] /\ Target(g) = UserOf[g[1]]
    BY <1>1, <1>3 DEF Sending, FrameIn, Target
  <2>2. Fits(g[1], carried[g[1]])
    BY <1>2, <2>1 DEF FramesInv
  <2>. QED
    BY <1>1, <2>1, <2>2 DEF Fits
<1>4. CASE g[2] = "conn"
  <2>1. pc[g[1]] \in SendLabels
    BY <1>1, <1>4 DEF Sending
  <2>2. pc[g[1]] # "ack_notify" => db[cur[g[1]]] # "absent"
    BY <1>2, <2>1 DEF FramesInv, WithMessage, Acking, SendLabels
  <2>3. FrameIn(g).msg = cur[g[1]]
    BY <1>4 DEF FrameIn
  <2>4. CASE pc[g[1]] = "row_send"
    <3>1. todo[g[1]] # <<>> /\ cur[g[1]] = Head(todo[g[1]]) /\ todo[g[1]] \in Seq(Messages)
      BY <1>2, <2>4 DEF InHand, TypeOK
    <3>2. cur[g[1]] \in ToSet(todo[g[1]])
      BY <3>1, ToSetHeadTail
    <3>3. MemberOf[cur[g[1]]] = UserOf[g[1]]
      BY <1>2, <3>2 DEF FramesInv
    <3>. QED
      BY <1>1, <1>4, <2>2, <2>3, <2>4, <3>3 DEF Target, FrameIn, Fits
  <2>5. CASE pc[g[1]] = "ack_notify"
    <3>1. ackTo[g[1]] \in named[cur[g[1]]]
      BY <1>2, <2>5 DEF FramesInv, Acking
    <3>. QED
      BY <1>1, <1>4, <2>3, <2>5, <3>1 DEF Target, FrameIn, Fits
  <2>6. CASE pc[g[1]] \in {"dm_send", "dm_ack"}
    BY <1>1, <1>4, <2>2, <2>3, <2>6 DEF Target, FrameIn, Fits
  <2>. QED
    BY <2>1, <2>4, <2>5, <2>6 DEF SendLabels
<1>. QED
  BY <1>2, <1>3, <1>4

(* Frames stay about stored rows and with those they concern.              *)
LEMMA FramesStep ==
  ASSUME TypeOK, InHand, Located, FramesInv, [Next]_vars
  PROVE  FramesInv'
<1>1. ASSUME NEW c \in Clients, NEW f \in Frame, Fits(c, f)
      PROVE  Fits(c, f)'
  <2>1. f.msg \in Messages
    BY DEF Frame
  <2>. QED
    BY <1>1, <2>1, RowsStep, NamedStep DEF Fits
<1>2. TypeOK'
  BY TypeStep
<1>3. ASSUME NEW c \in Clients, NEW f \in ToSet(chan'[c])
      PROVE  Fits(c, f)'
  <2>1. f \in Frame
    BY <1>2, ToSetMember DEF TypeOK
  <2>2. CASE f \in ToSet(chan[c])
    BY <1>1, <2>1, <2>2 DEF FramesInv
  <2>3. CASE f \notin ToSet(chan[c])
    <3>1. PICK g \in Goroutines : call[g] # Idle /\ call[g].to = c /\ f = FrameIn(g)
      BY <2>3, ChanStep
    <3>. QED
      BY <1>1, <2>1, <3>1, SentFits
  <2>. QED
    BY <2>2, <2>3
<1>4. ASSUME NEW c \in Clients, NEW f \in ToSet(inbox'[c])
      PROVE  Fits(c, f)' /\ ViaRedis(c, f)
  <2>1. f \in Frame
    BY <1>2, ToSetMember DEF TypeOK
  <2>2. CASE f \in ToSet(inbox[c])
    BY <1>1, <2>1, <2>2 DEF FramesInv
  <2>3. CASE f \notin ToSet(inbox[c])
    <3>1. PICK d \in Clients :
             \/ /\ pc[d] = "dm_publish" /\ f = [kind |-> "message", msg |-> cur[d]]
                /\ UserOf[c] = ReceiverOf[cur[d]]
             \/ /\ pc[d] = "ack_publish" /\ f = [kind |-> "read", msg |-> cur[d]]
                /\ UserOf[c] = ackTo[d]
      BY <2>3, InboxStep
    <3>2. /\ pc[d] = "dm_publish" => db[cur[d]] # "absent"
          /\ pc[d] = "ack_publish" => ackTo[d] \in named[cur[d]]
      BY DEF FramesInv, WithMessage, Acking
    <3>3. Fits(c, f) /\ ViaRedis(c, f)
      BY <3>1, <3>2 DEF Fits, ViaRedis
    <3>. QED
      BY <1>1, <2>1, <3>3
  <2>. QED
    BY <2>2, <2>3
<1>5. ASSUME NEW c \in Clients, carried'[c] # NoFrame
      PROVE  Fits(c, carried[c])' /\ ViaRedis(c, carried[c])'
  <2>1. carried'[c] \in Frame
    BY <1>2, <1>5 DEF TypeOK
  <2>2. carried'[c] = carried[c] \/ carried'[c] \in ToSet(inbox[c])
    BY <1>5, CarriedStep
  <2>3. Fits(c, carried'[c]) /\ ViaRedis(c, carried'[c])
    BY <1>5, <2>2 DEF FramesInv
  <2>4. carried'[c].msg \in Messages
    BY <2>1 DEF Frame
  <2>5. /\ db[carried'[c].msg] # "absent" => db'[carried'[c].msg] # "absent"
        /\ named[carried'[c].msg] \subseteq named'[carried'[c].msg]
    BY <2>4, RowsStep, NamedStep
  <2>. QED
    BY <2>3, <2>5 DEF Fits, ViaRedis
<1>6. ASSUME NEW c \in Clients, NEW m \in ToSet(todo'[c])
      PROVE  db'[m] # "absent" /\ MemberOf[m] = UserOf[c]
  <2>1. m \in Messages
    BY <1>2, ToSetMember DEF TypeOK
  <2>2. db[m] # "absent" /\ MemberOf[m] = UserOf[c]
    BY TodoStep DEF FramesInv, Fetchable
  <2>. QED
    BY <2>1, <2>2, RowsStep
<1>7. ASSUME NEW c \in Clients, pc'[c] \in WithMessage \ Acking
      PROVE  db'[cur'[c]] # "absent"
  <2>1. CASE pc[c] \in WithMessage \ Acking /\ cur'[c] = cur[c]
    BY <2>1, RowsStep DEF FramesInv, InHand
  <2>2. CASE cur'[c] \in ToSet(todo'[c])
    BY <1>6, <2>2
  <2>3. ASSUME NEW m \in Messages, Insert(c, m), cur'[c] = m
        PROVE  db'[m] # "absent"
    BY <2>3 DEF Insert, InsertRow, Mark, TypeOK
  <2>4. pc[c] \in Acking => pc'[c] \in Acking \/ pc'[c] \notin WithMessage
    BY AckingStep
  <2>. QED
    BY <1>7, <2>1, <2>2, <2>3, <2>4, HandStep DEF Acking
<1>8. ASSUME NEW c \in Clients, pc'[c] \in Acking
      PROVE  ackTo'[c] \in named'[cur'[c]]
  <2>1. CASE pc[c] \in Acking /\ cur'[c] = cur[c]
    <3>1. ackTo'[c] = ackTo[c] /\ ackTo[c] \in named[cur[c]] /\ cur[c] \in Messages
      BY <2>1, NamedStep DEF FramesInv, InHand, WithMessage, SendLabels, Acking
    <3>. QED
      BY <2>1, <3>1, NamedStep
  <2>2. ASSUME NEW m \in Messages, NEW u \in Users, AckRead(c, m, u)
        PROVE  ackTo'[c] \in named'[cur'[c]]
    BY <2>2 DEF AckRead, TypeOK
  <2>. QED
    BY <1>8, <2>1, <2>2, AckingStep
<1>. QED
  BY <1>3, <1>4, <1>5, <1>6, <1>7, <1>8 DEF FramesInv

(* The acknowledgement comes only past a push or a publish (dm.go:58-75).  *)
LEMMA RoutedStep ==
  ASSUME TypeOK, InHand, FramesInv, RoutedInv, [Next]_vars
  PROVE  RoutedInv'
<1>1. ASSUME NEW m \in Messages, Routed(m)
      PROVE  Routed(m)'
  <2>1. handed[m] \in Nat /\ handed'[m] \in Nat
    BY TypeStep DEF TypeOK
  <2>2. handed'[m] >= handed[m] /\ (m \in published => m \in published')
    BY RowsStep
  <2>. QED
    BY <1>1, <2>1, <2>2 DEF Routed
<1>2. ASSUME NEW c \in Clients, pc'[c] \in {"dm_mark", "dm_ack"}
      PROVE  Routed(cur[c])'
  <2>1. TypeOK'
    BY TypeStep
  <2>2. CASE pc'[c] = pc[c] /\ cur'[c] = cur[c]
    BY <1>1, <1>2, <2>2 DEF RoutedInv, InHand, WithMessage, SendLabels, Routed
  <2>3. CASE OwnStep(c)
    <3>1. DmMark(c) \/ DmPublish(c)
      BY <1>2, <2>3 DEF OwnStep, Register, OpenSub, StoreSub, Fetch, FetchError, RowMark,
         DmPublishError, AckPublish, Insert, AckAny, AckRead, Disconnect, Leave, TakeSub, CloseSub,
         Goto, NextRow, TypeOK
    <3>2. pc[c] \in {"dm_mark", "dm_publish"} /\ cur' = cur /\ cur[c] \in Messages
      BY <3>1 DEF DmMark, DmPublish, InHand, WithMessage
    <3>3. CASE DmMark(c)
      BY <1>1, <3>2, <3>3 DEF DmMark, RoutedInv, Routed
    <3>4. CASE DmPublish(c)
      BY <3>2, <3>4 DEF DmPublish, Routed
    <3>. QED
      BY <3>1, <3>3, <3>4
  <2>4. CASE SendStep(<<c, "conn">>) /\ cur' = cur /\ pc'[c] # pc[c]
    <3>1. /\ Push(<<c, "conn">>) /\ pc[c] = "dm_send"
      BY <1>2, <2>4, SendMoves, ProcessEndsEffect, InstanceOfAssumption DEF After
    <3>2. cur[c] \in Messages /\ <<c, "conn">>[1] = c /\ <<c, "conn">>[2] = "conn"
      BY <3>1 DEF InHand, WithMessage, SendLabels
    <3>3. FrameIn(<<c, "conn">>).kind = "message" /\ FrameIn(<<c, "conn">>).msg = cur[c]
      BY <3>1, <3>2 DEF FrameIn
    <3>4. handed' = [handed EXCEPT ![cur[c]] = @ + 1]
      BY <3>1, <3>3 DEF Push
    <3>5. handed'[cur[c]] > 0
      BY <3>2, <3>4 DEF TypeOK
    <3>. QED
      BY <2>4, <3>5 DEF Routed
  <2>5. CASE ProcessEnds(InstanceOf[c]) /\ pc[c] # "new"
    BY <1>2, <2>5, ProcessEndsEffect, InstanceOfAssumption
  <2>. QED
    BY <2>2, <2>3, <2>4, <2>5, WhoMoves
<1>3. ASSUME NEW c \in Clients, NEW f \in ToSet(chan'[c]), f.kind = "sent"
      PROVE  Routed(f.msg)'
  <2>1. f \in Frame /\ f.msg \in Messages
    <3>1. TypeOK'
      BY TypeStep
    <3>2. f \in Frame
      BY <3>1, ToSetMember DEF TypeOK
    <3>. QED
      BY <3>2 DEF Frame
  <2>2. CASE f \in ToSet(chan[c])
    BY <1>1, <1>3, <2>1, <2>2 DEF RoutedInv, AckedWasRouted, Routed
  <2>3. CASE f \notin ToSet(chan[c])
    <3>1. PICK g \in Goroutines : Sending(g) /\ f = FrameIn(g)
      BY <2>3, ChanStep
    <3>2. g[1] \in Clients /\ g[2] \in {"conn", "fwd"}
      BY DEF Goroutines
    <3>3. g[2] = "conn"
      BY <1>3, <3>1, <3>2 DEF FrameIn, Sending, FramesInv, ViaRedis
    <3>4. pc[g[1]] = "dm_ack" /\ f.msg = cur[g[1]]
      BY <1>3, <3>1, <3>3 DEF FrameIn
    <3>5. Routed(f.msg)
      BY <3>2, <3>4 DEF RoutedInv
    <3>. QED
      BY <1>1, <2>1, <3>5
  <2>. QED
    BY <2>2, <2>3
<1>. QED
  BY <1>2, <1>3 DEF RoutedInv, AckedWasRouted, Routed
(* A connection leaves nothing behind before it registers and subscribes,  *)
(* and its disconnect hook holds a subscription only while it closes it.   *)
LEMMA UntouchedStep ==
  ASSUME TypeOK, InHand, Located, Untouched, SubsLocated, [Next]_vars
  PROVE  Untouched' /\ SubsLocated'
<1>1. TypeOK'
  BY TypeStep
<1>2. ASSUME NEW s \in Seq(Frame), ToSet(s) = {}
      PROVE  s = <<>>
  <2>1. s # <<>> => Head(s) \in ToSet(s)
    BY ToSetHeadTail
  <2>. QED
    BY <1>2, <2>1
<1>3. ASSUME NEW c \in Clients, pc'[c] = "new"
      PROVE  chan'[c] = <<>>
  <2>1. pc[c] = "new" /\ chan[c] = <<>>
    BY <1>3, PcStep DEF Untouched
  <2>2. ASSUME NEW f \in ToSet(chan'[c])
        PROVE  FALSE
    <3>1. PICK g \in Goroutines : call[g] # Idle /\ call[g].to = c
      BY <2>1, ChanStep, EmptySeq DEF ToSet
    <3>. QED
      BY <2>1, <3>1 DEF Located
  <2>. QED
    BY <1>1, <1>2, <2>2 DEF TypeOK
<1>4. ASSUME NEW c \in Clients, pc'[c] \in {"new", "hook", "dead"}
      PROVE  c \notin open' /\ inbox'[c] = <<>>
  <2>1. c \notin open /\ inbox[c] = <<>> /\ c \notin listening
    BY <1>4, PcStep DEF Untouched, TypeOK
  <2>2. ASSUME NEW f \in ToSet(inbox'[c])
        PROVE  FALSE
    BY <2>1, InboxStep, EmptySeq DEF ToSet
  <2>3. ~OpenSub(c)
    BY <1>4 DEF OpenSub, Goto, TypeOK
  <2>4. c \notin open'
    BY <2>1, <2>3, SubsStep
  <2>5. inbox'[c] \in Seq(Frame) /\ ToSet(inbox'[c]) = {}
    BY <1>1, <2>2 DEF TypeOK
  <2>. QED
    BY <1>2, <2>4, <2>5
<1>5. ASSUME NEW c \in Clients, held'[c] # NoClient
      PROVE  pc'[c] = "closing" /\ InstanceOf[held'[c]] = InstanceOf[c]
  <2>1. CASE TakeSub(c)
    <3>1. held'[c] = Sub(c) /\ pc'[c] = IF Sub(c) = NoClient THEN "gone" ELSE "closing"
      BY <2>1 DEF TakeSub, Goto, TypeOK
    <3>2. UserOf[c] \in Users /\ InstanceOf[c] \in Instances
      BY UserOfAssumption, InstanceOfAssumption
    <3>. QED
      BY <1>5, <3>1, <3>2 DEF SubsLocated, Sub
  <2>2. CASE held'[c] = held[c]
    <3>1. pc[c] = "closing" /\ InstanceOf[held[c]] = InstanceOf[c]
      BY <1>5, <2>2 DEF Untouched
    <3>2. ASSUME pc'[c] # pc[c]
          PROVE  FALSE
      <4>1. ~OwnStep(c)
        <5>1. ~CloseSub(c)
          BY <1>5 DEF CloseSub, TypeOK
        <5>. QED
          BY <3>1, <5>1 DEF OwnStep, Register, OpenSub, StoreSub, Fetch, FetchError, RowMark,
             DmMark, DmPublish, DmPublishError, AckPublish, Insert, AckAny, AckRead, Disconnect,
             Leave,
             TakeSub
      <4>2. ~ProcessEnds(InstanceOf[c])
        BY <1>5, <3>1, ProcessEndsEffect, InstanceOfAssumption
      <4>. QED
        BY <3>1, <3>2, <4>1, <4>2, WhoMoves, SendMoves DEF SendLabels
    <3>. QED
      BY <2>2, <3>1, <3>2
  <2>. QED
    BY <1>5, <2>1, <2>2, SubsStep
<1>6. ASSUME NEW i \in Instances, NEW u \in Users, subs'[i][u] # NoClient
      PROVE  InstanceOf[subs'[i][u]] = i
  BY <1>6, SubsStep DEF SubsLocated
<1>. QED
  BY <1>3, <1>4, <1>5, <1>6 DEF Untouched, SubsLocated

(* A handler comes to its push with the row it inserted.                   *)
LEMMA SendingStep ==
  ASSUME TypeOK, InHand, [Next]_vars, NEW c \in Clients, pc'[c] = "dm_send"
  PROVE  \/ pc[c] = "dm_send" /\ cur'[c] = cur[c]
         \/ \E m \in Messages : Insert(c, m) /\ cur'[c] = m
<1>1. CASE pc'[c] = pc[c] /\ cur'[c] = cur[c]
  BY <1>1
<1>2. CASE OwnStep(c)
  BY <1>2 DEF OwnStep, Register, OpenSub, StoreSub, Fetch, FetchError, RowMark,
     DmMark, DmPublish, DmPublishError, AckPublish, Insert, AckAny, AckRead, Disconnect,
     Leave, TakeSub, CloseSub, Goto, NextRow, TypeOK
<1>3. CASE ProcessEnds(InstanceOf[c]) /\ pc[c] # "new"
  BY <1>3, ProcessEndsEffect, InstanceOfAssumption
<1>4. CASE SendStep(<<c, "conn">>) /\ cur' = cur /\ pc'[c] # pc[c]
  <2>1. ~ProcessEnds(InstanceOf[c])
    BY <1>4, ProcessEndsEffect, InstanceOfAssumption
  <2>. QED
    BY <1>4, <2>1, SendMoves DEF After
<1>. QED
  BY <1>1, <1>2, <1>3, <1>4, WhoMoves

(* What is pending is a stored row (dm.go:43).                             *)
LEMMA RowsInvStep ==
  ASSUME TypeOK, InHand, RowsInv, [Next]_vars
  PROVE  RowsInv'
<1>1. ASSUME NEW m \in Messages
      PROVE  /\ db'[m] = "sent" => m \in ToSet(stored')
             /\ db'[m] = "absent" => handler'[m] = NoClient /\ m \notin ToSet(Queued)
  <2>1. db'[m] = "sent" => m \in ToSet(stored')
    BY StoredStep DEF RowsInv
  <2>2. ASSUME db'[m] = "absent"
        PROVE  handler'[m] = NoClient /\ m \notin ToSet(Queued)
    <3>1. db[m] = "absent"
      BY <2>2, RowsStep
    <3>2. ASSUME NEW c \in Clients, Insert(c, m)
          PROVE  FALSE
      BY <2>2, <3>2 DEF Insert, InsertRow, Mark, MarkRead, TypeOK
    <3>. QED
      BY <3>1, <3>2, StoredStep DEF RowsInv
  <2>. QED
    BY <2>1, <2>2
<1>2. ASSUME NEW c \in Clients, pc'[c] = "dm_send"
      PROVE  cur'[c] \notin ToSet(Queued)
  <2>1. ASSUME NEW m \in Messages, Insert(c, m), cur'[c] = m
        PROVE  m \notin ToSet(Queued)
    BY <2>1 DEF Insert, InsertRow, RowsInv
  <2>. QED
    BY <1>2, <2>1, SendingStep DEF RowsInv
<1>. QED
  BY <1>1, <1>2 DEF RowsInv

(* What a connection's push of the message in hand counts.                 *)
LEMMA PushCounts ==
  ASSUME TypeOK, InHand, NEW c \in Clients, Push(<<c, "conn">>),
         pc[c] \in {"row_send", "dm_send"}
  PROVE  cur[c] \in Messages /\ handed'[cur[c]] > 0
<1>1. cur[c] \in Messages /\ <<c, "conn">>[1] = c /\ <<c, "conn">>[2] = "conn"
  BY DEF InHand, WithMessage, SendLabels
<1>2. FrameIn(<<c, "conn">>).kind = "message" /\ FrameIn(<<c, "conn">>).msg = cur[c]
  BY <1>1 DEF FrameIn
<1>3. handed' = [handed EXCEPT ![cur[c]] = @ + 1]
  BY <1>2 DEF Push
<1>. QED
  BY <1>1, <1>3 DEF TypeOK

(* A send that reaches nobody found no current client, or evicts the one   *)
(* it found.                                                               *)
LEMMA FailedSend ==
  ASSUME TypeOK, InHand, NEW g \in Goroutines, NEW c \in Clients,
         LookupNone(g) \/ Evict(g),
         InstanceOf[g[1]] = InstanceOf[c], Target(g) = UserOf[c],
         call[g] # Idle => call[g].to = c
  PROVE  ~Current(c)'
<1>1. UserOf[c] \in Users /\ InstanceOf[c] \in Instances /\ c # NoClient
  BY UserOfAssumption, InstanceOfAssumption, NoneAssumption
<1>2. CASE LookupNone(g)
  BY <1>1, <1>2 DEF LookupNone, Found, Current, hubVars
<1>3. CASE Evict(g)
  <2>1. call[g] # Idle
    BY <1>3 DEF Evict, Idle
  <2>2. Unregister(c)
    BY <1>3, <2>1 DEF Evict
  <2>3. CASE Current(c)
    <3>1. clients' = [clients EXCEPT ![InstanceOf[c]][UserOf[c]] = NoClient]
      BY <2>2, <2>3 DEF Unregister
    <3>. QED
      BY <1>1, <3>1 DEF Current, TypeOK
  <2>4. CASE ~Current(c)
    BY <2>2, <2>4 DEF Unregister, Current
  <2>. QED
    BY <2>3, <2>4
<1>. QED
  BY <1>2, <1>3

(* The connect hook marks only what it pushed, as long as its client is    *)
(* current (main.go:216-227).                                              *)
LEMMA HookStep ==
  ASSUME TypeOK, InHand, HookInv, [Next]_vars
  PROVE  HookInv'
<1>1. ASSUME NEW c \in Clients, c \in caughtUp'
      PROVE  pc'[c] \notin Early
  <2>1. CASE c \in caughtUp
    BY <2>1, PcStep DEF HookInv, Early
  <2>2. CASE c \notin caughtUp
    <3>1. Fetch(c)
      BY <1>1, <2>2, CaughtUpStep
    <3>. QED
      BY <3>1 DEF Fetch, NextRow, Goto, TypeOK, Early
  <2>. QED
    BY <2>1, <2>2
<1>2. ASSUME NEW c \in Clients, Current(c)', pc'[c] = "row_mark"
      PROVE  handed'[cur'[c]] > 0
  <2>1. Current(c)
    <3>1. ~Register(c)
      BY <1>2 DEF Register, Goto, TypeOK
    <3>. QED
      BY <1>2, <3>1, CurrentStep
  <2>2. ~ProcessEnds(InstanceOf[c])
    BY <1>2, EndedNotCurrent
  <2>3. ~OwnStep(c)
    BY <1>2 DEF OwnStep, Register, OpenSub, StoreSub, Fetch, FetchError, RowMark, DmMark, DmPublish,
       DmPublishError, AckPublish, Insert, AckAny, AckRead, Disconnect, Leave, TakeSub, CloseSub,
       Goto, NextRow, TypeOK
  <2>4. CASE pc'[c] = pc[c] /\ cur'[c] = cur[c]
    <3>1. cur[c] \in Messages /\ handed[cur[c]] > 0
      BY <1>2, <2>1, <2>4 DEF HookInv, InHand, WithMessage
    <3>2. handed[cur[c]] \in Nat /\ handed'[cur[c]] \in Nat
      BY <3>1, TypeStep DEF TypeOK
    <3>3. handed'[cur[c]] >= handed[cur[c]]
      BY <3>1, RowsStep
    <3>. QED
      BY <2>4, <3>1, <3>2, <3>3
  <2>5. CASE SendStep(<<c, "conn">>) /\ cur' = cur /\ pc'[c] # pc[c]
    <3> DEFINE g == <<c, "conn">>
    <3>1. g \in Goroutines /\ g[1] = c /\ g[2] = "conn"
      BY DEF Goroutines
    <3>2. pc[c] = "row_send" /\ (LookupNone(g) \/ Evict(g) \/ Push(g))
      BY <1>2, <2>2, <2>5, SendMoves DEF After
    <3>3. Target(g) = UserOf[c]
      BY <3>1, <3>2 DEF Target
    <3>4. call[g] # Idle => call[g].to = c
      BY <2>1, <3>2 DEF HookInv
    <3> HIDE DEF g
    <3>5. ~LookupNone(g) /\ ~Evict(g)
      BY <1>2, <3>1, <3>3, <3>4, FailedSend
    <3>6. Push(<<c, "conn">>)
      BY <3>2, <3>5 DEF g
    <3>. QED
      BY <2>5, <3>2, <3>6, PushCounts
  <2>. QED
    BY <2>2, <2>3, <2>4, <2>5, WhoMoves
<1>3. ASSUME NEW c \in Clients, Current(c)', pc'[c] = "row_send", call'[<<c, "conn">>] # Idle
      PROVE  call'[<<c, "conn">>].to = c
  <2> DEFINE g == <<c, "conn">>
  <2>1. g \in Goroutines /\ g[1] = c /\ g[2] = "conn"
    BY DEF Goroutines
  <2>2. pc[c] = "row_send"
    BY <1>3, <2>1, CallStep
  <2>3. Current(c)
    BY <1>3, <2>2, CurrentStep
  <2>4. CASE call[g] # Idle /\ call'[g].to = call[g].to
    BY <2>2, <2>3, <2>4 DEF HookInv
  <2>5. CASE Lookup(g) /\ call'[g].to = Found(g)
    <3>1. Found(g) = clients[InstanceOf[c]][UserOf[c]]
      BY <2>1, <2>2 DEF Found, Target
    <3>. QED
      BY <2>3, <2>5, <3>1 DEF Current
  <2>. QED
    BY <1>3, <2>1, <2>4, <2>5, CallStep
<1>. QED
  BY <1>1, <1>2, <1>3 DEF HookInv, Early
(* While a connection that caught up stays current, no row leaves its      *)
(* rows to push before it was pushed.                                      *)
LEMMA TodoOrHanded ==
  ASSUME TypeOK, InHand, HookInv, [Next]_vars,
         NEW c \in Clients, c \in caughtUp, Current(c), Current(c)',
         NEW m \in Messages, m \in ToSet(todo[c])
  PROVE  m \in ToSet(todo'[c]) \/ handed'[m] > 0
<1>1. ~ProcessEnds(InstanceOf[c])
  BY EndedNotCurrent
<1>2. pc[c] # "fetch"
  BY DEF HookInv
<1>3. CASE pc[c] = "row_mark" /\ m = cur[c]
  <2>1. handed[m] > 0 /\ handed[m] \in Nat /\ handed'[m] \in Nat
    BY <1>3, TypeStep DEF HookInv, TypeOK
  <2>2. handed'[m] >= handed[m]
    BY RowsStep
  <2>. QED
    BY <2>1, <2>2
<1>. QED
  BY <1>1, <1>2, <1>3, TodoStep

(* When a connection catches up, all that is pending for it is fetched.    *)
LEMMA CaughtUpHasAll ==
  ASSUME TypeOK, InHand, RowsInv, [Next]_vars,
         NEW c \in Clients, c \in caughtUp', c \notin caughtUp,
         NEW m \in Messages, PendingFor(c, m)
  PROVE  m \in ToSet(todo'[c])
<1>1. Fetch(c)
  BY CaughtUpStep
<1>2. PICK rows \in Seq(Messages) :
        /\ NextRow(c, rows)
        /\ \/ \A n \in ToSet(stored) : Fetchable(c, n) => n \in ToSet(rows)
           \/ caughtUp' = caughtUp
  BY <1>1, FetchedRows
<1>3. m \in ToSet(stored)
  BY DEF RowsInv, PendingFor
<1>4. todo'[c] = rows
  BY <1>2 DEF NextRow, TypeOK
<1>. QED
  BY <1>2, <1>3, <1>4 DEF PendingFor, Fetchable

(* What is pending after a step and was stored before it was pending.      *)
LEMMA PendingStep ==
  ASSUME TypeOK, InHand, [Next]_vars, NEW c, NEW m \in Messages,
         PendingFor(c, m)', db[m] # "absent"
  PROVE  PendingFor(c, m)
BY StoredStep DEF PendingFor

(* A handler's lookup either finds the current client, or came before that *)
(* one registered, and so before its fetch (dm.go:43-58, handler.go:49).   *)
LEMMA HandlerStep ==
  ASSUME TypeOK, InHand, FramesInv, RowsInv, HookInv, HandlerInv, [Next]_vars
  PROVE  HandlerInv'
<1> SUFFICES ASSUME NEW h \in Clients, NEW c \in Clients, c \in caughtUp',
                    pc'[h] = "dm_send", call'[<<h, "conn">>] # Idle,
                    Current(c)', PendingFor(c, cur[h])', InstanceOf[h] = InstanceOf[c]
             PROVE  \/ call'[<<h, "conn">>].to = c
                    \/ handed'[cur'[h]] > 0
                    \/ cur'[h] \in ToSet(todo'[c])
  <2>1. TypeOK'
    BY TypeStep
  <2>2. caughtUp' \subseteq Clients
    BY <2>1 DEF TypeOK
  <2>. QED
    BY <2>2 DEF HandlerInv
<1> DEFINE g == <<h, "conn">>
           m == cur[h]
<1>1. g \in Goroutines /\ g[1] = h /\ g[2] = "conn"
  BY DEF Goroutines
<1>2. pc[h] = "dm_send" /\ cur'[h] = m
  BY <1>1, CallStep
<1>3. m \in Messages /\ db[m] # "absent"
  BY <1>2 DEF InHand, FramesInv, WithMessage, SendLabels, Acking
<1>4. PendingFor(c, m)
  <2>1. ASSUME NEW n \in Messages, n = m
        PROVE  PendingFor(c, n)
    <3>1. PendingFor(c, n)'
      BY <1>2, <2>1 DEF PendingFor
    <3>. QED
      BY <1>3, <2>1, <3>1, PendingStep
  <2>. QED
    BY <1>3, <2>1
<1>5. CASE c \notin caughtUp
  BY <1>2, <1>3, <1>4, <1>5, CaughtUpHasAll
<1>6. CASE c \in caughtUp
  <2>1. Current(c)
    BY <1>6, CurrentStep DEF HookInv
  <2>2. CASE Lookup(g) /\ call'[g].to = Found(g)
    <3>1. Found(g) = clients[InstanceOf[c]][UserOf[c]]
      BY <1>1, <1>2, <1>4 DEF Found, Target, PendingFor, RowsInv
    <3>. QED
      BY <2>1, <2>2, <3>1 DEF Current
  <2>3. CASE call[g] # Idle /\ call'[g].to = call[g].to
    <3>1. call[g].to = c \/ handed[m] > 0 \/ m \in ToSet(todo[c])
      BY <1>2, <1>4, <1>6, <2>1, <2>3 DEF HandlerInv
    <3>2. handed[m] > 0 => handed'[m] > 0
      <4>1. handed[m] \in Nat /\ handed'[m] \in Nat /\ handed'[m] >= handed[m]
        BY <1>3, TypeStep, RowsStep DEF TypeOK
      <4>. QED
        BY <4>1
    <3>3. m \in ToSet(todo[c]) => m \in ToSet(todo'[c]) \/ handed'[m] > 0
      BY <1>3, <1>6, <2>1, TodoOrHanded
    <3>. QED
      BY <1>2, <2>3, <3>1, <3>2, <3>3
  <2>. QED
    BY <1>1, <2>2, <2>3, CallStep
<1>. QED
  BY <1>5, <1>6

(* No message falls between its handler and the connect hook.              *)
LEMMA StrandedStep ==
  ASSUME TypeOK, InHand, RowsInv, HookInv, HandlerInv, NoneStranded, [Next]_vars
  PROVE  NoneStranded'
<1> SUFFICES ASSUME NEW c \in Clients, c \in caughtUp', NEW m \in Messages,
                    Current(c)', PendingFor(c, m)'
             PROVE  Reached(c, m)'
  <2>1. TypeOK'
    BY TypeStep
  <2>2. caughtUp' \subseteq Clients
    BY <2>1 DEF TypeOK
  <2>. QED
    BY <2>2 DEF NoneStranded
<1> DEFINE h == handler[m]
<1>1. CASE db[m] = "absent"
  <2>1. h = NoClient /\ m \notin ToSet(Queued)
    BY <1>1 DEF RowsInv
  <2>2. CASE handler'[m] = NoClient
    BY <2>1, <2>2 DEF Reached
  <2>3. ASSUME NEW d \in Clients, Insert(d, m), handler'[m] = d
        PROVE  Reached(c, m)'
    <3>1. pc'[d] = "dm_send" /\ cur'[d] = m /\ d # NoClient
      BY <2>3, NoneAssumption DEF Insert, Goto, TypeOK
    <3>. QED
      BY <2>3, <3>1 DEF Reached
  <2>. QED
    BY <2>1, <2>2, <2>3, StoredStep
<1>2. CASE db[m] # "absent"
  <2>1. PendingFor(c, m)
    BY <1>2, PendingStep
  <2>2. CASE c \notin caughtUp
    BY <2>1, <2>2, CaughtUpHasAll DEF Reached
  <2>3. CASE c \in caughtUp
    <3>1. Current(c) /\ ~ProcessEnds(InstanceOf[c])
      BY <2>3, CurrentStep, EndedNotCurrent DEF HookInv
    <3>2. handler'[m] = h
      <4>1. ASSUME NEW d \in Clients
            PROVE  ~Insert(d, m)
        BY <1>2 DEF Insert, InsertRow
      <4>. QED
        BY <4>1, StoredStep
    <3>3. Reached(c, m)
      BY <2>1, <2>3, <3>1 DEF NoneStranded
    <3>4. handed[m] > 0 => handed'[m] > 0
      <4>1. handed[m] \in Nat /\ handed'[m] \in Nat /\ handed'[m] >= handed[m]
        BY TypeStep, RowsStep DEF TypeOK
      <4>. QED
        BY <4>1
    <3>5. m \in ToSet(todo[c]) => m \in ToSet(todo'[c]) \/ handed'[m] > 0
      BY <2>3, <3>1, TodoOrHanded
    <3>6. ASSUME h # NoClient, InstanceOf[h] = InstanceOf[c], pc[h] = "dm_send", cur[h] = m
          PROVE  Reached(c, m)'
      <4> DEFINE g == <<h, "conn">>
      <4>1. h \in Clients
        BY <3>6 DEF TypeOK
      <4>2. g \in Goroutines /\ g[1] = h /\ g[2] = "conn"
        BY <4>1 DEF Goroutines
      <4>3. CASE pc'[h] = pc[h] /\ cur'[h] = cur[h]
        BY <3>2, <3>6, <4>3 DEF Reached
      <4>4. ~OwnStep(h)
        BY <3>6 DEF OwnStep, Register, OpenSub, StoreSub, Fetch, FetchError, RowMark, DmMark,
           DmPublish, DmPublishError, AckPublish, Insert, AckAny, AckRead, Disconnect, Leave,
           TakeSub,
           CloseSub
      <4>5. CASE SendStep(g) /\ cur' = cur /\ pc'[h] # pc[h]
        <5>1. LookupNone(g) \/ Evict(g) \/ Push(g)
          BY <3>1, <3>6, <4>1, <4>5, SendMoves
        <5>2. CASE Push(g)
          BY <3>2, <3>6, <4>1, <5>2, PushCounts DEF Reached
        <5>3. CASE LookupNone(g) \/ Evict(g)
          <6>1. Target(g) = UserOf[c] /\ InstanceOf[g[1]] = InstanceOf[c]
            BY <2>1, <3>6, <4>1, <4>2 DEF Target, PendingFor, RowsInv
          <6>2. ~(call[g] # Idle => call[g].to = c)
            <7> HIDE DEF g
            <7>. QED
              BY <4>2, <5>3, <6>1, FailedSend
          <6>3. handed[m] > 0 \/ m \in ToSet(todo[c])
            BY <2>1, <2>3, <3>1, <3>6, <4>1, <6>2 DEF HandlerInv
          <6>. QED
            BY <3>4, <3>5, <6>3 DEF Reached
        <5>. QED
          BY <5>1, <5>2, <5>3
      <4>. QED
        BY <3>1, <3>6, <4>1, <4>3, <4>4, <4>5, WhoMoves
    <3>. QED
      BY <3>2, <3>3, <3>4, <3>5, <3>6 DEF Reached
  <2>. QED
    BY <2>2, <2>3
<1>. QED
  BY <1>1, <1>2

-----------------------------------------------------------------------------
(* The invariant holds at the start: nothing is anywhere but the queue.    *)
LEMMA InitInv ==
  ASSUME Init
  PROVE  IInv
<1>1. ToSet(Queued) \subseteq Messages
  BY QueuedAssumption, ToSetMember
<1>2. TypeOK
  BY <1>1, QueuedAssumption, UserOfAssumption, EmptySeq DEF Init, TypeOK, Pcs
<1>3. \A f : f \notin ToSet(<<>>)
  BY DEF ToSet
<1>4. InHand
  BY DEF Init, InHand, WithMessage, SendLabels
<1>5. Located
  BY DEF Init, Located
<1>6. FramesInv
  BY <1>3 DEF Init, FramesInv, WithMessage, SendLabels, Acking
<1>7. RoutedInv
  BY <1>3 DEF Init, RoutedInv, AckedWasRouted
<1>8. Untouched /\ SubsLocated
  BY DEF Init, Untouched, SubsLocated
<1>9. RowsInv
  BY DEF Init, RowsInv
<1>10. HookInv
  BY DEF Init, HookInv
<1>11. HandlerInv /\ NoneStranded
  BY DEF Init, HandlerInv, NoneStranded
<1>. QED
  BY <1>2, <1>4, <1>5, <1>6, <1>7, <1>8, <1>9, <1>10, <1>11 DEF IInv

(* Every step keeps the invariant.                                         *)
LEMMA InvStep ==
  ASSUME IInv, [Next]_vars
  PROVE  IInv'
<1> USE DEF IInv
<1>1. TypeOK' /\ InHand'
  BY TypeStep, InHandStep
<1>2. Located' /\ FramesInv' /\ RoutedInv'
  BY LocatedStep, FramesStep, RoutedStep
<1>3. Untouched' /\ SubsLocated'
  BY UntouchedStep
<1>4. RowsInv' /\ HookInv'
  BY RowsInvStep, HookStep
<1>5. HandlerInv' /\ NoneStranded'
  BY HandlerStep, StrandedStep
<1>. QED
  BY <1>1, <1>2, <1>3, <1>4, <1>5

(* The invariant holds in every reachable state.                            *)
LEMMA Invariant == Spec => []IInv
<1>1. Init => IInv
  BY InitInv
<1>2. IInv /\ [Next]_vars => IInv'
  BY InvStep
<1>. QED
  BY <1>1, <1>2, PTL DEF Spec

(* Every variable keeps its type, whatever fails.                          *)
THEOREM TypeCorrect == Spec => []TypeOK
<1>1. IInv => TypeOK
  BY DEF IInv
<1>. QED
  BY <1>1, Invariant, PTL

(* A message or an acknowledgement that waits in a channel or a            *)
(* subscription is about a stored row and with the users of that row; a    *)
(* read receipt is with a user whom an acknowledgement of that message     *)
(* named, be he its sender or not (dm.go:43-75, 80-107,                    *)
(* messages.go:78-86).                                                     *)
THEOREM FramesAlwaysFit == Spec => []FramesFit
<1>1. IInv => FramesFit
  <2>1. SUFFICES ASSUME IInv, NEW c \in Clients, NEW f \in ToSet(chan[c]) \union ToSet(inbox[c])
                 PROVE  /\ f.kind # "read" => db[f.msg] # "absent"
                        /\ CASE f.kind = "sent" -> UserOf[c] = SenderOf[f.msg]
                             [] f.kind = "read" -> UserOf[c] \in named[f.msg]
                             [] OTHER -> UserOf[c] \in {ReceiverOf[f.msg], MemberOf[f.msg]}
                        /\ f \in ToSet(inbox[c]) /\ f.kind = "message"
                              => UserOf[c] = ReceiverOf[f.msg]
    BY DEF FramesFit, FramesAreStored, RightAudience
  <2>2. Fits(c, f) /\ (f \in ToSet(inbox[c]) => ViaRedis(c, f))
    BY <2>1 DEF IInv, FramesInv
  <2>3. f \in Frame
    BY <2>1, ToSetMember DEF IInv, TypeOK
  <2>4. f.kind \in {"message", "sent", "read"}
    BY <2>3 DEF Frame
  <2>. QED
    BY <2>2, <2>4 DEF Fits, ViaRedis
<1>. QED
  BY <1>1, Invariant, PTL

(* Nobody is acknowledged a message that no hub and no Redis accepted      *)
(* (dm.go:58-75).                                                          *)
THEOREM AckedWasAlwaysRouted == Spec => []AckedWasRouted
<1>1. IInv => AckedWasRouted
  BY DEF IInv, RoutedInv
<1>. QED
  BY <1>1, Invariant, PTL

(* No message of its own process, and none that was queued, is lost to a   *)
(* connection that has caught up and is current (dm.go:43-58).             *)
THEOREM NoneIsStranded == Spec => []NoneStranded
<1>1. IInv => NoneStranded
  BY DEF IInv
<1>. QED
  BY <1>1, Invariant, PTL
(* Only a push of a new message counts.                                    *)
LEMMA HandedStep ==
  ASSUME TypeOK, InHand, [Next]_vars, NEW m \in Messages, handed'[m] # handed[m]
  PROVE  \E g \in Goroutines : /\ Sending(g) /\ FrameIn(g) \in Frame
                               /\ FrameIn(g).kind = "message" /\ FrameIn(g).msg = m
<1>1. ASSUME NEW d \in Clients, OwnStep(d) \/ SideStep(d) \/ QuietStep(d)
      PROVE  FALSE
  BY <1>1 DEF OwnStep, SideStep, Register, OpenSub, StoreSub, Fetch, FetchError, RowMark,
     DmMark, DmPublish, DmPublishError, AckPublish, Insert, AckAny, AckRead, QuietStep,
     InsertLost, AckSilently, Disconnect,
     Leave, TakeSub, CloseSub, Write, Confirm, LoseRedis, Forward, history
<1>2. ASSUME NEW i \in Instances, ProcessEnds(i)
      PROVE  FALSE
  BY <1>2, ProcessEndsEffect DEF history
<1>3. ASSUME NEW g \in Goroutines, SendStep(g)
      PROVE  /\ Sending(g) /\ FrameIn(g) \in Frame
             /\ FrameIn(g).kind = "message" /\ FrameIn(g).msg = m
  <2>1. Push(g)
    BY <1>2, <1>3, SendCases DEF LookupNone, Lookup, PushFull, Evict, history
  <2>2. call[g] # Idle
    BY <2>1 DEF Push, Idle
  <2>3. Sending(g) /\ FrameIn(g) \in Frame
    BY <2>2, SendingHasFrame DEF InHand
  <2>4. handed' = IF FrameIn(g).kind = "message"
                  THEN [handed EXCEPT ![FrameIn(g).msg] = @ + 1] ELSE handed
    BY <2>1 DEF Push
  <2>5. FrameIn(g).kind = "message" /\ FrameIn(g).msg = m
    BY <2>4 DEF TypeOK
  <2>. QED
    BY <2>3, <2>5
<1>4. Next
  BY DEF vars, history
<1>. QED
  BY <1>1, <1>2, <1>3, <1>4, WhoSteps

(* A goroutine comes to a push or a publish with a message it had there    *)
(* before, with a row of its connect hook, or with the row it inserted.    *)
LEMMA PushingStep ==
  ASSUME TypeOK, InHand, [Next]_vars, NEW c \in Clients,
         pc'[c] \in {"dm_send", "dm_publish", "row_send"}
  PROVE  \/ pc[c] \in {"dm_send", "dm_publish", "row_send"} /\ cur'[c] = cur[c]
         \/ cur'[c] \in ToSet(todo'[c])
         \/ \E m \in Messages : Insert(c, m) /\ cur'[c] = m
<1>1. CASE pc'[c] = pc[c] /\ cur'[c] = cur[c]
  BY <1>1
<1>2. CASE pc'[c] = "row_send"
  <2>1. todo'[c] # <<>> /\ cur'[c] = Head(todo'[c]) /\ todo'[c] \in Seq(Messages)
    BY <1>2, TypeStep, InHandStep DEF TypeOK, InHand
  <2>. QED
    BY <2>1, ToSetHeadTail
<1>3. CASE OwnStep(c) /\ pc'[c] # "row_send"
  BY <1>3 DEF OwnStep, Register, OpenSub, StoreSub, Fetch, FetchError, RowMark,
     DmMark, DmPublish, DmPublishError, AckPublish, Insert, AckAny, AckRead, Disconnect,
     Leave, TakeSub, CloseSub, Goto, NextRow, TypeOK
<1>4. CASE ProcessEnds(InstanceOf[c]) /\ pc[c] # "new"
  BY <1>4, ProcessEndsEffect, InstanceOfAssumption
<1>5. CASE SendStep(<<c, "conn">>) /\ cur' = cur /\ pc'[c] # pc[c] /\ pc'[c] # "row_send"
  <2>1. ~ProcessEnds(InstanceOf[c])
    BY <1>5, ProcessEndsEffect, InstanceOfAssumption
  <2>. QED
    BY <1>5, <2>1, SendMoves DEF After
<1>. QED
  BY <1>1, <1>2, <1>3, <1>4, <1>5, WhoMoves

(* A settled message stays so, and is not pushed again.                    *)
LEMMA SettledStep ==
  ASSUME TypeOK, InHand, [Next]_vars, NEW m \in Messages, Settled(m)
  PROVE  Settled(m)' /\ handed'[m] = handed[m]
<1> DEFINE f == [kind |-> "message", msg |-> m]
<1>1. /\ db[m] \in {"delivered", "read"}
      /\ \A c \in Clients :
            /\ m \notin ToSet(todo[c])
            /\ cur[c] = m => pc[c] \notin {"dm_send", "dm_publish", "row_send"}
            /\ f \notin ToSet(inbox[c]) /\ f # carried[c]
  BY DEF Settled
<1>2. db'[m] \in {"delivered", "read"}
  BY <1>1, RowsStep
<1>3. ASSUME NEW c \in Clients
      PROVE  m \notin ToSet(todo'[c])
  BY <1>1, TodoStep DEF Fetchable
<1>4. ASSUME NEW c \in Clients, cur'[c] = m, pc'[c] \in {"dm_send", "dm_publish", "row_send"}
      PROVE  FALSE
  BY <1>1, <1>3, <1>4, PushingStep DEF Insert, InsertRow
<1>5. ASSUME NEW c \in Clients
      PROVE  f \notin ToSet(inbox'[c])
  <2>1. SUFFICES ASSUME f \in ToSet(inbox'[c])
                 PROVE  FALSE
    OBVIOUS
  <2>2. f \notin ToSet(inbox[c])
    BY <1>1
  <2>3. PICK d \in Clients :
           \/ /\ pc[d] = "dm_publish" /\ f = [kind |-> "message", msg |-> cur[d]]
           \/ f = [kind |-> "read", msg |-> cur[d]]
    BY <2>1, <2>2, InboxStep
  <2>. QED
    BY <1>1, <2>3
<1>6. ASSUME NEW c \in Clients
      PROVE  f # carried'[c]
  <2>1. f \in Frame
    BY DEF Frame
  <2>2. f # NoFrame
    BY <2>1, NoneAssumption
  <2>. QED
    BY <1>1, <2>2, CarriedStep
<1>7. handed'[m] = handed[m]
  <2>1. SUFFICES ASSUME handed'[m] # handed[m]
                 PROVE  FALSE
    OBVIOUS
  <2>2. PICK g \in Goroutines : /\ Sending(g) /\ FrameIn(g) \in Frame
                                /\ FrameIn(g).kind = "message" /\ FrameIn(g).msg = m
    BY <2>1, HandedStep
  <2>3. g[1] \in Clients
    BY DEF Goroutines
  <2>4. CASE g[2] = "fwd"
    <3>1. FrameIn(g) = f
      BY <2>2 DEF Frame
    <3>. QED
      BY <1>1, <2>3, <2>4, <3>1 DEF FrameIn
  <2>5. CASE g[2] # "fwd"
    <3>1. cur[g[1]] = m /\ pc[g[1]] \in {"row_send", "dm_send"}
      BY <2>2, <2>5 DEF FrameIn
    <3>. QED
      BY <1>1, <2>3, <3>1
  <2>. QED
    BY <2>4, <2>5
<1>. QED
  BY <1>2, <1>3, <1>4, <1>5, <1>6, <1>7 DEF Settled

(* Once a message is marked and in nobody's hand, nothing pushes it again, *)
(* whoever logs in, reads, retries or crashes (dm.go:58-67,                *)
(* main.go:216-227, messages.go:78-102).                                   *)
THEOREM SettledIsNeverResent == Spec => SettledIsNotResent
<1>1. IInv /\ [Next]_vars =>
        [\A m \in Messages : Settled(m) => Settled(m)' /\ handed'[m] = handed[m]]_vars
  BY SettledStep DEF IInv
<1>. QED
  BY <1>1, Invariant, PTL DEF Spec, SettledIsNotResent

-----------------------------------------------------------------------------
(* Every hub of the system is one of module Hub.                           *)

(* What a hub sees is in these four parts of the state.                    *)
SameHub(i) ==
    /\ clients'[i] = clients[i]
    /\ \A c \in Local(i) : /\ (pc'[c] = "new" <=> pc[c] = "new")
                           /\ Len(chan'[c]) = Len(chan[c])
                           /\ closes'[c] = closes[c]

(* A step that leaves these parts alone is none of the hub.                 *)
LEMMA HubStutters ==
  ASSUME NEW i \in Instances, SameHub(i)
  PROVE  UNCHANGED H(i)!vars
<1>1. {c \in Local(i) : pc'[c] # "new"} = {c \in Local(i) : pc[c] # "new"}
  BY DEF SameHub
<1>2. [c \in Local(i) |-> Len(chan'[c])] = [c \in Local(i) |-> Len(chan[c])]
  BY DEF SameHub
<1>3. [c \in Local(i) |-> closes'[c]] = [c \in Local(i) |-> closes[c]]
  BY DEF SameHub
<1>. QED
  BY <1>1, <1>2, <1>3 DEF H!vars, SameHub

(* A connection registers by itself, never by a send of somebody.          *)
LEMMA SendKeepsNew ==
  ASSUME TypeOK, InHand, NEW g \in Goroutines, SendStep(g), NEW c \in Clients
  PROVE  pc[c] = "new" => pc'[c] = "new"
<1>1. g[1] \in Clients /\ g[2] \in {"conn", "fwd"}
  BY GoroutinePairs
<1>2. ASSUME NEW ok \in BOOLEAN, Sending(g), Return(g, ok)
      PROVE  pc[c] = "new" => pc'[c] = "new"
  BY <1>1, <1>2, ReturnEffect DEF TypeOK, SendLabels
<1>3. call[g] # Idle => Sending(g)
  BY DEF InHand
<1>4. CASE LookupNone(g)
  BY <1>2, <1>4 DEF LookupNone
<1>5. CASE Evict(g) \/ Push(g)
  <2>1. call[g] # Idle
    <3>1. call[g].step \in {"found", "full"}
      BY <1>5 DEF Evict, Push
    <3>. QED
      BY <3>1 DEF Idle
  <2>. QED
    BY <1>2, <1>3, <1>5, <2>1 DEF Evict, Push
<1>6. CASE Lookup(g) \/ PushFull(g)
  BY <1>6 DEF Lookup, PushFull
<1>7. CASE pc' = [pc EXCEPT ![g[1]] = "abandoned"] /\ pc[g[1]] = "row_send"
  BY <1>1, <1>7 DEF TypeOK
<1>8. CASE InstanceOf[g[1]] \in Instances /\ ProcessEnds(InstanceOf[g[1]])
  BY <1>8, ProcessEndsEffect
<1>. QED
  BY <1>4, <1>5, <1>6, <1>7, <1>8, SendCases

(* A connection registers at the hub of its process (hub.go:37-41).         *)
LEMMA HubRegisters ==
  ASSUME TypeOK, NEW i \in Instances, NEW c \in Clients, Register(c)
  PROVE  [H(i)!Next]_(H(i)!vars)
<1>1. UserOf[c] \in Users /\ InstanceOf[c] \in Instances
  BY UserOfAssumption, InstanceOfAssumption
<1>2. CASE InstanceOf[c] = i
  <2>1. c \in Local(i) /\ pc[c] = "new"
    BY <1>2 DEF Local, Register
  <2>2. clients'[i] = [clients[i] EXCEPT ![UserOf[c]] = c]
    BY <1>1, <1>2 DEF Register, TypeOK
  <2>3. {d \in Local(i) : pc'[d] # "new"} = {d \in Local(i) : pc[d] # "new"} \union {c}
    BY <2>1 DEF Register, Goto, TypeOK, Local
  <2>4. chan' = chan /\ closes' = closes
    BY DEF Register
  <2>5. H(i)!Register(c)
    BY <2>1, <2>2, <2>3, <2>4 DEF H!Register
  <2>. QED
    BY <2>1, <2>5 DEF H!Next
<1>3. CASE InstanceOf[c] # i
  <2>1. SameHub(i)
    BY <1>1, <1>3 DEF Register, Goto, TypeOK, SameHub, Local
  <2>. QED
    BY <2>1, HubStutters
<1>. QED
  BY <1>2, <1>3

(* Its removal, by Unregister or by an eviction, is one step of the hub     *)
(* (hub.go:43-51).                                                          *)
LEMMA HubUnregisters ==
  ASSUME TypeOK, NEW i \in Instances, NEW c \in Clients, Unregister(c), pc[c] # "new",
         chan' = chan, \A d \in Clients : pc'[d] = "new" <=> pc[d] = "new"
  PROVE  [H(i)!Next]_(H(i)!vars)
<1>1. UserOf[c] \in Users /\ InstanceOf[c] \in Instances
  BY UserOfAssumption, InstanceOfAssumption
<1>2. CASE Current(c) /\ InstanceOf[c] = i
  <2>1. c \in Local(i)
    BY <1>2 DEF Local
  <2>2. /\ clients' = [clients EXCEPT ![i][UserOf[c]] = NoClient]
        /\ closes' = [closes EXCEPT ![c] = @ + 1]
    BY <1>2 DEF Unregister
  <2>3. clients'[i] = [clients[i] EXCEPT ![UserOf[c]] = NoClient]
    BY <2>2 DEF TypeOK
  <2>4. {d \in Local(i) : pc'[d] # "new"} = {d \in Local(i) : pc[d] # "new"}
    BY DEF Local
  <2>5. [d \in Local(i) |-> closes'[d]] =
          [[d \in Local(i) |-> closes[d]] EXCEPT ![c] = @ + 1]
    BY <2>1, <2>2 DEF Local, TypeOK
  <2>6. H(i)!Unregister(c)
    BY <1>2, <2>1, <2>3, <2>4, <2>5 DEF H!Unregister, H!IsCurrent, Current
  <2>. QED
    BY <2>1, <2>6 DEF H!Next
<1>3. CASE ~(Current(c) /\ InstanceOf[c] = i)
  <2>1. CASE Current(c)
    <3>1. /\ clients' = [clients EXCEPT ![InstanceOf[c]][UserOf[c]] = NoClient]
          /\ closes' = [closes EXCEPT ![c] = @ + 1]
          /\ InstanceOf[c] # i
      BY <1>3, <2>1 DEF Unregister
    <3>2. SameHub(i)
      BY <1>1, <3>1 DEF SameHub, Local, TypeOK
    <3>. QED
      BY <3>2, HubStutters
  <2>2. CASE ~Current(c)
    <3>1. SameHub(i)
      BY <2>2 DEF SameHub, Local, Unregister
    <3>. QED
      BY <3>1, HubStutters
  <2>. QED
    BY <2>1, <2>2
<1>. QED
  BY <1>2, <1>3

(* The end of a process is the end of its hub and of no other.              *)
LEMMA HubCrashes ==
  ASSUME TypeOK, Untouched, NEW i \in Instances, NEW j \in Instances, ProcessEnds(j)
  PROVE  [H(i)!Next]_(H(i)!vars)
<1>1. \A c \in Clients : pc'[c] = "new" <=> pc[c] = "new"
  BY ProcessEndsEffect
<1>2. closes' = closes
  BY DEF ProcessEnds
<1>3. CASE i = j
  <2>1. clients'[i] = [u \in Users |-> NoClient]
    BY <1>3 DEF ProcessEnds, TypeOK
  <2>2. \A c \in Local(i) : chan'[c] = <<>>
    BY <1>3, ProcessEndsEffect DEF Local, Untouched
  <2>3. [c \in Local(i) |-> Len(chan'[c])] = [c \in Local(i) |-> 0]
    BY <2>2
  <2>4. {d \in Local(i) : pc'[d] # "new"} = {d \in Local(i) : pc[d] # "new"}
    BY <1>1 DEF Local
  <2>5. H(i)!Crash
    BY <1>2, <2>1, <2>3, <2>4 DEF H!Crash
  <2>. QED
    BY <2>5 DEF H!Next
<1>4. CASE i # j
  <2>1. clients'[i] = clients[i]
    BY <1>4 DEF ProcessEnds, TypeOK
  <2>2. SameHub(i)
    BY <1>1, <1>2, <1>4, <2>1, ProcessEndsEffect DEF SameHub, Local
  <2>. QED
    BY <2>2, HubStutters
<1>. QED
  BY <1>3, <1>4

(* A frame that Send puts into a channel (hub.go:53-67).                    *)
LEMMA HubPushes ==
  ASSUME TypeOK, InHand, Located, NEW i \in Instances, NEW g \in Goroutines, Push(g),
         NEW c \in Clients, call[g].to = c,
         \A d \in Clients : pc'[d] = "new" <=> pc[d] = "new"
  PROVE  [H(i)!Next]_(H(i)!vars)
<1>1. call[g] # Idle
  BY DEF Push, Idle
<1>2. pc[c] # "new" /\ Sending(g)
  BY <1>1 DEF TypeOK, Located, InHand
<1>3. FrameIn(g) \in Frame
  BY <1>2, SendingHasFrame
<1>4. /\ clients' = clients /\ closes' = closes /\ closes[c] = 0
      /\ Len(chan[c]) < Capacity
      /\ chan' = [chan EXCEPT ![c] = Append(@, FrameIn(g))]
  BY DEF Push
<1>5. chan[c] \in Seq(Frame) /\ Len(chan[c]) \in Nat
  BY <1>2, LenProperties DEF TypeOK
<1>6. Len(Append(chan[c], FrameIn(g))) = Len(chan[c]) + 1
  BY <1>3, <1>5, AppendProperties
<1>7. /\ Len(chan'[c]) = Len(chan[c]) + 1
      /\ \A d \in Clients : d # c => chan'[d] = chan[d]
  BY <1>2, <1>4, <1>6 DEF TypeOK
<1>8. CASE InstanceOf[c] = i
  <2>1. c \in Local(i)
    BY <1>2, <1>8 DEF Local
  <2>2. [d \in Local(i) |-> Len(chan'[d])] =
          [[d \in Local(i) |-> Len(chan[d])] EXCEPT ![c] = @ + 1]
    BY <1>7, <2>1 DEF Local
  <2>3. {d \in Local(i) : pc'[d] # "new"} = {d \in Local(i) : pc[d] # "new"}
    BY DEF Local
  <2>4. H(i)!Push(c)
    BY <1>2, <1>4, <2>1, <2>2, <2>3 DEF H!Push
  <2>. QED
    BY <2>1, <2>4 DEF H!Next
<1>9. CASE InstanceOf[c] # i
  <2>1. SameHub(i)
    BY <1>4, <1>7, <1>9 DEF SameHub, Local
  <2>. QED
    BY <2>1, HubStutters
<1>. QED
  BY <1>8, <1>9

(* A frame that the write pump takes out of a channel.                      *)
LEMMA HubPops ==
  ASSUME TypeOK, NEW i \in Instances, NEW c \in Clients, Write(c)
  PROVE  [H(i)!Next]_(H(i)!vars)
<1>1. /\ pc[c] # "new" /\ chan[c] # <<>> /\ pc' = pc /\ clients' = clients /\ closes' = closes
      /\ chan' = [chan EXCEPT ![c] = Tail(@)]
  BY DEF Write, Serving
<1>2. chan[c] \in Seq(Frame) /\ Len(chan[c]) \in Nat
  BY LenProperties DEF TypeOK
<1>3. Len(Tail(chan[c])) = Len(chan[c]) - 1 /\ Len(chan[c]) > 0
  BY <1>1, <1>2, ToSetHeadTail, EmptySeq
<1>4. /\ Len(chan'[c]) = Len(chan[c]) - 1
      /\ \A d \in Clients : d # c => chan'[d] = chan[d]
  BY <1>1, <1>3 DEF TypeOK
<1>5. CASE InstanceOf[c] = i
  <2>1. c \in Local(i)
    BY <1>5 DEF Local
  <2>2. [d \in Local(i) |-> Len(chan'[d])] =
          [[d \in Local(i) |-> Len(chan[d])] EXCEPT ![c] = @ - 1]
    BY <1>4, <2>1 DEF Local
  <2>3. H(i)!Pop(c)
    BY <1>1, <1>3, <2>1, <2>2 DEF H!Pop
  <2>. QED
    BY <2>1, <2>3 DEF H!Next
<1>6. CASE InstanceOf[c] # i
  <2>1. SameHub(i)
    BY <1>1, <1>4, <1>6 DEF SameHub, Local
  <2>. QED
    BY <2>1, HubStutters
<1>. QED
  BY <1>5, <1>6

(* A step of the system is a step of each hub, or leaves it as it is.      *)
LEMMA HubStep ==
  ASSUME IInv, [Next]_vars, NEW i \in Instances
  PROVE  [H(i)!Next]_(H(i)!vars)
<1>1. TypeOK /\ InHand /\ Located /\ Untouched
  BY DEF IInv
<1>2. \A c \in Clients : pc[c] # "new" => pc'[c] # "new"
  BY <1>1, PcStep
<1>3. ASSUME UNCHANGED <<clients, chan, closes>>, \A c \in Clients : pc'[c] = "new" <=> pc[c] = "new"
      PROVE  [H(i)!Next]_(H(i)!vars)
  <2>1. SameHub(i)
    BY <1>3 DEF SameHub, Local
  <2>. QED
    BY <2>1, HubStutters
<1>4. ASSUME NEW c \in Clients, Leave(c)
      PROVE  [H(i)!Next]_(H(i)!vars)
  <2>1. Unregister(c) /\ pc[c] = "leaving" /\ chan' = chan
    BY <1>4 DEF Leave
  <2>2. \A d \in Clients : pc'[d] = "new" <=> pc[d] = "new"
    BY <1>1, <1>4 DEF Leave, Goto, TypeOK
  <2>. QED
    BY <1>1, <2>1, <2>2, HubUnregisters
<1>5. ASSUME NEW d \in Clients, OwnStep(d) \/ SideStep(d) \/ QuietStep(d),
             ~Register(d), ~Leave(d), ~Write(d)
      PROVE  [H(i)!Next]_(H(i)!vars)
  <2>1. UNCHANGED <<clients, chan, closes>>
    BY <1>5 DEF OwnStep, SideStep, OpenSub, StoreSub, Fetch, FetchError, RowMark,
     DmMark, DmPublish, DmPublishError, AckPublish, Insert, AckAny, AckRead, QuietStep,
     InsertLost, AckSilently, Disconnect,
     TakeSub, CloseSub, Confirm, LoseRedis, Forward, hubVars
  <2>2. \A c \in Clients : pc'[c] = "new" => pc[c] = "new"
    BY <1>2
  <2>3. pc' = pc \/ (pc[d] # "new" /\ \A c \in Clients \ {d} : pc'[c] = pc[c])
    BY <1>1, <1>5 DEF OwnStep, SideStep, OpenSub, StoreSub, Fetch, FetchError, RowMark,
     DmMark, DmPublish, DmPublishError, AckPublish, Insert, AckAny, AckRead, QuietStep,
     InsertLost, AckSilently, Disconnect,
     TakeSub, CloseSub, Confirm, LoseRedis, Forward, Goto, NextRow, TypeOK
  <2>. QED
    BY <1>2, <1>3, <2>1, <2>2, <2>3
<1>6. ASSUME NEW g \in Goroutines, SendStep(g)
      PROVE  [H(i)!Next]_(H(i)!vars)
  <2>1. \A c \in Clients : pc'[c] = "new" <=> pc[c] = "new"
    BY <1>1, <1>2, <1>6, SendKeepsNew
  <2>2. CASE LookupNone(g) \/ Lookup(g) \/ PushFull(g)
    <3>1. UNCHANGED <<clients, chan, closes>>
      BY <2>2 DEF LookupNone, Lookup, PushFull, hubVars
    <3>. QED
      BY <1>3, <2>1, <3>1
  <2>3. CASE Evict(g)
    <3>1. call[g] # Idle
      BY <2>3 DEF Evict, Idle
    <3>2. call[g].to \in Clients /\ pc[call[g].to] # "new"
      BY <1>1, <3>1 DEF TypeOK, Located
    <3>. QED
      BY <1>1, <2>1, <2>3, <3>2, HubUnregisters DEF Evict
  <2>4. CASE Push(g)
    <3>1. call[g].to \in Clients
      BY <1>1, <2>4 DEF Push, TypeOK, Idle
    <3>. QED
      BY <1>1, <2>1, <2>4, <3>1, HubPushes
  <2>5. CASE UNCHANGED hubVars
    BY <1>3, <2>1, <2>5 DEF hubVars
  <2>6. CASE InstanceOf[g[1]] \in Instances /\ ProcessEnds(InstanceOf[g[1]])
    BY <1>1, <2>6, HubCrashes
  <2>. QED
    BY <1>1, <1>6, <2>2, <2>3, <2>4, <2>5, <2>6, SendCases
<1>7. CASE UNCHANGED vars
  BY <1>3, <1>7 DEF vars, hubVars
<1>8. CASE Next
  BY <1>1, <1>4, <1>5, <1>6, <1>8, WhoSteps, HubRegisters, HubPops, HubCrashes
<1>. QED
  BY <1>7, <1>8 DEF vars

(* The handlers use the hub of every process as module Hub allows: what is *)
(* proved of a hub holds of each hub of the running system (hub.go).       *)
THEOREM EveryHubIsAHub == Spec => HubsImplemented
<1>1. ASSUME Init, NEW i \in Instances
      PROVE  H(i)!Init
  <2>1. {c \in Local(i) : pc[c] # "new"} = {}
    BY <1>1 DEF Init, Local
  <2>2. [c \in Local(i) |-> Len(chan[c])] = [c \in Local(i) |-> 0]
    BY <1>1 DEF Init, Local
  <2>3. [c \in Local(i) |-> closes[c]] = [c \in Local(i) |-> 0]
    BY <1>1 DEF Init, Local
  <2>4. clients[i] = [u \in Users |-> NoClient]
    BY <1>1 DEF Init
  <2>. QED
    BY <2>1, <2>2, <2>3, <2>4 DEF H!Init
<1>2. Init => \A i \in Instances : H(i)!Init
  BY <1>1
<1>3. IInv /\ [Next]_vars => [\A i \in Instances : [H(i)!Next]_(H(i)!vars)]_vars
  BY HubStep
<1>. QED
  BY <1>2, <1>3, Invariant, PTL DEF Spec, HubsImplemented

-----------------------------------------------------------------------------
(* Every router of the system is one of module Router.                     *)

(* What a router sees is in these parts of the state.                      *)
SameRouter(i) ==
    /\ subs'[i] = subs[i]
    /\ \A c \in Local(i) : /\ (c \in open' <=> c \in open)
                           /\ (c \in listening' <=> c \in listening)
                           /\ Len(inbox'[c]) = Len(inbox[c])
                           /\ Stage(c)' = Stage(c)
                           /\ held'[c] = held[c]

(* A step that leaves these parts alone is none of the router.              *)
LEMMA RouterStutters ==
  ASSUME NEW i \in Instances, SameRouter(i)
  PROVE  UNCHANGED R(i)!vars
<1>1. /\ open' \intersect Local(i) = open \intersect Local(i)
      /\ listening' \intersect Local(i) = listening \intersect Local(i)
  BY DEF SameRouter
<1>2. [c \in Local(i) |-> Len(inbox'[c])] = [c \in Local(i) |-> Len(inbox[c])]
  BY DEF SameRouter
<1>3. [c \in Local(i) |-> Stage(c)]' = [c \in Local(i) |-> Stage(c)]
  BY DEF SameRouter
<1>4. [c \in Local(i) |-> held'[c]] = [c \in Local(i) |-> held[c]]
  BY DEF SameRouter
<1>. QED
  BY <1>1, <1>2, <1>3, <1>4 DEF R!vars, SameRouter

(* Where a connection stands in the router of its process changes with the *)
(* steps of that router only.                                              *)
LEMMA StageStep ==
  ASSUME TypeOK, InHand, [Next]_vars, NEW c \in Clients, Stage(c)' # Stage(c)
  PROVE  \/ OpenSub(c) \/ StoreSub(c) \/ TakeSub(c) \/ CloseSub(c)
         \/ ProcessEnds(InstanceOf[c])
<1>1. pc'[c] # pc[c]
  BY DEF Stage
<1>2. CASE OwnStep(c)
  BY <1>2 DEF OwnStep, Register, Fetch, FetchError, RowMark, DmMark, DmPublish, DmPublishError,
     AckPublish, Insert, AckAny, AckRead, Disconnect, Leave, Goto, NextRow, TypeOK, Stage
<1>3. CASE SendStep(<<c, "conn">>)
  BY <1>1, <1>3, SendMoves DEF After, SendLabels, Stage
<1>. QED
  BY <1>1, <1>2, <1>3, WhoMoves

(* Subscribe and Unsubscribe, in two steps each, at the router of the       *)
(* connection (router.go:40-68).                                            *)
LEMMA RouterSubscribes ==
  ASSUME TypeOK, InHand, [Next]_vars, Untouched, NEW i \in Instances, NEW c \in Clients,
         OpenSub(c) \/ StoreSub(c) \/ TakeSub(c) \/ CloseSub(c)
  PROVE  [R(i)!Next]_(R(i)!vars)
<1>1. UserOf[c] \in Users /\ InstanceOf[c] \in Instances /\ c # NoClient
  BY UserOfAssumption, InstanceOfAssumption, NoneAssumption
<1>2. \A d \in Clients \ {c} : Stage(d)' = Stage(d)
  BY DEF OpenSub, StoreSub, TakeSub, CloseSub, Goto, TypeOK, Stage
<1>3. held[c] # NoClient => InstanceOf[held[c]] = InstanceOf[c]
  BY DEF Untouched
<1>4. CASE InstanceOf[c] # i
  <2>1. subs'[i] = subs[i]
    BY <1>1, <1>4 DEF OpenSub, StoreSub, TakeSub, CloseSub, TypeOK
  <2>2. /\ inbox' = inbox
        /\ \A d \in Local(i) : d # c /\ d # held[c]
    BY <1>3, <1>4, NoneAssumption DEF OpenSub, StoreSub, TakeSub, CloseSub, Local
  <2>3. \A d \in Local(i) : /\ (d \in open' <=> d \in open)
                            /\ (d \in listening' <=> d \in listening)
                            /\ held'[d] = held[d]
    BY <2>2 DEF OpenSub, StoreSub, TakeSub, CloseSub, TypeOK, Local
  <2>4. SameRouter(i)
    BY <1>2, <2>1, <2>2, <2>3 DEF SameRouter, Local
  <2>. QED
    BY <2>4, RouterStutters
<1>5. CASE InstanceOf[c] = i
  <2>1. c \in Local(i)
    BY <1>5 DEF Local
  <2>2. CASE OpenSub(c)
    <3>1. Stage(c) = "none" /\ Stage(c)' = "opening"
      BY <2>2 DEF OpenSub, Goto, TypeOK, Stage
    <3>2. open' \intersect Local(i) = (open \intersect Local(i)) \union {c}
      BY <2>1, <2>2 DEF OpenSub
    <3>3. [d \in Local(i) |-> Stage(d)]' = [[d \in Local(i) |-> Stage(d)] EXCEPT ![c] = "opening"]
      BY <1>2, <2>1, <3>1 DEF Local
    <3>4. R(i)!OpenSub(c)
      BY <2>1, <2>2, <3>1, <3>2, <3>3 DEF R!OpenSub, OpenSub
    <3>. QED
      BY <2>1, <3>4 DEF R!Next
  <2>3. CASE StoreSub(c)
    <3>1. Stage(c) = "opening" /\ Stage(c)' = "subscribed"
      BY <2>3 DEF StoreSub, Goto, TypeOK, Stage
    <3>2. subs'[i] = [subs[i] EXCEPT ![UserOf[c]] = c]
      BY <1>1, <1>5, <2>3 DEF StoreSub, TypeOK
    <3>3. [d \in Local(i) |-> Stage(d)]' = [[d \in Local(i) |-> Stage(d)] EXCEPT ![c] = "subscribed"]
      BY <1>2, <2>1, <3>1 DEF Local
    <3>4. R(i)!StoreSub(c)
      BY <2>1, <2>3, <3>1, <3>2, <3>3 DEF R!StoreSub, StoreSub
    <3>. QED
      BY <2>1, <3>4 DEF R!Next
  <2>4. CASE TakeSub(c) /\ Sub(c) # NoClient
    <3>1. Stage(c) = "subscribed" /\ Stage(c)' = "closing"
      BY <2>4 DEF TakeSub, Goto, TypeOK, Stage
    <3>2. subs'[i] = [subs[i] EXCEPT ![UserOf[c]] = NoClient] /\ subs[i][UserOf[c]] # NoClient
      BY <1>1, <1>5, <2>4 DEF TakeSub, TypeOK, Sub
    <3>3. [d \in Local(i) |-> Stage(d)]' = [[d \in Local(i) |-> Stage(d)] EXCEPT ![c] = "closing"]
      BY <1>2, <2>1, <3>1 DEF Local
    <3>4. [d \in Local(i) |-> held'[d]] =
            [[d \in Local(i) |-> held[d]] EXCEPT ![c] = subs[i][UserOf[c]]]
      BY <1>5, <2>1, <2>4 DEF TakeSub, TypeOK, Sub, Local
    <3>5. R(i)!TakeSub(c)
      BY <2>1, <2>4, <3>1, <3>2, <3>3, <3>4 DEF R!TakeSub, TakeSub
    <3>. QED
      BY <2>1, <3>5 DEF R!Next
  <2>5. CASE TakeSub(c) /\ Sub(c) = NoClient
    <3>1. Stage(c) = "subscribed" /\ Stage(c)' = "gone" /\ held[c] = NoClient
      BY <2>5 DEF TakeSub, Goto, TypeOK, Stage, Untouched
    <3>2. subs'[i] = subs[i] /\ subs[i][UserOf[c]] = NoClient
      BY <1>1, <1>5, <2>5 DEF TakeSub, TypeOK, Sub
    <3>3. [d \in Local(i) |-> Stage(d)]' = [[d \in Local(i) |-> Stage(d)] EXCEPT ![c] = "gone"]
      BY <1>2, <2>1, <3>1 DEF Local
    <3>4. held' = held
      BY <2>5, <3>1 DEF TakeSub, TypeOK
    <3>5. R(i)!TakeNothing(c)
      BY <2>1, <2>5, <3>1, <3>2, <3>3, <3>4 DEF R!TakeNothing, TakeSub
    <3>. QED
      BY <2>1, <3>5 DEF R!Next
  <2>6. CASE CloseSub(c)
    <3>1. Stage(c) = "closing" /\ Stage(c)' = "gone"
      BY <2>6 DEF CloseSub, Goto, TypeOK, Stage
    <3>2. /\ open' \intersect Local(i) = (open \intersect Local(i)) \ {held[c]}
          /\ listening' \intersect Local(i) = (listening \intersect Local(i)) \ {held[c]}
      BY <2>6 DEF CloseSub
    <3>3. [d \in Local(i) |-> Stage(d)]' = [[d \in Local(i) |-> Stage(d)] EXCEPT ![c] = "gone"]
      BY <1>2, <2>1, <3>1 DEF Local
    <3>4. [d \in Local(i) |-> held'[d]] =
            [[d \in Local(i) |-> held[d]] EXCEPT ![c] = NoClient]
      BY <2>1, <2>6 DEF CloseSub, TypeOK, Local
    <3>5. R(i)!CloseSub(c)
      BY <2>1, <2>6, <3>1, <3>2, <3>3, <3>4 DEF R!CloseSub, CloseSub
    <3>. QED
      BY <2>1, <3>5 DEF R!Next
  <2>. QED
    BY <2>2, <2>3, <2>4, <2>5, <2>6
<1>. QED
  BY <1>4, <1>5

(* What is published reaches every inbox that listens, whichever process    *)
(* published it (router.go:19-21).                                          *)
LEMMA RouterPublishes ==
  ASSUME TypeOK, NEW i \in Instances, NEW u \in Users, NEW f \in Frame, Publish(u, f),
         UNCHANGED <<subs, open, listening, held>>,
         \A c \in Clients : Stage(c)' = Stage(c)
  PROVE  [R(i)!Next]_(R(i)!vars)
<1>1. \A c \in Clients : Len(inbox'[c]) = IF /\ c \in listening /\ UserOf[c] = u
                                             /\ Len(inbox[c]) < InboxRoom
                                          THEN Len(inbox[c]) + 1 ELSE Len(inbox[c])
  BY AppendProperties DEF Publish, TypeOK
<1>2. [c \in Local(i) |-> Len(inbox'[c])] =
        [s \in Local(i) |-> IF /\ s \in listening \intersect Local(i)
                               /\ [c \in Local(i) |-> UserOf[c]][s] = u
                               /\ [c \in Local(i) |-> Len(inbox[c])][s] < InboxRoom
                            THEN [c \in Local(i) |-> Len(inbox[c])][s] + 1
                            ELSE [c \in Local(i) |-> Len(inbox[c])][s]]
  BY <1>1 DEF Local
<1>3. [c \in Local(i) |-> Stage(c)]' = [c \in Local(i) |-> Stage(c)]
  BY DEF Local
<1>4. R(i)!Publish(u)
  BY <1>2, <1>3 DEF R!Publish
<1>. QED
  BY <1>4 DEF R!Next

(* Redis confirms a subscription, or the connection to it is lost.          *)
LEMMA RouterListens ==
  ASSUME TypeOK, NEW i \in Instances, NEW c \in Clients, Confirm(c) \/ LoseRedis(c)
  PROVE  [R(i)!Next]_(R(i)!vars)
<1>1. /\ UNCHANGED <<subs, open, inbox, held>> /\ c \in open
      /\ \A d \in Clients : Stage(d)' = Stage(d)
  BY DEF Confirm, LoseRedis, Stage, TypeOK
<1>2. [d \in Local(i) |-> Stage(d)]' = [d \in Local(i) |-> Stage(d)]
  BY <1>1 DEF Local
<1>3. CASE InstanceOf[c] # i
  <2>1. SameRouter(i)
    BY <1>1, <1>3 DEF SameRouter, Local, Confirm, LoseRedis
  <2>. QED
    BY <2>1, RouterStutters
<1>4. CASE InstanceOf[c] = i /\ Confirm(c)
  <2>1. c \in Local(i)
    BY <1>4 DEF Local
  <2>2. listening' \intersect Local(i) = (listening \intersect Local(i)) \union {c}
    BY <1>4, <2>1 DEF Confirm
  <2>3. R(i)!Confirm(c)
    BY <1>1, <1>2, <1>4, <2>1, <2>2 DEF R!Confirm, Confirm
  <2>. QED
    BY <2>1, <2>3 DEF R!Next
<1>5. CASE InstanceOf[c] = i /\ LoseRedis(c)
  <2>1. c \in Local(i)
    BY <1>5 DEF Local
  <2>2. listening' \intersect Local(i) = (listening \intersect Local(i)) \ {c}
    BY <1>5 DEF LoseRedis
  <2>3. R(i)!LoseRedis(c)
    BY <1>1, <1>2, <1>5, <2>1, <2>2 DEF R!LoseRedis, LoseRedis
  <2>. QED
    BY <2>1, <2>3 DEF R!Next
<1>. QED
  BY <1>3, <1>4, <1>5

(* The forwarder takes a frame out of its inbox (router.go:47-52).          *)
LEMMA RouterForwards ==
  ASSUME TypeOK, Untouched, NEW i \in Instances, NEW c \in Clients, Forward(c)
  PROVE  [R(i)!Next]_(R(i)!vars)
<1>1. /\ UNCHANGED <<subs, open, listening, held>> /\ inbox[c] # <<>>
      /\ \A d \in Clients : Stage(d)' = Stage(d)
      /\ inbox' = [inbox EXCEPT ![c] = Tail(@)]
  BY DEF Forward, Stage
<1>2. Stage(c) \notin {"none", "opening"}
  BY <1>1 DEF Forward, Stage, Untouched
<1>3. inbox[c] \in Seq(Frame) /\ Len(inbox[c]) \in Nat
  BY LenProperties DEF TypeOK
<1>4. Len(Tail(inbox[c])) = Len(inbox[c]) - 1 /\ Len(inbox[c]) > 0
  BY <1>1, <1>3, ToSetHeadTail, EmptySeq
<1>5. /\ Len(inbox'[c]) = Len(inbox[c]) - 1
      /\ \A d \in Clients : d # c => inbox'[d] = inbox[d]
  BY <1>1, <1>4 DEF TypeOK
<1>6. CASE InstanceOf[c] # i
  <2>1. SameRouter(i)
    BY <1>1, <1>5, <1>6 DEF SameRouter, Local
  <2>. QED
    BY <2>1, RouterStutters
<1>7. CASE InstanceOf[c] = i
  <2>1. c \in Local(i)
    BY <1>7 DEF Local
  <2>2. [d \in Local(i) |-> Stage(d)]' = [d \in Local(i) |-> Stage(d)]
    BY <1>1 DEF Local
  <2>3. [d \in Local(i) |-> Len(inbox'[d])] =
          [[d \in Local(i) |-> Len(inbox[d])] EXCEPT ![c] = @ - 1]
    BY <1>5, <2>1 DEF Local
  <2>4. R(i)!Forward(c)
    BY <1>1, <1>2, <1>4, <2>1, <2>2, <2>3 DEF R!Forward
  <2>. QED
    BY <2>1, <2>4 DEF R!Next
<1>. QED
  BY <1>6, <1>7

(* The end of a process is the end of its router and of no other.           *)
LEMMA RouterCrashes ==
  ASSUME TypeOK, Untouched, NEW i \in Instances, NEW j \in Instances, ProcessEnds(j)
  PROVE  [R(i)!Next]_(R(i)!vars)
<1>1. CASE i # j
  <2>1. subs'[i] = subs[i]
    BY <1>1 DEF ProcessEnds, TypeOK
  <2>2. SameRouter(i)
    BY <1>1, <2>1, ProcessEndsEffect DEF SameRouter, Local, Stage
  <2>. QED
    BY <2>2, RouterStutters
<1>2. CASE i = j
  <2>1. subs'[i] = [u \in Users |-> NoClient]
    BY <1>2 DEF ProcessEnds, TypeOK
  <2>2. \A c \in Local(i) : /\ c \notin open' /\ c \notin listening'
                            /\ inbox'[c] = <<>> /\ held'[c] = NoClient
                            /\ Stage(c)' = IF Stage(c) = "none" THEN "none" ELSE "gone"
    <3>1. ASSUME NEW c \in Clients, InstanceOf[c] = j, pc[c] = "new"
          PROVE  c \notin open /\ c \notin listening /\ inbox[c] = <<>> /\ held[c] = NoClient
      BY <3>1 DEF Untouched, TypeOK
    <3>. QED
      BY <1>2, <3>1, ProcessEndsEffect DEF Local, Stage
  <2>3. open' \intersect Local(i) = {} /\ listening' \intersect Local(i) = {}
    BY <2>2
  <2>4. [c \in Local(i) |-> Len(inbox'[c])] = [c \in Local(i) |-> 0]
    BY <2>2
  <2>5. [c \in Local(i) |-> held'[c]] = [c \in Local(i) |-> NoClient]
    BY <2>2
  <2>6. [c \in Local(i) |-> Stage(c)]' =
          [c \in Local(i) |-> IF [d \in Local(i) |-> Stage(d)][c] = "none" THEN "none" ELSE "gone"]
    BY <2>2
  <2>7. R(i)!Crash
    BY <2>1, <2>3, <2>4, <2>5, <2>6 DEF R!Crash
  <2>. QED
    BY <2>7 DEF R!Next
<1>. QED
  BY <1>1, <1>2

(* A step of the system is a step of each router, or leaves it as it is.   *)
LEMMA RouterStep ==
  ASSUME IInv, [Next]_vars, NEW i \in Instances
  PROVE  [R(i)!Next]_(R(i)!vars)
<1>1. TypeOK /\ InHand /\ Untouched
  BY DEF IInv
<1>2. CASE \E j \in Instances : ProcessEnds(j)
  BY <1>1, <1>2, RouterCrashes
<1>3. CASE \E c \in Clients : OpenSub(c) \/ StoreSub(c) \/ TakeSub(c) \/ CloseSub(c)
  BY <1>1, <1>3, RouterSubscribes
<1>4. CASE \E c \in Clients : Confirm(c) \/ LoseRedis(c) \/ Forward(c)
  BY <1>1, <1>4, RouterListens, RouterForwards
<1>5. CASE ~(\E j \in Instances : ProcessEnds(j))
           /\ ~(\E c \in Clients : OpenSub(c) \/ StoreSub(c) \/ TakeSub(c) \/ CloseSub(c))
           /\ ~(\E c \in Clients : Confirm(c) \/ LoseRedis(c) \/ Forward(c))
  <2>1. \A c \in Clients : Stage(c)' = Stage(c)
    BY <1>1, <1>5, StageStep, InstanceOfAssumption
  <2>2. ASSUME UNCHANGED subVars
        PROVE  [R(i)!Next]_(R(i)!vars)
    <3>1. SameRouter(i)
      BY <2>1, <2>2 DEF subVars, SameRouter, Local
    <3>. QED
      BY <3>1, RouterStutters
  <2>3. ASSUME NEW c \in Clients, DmPublish(c) \/ AckPublish(c)
        PROVE  [R(i)!Next]_(R(i)!vars)
    <3>1. cur[c] \in Messages /\ UNCHANGED <<subs, open, listening, held>>
      BY <1>1, <2>3 DEF DmPublish, AckPublish, InHand, WithMessage
    <3>2. ReceiverOf[cur[c]] \in Users /\ ackTo[c] \in Users
      BY <1>1, <3>1, MessagesAssumption DEF TypeOK
    <3>3. CASE UNCHANGED inbox
      BY <2>2, <3>1, <3>3 DEF subVars
    <3>4. ASSUME NEW u \in Users, NEW f \in Frame, Publish(u, f)
          PROVE  [R(i)!Next]_(R(i)!vars)
      BY <1>1, <2>1, <3>1, <3>4, RouterPublishes
    <3>5. /\ [kind |-> "message", msg |-> cur[c]] \in Frame
          /\ [kind |-> "read", msg |-> cur[c]] \in Frame
      BY <3>1 DEF Frame
    <3>6. \/ UNCHANGED inbox
          \/ Publish(ReceiverOf[cur[c]], [kind |-> "message", msg |-> cur[c]])
          \/ Publish(ackTo[c], [kind |-> "read", msg |-> cur[c]])
      BY <2>3 DEF DmPublish, AckPublish
    <3>7. \E u \in Users, f \in Frame : UNCHANGED inbox \/ Publish(u, f)
      BY <3>2, <3>5, <3>6
    <3>. QED
      BY <3>3, <3>4, <3>7
  <2>4. ASSUME NEW c \in Clients, OwnStep(c) \/ SideStep(c) \/ QuietStep(c)
        PROVE  UNCHANGED subVars \/ DmPublish(c) \/ AckPublish(c)
    BY <1>5, <2>4 DEF OwnStep, SideStep, Register, Fetch, FetchError, RowMark,
     DmMark, DmPublishError, Insert, AckAny, AckRead, QuietStep, InsertLost, AckSilently,
     Disconnect, Leave, Write
  <2>5. ASSUME NEW g \in Goroutines, SendStep(g)
        PROVE  UNCHANGED subVars
    BY <1>1, <1>5, <2>5, SendCases
  <2>6. CASE UNCHANGED vars
    BY <2>2, <2>6 DEF vars
  <2>7. CASE Next
    <3>1. ASSUME NEW c \in Clients, OwnStep(c) \/ SideStep(c) \/ QuietStep(c)
          PROVE  [R(i)!Next]_(R(i)!vars)
      BY <2>2, <2>3, <2>4, <3>1
    <3>2. ASSUME NEW g \in Goroutines, SendStep(g)
          PROVE  [R(i)!Next]_(R(i)!vars)
      BY <2>2, <2>5, <3>2
    <3>. QED
      BY <1>2, <2>7, <3>1, <3>2, WhoSteps
  <2>. QED
    BY <2>6, <2>7 DEF vars
<1>. QED
  BY <1>2, <1>3, <1>4, <1>5

(* The connections, handlers and Redis use the router of every process as  *)
(* module Router allows: what is proved of a router holds of each of the   *)
(* running system (router.go).                                             *)
THEOREM EveryRouterIsARouter == Spec => RoutersImplemented
<1>1. ASSUME Init, NEW i \in Instances
      PROVE  R(i)!Init
  <2>1. subs[i] = [u \in Users |-> NoClient]
    BY <1>1 DEF Init
  <2>2. open \intersect Local(i) = {} /\ listening \intersect Local(i) = {}
    BY <1>1 DEF Init
  <2>3. [c \in Local(i) |-> Len(inbox[c])] = [c \in Local(i) |-> 0]
    BY <1>1 DEF Init, Local
  <2>4. [c \in Local(i) |-> Stage(c)] = [c \in Local(i) |-> "none"]
    BY <1>1 DEF Init, Local, Stage
  <2>5. [c \in Local(i) |-> held[c]] = [c \in Local(i) |-> NoClient]
    BY <1>1 DEF Init, Local
  <2>. QED
    BY <2>1, <2>2, <2>3, <2>4, <2>5 DEF R!Init
<1>2. Init => \A i \in Instances : R(i)!Init
  BY <1>1
<1>3. IInv /\ [Next]_vars => [\A i \in Instances : [R(i)!Next]_(R(i)!vars)]_vars
  BY RouterStep
<1>. QED
  BY <1>2, <1>3, Invariant, PTL DEF Spec, RoutersImplemented

(* Handlers, hooks, forwarders and crashes use every hub and every router  *)
(* as modules Hub and Router allow, so what is proved of those holds of    *)
(* each of them in the whole system (hub.go, router.go).                   *)
THEOREM ComponentsAreImplemented == Spec => ComponentsImplemented
  BY EveryHubIsAHub, EveryRouterIsARouter DEF ComponentsImplemented
=============================================================================
