---------------------------- MODULE DirectMessages ----------------------------
(***************************************************************************)
(* The path of a direct message through several server processes that      *)
(* share one database and one Redis: server/chat/dm.go, the connect and    *)
(* disconnect hooks of server/main.go, the statements of db/messages.go,   *)
(* and the Hub and the Router of every process, which this module composes *)
(* and refines (HubsImplemented, RoutersImplemented).                      *)
(*                                                                         *)
(* pc[c] is where the goroutine of connection c stands:                    *)
(*   connect      new, hook, opened, fetch, then row_send / row_mark for   *)
(*                each pending message, then reading                       *)
(*   HandleDM     dm_send, dm_mark | dm_publish, dm_ack, back to reading   *)
(*   HandleAck    ack_notify, ack_publish, back to reading                 *)
(*   disconnect   leaving, left, closing, gone                             *)
(* A connection abandoned by a panic in its connect hook stays registered; *)
(* "dead" is a connection whose process died before it subscribed.         *)
(* Every database statement, Redis command and Hub step is an action, so   *)
(* the goroutines interleave as they do in the running system.  Finding or *)
(* creating the chat and the rate limit come before and are not here.      *)
(***************************************************************************)
EXTENDS Naturals, FiniteSets, Sequences, SequencesExt

CONSTANTS
    Instances,      \* the server processes
    Users, Clients, UserOf, NoClient,   \* as in module Hub
    InstanceOf,     \* InstanceOf[c]: the process connection c is made to
    Messages,       \* the direct messages that will be sent, each once
    SenderOf, ReceiverOf,
    MemberOf,       \* the other member of the chat the message is stored in
    Queued,         \* the messages already stored, and still pending, at the start
    Capacity,       \* room of Client.send (256)
    InboxRoom,      \* room of a subscription's channel (100)
    PendingLimit,   \* LIMIT of GetPendingMessages (100)
    Failures,       \* which of "db", "redis", "crash" may happen
    Leavers,        \* the connections that may end (bound)
    Readers,        \* the connections that may send acknowledgements (bound)
    MaxNamed,       \* bound: users that those of one message name
    NoMsg, NoFrame

Frame == [kind : {"message", "sent", "read"}, msg : Messages]

ASSUME UserOfAssumption == UserOf \in [Clients -> Users]
ASSUME InstanceOfAssumption == InstanceOf \in [Clients -> Instances]
ASSUME MessagesAssumption ==
    SenderOf \in [Messages -> Users] /\ ReceiverOf \in [Messages -> Users]

(* A chat has two members.  A note to oneself has no chat of its own: it   *)
(* is stored in one with somebody else (messages.go:22-59, ChatDirectory). *)
ASSUME MembersAssumption ==
    /\ MemberOf \in [Messages -> Users]
    /\ \A m \in Messages :
          /\ MemberOf[m] # SenderOf[m]
          /\ SenderOf[m] # ReceiverOf[m] => MemberOf[m] = ReceiverOf[m]

ASSUME QueuedAssumption == Queued \in Seq(Messages)
ASSUME NoneAssumption ==
    NoClient \notin Clients /\ NoMsg \notin Messages /\ NoFrame \notin Frame
ASSUME BoundsAssumption ==
    Capacity \in Nat \ {0} /\ InboxRoom \in Nat /\ PendingLimit \in Nat /\ MaxNamed \in Nat
ASSUME FailuresAssumption == Failures \subseteq {"db", "redis", "crash"}
ASSUME ActorsAssumption == Leavers \subseteq Clients /\ Readers \subseteq Clients

VARIABLES
    db,         \* messages.status, "absent" before the row is inserted
    stored,     \* the inserted messages in the order of created_at
    clients, chan, closes,      \* the hubs: map, channel contents, close calls
    subs, open, listening, inbox, held,     \* the routers, as in module Router
    carried,    \* the frame the forwarder of a subscription is handing on
    pc, cur,    \* a connection's goroutine: where it is, the message in hand
    todo,       \* the pending rows its connect hook has still to push
    ackTo,      \* the user whom its acknowledgement names as the sender
    call,       \* the Hub.Send of a goroutine, as in module Connection
    handler,    \* history: the connection whose HandleDM stored the message
    named,      \* history: the users acknowledgements of a message named
    handed,     \* history: how often the message was pushed to a channel
    published,  \* history: messages Redis accepted
    caughtUp    \* history: connections that fetched everything pending

dbVars == <<db, stored>>
hubVars == <<clients, chan, closes>>
subVars == <<subs, open, listening, inbox, held>>
history == <<handler, named, handed, published, caughtUp>>
localVars == <<cur, todo, ackTo>>
vars == <<dbVars, hubVars, subVars, carried, pc, localVars, call, history>>

(* A goroutine: that of a connection, or the forwarder of its subscription.*)
Goroutines == Clients \X {"conn", "fwd"}
Idle == [step |-> "idle", to |-> NoClient]

InHook == {"hook", "opened", "fetch", "row_send", "row_mark"}
Serving == {"reading", "dm_send", "dm_mark", "dm_publish", "dm_ack",
            "ack_notify", "ack_publish"}
Pcs == InHook \union Serving
       \union {"new", "leaving", "left", "closing", "gone", "abandoned", "dead"}

TypeOK ==
    /\ db \in [Messages -> {"absent", "sent", "delivered", "read"}]
    /\ stored \in Seq(Messages)
    /\ clients \in [Instances -> [Users -> Clients \union {NoClient}]]
    /\ chan \in [Clients -> Seq(Frame)]
    /\ closes \in [Clients -> Nat]
    /\ subs \in [Instances -> [Users -> Clients \union {NoClient}]]
    /\ open \subseteq Clients /\ listening \subseteq open
    /\ inbox \in [Clients -> Seq(Frame)]
    /\ held \in [Clients -> Clients \union {NoClient}]
    /\ carried \in [Clients -> Frame \union {NoFrame}]
    /\ pc \in [Clients -> Pcs]
    /\ cur \in [Clients -> Messages \union {NoMsg}]
    /\ todo \in [Clients -> Seq(Messages)]
    /\ ackTo \in [Clients -> Users]
    /\ call \in [Goroutines -> {Idle} \union [step : {"found", "full"}, to : Clients]]
    /\ handler \in [Messages -> Clients \union {NoClient}]
    /\ named \in [Messages -> SUBSET Users]
    /\ handed \in [Messages -> Nat]
    /\ published \subseteq Messages
    /\ caughtUp \subseteq Clients

Init ==
    /\ db = [m \in Messages |-> IF m \in ToSet(Queued) THEN "sent" ELSE "absent"]
    /\ stored = Queued
    /\ clients = [i \in Instances |-> [u \in Users |-> NoClient]]
    /\ chan = [c \in Clients |-> <<>>]
    /\ closes = [c \in Clients |-> 0]
    /\ subs = [i \in Instances |-> [u \in Users |-> NoClient]]
    /\ open = {} /\ listening = {}
    /\ inbox = [c \in Clients |-> <<>>]
    /\ held = [c \in Clients |-> NoClient]
    /\ carried = [c \in Clients |-> NoFrame]
    /\ pc = [c \in Clients |-> "new"]
    /\ cur = [c \in Clients |-> NoMsg]
    /\ todo = [c \in Clients |-> <<>>]
    /\ ackTo = [c \in Clients |-> UserOf[c]]
    /\ call = [g \in Goroutines |-> Idle]
    /\ handler = [m \in Messages |-> NoClient]
    /\ named = [m \in Messages |-> {}]
    /\ handed = [m \in Messages |-> 0]
    /\ published = {} /\ caughtUp = {}

Goto(c, label) == pc' = [pc EXCEPT ![c] = label]
Current(c) == clients[InstanceOf[c]][UserOf[c]] = c

-----------------------------------------------------------------------------
(* Hub.Send(toID, data), for whatever goroutine g executes it.             *)
SendLabels == {"row_send", "dm_send", "dm_ack", "ack_notify"}

Sending(g) == IF g[2] = "fwd" THEN carried[g[1]] # NoFrame
                              ELSE pc[g[1]] \in SendLabels

(* Mutant of Target: the read receipt goes to the reader.                  *)
TargetReader(g) ==
    IF g[2] = "fwd" \/ pc[g[1]] \in {"row_send", "ack_notify"} THEN UserOf[g[1]]
    ELSE IF pc[g[1]] = "dm_send" THEN ReceiverOf[cur[g[1]]]
    ELSE SenderOf[cur[g[1]]]

(* The receiver of a new message, or a user's own pending messages; the    *)
(* sender for its acknowledgement, whom the reader names for a receipt.    *)
Target(g) ==
    IF g[2] = "fwd" \/ pc[g[1]] = "row_send" THEN UserOf[g[1]]
    ELSE IF pc[g[1]] = "dm_send" THEN ReceiverOf[cur[g[1]]]
    ELSE IF pc[g[1]] = "dm_ack" THEN SenderOf[cur[g[1]]]
    ELSE ackTo[g[1]]

FrameIn(g) ==
    IF g[2] = "fwd" THEN carried[g[1]]
    ELSE [kind |-> IF pc[g[1]] \in {"row_send", "dm_send"} THEN "message"
                   ELSE IF pc[g[1]] = "dm_ack" THEN "sent" ELSE "read",
          msg |-> cur[g[1]]]

(* What the caller does with the result.                                   *)
After(label, ok) ==
    IF label = "row_send" THEN "row_mark"
    ELSE IF label = "dm_send" THEN (IF ok THEN "dm_mark" ELSE "dm_publish")
    ELSE IF label = "ack_notify" /\ ~ok THEN "ack_publish"
    ELSE "reading"

Return(g, ok) ==
    /\ call' = [call EXCEPT ![g] = Idle]
    /\ IF g[2] = "fwd"
       THEN carried' = [carried EXCEPT ![g[1]] = NoFrame] /\ UNCHANGED pc
       ELSE Goto(g[1], After(pc[g[1]], ok)) /\ UNCHANGED carried

Found(g) == clients[InstanceOf[g[1]]][Target(g)]

LookupNone(g) ==
    /\ Sending(g) /\ call[g] = Idle
    /\ Found(g) = NoClient
    /\ Return(g, FALSE)
    /\ UNCHANGED <<dbVars, hubVars, subVars, localVars, history>>

Lookup(g) ==
    /\ Sending(g) /\ call[g] = Idle
    /\ Found(g) # NoClient
    /\ call' = [call EXCEPT ![g] = [step |-> "found", to |-> Found(g)]]
    /\ UNCHANGED <<dbVars, hubVars, subVars, carried, pc, localVars, history>>

Push(g) ==
    /\ call[g].step = "found"
    /\ closes[call[g].to] = 0
    /\ Len(chan[call[g].to]) < Capacity
    /\ chan' = [chan EXCEPT ![call[g].to] = Append(@, FrameIn(g))]
    /\ handed' = IF FrameIn(g).kind = "message"
                 THEN [handed EXCEPT ![FrameIn(g).msg] = @ + 1] ELSE handed
    /\ Return(g, TRUE)
    /\ UNCHANGED <<dbVars, clients, closes, subVars, localVars, handler, named, published, caughtUp>>

PushFull(g) ==
    /\ call[g].step = "found"
    /\ closes[call[g].to] = 0
    /\ Len(chan[call[g].to]) = Capacity
    /\ call' = [call EXCEPT ![g] = [step |-> "full", to |-> call[g].to]]
    /\ UNCHANGED <<dbVars, hubVars, subVars, carried, pc, localVars, history>>

(* Mutant of Unregister: no identity check.                                *)
UnregisterAnyone(c) ==
    /\ clients' = [clients EXCEPT ![InstanceOf[c]][UserOf[c]] = NoClient]
    /\ closes' = [closes EXCEPT ![c] = @ + 1]

Unregister(c) ==
    IF Current(c)
    THEN /\ clients' = [clients EXCEPT ![InstanceOf[c]][UserOf[c]] = NoClient]
         /\ closes' = [closes EXCEPT ![c] = @ + 1]
    ELSE UNCHANGED <<clients, closes>>

(* Mutant of Evict: a full channel loses the frame, the client stays.      *)
EvictNobody(g) ==
    /\ call[g].step = "full"
    /\ Return(g, FALSE)
    /\ UNCHANGED <<dbVars, hubVars, subVars, localVars, history>>

Evict(g) ==
    /\ call[g].step = "full"
    /\ Unregister(call[g].to)
    /\ Return(g, FALSE)
    /\ UNCHANGED <<dbVars, chan, subVars, localVars, history>>

(* Process i is gone, and starts again with an empty hub and router.       *)
ProcessEnds(i) ==
    LET Dies(c) == InstanceOf[c] = i /\ pc[c] # "new"
        Reset(f, v) == [c \in Clients |-> IF Dies(c) THEN v ELSE f[c]]
    IN  /\ clients' = [clients EXCEPT ![i] = [u \in Users |-> NoClient]]
        /\ subs' = [subs EXCEPT ![i] = [u \in Users |-> NoClient]]
        /\ open' = {s \in open : ~Dies(s)}
        /\ listening' = {s \in listening : ~Dies(s)}
        /\ chan' = Reset(chan, <<>>) /\ inbox' = Reset(inbox, <<>>)
        /\ held' = Reset(held, NoClient) /\ carried' = Reset(carried, NoFrame)
        /\ cur' = Reset(cur, NoMsg) /\ todo' = Reset(todo, <<>>)
        /\ pc' = [c \in Clients |->
                     IF ~Dies(c) THEN pc[c]
                     ELSE IF pc[c] \in {"hook", "dead"} THEN "dead" ELSE "gone"]
        /\ call' = [g \in Goroutines |-> IF Dies(g[1]) THEN Idle ELSE call[g]]
        /\ UNCHANGED <<dbVars, closes, ackTo, history>>

(* A push into a closed channel panics: caught in the connect hook, fatal  *)
(* to the process anywhere else.                                           *)
PushClosed(g) ==
    /\ call[g].step = "found"
    /\ closes[call[g].to] > 0
    /\ IF g[2] = "conn" /\ pc[g[1]] = "row_send"
       THEN /\ Goto(g[1], "abandoned")
            /\ call' = [call EXCEPT ![g] = Idle]
            /\ UNCHANGED <<dbVars, hubVars, subVars, carried, localVars, history>>
       ELSE ProcessEnds(InstanceOf[g[1]])

Crash(i) == "crash" \in Failures /\ ProcessEnds(i)

SendStep(g) ==
    LookupNone(g) \/ Lookup(g) \/ Push(g) \/ PushFull(g) \/ Evict(g) \/ PushClosed(g)

-----------------------------------------------------------------------------
(* ServeWS and the connect hook.                                           *)
Register(c) ==
    /\ pc[c] = "new"
    /\ clients' = [clients EXCEPT ![InstanceOf[c]][UserOf[c]] = c]
    /\ Goto(c, "hook")
    /\ UNCHANGED <<dbVars, chan, closes, subVars, carried, localVars, call, history>>

OpenSub(c) ==
    /\ pc[c] = "hook"
    /\ open' = open \union {c}
    /\ Goto(c, "opened")
    /\ UNCHANGED <<dbVars, hubVars, subs, listening, inbox, held, carried, localVars, call, history>>

StoreSub(c) ==
    /\ pc[c] = "opened"
    /\ subs' = [subs EXCEPT ![InstanceOf[c]][UserOf[c]] = c]
    /\ Goto(c, "fetch")
    /\ UNCHANGED <<dbVars, hubVars, open, listening, inbox, held, carried, localVars, call, history>>

(* The elements of a sequence that are in S, in their order: SelectSeq, of *)
(* which the provers know nothing, with a set for its test.                *)
Select(s, S) ==
    LET upTo[n \in 0..Len(s)] ==
            IF n = 0 THEN <<>>
            ELSE IF s[n] \in S THEN Append(upTo[n - 1], s[n]) ELSE upTo[n - 1]
    IN  upTo[Len(s)]

(* Mutant of Pending: rows that were delivered are pending until read.     *)
PendingUnread(u) ==
    Select(stored, {m \in Messages : /\ db[m] \in {"sent", "delivered"}
                                     /\ MemberOf[m] = u /\ SenderOf[m] # u})

(* GetPendingMessages: the rows still 'sent' by others in the chats u is a *)
(* member of, oldest first.                                                *)
Pending(u) ==
    Select(stored, {m \in Messages : /\ db[m] = "sent"
                                     /\ MemberOf[m] = u /\ SenderOf[m] # u})

NextRow(c, rows) ==
    /\ todo' = [todo EXCEPT ![c] = rows]
    /\ cur' = [cur EXCEPT ![c] = IF rows = <<>> THEN NoMsg ELSE Head(rows)]
    /\ Goto(c, IF rows = <<>> THEN "reading" ELSE "row_send")

Fetch(c) ==
    LET rows == Pending(UserOf[c])
        all == Len(rows) <= PendingLimit
    IN  /\ pc[c] = "fetch"
        /\ NextRow(c, IF all THEN rows ELSE SubSeq(rows, 1, PendingLimit))
        /\ caughtUp' = IF all THEN caughtUp \union {c} ELSE caughtUp
        /\ UNCHANGED <<dbVars, hubVars, subVars, carried, ackTo, call, handler, named, handed,
                       published>>

FetchError(c) ==
    /\ "db" \in Failures
    /\ pc[c] = "fetch"
    /\ Goto(c, "reading")
    /\ UNCHANGED <<dbVars, hubVars, subVars, carried, localVars, call, history>>

(* UpdateMessageStatus overwrites whatever status the row has; its error   *)
(* is ignored by the callers that mark a message delivered.                *)
Mark(m, status) == db' = [db EXCEPT ![m] = status]

MarkDelivered(m) ==
    \/ Mark(m, "delivered")
    \/ "db" \in Failures /\ UNCHANGED db

(* The row is marked whether or not the push before succeeded.             *)
RowMark(c) ==
    /\ pc[c] = "row_mark"
    /\ MarkDelivered(cur[c])
    /\ NextRow(c, Tail(todo[c]))
    /\ UNCHANGED <<stored, hubVars, subVars, carried, ackTo, call, history>>

-----------------------------------------------------------------------------
(* HandleDM.  A failing insert without effect changes nothing and is left  *)
(* out; InsertLost is the insert whose reply is lost.                      *)
InsertRow(m) ==
    /\ db[m] = "absent"
    /\ Mark(m, "sent")
    /\ stored' = Append(stored, m)

Insert(c, m) ==
    /\ pc[c] = "reading" /\ SenderOf[m] = UserOf[c]
    /\ InsertRow(m)
    /\ handler' = [handler EXCEPT ![m] = c]
    /\ cur' = [cur EXCEPT ![c] = m]
    /\ Goto(c, "dm_send")
    /\ UNCHANGED <<hubVars, subVars, carried, todo, ackTo, call, named, handed,
                   published, caughtUp>>

InsertLost(c, m) ==
    /\ "db" \in Failures
    /\ pc[c] = "reading" /\ SenderOf[m] = UserOf[c]
    /\ InsertRow(m)
    /\ UNCHANGED <<hubVars, subVars, carried, pc, localVars, call, history>>

DmMark(c) ==
    /\ pc[c] = "dm_mark"
    /\ MarkDelivered(cur[c])
    /\ Goto(c, "dm_ack")
    /\ UNCHANGED <<stored, hubVars, subVars, carried, localVars, call, history>>

(* Mutant of Publish: one channel for all users.                           *)
PublishToAll(u, frame) ==
    inbox' = [s \in Clients |->
                IF s \in listening /\ Len(inbox[s]) < InboxRoom
                THEN Append(inbox[s], frame) ELSE inbox[s]]

(* Redis hands a frame to every listening subscription with room.          *)
Publish(u, frame) ==
    inbox' = [s \in Clients |->
                IF s \in listening /\ UserOf[s] = u /\ Len(inbox[s]) < InboxRoom
                THEN Append(inbox[s], frame) ELSE inbox[s]]

DmPublish(c) ==
    /\ pc[c] = "dm_publish"
    /\ Publish(ReceiverOf[cur[c]], [kind |-> "message", msg |-> cur[c]])
    /\ published' = published \union {cur[c]}
    /\ Goto(c, "dm_ack")
    /\ UNCHANGED <<dbVars, hubVars, subs, open, listening, held, carried, localVars, call,
                   handler, named, handed, caughtUp>>

(* Mutant of DmPublishError: the acknowledgement is sent all the same.     *)
DmPublishErrorAcked(c) ==
    /\ "redis" \in Failures
    /\ pc[c] = "dm_publish"
    /\ Goto(c, "dm_ack")
    /\ UNCHANGED <<dbVars, hubVars, subVars, carried, localVars, call, history>>

(* HandleDM returns before the acknowledgement.                            *)
DmPublishError(c) ==
    /\ "redis" \in Failures
    /\ pc[c] = "dm_publish"
    /\ Goto(c, "reading")
    /\ UNCHANGED <<dbVars, hubVars, subVars, carried, localVars, call, history>>

(* HandleAck.  Any connection may acknowledge any id, and an id that has   *)
(* no row changes none; the receipt is for whomever the client names as    *)
(* the sender.  Without a name, or after an error that hides the update,   *)
(* it ends there.                                                          *)
MarkRead(m) == IF db[m] = "absent" THEN UNCHANGED db ELSE Mark(m, "read")

AckRead(c, m, u) ==
    /\ c \in Readers
    /\ pc[c] = "reading" /\ Cardinality(named[m] \union {u}) <= MaxNamed
    /\ MarkRead(m)
    /\ cur' = [cur EXCEPT ![c] = m]
    /\ ackTo' = [ackTo EXCEPT ![c] = u]
    /\ named' = [named EXCEPT ![m] = @ \union {u}]
    /\ Goto(c, "ack_notify")
    /\ UNCHANGED <<stored, hubVars, subVars, carried, todo, call, handler, handed,
                   published, caughtUp>>

AckSilently(c, m) ==
    /\ c \in Readers
    /\ pc[c] = "reading"
    /\ MarkRead(m)
    /\ UNCHANGED <<stored, hubVars, subVars, carried, pc, localVars, call, history>>

AckPublish(c) ==
    /\ pc[c] = "ack_publish"
    /\ \/ Publish(ackTo[c], [kind |-> "read", msg |-> cur[c]])
       \/ "redis" \in Failures /\ UNCHANGED inbox
    /\ Goto(c, "reading")
    /\ UNCHANGED <<dbVars, hubVars, subs, open, listening, held, carried, localVars, call, history>>

-----------------------------------------------------------------------------
(* writePump hands the next frame to the socket.                           *)
Write(c) ==
    /\ pc[c] \in Serving \union {"leaving", "left"}
    /\ chan[c] # <<>>
    /\ chan' = [chan EXCEPT ![c] = Tail(@)]
    /\ UNCHANGED <<dbVars, clients, closes, subVars, carried, pc, localVars, call, history>>

(* readPump ends, then its deferred Unregister, then the disconnect hook.  *)
Disconnect(c) ==
    /\ c \in Leavers
    /\ pc[c] = "reading"
    /\ Goto(c, "leaving")
    /\ UNCHANGED <<dbVars, hubVars, subVars, carried, localVars, call, history>>

Leave(c) ==
    /\ pc[c] = "leaving"
    /\ Unregister(c)
    /\ Goto(c, "left")
    /\ UNCHANGED <<dbVars, chan, subVars, carried, localVars, call, history>>

Sub(c) == subs[InstanceOf[c]][UserOf[c]]

(* Mutants: TakeSub that leaves the entry in the map, CloseSub that Redis  *)
(* does not notice.                                                        *)
TakeSubKeepingEntry(c) ==
    /\ pc[c] = "left"
    /\ held' = [held EXCEPT ![c] = Sub(c)]
    /\ Goto(c, IF Sub(c) = NoClient THEN "gone" ELSE "closing")
    /\ UNCHANGED <<dbVars, hubVars, subs, open, listening, inbox, carried, localVars, call, history>>

CloseSubLocally(c) ==
    /\ pc[c] = "closing"
    /\ open' = open \ {held[c]}
    /\ held' = [held EXCEPT ![c] = NoClient]
    /\ Goto(c, "gone")
    /\ UNCHANGED <<dbVars, hubVars, subs, listening, inbox, carried, localVars, call, history>>

TakeSub(c) ==
    /\ pc[c] = "left"
    /\ held' = [held EXCEPT ![c] = Sub(c)]
    /\ subs' = [subs EXCEPT ![InstanceOf[c]][UserOf[c]] = NoClient]
    /\ Goto(c, IF Sub(c) = NoClient THEN "gone" ELSE "closing")
    /\ UNCHANGED <<dbVars, hubVars, open, listening, inbox, carried, localVars, call, history>>

CloseSub(c) ==
    /\ pc[c] = "closing"
    /\ open' = open \ {held[c]}
    /\ listening' = listening \ {held[c]}
    /\ held' = [held EXCEPT ![c] = NoClient]
    /\ Goto(c, "gone")
    /\ UNCHANGED <<dbVars, hubVars, subs, inbox, carried, localVars, call, history>>

-----------------------------------------------------------------------------
(* Redis confirms a subscription or loses its connection; a forwarder      *)
(* takes the next frame to hand it to the hub.                             *)
Confirm(s) ==
    /\ s \in open \ listening
    /\ listening' = listening \union {s}
    /\ UNCHANGED <<dbVars, hubVars, subs, open, inbox, held, carried, pc, localVars, call, history>>

LoseRedis(s) ==
    /\ "redis" \in Failures
    /\ s \in listening
    /\ listening' = listening \ {s}
    /\ UNCHANGED <<dbVars, hubVars, subs, open, inbox, held, carried, pc, localVars, call, history>>

Forward(s) ==
    /\ pc[s] \notin {"new", "hook", "opened"}
    /\ inbox[s] # <<>>
    /\ carried[s] = NoFrame
    /\ carried' = [carried EXCEPT ![s] = Head(inbox[s])]
    /\ inbox' = [inbox EXCEPT ![s] = Tail(@)]
    /\ UNCHANGED <<dbVars, hubVars, subs, open, listening, held, pc, localVars, call, history>>

Next ==
    \/ \E g \in Goroutines : SendStep(g)
    \/ \E c \in Clients :
          \/ Register(c) \/ OpenSub(c) \/ StoreSub(c)
          \/ Fetch(c) \/ FetchError(c) \/ RowMark(c)
          \/ DmMark(c) \/ DmPublish(c) \/ DmPublishError(c) \/ AckPublish(c)
          \/ \E m \in Messages : Insert(c, m) \/ InsertLost(c, m) \/ AckSilently(c, m)
          \/ \E m \in Messages, u \in Users : AckRead(c, m, u)
          \/ Write(c) \/ Disconnect(c) \/ Leave(c) \/ TakeSub(c) \/ CloseSub(c)
          \/ Confirm(c) \/ LoseRedis(c) \/ Forward(c)
    \/ \E i \in Instances : Crash(i)

Spec == Init /\ [][Next]_vars

-----------------------------------------------------------------------------
(* The components: the hub and the router of each process.                 *)
Local(i) == {c \in Clients : InstanceOf[c] = i}

H(i) == INSTANCE Hub
    WITH Clients <- Local(i),
         UserOf <- [c \in Local(i) |-> UserOf[c]],
         clients <- clients[i],
         issued <- {c \in Local(i) : pc[c] # "new"},
         buffered <- [c \in Local(i) |-> Len(chan[c])],
         closes <- [c \in Local(i) |-> closes[c]]

Stage(c) ==
    IF pc[c] \in {"new", "hook", "dead"} THEN "none"
    ELSE IF pc[c] = "opened" THEN "opening"
    ELSE IF pc[c] \in {"closing", "gone"} THEN pc[c]
    ELSE "subscribed"

R(i) == INSTANCE Router
    WITH Clients <- Local(i),
         UserOf <- [c \in Local(i) |-> UserOf[c]],
         subs <- subs[i],
         open <- open \intersect Local(i),
         listening <- listening \intersect Local(i),
         inbox <- [c \in Local(i) |-> Len(inbox[c])],
         stage <- [c \in Local(i) |-> Stage(c)],
         held <- [c \in Local(i) |-> held[c]]

(* The handlers use every hub and every router as those modules allow, so  *)
(* what is proved of a hub and of a router holds in the whole system.      *)
HubsImplemented ==
    /\ \A i \in Instances : H(i)!Init
    /\ [][\A i \in Instances : [H(i)!Next]_(H(i)!vars)]_vars

RoutersImplemented ==
    /\ \A i \in Instances : R(i)!Init
    /\ [][\A i \in Instances : [R(i)!Next]_(R(i)!vars)]_vars

ComponentsImplemented == HubsImplemented /\ RoutersImplemented

-----------------------------------------------------------------------------
(* A message is stored before anybody hears of it: a message or an         *)
(* acknowledgement that waits in a channel or a subscription is about a    *)
(* row of the database (dm.go:43-75).  Of a read receipt this is not so.   *)
FramesAreStored ==
    \A c \in Clients : \A f \in ToSet(chan[c]) \union ToSet(inbox[c]) :
        f.kind # "read" => db[f.msg] # "absent"

(* On whatever way and through whatever process they come, acknowledgments *)
(* wait only in channels of the sender, and a read receipt only where an   *)
(* acknowledgement of that message sent it: the server asks neither        *)
(* whether the reader is the receiver nor whether he names the sender.     *)
(* Messages wait in channels of the receiver; a note to oneself that was   *)
(* not delivered at once also in those of the other member of its chat, to *)
(* whom the connect hook pushes it.                                        *)
RightAudience ==
    \A c \in Clients :
        /\ \A f \in ToSet(chan[c]) \union ToSet(inbox[c]) :
              CASE f.kind = "sent" -> UserOf[c] = SenderOf[f.msg]
                [] f.kind = "read" -> UserOf[c] \in named[f.msg]
                [] OTHER -> UserOf[c] \in {ReceiverOf[f.msg], MemberOf[f.msg]}
        /\ \A f \in ToSet(inbox[c]) :
              f.kind = "message" => UserOf[c] = ReceiverOf[f.msg]

(* What waits in a channel or a subscription is about a row of the         *)
(* database, and for whom it concerns or was addressed (dm.go:43-75,       *)
(* 80-107, messages.go:78-86).                                             *)
FramesFit == FramesAreStored /\ RightAudience

(* Nobody has the message in hand: no handler, no connect hook, no         *)
(* subscription and no forwarder will push it, and its row is marked.      *)
Settled(m) ==
    /\ db[m] \in {"delivered", "read"}
    /\ \A c \in Clients :
          /\ m \notin ToSet(todo[c])
          /\ cur[c] = m => pc[c] \notin {"dm_send", "dm_publish", "row_send"}
          /\ \A f \in ToSet(inbox[c]) \union {carried[c]} :
                f # [kind |-> "message", msg |-> m]

(* A message may be pushed more than once, by the handler or through Redis *)
(* and by the connect hooks of logins that overlap, since it is pushed     *)
(* first and marked afterwards.  Once it is marked and nobody has it in    *)
(* hand, that is over for ever, whoever logs in, reads, retries or crashes *)
(* (dm.go:58-67, main.go:216-227, messages.go:78-102).                     *)
SettledIsNotResent ==
    [][\A m \in Messages : Settled(m) => Settled(m)' /\ handed'[m] = handed[m]]_vars

(* The sender's acknowledgement is given only for a message that a hub or  *)
(* Redis accepted (dm.go:58-75).                                           *)
AckedWasRouted ==
    \A c \in Clients : \A f \in ToSet(chan[c]) :
        f.kind = "sent" => handed[f.msg] > 0 \/ f.msg \in published

(* Reached(c, m): message m of a handler in c's own process is not lost to *)
(* connection c; it is still being sent, was pushed, or is a row to push.  *)
Reached(c, m) ==
    LET h == handler[m]
    IN  \/ h = NoClient /\ m \notin ToSet(Queued)
        \/ h # NoClient /\ InstanceOf[h] # InstanceOf[c]
        \/ h # NoClient /\ pc[h] = "dm_send" /\ cur[h] = m
        \/ handed[m] > 0
        \/ m \in ToSet(todo[c])

(* A row that is pending for c's user: one for him, or a queued one, be it *)
(* another user's note to himself.  A note that is being sent is not meant *)
(* for him, though a later login of his fetches it if it stays pending.    *)
PendingFor(c, m) ==
    /\ db[m] = "sent" /\ MemberOf[m] = UserOf[c]
    /\ ReceiverOf[m] = UserOf[c] \/ m \in ToSet(Queued)

(* No message falls between the two ways to reach a connection.  Once its  *)
(* connect hook has fetched all that was pending, and while it is current, *)
(* each message sent within its process, or queued before, and still       *)
(* pending was pushed or is among the rows to push.  A message of another  *)
(* process depends on Redis, one whose insert lost its reply on the next   *)
(* login; neither is meant.  The order insert, then lookup, against        *)
(* register, then fetch, and the eviction of full clients are what matters *)
(* (dm.go:43-58, handler.go:49-52, hub.go:63-65).                          *)
NoneStranded ==
    \A c \in caughtUp, m \in Messages :
        Current(c) /\ PendingFor(c, m) => Reached(c, m)

=============================================================================
