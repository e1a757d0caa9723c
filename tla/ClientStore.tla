---------------------------- MODULE ClientStore ----------------------------
(***************************************************************************)
(* One conversation in the web page: the message list of store.ts, the     *)
(* frames that useWebSocket.ts applies to it, and the ChatWindow that      *)
(* loads the history, acknowledges what it shows and sends.  The server is *)
(* here in so far as the page depends on it: the rows of the conversation, *)
(* what becomes of each frame, and GET /messages (main.go:236-298).        *)
(*                                                                         *)
(* Every task of the browser is an action.  Store updates render in the    *)
(* sync lane, effects included, so that the effects of a ChatWindow that   *)
(* is open belong to the task that changes the list (Show).                *)
(*                                                                         *)
(* Abstracted: the order of the list, which merging sorts by two clocks    *)
(* (list is the bag of its entries), bodies and names.  Bounds: one        *)
(* history request at a time; the partner reads a message once; the        *)
(* connect hook is one step (its steps are in DirectMessages); the history *)
(* is shorter than its limit of fifty.                                     *)
(***************************************************************************)
EXTENDS Naturals, SequencesExt

CONSTANTS Mine, Theirs, \* messages of the user and of the partner, each once
          Asked,        \* a request without an answer
          Nothing,      \* no request, no message
          Room          \* bound: frames on their way to the server before
                        \* the user opens the window or sends another one

ASSUME MessagesAssumption ==
    Mine \intersect Theirs = {} /\ IsFiniteSet(Mine) /\ IsFiniteSet(Theirs)

VARIABLES
    list,           \* dmMessages[partner], the bag of its entries
    chat, acked,    \* the ChatWindow is mounted; its ackedIds
    open, hooked,   \* there is a socket; its connect hook is over
    up, down,       \* frames on their way to the server and to the page
    fetch,          \* the history request: Nothing, Asked or its answer
    row,            \* messages.status, "none" if there is no row
    serving, pushed, \* HandleDM: the message the server is at; theirs that
                    \* are stored and not yet pushed, or pushed and not marked
    readBy,         \* history: messages the partner has read
    seen            \* history: theirs that a window has acknowledged

pageVars == <<list, chat, acked, seen>>
sockVars == <<open, hooked, up, down>>
serverVars == <<row, serving, pushed, readBy>>
vars == <<pageVars, sockVars, fetch, serverVars>>

Messages == Mine \union Theirs
Entry == [msg : Messages, id : {"client", "server"}, status : {"sent", "delivered", "read"}]
Rows == [Messages -> {"none", "sent", "delivered", "read"}]

ASSUME TokensAssumption == Asked # Nothing /\ Asked \notin Rows /\ Nothing \notin Rows

TypeOK ==
    /\ IsABag(list) /\ BagToSet(list) \subseteq Entry
    /\ \A e \in BagToSet(list) : e.id = "client" => e.msg \in Mine
    /\ chat \in BOOLEAN /\ acked \subseteq Theirs
    /\ open \in BOOLEAN /\ hooked \in BOOLEAN
    /\ up \in Seq([type : {"message", "ack"}, msg : Messages])
    /\ down \in Seq([type : {"message", "sent", "read"}, msg : Messages])
    /\ ~open => ~hooked /\ up = <<>> /\ down = <<>>
    /\ fetch \in Rows \/ fetch \in {Asked, Nothing}
    /\ row \in Rows
    /\ serving \in Mine \union {Nothing}
    /\ pushed \in [Theirs -> {"no", "stored", "pushed", "done"}]
    /\ readBy \subseteq Mine
    /\ seen \subseteq Theirs

Init ==
    /\ list = EmptyBag /\ chat = FALSE /\ acked = {}
    /\ open = FALSE /\ hooked = FALSE /\ up = <<>> /\ down = <<>>
    /\ fetch = Nothing
    /\ row = [m \in Messages |-> "none"]
    /\ serving = Nothing
    /\ pushed = [t \in Theirs |-> "no"]
    /\ readBy = {}
    /\ seen = {}

Frame(t, m) == [type |-> t, msg |-> m]
Frames(t, ms) == LET s == SetToSeq(ms) IN [i \in DOMAIN s |-> Frame(t, s[i])]
Listed(m, id, status) == [msg |-> m, id |-> id, status |-> status]
Shows(l, m) == \E e \in BagToSet(l) : e.msg = m

(* What the bubble of an entry says of it: one tick, two, or two blue ones *)
(* at the side of a message of the user's, and nothing for the partner's.  *)
Tick(e) ==
    IF e.msg \in Theirs THEN "none"
    ELSE [sent |-> "one", delivered |-> "two", read |-> "blue"][e.status]

(* How many copies of the elements of S the bag l holds.                   *)
Copies(l, S) ==
    LET s == SetToSeq(S)
        sum[n \in 0..Len(s)] == IF n = 0 THEN 0 ELSE sum[n - 1] + l[s[n]]
    IN  sum[Len(s)]

(* A map over the list: the function f says what becomes of some entries.  *)
Changed(l, f) ==
    LET image(e) == IF e \in DOMAIN f THEN f[e] ELSE e
    IN  [x \in {image(e) : e \in BagToSet(l)} |->
            Copies(l, {e \in BagToSet(l) : image(e) = x})]

MarkedRead(entries) == [e \in entries |-> [e EXCEPT !.status = "read"]]

(* hub.Send to the page, which is dropped while it has no connection.      *)
SendDown(frames) == down' = IF open THEN down \o frames ELSE down

-----------------------------------------------------------------------------
(* The effect of ChatWindow on a list l: what the partner has written and  *)
(* is neither read nor in ackedIds is acknowledged, once, and read.        *)
Unacked(l) ==
    {t \in Theirs \ acked :
        \E e \in BagToSet(l) : e.msg = t /\ e.status # "read"}

(* Mutant of Show: frames are queued while the socket is closed.           *)
ShowQueueing(l, sent) ==
    LET new == IF chat' THEN Unacked(l) ELSE {}
    IN  /\ list' = Changed(l, MarkedRead({e \in BagToSet(l) : e.msg \in new}))
        /\ acked' = acked \union new
        /\ seen' = seen \union new
        /\ up' = up \o sent \o Frames("ack", new)

(* The list becomes l and is shown; the frames sent and the                *)
(* acknowledgements leave if the socket is open, else they are dropped.    *)
Show(l, sent) ==
    LET new == IF chat' THEN Unacked(l) ELSE {}
    IN  /\ list' = Changed(l, MarkedRead({e \in BagToSet(l) : e.msg \in new}))
        /\ acked' = acked \union new
        /\ seen' = seen \union new
        /\ up' = IF open THEN up \o sent \o Frames("ack", new) ELSE up

(* The partner is selected: the window is mounted, and loads the history.  *)
OpenChat ==
    /\ ~chat /\ fetch = Nothing /\ Len(up) < Room
    /\ chat' = TRUE
    /\ fetch' = Asked
    /\ Show(list, <<>>)
    /\ UNCHANGED <<open, hooked, down, serverVars>>

(* He is selected no longer: the window is unmounted, or it stays, with    *)
(* its ackedIds, and shows another partner, until it is unmounted then.    *)
CloseChat ==
    /\ chat \/ acked # {}
    /\ chat' = FALSE
    /\ acked' \in {acked, {}}
    /\ UNCHANGED <<list, seen, sockVars, fetch, serverVars>>

(* handleSend: the message is in the list whether or not it is sent.       *)
Type(m) ==
    /\ chat /\ ~Shows(list, m) /\ Len(up) < Room
    /\ UNCHANGED chat
    /\ Show(list (+) SetToBag({Listed(m, "client", "sent")}), <<Frame("message", m)>>)
    /\ UNCHANGED <<open, hooked, down, fetch, serverVars>>

(* The page is loaded again: only the store has been persisted.            *)
Reload ==
    /\ chat' = FALSE /\ acked' = {}
    /\ open' = FALSE /\ hooked' = FALSE /\ up' = <<>> /\ down' = <<>>
    /\ fetch' = Nothing
    /\ UNCHANGED <<list, seen, serverVars>>

-----------------------------------------------------------------------------
(* onmessage.  The pumps start when the connect hook is over.              *)
Received(type) == hooked /\ down # <<>> /\ Head(down).type = type

MessageFrame ==
    /\ Received("message")
    /\ UNCHANGED chat
    /\ Show(list (+) SetToBag({Listed(Head(down).msg, "server", "delivered")}), <<>>)
    /\ down' = Tail(down)
    /\ UNCHANGED <<open, hooked, fetch, serverVars>>

(* confirmDMMessage: by the client's id.                                   *)
SentFrame ==
    /\ Received("sent")
    /\ list' = Changed(list, [e \in {x \in BagToSet(list) : x.msg = Head(down).msg /\ x.id = "client"} |->
                               Listed(e.msg, "server", "delivered")])
    /\ down' = Tail(down)
    /\ UNCHANGED <<chat, acked, seen, open, hooked, up, fetch, serverVars>>

(* Mutant of ReadFrame: the ids are not compared.                          *)
ReadFrameAny ==
    /\ Received("read")
    /\ list' = Changed(list, MarkedRead({e \in BagToSet(list) : e.id = "server"}))
    /\ down' = Tail(down)
    /\ UNCHANGED <<chat, acked, seen, open, hooked, up, fetch, serverVars>>

(* updateDMMessageStatus: by the server's id.                              *)
ReadFrame ==
    /\ Received("read")
    /\ list' = Changed(list, MarkedRead({e \in BagToSet(list) :
                                          e.msg = Head(down).msg /\ e.id = "server"}))
    /\ down' = Tail(down)
    /\ UNCHANGED <<chat, acked, seen, open, hooked, up, fetch, serverVars>>

-----------------------------------------------------------------------------
(* The history: the rows as they are when the server answers, ...          *)
Answer ==
    /\ fetch = Asked
    /\ fetch' = row
    /\ UNCHANGED <<pageVars, sockVars, serverVars>>

FetchFails ==
    /\ fetch = Asked
    /\ fetch' = Nothing
    /\ UNCHANGED <<pageVars, sockVars, serverVars>>

Fetched == {m \in Messages : fetch[m] # "none"}

History == SetToBag({Listed(m, "server", fetch[m]) : m \in Fetched})

LocalOnly ==
    LET kept == {e \in BagToSet(list) : e.id = "client" \/ e.msg \notin Fetched}
    IN  [e \in kept |-> list[e]]

(* Mutant of Merge: the history replaces the list.                         *)
MergeReplacing ==
    /\ fetch \in Rows
    /\ UNCHANGED chat
    /\ IF Fetched = {} THEN UNCHANGED <<list, acked, seen, up>>
       ELSE Show(History, <<>>)
    /\ fetch' = Nothing
    /\ UNCHANGED <<open, hooked, down, serverVars>>

(* ... and setDMHistory when the answer arrives: entries of the list whose *)
(* id is in it are replaced, the others are kept.                          *)
Merge ==
    /\ fetch \in Rows
    /\ UNCHANGED chat
    /\ IF Fetched = {} THEN UNCHANGED <<list, acked, seen, up>>
       ELSE Show(History (+) LocalOnly, <<>>)
    /\ fetch' = Nothing
    /\ UNCHANGED <<open, hooked, down, serverVars>>

-----------------------------------------------------------------------------
(* The server: connections, ...                                            *)
Connect ==
    /\ ~open
    /\ open' = TRUE
    /\ UNCHANGED <<pageVars, hooked, up, down, fetch, serverVars>>

Hook ==
    /\ open /\ ~hooked
    /\ hooked' = TRUE
    /\ LET pending == {t \in Theirs : row[t] = "sent"}
       IN  /\ SendDown(Frames("message", pending))
           /\ row' = [m \in Messages |-> IF m \in pending THEN "delivered" ELSE row[m]]
    /\ UNCHANGED <<pageVars, open, up, fetch, serving, pushed, readBy>>

Lose ==
    /\ open
    /\ open' = FALSE /\ hooked' = FALSE /\ up' = <<>> /\ down' = <<>>
    /\ UNCHANGED <<pageVars, fetch, serverVars>>

(* ... HandleDM and HandleAck for the frames of the page, ...              *)
ServeMessage ==
    /\ hooked /\ serving = Nothing
    /\ up # <<>> /\ Head(up).type = "message"
    /\ up' = Tail(up)
    /\ \/ row' = [row EXCEPT ![Head(up).msg] = "sent"] /\ serving' = Head(up).msg
       \/ UNCHANGED <<row, serving>>        \* the insert fails, or the limit
    /\ UNCHANGED <<pageVars, open, hooked, down, fetch, pushed, readBy>>

(* The partner's process has taken the message, or Redis has; then the     *)
(* sender is told, whatever the partner has done with it meanwhile.  If it *)
(* cannot be published either, HandleDM ends without a word to the sender. *)
Confirm ==
    /\ serving # Nothing
    /\ \/ /\ row' = [row EXCEPT ![serving] = "delivered"] \/ UNCHANGED row
          /\ SendDown(<<Frame("sent", serving)>>)
       \/ UNCHANGED <<row, down>>
    /\ serving' = Nothing
    /\ UNCHANGED <<pageVars, open, hooked, up, fetch, pushed, readBy>>

ServeAck ==
    /\ hooked /\ serving = Nothing
    /\ up # <<>> /\ Head(up).type = "ack"
    /\ up' = Tail(up)
    /\ row' = [row EXCEPT ![Head(up).msg] = "read"]
    /\ UNCHANGED <<pageVars, open, hooked, down, fetch, serving, pushed, readBy>>

(* ... the partner's page acknowledges a message, ...                      *)
PartnerReads(m) ==
    /\ row[m] # "none" /\ m \notin readBy
    /\ row' = [row EXCEPT ![m] = "read"]
    /\ readBy' = readBy \union {m}
    /\ SendDown(<<Frame("read", m)>>)
    /\ UNCHANGED <<pageVars, open, hooked, up, fetch, serving, pushed>>

(* ... and HandleDM for the messages of the partner.                       *)
TheirInsert(t) ==
    /\ pushed[t] = "no"
    /\ row' = [row EXCEPT ![t] = "sent"]
    /\ pushed' = [pushed EXCEPT ![t] = "stored"]
    /\ UNCHANGED <<pageVars, sockVars, fetch, serving, readBy>>

TheirPush(t) ==
    /\ pushed[t] = "stored"
    /\ SendDown(<<Frame("message", t)>>)
    /\ pushed' = [pushed EXCEPT ![t] = IF open THEN "pushed" ELSE "done"]
    /\ UNCHANGED <<pageVars, open, hooked, up, fetch, row, serving, readBy>>

TheirMark(t) ==
    /\ pushed[t] = "pushed"
    /\ row' = [row EXCEPT ![t] = "delivered"]
    /\ pushed' = [pushed EXCEPT ![t] = "done"]
    /\ UNCHANGED <<pageVars, sockVars, fetch, serving, readBy>>

-----------------------------------------------------------------------------
Next ==
    \/ OpenChat \/ CloseChat \/ Reload
    \/ \E m \in Mine : Type(m) \/ PartnerReads(m)
    \/ MessageFrame \/ SentFrame \/ ReadFrame
    \/ Answer \/ FetchFails \/ Merge
    \/ Connect \/ Hook \/ Lose
    \/ ServeMessage \/ Confirm \/ ServeAck
    \/ \E t \in Theirs : TheirInsert(t) \/ TheirPush(t) \/ TheirMark(t)

Spec == Init /\ [][Next]_vars

-----------------------------------------------------------------------------
(* What the list has shown stays in it: a history that was answered before *)
(* a message was stored, or without one that was never sent, removes       *)
(* nothing (store.ts:84-93).                                               *)
MessagesStay == [][\A m \in Messages : Shows(list, m) => Shows(list, m)']_vars

(* The ticks do not lie: two of them only if the message is stored, blue   *)
(* ones only if the partner has read it, whichever of the frames, the      *)
(* history and the losses came in which order (useWebSocket.ts:79-106);    *)
(* and a message of the partner's counts as read only if it was shown.     *)
(* This bounds the ticks from above: a row put back from read to delivered *)
(* (messages.go:130) and an acknowledgement that is dropped leave them     *)
(* behind what happened, for ever if need be.                              *)
MarksAreTrue ==
    \A e \in BagToSet(list) :
        /\ Tick(e) \in {"two", "blue"} => row[e.msg] # "none"
        /\ Tick(e) = "blue" => e.msg \in readBy
        /\ e.msg \in Theirs /\ e.status = "read" => e.msg \in seen
=============================================================================
