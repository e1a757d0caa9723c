--------------------------- MODULE ChatDirectory ---------------------------
(***************************************************************************)
(* The chats of two users: FindOrCreateChat (server/db/messages.go:23-59), *)
(* called by HandleDM (dm.go) before it stores a message and by            *)
(* GET /messages (main.go) before it reads the history of a chat.          *)
(*                                                                         *)
(* A call looks the chat up with one statement and, finding none, creates  *)
(* it in a transaction of its own; nothing locks the pair in between.      *)
(* pc[c]:  idle -> lookup -> create -> found -> over                       *)
(* A user may name himself as his partner.  A partner who does not exist   *)
(* is refused by a foreign key, like any other failure (Failures).         *)
(* The names of the specification are its own, so that a module can extend *)
(* it together with that of the history in the page (ClientStore).         *)
(***************************************************************************)
EXTENDS FiniteSets

CONSTANTS
    Users,
    Callers,        \* calls of HandleDM and of GET /messages, each once
    Chats,          \* ids that the database can give out, in any order
    NoChat,
    Failures        \* {"db"} if statements may fail, else {}

ASSUME NoChatAssumption == NoChat \notin Chats

VARIABLES
    members,        \* chat_members; {} if there is no such chat
    rows,           \* messages: who wrote to whom, with which call, in which chat
    pc, from, to,   \* where a call is, its user and his partner
    chatID,         \* what FindOrCreateChat has returned
    read            \* the rows a call has answered to GET /messages

callVars == <<pc, from, to, chatID>>
directoryVars == <<members, rows, callVars, read>>

Row == [by : Callers, from : Users, to : Users, chat : Chats]

Pair(c) == {from[c], to[c]}
ChatsOf(p) == {k \in Chats : members[k] = p}

DirectoryTypeOK ==
    /\ members \in [Chats -> SUBSET Users]
    /\ rows \subseteq Row
    /\ pc \in [Callers -> {"idle", "lookup", "create", "found", "over"}]
    /\ from \in [Callers -> Users] /\ to \in [Callers -> Users]
    /\ chatID \in [Callers -> Chats \union {NoChat}]
    /\ read \in [Callers -> SUBSET Row]

DirectoryInit ==
    /\ members = [k \in Chats |-> {}]
    /\ rows = {}
    /\ pc = [c \in Callers |-> "idle"]
    /\ from \in [Callers -> Users] /\ to \in [Callers -> Users]
    /\ chatID = [c \in Callers |-> NoChat]
    /\ read = [c \in Callers |-> {}]

Goto(c, label) == pc' = [pc EXCEPT ![c] = label]

Call(c) ==
    /\ pc[c] = "idle"
    /\ Goto(c, "lookup")
    /\ UNCHANGED <<members, rows, from, to, chatID, read>>

-----------------------------------------------------------------------------
(* The join of chat_members with itself: every chat with both users in it. *)
Matching(c) == {k \in Chats : Pair(c) \subseteq members[k]}

(* Mutant of LookupFound: the join is gone, one of the two is enough.      *)
LookupEither(c) ==
    /\ pc[c] = "lookup"
    /\ \E k \in Chats :
          /\ Pair(c) \intersect members[k] # {}
          /\ chatID' = [chatID EXCEPT ![c] = k]
    /\ Goto(c, "found")
    /\ UNCHANGED <<members, rows, from, to, read>>

(* LIMIT 1 without an order: any of them.                                  *)
LookupFound(c) ==
    /\ pc[c] = "lookup"
    /\ \E k \in Matching(c) : chatID' = [chatID EXCEPT ![c] = k]
    /\ Goto(c, "found")
    /\ UNCHANGED <<members, rows, from, to, read>>

(* Mutant of LookupNone: an error of the lookup is taken for no rows.      *)
LookupNoneOrError(c) ==
    /\ pc[c] = "lookup"
    /\ Matching(c) = {} \/ "db" \in Failures
    /\ Goto(c, "create")
    /\ UNCHANGED <<members, rows, from, to, chatID, read>>

LookupNone(c) ==
    /\ pc[c] = "lookup"
    /\ Matching(c) = {}
    /\ Goto(c, "create")
    /\ UNCHANGED <<members, rows, from, to, chatID, read>>

(* The transaction; the same user twice breaks the primary key of          *)
(* chat_members and with it the transaction.                               *)
Create(c) ==
    /\ pc[c] = "create"
    /\ from[c] # to[c]
    /\ \E k \in Chats :
          /\ members[k] = {}
          /\ members' = [members EXCEPT ![k] = Pair(c)]
          /\ chatID' = [chatID EXCEPT ![c] = k]
    /\ Goto(c, "found")
    /\ UNCHANGED <<rows, from, to, read>>

CreateSelf(c) ==
    /\ pc[c] = "create"
    /\ from[c] = to[c]
    /\ Goto(c, "over")
    /\ UNCHANGED <<members, rows, from, to, chatID, read>>

(* Mutant of Fail: the error is logged and the call goes on.               *)
FailIgnored(c) ==
    /\ "db" \in Failures
    /\ pc[c] \in {"lookup", "create"}
    /\ Goto(c, "found")
    /\ UNCHANGED <<members, rows, from, to, chatID, read>>

(* A statement fails, and the call with it; a COMMIT perhaps with effect.  *)
Fail(c) ==
    /\ "db" \in Failures
    /\ pc[c] \in {"lookup", "create", "found"}
    /\ \/ UNCHANGED members
       \/ /\ pc[c] = "create" /\ from[c] # to[c]
          /\ \E k \in Chats :
                /\ members[k] = {}
                /\ members' = [members EXCEPT ![k] = Pair(c)]
    /\ Goto(c, "over")
    /\ UNCHANGED <<rows, from, to, chatID, read>>

-----------------------------------------------------------------------------
(* HandleDM: the message is stored in the chat that was returned.          *)
InsertMessage(c) ==
    /\ pc[c] = "found"
    /\ rows' = rows \union {[by |-> c, from |-> from[c], to |-> to[c], chat |-> chatID[c]]}
    /\ Goto(c, "over")
    /\ UNCHANGED <<members, from, to, chatID, read>>

(* GET /messages: the rows of that chat.                                   *)
ReadHistory(c) ==
    /\ pc[c] = "found"
    /\ read' = [read EXCEPT ![c] = {r \in rows : r.chat = chatID[c]}]
    /\ Goto(c, "over")
    /\ UNCHANGED <<members, rows, from, to, chatID>>

DirectoryNext ==
    \E c \in Callers :
        \/ Call(c)
        \/ LookupFound(c) \/ LookupNone(c)
        \/ Create(c) \/ CreateSelf(c) \/ Fail(c)
        \/ InsertMessage(c) \/ ReadHistory(c)

DirectorySpec == DirectoryInit /\ [][DirectoryNext]_directoryVars

-----------------------------------------------------------------------------
(* Two users who write to each other use a chat of theirs, and read what   *)
(* they have written to each other or to themselves: no third user's words *)
(* (messages.go:26-32, main.go:257-265).                                   *)
HistoryIsOfThePair ==
    \A c \in Callers : from[c] # to[c] =>
        \A r \in read[c] : {r.from, r.to} \subseteq Pair(c)

Settled(p) ==
    /\ ChatsOf(p) # {}
    /\ \A c \in Callers : Pair(c) = p => pc[c] # "create"

(* Two first messages that overlap may create two chats for one pair, but  *)
(* once there is one and no call is past its lookup no other is created,   *)
(* whoever of the two calls and whatever fails (messages.go:24-40).        *)
SettledStays ==
    [][\A c \in Callers : Settled(Pair(c)) =>
          Settled(Pair(c))' /\ ChatsOf(Pair(c))' = ChatsOf(Pair(c))]_directoryVars
=============================================================================
