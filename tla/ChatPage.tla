------------------------------ MODULE ChatPage ------------------------------
(***************************************************************************)
(* The chat page of one browser: its layout and what is selected           *)
(* (ChatPage.tsx, ContactList.tsx), the one ChatWindow that shows the      *)
(* selected conversation (ChatWindow.tsx), the frames that change what is  *)
(* shown (useWebSocket.ts) and the store they all share, which is          *)
(* persisted (store.ts).                                                   *)
(*                                                                         *)
(* Where ClientStore follows one conversation frame by frame, this module  *)
(* has all of them, and the person who goes from one to the other while    *)
(* histories, frames and timers are under way.  A message is absent from a *)
(* list, "new" (theirs, and counted as unread) or "seen" (theirs and read, *)
(* or the user's own); marks, order, duplicates, the socket and the        *)
(* server's late marks are in ClientStore.                                 *)
(*                                                                         *)
(* The window has no key: it stays mounted when another partner is         *)
(* selected, and its text and its ackedIds with it.                        *)
(*                                                                         *)
(* Bounds: Requests, Pushes, MaxTimers.  Left out: presence (Presence),    *)
(* group messages, which no component shows, names, and the contacts'      *)
(* search, which decides only which of the contacts can be selected.       *)
(***************************************************************************)
EXTENDS Naturals

CONSTANTS
    Partners, Nobody,
    Mine, Theirs,   \* messages of the user and of his partners, each once
    From,           \* who has written a message of theirs
    Pasted,         \* the ids that are pasted into the form of a new chat
    Chats,          \* the ids that typing frames carry
    Requests,       \* bound: histories asked for and not yet merged
    Pushes,         \* bound: how often the server pushes a message
    MaxTimers       \* bound: timeouts of one flag at a time: typing frames
                    \* within five seconds, copies within two

ASSUME PartnersAssumption == Nobody \notin Partners /\ Pasted \subseteq Partners
ASSUME MessagesAssumption == Mine \intersect Theirs = {}
ASSUME FromAssumption == From \in [Theirs -> Partners]
ASSUME BoundsAssumption == Pushes \in Nat /\ MaxTimers \in Nat

VARIABLES
    loggedIn, dm, typing,       \* the store: a token; lists; indicators
    narrow,                     \* the browser's window: isMobile
    selected, newChat, input,   \* ChatPage: selectedContact, showNewChat,
                                \* contactInput
    copied, copyTimers,         \* ChatPage: the id was copied; its timeouts
    draft, acked,               \* ChatWindow: there is text; ackedIds
    fetch, answer, answered,    \* request -> its partner, its history; which
                                \* of them the server has answered
    timers,                     \* chat -> timeouts that will clear typing
    row, pushes,                \* the server: rows, and frames it has sent
    sentTo,                     \* history: to whom a message of mine went
    acks,                       \* history: acknowledgements, with sender_id
    stale                       \* history: indicators lit by a store that
                                \* was loaded, and not by a frame

store == <<loggedIn, dm, typing>>
panel == <<newChat, input, copied, copyTimers>>
window == <<draft, acked>>
requests == <<fetch, answer, answered>>
server == <<row, pushes>>
history == <<sentTo, acks, stale>>
vars == <<store, narrow, selected, panel, window, requests, timers, server, history>>

Messages == Mine \union Theirs
Status == {"absent", "new", "seen"}
Empty == [m \in Messages |-> "absent"]

TypeOK ==
    /\ loggedIn \in BOOLEAN /\ narrow \in BOOLEAN
    /\ dm \in [Partners -> [Messages -> Status]]
    /\ typing \in [Chats -> BOOLEAN] /\ timers \in [Chats -> 0..MaxTimers]
    /\ selected \in Partners \union {Nobody}
    /\ selected # Nobody => loggedIn
    /\ newChat \in BOOLEAN /\ input \in Partners \union {Nobody}
    /\ copied \in BOOLEAN /\ copyTimers \in 0..MaxTimers
    /\ draft \in BOOLEAN /\ acked \subseteq Theirs
    /\ selected = Nobody => ~draft /\ acked = {}
    /\ fetch \in [Requests -> Partners \union {Nobody}]
    /\ answer \in [Requests -> [Messages -> Status]]
    /\ answered \subseteq Requests
    /\ row \in [Messages -> Status] /\ pushes \in [Theirs -> 0..Pushes]
    /\ sentTo \in [Mine -> Partners \union {Nobody}]
    /\ acks \subseteq Partners \X Theirs
    /\ stale \subseteq Chats

Init ==
    /\ loggedIn = FALSE
    /\ dm = [p \in Partners |-> Empty]
    /\ typing = [c \in Chats |-> FALSE] /\ timers = [c \in Chats |-> 0]
    /\ narrow \in BOOLEAN
    /\ selected = Nobody /\ newChat = FALSE /\ input = Nobody
    /\ copied = FALSE /\ copyTimers = 0
    /\ draft = FALSE /\ acked = {}
    /\ fetch = [r \in Requests |-> Nobody]
    /\ answer = [r \in Requests |-> Empty] /\ answered = {}
    /\ row = Empty /\ pushes = [t \in Theirs |-> 0]
    /\ sentTo = [m \in Mine |-> Nobody] /\ acks = {} /\ stale = {}

(* Whose conversation a message belongs to.  A user's notes to himself,    *)
(* which the query finds in whatever chat they landed, are in ChatDirectory.*)
Between(m, p) == IF m \in Mine THEN sentTo[m] = p ELSE From[m] = p

(* The list of the contacts, and the number at the side of one.            *)
Contacts == {p \in Partners : dm[p] # Empty}
Unread(p) == {t \in Theirs : dm[p][t] = "new"}

(* On a narrow screen there is room for the sidebar or for the window,     *)
(* which has a row of buttons then that the bar at the top has otherwise.  *)
SidebarShown == loggedIn /\ (~narrow \/ selected = Nobody)
RowShown == narrow /\ selected # Nobody

-----------------------------------------------------------------------------
(* The effect of the window, after a render with the lists d, the partner  *)
(* p and the ackedIds a: what is unread and not in ackedIds is             *)
(* acknowledged, once, and marked as read.                                 *)
Unacked(d, p, a) == {t \in Theirs \ a : d[p][t] = "new"}

Seen(list, ts) == [m \in Messages |-> IF m \in ts THEN "seen" ELSE list[m]]

Show(d, p, a) ==
    LET new == Unacked(d, p, a)
    IN  /\ dm' = [d EXCEPT ![p] = Seen(@, new)]
        /\ acked' = a \union new
        /\ acks' = acks \union {<<p, t>> : t \in new}

(* The lists become d; the window shows its own.                           *)
Update(d) ==
    IF selected = Nobody THEN dm' = d /\ UNCHANGED <<acked, acks>>
    ELSE Show(d, selected, acked)

(* The window is there no longer, and with it what it kept; the whole page *)
(* is (its timeouts for copied have nothing left to clear).                *)
Unmount == selected' = Nobody /\ draft' = FALSE /\ acked' = {}

Leave ==
    /\ Unmount /\ newChat' = FALSE /\ input' = Nobody
    /\ copied' = FALSE /\ copyTimers' = 0

(* Mutant of Open: the effect does not depend on the partner and runs at   *)
(* the mount only.                                                         *)
OpenQuietly(p) ==
    /\ selected' = p
    /\ IF p = selected THEN UNCHANGED <<dm, acked, acks, requests>>
       ELSE /\ IF selected = Nobody THEN Show(dm, p, acked) ELSE UNCHANGED <<dm, acked, acks>>
            /\ \E r \in Requests :
                  /\ fetch[r] = Nobody
                  /\ fetch' = [fetch EXCEPT ![r] = p]
            /\ UNCHANGED <<answer, answered>>
    /\ UNCHANGED <<loggedIn, typing, narrow, draft, timers, server, sentTo, stale>>

(* Another partner is selected, or the first: the effects run for him, and *)
(* his history is asked for, which nothing cancels.                        *)
Open(p) ==
    /\ selected' = p
    /\ IF p = selected THEN UNCHANGED <<dm, acked, acks, requests>>
       ELSE /\ Show(dm, p, acked)
            /\ \E r \in Requests :
                  /\ fetch[r] = Nobody
                  /\ fetch' = [fetch EXCEPT ![r] = p]
            /\ UNCHANGED <<answer, answered>>
    /\ UNCHANGED <<loggedIn, typing, narrow, draft, timers, server, sentTo, stale>>

-----------------------------------------------------------------------------
(* setAuth: the chat page is mounted.                                      *)
LogIn ==
    /\ ~loggedIn
    /\ loggedIn' = TRUE
    /\ UNCHANGED <<dm, typing, narrow, selected, panel, window, requests, timers, server, history>>

(* Mutant of LogOut: the hook clears the timeouts when it is cleaned up.   *)
LogOutClearing ==
    /\ SidebarShown \/ RowShown
    /\ loggedIn' = FALSE
    /\ Leave
    /\ timers' = [c \in Chats |-> 0]
    /\ UNCHANGED <<dm, typing, narrow, requests, server, history>>

(* clearAuth, by one button or the other: the page is unmounted; lists,    *)
(* requests and timers stay.                                               *)
LogOut ==
    /\ SidebarShown \/ RowShown
    /\ loggedIn' = FALSE
    /\ Leave
    /\ UNCHANGED <<dm, typing, narrow, requests, timers, server, history>>

(* The page is loaded again: what is left is the persisted store.          *)
Reload ==
    /\ Leave
    /\ fetch' = [r \in Requests |-> Nobody]
    /\ answer' = [r \in Requests |-> Empty] /\ answered' = {}
    /\ timers' = [c \in Chats |-> 0]
    /\ stale' = {c \in Chats : typing[c]}
    /\ UNCHANGED <<store, narrow, server, sentTo, acks>>

(* Mutant of Resize: each layout has a window of its own.                  *)
ResizeRemounting ==
    /\ narrow' = ~narrow /\ draft' = FALSE
    /\ UNCHANGED <<store, selected, panel, acked, requests, timers, server, history>>

(* The sidebar and the row with Back come or go, the window stays.         *)
Resize ==
    /\ narrow' = ~narrow
    /\ UNCHANGED <<store, selected, panel, window, requests, timers, server, history>>

(* NEW CHAT opens and closes the form; START A CHAT opens it.              *)
Toggle ==
    /\ SidebarShown
    /\ newChat' = ~newChat
    /\ UNCHANGED <<store, narrow, selected, input, copied, copyTimers, window, requests, timers, server, history>>

StartAChat ==
    /\ loggedIn /\ ~narrow /\ selected = Nobody
    /\ newChat' = TRUE
    /\ UNCHANGED <<store, narrow, selected, input, copied, copyTimers, window, requests, timers, server, history>>

Paste(p) ==
    /\ SidebarShown /\ newChat
    /\ input' = p
    /\ UNCHANGED <<store, narrow, selected, newChat, copied, copyTimers, window, requests, timers, server, history>>

CloseForm ==
    /\ SidebarShown /\ newChat
    /\ newChat' = FALSE /\ input' = Nobody
    /\ UNCHANGED <<store, narrow, selected, copied, copyTimers, window, requests, timers, server, history>>

(* A chat is started with an id that nobody need have.                     *)
HandleStartChat ==
    /\ input # Nobody
    /\ Open(input)
    /\ newChat' = FALSE /\ input' = Nobody
    /\ UNCHANGED <<copied, copyTimers>>

Go == SidebarShown /\ newChat /\ HandleStartChat

(* A contact of the list is selected, the selected one included.           *)
HandleSelectContact(p) ==
    /\ Open(p)
    /\ newChat' = FALSE /\ UNCHANGED <<input, copied, copyTimers>>

Select(p) == SidebarShown /\ p \in Contacts /\ HandleSelectContact(p)

Back ==
    /\ RowShown
    /\ Unmount
    /\ UNCHANGED <<store, narrow, panel, requests, timers, server, history>>

(* The button says so for two seconds after the first click.               *)
HandleCopyId == copied' = TRUE /\ copyTimers' = copyTimers + 1

Copy ==
    /\ SidebarShown \/ RowShown
    /\ copyTimers < MaxTimers
    /\ HandleCopyId
    /\ UNCHANGED <<store, narrow, selected, newChat, input, window, requests, timers, server, history>>

CopyEnds ==
    /\ copyTimers > 0
    /\ copied' = FALSE /\ copyTimers' = copyTimers - 1
    /\ UNCHANGED <<store, narrow, selected, newChat, input, window, requests, timers, server, history>>

(* Text is typed or deleted.                                               *)
Type ==
    /\ selected # Nobody
    /\ draft' = ~draft
    /\ UNCHANGED <<store, narrow, selected, panel, acked, requests, timers, server, history>>

(* handleSend: to the partner whose window it is now.                      *)
Send(m) ==
    /\ selected # Nobody /\ draft /\ sentTo[m] = Nobody
    /\ draft' = FALSE
    /\ sentTo' = [sentTo EXCEPT ![m] = selected]
    /\ Update([dm EXCEPT ![selected][m] = "seen"])
    /\ UNCHANGED <<loggedIn, typing, narrow, selected, panel, requests, timers, server, stale>>

-----------------------------------------------------------------------------
(* Mutant of MessageFrame: it counts as read while any window is open.     *)
MessageFrameRead(t) ==
    /\ loggedIn /\ row[t] # "absent" /\ pushes[t] < Pushes
    /\ pushes' = [pushes EXCEPT ![t] = @ + 1]
    /\ Update([dm EXCEPT ![From[t]][t] = IF selected = Nobody THEN "new" ELSE "seen"])
    /\ UNCHANGED <<loggedIn, typing, narrow, selected, panel, draft, requests, timers, row, sentTo, stale>>

(* onmessage: a message, under the id of its sender, ...                   *)
MessageFrame(t) ==
    /\ loggedIn /\ row[t] # "absent" /\ pushes[t] < Pushes
    /\ pushes' = [pushes EXCEPT ![t] = @ + 1]
    /\ Update([dm EXCEPT ![From[t]][t] = "new"])
    /\ UNCHANGED <<loggedIn, typing, narrow, selected, panel, draft, requests, timers, row, sentTo, stale>>

(* ... and somebody who types, for five seconds.                           *)
TypingFrame(c) ==
    /\ loggedIn /\ timers[c] < MaxTimers
    /\ typing' = [typing EXCEPT ![c] = TRUE]
    /\ timers' = [timers EXCEPT ![c] = @ + 1]
    /\ stale' = stale \ {c}
    /\ UNCHANGED <<loggedIn, dm, narrow, selected, panel, window, requests, server, sentTo, acks>>

(* The first of several frames ends the indicator of them all.             *)
TypingEnds(c) ==
    /\ timers[c] > 0
    /\ typing' = [typing EXCEPT ![c] = FALSE]
    /\ timers' = [timers EXCEPT ![c] = @ - 1]
    /\ stale' = stale \ {c}
    /\ UNCHANGED <<loggedIn, dm, narrow, selected, panel, window, requests, server, sentTo, acks>>

(* GET /messages: the rows of the pair when the server answers, ...        *)
Answer(r) ==
    /\ fetch[r] # Nobody /\ r \notin answered
    /\ answer' = [answer EXCEPT ![r] =
          [m \in Messages |-> IF Between(m, fetch[r]) THEN row[m] ELSE "absent"]]
    /\ answered' = answered \union {r}
    /\ UNCHANGED <<store, narrow, selected, panel, window, fetch, timers, server, history>>

Freed(r) ==
    /\ fetch' = [fetch EXCEPT ![r] = Nobody]
    /\ answer' = [answer EXCEPT ![r] = Empty]
    /\ answered' = answered \ {r}

FetchFails(r) ==
    /\ fetch[r] # Nobody /\ r \notin answered
    /\ Freed(r)
    /\ UNCHANGED <<store, narrow, selected, panel, window, timers, server, history>>

(* ... and setDMHistory when the answer arrives, for the partner it was    *)
(* asked of, whoever is selected by then, if anyone is.                    *)
Merged(r, list) == [m \in Messages |-> IF answer[r][m] # "absent" THEN answer[r][m] ELSE list[m]]

(* Mutant of Merge: into the list that is shown by then.                   *)
MergeShown(r) ==
    /\ r \in answered
    /\ Freed(r)
    /\ Update([dm EXCEPT ![IF selected = Nobody THEN fetch[r] ELSE selected] = Merged(r, @)])
    /\ UNCHANGED <<loggedIn, typing, narrow, selected, panel, draft, timers, server, sentTo, stale>>

Merge(r) ==
    /\ r \in answered
    /\ Freed(r)
    /\ Update([dm EXCEPT ![fetch[r]] = Merged(r, @)])
    /\ UNCHANGED <<loggedIn, typing, narrow, selected, panel, draft, timers, server, sentTo, stale>>

-----------------------------------------------------------------------------
(* The server stores what partners and the user send, unless it is lost,   *)
(* and marks what is acknowledged.                                         *)
Stores(m) ==
    /\ row[m] = "absent" /\ (m \in Mine => sentTo[m] # Nobody)
    /\ row' = [row EXCEPT ![m] = IF m \in Mine THEN "seen" ELSE "new"]
    /\ UNCHANGED <<store, narrow, selected, panel, window, requests, timers, pushes, history>>

HandleAck(p, t) ==
    /\ <<p, t>> \in acks /\ row[t] = "new"
    /\ row' = [row EXCEPT ![t] = "seen"]
    /\ UNCHANGED <<store, narrow, selected, panel, window, requests, timers, pushes, history>>

-----------------------------------------------------------------------------
(* Everything but the ways into the page: LogIn and Reload.                *)
Steps ==
    \/ LogOut \/ Resize
    \/ Toggle \/ StartAChat \/ CloseForm \/ Go \/ Back
    \/ Copy \/ CopyEnds \/ Type
    \/ \E p \in Pasted \union {Nobody} : Paste(p)
    \/ \E p \in Partners : Select(p)
    \/ \E m \in Mine : Send(m)
    \/ \E t \in Theirs : MessageFrame(t)
    \/ \E c \in Chats : TypingFrame(c) \/ TypingEnds(c)
    \/ \E r \in Requests : Answer(r) \/ FetchFails(r) \/ Merge(r)
    \/ \E m \in Messages : Stores(m)
    \/ \E p \in Partners, t \in Theirs : HandleAck(p, t)

Next == LogIn \/ Reload \/ Steps

Spec == Init /\ [][Next]_vars

-----------------------------------------------------------------------------
(* Every list holds messages of its own conversation only, though          *)
(* histories arrive when another window is open, or none                   *)
(* (ChatWindow.tsx:41-56).                                                 *)
UnderItsPartner ==
    \A p \in Partners, m \in Messages : dm[p][m] # "absent" => Between(m, p)

(* Whatever brings an unread message into the open window, it is           *)
(* acknowledged: a frame, a history, the selection of another partner in   *)
(* a window that has shown it before (ChatWindow.tsx:58-68).               *)
ShownIsAcked == selected # Nobody => Unread(selected) \subseteq acked

(* No read receipt without a reader: a message counts as read, here and at *)
(* the server, only if a window of its sender has shown it, and the        *)
(* acknowledgement named him (ChatWindow.tsx:60-65).  This is the page's   *)
(* own doing: HandleAck believes whoever acknowledges (DirectMessages).    *)
ReadMeansShown ==
    \A t \in Theirs :
        row[t] = "seen" \/ dm[From[t]][t] = "seen" => <<From[t], t>> \in acks

(* Text in the window is lost only with the window, or when it is sent:    *)
(* not by a rotated screen, a frame, a history or the choice of another    *)
(* partner (ChatPage.tsx:244-304).                                         *)
DraftStays ==
    [][draft /\ ~draft' => \/ selected' = Nobody
                           \/ \E m \in Mine : sentTo'[m] # sentTo[m]
                           \/ Type]_vars

(* What is shown for a while has a timeout that will end it: an indicator  *)
(* that a frame has lit, through logouts, overlapping frames and early     *)
(* timeouts, and the button that says "copied" (useWebSocket.ts:121-126,   *)
(* ChatPage.tsx:34-38).  Not so an indicator that was lit when the page    *)
(* was loaded again: the store has kept it, the timeout is gone.           *)
LitHasTimer ==
    /\ \A c \in Chats : typing[c] /\ c \notin stale => timers[c] > 0
    /\ copied => copyTimers > 0

-----------------------------------------------------------------------------
(* Why these hold: an answer under way is of the conversation it was asked *)
(* for, what it calls read was read, and an acknowledgement names the      *)
(* sender.                                                                 *)
AnswersFit ==
    /\ \A r \in answered : fetch[r] # Nobody
    /\ \A r \in Requests, m \in Messages :
          /\ answer[r][m] # "absent" => r \in answered /\ Between(m, fetch[r])
          /\ m \in Theirs /\ answer[r][m] = "seen" => <<From[m], m>> \in acks

AcksFit == \A p \in Partners, t \in Theirs : <<p, t>> \in acks => From[t] = p

IInv ==
    /\ TypeOK /\ AnswersFit /\ AcksFit
    /\ UnderItsPartner /\ ShownIsAcked /\ ReadMeansShown /\ LitHasTimer
=============================================================================
