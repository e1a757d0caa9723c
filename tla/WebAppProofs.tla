---------------------------- MODULE WebAppProofs ----------------------------
(***************************************************************************)
(* Theorems about the page in the browser, for any number of partners,     *)
(* messages, requests under way, repeated frames and timers.               *)
(***************************************************************************)
EXTENDS WebApp, TLAPS

Lists == [Partners -> [Messages -> Status]]

(* Lists that the window may be given: every message is in the list of its *)
(* conversation, and what counts as read was shown.                        *)
Fit(d) ==
    /\ d \in Lists
    /\ \A p \in Partners, t \in Theirs : d[p][t] # "absent" => From[t] = p
    /\ \A t \in Theirs : d[From[t]][t] = "seen" => <<From[t], t>> \in acks
    /\ acks \subseteq Partners \X Theirs /\ AcksFit

(* The effect of the window changes no more than it should.                *)
LEMMA ShowKeeps ==
    ASSUME NEW d, Fit(d), NEW p \in Partners, NEW a \in SUBSET Theirs,
           Show(d, p, a)
    PROVE  /\ dm' \in Lists
           /\ \A q \in Partners, m \in Messages : dm'[q][m] # "absent" => d[q][m] # "absent"
           /\ \A t \in Theirs : dm'[From[t]][t] = "seen" => <<From[t], t>> \in acks'
           /\ acks \subseteq acks' /\ acks' \subseteq Partners \X Theirs /\ AcksFit'
           /\ acked' \subseteq Theirs
           /\ \A t \in Theirs : dm'[p][t] = "new" => t \in acked'
<1> DEFINE new == Unacked(d, p, a)
<1>1. /\ dm' = [d EXCEPT ![p] = Seen(d[p], new)]
      /\ acked' = a \union new
      /\ acks' = acks \union {<<p, t>> : t \in new}
  BY DEF Show, Fit, Lists
<1>2. /\ new \subseteq Theirs /\ Theirs \subseteq Messages
      /\ \A t \in new : d[p][t] = "new" /\ t \notin a
      /\ \A t \in Theirs \ a : d[p][t] = "new" => t \in new
  BY DEF Unacked, Messages
<1>3. \A t \in new : From[t] = p
  BY <1>2 DEF Fit
<1> HIDE DEF new
<1>4. /\ Seen(d[p], new) \in [Messages -> Status]
      /\ \A m \in Messages : Seen(d[p], new)[m] = IF m \in new THEN "seen" ELSE d[p][m]
  BY DEF Seen, Fit, Lists, Status
<1>5. /\ dm' \in Lists
      /\ \A q \in Partners \ {p} : dm'[q] = d[q]
      /\ dm'[p] = Seen(d[p], new)
  BY <1>1, <1>4 DEF Fit, Lists
<1>6. \A q \in Partners, m \in Messages : dm'[q][m] # "absent" => d[q][m] # "absent"
  BY <1>2, <1>4, <1>5
<1>7. \A t \in Theirs : dm'[From[t]][t] = "seen" => <<From[t], t>> \in acks'
  BY <1>1, <1>2, <1>3, <1>4, <1>5, FromAssumption DEF Fit
<1>8. /\ acks \subseteq acks' /\ acks' \subseteq Partners \X Theirs /\ AcksFit'
      /\ acked' \subseteq Theirs
  BY <1>1, <1>2, <1>3 DEF Fit, AcksFit
<1>9. \A t \in Theirs : dm'[p][t] = "new" => t \in acked'
  BY <1>1, <1>2, <1>4, <1>5
<1> QED
  BY <1>5, <1>6, <1>7, <1>8, <1>9

(* So does a change of the lists, whether or not a window is open.         *)
LEMMA UpdateKeeps ==
    ASSUME TypeOK, NEW d, Fit(d), Update(d)
    PROVE  /\ dm' \in Lists
           /\ \A q \in Partners, m \in Messages : dm'[q][m] # "absent" => d[q][m] # "absent"
           /\ \A t \in Theirs : dm'[From[t]][t] = "seen" => <<From[t], t>> \in acks'
           /\ acks \subseteq acks' /\ acks' \subseteq Partners \X Theirs /\ AcksFit'
           /\ acked' \subseteq Theirs
           /\ selected = Nobody => acked' = {}
           /\ selected # Nobody => \A t \in Theirs : dm'[selected][t] = "new" => t \in acked'
<1>1. CASE selected = Nobody
  BY <1>1 DEF Update, TypeOK, Fit, AcksFit
<1>2. CASE selected # Nobody
  <2>1. selected \in Partners /\ acked \in SUBSET Theirs
    BY <1>2 DEF TypeOK
  <2>2. Show(d, selected, acked)
    BY <1>2 DEF Update
  <2> QED
    BY <1>2, <2>1, <2>2, ShowKeeps DEF TypeOK
<1> QED
  BY <1>1, <1>2

(* The lists of the store may be shown.                                    *)
LEMMA StoreFits ==
    ASSUME IInv
    PROVE  Fit(dm)
  BY MessagesAssumption
     DEF IInv, TypeOK, UnderItsPartner, ReadMeansShown, Between, Fit, Lists, Messages

-----------------------------------------------------------------------------
(* The steps in which no list is shown, first those of the layout.         *)
LEMMA LayoutKeeps ==
    ASSUME IInv,
           \/ LogIn \/ Resize \/ Toggle \/ StartAChat \/ CloseForm \/ Type
           \/ \E p \in Pasted \union {Nobody} : Paste(p)
    PROVE  IInv'
<1>1. UNCHANGED <<dm, typing, selected, copied, copyTimers, acked, requests, timers,
                  server, history>>
  BY DEF store, panel, window, LogIn, Resize, Toggle, StartAChat, CloseForm, Type, Paste
<1>2. /\ loggedIn' \in BOOLEAN /\ narrow' \in BOOLEAN /\ newChat' \in BOOLEAN
      /\ input' \in Partners \union {Nobody} /\ draft' \in BOOLEAN
      /\ selected # Nobody => loggedIn'
      /\ selected = Nobody => ~draft'
  <2>1. /\ loggedIn \in BOOLEAN /\ narrow \in BOOLEAN /\ newChat \in BOOLEAN
        /\ input \in Partners \union {Nobody} /\ draft \in BOOLEAN
        /\ selected # Nobody => loggedIn
        /\ selected = Nobody => ~draft
    BY DEF IInv, TypeOK
  <2>2. CASE LogIn
    BY <2>1, <2>2 DEF panel, window, LogIn
  <2>3. CASE Resize
    BY <2>1, <2>3 DEF store, panel, window, Resize
  <2>4. CASE Toggle
    BY <2>1, <2>4 DEF store, window, Toggle
  <2>5. CASE StartAChat
    BY <2>1, <2>5 DEF store, window, StartAChat
  <2>6. CASE CloseForm
    BY <2>1, <2>6 DEF store, window, CloseForm
  <2>7. CASE Type
    BY <2>1, <2>7 DEF store, panel, Type
  <2>8. ASSUME NEW p \in Pasted \union {Nobody}, Paste(p) PROVE <1>2!:
    BY <2>1, <2>8, PartnersAssumption DEF store, window, Paste
  <2> QED
    BY <2>2, <2>3, <2>4, <2>5, <2>6, <2>7, <2>8
<1> QED
  BY <1>1, <1>2
     DEF IInv, TypeOK, AnswersFit, AcksFit, UnderItsPartner, ShownIsAcked,
         ReadMeansShown, LitHasTimer, Between, Unread, requests, server, history

(* The window goes, or the page, or all that was not persisted.            *)
LEMMA LeavingKeeps ==
    ASSUME IInv, LogOut \/ Back
    PROVE  IInv'
<1>1. /\ UNCHANGED <<dm, typing, narrow, requests, timers, server, history>>
      /\ selected' = Nobody /\ draft' = FALSE /\ acked' = {}
      /\ loggedIn' \in BOOLEAN
      /\ newChat' \in BOOLEAN /\ input' \in Partners \union {Nobody}
  BY DEF IInv, TypeOK, store, panel, LogOut, Back, Leave, Unmount
<1>2. \/ UNCHANGED <<copied, copyTimers>>
      \/ copied' = FALSE /\ copyTimers' = 0
  BY DEF panel, LogOut, Back, Leave
<1>3. 0 \in 0..MaxTimers
  BY BoundsAssumption
<1>4. TypeOK'
  BY <1>1, <1>2, <1>3 DEF IInv, TypeOK, requests, server, history
<1> QED
  BY <1>1, <1>2, <1>4
     DEF IInv, AnswersFit, AcksFit, UnderItsPartner, ShownIsAcked,
         ReadMeansShown, LitHasTimer, Between, requests, server, history

(* The page is loaded again.                                                *)
LEMMA ReloadKeeps ==
    ASSUME IInv, Reload
    PROVE  IInv'
<1>1. /\ UNCHANGED <<loggedIn, dm, typing, narrow, row, pushes, sentTo, acks>>
      /\ selected' = Nobody /\ draft' = FALSE /\ acked' = {}
      /\ newChat' = FALSE /\ input' = Nobody
      /\ copied' = FALSE /\ copyTimers' = 0
      /\ fetch' = [r \in Requests |-> Nobody] /\ answered' = {}
      /\ answer' = [r \in Requests |-> Empty]
      /\ timers' = [c \in Chats |-> 0] /\ stale' = {c \in Chats : typing[c]}
  BY DEF Reload, Leave, Unmount, store, server
<1>2. 0 \in 0..MaxTimers
  BY BoundsAssumption
<1>3. /\ Empty \in [Messages -> Status]
      /\ \A m \in Messages : Empty[m] = "absent"
  BY DEF Empty, Status
<1>4. TypeOK'
  BY <1>1, <1>2, <1>3 DEF IInv, TypeOK
<1>5. AnswersFit'
  BY <1>1, <1>3 DEF AnswersFit
<1> QED
  BY <1>1, <1>4, <1>5
     DEF IInv, AcksFit, UnderItsPartner, ShownIsAcked, ReadMeansShown,
         LitHasTimer, Between

(* Timeouts begin and end.                                                 *)
LEMMA TimersKeep ==
    ASSUME IInv, Copy \/ CopyEnds \/ \E c \in Chats : TypingFrame(c) \/ TypingEnds(c)
    PROVE  IInv'
<1>1. UNCHANGED <<dm, selected, acked, requests, row, sentTo, acks>>
  BY DEF store, panel, window, requests, server, history, Copy, CopyEnds,
         TypingFrame, TypingEnds
<1>2. CASE Copy \/ CopyEnds
  <2>1. /\ copied' \in BOOLEAN /\ copyTimers' \in 0..MaxTimers
        /\ copied' => copyTimers' > 0
    <3>1. copyTimers \in 0..MaxTimers /\ MaxTimers \in Nat
      BY BoundsAssumption DEF IInv, TypeOK
    <3>2. CASE Copy
      <4>1. copyTimers < MaxTimers /\ copyTimers' = copyTimers + 1 /\ copied' = TRUE
        BY <3>2 DEF Copy, HandleCopyId
      <4> QED
        BY <3>1, <4>1
    <3>3. CASE CopyEnds
      <4>1. copyTimers > 0 /\ copyTimers' = copyTimers - 1
        BY <3>3 DEF CopyEnds
      <4>2. copied' = FALSE
        BY <3>3 DEF CopyEnds
      <4>3. copyTimers' \in 0..MaxTimers
        BY <3>1, <4>1
      <4> QED
        BY <4>2, <4>3
    <3> QED
      BY <1>2, <3>2, <3>3
  <2>2. UNCHANGED <<loggedIn, typing, narrow, newChat, input, draft, timers, pushes, stale>>
    BY <1>2 DEF Copy, CopyEnds, store, window, server, history
  <2> QED
    BY <1>1, <2>1, <2>2
       DEF IInv, TypeOK, LitHasTimer, AnswersFit, AcksFit, UnderItsPartner,
           ShownIsAcked, ReadMeansShown, Between, Unread, requests
<1>3. ASSUME NEW c \in Chats, TypingFrame(c) \/ TypingEnds(c) PROVE IInv'
  <2>1. /\ typing' \in [Chats -> BOOLEAN] /\ timers' \in [Chats -> 0..MaxTimers]
        /\ stale' \subseteq Chats
        /\ \A k \in Chats : typing'[k] /\ k \notin stale' => timers'[k] > 0
    <3>1. CASE TypingFrame(c)
      BY <3>1, BoundsAssumption DEF IInv, TypeOK, LitHasTimer, TypingFrame
    <3>2. CASE TypingEnds(c)
      BY <3>2, BoundsAssumption DEF IInv, TypeOK, LitHasTimer, TypingEnds
    <3> QED
      BY <1>3, <3>1, <3>2
  <2>2. UNCHANGED <<loggedIn, narrow, panel, window, server>>
    BY <1>3 DEF TypingFrame, TypingEnds, window
  <2> QED
    BY <1>1, <2>1, <2>2
       DEF IInv, TypeOK, LitHasTimer, AnswersFit, AcksFit, UnderItsPartner,
           ShownIsAcked, ReadMeansShown, Between, Unread, panel, window, requests, server
<1> QED
  BY <1>2, <1>3

-----------------------------------------------------------------------------
(* The server answers with the rows of the pair, as it has them.           *)
LEMMA AnswerKeeps ==
    ASSUME IInv, NEW r \in Requests, Answer(r)
    PROVE  IInv'
<1> DEFINE list == [m \in Messages |-> IF Between(m, fetch[r]) THEN row[m] ELSE "absent"]
<1>1. /\ answer' = [answer EXCEPT ![r] = list]
      /\ answered' = answered \union {r}
      /\ fetch[r] # Nobody
      /\ UNCHANGED <<loggedIn, dm, typing, narrow, selected, panel, draft, acked,
                     fetch, timers, row, pushes, sentTo, acks, stale>>
  BY DEF Answer, store, window, server, history
<1>2. list \in [Messages -> Status]
  BY DEF IInv, TypeOK, Status
<1>3. \A m \in Messages :
         /\ list[m] # "absent" => Between(m, fetch[r])
         /\ m \in Theirs /\ list[m] = "seen" => <<From[m], m>> \in acks
  BY DEF IInv, ReadMeansShown
<1> HIDE DEF list
<1>4. TypeOK'
  BY <1>1, <1>2 DEF IInv, TypeOK, panel
<1>5. AnswersFit'
  BY <1>1, <1>2, <1>3 DEF IInv, TypeOK, AnswersFit, Between
<1> QED
  BY <1>1, <1>4, <1>5
     DEF IInv, AcksFit, UnderItsPartner, ShownIsAcked, ReadMeansShown,
         LitHasTimer, Between, Unread, panel

(* A request that is over leaves nothing.                                  *)
LEMMA FreedKeeps ==
    ASSUME TypeOK, AnswersFit, NEW r \in Requests, Freed(r), sentTo' = sentTo, acks \subseteq acks'
    PROVE  /\ fetch' \in [Requests -> Partners \union {Nobody}]
           /\ answer' \in [Requests -> [Messages -> Status]]
           /\ answered' \subseteq Requests
           /\ AnswersFit'
<1>1. Empty \in [Messages -> Status]
  BY DEF Empty, Status
<1>2. \A m \in Messages : Empty[m] = "absent"
  BY DEF Empty
<1> QED
  BY <1>1, <1>2 DEF TypeOK, Freed, AnswersFit, Between

(* A request fails.                                                         *)
LEMMA FailKeeps ==
    ASSUME IInv, NEW r \in Requests, FetchFails(r)
    PROVE  IInv'
<1>1. /\ Freed(r)
      /\ UNCHANGED <<loggedIn, dm, typing, narrow, selected, panel, draft, acked,
                     timers, row, pushes, sentTo, acks, stale>>
  BY DEF FetchFails, store, window, server, history
<1> QED
  BY <1>1, FreedKeeps
     DEF IInv, TypeOK, AcksFit, UnderItsPartner, ShownIsAcked, ReadMeansShown,
         LitHasTimer, Between, Unread, panel

(* A row is stored unread, and is marked by an acknowledgement, which names*)
(* the sender.                                                             *)
LEMMA RowsKeep ==
    ASSUME IInv,
           \/ \E m \in Messages : Stores(m)
           \/ \E p \in Partners, t \in Theirs : HandleAck(p, t)
    PROVE  IInv'
<1>1. UNCHANGED <<loggedIn, dm, typing, narrow, selected, panel, draft, acked, requests,
                  timers, pushes, sentTo, acks, stale>>
  BY DEF Stores, HandleAck, store, window, history
<1>2. /\ row' \in [Messages -> Status]
      /\ \A t \in Theirs : row'[t] = "seen" => <<From[t], t>> \in acks
  <2>1. ASSUME NEW m \in Messages, Stores(m) PROVE <1>2!:
    BY <2>1, MessagesAssumption
       DEF IInv, TypeOK, ReadMeansShown, Stores, Status, Messages
  <2>2. ASSUME NEW p \in Partners, NEW t \in Theirs, HandleAck(p, t) PROVE <1>2!:
    <3>1. <<From[t], t>> \in acks
      BY <2>2 DEF IInv, AcksFit, HandleAck
    <3> QED
      BY <2>2, <3>1 DEF IInv, TypeOK, ReadMeansShown, HandleAck, Status, Messages
  <2> QED
    BY <2>1, <2>2
<1> QED
  BY <1>1, <1>2
     DEF IInv, TypeOK, AnswersFit, AcksFit, UnderItsPartner, ShownIsAcked,
         ReadMeansShown, LitHasTimer, Between, Unread, panel, requests

-----------------------------------------------------------------------------
(* The steps that change a list: what they make of it is fit to be shown,  *)
(* and of the right conversation.                                          *)
LEMMA ListsKeep ==
    ASSUME IInv, NEW d, Fit(d), Update(d), UNCHANGED <<selected, row>>,
           \A p \in Partners, m \in Messages : d[p][m] # "absent" => Between(m, p)'
    PROVE  /\ dm' \in Lists /\ acks' \subseteq Partners \X Theirs
           /\ acked' \subseteq Theirs /\ (selected = Nobody => acked' = {})
           /\ acks \subseteq acks' /\ AcksFit'
           /\ UnderItsPartner' /\ ShownIsAcked' /\ ReadMeansShown'
  BY UpdateKeeps DEF IInv, UnderItsPartner, ShownIsAcked, ReadMeansShown, Unread

(* What the user sends is read already, and of the conversation he is in.  *)
LEMMA SendKeeps ==
    ASSUME IInv, NEW m \in Mine, Send(m)
    PROVE  IInv'
<1> DEFINE d == [dm EXCEPT ![selected][m] = "seen"]
<1>1. /\ Update(d) /\ selected \in Partners /\ sentTo[m] = Nobody
      /\ sentTo' = [sentTo EXCEPT ![m] = selected] /\ draft' = FALSE
      /\ UNCHANGED <<loggedIn, typing, narrow, selected, panel, requests, timers, server, stale>>
  BY DEF IInv, TypeOK, Send
<1>2. m \in Messages /\ m \notin Theirs /\ Theirs \subseteq Messages
  BY MessagesAssumption DEF Messages
<1>3. /\ d \in Lists
      /\ \A p \in Partners, x \in Messages :
            d[p][x] = IF p = selected /\ x = m THEN "seen" ELSE dm[p][x]
  BY <1>1, <1>2 DEF IInv, TypeOK, Lists, Status
<1> HIDE DEF d
<1>4. Fit(d)
  BY <1>2, <1>3, StoreFits, FromAssumption DEF Fit
<1>5. \A p \in Partners, x \in Messages : d[p][x] # "absent" => Between(x, p)'
  BY <1>1, <1>3, PartnersAssumption DEF IInv, TypeOK, UnderItsPartner, Between
<1>6. /\ dm' \in Lists /\ acks' \subseteq Partners \X Theirs
      /\ acked' \subseteq Theirs /\ (selected = Nobody => acked' = {})
      /\ acks \subseteq acks' /\ AcksFit'
      /\ UnderItsPartner' /\ ShownIsAcked' /\ ReadMeansShown'
  BY <1>1, <1>4, <1>5, ListsKeep DEF server
<1>7. AnswersFit'
  BY <1>1, <1>6 DEF IInv, TypeOK, AnswersFit, Between, requests
<1>8. sentTo' \in [Mine -> Partners \union {Nobody}]
  BY <1>1 DEF IInv, TypeOK
<1> QED
  BY <1>1, <1>6, <1>7, <1>8
     DEF IInv, TypeOK, LitHasTimer, Lists, panel, requests, server

(* A frame brings its message into the list of its sender.                 *)
LEMMA FrameKeeps ==
    ASSUME IInv, NEW t \in Theirs, MessageFrame(t)
    PROVE  IInv'
<1> DEFINE d == [dm EXCEPT ![From[t]][t] = "new"]
<1>1. /\ Update(d)
      /\ pushes[t] < Pushes /\ pushes' = [pushes EXCEPT ![t] = @ + 1]
      /\ UNCHANGED <<loggedIn, typing, narrow, selected, panel, draft, requests, timers,
                     row, sentTo, stale>>
  BY DEF MessageFrame
<1>2. t \in Messages /\ t \notin Mine /\ From[t] \in Partners /\ Theirs \subseteq Messages
  BY MessagesAssumption, FromAssumption DEF Messages
<1>3. /\ d \in Lists
      /\ \A p \in Partners, x \in Messages :
            d[p][x] = IF p = From[t] /\ x = t THEN "new" ELSE dm[p][x]
  BY <1>2 DEF IInv, TypeOK, Lists, Status
<1> HIDE DEF d
<1>4. Fit(d)
  BY <1>2, <1>3, StoreFits, FromAssumption DEF Fit
<1>5. \A p \in Partners, x \in Messages : d[p][x] # "absent" => Between(x, p)'
  BY <1>1, <1>2, <1>3 DEF IInv, UnderItsPartner, Between
<1>6. /\ dm' \in Lists /\ acks' \subseteq Partners \X Theirs
      /\ acked' \subseteq Theirs /\ (selected = Nobody => acked' = {})
      /\ acks \subseteq acks' /\ AcksFit'
      /\ UnderItsPartner' /\ ShownIsAcked' /\ ReadMeansShown'
  BY <1>1, <1>4, <1>5, ListsKeep
<1>7. pushes' \in [Theirs -> 0..Pushes]
  BY <1>1, BoundsAssumption DEF IInv, TypeOK
<1> QED
  BY <1>1, <1>6, <1>7
     DEF IInv, TypeOK, AnswersFit, LitHasTimer, Between, Lists, panel, requests

(* An answer changes the list of the partner it was asked of.              *)
LEMMA MergeKeeps ==
    ASSUME IInv, NEW r \in Requests, Merge(r)
    PROVE  IInv'
<1> DEFINE list == Merged(r, dm[fetch[r]])
           d == [dm EXCEPT ![fetch[r]] = list]
<1>1. /\ Update(d) /\ Freed(r) /\ r \in answered
      /\ UNCHANGED <<loggedIn, typing, narrow, selected, panel, draft, timers, server,
                     sentTo, stale>>
  BY DEF Merge
<1>2. fetch[r] \in Partners /\ Theirs \subseteq Messages
  <2>1. fetch[r] # Nobody
    BY <1>1 DEF IInv, AnswersFit, Status
  <2> QED
    BY <2>1 DEF IInv, TypeOK, Messages
<1>3. /\ list \in [Messages -> Status]
      /\ \A m \in Messages :
            list[m] = IF answer[r][m] # "absent" THEN answer[r][m] ELSE dm[fetch[r]][m]
  BY <1>2 DEF IInv, TypeOK, Merged
<1> HIDE DEF list
<1>4. /\ d \in Lists
      /\ \A p \in Partners : d[p] = IF p = fetch[r] THEN list ELSE dm[p]
  BY <1>2, <1>3 DEF IInv, TypeOK, Lists
<1> HIDE DEF d
<1>5. \A p \in Partners, m \in Messages : d[p][m] # "absent" => Between(m, p)
  BY <1>2, <1>3, <1>4 DEF IInv, AnswersFit, UnderItsPartner
<1>6. Fit(d)
  <2>1. \A p \in Partners, t \in Theirs : d[p][t] # "absent" => From[t] = p
    BY <1>2, <1>5, MessagesAssumption DEF Between
  <2>2. \A t \in Theirs : d[From[t]][t] = "seen" => <<From[t], t>> \in acks
    BY <1>2, <1>3, <1>4, FromAssumption DEF IInv, AnswersFit, ReadMeansShown
  <2> QED
    BY <1>4, <2>1, <2>2 DEF IInv, TypeOK, Fit
<1>7. /\ dm' \in Lists /\ acks' \subseteq Partners \X Theirs
      /\ acked' \subseteq Theirs /\ (selected = Nobody => acked' = {})
      /\ acks \subseteq acks' /\ AcksFit'
      /\ UnderItsPartner' /\ ShownIsAcked' /\ ReadMeansShown'
  BY <1>1, <1>5, <1>6, ListsKeep DEF server, Between
<1>8. /\ fetch' \in [Requests -> Partners \union {Nobody}]
      /\ answer' \in [Requests -> [Messages -> Status]]
      /\ answered' \subseteq Requests
      /\ AnswersFit'
  BY <1>1, <1>7, FreedKeeps DEF IInv
<1> QED
  BY <1>1, <1>7, <1>8 DEF IInv, TypeOK, LitHasTimer, Lists, panel, server

(* Another partner is shown, in the window that is there or in a new one.  *)
LEMMA OpenKeeps ==
    ASSUME IInv, NEW p \in Partners, Open(p), loggedIn = TRUE,
           newChat' \in BOOLEAN, input' \in Partners \union {Nobody},
           UNCHANGED <<copied, copyTimers>>
    PROVE  IInv'
<1>1. /\ selected' = p /\ p # Nobody
      /\ UNCHANGED <<loggedIn, typing, narrow, draft, timers, server, sentTo, stale>>
  BY PartnersAssumption DEF Open
<1>2. CASE p = selected
  BY <1>1, <1>2
     DEF IInv, TypeOK, AnswersFit, AcksFit, UnderItsPartner, ShownIsAcked,
         ReadMeansShown, LitHasTimer, Between, Unread, Open, requests, server
<1>3. CASE p # selected
  <2>1. PICK r \in Requests : fetch[r] = Nobody /\ fetch' = [fetch EXCEPT ![r] = p]
    BY <1>3 DEF Open
  <2>2. Show(dm, p, acked) /\ UNCHANGED <<answer, answered>>
    BY <1>3 DEF Open
  <2>3. Fit(dm) /\ acked \in SUBSET Theirs
    BY StoreFits DEF IInv, TypeOK
  <2>4. /\ dm' \in Lists
        /\ \A q \in Partners, m \in Messages : dm'[q][m] # "absent" => dm[q][m] # "absent"
        /\ \A t \in Theirs : dm'[From[t]][t] = "seen" => <<From[t], t>> \in acks'
        /\ acks \subseteq acks' /\ acks' \subseteq Partners \X Theirs /\ AcksFit'
        /\ acked' \subseteq Theirs
        /\ \A t \in Theirs : dm'[p][t] = "new" => t \in acked'
    BY <2>2, <2>3, ShowKeeps
  <2>5. UnderItsPartner' /\ ShownIsAcked' /\ ReadMeansShown'
    BY <1>1, <2>4
       DEF IInv, UnderItsPartner, ShownIsAcked, ReadMeansShown, Between, Unread, server
  <2>6. AnswersFit'
    BY <1>1, <2>1, <2>2, <2>4 DEF IInv, TypeOK, AnswersFit, Between
  <2>7. TypeOK'
    BY <1>1, <2>1, <2>2, <2>4 DEF IInv, TypeOK, Lists, server
  <2> QED
    BY <1>1, <2>4, <2>5, <2>6, <2>7 DEF IInv, LitHasTimer
<1> QED
  BY <1>2, <1>3

(* A partner is selected, from the list or by name.                         *)
LEMMA SelectionKeeps ==
    ASSUME IInv, Go \/ \E p \in Partners : Select(p)
    PROVE  IInv'
<1>1. CASE Go
  <2>1. /\ input \in Partners /\ Open(input) /\ loggedIn = TRUE
        /\ newChat' = FALSE /\ input' = Nobody /\ UNCHANGED <<copied, copyTimers>>
    BY <1>1 DEF IInv, TypeOK, Go, HandleStartChat, SidebarShown
  <2> QED
    BY <2>1, OpenKeeps
<1>2. ASSUME NEW p \in Partners, Select(p) PROVE IInv'
  <2>1. /\ Open(p) /\ loggedIn = TRUE
        /\ newChat' = FALSE /\ UNCHANGED <<input, copied, copyTimers>>
    BY <1>2 DEF IInv, TypeOK, Select, HandleSelectContact, SidebarShown
  <2>2. input' \in Partners \union {Nobody}
    BY <2>1 DEF IInv, TypeOK
  <2> QED
    BY <2>1, <2>2, OpenKeeps
<1> QED
  BY <1>1, <1>2

-----------------------------------------------------------------------------
(* The invariant holds in every reachable state.                            *)
LEMMA PageKeepsIInv == Spec => []IInv
<1>1. Init => IInv
  <2> SUFFICES ASSUME Init PROVE IInv
    OBVIOUS
  <2>1. /\ Empty \in [Messages -> Status]
        /\ \A m \in Messages : Empty[m] = "absent"
        /\ Theirs \subseteq Messages
    BY DEF Empty, Status, Messages
  <2>2. 0 \in 0..MaxTimers /\ 0 \in 0..Pushes
    BY BoundsAssumption
  <2>3. TypeOK
    BY <2>1, <2>2 DEF Init, TypeOK
  <2> QED
    BY <2>1, <2>3, FromAssumption
       DEF Init, IInv, AnswersFit, AcksFit, UnderItsPartner, ShownIsAcked,
           ReadMeansShown, LitHasTimer
<1>2. IInv /\ [Next]_vars => IInv'
  <2> SUFFICES ASSUME IInv, [Next]_vars PROVE IInv'
    OBVIOUS
  <2>1. CASE UNCHANGED vars
    BY <2>1
       DEF vars, store, panel, window, requests, server, history, IInv, TypeOK,
           AnswersFit, AcksFit, UnderItsPartner, ShownIsAcked, ReadMeansShown,
           LitHasTimer, Between, Unread
  <2>2. CASE LogIn \/ Reload
    BY <2>2, LayoutKeeps, ReloadKeeps
  <2>3. CASE Steps
    BY <2>3, LayoutKeeps, LeavingKeeps, TimersKeep, SelectionKeeps, SendKeeps,
       FrameKeeps, AnswerKeeps, FailKeeps, MergeKeeps, RowsKeep DEF Steps
  <2> QED
    BY <2>1, <2>2, <2>3 DEF Next
<1> QED
  BY <1>1, <1>2, PTL DEF Spec

-----------------------------------------------------------------------------
(* With the login form around it the chat page takes no other steps, so    *)
(* what is proved of it holds in the whole page (App.tsx:5-8).             *)
THEOREM UsesTheChatPage == AppSpec => Spec
<1>1. AppInit => Init
  BY DEF AppInit
<1>2. [AppNext]_appVars => [Next]_vars
  BY DEF AppNext, appVars, Next, LoggingIn, FormStep, Reloading, ChatStep
<1> QED
  BY <1>1, <1>2, PTL DEF AppSpec, Spec

(* The page and its form keep their types.                                 *)
THEOREM TypeCorrect == AppSpec => []AppTypeOK
<1>1. AppInit => F!FormTypeOK
  BY DEF AppInit, F!FormInit, F!Fresh, F!FormTypeOK
<1>2. F!FormTypeOK /\ [AppNext]_appVars => F!FormTypeOK'
  <2> SUFFICES ASSUME F!FormTypeOK, [AppNext]_appVars PROVE F!FormTypeOK'
    OBVIOUS
  <2>1. CASE LoggingIn \/ Reloading
    BY <2>1 DEF LoggingIn, Reloading, F!Succeeded, F!FormReset, F!Fresh, F!FormTypeOK
  <2>2. CASE FormStep
    BY <2>2
       DEF FormStep, F!FormSteps, F!SwitchTab, F!Edit, F!SubmitBlank, F!Submit,
           F!Failed, F!FormTypeOK
  <2>3. CASE UNCHANGED form
    BY <2>3 DEF form, F!FormTypeOK
  <2> QED
    BY <2>1, <2>2, <2>3 DEF AppNext, ChatStep, appVars
<1>3. AppSpec => []F!FormTypeOK
  BY <1>1, <1>2, PTL DEF AppSpec
<1>4. IInv /\ F!FormTypeOK => AppTypeOK
  BY DEF IInv, AppTypeOK
<1> QED
  BY <1>3, <1>4, UsesTheChatPage, PageKeepsIInv, PTL

(* However late the histories of other conversations arrive, no list holds *)
(* a message of another one (ChatWindow.tsx:41-56).                        *)
THEOREM ListsAreSeparate == AppSpec => []UnderItsPartner
<1>1. IInv => UnderItsPartner
  BY DEF IInv
<1> QED
  BY <1>1, UsesTheChatPage, PageKeepsIInv, PTL

(* What is unread in the open window was acknowledged, for any number of   *)
(* partners between whom the window is moved (ChatWindow.tsx:58-68).       *)
THEOREM NothingShownUnanswered == AppSpec => []ShownIsAcked
<1>1. IInv => ShownIsAcked
  BY DEF IInv
<1> QED
  BY <1>1, UsesTheChatPage, PageKeepsIInv, PTL

(* No message is marked as read, at the server or in a list, that a window *)
(* of its sender has not shown (ChatWindow.tsx:60-65, dm.go:80-103).       *)
THEOREM NoReceiptUnseen == AppSpec => []ReadMeansShown
<1>1. IInv => ReadMeansShown
  BY DEF IInv
<1> QED
  BY <1>1, UsesTheChatPage, PageKeepsIInv, PTL

(* An indicator that a frame has lit has a timeout that will clear it, for *)
(* any number of overlapping frames (useWebSocket.ts:121-126).             *)
THEOREM IndicatorsEnd == AppSpec => []LitHasTimer
<1>1. IInv => LitHasTimer
  BY DEF IInv
<1> QED
  BY <1>1, UsesTheChatPage, PageKeepsIInv, PTL

(* Text in the window is lost only with the window, or when it is sent     *)
(* (ChatPage.tsx:244-304).                                                 *)
THEOREM TextStays == AppSpec => DraftStays
<1>1. IInv /\ [Next]_vars =>
         [draft /\ ~draft' => \/ selected' = Nobody
                              \/ \E m \in Mine : sentTo'[m] # sentTo[m]
                              \/ Type]_vars
  <2> SUFFICES ASSUME IInv, Next, draft, ~draft', selected' # Nobody, ~Type
               PROVE  \E m \in Mine : sentTo'[m] # sentTo[m]
    BY DEF vars
  <2>1. CASE \E m \in Mine : Send(m)
    <3>1. PICK m \in Mine : Send(m)
      BY <2>1
    <3>2. sentTo[m] = Nobody /\ selected # Nobody /\ sentTo' = [sentTo EXCEPT ![m] = selected]
      BY <3>1 DEF Send
    <3>3. sentTo'[m] # sentTo[m]
      BY <3>2 DEF IInv, TypeOK
    <3> QED
      BY <3>3
  <2>2. CASE LogOut \/ Reload \/ Back
    BY <2>2 DEF LogOut, Reload, Back, Leave, Unmount
  <2>3. CASE ~(LogOut \/ Reload \/ Back \/ \E m \in Mine : Send(m))
    <3>1. UNCHANGED draft
      BY <2>3
         DEF Next, Steps, window, LogIn, Resize, Toggle, StartAChat, CloseForm, Go,
             Copy, CopyEnds, Paste, Select, HandleSelectContact, HandleStartChat,
             Open, MessageFrame, TypingFrame, TypingEnds, Answer, FetchFails,
             Merge, Stores, HandleAck
    <3> QED
      BY <3>1
  <2> QED
    BY <2>1, <2>2, <2>3
<1>2. Spec => DraftStays
  BY <1>1, PageKeepsIInv, PTL DEF Spec, DraftStays
<1> QED
  BY <1>2, UsesTheChatPage, PTL

(* A submitted form ends with the chat page or with the reason why not     *)
(* (LoginForm.tsx:14-32).                                                  *)
THEOREM SubmissionsEnd == AppSpec => SubmitIsAnswered
<1>1. [AppNext]_appVars =>
         [loading /\ ~loading' => loggedIn' \/ error' = "failed" \/ Reloading]_appVars
  <2> SUFFICES ASSUME AppNext, loading, ~loading', ~Reloading
               PROVE  loggedIn' \/ error' = "failed"
    OBVIOUS
  <2>1. CASE LoggingIn
    BY <2>1 DEF LoggingIn, LogIn
  <2>2. CASE FormStep
    BY <2>2
       DEF FormStep, F!FormSteps, F!SwitchTab, F!Edit, F!SubmitBlank, F!Submit, F!Failed
  <2>3. CASE ChatStep
    BY <2>3 DEF ChatStep, form
  <2> QED
    BY <2>1, <2>2, <2>3 DEF AppNext
<1> QED
  BY <1>1, PTL DEF AppSpec, SubmitIsAnswered
=============================================================================
