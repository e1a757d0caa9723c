---------------------------- MODULE SessionProofs ----------------------------
(***************************************************************************)
(* Theorems about a page from its login to its logout, for any number of   *)
(* pages, names, attempts and sockets, any delays and both ways to mount   *)
(* the page: first about its socket alone (ClientSocket), then about the   *)
(* accounts, then about the two together.                                  *)
(***************************************************************************)
EXTENDS Session, TLAPS

(* The initial state satisfies the invariant.                              *)
LEMMA InitHolds == Init => IInv
<1> SUFFICES ASSUME Init PROVE IInv
  OBVIOUS
<1>1. delay \in FirstDelay..LastDelay
  BY DelaysAssumption DEF Init
<1>2. owner \in [Sockets -> 1..2] /\ effects \in 0..2
  BY DEF Init
<1>3. \A s \in Sockets : sock[s] = "none" /\ owner[s] = 1
  BY DEF Init
<1>4. TypeOK
  BY <1>1, <1>2, <1>3 DEF Init, TypeOK
<1> QED
  BY <1>3, <1>4
     DEF IInv, RunsAreOrdered, LiveIsOfLastRun, PendingIsAlone, ClosingIsOver, Live

(* Clearing the timer keeps the types, and turns a waiting socket at most  *)
(* into none.                                                              *)
LEMMA ClearedTimer ==
    ASSUME NEW sk \in [Sockets -> {"none", "connecting", "open", "closing", "waiting"}]
    PROVE  /\ TimerCleared(sk) \in
                 [Sockets -> {"none", "connecting", "open", "closing", "waiting"}]
           /\ \A s \in Sockets :
                 \/ TimerCleared(sk)[s] = sk[s] /\ (s # timerRef \/ sk[s] # "waiting")
                 \/ TimerCleared(sk)[s] = "none" /\ s = timerRef /\ sk[s] = "waiting"
  BY DEF TimerCleared

(* The mount of the page starts the first socket that lives.               *)
LEMMA MountKeeps ==
    ASSUME IInv, NEW s \in Sockets, NEW t \in Sockets, Mount(s, t)
    PROVE  IInv'
<1>1. \A x \in Sockets : sock[x] = "none" /\ owner[x] = 1
  BY DEF IInv, RunsAreOrdered, Mount
<1>2. /\ sock'[t] = "connecting" /\ owner'[t] = effects'
      /\ effects' \in 1..2
      /\ owner' \in [Sockets -> 1..2]
  BY DEF IInv, TypeOK, Mount
<1>3. \A x \in Sockets \ {t} :
         sock'[x] = "none" \/ (sock'[x] = "closing" /\ effects' = 2)
  BY <1>1 DEF IInv, TypeOK, Mount
<1>4. \A x \in Sockets \ {t} : owner'[x] = 1
  BY <1>1 DEF IInv, TypeOK, Mount
<1>5. TypeOK'
  BY <1>1, <1>2, <1>3 DEF IInv, TypeOK, Mount
<1> QED
  BY <1>2, <1>3, <1>4, <1>5
     DEF IInv, RunsAreOrdered, LiveIsOfLastRun, PendingIsAlone, ClosingIsOver, Live, Mount

(* A socket that opens lived before.                                       *)
LEMMA OpenedKeeps ==
    ASSUME IInv, NEW s \in Sockets, Opened(s)
    PROVE  IInv'
  BY DelaysAssumption
     DEF IInv, TypeOK, RunsAreOrdered, LiveIsOfLastRun, PendingIsAlone,
         ClosingIsOver, Live, Opened

(* A socket that is closed waits, and is the only one that does.           *)
LEMMA ClosedKeeps ==
    ASSUME IInv, NEW s \in Sockets, Closed(s)
    PROVE  IInv'
<1>1. sock \in [Sockets -> {"none", "connecting", "open", "closing", "waiting"}]
  BY DEF IInv, TypeOK
<1>2. /\ sock' = [TimerCleared(sock) EXCEPT ![s] = "waiting"]
      /\ timerRef' = s /\ overtaken' = (overtaken \/ Overtakes(s))
      /\ sock[s] \in {"connecting", "open", "closing"}
      /\ UNCHANGED <<page, effects, owner, wsRef, delay>>
  BY DEF Closed
<1>3. /\ sock'[s] = "waiting"
      /\ \A x \in Sockets \ {s} : sock'[x] = "none" \/ (sock'[x] = sock[x] /\ sock[x] # "waiting")
      /\ sock' \in [Sockets -> {"none", "connecting", "open", "closing", "waiting"}]
  BY <1>1, <1>2, ClearedTimer DEF IInv, TypeOK
<1>4. overtaken' \in BOOLEAN
  BY <1>2 DEF IInv, TypeOK, Overtakes
<1> QED
  BY <1>2, <1>3, <1>4
     DEF IInv, TypeOK, RunsAreOrdered, LiveIsOfLastRun, PendingIsAlone,
         ClosingIsOver, Live

(* The delay is doubled up to its limit.                                   *)
LEMMA DoubledFits ==
    ASSUME delay \in FirstDelay..LastDelay
    PROVE  Doubled \in FirstDelay..LastDelay
  BY DelaysAssumption DEF Doubled, Min2

(* A timer connects only for the last run of the effect, which has then no *)
(* socket that lives.                                                      *)
LEMMA FireKeeps ==
    ASSUME IInv, NEW s \in Sockets, NEW t \in Sockets, Fire(s, t)
    PROVE  IInv'
<1>1. delay' \in FirstDelay..LastDelay
  BY DoubledFits DEF IInv, TypeOK, Fire
<1>2. CASE Cancelled(owner[s])
  BY <1>1, <1>2
     DEF IInv, TypeOK, RunsAreOrdered, LiveIsOfLastRun, PendingIsAlone,
         ClosingIsOver, Live, Fire
<1>3. CASE ~Cancelled(owner[s])
  <2>1. page = "chat" /\ owner[s] = effects
    BY <1>3 DEF IInv, TypeOK, RunsAreOrdered, Fire, Cancelled
  <2>2. \A x \in Sockets : ~Live(x)
    BY <2>1 DEF IInv, TypeOK, PendingIsAlone, Fire
  <2> QED
    BY <1>1, <1>3, <2>1, <2>2
       DEF IInv, TypeOK, RunsAreOrdered, LiveIsOfLastRun, PendingIsAlone,
           ClosingIsOver, Live, Fire
<1> QED
  BY <1>2, <1>3

(* The cleanup closes the socket that lives, and stops the timer.          *)
LEMMA UnmountKeeps ==
    ASSUME IInv, Unmount
    PROVE  IInv'
<1> DEFINE sk == [s \in Sockets |-> IF s = wsRef /\ Live(s) THEN "closing" ELSE sock[s]]
<1>1. sk \in [Sockets -> {"none", "connecting", "open", "closing", "waiting"}]
  BY DEF IInv, TypeOK
<1>2. sock' = TimerCleared(sk)
  BY DEF Unmount
<1>3. \A s \in Sockets : sk[s] \notin {"connecting", "open"}
  BY DEF IInv, LiveIsOfLastRun, Live
<1> HIDE DEF sk
<1>4. /\ sock' \in [Sockets -> {"none", "connecting", "open", "closing", "waiting"}]
      /\ \A s \in Sockets : sock'[s] = sk[s] \/ sock'[s] = "none"
      /\ \A s \in Sockets : sock'[s] = "waiting" => sk[s] = "waiting"
  BY <1>1, <1>2, ClearedTimer
<1>5. \A s \in Sockets :
         /\ sk[s] = "waiting" => sock[s] = "waiting"
         /\ sk[s] # "none" => sock[s] # "none"
  BY DEF sk, Live
<1> QED
  BY <1>3, <1>4, <1>5
     DEF IInv, TypeOK, RunsAreOrdered, LiveIsOfLastRun, PendingIsAlone,
         ClosingIsOver, Live, Unmount

-----------------------------------------------------------------------------
(* Every step keeps the invariant.                                         *)
LEMMA StepKeeps == IInv /\ [Next]_vars => IInv'
<1> SUFFICES ASSUME IInv, [Next]_vars PROVE IInv'
  OBVIOUS
<1>1. CASE \E s, t \in Sockets : Mount(s, t)
  BY <1>1, MountKeeps
<1>2. CASE \E s, t \in Sockets : Fire(s, t)
  BY <1>2, FireKeeps
<1>3. CASE \E s \in Sockets : Opened(s)
  BY <1>3, OpenedKeeps
<1>4. CASE \E s \in Sockets : Closed(s)
  BY <1>4, ClosedKeeps
<1>5. CASE Unmount
  BY <1>5, UnmountKeeps
<1>6. CASE UNCHANGED vars
  BY <1>6
     DEF vars, IInv, TypeOK, RunsAreOrdered, LiveIsOfLastRun, PendingIsAlone,
         ClosingIsOver, Live
<1> QED
  BY <1>1, <1>2, <1>3, <1>4, <1>5, <1>6 DEF Next

(* The invariant holds in every reachable state.                            *)
LEMMA Invariance == Spec => []IInv
<1>1. Init => IInv
  BY InitHolds
<1>2. IInv /\ [Next]_vars => IInv'
  BY StepKeeps
<1> QED
  BY <1>1, <1>2, PTL DEF Spec

(* The socket of a page keeps its types: among them that a timer is        *)
(* pending only for the socket in timerRef, so that the cleanup can stop   *)
(* it (useWebSocket.ts:132-147).                                           *)
THEOREM SocketTypeCorrect == Spec => []TypeOK
  BY Invariance, PTL DEF IInv

(* The only socket that lives is the current one, however the events of    *)
(* its predecessors, the timers and the two runs of the effect interleave. *)
THEOREM OneLives == Spec => []LiveIsCurrent
<1>1. IInv => LiveIsCurrent
  BY DEF IInv, LiveIsOfLastRun, LiveIsCurrent
<1> QED
  BY <1>1, Invariance, PTL

(* After logout no socket lives, and none ever does again.                 *)
THEOREM NoneOutlivesLogout == Spec => []QuietAfterLogout
<1>1. IInv => QuietAfterLogout
  BY DEF IInv, LiveIsOfLastRun, QuietAfterLogout
<1> QED
  BY <1>1, Invariance, PTL

-----------------------------------------------------------------------------
(* What the accounts of the pages keep.                                    *)
Owned == A!AccountsTypeOK /\ A!TokenIsOwners /\ A!GrantIsOwners

(* A row that is there stays, whatever becomes of an insertion.            *)
LEMMA RowStays ==
    ASSUME A!AccountsTypeOK, NEW p \in Pages, NEW n \in Names,
           NEW done \in BOOLEAN, NEW told \in BOOLEAN,
           A!CreateUser(p, n, done, told)
    PROVE  /\ users' \in [Names -> Pages \union {Nobody}]
           /\ \A m \in Names : users[m] # Nobody => users'[m] = users[m]
           /\ told => users'[n] = p
  BY DEF A!AccountsTypeOK, A!CreateUser

(* As long as every row that is there stays, so does what it stands for.   *)
LEMMA OwnersStay ==
    ASSUME Owned, users' \in [Names -> Pages \union {Nobody}],
           \A m \in Names : users[m] # Nobody => users'[m] = users[m],
           UNCHANGED token
    PROVE  A!TokenIsOwners'
  BY MeAssumption DEF Owned, A!AccountsTypeOK, A!TokenIsOwners

-----------------------------------------------------------------------------
(* The steps of the form and of the handlers, one by one.                  *)
LEMMA SubmitKeeps ==
    ASSUME Owned, NEW p \in Pages, NEW mode \in {"login", "register"},
           NEW n \in Names, A!Submit(p, mode, n)
    PROVE  Owned'
  BY RetriesAssumption
     DEF Owned, A!AccountsTypeOK, A!TokenIsOwners, A!GrantIsOwners, A!Stages, A!Submit

(* The server registers a name: it becomes that of the page, or the page is *)
(* refused.                                                                 *)
LEMMA RegisterKeeps ==
    ASSUME Owned, NEW p \in Pages, A!Register(p)
    PROVE  Owned'
<1>1. PICK done \in BOOLEAN, told \in BOOLEAN :
         /\ A!CreateUser(p, form[p].name, done, told)
         /\ A!Goes(p, IF told THEN "granted" ELSE "refused")
  BY DEF A!Register
<1>2. form[p].name \in Names
  BY DEF Owned, A!AccountsTypeOK
<1>3. /\ users' \in [Names -> Pages \union {Nobody}]
      /\ \A m \in Names : users[m] # Nobody => users'[m] = users[m]
      /\ told => users'[form[p].name] = p
  BY <1>1, <1>2, RowStays DEF Owned
<1>4. A!TokenIsOwners'
  BY <1>3, OwnersStay DEF A!Register
<1>5. A!AccountsTypeOK'
  BY <1>1, <1>3 DEF Owned, A!AccountsTypeOK, A!Stages, A!Register, A!Goes
<1>6. A!GrantIsOwners'
  BY <1>1, <1>3, MeAssumption
     DEF Owned, A!AccountsTypeOK, A!GrantIsOwners, A!Goes
<1> QED
  BY <1>4, <1>5, <1>6 DEF Owned

(* The server grants the page a token, or refuses it.                       *)
LEMMA LoginKeeps ==
    ASSUME Owned, NEW p \in Pages, A!Login(p)
    PROVE  Owned'
  BY DEF Owned, A!AccountsTypeOK, A!TokenIsOwners, A!GrantIsOwners, A!Stages,
         A!Login, A!Goes

(* The answer arrives at the page.                                          *)
LEMMA AnsweredKeeps ==
    ASSUME Owned, NEW p \in Pages, A!Answered(p)
    PROVE  Owned'
  BY MeAssumption
     DEF Owned, A!AccountsTypeOK, A!TokenIsOwners, A!GrantIsOwners, A!Stages,
         A!Answered, A!Goes

(* The page gives up its request; the server may still serve it.            *)
LEMMA TimedOutKeeps ==
    ASSUME Owned, NEW p \in Pages, A!TimedOut(p)
    PROVE  Owned'
  BY DEF Owned, A!AccountsTypeOK, A!TokenIsOwners, A!GrantIsOwners, A!Stages,
         A!TimedOut, A!Goes

(* A request that its page has given up is served.                          *)
LEMMA StrayKeeps ==
    ASSUME Owned, NEW p \in Pages, NEW n \in Names, A!Stray(p, n)
    PROVE  Owned'
<1>1. PICK done \in BOOLEAN : A!CreateUser(p, n, done, FALSE)
  BY DEF A!Stray
<1>2. /\ users' \in [Names -> Pages \union {Nobody}]
      /\ \A m \in Names : users[m] # Nobody => users'[m] = users[m]
  BY <1>1, RowStays DEF Owned
<1>3. A!TokenIsOwners'
  BY <1>2, OwnersStay DEF A!Stray
<1>4. A!AccountsTypeOK' /\ A!GrantIsOwners'
  BY <1>2, MeAssumption
     DEF Owned, A!AccountsTypeOK, A!GrantIsOwners, A!Stray
<1> QED
  BY <1>3, <1>4 DEF Owned

(* A retry, a token that expires, a logout.                                 *)
LEMMA OtherKeeps ==
    ASSUME Owned, NEW p \in Pages, A!AskAgain(p) \/ A!Expire(p) \/ A!Logout(p)
    PROVE  Owned'
<1>1. CASE A!AskAgain(p)
  BY <1>1, RetriesAssumption
     DEF Owned, A!AccountsTypeOK, A!TokenIsOwners, A!GrantIsOwners, A!Stages,
         A!AskAgain
<1>2. CASE A!Expire(p)
  BY <1>2 DEF Owned, A!AccountsTypeOK, A!TokenIsOwners, A!GrantIsOwners, A!Expire
<1>3. CASE A!Logout(p)
  BY <1>3 DEF Owned, A!AccountsTypeOK, A!TokenIsOwners, A!GrantIsOwners, A!Logout
<1> QED
  BY <1>1, <1>2, <1>3

-----------------------------------------------------------------------------
(* Names and tokens are owned in every reachable state.                     *)
LEMMA OwnedHolds == SessionSpec => []Owned
<1>1. SessionInit => Owned
  BY RetriesAssumption, MeAssumption
     DEF SessionInit, A!AccountsInit, Owned, A!AccountsTypeOK, A!TokenIsOwners,
         A!GrantIsOwners, A!Stages
<1>2. Owned /\ [SessionNext]_sessionVars => Owned'
  <2> SUFFICES ASSUME Owned, [SessionNext]_sessionVars PROVE Owned'
    OBVIOUS
  <2>1. ASSUME UNCHANGED accounts PROVE Owned'
    BY <2>1
       DEF accounts, Owned, A!AccountsTypeOK, A!TokenIsOwners, A!GrantIsOwners
  <2>2. ASSUME NEW s \in Sockets, NEW t \in Sockets,
               ShowChat(s, t) \/ Tried(s, t) \/ Upgraded(s) \/ Dropped(s)
        PROVE  Owned'
    BY <2>1, <2>2 DEF ShowChat, Tried, Upgraded, Dropped
  <2>3. CASE Leave
    BY <2>3, OtherKeeps, MeAssumption DEF Leave
  <2>4. ASSUME NEW p \in Pages, Asks(p)
        PROVE  Owned'
    BY <2>4, SubmitKeeps DEF Asks
  <2>5. ASSUME NEW p \in Pages, Account(p)
        PROVE  Owned'
    BY <2>5, RegisterKeeps, LoginKeeps, AnsweredKeeps, TimedOutKeeps, StrayKeeps,
       OtherKeeps DEF Account
  <2>6. CASE UNCHANGED sessionVars
    BY <2>1, <2>6 DEF sessionVars
  <2> QED
    BY <2>2, <2>3, <2>4, <2>5, <2>6 DEF SessionNext
<1> QED
  BY <1>1, <1>2, PTL DEF SessionSpec

(* Whoever is logged in under a name has registered it, however many pages *)
(* want the name, and however often and late their requests are carried    *)
(* out (api.ts:9-20, handler.go:26-57).                                    *)
THEOREM TokensAreOwned == SessionSpec => []TokenIsOwners
<1>1. Owned => TokenIsOwners
  BY DEF Owned, TokenIsOwners
<1> QED
  BY <1>1, OwnedHolds, PTL

(* Login and logout use the socket as ClientSocket allows, so its theorems *)
(* hold of a page with a token that may expire.                            *)
THEOREM UsesTheSocket == SessionSpec => Spec
<1>1. SessionInit => Init
  BY DEF SessionInit
<1>2. [SessionNext]_sessionVars => [Next]_vars
  BY DEF SessionNext, sessionVars, Next, ShowChat, Tried, Upgraded, Dropped,
         Leave, Asks, Account
<1> QED
  BY <1>1, <1>2, PTL DEF SessionSpec, Spec

(* The page, its socket and the accounts keep their types: among them that *)
(* only a token that is held can have expired.                             *)
THEOREM SessionTypeCorrect == SessionSpec => []SessionTypeOK
<1>1. TypeOK /\ Owned => SessionTypeOK
  BY DEF Owned, SessionTypeOK
<1> QED
  BY <1>1, UsesTheSocket, SocketTypeCorrect, OwnedHolds, PTL

(* However the events of the sockets, the timers and the two runs of the   *)
(* effect interleave in a session, one socket lives at most, the current.  *)
THEOREM SessionHasOneSocket == SessionSpec => []LiveIsCurrent
  BY UsesTheSocket, OneLives, PTL

(* The logout, which drops the token, ends every socket of the page.       *)
THEOREM LogoutEndsSockets == SessionSpec => []QuietAfterLogout
  BY UsesTheSocket, NoneOutlivesLogout, PTL
=============================================================================
