--------------------------- MODULE RedisKeysProofs ---------------------------
(***************************************************************************)
(* Theorems about the two keys that Redis lets expire: the presence of a   *)
(* user, for any number of connections and any interval of the heartbeats  *)
(* that is shorter than the TTL, and the counter of the rate limiter, for  *)
(* any limit, any length of the window and any number of users.            *)
(***************************************************************************)
EXTENDS Presence, RateLimiter, WellFoundedInduction, TLAPS

-----------------------------------------------------------------------------
(* The presence of a user.                                                 *)

(* The invariant holds before anybody has connected.                        *)
LEMMA InitHolds == Init => IInv
<1> SUFFICES ASSUME Init PROVE IInv
  OBVIOUS
<1>1. key \in 0..Ttl /\ look \in 0..Beat /\ gone \in 0..Forgotten /\ dark \in Nat
  BY TimesAssumption DEF Init, Forgotten
<1>2. beat \in [Conns -> 0..Beat]
  BY TimesAssumption DEF Init
<1>3. TypeOK
  BY <1>1, <1>2 DEF Init, TypeOK, Stages
<1>4. key = 0 /\ dark = 0 /\ ~view /\ \A c \in Conns : ~there[c] /\ ~ping[c] /\ stage[c] = "new"
  BY DEF Init
<1> QED
  BY <1>3, <1>4, TimesAssumption
     DEF IInv, KeyOutlivesBeat, DarkIsBrief, KeyHasWriter, WritersAreRecent,
         KeyIsRecent, ViewIsRecent, Present

-----------------------------------------------------------------------------
(* The connections.                                                        *)
LEMMA ConnectKeeps ==
    ASSUME IInv, NEW c \in Conns, Connect(c)
    PROVE  IInv'
  BY TimesAssumption
     DEF Connect, IInv, TypeOK, KeyOutlivesBeat, DarkIsBrief, KeyHasWriter,
         WritersAreRecent, KeyIsRecent, ViewIsRecent, Stages, Forgotten, Present,
         watchVars

(* A connection sets the key, or fails to (presence.go:19).                 *)
LEMMA OnConnectKeeps ==
    ASSUME IInv, NEW c \in Conns, OnConnect(c)
    PROVE  IInv'
<1>1. TypeOK'
  <2>1. key' \in 0..Ttl /\ dark' \in Nat /\ gone' \in 0..Forgotten
    BY TimesAssumption DEF OnConnect, SetOnline, SetOnlineFails, IInv, TypeOK
  <2>2. excused' \in BOOLEAN /\ faulty' \in BOOLEAN
    BY DEF OnConnect, SetOnline, SetOnlineFails, IInv, TypeOK
  <2>3. /\ stage' \in [Conns -> Stages] /\ ping' \in [Conns -> BOOLEAN]
        /\ \A d \in Conns : there[d] => stage'[d] \in {"hook", "up"}
        /\ \A d \in Conns : ping'[d] => stage'[d] = "up"
    BY DEF OnConnect, IInv, TypeOK, Stages
  <2> QED
    BY <2>1, <2>2, <2>3 DEF OnConnect, IInv, TypeOK, watchVars
<1>2. /\ gone = 0 /\ gone' = 0
      /\ stage[c] \in {"hook", "up"} /\ stage' = [stage EXCEPT ![c] = "up"]
      /\ UNCHANGED <<there, beat, watchVars>>
      /\ \A d \in Conns : ping'[d] => ping[d]
  BY DEF OnConnect, SetOnline, SetOnlineFails, IInv, TypeOK, WritersAreRecent
<1>3. WritersAreRecent' /\ ViewIsRecent' /\ KeyHasWriter'
  BY <1>1, <1>2, TimesAssumption
     DEF WritersAreRecent, ViewIsRecent, KeyHasWriter, TypeOK, IInv, watchVars
<1>4. dark' = 0 /\ DarkIsBrief'
  BY <1>1, TimesAssumption DEF OnConnect, SetOnline, SetOnlineFails, DarkIsBrief, TypeOK
<1>5. CASE SetOnline
  BY <1>1, <1>2, <1>3, <1>4, <1>5, TimesAssumption
     DEF SetOnline, IInv, TypeOK, KeyOutlivesBeat, KeyIsRecent
<1>6. CASE SetOnlineFails
  BY <1>1, <1>2, <1>3, <1>4, <1>6
     DEF SetOnlineFails, IInv, KeyOutlivesBeat, KeyIsRecent
<1> QED
  BY <1>5, <1>6 DEF OnConnect

(* The ticker of a page falls due.                                          *)
LEMMA HeartbeatKeeps ==
    ASSUME IInv, NEW c \in Conns, Heartbeat(c)
    PROVE  IInv'
  BY TimesAssumption
     DEF Heartbeat, IInv, TypeOK, KeyOutlivesBeat, DarkIsBrief, KeyHasWriter,
         WritersAreRecent, KeyIsRecent, ViewIsRecent, Stages, Forgotten, Present,
         watchVars, history

(* A ping of a page sets the key again, or fails to.                        *)
LEMMA PingKeeps ==
    ASSUME IInv, NEW c \in Conns, Ping(c)
    PROVE  IInv'
<1>1. TypeOK'
  <2>1. key' \in 0..Ttl /\ dark' \in Nat /\ gone' \in 0..Forgotten
    BY TimesAssumption DEF Ping, SetOnline, SetOnlineFails, IInv, TypeOK
  <2>2. excused' \in BOOLEAN /\ faulty' \in BOOLEAN
    BY DEF Ping, SetOnline, SetOnlineFails, IInv, TypeOK
  <2>3. /\ stage' \in [Conns -> Stages] /\ ping' \in [Conns -> BOOLEAN]
        /\ \A d \in Conns : there[d] => stage'[d] \in {"hook", "up"}
        /\ \A d \in Conns : ping'[d] => stage'[d] = "up"
    BY DEF Ping, IInv, TypeOK, Stages
  <2> QED
    BY <2>1, <2>2, <2>3 DEF Ping, IInv, TypeOK, watchVars
<1>2. /\ gone = 0 /\ gone' = 0
      /\ stage[c] \in {"hook", "up"} /\ stage' = [stage EXCEPT ![c] = "up"]
      /\ UNCHANGED <<there, beat, watchVars>>
      /\ \A d \in Conns : ping'[d] => ping[d]
  BY DEF Ping, SetOnline, SetOnlineFails, IInv, TypeOK, WritersAreRecent
<1>3. WritersAreRecent' /\ ViewIsRecent' /\ KeyHasWriter'
  BY <1>1, <1>2, TimesAssumption
     DEF WritersAreRecent, ViewIsRecent, KeyHasWriter, TypeOK, IInv, watchVars
<1>4. dark' = 0 /\ DarkIsBrief'
  BY <1>1, TimesAssumption DEF Ping, SetOnline, SetOnlineFails, DarkIsBrief, TypeOK
<1>5. CASE SetOnline
  BY <1>1, <1>2, <1>3, <1>4, <1>5, TimesAssumption
     DEF SetOnline, IInv, TypeOK, KeyOutlivesBeat, KeyIsRecent
<1>6. CASE SetOnlineFails
  BY <1>1, <1>2, <1>3, <1>4, <1>6
     DEF SetOnlineFails, IInv, KeyOutlivesBeat, KeyIsRecent
<1> QED
  BY <1>5, <1>6 DEF Ping

(* A page disappears without a word.                                        *)
LEMMA VanishKeeps ==
    ASSUME IInv, NEW c \in Conns, Vanish(c)
    PROVE  IInv'
  BY TimesAssumption
     DEF Vanish, IInv, TypeOK, KeyOutlivesBeat, DarkIsBrief, KeyHasWriter,
         WritersAreRecent, KeyIsRecent, ViewIsRecent, Stages, Forgotten, Present,
         watchVars, history

(* The server sees that a connection is gone.                               *)
LEMMA ReadErrorKeeps ==
    ASSUME IInv, NEW c \in Conns, ReadError(c)
    PROVE  IInv'
  BY TimesAssumption
     DEF ReadError, IInv, TypeOK, KeyOutlivesBeat, DarkIsBrief, KeyHasWriter,
         WritersAreRecent, KeyIsRecent, ViewIsRecent, Stages, Forgotten, Present,
         watchVars, history

(* The end of a connection deletes the key, whoever else is connected.      *)
LEMMA OnDisconnectKeeps ==
    ASSUME IInv, NEW c \in Conns, OnDisconnect(c)
    PROVE  IInv'
<1>1. /\ stage[c] = "closing" /\ stage' = [stage EXCEPT ![c] = "over"]
      /\ UNCHANGED <<there, beat, ping, watchVars, dark, gone>>
  BY DEF OnDisconnect, SetOffline
<1>2. \/ key' = 0 /\ excused' = TRUE /\ faulty' = faulty
      \/ faulty' = TRUE /\ key' = key /\ excused' = excused
  BY DEF OnDisconnect, SetOffline
<1>3. TypeOK'
  <2>1. key' \in 0..Ttl
    BY <1>2, TimesAssumption DEF IInv, TypeOK
  <2>2. excused' \in BOOLEAN /\ faulty' \in BOOLEAN
    BY <1>2 DEF IInv, TypeOK
  <2>3. /\ stage' \in [Conns -> Stages]
        /\ \A d \in Conns : there[d] => stage'[d] \in {"hook", "up"}
        /\ \A d \in Conns : ping[d] => stage'[d] = "up"
    BY <1>1 DEF IInv, TypeOK, Stages
  <2> QED
    BY <1>1, <2>1, <2>2, <2>3 DEF IInv, TypeOK, Forgotten, watchVars
<1>4. WritersAreRecent' /\ ViewIsRecent' /\ KeyIsRecent' /\ DarkIsBrief'
  BY <1>1, <1>2
     DEF IInv, TypeOK, WritersAreRecent, ViewIsRecent, KeyIsRecent, DarkIsBrief,
         Present, watchVars
<1>5. KeyOutlivesBeat' /\ KeyHasWriter'
  BY <1>1, <1>2 DEF IInv, TypeOK, KeyOutlivesBeat, KeyHasWriter, Present
<1> QED
  BY <1>3, <1>4, <1>5 DEF IInv

(* A process ends and deletes nothing.                                      *)
LEMMA CrashKeeps ==
    ASSUME IInv, NEW c \in Conns, Crash(c)
    PROVE  IInv'
  BY TimesAssumption
     DEF Crash, IInv, TypeOK, KeyOutlivesBeat, DarkIsBrief, KeyHasWriter,
         WritersAreRecent, KeyIsRecent, ViewIsRecent, Stages, Forgotten, Present,
         watchVars

-----------------------------------------------------------------------------
(* The watching page, and time.                                            *)
LEMMA WatchKeeps ==
    ASSUME IInv, Open \/ Poll \/ MessageIn \/ Superseded \/ Close
    PROVE  IInv'
<1>1. UNCHANGED <<key, connVars, history>>
  BY DEF Open, Poll, MessageIn, Superseded, Close
<1>2. TypeOK'
  <2>1. look' \in 0..Beat
    BY TimesAssumption DEF IInv, TypeOK, Open, Poll, MessageIn, Superseded, Close
  <2>2. /\ open' \in BOOLEAN /\ asked' \in BOOLEAN /\ reached' \in BOOLEAN
        /\ (asked' \/ reached' => open') /\ view' = view
    BY DEF IInv, TypeOK, Open, Poll, MessageIn, Superseded, Close
  <2> QED
    BY <1>1, <2>1, <2>2 DEF IInv, TypeOK, connVars, history, Forgotten
<1>3. ViewIsRecent'
  BY <1>1 DEF IInv, ViewIsRecent, Open, Poll, MessageIn, Superseded, Close, history
<1> QED
  BY <1>1, <1>2, <1>3
     DEF IInv, KeyOutlivesBeat, DarkIsBrief, KeyHasWriter, WritersAreRecent,
         KeyIsRecent, Present, connVars, history

(* The watcher is told whether the user is there, or another page of the   *)
(* watcher is (main.go:90-112).                                            *)
LEMMA AnswerKeeps ==
    ASSUME IInv, PresenceCheck \/ OthersCheck
    PROVE  IInv'
<1>1. /\ UNCHANGED <<key, connVars, open, look, reached, excused, dark, gone>>
      /\ asked' = FALSE \/ asked' = asked
  BY DEF PresenceCheck, OthersCheck, Answer
<1>2. /\ \/ reached /\ view' = (key > 0)
         \/ reached /\ view' = FALSE
         \/ ~reached /\ view' = view
      /\ faulty' = faulty \/ faulty' = TRUE
  BY DEF PresenceCheck, OthersCheck, Answer
<1>3. (key > 0) \in BOOLEAN
  OBVIOUS
<1>4. view \in BOOLEAN
  BY DEF IInv, TypeOK
<1>5. view' \in BOOLEAN
  BY <1>2, <1>3, <1>4, Zenon
<1>6. faulty' \in BOOLEAN /\ (faulty => faulty')
  <2>1. faulty \in BOOLEAN
    BY DEF IInv, TypeOK
  <2>2. faulty' = faulty \/ faulty' = TRUE
    BY <1>2
  <2> QED
    BY <2>1, <2>2
<1>7. TypeOK'
  <2>1. asked' \in BOOLEAN /\ (asked' \/ reached' => open')
    <3>1. asked \in BOOLEAN /\ (asked \/ reached => open)
      BY DEF IInv, TypeOK
    <3>2. open' = open /\ reached' = reached
      BY <1>1
    <3>3. CASE asked' = FALSE
      BY <3>1, <3>2, <3>3
    <3>4. CASE asked' = asked
      BY <3>1, <3>2, <3>4
    <3>5. asked' = FALSE \/ asked' = asked
      BY <1>1
    <3> QED
      BY <3>3, <3>4, <3>5
  <2> QED
    BY <1>1, <1>5, <1>6, <2>1 DEF IInv, TypeOK, connVars, Forgotten
<1>8. reached /\ view' => key > 0
  <2>1. CASE view' = (key > 0)
    BY <2>1, Zenon
  <2>2. CASE view' = FALSE
    BY <2>2, Zenon
  <2>3. CASE ~reached
    BY <2>3
  <2> QED
    BY <1>2, <2>1, <2>2, <2>3
<1>9. ViewIsRecent'
  BY <1>1, <1>8, TimesAssumption DEF IInv, TypeOK, KeyIsRecent, ViewIsRecent
<1> QED
  BY <1>1, <1>6, <1>7, <1>9
     DEF IInv, KeyOutlivesBeat, DarkIsBrief, KeyHasWriter, WritersAreRecent,
         KeyIsRecent, Present, connVars

(* Time passes: the TTL runs down and every page that is there pings in     *)
(* time.                                                                    *)
LEMMA TickKeeps ==
    ASSUME IInv, Tick
    PROVE  IInv'
<1> USE TimesAssumption DEF IInv, TypeOK, Tick
<1>1. \A c \in Conns : Present(c) => beat[c] \in 0..Beat /\ beat[c] < Beat
  BY DEF Due
<1>2. TypeOK'
  <2>1. beat' \in [Conns -> 0..Beat]
    BY <1>1
  <2>2. look' \in 0..Beat
    BY DEF Due
  <2>3. key' \in 0..Ttl /\ dark' \in Nat /\ gone' \in 0..Forgotten
    BY DEF Forgotten
  <2> QED
    BY <2>1, <2>2, <2>3
<1>3. KeyOutlivesBeat'
  BY <1>1 DEF KeyOutlivesBeat, Present, Busy
<1>4. \A c \in Conns : there[c] => Present(c) /\ ~ping[c]
  BY DEF Present, Busy
<1>5. DarkIsBrief'
  BY <1>1, <1>4 DEF DarkIsBrief, Present, Somebody
<1>6. KeyHasWriter'
  BY DEF KeyHasWriter
<1>7. WritersAreRecent'
  BY <1>4 DEF WritersAreRecent, Busy, Somebody
<1>8. KeyIsRecent' /\ ViewIsRecent'
  BY DEF KeyIsRecent, ViewIsRecent, Forgotten, Busy
<1> QED
  BY <1>2, <1>3, <1>5, <1>6, <1>7, <1>8

-----------------------------------------------------------------------------
(* The invariant holds in every reachable state.                            *)
LEMMA Invariance == Spec => []IInv
<1>1. Init => IInv
  BY InitHolds
<1>2. IInv /\ [Next]_vars => IInv'
  <2> SUFFICES ASSUME IInv, [Next]_vars PROVE IInv'
    OBVIOUS
  <2>1. ASSUME NEW c \in Conns,
               Connect(c) \/ OnConnect(c) \/ Heartbeat(c) \/ Ping(c)
        PROVE  IInv'
    BY <2>1, ConnectKeeps, OnConnectKeeps, HeartbeatKeeps, PingKeeps
  <2>2. ASSUME NEW c \in Conns,
               Vanish(c) \/ ReadError(c) \/ OnDisconnect(c) \/ Crash(c)
        PROVE  IInv'
    BY <2>2, VanishKeeps, ReadErrorKeeps, OnDisconnectKeeps, CrashKeeps
  <2>3. CASE Open \/ Poll \/ MessageIn \/ PresenceCheck \/ OthersCheck \/ Superseded \/ Close
    BY <2>3, WatchKeeps, AnswerKeeps
  <2>4. CASE Tick
    BY <2>4, TickKeeps
  <2>5. CASE UNCHANGED vars
    BY <2>5
       DEF vars, connVars, watchVars, history, IInv, TypeOK, KeyOutlivesBeat,
           DarkIsBrief, KeyHasWriter, WritersAreRecent, KeyIsRecent, ViewIsRecent,
           Present
  <2> QED
    BY <2>1, <2>2, <2>3, <2>4, <2>5 DEF Next
<1> QED
  BY <1>1, <1>2, PTL DEF Spec

(* The key, the clocks and the stages of the connections keep their types: *)
(* no clock passes its interval.                                           *)
THEOREM TypeCorrect == Spec => []TypeOK
  BY Invariance, PTL DEF IInv

(* A heartbeat that is shorter than the TTL keeps a user online whose key  *)
(* nobody has deleted (presence.go:12, useWebSocket.ts:49-56).             *)
THEOREM OnlineWithAPage == Spec => []OnlineWhileThere
<1>1. IInv => OnlineWhileThere
  BY DEF IInv, KeyOutlivesBeat, OnlineWhileThere
<1> QED
  BY <1>1, Invariance, PTL

(* However many connections a user has, the late teardown of one hides the *)
(* others for one interval of the heartbeats at most (main.go:229-232).    *)
THEOREM HiddenBriefly == Spec => []BackWithinABeat
<1>1. IInv => BackWithinABeat
  BY DEF IInv, DarkIsBrief, BackWithinABeat
<1> QED
  BY <1>1, Invariance, PTL

(* When the last connection is over and nothing has failed no key is left. *)
THEOREM NoKeyIsLeft == Spec => []OfflineWhenOver
<1>1. IInv => OfflineWhenOver
  BY DEF IInv, TypeOK, KeyHasWriter, OfflineWhenOver
<1> QED
  BY <1>1, Invariance, PTL

(* A page whose connection is the newest of the watcher stops showing a    *)
(* user who has gone within the TTL and one of its own intervals, whether  *)
(* Redis or the user's processes fail or not (main.go:90-112).             *)
THEOREM NoLongerShown == Spec => []ShownNoLonger
<1>1. IInv => ShownNoLonger
  <2> SUFFICES ASSUME IInv, reached, ~asked, view
               PROVE  gone <= Ttl + Beat
    BY DEF ShownNoLonger
  <2> QED
    BY TimesAssumption DEF IInv, TypeOK, ViewIsRecent, Forgotten
<1> QED
  BY <1>1, Invariance, PTL
-----------------------------------------------------------------------------
(* The rate limiter.                                                       *)

(* What was let through in a window was counted first, or is an extra.     *)
Counted == \A u \in Users : window[u] <= count[u] + extra[u]

(* What passed beyond the limit is part of what passed.                    *)
ExtrasPassed ==
    \A u \in Users :
        extra[u] <= window[u] /\ \A a \in Ages : extraLog[u][a] <= log[u][a]

LimiterInv ==
    LimiterTypeOK /\ Counted /\ WindowBound /\ CounterExpires /\ ExtrasPassed

(* The invariant holds before the first request.                           *)
LEMMA LimiterInvInit == LimiterInit => LimiterInv
  BY MaxAllowedAssumption, WindowAssumption
  DEF LimiterInit, LimiterInv, LimiterTypeOK, Ages, Counted, WindowBound, CounterExpires,
      ExtrasPassed

(* An attempt touches the counter of its own user only and sets an expiry  *)
(* exactly when there was none.                                            *)
LEMMA CountStep ==
  ASSUME LimiterTypeOK, CounterExpires, NEW u \in Users, Count(u)
  PROVE  /\ count' \in [Users -> 0..(MaxAllowed + 1)]
         /\ ttl' \in [Users -> 0..Window]
         /\ CounterExpires'
         /\ \A v \in Users : count[v] <= count'[v]
         /\ Incremented(u) <= MaxAllowed => count'[u] = count[u] + 1
<1> USE MaxAllowedAssumption, WindowAssumption DEF LimiterTypeOK, Count, Incremented
<1>1. count' \in [Users -> 0..(MaxAllowed + 1)] /\ ttl' \in [Users -> 0..Window]
  OBVIOUS
<1>2. CounterExpires'
  BY <1>1 DEF CounterExpires
<1>3. /\ \A v \in Users : count[v] <= count'[v]
      /\ Incremented(u) <= MaxAllowed => count'[u] = count[u] + 1
  OBVIOUS
<1>. QED
  BY <1>1, <1>2, <1>3

(* What the passing of a request does to the history.                      *)
LEMMA PassStep ==
  ASSUME LimiterTypeOK, ExtrasPassed, NEW u \in Users, Within(u) \/ Beyond(u)
  PROVE  /\ window' \in [Users -> Nat] /\ extra' \in [Users -> Nat]
         /\ log' \in [Users -> [Ages -> Nat]] /\ extraLog' \in [Users -> [Ages -> Nat]]
         /\ ExtrasPassed'
<1>1. /\ window \in [Users -> Nat] /\ extra \in [Users -> Nat]
      /\ log \in [Users -> [Ages -> Nat]] /\ extraLog \in [Users -> [Ages -> Nat]]
      /\ 0 \in Ages
  <2>1. 0 \in Ages
    BY WindowAssumption DEF Ages
  <2>. QED
    BY <2>1 DEF LimiterTypeOK
<1>2. CASE Within(u)
  <2>1. /\ window' \in [Users -> Nat] /\ extra' \in [Users -> Nat]
        /\ log' \in [Users -> [Ages -> Nat]] /\ extraLog' \in [Users -> [Ages -> Nat]]
    BY <1>1, <1>2 DEF Within
  <2>2. \A v \in Users : extra'[v] <= window'[v]
    BY <1>1, <1>2 DEF Within, ExtrasPassed
  <2>3. ASSUME NEW v \in Users, NEW a \in Ages
        PROVE  extraLog'[v][a] <= log'[v][a]
    <3>1. extraLog[v][a] <= log[v][a] /\ extraLog[v][a] \in Nat /\ log[v][a] \in Nat
      BY <1>1 DEF ExtrasPassed
    <3>2. log'[v][a] = IF v = u /\ a = 0 THEN log[v][a] + 1 ELSE log[v][a]
      BY <1>1, <1>2 DEF Within
    <3>3. extraLog' = extraLog
      BY <1>2 DEF Within
    <3>. QED
      BY <3>1, <3>2, <3>3
  <2>. QED
    BY <2>1, <2>2, <2>3 DEF ExtrasPassed
<1>3. CASE Beyond(u)
  <2>1. /\ window' \in [Users -> Nat] /\ extra' \in [Users -> Nat]
        /\ log' \in [Users -> [Ages -> Nat]] /\ extraLog' \in [Users -> [Ages -> Nat]]
    BY <1>1, <1>3 DEF Beyond
  <2>2. \A v \in Users : extra'[v] <= window'[v]
    BY <1>1, <1>3 DEF Beyond, ExtrasPassed
  <2>3. ASSUME NEW v \in Users, NEW a \in Ages
        PROVE  extraLog'[v][a] <= log'[v][a]
    <3>1. extraLog[v][a] <= log[v][a] /\ extraLog[v][a] \in Nat /\ log[v][a] \in Nat
      BY <1>1 DEF ExtrasPassed
    <3>2. /\ log'[v][a] = IF v = u /\ a = 0 THEN log[v][a] + 1 ELSE log[v][a]
          /\ extraLog'[v][a] = IF v = u /\ a = 0 THEN extraLog[v][a] + 1 ELSE extraLog[v][a]
      BY <1>1, <1>3 DEF Beyond
    <3>. QED
      BY <3>1, <3>2
  <2>. QED
    BY <2>1, <2>2, <2>3 DEF ExtrasPassed
<1>. QED
  BY <1>2, <1>3

(* A request that is counted and passes as one of the limit keeps the      *)
(* invariant, whether its reply arrives or not (limiter.go:28-32).         *)
LEMMA WithinStep ==
  ASSUME LimiterInv, NEW u \in Users, Count(u), Incremented(u) <= MaxAllowed, Within(u)
  PROVE  LimiterInv'
<1> USE MaxAllowedAssumption, WindowAssumption
<1>1. /\ count' \in [Users -> 0..(MaxAllowed + 1)] /\ ttl' \in [Users -> 0..Window]
      /\ CounterExpires'
      /\ \A v \in Users : count[v] <= count'[v]
      /\ count'[u] = count[u] + 1
  BY CountStep DEF LimiterInv
<1>2. /\ window' \in [Users -> Nat] /\ extra' \in [Users -> Nat]
      /\ log' \in [Users -> [Ages -> Nat]] /\ extraLog' \in [Users -> [Ages -> Nat]]
      /\ ExtrasPassed'
  BY PassStep DEF LimiterInv
<1>3. Counted'
  BY <1>1, <1>2 DEF LimiterInv, LimiterTypeOK, Within, Counted
<1>4. WindowBound'
  <2>1. count'[u] <= MaxAllowed
    BY <1>1 DEF LimiterInv, LimiterTypeOK, Incremented
  <2>. QED
    BY <1>1, <1>2, <1>3, <2>1 DEF LimiterInv, LimiterTypeOK, Within, Counted, WindowBound
<1>. QED
  BY <1>1, <1>2, <1>3, <1>4 DEF LimiterInv, LimiterTypeOK

(* A request that passes beyond the limit is an extra, counted or not.     *)
LEMMA BeyondStep ==
  ASSUME LimiterInv, NEW u \in Users, Count(u) \/ UNCHANGED <<count, ttl>>, Beyond(u)
  PROVE  LimiterInv'
<1> USE MaxAllowedAssumption, WindowAssumption
<1>1. /\ count' \in [Users -> 0..(MaxAllowed + 1)] /\ ttl' \in [Users -> 0..Window]
      /\ CounterExpires'
      /\ \A v \in Users : count[v] <= count'[v]
  <2>1. CASE Count(u)
    BY <2>1, CountStep DEF LimiterInv
  <2>2. CASE UNCHANGED <<count, ttl>>
    BY <2>2 DEF LimiterInv, LimiterTypeOK, CounterExpires
  <2>. QED
    BY <2>1, <2>2
<1>2. /\ window' \in [Users -> Nat] /\ extra' \in [Users -> Nat]
      /\ log' \in [Users -> [Ages -> Nat]] /\ extraLog' \in [Users -> [Ages -> Nat]]
      /\ ExtrasPassed'
  BY PassStep DEF LimiterInv
<1>3. Counted' /\ WindowBound'
  BY <1>1, <1>2 DEF LimiterInv, LimiterTypeOK, Beyond, Counted, WindowBound
<1>. QED
  BY <1>1, <1>2, <1>3 DEF LimiterInv, LimiterTypeOK

(* A refused attempt is counted and nothing passes.                        *)
LEMMA RefuseStep ==
  ASSUME LimiterInv, NEW u \in Users, Refuse(u)
  PROVE  LimiterInv'
<1> USE MaxAllowedAssumption, WindowAssumption
<1>1. /\ count' \in [Users -> 0..(MaxAllowed + 1)] /\ ttl' \in [Users -> 0..Window]
      /\ CounterExpires'
      /\ \A v \in Users : count[v] <= count'[v]
      /\ UNCHANGED passed
  BY CountStep DEF LimiterInv, Refuse
<1>2. Counted' /\ WindowBound' /\ ExtrasPassed'
  BY <1>1 DEF LimiterInv, LimiterTypeOK, Counted, WindowBound, ExtrasPassed, passed
<1>. QED
  BY <1>1, <1>2 DEF LimiterInv, LimiterTypeOK, passed

(* Every attempt is one of these.                                          *)
LEMMA AttemptStep ==
  ASSUME LimiterInv, NEW u \in Users,
         Allow(u) \/ Refuse(u) \/ LostReply(u) \/ Unreachable(u)
  PROVE  LimiterInv'
<1>1. CASE Allow(u)
  BY <1>1, WithinStep DEF Allow
<1>2. CASE Refuse(u)
  BY <1>2, RefuseStep
<1>3. CASE LostReply(u)
  BY <1>3, WithinStep, BeyondStep DEF LostReply
<1>4. CASE Unreachable(u)
  BY <1>4, BeyondStep DEF Unreachable
<1>. QED
  BY <1>1, <1>2, <1>3, <1>4

(* A log that has become a tick older.                                     *)
LEMMA OlderType ==
  ASSUME NEW f \in [Ages -> Nat]
  PROVE  Older(f) \in [Ages -> Nat]
<1>1. ASSUME NEW a \in Ages
      PROVE  (IF a = 0 THEN 0 ELSE f[a - 1]) \in Nat
  BY <1>1, WindowAssumption DEF Ages
<1>. QED
  BY <1>1 DEF Older

(* Time keeps the invariant: a key that expires takes the count of its     *)
(* window along.                                                           *)
LEMMA TickStep ==
  ASSUME LimiterInv, LimiterTick
  PROVE  LimiterInv'
<1> USE MaxAllowedAssumption, WindowAssumption DEF LimiterInv, LimiterTypeOK, LimiterTick, Expires
<1>1. /\ count' \in [Users -> 0..(MaxAllowed + 1)]
      /\ ttl' \in [Users -> 0..Window]
      /\ window' \in [Users -> Nat] /\ extra' \in [Users -> Nat]
  OBVIOUS
<1>2. log' \in [Users -> [Ages -> Nat]] /\ extraLog' \in [Users -> [Ages -> Nat]]
  BY OlderType
<1>3. CounterExpires'
  BY DEF CounterExpires
<1>4. Counted' /\ WindowBound'
  BY DEF Counted, WindowBound
<1>5. ExtrasPassed'
  <2>1. \A u \in Users : extra'[u] <= window'[u]
    BY DEF ExtrasPassed
  <2>2. ASSUME NEW u \in Users, NEW a \in Ages
        PROVE  extraLog'[u][a] <= log'[u][a]
    <3>1. a = 0 \/ a - 1 \in Ages
      BY DEF Ages
    <3>. QED
      BY <3>1 DEF ExtrasPassed, Older
  <2>. QED
    BY <2>1, <2>2 DEF ExtrasPassed
<1>. QED
  BY <1>1, <1>2, <1>3, <1>4, <1>5

(* Every step keeps the invariant.                                         *)
LEMMA LimiterInvStep == LimiterInv /\ [LimiterNext]_limiterVars => LimiterInv'
<1> SUFFICES ASSUME LimiterInv, [LimiterNext]_limiterVars
             PROVE  LimiterInv'
  OBVIOUS
<1>1. ASSUME NEW u \in Users, Allow(u) \/ Refuse(u) \/ LostReply(u) \/ Unreachable(u)
      PROVE  LimiterInv'
  BY <1>1, AttemptStep
<1>2. CASE LimiterTick
  BY <1>2, TickStep
<1>3. CASE UNCHANGED limiterVars
  BY <1>3
     DEF limiterVars, passed, LimiterInv, LimiterTypeOK, Counted, WindowBound,
         CounterExpires, ExtrasPassed
<1>. QED
  BY <1>1, <1>2, <1>3 DEF LimiterNext

(* The invariant holds in every reachable state.                           *)
THEOREM LimiterInvHolds == LimiterSpec => []LimiterInv
  BY LimiterInvInit, LimiterInvStep, PTL DEF LimiterSpec

(* Every variable of the limiter keeps its type.                           *)
THEOREM LimiterTypeCorrect == LimiterSpec => []LimiterTypeOK
<1>1. LimiterInv => LimiterTypeOK
  BY DEF LimiterInv
<1>. QED
  BY LimiterInvHolds, <1>1, PTL

(* No more than MaxAllowed requests pass in the life of one Redis key,     *)
(* from however many processes they come, but for those that Redis, out of *)
(* reach or unheard, failed to refuse (limiter.go:28-32).                  *)
THEOREM LimitHolds == LimiterSpec => []WindowBound
<1>1. LimiterInv => WindowBound
  BY DEF LimiterInv
<1>. QED
  BY LimiterInvHolds, <1>1, PTL

(* A counter and its expiry exist together (limiter.go:25-28).             *)
THEOREM NoImmortalCounter == LimiterSpec => []CounterExpires
<1>1. LimiterInv => CounterExpires
  BY DEF LimiterInv
<1>. QED
  BY LimiterInvHolds, <1>1, PTL
-----------------------------------------------------------------------------
(* Sums over a log, by induction.                                          *)

(* A nonempty set of natural numbers has a least element.                  *)
LEMMA NatLeast ==
  ASSUME NEW T, T \subseteq Nat, T # {}
  PROVE  \E n \in T : \A k \in T : ~(k < n)
<1> DEFINE R == OpToRel(<, Nat)
<1>1. IsWellFoundedOn(R, Nat)
  BY NatLessThanWellFounded
<1>2. \E x \in T : \A y \in T : ~ (<<y, x>> \in R)
  BY <1>1, WFMin
<1>3. \A y, x \in Nat : y < x => <<y, x>> \in R
  BY DEF OpToRel
<1>. QED
  BY <1>2, <1>3

(* Induction up to a bound, stated of a set of numbers instead of a        *)
(* predicate.                                                              *)
LEMMA SetInduction ==
  ASSUME NEW N \in Nat, NEW T, 0 \in T, \A n \in 0..N : n \in T /\ n < N => n + 1 \in T
  PROVE  0..N \subseteq T
<1>1. SUFFICES ASSUME (0..N) \ T # {}
               PROVE  FALSE
  OBVIOUS
<1>2. PICK n \in (0..N) \ T : \A k \in (0..N) \ T : ~(k < n)
  <2>1. (0..N) \ T \subseteq Nat
    OBVIOUS
  <2>. QED
    BY <1>1, <2>1, NatLeast
<1>3. n # 0 /\ n - 1 \in 0..N /\ n - 1 < n /\ n - 1 < N
  BY <1>2
<1>4. n - 1 \in T
  BY <1>2, <1>3
<1>. QED
  BY <1>2, <1>3, <1>4

(* g holds the sums of the log f, for up to N ticks.                       *)
Sums(g, f, N) == g = [n \in 0..N |-> IF n = 0 THEN 0 ELSE g[n - 1] + f[n - 1]]

(* The recursive function by which Younger is defined exists.              *)
LEMMA SumsExist ==
  ASSUME NEW f
  PROVE  \E g : Sums(g, f, Window)
<1> DEFINE T == {n \in 0..Window : \E g : Sums(g, f, n)}
<1>1. 0 \in T
  <2> DEFINE g == [n \in 0..0 |-> 0]
  <2>1. Sums(g, f, 0)
    BY DEF Sums
  <2>. QED
    BY <2>1, WindowAssumption
<1>2. ASSUME NEW n \in 0..Window, n \in T, n < Window
      PROVE  n + 1 \in T
  <2>1. PICK g : Sums(g, f, n)
    BY <1>2
  <2> DEFINE h == [k \in 0..(n + 1) |-> IF k = n + 1 THEN g[n] + f[n] ELSE g[k]]
  <2>2. Sums(h, f, n + 1)
    <3>1. ASSUME NEW k \in 0..(n + 1)
          PROVE  h[k] = IF k = 0 THEN 0 ELSE h[k - 1] + f[k - 1]
      <4>1. CASE k = n + 1
        <5>1. k # 0 /\ k - 1 = n /\ n \in 0..(n + 1) /\ n # n + 1
          BY <4>1, WindowAssumption
        <5>. QED
          BY <4>1, <5>1
      <4>2. CASE k = 0
        <5>1. 0 \in 0..n /\ 0 # n + 1
          BY WindowAssumption
        <5>. QED
          BY <2>1, <4>2, <5>1 DEF Sums
      <4>3. CASE k # 0 /\ k # n + 1
        <5>1. k \in 0..n /\ k - 1 \in 0..n /\ k - 1 \in 0..(n + 1) /\ k - 1 # n + 1
          BY <4>3, WindowAssumption
        <5>2. g[k] = g[k - 1] + f[k - 1]
          BY <2>1, <4>3, <5>1 DEF Sums
        <5>. QED
          BY <4>3, <5>1, <5>2
      <4>. QED
        BY <4>1, <4>2, <4>3
    <3>2. h = [k \in 0..(n + 1) |-> h[k]]
      OBVIOUS
    <3>. QED
      BY <3>1, <3>2 DEF Sums
  <2>3. n + 1 \in 0..Window
    BY <1>2, WindowAssumption
  <2>. QED
    BY <2>2, <2>3
<1>3. Window \in T
  <2>1. 0..Window \subseteq T
    <3> HIDE DEF T
    <3>. QED
      BY <1>1, <1>2, WindowAssumption, SetInduction
  <2>. QED
    BY <2>1, WindowAssumption
<1>. QED
  BY <1>3

(* What Younger computes: each number is the one before and the requests   *)
(* of one more age.                                                        *)
LEMMA YoungerIs ==
  ASSUME NEW f \in [Ages -> Nat]
  PROVE  /\ Younger(f) \in [0..Window -> Nat]
         /\ Younger(f)[0] = 0
         /\ \A n \in Ages : Younger(f)[n + 1] = Younger(f)[n] + f[n]
<1> DEFINE g == CHOOSE h : Sums(h, f, Window)
<1>1. Younger(f) = g
  BY DEF Younger, Sums
<1>2. Sums(g, f, Window)
  BY SumsExist
<1> HIDE DEF g
<1>3. g[0] = 0 /\ \A n \in Ages : g[n + 1] = g[n] + f[n]
  <2>1. 0 \in 0..Window /\ \A n \in Ages : n + 1 \in 0..Window /\ n + 1 # 0 /\ (n + 1) - 1 = n
    BY WindowAssumption DEF Ages
  <2>. QED
    BY <1>2, <2>1 DEF Sums
<1>4. g \in [0..Window -> Nat]
  <2> DEFINE T == {n \in 0..Window : g[n] \in Nat}
  <2>1. 0 \in T
    BY <1>3, WindowAssumption
  <2>2. ASSUME NEW n \in 0..Window, n \in T, n < Window
        PROVE  n + 1 \in T
    <3>1. n \in Ages /\ n + 1 \in 0..Window
      BY <2>2, WindowAssumption DEF Ages
    <3>. QED
      BY <1>3, <2>2, <3>1
  <2>3. 0..Window \subseteq T
    <3> HIDE DEF T
    <3>. QED
      BY <2>1, <2>2, WindowAssumption, SetInduction
  <2>4. g = [n \in 0..Window |-> g[n]]
    BY <1>2 DEF Sums
  <2>. QED
    BY <2>3, <2>4
<1>. QED
  BY <1>1, <1>3, <1>4

(* The more ticks, the more requests.                                      *)
LEMMA YoungerGrows ==
  ASSUME NEW f \in [Ages -> Nat], NEW a \in Ages
  PROVE  Younger(f)[a] <= Younger(f)[a + 1]
<1>1. a \in 0..Window /\ a \in Nat
  BY WindowAssumption DEF Ages
<1>2. Younger(f) \in [0..Window -> Nat] /\ Younger(f)[a + 1] = Younger(f)[a] + f[a]
  BY YoungerIs
<1>3. Younger(f)[a] \in Nat /\ f[a] \in Nat
  BY <1>1, <1>2
<1>. QED
  BY <1>2, <1>3

(* A sum is a number.                                                      *)
LEMMA YoungerType ==
  ASSUME NEW f \in [Ages -> Nat], NEW n \in 0..Window
  PROVE  Younger(f)[n] \in Nat
<1>1. Younger(f) \in [0..Window -> Nat]
  BY YoungerIs
<1>. QED
  BY <1>1

(* A request of this tick is counted in every sum that reaches back at     *)
(* least one tick.                                                         *)
LEMMA YoungerAdmits ==
  ASSUME NEW f \in [Ages -> Nat], NEW g \in [Ages -> Nat],
         g = [f EXCEPT ![0] = @ + 1]
  PROVE  \A n \in 1..Window : Younger(g)[n] = Younger(f)[n] + 1
<1> DEFINE T == {n \in 0..Window : n > 0 => Younger(g)[n] = Younger(f)[n] + 1}
<1>1. 0 \in T
  BY WindowAssumption
<1>2. ASSUME NEW n \in 0..Window, n \in T, n < Window
      PROVE  n + 1 \in T
  <2>1. n \in Ages /\ n + 1 \in 0..Window /\ 0 \in Ages
    BY <1>2, WindowAssumption DEF Ages
  <2>2. /\ Younger(g)[n + 1] = Younger(g)[n] + g[n]
        /\ Younger(f)[n + 1] = Younger(f)[n] + f[n]
        /\ Younger(g)[0] = 0 /\ Younger(f)[0] = 0
        /\ Younger(f)[n] \in Nat /\ f[n] \in Nat
    BY <2>1, YoungerIs
  <2>3. CASE n = 0
    <3>1. g[0] = f[0] + 1
      BY <2>1
    <3>. QED
      BY <2>1, <2>2, <2>3, <3>1
  <2>4. CASE n > 0
    <3>1. g[n] = f[n] /\ Younger(g)[n] = Younger(f)[n] + 1
      BY <1>2, <2>1, <2>4 DEF Ages
    <3>. QED
      BY <2>1, <2>2, <3>1
  <2>. QED
    BY <1>2, <2>3, <2>4
<1>3. 0..Window \subseteq T
  <2> HIDE DEF T
  <2>. QED
    BY <1>1, <1>2, WindowAssumption, SetInduction
<1>4. ASSUME NEW n \in 1..Window
      PROVE  Younger(g)[n] = Younger(f)[n] + 1
  <2>1. n \in 0..Window /\ n > 0
    BY WindowAssumption
  <2>. QED
    BY <1>3, <2>1
<1>. QED
  BY <1>4

(* A tick makes every request one tick older.                              *)
LEMMA YoungerShifts ==
  ASSUME NEW f \in [Ages -> Nat], NEW g \in [Ages -> Nat],
         g = [a \in Ages |-> IF a = 0 THEN 0 ELSE f[a - 1]]
  PROVE  \A n \in Ages : Younger(g)[n + 1] = Younger(f)[n]
<1> DEFINE T == {n \in 0..(Window - 1) : Younger(g)[n + 1] = Younger(f)[n]}
<1>1. 0 \in T
  <2>1. 0 \in Ages
    BY WindowAssumption DEF Ages
  <2>2. /\ Younger(g)[0 + 1] = Younger(g)[0] + g[0]
        /\ Younger(g)[0] = 0 /\ Younger(f)[0] = 0 /\ g[0] = 0
    BY <2>1, YoungerIs
  <2>. QED
    BY <2>1, <2>2 DEF Ages
<1>2. ASSUME NEW n \in 0..(Window - 1), n \in T, n < Window - 1
      PROVE  n + 1 \in T
  <2>1. n \in Ages /\ n + 1 \in Ages /\ n + 1 # 0 /\ (n + 1) - 1 = n
    BY <1>2, WindowAssumption DEF Ages
  <2>2. /\ Younger(g)[(n + 1) + 1] = Younger(g)[n + 1] + g[n + 1]
        /\ Younger(f)[n + 1] = Younger(f)[n] + f[n]
        /\ g[n + 1] = f[n]
    BY <2>1, YoungerIs
  <2>. QED
    BY <1>2, <2>1, <2>2 DEF Ages
<1>3. 0..(Window - 1) \subseteq T
  <2>1. Window - 1 \in Nat
    BY WindowAssumption
  <2> HIDE DEF T
  <2>. QED
    BY <1>1, <1>2, <2>1, SetInduction
<1>. QED
  BY <1>3 DEF Ages

(* The sums of two logs are the sums of the log of both.                    *)
LEMMA YoungerAdds ==
  ASSUME NEW f \in [Ages -> Nat], NEW g \in [Ages -> Nat], NEW h \in [Ages -> Nat],
         \A a \in Ages : f[a] = g[a] + h[a]
  PROVE  Recent(f) = Recent(g) + Recent(h)
<1> DEFINE T == {n \in 0..Window : Younger(f)[n] = Younger(g)[n] + Younger(h)[n]}
<1>1. 0 \in T
  BY YoungerIs, WindowAssumption
<1>2. ASSUME NEW n \in 0..Window, n \in T, n < Window
      PROVE  n + 1 \in T
  <2>1. n \in Ages /\ n + 1 \in 0..Window
    BY <1>2, WindowAssumption DEF Ages
  <2>2. /\ Younger(f)[n + 1] = Younger(f)[n] + f[n]
        /\ Younger(g)[n + 1] = Younger(g)[n] + g[n]
        /\ Younger(h)[n + 1] = Younger(h)[n] + h[n]
    BY <2>1, YoungerIs
  <2>3. /\ Younger(g)[n] \in Nat /\ Younger(h)[n] \in Nat
        /\ g[n] \in Nat /\ h[n] \in Nat /\ f[n] = g[n] + h[n]
    BY <2>1, YoungerType
  <2>. QED
    BY <1>2, <2>1, <2>2, <2>3
<1>3. 0..Window \subseteq T
  <2> HIDE DEF T
  <2>. QED
    BY <1>1, <1>2, WindowAssumption, SetInduction
<1>. QED
  BY <1>3, WindowAssumption DEF Recent

-----------------------------------------------------------------------------
(* The requests of the limit: those that passed and are no extras.         *)
Limited(u) == [a \in Ages |-> log[u][a] - extraLog[u][a]]
Charged(u) == window[u] - extra[u]

LEMMA LimitedType ==
  ASSUME LimiterInv, NEW u \in Users
  PROVE  Limited(u) \in [Ages -> Nat] /\ Charged(u) \in 0..MaxAllowed
<1>1. ASSUME NEW a \in Ages
      PROVE  log[u][a] - extraLog[u][a] \in Nat
  BY DEF LimiterInv, LimiterTypeOK, ExtrasPassed
<1>2. Charged(u) \in 0..MaxAllowed
  BY MaxAllowedAssumption
     DEF LimiterInv, LimiterTypeOK, ExtrasPassed, WindowBound, Charged
<1>. QED
  BY <1>1, <1>2 DEF Limited

(* A request of the limit is one of them; an extra is none of them.        *)
LEMMA LimitedPass ==
  ASSUME LimiterInv, NEW u \in Users, NEW k \in {0, 1},
         \/ k = 1 /\ Within(u)
         \/ k = 0 /\ (Beyond(u) \/ UNCHANGED passed)
  PROVE  /\ Limited(u)' = [Limited(u) EXCEPT ![0] = @ + k]
         /\ Charged(u)' = Charged(u) + k
         /\ \A v \in Users \ {u} : Limited(v)' = Limited(v) /\ Charged(v)' = Charged(v)
<1>1. /\ window \in [Users -> Nat] /\ extra \in [Users -> Nat]
      /\ log \in [Users -> [Ages -> Nat]] /\ extraLog \in [Users -> [Ages -> Nat]]
      /\ 0 \in Ages
  <2>1. 0 \in Ages
    BY WindowAssumption DEF Ages
  <2>. QED
    BY <2>1 DEF LimiterInv, LimiterTypeOK
<1>2. ASSUME NEW v \in Users, NEW a \in Ages
      PROVE  log'[v][a] - extraLog'[v][a]
               = (log[v][a] - extraLog[v][a]) + IF v = u /\ a = 0 THEN k ELSE 0
  <2>1. log[v][a] \in Nat /\ extraLog[v][a] \in Nat
    BY <1>1
  <2>2. CASE Within(u) /\ k = 1
    <3>1. log'[v][a] = IF v = u /\ a = 0 THEN log[v][a] + 1 ELSE log[v][a]
      BY <1>1, <2>2 DEF Within
    <3>. QED
      BY <2>1, <2>2, <3>1 DEF Within
  <2>3. CASE Beyond(u) /\ k = 0
    <3>1. /\ log'[v][a] = IF v = u /\ a = 0 THEN log[v][a] + 1 ELSE log[v][a]
          /\ extraLog'[v][a] = IF v = u /\ a = 0 THEN extraLog[v][a] + 1 ELSE extraLog[v][a]
      BY <1>1, <2>3 DEF Beyond
    <3>. QED
      BY <2>1, <2>3, <3>1
  <2>4. CASE UNCHANGED passed /\ k = 0
    BY <2>1, <2>4 DEF passed
  <2>. QED
    BY <2>2, <2>3, <2>4
<1>3. ASSUME NEW v \in Users
      PROVE  Charged(v)' = Charged(v) + IF v = u THEN k ELSE 0
  <2>1. window[v] \in Nat /\ extra[v] \in Nat
    BY <1>1
  <2>. QED
    BY <1>1, <2>1 DEF Charged, Within, Beyond, passed
<1>4. Limited(u)' = [Limited(u) EXCEPT ![0] = @ + k]
  <2>1. \A a \in Ages : log[u][a] - extraLog[u][a] \in Int
    BY <1>1
  <2>2. ASSUME NEW a \in Ages
        PROVE  log'[u][a] - extraLog'[u][a] = IF a = 0 THEN Limited(u)[0] + k ELSE Limited(u)[a]
    BY <1>1, <1>2, <2>1 DEF Limited
  <2>. QED
    BY <1>1, <2>2 DEF Limited
<1>5. ASSUME NEW v \in Users \ {u}
      PROVE  Limited(v)' = Limited(v) /\ Charged(v)' = Charged(v)
  <2>1. \A a \in Ages : log[v][a] - extraLog[v][a] \in Int
    BY <1>1
  <2>2. \A a \in Ages : log'[v][a] - extraLog'[v][a] = log[v][a] - extraLog[v][a]
    BY <1>2, <2>1
  <2>3. Charged(v) \in Int
    BY <1>1 DEF Charged
  <2>. QED
    BY <1>3, <2>2, <2>3 DEF Limited
<1>6. Charged(u)' = Charged(u) + k
  BY <1>3
<1>. QED
  BY <1>4, <1>5, <1>6

(* TwiceBound is not inductive: it says nothing of when the requests were  *)
(* let through.  Those of the key that exists are at most as old as the    *)
(* key, and `window` counts them; the older ones belong to the life of one *)
(* other key, since a whole window lies between two beginnings of keys.    *)
KeyAge(u) == Window - ttl[u]

Latest(u) == Younger(Limited(u))[KeyAge(u) + 1]
AllLimited(u) == Recent(Limited(u))

TwoKeys ==
    \A u \in Users :
        /\ ttl[u] > 0 =>
              Latest(u) <= Charged(u) /\ AllLimited(u) <= Latest(u) + MaxAllowed
        /\ ttl[u] = 0 => Limited(u)[0] = 0 /\ AllLimited(u) <= MaxAllowed

(* An attempt that finds no key begins one: what was let through before is *)
(* older than the key.  Any other attempt leaves the expiry alone.         *)
LEMMA TwoKeysCount ==
  ASSUME LimiterInv, LimiterInv', TwoKeys, NEW u \in Users, Count(u),
         NEW k \in {0, 1},
         Limited(u)' = [Limited(u) EXCEPT ![0] = @ + k],
         Charged(u)' = Charged(u) + k,
         \A v \in Users \ {u} : Limited(v)' = Limited(v) /\ Charged(v)' = Charged(v)
  PROVE  TwoKeys'
<1> USE MaxAllowedAssumption, WindowAssumption
<1>1. SUFFICES ASSUME NEW v \in Users
               PROVE  /\ ttl'[v] > 0 => /\ Latest(v)' <= Charged(v)'
                                        /\ AllLimited(v)' <= Latest(v)' + MaxAllowed
                      /\ ttl'[v] = 0 => Limited(v)'[0] = 0 /\ AllLimited(v)' <= MaxAllowed
  BY DEF TwoKeys
<1>2. ttl \in [Users -> 0..Window] /\ 0 \in Ages
  <2>1. 0 \in Ages
    BY DEF Ages
  <2>. QED
    BY <2>1 DEF LimiterInv, LimiterTypeOK
<1>3. CASE v # u
  <2>1. ttl'[v] = ttl[v] /\ Charged(v)' = Charged(v) /\ Limited(v)' = Limited(v)
    BY <1>2, <1>3 DEF Count
  <2>2. Latest(v)' = Latest(v) /\ AllLimited(v)' = AllLimited(v)
    BY <2>1 DEF Latest, AllLimited, KeyAge
  <2>. QED
    BY <2>1, <2>2 DEF TwoKeys
<1>4. CASE v = u
  <2> DEFINE old == Limited(u)
             new == Limited(u)'
  <2>0. /\ old \in [Ages -> Nat] /\ new \in [Ages -> Nat]
        /\ new = [old EXCEPT ![0] = @ + k]
        /\ Charged(u) \in Nat /\ Charged(u)' = Charged(u) + k
    <3>1. Limited(u)' \in [Ages -> Nat]
      BY LimitedType, <1>2
    <3>2. Limited(u) \in [Ages -> Nat] /\ Charged(u) \in 0..MaxAllowed
      BY LimitedType
    <3>. QED
      BY <3>1, <3>2
  <2>1. \A n \in 1..Window : Younger(new)[n] = Younger(old)[n] + k
    <3> HIDE DEF old, new
    <3>1. CASE k = 0
      <4>1. new = old
        BY <1>2, <2>0, <3>1
      <4>2. ASSUME NEW n \in 1..Window
            PROVE  Younger(old)[n] \in Nat
        <5>1. n \in 0..Window
          OBVIOUS
        <5>. QED
          BY <2>0, <5>1, YoungerType
      <4>. QED
        BY <3>1, <4>1, <4>2
    <3>2. CASE k = 1
      <4>1. new = [old EXCEPT ![0] = @ + 1]
        BY <2>0, <3>2
      <4>2. \A n \in 1..Window : Younger(new)[n] = Younger(old)[n] + 1
        BY <2>0, <4>1, YoungerAdmits
      <4>. QED
        BY <3>2, <4>2
    <3>. QED
      BY <3>1, <3>2
  <2>3. AllLimited(u)' = AllLimited(u) + k /\ AllLimited(u) \in Nat
    <3>1. Window \in 1..Window /\ Window \in 0..Window
      OBVIOUS
    <3>2. Younger(new)[Window] = Younger(old)[Window] + k
      BY <2>1, <3>1
    <3>3. Younger(old)[Window] \in Nat
      <4> HIDE DEF old, new
      <4>. QED
        BY <2>0, <3>1, YoungerType
    <3>. QED
      BY <3>2, <3>3 DEF AllLimited, Recent
  <2>4. CASE ttl[u] > 0
    <3>1. ttl'[u] = ttl[u]
      BY <1>2, <2>4 DEF Count
    <3>2. KeyAge(u) + 1 \in 1..Window
      BY <1>2, <2>4 DEF KeyAge
    <3>3. Latest(u)' = Latest(u) + k /\ Latest(u) \in Nat
      <4> DEFINE n == KeyAge(u) + 1
      <4>1. Younger(new)[n] = Younger(old)[n] + k
        BY <2>1, <3>2
      <4>2. Younger(old)[n] \in Nat
        <5>1. n \in 0..Window
          BY <3>2
        <5> HIDE DEF old, new, n
        <5>. QED
          BY <2>0, <5>1, YoungerType
      <4>. QED
        BY <3>1, <4>1, <4>2 DEF Latest, KeyAge
    <3>4. Latest(u) <= Charged(u) /\ AllLimited(u) <= Latest(u) + MaxAllowed
      BY <2>4 DEF TwoKeys
    <3>. QED
      BY <1>4, <2>0, <2>3, <2>4, <3>1, <3>3, <3>4
  <2>5. CASE ttl[u] = 0
    <3>1. ttl'[u] = Window
      BY <1>2, <2>5 DEF Count
    <3>2. Limited(u)[0] = 0 /\ AllLimited(u) <= MaxAllowed
      BY <2>5 DEF TwoKeys
    <3>3. Younger(old)[1] = 0
      <4>1. old[0] = 0 /\ 0 + 1 = 1
        BY <3>2
      <4> HIDE DEF old, new
      <4>2. Younger(old)[0] = 0 /\ Younger(old)[0 + 1] = Younger(old)[0] + old[0]
        BY <1>2, <2>0, YoungerIs
      <4>. QED
        BY <4>1, <4>2
    <3>4. Latest(u)' = k
      <4>1. 1 \in 1..Window /\ (Window - Window) + 1 = 1
        OBVIOUS
      <4>2. Younger(new)[1] = Younger(old)[1] + k
        BY <2>1, <4>1
      <4>3. Younger(new)[1] = k
        <5> HIDE DEF old, new
        <5>. QED
          BY <3>3, <4>2
      <4>. QED
        BY <3>1, <4>1, <4>3 DEF Latest, KeyAge
    <3>. QED
      BY <1>4, <2>0, <2>3, <3>1, <3>2, <3>4
  <2>. QED
    BY <1>2, <2>4, <2>5
<1>. QED
  BY <1>3, <1>4

(* A tick makes the key and its requests older together.  A key that       *)
(* expires is a whole window old, so that all recent requests were its.    *)
LEMMA TwoKeysTick ==
  ASSUME LimiterInv, LimiterInv', TwoKeys, LimiterTick
  PROVE  TwoKeys'
<1> USE MaxAllowedAssumption, WindowAssumption
<1>1. SUFFICES ASSUME NEW u \in Users
               PROVE  /\ ttl'[u] > 0 => /\ Latest(u)' <= Charged(u)'
                                        /\ AllLimited(u)' <= Latest(u)' + MaxAllowed
                      /\ ttl'[u] = 0 => Limited(u)'[0] = 0 /\ AllLimited(u)' <= MaxAllowed
  BY DEF TwoKeys
<1> DEFINE old == Limited(u)
           new == Limited(u)'
<1>3. new = Older(old)
  <2>1. log'[u] = Older(log[u]) /\ extraLog'[u] = Older(extraLog[u])
    BY DEF LimiterTick
  <2>2. ASSUME NEW a \in Ages
        PROVE  log'[u][a] - extraLog'[u][a] = IF a = 0 THEN 0 ELSE old[a - 1]
    <3>1. a = 0 \/ a - 1 \in Ages
      BY DEF Ages
    <3>. QED
      BY <2>1, <3>1 DEF Older, Limited
  <2>. QED
    BY <2>2 DEF Limited, Older
<1>2. /\ ttl \in [Users -> 0..Window] /\ Charged(u) \in 0..MaxAllowed
      /\ old \in [Ages -> Nat] /\ new \in [Ages -> Nat]
      /\ 0 \in Ages /\ Window - 1 \in Ages
  <2>1. old \in [Ages -> Nat] /\ Charged(u) \in 0..MaxAllowed
    BY LimitedType
  <2>2. new \in [Ages -> Nat]
    <3> HIDE DEF old, new
    <3>. QED
      BY <1>3, <2>1, OlderType
  <2>3. 0 \in Ages /\ Window - 1 \in Ages
    BY DEF Ages
  <2>. QED
    BY <2>1, <2>2, <2>3 DEF LimiterInv, LimiterTypeOK
<1>4. \A n \in Ages : Younger(new)[n + 1] = Younger(old)[n]
  <2> HIDE DEF old, new
  <2>. QED
    BY <1>2, <1>3, YoungerShifts DEF Older
<1>5. /\ AllLimited(u)' = Younger(old)[Window - 1]
      /\ Younger(old)[Window - 1] <= AllLimited(u)
      /\ Younger(old)[Window - 1] \in Nat /\ AllLimited(u) \in Nat
  <2>1. (Window - 1) + 1 = Window /\ Window \in 0..Window /\ Window - 1 \in 0..Window
    OBVIOUS
  <2>2. Younger(new)[Window] = Younger(old)[Window - 1]
    BY <1>2, <1>4, <2>1
  <2>3. Younger(old)[Window - 1] <= Younger(old)[(Window - 1) + 1]
    <3> HIDE DEF old
    <3>. QED
      BY <1>2, YoungerGrows
  <2>4. Younger(old)[Window - 1] \in Nat /\ Younger(old)[Window] \in Nat
    <3> HIDE DEF old
    <3>. QED
      BY <1>2, <2>1, YoungerType
  <2>. QED
    BY <2>1, <2>2, <2>3, <2>4 DEF AllLimited, Recent
<1>6. new[0] = 0
  <2> HIDE DEF old, new
  <2>. QED
    BY <1>2, <1>3 DEF Older
<1>7. CASE ttl[u] > 1
  <2>1. ttl'[u] = ttl[u] - 1 /\ Charged(u)' = Charged(u)
    BY <1>7 DEF LimiterTick, Expires, Charged
  <2>2. KeyAge(u) + 1 \in Ages /\ KeyAge(u)' = KeyAge(u) + 1
    <3>1. ttl[u] \in 0..Window
      BY <1>2
    <3>2. ttl[u] \in Nat /\ KeyAge(u)' = Window - (ttl[u] - 1)
      BY <2>1, <3>1 DEF KeyAge
    <3>. QED
      BY <1>7, <3>1, <3>2 DEF KeyAge, Ages
  <2>3. Latest(u)' = Latest(u)
    BY <1>4, <2>2 DEF Latest
  <2>4. Latest(u) <= Charged(u) /\ AllLimited(u) <= Latest(u) + MaxAllowed
    BY <1>2, <1>7 DEF TwoKeys
  <2>5. Latest(u) \in Nat
    <3>1. KeyAge(u) + 1 \in 0..Window
      BY <2>2 DEF Ages
    <3>. QED
      BY <1>2, <3>1, YoungerType DEF Latest
  <2>. QED
    BY <1>2, <1>5, <1>7, <2>1, <2>3, <2>4, <2>5
<1>8. CASE ttl[u] = 1
  <2>1. ttl'[u] = 0
    BY <1>8 DEF LimiterTick
  <2>2. Latest(u) = AllLimited(u)
    BY <1>8 DEF Latest, AllLimited, Recent, KeyAge
  <2>3. Latest(u) <= Charged(u)
    BY <1>8 DEF TwoKeys
  <2>. QED
    BY <1>2, <1>5, <1>6, <2>1, <2>2, <2>3
<1>9. CASE ttl[u] = 0
  <2>1. ttl'[u] = 0 /\ AllLimited(u) <= MaxAllowed
    BY <1>9 DEF LimiterTick, TwoKeys
  <2>. QED
    BY <1>5, <1>6, <2>1
<1>. QED
  BY <1>2, <1>7, <1>8, <1>9

(* At the beginning nothing was let through.                               *)
LEMMA TwoKeysInit == LimiterInit => TwoKeys
<1> SUFFICES ASSUME LimiterInit, NEW u \in Users
             PROVE  Limited(u)[0] = 0 /\ AllLimited(u) <= MaxAllowed
  BY DEF LimiterInit, TwoKeys
<1> USE MaxAllowedAssumption, WindowAssumption
<1> DEFINE f == Limited(u)
           T == {n \in 0..Window : Younger(f)[n] = 0}
<1>1. f \in [Ages -> Nat] /\ (\A a \in Ages : f[a] = 0) /\ 0 \in Ages
  BY DEF LimiterInit, Limited, Ages
<1>2. 0 \in T
  <2> HIDE DEF f
  <2>. QED
    BY <1>1, YoungerIs
<1>3. ASSUME NEW n \in 0..Window, n \in T, n < Window
      PROVE  n + 1 \in T
  <2>1. n \in Ages /\ n + 1 \in 0..Window
    BY <1>3 DEF Ages
  <2> HIDE DEF f
  <2>. QED
    BY <1>1, <1>3, <2>1, YoungerIs
<1>4. 0..Window \subseteq T
  <2> HIDE DEF T
  <2>. QED
    BY <1>2, <1>3, SetInduction
<1>5. AllLimited(u) = 0
  BY <1>4 DEF AllLimited, Recent
<1>. QED
  BY <1>1, <1>5

(* Every step keeps the invariant of the two keys.                         *)
LEMMA TwoKeysStep == LimiterInv /\ LimiterInv' /\ TwoKeys /\ [LimiterNext]_limiterVars => TwoKeys'
<1> SUFFICES ASSUME LimiterInv, LimiterInv', TwoKeys, [LimiterNext]_limiterVars
             PROVE  TwoKeys'
  OBVIOUS
<1>1. ASSUME NEW u \in Users, Count(u), Within(u)
      PROVE  TwoKeys'
  <2>0. PICK k \in {0, 1} : k = 1
    OBVIOUS
  <2>1. /\ Limited(u)' = [Limited(u) EXCEPT ![0] = @ + k]
        /\ Charged(u)' = Charged(u) + k
        /\ \A v \in Users \ {u} : Limited(v)' = Limited(v) /\ Charged(v)' = Charged(v)
    BY <1>1, <2>0, LimitedPass
  <2>. QED
    BY <1>1, <2>1, TwoKeysCount
<1>2. ASSUME NEW u \in Users, Count(u), Beyond(u) \/ UNCHANGED passed
      PROVE  TwoKeys'
  <2>1. /\ Limited(u)' = [Limited(u) EXCEPT ![0] = @ + 0]
        /\ Charged(u)' = Charged(u) + 0
        /\ \A v \in Users \ {u} : Limited(v)' = Limited(v) /\ Charged(v)' = Charged(v)
    BY <1>2, LimitedPass
  <2>. QED
    BY <1>2, <2>1, TwoKeysCount
<1>3. ASSUME NEW u \in Users, Beyond(u), UNCHANGED <<count, ttl>>
      PROVE  TwoKeys'
  <2>1. ASSUME NEW v \in Users
        PROVE  Limited(v)' = Limited(v) /\ Charged(v)' = Charged(v)
    <3>1. /\ Limited(u)' = [Limited(u) EXCEPT ![0] = @ + 0]
          /\ Charged(u)' = Charged(u) + 0
          /\ \A w \in Users \ {u} : Limited(w)' = Limited(w) /\ Charged(w)' = Charged(w)
      BY <1>3, LimitedPass
    <3>2. Limited(u) \in [Ages -> Nat] /\ Charged(u) \in 0..MaxAllowed
      BY LimitedType
    <3>3. Limited(u)' = Limited(u) /\ Charged(u)' = Charged(u)
      BY <3>1, <3>2, MaxAllowedAssumption
    <3>. QED
      BY <3>1, <3>3
  <2>. QED
    BY <1>3, <2>1 DEF TwoKeys, Latest, AllLimited, KeyAge
<1>4. CASE LimiterTick
  BY <1>4, TwoKeysTick
<1>5. CASE UNCHANGED limiterVars
  BY <1>5
     DEF limiterVars, passed, TwoKeys, Latest, AllLimited, Limited, Charged, KeyAge
<1>6. ASSUME NEW u \in Users, Allow(u) \/ Refuse(u) \/ LostReply(u) \/ Unreachable(u)
      PROVE  TwoKeys'
  BY <1>1, <1>2, <1>3, <1>6 DEF Allow, Refuse, LostReply, Unreachable
<1>. QED
  BY <1>4, <1>5, <1>6 DEF LimiterNext

(* In any period as long as a window at most twice the limit passes, for   *)
(* any limit and window, but for what Redis failed to refuse: the period   *)
(* meets the lives of two keys at most (limiter.go:24-32).                 *)
THEOREM TwiceTheLimit == LimiterSpec => []TwiceBound
<1>1. LimiterInv /\ TwoKeys => TwiceBound
  <2> SUFFICES ASSUME LimiterInv, TwoKeys, NEW u \in Users
               PROVE  Recent(log[u]) <= 2 * MaxAllowed + Recent(extraLog[u])
    BY DEF TwiceBound
  <2> USE MaxAllowedAssumption, WindowAssumption
  <2>1. /\ ttl[u] \in 0..Window
        /\ log[u] \in [Ages -> Nat] /\ extraLog[u] \in [Ages -> Nat]
        /\ Limited(u) \in [Ages -> Nat] /\ Charged(u) \in 0..MaxAllowed
    BY LimitedType DEF LimiterInv, LimiterTypeOK
  <2>2. AllLimited(u) \in Nat /\ Recent(extraLog[u]) \in Nat
    <3>1. Window \in 0..Window
      OBVIOUS
    <3>. QED
      BY <2>1, <3>1, YoungerType DEF AllLimited, Recent
  <2>3. Recent(log[u]) = AllLimited(u) + Recent(extraLog[u])
    <3>1. \A a \in Ages : log[u][a] = Limited(u)[a] + extraLog[u][a]
      BY <2>1 DEF Limited
    <3>. QED
      BY <2>1, <3>1, YoungerAdds DEF AllLimited
  <2>4. AllLimited(u) <= 2 * MaxAllowed
    <3>1. CASE ttl[u] > 0
      <4>1. KeyAge(u) + 1 \in 0..Window
        BY <2>1, <3>1 DEF KeyAge
      <4>2. Latest(u) \in Nat
        BY <2>1, <4>1, YoungerType DEF Latest
      <4>3. Latest(u) <= Charged(u) /\ AllLimited(u) <= Latest(u) + MaxAllowed
        BY <3>1 DEF TwoKeys
      <4>. QED
        BY <2>1, <2>2, <4>2, <4>3
    <3>2. CASE ttl[u] = 0
      BY <2>2, <3>2 DEF TwoKeys
    <3>. QED
      BY <2>1, <3>1, <3>2
  <2>. QED
    BY <2>2, <2>3, <2>4
<1>. QED
  BY <1>1, TwoKeysInit, TwoKeysStep, LimiterInvHolds, PTL DEF LimiterSpec
=============================================================================
