------------------------------ MODULE Presence ------------------------------
(***************************************************************************)
(* Presence of one user: the Redis key presence:<user> (presence.go), the  *)
(* hooks and the "ping" and "presence_check" messages that write and read  *)
(* it (main.go), the heartbeat of the web page (useWebSocket.ts), and the  *)
(* page of another user who watches.  That user may have other pages; one  *)
(* server process keeps only its newest connection in the hub.             *)
(*                                                                         *)
(* Time passes in ticks of ten seconds.  The code's TTL is three ticks and *)
(* its heartbeat two.  Bound "promptness": a hook that runs, a ping that   *)
(* was sent and a presence check that was asked take less than a tick      *)
(* (Busy), and a heartbeat that is due is sent before the next tick (Due). *)
(***************************************************************************)
EXTENDS Naturals

CONSTANTS
    Conns,      \* the connections the user makes, at any process, each once
    Ttl, Beat,  \* life of the key and interval of the heartbeats, in ticks
    Failures    \* subset of {"redis", "crash"}: what may fail

ASSUME TimesAssumption == Ttl \in Nat /\ Beat \in Nat /\ Beat < Ttl

VARIABLES
    key,        \* the ticks the presence key has left; 0: there is no key
    stage,      \* server side of a connection
    there,      \* the page at the other end of the connection is there
    beat, ping, \* ticks since its last heartbeat; a ping is on its way
    open, asked, look, \* the watching page: its socket, its check, its clock
    reached,    \* the hub of its process has its connection for the watcher
    view,       \* what the watching page shows
    excused,    \* history: the key was deleted, or a SetOnline failed, since
                \* the last SetOnline
    dark,       \* history: ticks somebody is there without a key
    gone,       \* history: ticks nobody is there
    faulty      \* history: something has failed

connVars == <<stage, there, beat, ping>>
watchVars == <<open, asked, look, reached, view>>
history == <<excused, dark, gone, faulty>>
vars == <<key, connVars, watchVars, history>>

Stages == {"new", "hook", "up", "closing", "over"}
Forgotten == Ttl + Beat + 1     \* bound: gone counts no further

TypeOK ==
    /\ key \in 0..Ttl
    /\ stage \in [Conns -> Stages]
    /\ there \in [Conns -> BOOLEAN] /\ ping \in [Conns -> BOOLEAN]
    /\ \A c \in Conns : there[c] => stage[c] \in {"hook", "up"}
    /\ \A c \in Conns : ping[c] => stage[c] = "up"
    /\ beat \in [Conns -> 0..Beat] /\ look \in 0..Beat
    /\ open \in BOOLEAN /\ asked \in BOOLEAN /\ view \in BOOLEAN
    /\ reached \in BOOLEAN
    /\ asked \/ reached => open
    /\ excused \in BOOLEAN /\ faulty \in BOOLEAN
    /\ dark \in Nat /\ gone \in 0..Forgotten

Init ==
    /\ key = 0
    /\ stage = [c \in Conns |-> "new"] /\ there = [c \in Conns |-> FALSE]
    /\ beat = [c \in Conns |-> 0] /\ ping = [c \in Conns |-> FALSE]
    /\ open = FALSE /\ asked = FALSE /\ look = 0 /\ reached = FALSE /\ view = FALSE
    /\ excused = FALSE /\ dark = 0 /\ gone = Forgotten /\ faulty = FALSE

Present(c) == stage[c] = "up" /\ there[c]

-----------------------------------------------------------------------------
(* Mutant of SetOnline: SET with NX, which refreshes no TTL.               *)
SetOnlineNX ==
    /\ key' = IF key = 0 THEN Ttl ELSE key
    /\ excused' = FALSE /\ dark' = 0
    /\ UNCHANGED <<gone, faulty>>

SetOnline ==
    /\ key' = Ttl
    /\ excused' = FALSE /\ dark' = 0
    /\ UNCHANGED <<gone, faulty>>

SetOnlineFails ==
    /\ "redis" \in Failures
    /\ excused' = TRUE /\ dark' = 0 /\ faulty' = TRUE
    /\ UNCHANGED <<key, gone>>

SetOffline ==
    \/ key' = 0 /\ excused' = TRUE /\ UNCHANGED <<dark, gone, faulty>>
    \/ "redis" \in Failures /\ faulty' = TRUE /\ UNCHANGED <<key, excused, dark, gone>>

-----------------------------------------------------------------------------
(* ServeWS: the socket is upgraded, the page's onopen starts its heartbeat *)
(* and the connect hook begins.                                            *)
Connect(c) ==
    /\ stage[c] = "new"
    /\ stage' = [stage EXCEPT ![c] = "hook"]
    /\ there' = [there EXCEPT ![c] = TRUE]
    /\ beat' = [beat EXCEPT ![c] = 0]
    /\ gone' = 0
    /\ UNCHANGED <<key, ping, watchVars, excused, dark, faulty>>

(* onConnect, then the pumps: an error of SetOnline is only logged.        *)
OnConnect(c) ==
    /\ stage[c] = "hook"
    /\ SetOnline \/ SetOnlineFails
    /\ stage' = [stage EXCEPT ![c] = "up"]
    /\ UNCHANGED <<there, beat, ping, watchVars>>

Heartbeat(c) ==
    /\ Present(c) /\ beat[c] = Beat
    /\ beat' = [beat EXCEPT ![c] = 0]
    /\ ping' = [ping EXCEPT ![c] = TRUE]
    /\ UNCHANGED <<key, stage, there, watchVars, history>>

(* Mutants of Ping: it is answered with a pong and nothing else; and it is *)
(* handled by a goroutine of its own, which may outlive the connection.    *)
PingPongs(c) ==
    /\ stage[c] = "up" /\ ping[c]
    /\ ping' = [ping EXCEPT ![c] = FALSE]
    /\ UNCHANGED <<key, stage, there, beat, watchVars, history>>

PingAnytime(c) ==
    /\ stage[c] \in {"up", "closing", "over"}
    /\ SetOnline
    /\ ping' = [ping EXCEPT ![c] = FALSE]
    /\ UNCHANGED <<stage, there, beat, watchVars>>

(* Dispatch, case "ping", by the read goroutine of the connection.         *)
Ping(c) ==
    /\ stage[c] = "up" /\ ping[c]
    /\ SetOnline \/ SetOnlineFails
    /\ ping' = [ping EXCEPT ![c] = FALSE]
    /\ UNCHANGED <<stage, there, beat, watchVars>>

(* The page vanishes and nobody is told; a ping on its way may be lost.    *)
Vanish(c) ==
    /\ there[c]
    /\ there' = [there EXCEPT ![c] = FALSE]
    /\ ping' \in {ping, [ping EXCEPT ![c] = FALSE]}
    /\ UNCHANGED <<key, stage, beat, watchVars, history>>

(* The read goroutine ends: the page has gone, or the read deadline of     *)
(* sixty seconds has passed, or the connection was dropped by the hub.     *)
ReadError(c) ==
    /\ stage[c] = "up"
    /\ stage' = [stage EXCEPT ![c] = "closing"]
    /\ there' = [there EXCEPT ![c] = FALSE]
    /\ ping' = [ping EXCEPT ![c] = FALSE]
    /\ UNCHANGED <<key, beat, watchVars, history>>

(* onDisconnect deletes the key of the user, whoever else is connected.    *)
OnDisconnect(c) ==
    /\ stage[c] = "closing"
    /\ SetOffline
    /\ stage' = [stage EXCEPT ![c] = "over"]
    /\ UNCHANGED <<there, beat, ping, watchVars>>

(* The process of the connection is gone, and its hook never runs.         *)
Crash(c) ==
    /\ "crash" \in Failures
    /\ stage[c] \in {"hook", "up", "closing"}
    /\ stage' = [stage EXCEPT ![c] = "over"]
    /\ there' = [there EXCEPT ![c] = FALSE]
    /\ ping' = [ping EXCEPT ![c] = FALSE]
    /\ faulty' = TRUE
    /\ UNCHANGED <<key, beat, watchVars, excused, dark, gone>>

-----------------------------------------------------------------------------
(* The watching page asks when its socket opens,                           *)
Open ==
    /\ ~open
    /\ open' = TRUE /\ asked' = TRUE /\ look' = 0 /\ reached' = TRUE
    /\ UNCHANGED <<key, connVars, view, history>>

(* Mutant of Poll: the heartbeat no longer re-checks the contacts.         *)
PollNobody ==
    /\ open /\ look = Beat
    /\ look' = 0
    /\ UNCHANGED <<key, connVars, open, asked, reached, view, history>>

(* with every heartbeat,                                                   *)
Poll ==
    /\ open /\ look = Beat
    /\ asked' = TRUE /\ look' = 0
    /\ UNCHANGED <<key, connVars, open, reached, view, history>>

(* and when a message of the user arrives.                                 *)
MessageIn ==
    /\ open /\ reached /\ ~asked
    /\ asked' = TRUE
    /\ UNCHANGED <<key, connVars, open, look, reached, view, history>>

(* IsOnline, an error counting as offline.  The answer is sent to the      *)
(* watcher, and that is the connection the hub has now, or none.           *)
Answer ==
    /\ \/ reached /\ view' = (key > 0) /\ UNCHANGED faulty
       \/ reached /\ "redis" \in Failures /\ view' = FALSE /\ faulty' = TRUE
       \/ ~reached /\ UNCHANGED <<view, faulty>>
    /\ UNCHANGED <<key, connVars, open, look, reached, excused, dark, gone>>

PresenceCheck == asked /\ Answer /\ asked' = FALSE

(* What another page of the watcher asks in this process is answered here. *)
OthersCheck == reached /\ Answer /\ UNCHANGED asked

(* Another page of the watcher logs in at the process, or a full channel   *)
(* has the connection evicted: until it reconnects nothing is sent here.   *)
Superseded ==
    /\ reached
    /\ reached' = FALSE
    /\ UNCHANGED <<key, connVars, open, asked, look, view, history>>

(* A page that is closed keeps what it showed: the store is persisted.     *)
Close ==
    /\ open
    /\ open' = FALSE /\ asked' = FALSE /\ reached' = FALSE
    /\ UNCHANGED <<key, connVars, look, view, history>>

-----------------------------------------------------------------------------
Busy ==
    \/ asked
    \/ \E c \in Conns : stage[c] \in {"hook", "closing"} \/ ping[c]

Due == (open /\ look = Beat) \/ \E c \in Conns : Present(c) /\ beat[c] = Beat

Somebody == \E c \in Conns : there[c]

Tick ==
    /\ ~Busy /\ ~Due
    /\ key' = IF key > 0 THEN key - 1 ELSE 0
    /\ beat' = [c \in Conns |-> IF Present(c) THEN beat[c] + 1 ELSE beat[c]]
    /\ look' = IF open THEN look + 1 ELSE look
    /\ dark' = IF Somebody /\ key' = 0 THEN dark + 1 ELSE 0
    /\ gone' = IF Somebody THEN 0
               ELSE IF gone < Forgotten THEN gone + 1 ELSE gone
    /\ UNCHANGED <<stage, there, ping, open, asked, reached, view, excused, faulty>>

Next ==
    \/ \E c \in Conns :
          \/ Connect(c) \/ OnConnect(c) \/ Heartbeat(c) \/ Ping(c)
          \/ Vanish(c) \/ ReadError(c) \/ OnDisconnect(c) \/ Crash(c)
    \/ Open \/ Poll \/ MessageIn \/ PresenceCheck \/ OthersCheck \/ Superseded \/ Close
    \/ Tick

Spec == Init /\ [][Next]_vars

-----------------------------------------------------------------------------
(* The key outlives the interval between two heartbeats: while a page is   *)
(* there, the user is online unless the teardown of another connection has *)
(* deleted the key, or Redis has failed, since it was last written         *)
(* (presence.go:12, useWebSocket.ts:49-56).                                *)
OnlineWhileThere == (\E c \in Conns : Present(c)) /\ ~excused => key > 0

(* The late teardown of an older connection hides a user who has logged in *)
(* again, but for no longer than to the next heartbeat (main.go:113-117,   *)
(* 229-232).  A SetOnline that fails begins the count anew: how long a     *)
(* failing Redis hides a user is not bounded.                              *)
BackWithinABeat == dark <= Beat

(* When every connection is over and nothing has failed the user is        *)
(* offline at once: no write of a connection comes after its own delete    *)
(* (handler.go:54-60).                                                     *)
OfflineWhenOver ==
    ~faulty /\ (\A c \in Conns : stage[c] \in {"new", "over"}) => key = 0

(* Whether Redis or the processes of the user fail or not, a page whose    *)
(* connection is still the newest of the watcher stops showing a user who  *)
(* has gone after one life of the key and one interval of its own          *)
(* heartbeat (useWebSocket.ts:44-57, main.go:90-112).  Nothing is said of  *)
(* an older page of the same watcher: it polls for answers that go to the  *)
(* newest one, and may show a user who has gone for as long as it is open. *)
ShownNoLonger == reached /\ ~asked /\ view => gone <= Ttl + Beat

-----------------------------------------------------------------------------
(* Why these hold.  A key that nobody has deleted lasts to the next        *)
(* heartbeat of every page that is there; ticks without a key are counted  *)
(* by each of these heartbeats; a write of the key comes from a connection *)
(* that will still delete it; and key, watcher and user age together.      *)
KeyOutlivesBeat ==
    \A c \in Conns : Present(c) /\ ~excused =>
        key > 0 /\ (ping[c] \/ key + beat[c] > Beat)

DarkIsBrief ==
    /\ dark <= Beat
    /\ \A c \in Conns : Present(c) => ping[c] \/ dark <= beat[c]

KeyHasWriter ==
    ~faulty /\ key > 0 => \E c \in Conns : stage[c] \in {"up", "closing"}

WritersAreRecent ==
    \A c \in Conns : there[c] \/ ping[c] \/ stage[c] = "hook" => gone = 0

KeyIsRecent == key > 0 => key + gone <= Ttl
ViewIsRecent == reached /\ ~asked /\ view => gone <= Ttl + look

IInv ==
    /\ TypeOK /\ KeyOutlivesBeat /\ DarkIsBrief /\ KeyHasWriter
    /\ WritersAreRecent /\ KeyIsRecent /\ ViewIsRecent
=============================================================================
