---------------------------- MODULE ClientSocket ----------------------------
(***************************************************************************)
(* The socket of the web page: the effect of web/src/hooks/useWebSocket.ts *)
(* (lines 32-148) from the mount of the page to its unmount at logout.     *)
(*                                                                         *)
(* Every task of the browser is an action: the mount, an event of a        *)
(* socket, a timer, the unmount.  In production the effect runs once per   *)
(* mount; in development StrictMode runs it, its cleanup and it again, in  *)
(* one task, and both runs share the refs.                                 *)
(*                                                                         *)
(* A socket goes none -> connecting -> open -> closing -> none; "waiting"  *)
(* is a closed socket whose onclose has set a timer that is still pending. *)
(***************************************************************************)
EXTENDS Naturals

CONSTANTS
    Sockets,        \* sockets there may be at the same time; ids are reused
    NoSocket,
    FirstDelay, LastDelay   \* 1000 and 30000 milliseconds, in seconds

ASSUME SocketsAssumption == NoSocket \notin Sockets
ASSUME DelaysAssumption ==
    FirstDelay \in Nat /\ LastDelay \in Nat /\ 0 < FirstDelay /\ FirstDelay <= LastDelay

VARIABLES
    page,           \* "login" -> "chat" -> "left"
    effects,        \* how often the mount has run the effect
    sock, owner,    \* the state of a socket and the run of the effect it is of
    wsRef, timerRef, delay,     \* the refs; a timer is named by its socket
    overtaken       \* history: the onclose of a socket of the first run has
                    \* cleared a pending timer of the second

vars == <<page, effects, sock, owner, wsRef, timerRef, delay, overtaken>>

Min2(x, y) == IF x < y THEN x ELSE y

Live(s) == sock[s] \in {"connecting", "open"}
Cancelled(e) == page = "left" \/ e < effects

TypeOK ==
    /\ page \in {"login", "chat", "left"}
    /\ effects \in 0..2
    /\ sock \in [Sockets -> {"none", "connecting", "open", "closing", "waiting"}]
    /\ owner \in [Sockets -> 1..2]
    /\ wsRef \in Sockets \union {NoSocket}
    /\ timerRef \in Sockets \union {NoSocket}
    /\ delay \in FirstDelay..LastDelay
    /\ overtaken \in BOOLEAN
    /\ \A s \in Sockets : sock[s] = "waiting" => s = timerRef

Init ==
    /\ page = "login" /\ effects = 0
    /\ sock = [s \in Sockets |-> "none"]
    /\ owner = [s \in Sockets |-> 1]
    /\ wsRef = NoSocket /\ timerRef = NoSocket
    /\ delay = FirstDelay
    /\ overtaken = FALSE

(* clearTimeout(reconnectTimer.current), and then the sockets are sk.      *)
TimerCleared(sk) ==
    [s \in Sockets |-> IF s = timerRef /\ sk[s] = "waiting" THEN "none" ELSE sk[s]]

-----------------------------------------------------------------------------
(* The page is mounted: connect(), in development for the second time,     *)
(* after the cleanup has closed the first socket.                          *)
Mount(s, t) ==
    /\ page = "login"
    /\ page' = "chat"
    /\ \/ /\ s = t /\ effects' = 1
          /\ sock' = [sock EXCEPT ![t] = "connecting"]
       \/ /\ s # t /\ effects' = 2
          /\ sock' = [sock EXCEPT ![s] = "closing", ![t] = "connecting"]
    /\ owner' = [owner EXCEPT ![t] = effects']
    /\ wsRef' = t
    /\ UNCHANGED <<timerRef, delay, overtaken>>

Opened(s) ==
    /\ sock[s] = "connecting"
    /\ sock' = [sock EXCEPT ![s] = "open"]
    /\ delay' = FirstDelay
    /\ UNCHANGED <<page, effects, owner, wsRef, timerRef, overtaken>>

Overtakes(s) == \E t \in Sockets : sock[t] = "waiting" /\ owner[s] < owner[t]

(* Mutant of Closed: only a socket that was open is connected again.       *)
ClosedForGood(s) ==
    /\ sock[s] \in {"connecting", "open", "closing"}
    /\ IF sock[s] = "connecting"
       THEN sock' = [sock EXCEPT ![s] = "none"] /\ UNCHANGED timerRef
       ELSE sock' = [TimerCleared(sock) EXCEPT ![s] = "waiting"] /\ timerRef' = s
    /\ overtaken' = (overtaken \/ Overtakes(s))
    /\ UNCHANGED <<page, effects, owner, wsRef, delay>>

(* onclose, of whichever socket: the connection could not be made, was     *)
(* lost, or is closed at last.                                             *)
Closed(s) ==
    /\ sock[s] \in {"connecting", "open", "closing"}
    /\ sock' = [TimerCleared(sock) EXCEPT ![s] = "waiting"]
    /\ timerRef' = s
    /\ overtaken' = (overtaken \/ Overtakes(s))
    /\ UNCHANGED <<page, effects, owner, wsRef, delay>>

Doubled == Min2(delay * 2, LastDelay)

(* Mutant of Fire: cancelled is not asked for.                             *)
FireAnyway(s, t) ==
    /\ sock[s] = "waiting" /\ (t = s \/ sock[t] = "none")
    /\ delay' = Doubled
    /\ sock' = [[sock EXCEPT ![s] = "none"] EXCEPT ![t] = "connecting"]
    /\ owner' = [owner EXCEPT ![t] = owner[s]]
    /\ wsRef' = t
    /\ UNCHANGED <<page, effects, timerRef, overtaken>>

(* The timer: the delay is doubled, and connect() opens a socket t unless  *)
(* its run of the effect is cancelled.                                     *)
Fire(s, t) ==
    /\ sock[s] = "waiting" /\ (t = s \/ sock[t] = "none")
    /\ delay' = Doubled
    /\ IF Cancelled(owner[s])
       THEN sock' = [sock EXCEPT ![s] = "none"] /\ UNCHANGED <<owner, wsRef>>
       ELSE /\ sock' = [[sock EXCEPT ![s] = "none"] EXCEPT ![t] = "connecting"]
            /\ owner' = [owner EXCEPT ![t] = owner[s]]
            /\ wsRef' = t
    /\ UNCHANGED <<page, effects, timerRef, overtaken>>

(* Mutant of Unmount: the cleanup stops the timer but not the socket.      *)
UnmountOpen ==
    /\ page = "chat"
    /\ page' = "left"
    /\ sock' = TimerCleared(sock)
    /\ UNCHANGED <<effects, owner, wsRef, timerRef, delay, overtaken>>

(* Logout: the cleanup of the effect.                                      *)
Unmount ==
    /\ page = "chat"
    /\ page' = "left"
    /\ sock' = TimerCleared([s \in Sockets |->
                    IF s = wsRef /\ Live(s) THEN "closing" ELSE sock[s]])
    /\ UNCHANGED <<effects, owner, wsRef, timerRef, delay, overtaken>>

Next ==
    \/ \E s, t \in Sockets : Mount(s, t) \/ Fire(s, t)
    \/ \E s \in Sockets : Opened(s) \/ Closed(s)
    \/ Unmount

Spec == Init /\ [][Next]_vars

-----------------------------------------------------------------------------
(* The only socket that lives is the one send() would use: no reconnect    *)
(* leaves a second one behind that still delivers frames to the store.     *)
LiveIsCurrent == \A s \in Sockets : Live(s) => s = wsRef

(* After logout no socket lives, whatever was under way: an open one, one  *)
(* being opened, a pending timer (useWebSocket.ts:143-147).                *)
QuietAfterLogout == page = "left" => \A s \in Sockets : ~Live(s)

-----------------------------------------------------------------------------
(* Why these hold: only the last run of the effect has a socket that       *)
(* lives, and none while a timer of that run is pending.                   *)
RunsAreOrdered ==
    /\ page = "login" => \A s \in Sockets : sock[s] = "none" /\ owner[s] = 1
    /\ \A s \in Sockets : sock[s] # "none" => owner[s] <= effects

LiveIsOfLastRun ==
    \A s \in Sockets : Live(s) => page = "chat" /\ s = wsRef /\ owner[s] = effects

PendingIsAlone ==
    \A s, t \in Sockets :
        sock[s] = "waiting" /\ Live(t) => owner[s] < effects

ClosingIsOver ==
    \A s \in Sockets : sock[s] = "closing" => page = "left" \/ owner[s] < effects

IInv == TypeOK /\ RunsAreOrdered /\ LiveIsOfLastRun /\ PendingIsAlone /\ ClosingIsOver
=============================================================================
