----------------------------- MODULE RateLimiter -----------------------------
(***************************************************************************)
(* The rate limiter of chat messages (server/ratelimit/limiter.go): one    *)
(* Redis counter per user, incremented by every attempt, that expires a    *)
(* fixed time after its first increment.  INCR and EXPIRE NX are one Redis *)
(* transaction, so all server processes share this state and each attempt  *)
(* is one step.  Time is counted in ticks, a window being Window ticks.    *)
(*                                                                         *)
(* The limiter fails open: a request passes when Redis cannot be reached,  *)
(* and also when only the reply is lost and the attempt was counted.       *)
(* The names of the specification are its own, so that a module can extend *)
(* it together with that of another Redis key (Presence).                  *)
(***************************************************************************)
EXTENDS Naturals

CONSTANTS
    Users,
    MaxAllowed,     \* Limiter.max (30, main.go:168)
    Window,         \* Limiter.windowS in ticks (60 s, main.go:168)
    MaxExtra        \* bound: requests that pass beyond the limit, per key

ASSUME MaxAllowedAssumption == MaxAllowed \in Nat
ASSUME WindowAssumption == Window \in Nat \ {0}
ASSUME MaxExtraAssumption == MaxExtra \in Nat

VARIABLES
    count,      \* the Redis counter; 0: no key.  Above MaxAllowed its exact
                \* value is never used, so it stays at MaxAllowed + 1
    ttl,        \* ticks until the key expires; 0: no expiry is set
    window,     \* history: requests let through since the last key expired
    log,        \* history: log[u][a], requests let through a ticks ago
    extra,      \* history: of those in window, the ones beyond the limit
    extraLog    \* history: of those in log, the ones beyond the limit

passed == <<window, log, extra, extraLog>>
limiterVars == <<count, ttl, passed>>

Ages == 0..(Window - 1)

LimiterTypeOK ==
    /\ count \in [Users -> 0..(MaxAllowed + 1)]
    /\ ttl \in [Users -> 0..Window]
    /\ window \in [Users -> Nat] /\ extra \in [Users -> Nat]
    /\ log \in [Users -> [Ages -> Nat]] /\ extraLog \in [Users -> [Ages -> Nat]]

LimiterInit ==
    /\ count = [u \in Users |-> 0]
    /\ ttl = [u \in Users |-> 0]
    /\ window = [u \in Users |-> 0] /\ extra = [u \in Users |-> 0]
    /\ log = [u \in Users |-> [a \in Ages |-> 0]] /\ extraLog = log

-----------------------------------------------------------------------------
(* INCR, and EXPIRE NX: only a key without an expiry gets one.             *)
Incremented(u) == IF count[u] > MaxAllowed THEN count[u] ELSE count[u] + 1

(* Mutants of Count: an expiry renewed by every attempt; one of a tick,    *)
(* the unit being forgotten.                                               *)
CountRenewing(u) ==
    /\ count' = [count EXCEPT ![u] = Incremented(u)]
    /\ ttl' = [ttl EXCEPT ![u] = Window]

CountBriefly(u) ==
    /\ count' = [count EXCEPT ![u] = Incremented(u)]
    /\ ttl' = [ttl EXCEPT ![u] = IF @ = 0 THEN 1 ELSE @]

Count(u) ==
    /\ count' = [count EXCEPT ![u] = Incremented(u)]
    /\ ttl' = [ttl EXCEPT ![u] = IF @ = 0 THEN Window ELSE @]

(* A request is let through, as one of the limit or beyond it.             *)
Within(u) ==
    /\ window' = [window EXCEPT ![u] = @ + 1]
    /\ log' = [log EXCEPT ![u][0] = @ + 1]
    /\ UNCHANGED <<extra, extraLog>>

Beyond(u) ==
    /\ extra[u] < MaxExtra
    /\ window' = [window EXCEPT ![u] = @ + 1]
    /\ log' = [log EXCEPT ![u][0] = @ + 1]
    /\ extra' = [extra EXCEPT ![u] = @ + 1]
    /\ extraLog' = [extraLog EXCEPT ![u][0] = @ + 1]

(* Mutant of Allow: it compares the value before the increment.            *)
AllowOneMore(u) ==
    /\ Count(u)
    /\ count[u] <= MaxAllowed
    /\ Within(u)

(* The reply of INCR decides.                                              *)
Allow(u) ==
    /\ Count(u)
    /\ Incremented(u) <= MaxAllowed
    /\ Within(u)

Refuse(u) ==
    /\ Count(u)
    /\ Incremented(u) > MaxAllowed
    /\ UNCHANGED passed

(* The transaction was executed but Exec returned an error, and the        *)
(* request passes: one of the limit if the reply would have admitted it.   *)
LostReply(u) ==
    /\ Count(u)
    /\ \/ Incremented(u) <= MaxAllowed /\ Within(u)
       \/ Incremented(u) > MaxAllowed /\ Beyond(u)

(* Redis was not reached, and the request passes uncounted.                *)
Unreachable(u) ==
    /\ Beyond(u)
    /\ UNCHANGED <<count, ttl>>

(* One tick passes; Redis removes the keys that reach their expiry.        *)
Expires(u) == ttl[u] = 1

Older(f) == [a \in Ages |-> IF a = 0 THEN 0 ELSE f[a - 1]]

LimiterTick ==
    /\ ttl' = [u \in Users |-> IF ttl[u] = 0 THEN 0 ELSE ttl[u] - 1]
    /\ count' = [u \in Users |-> IF Expires(u) THEN 0 ELSE count[u]]
    /\ window' = [u \in Users |-> IF Expires(u) THEN 0 ELSE window[u]]
    /\ extra' = [u \in Users |-> IF Expires(u) THEN 0 ELSE extra[u]]
    /\ log' = [u \in Users |-> Older(log[u])]
    /\ extraLog' = [u \in Users |-> Older(extraLog[u])]

LimiterNext ==
    \/ \E u \in Users : Allow(u) \/ Refuse(u) \/ LostReply(u) \/ Unreachable(u)
    \/ LimiterTick

LimiterSpec == LimiterInit /\ [][LimiterNext]_limiterVars

(* Time passes.  Nothing is assumed of the users.                          *)
LimiterFairSpec == LimiterSpec /\ WF_limiterVars(LimiterTick)

-----------------------------------------------------------------------------
(* Within the life of one key no more than MaxAllowed requests pass, but   *)
(* for those that Redis failed to refuse: each of these found Redis out of *)
(* reach, or was counted beyond the limit and its reply was lost.  Other   *)
(* requests whose replies are lost use up the limit (limiter.go:28-32).    *)
WindowBound == \A u \in Users : window[u] <= MaxAllowed + extra[u]

(* A counter always has an expiry, so nobody is locked out by a key that   *)
(* stays for ever: the two commands are one transaction (limiter.go:25-28).*)
CounterExpires == \A u \in Users : count[u] > 0 <=> ttl[u] > 0

(* Of the requests in a log f, how many are younger than n ticks.          *)
Younger(f) ==
    LET sum[n \in 0..Window] == IF n = 0 THEN 0 ELSE sum[n - 1] + f[n - 1]
    IN  sum

Recent(f) == Younger(f)[Window]

(* What a fixed window really promises: in any period as long as a window  *)
(* at most twice the limit passes, as it meets at most two keys' lives,    *)
(* and again only a failure of Redis lets more through (limiter.go:28-32). *)
TwiceBound ==
    \A u \in Users : Recent(log[u]) <= 2 * MaxAllowed + Recent(extraLog[u])

(* A user who goes on trying while being refused is let in again: attempts *)
(* do not push the expiry back (limiter.go:27, NX).                        *)
LimitedUserReturns ==
    \A u \in Users : count[u] > MaxAllowed ~> count[u] = 0
=============================================================================
