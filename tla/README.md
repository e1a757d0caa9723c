# A TLA+ model of realtime-chat-go

The program is a chat system: a Go server (`src/server`), of which several
processes may run side by side over one PostgreSQL database and one Redis, a
React page (`src/web`) and a terminal client (`src/cli`). The specifications
here follow that code. Line numbers in comments are those of the files under
`src/`.

Contents: [the system](#the-system) ·
[modules](#modules-and-how-they-correspond-to-the-code) ·
[runs](#what-the-runs-show) · [fairness](#fairness) · [proofs](#proofs) ·
[disagreements](#where-the-code-and-its-documents-disagree) ·
[limits](#not-modelled) · [plan](#plan)

## The system

| component | state it keeps | operations | talks to |
|---|---|---|---|
| hub (`server/ws/hub.go`) | map user → current `Client`; a channel of 256 frames per client | `Register`, `Unregister`, `Send` | called by every goroutine of the process |
| connection (`server/ws/client.go`, `handler.go`) | the socket, two goroutines, deadlines | `ServeWS`, connect and disconnect hooks, `readPump`, `writePump` | hub, router, presence, every handler |
| router (`server/pubsub/router.go`) | map user → one Redis subscription; a forwarder goroutine for each | `Subscribe`, `Unsubscribe`, `Publish` | Redis, `hub.Send` |
| direct messages (`server/chat/dm.go`, hooks in `main.go`, `db/messages.go`) | `messages.status` | `HandleDM`, `HandleAck`, `GetPendingMessages`, `UpdateMessageStatus` | hub, router, database |
| chat directory (`FindOrCreateChat`, `db/messages.go`) | `chats`, `chat_members` | look up, create | database |
| groups (`server/chat/group.go`, `db/groups.go`) | `groups`, `group_members`, `group_messages` | create, add, leave, send | hub, database |
| rate limiter (`server/ratelimit/limiter.go`) | a Redis counter with an expiry per user | `Allow` | Redis |
| presence (`server/presence/presence.go`) | a Redis key with a TTL per user | `SetOnline`, `SetOffline`, `IsOnline` | Redis, the hooks, `Dispatch` |
| dispatcher (`main.go`) | none | one frame of a connection at a time | all handlers |
| accounts (`server/auth`, `db/users.go`, `LoginForm.tsx`, `api.ts`) | `users`, the page's token | register, login, `JWTAuth` | database |
| page socket (`web/src/hooks/useWebSocket.ts`) | refs to the socket, the timer and the delay | connect, reconnect, clean up | the server |
| page store (`web/src/store.ts`, `ChatWindow.tsx`) | the message lists, persisted | frames, sends, history, acknowledgements | the socket, `GET /messages` |
| pages (`App.tsx`, `LoginForm.tsx`, `ChatPage.tsx`, `ContactList.tsx`, `ChatWindow.tsx`) | what is selected, the layout, forms, the text, `ackedIds` | select, go back, start a chat, type, send, copy, log in and out | the store, the socket, `GET /messages`, timeouts |
| typing (`presence/typing.go`, `useWebSocket.ts`) | the page's indicators, persisted with the store | relay; set, and clear after five seconds | hub, store |
| WebRTC relay, CLI, configuration | nothing that lasts | relay, print, dial | hub, router |

How a direct message travels. The read goroutine of the sender's connection
executes `HandleDM`: find or create the chat, insert the row as `sent`, look
the receiver up in the hub of its own process, push the frame and mark the
row `delivered`, or publish it to Redis for the processes that have
subscribed for the receiver; then acknowledge. A receiver who logs in
registers with the hub, subscribes, fetches what is still `sent`, pushes it
and marks it. Nothing but the mutexes of the hub and the router and single
statements of the database is atomic in all this.

What is hard, component by component, and the properties that answer it:

* **hub and connection** – `Send` unlocks before it pushes; `Unregister` is
  called by a connection's own exit, by any sender that finds the channel full,
  and late by an older login. Right means: the map and the channels change as
  if every step were atomic (`HubSpec`), no channel is closed twice, an older
  login's teardown never evicts the newer (`NewerLoginSurvives`), what is past its
  teardown is not found (`GoneIsNotFound`), dropped connections end
  (`DroppedConnectionEnds`, `WriterEnds`).
* **router** – one entry per user, so overlapping logins close each other's
  subscription. Right means: whoever is still connected has one
  (`StillSubscribed`), and hears again after a loss (`EventuallyListening`).
* **direct messages** – two ways to reach a receiver, insert-then-look-up and
  register-then-fetch, whose interleavings must leave no gap (`NoneStranded`) and
  an overlap that ends with the mark (`SettledIsNotResent`); partial failures
  between the statements (`AckedWasRouted`), frames that are sent by user id,
  not by connection, acknowledgements that name anybody, and notes to oneself
  in somebody else's chat (`FramesFit`).
* **chat directory** – look-up and creation are two transactions
  (`SettledStays`); the join (`HistoryIsOfThePair`).
* **groups** – membership is read twice, before the insert and after it, while
  others join and leave (`DepartedHearNothing`, `AckedReachedSteady`,
  `DeadGroupsStayDead`).
* **rate limiter** – boundaries of a fixed window, lost replies that use up the
  limit, expiry (`WindowBound`, `TwiceBound`, `LimitedUserReturns`).
* **presence** – one key per user, several connections, a late delete, a TTL
  against a heartbeat (`OnlineWhileThere`, `BackWithinABeat`,
  `OfflineWhenOver`), and a watching page that learns of changes only by asking
  (`ShownNoLonger`).
* **page socket and accounts** – events of old sockets that arrive late, two
  runs of one effect with shared refs, logout at any moment (`LiveIsCurrent`,
  `QuietAfterLogout`, `Reconnects`); a registration repeated while the first one
  may still be carried out (`TokenIsOwners`).
* **page store** – frames, confirmations, read receipts and a history that was
  answered earlier arrive in any order (`MessagesStay`, `MarksAreTrue`; the ticks
  a person sees are part of the latter).
* **pages** – one window shows every conversation in turn, without a key, so
  that its text and its `ackedIds` outlive a change of partner; histories and
  timeouts are never cancelled and find another partner, another layout or no
  page at all. Right means: lists stay apart (`UnderItsPartner`), whatever the
  window shows is acknowledged (`ShownIsAcked`) and nothing else is
  (`ReadMeansShown`), text is not lost (`DraftStays`), what is lit for a while goes
  out (`LitHasTimer`), and a submitted form is answered though its tabs change
  meanwhile (`SubmitIsAnswered`).

`PROJECT.json` lists the hazards line by line.

## Modules and how they correspond to the code

Every atomic step of the code (a critical section, one channel operation, one
statement of the database, one Redis command, one task of the browser) is an
action, and where a function consists of several such steps a program counter
(`pc`, `stage`, `reader`) says how far it is. A definition whose comment begins
with "Mutant" is a faulty variant of the one after it; no specification uses
it.

    HubConstants ── Hub <·········┐ refines           Presence
         └───────── Connection ···┘                   RateLimiter
                    Router <······┐ refines           Groups
                    DirectMessages┘ (and Hub)         ChatDirectory
                    Accounts <─ instance ─ Session    ClientStore
                    ClientSocket <─ EXTENDS ┘ (and refines)
                    LoginForm <─ instance ─ WebApp
                    ChatPage <─── EXTENDS ──┘ (and refines)

| module | what it models |
|---|---|
| `HubConstants` | users, clients, the channel's capacity, and their assumptions |
| `Hub` | the abstract hub: `Register`, `Unregister`, `Push`, `Pop`, `Crash` as atomic steps of `clients`, `buffered`, `closes` |
| `Connection` | the goroutines. `reader` is `ServeWS` followed by `readPump`, `writer` is `writePump`, `call` is a `Hub.Send` between its look-up and its push. A push into a closed channel panics: in the connect hook gin recovers and the connection is "abandoned", elsewhere the process ends (`PushClosed`, `ProcessEnds`). `Dispatch` sends to any user, so that every handler's pushes are covered. |
| `Router` | `OpenSub`/`StoreSub` are `Subscribe`, `TakeSub`/`TakeNothing`/`CloseSub` are `Unsubscribe`; `Confirm`, `LoseRedis` and `Publish` are Redis and go-redis |
| `DirectMessages` | processes × connections × messages: both hooks, `HandleDM`, `HandleAck` (by anybody, for any id, naming anybody or nobody), status updates; contains a hub and a router per process, with real queues of frames, and refines both modules (`H(i)`, `R(i)`) |
| `ChatDirectory` | `FindOrCreateChat`, and the insert or the history query that follows it |
| `Groups` | every statement and every push of the four handlers of `group.go` |
| `RateLimiter` | `INCR` and `EXPIRE NX` as one step (`TxPipeline`), the comparison, expiry by ticks; both ways to fail open: the reply is lost (`LostReply`), or Redis was not reached (`Unreachable`) |
| `Presence` | the key of one user, his connections, heartbeats and hooks, and a page of someone who watches; time in ticks of ten seconds. Answers go to the watcher's newest connection: `reached` says whether that is this page (`Superseded`, `OthersCheck`) |
| `ClientSocket` | the effect of `useWebSocket` with its refs: production runs it once per mount, development (StrictMode) twice |
| `Accounts` | form, repeated request, `Register`, `Login`, users table, strays: requests the page has given up and the server still has |
| `Session` | `Accounts` and `ClientSocket` together, joined by the token |
| `ClientStore` | one conversation of the page with everything that changes its list; the server in so far as the page depends on it |
| `ChatPage` | the chat page with all its conversations: selection, layout, the form of a new chat, the window (text, `ackedIds`, receipts), histories under way, timeouts, logout and reload; the server's rows in so far as histories return them |
| `LoginForm` | tabs, fields, the request under way, the error |
| `WebApp` | `LoginForm` without a token, `ChatPage` with one, and a store that histories and timeouts of a page that is gone still write to |
| `MC…` | values of the constants for TLC |
| `ConnectionProofs` | theorems about `Hub` and `Connection` |
| `RedisKeysProofs` | theorems about the two keys that Redis lets expire: `Presence` and `RateLimiter` |
| `HistoryProofs` | theorems about the two modules that histories are read from and merged by: `ChatDirectory` and `ClientStore` |
| `SessionProofs`, `WebAppProofs` | theorems about `ClientSocket`, `Accounts` and `Session`; about `ChatPage`, `LoginForm` and `WebApp` |
| `RouterProofs`, `DirectMessagesProofs`, `GroupsProofs` | theorems about the module of that name |

Abstractions worth knowing:

* Messages, names, chats are model values or members of small sets. Bodies,
  JSON, logging, time stamps are left out; `stored` keeps the order of rows.
* A client, a connection or a request is used once; reconnecting takes another
  one of the set. (Sockets of `ClientSocket` are reused, so reconnects are
  unlimited there.)
* A database statement that fails without effect and whose error merely ends
  the handler is a no-op and left out; one that succeeds with its reply lost is
  a separate outcome (`InsertLost`, `Fail`, `InsertError`).
* In `Groups` a push is atomic, and in `Presence` the reasons for which a read
  goroutine ends are one action: their steps are in `Connection`.
* `Presence` assumes promptness (`Busy`, `Due`): a hook, a ping under way and a
  presence check take less than ten seconds, a due heartbeat is sent before
  the next tick. A browser that throttles the timers of a hidden tab breaks
  this; the key then expires beside an open page, as it is meant to.
* `ClientStore` keeps the list as a bag: its order, by two clocks, is left out.
* `ClientStore` has one conversation with everything that may happen to it: lost
  frames, client ids, marks, duplicates. `ChatPage` has all conversations, and of
  a message only whether it is in a list and read. `Between` is the server's
  query; what it does when a user is his own partner is in `ChatDirectory`.
* In `ChatPage` a task of the browser is an action, together with the render and
  the effects it causes: `Show` is the effect that acknowledges, and `Open`,
  `Update` contain it.
* `DirectMessages` does not model how a chat is found; `MemberOf[m]` says whose chat
  with the sender holds message `m`. For a message to somebody else that is the
  receiver, for a note to oneself it is anybody else, since `FindOrCreateChat`
  takes any chat the user is in (`ChatDirectory`). `Pending` selects by it, as
  `GetPendingMessages` does (`messages.go:79-86`), so such a note is pushed to the
  other member.
* `RateLimiter` counts every request that passes (`window`, `log`) and apart from
  that those beyond the limit (`extra`, `extraLog`), which pass only because Redis
  failed to refuse them. A request within the limit whose reply is lost is an
  ordinary one.
* `Select` and `Copies` are recursive functions over an interval where the library
  has operators with an operator for an argument (`SelectSeq`, `MapThenSumSet`):
  the provers know nothing of those.
* Counters that only grow are cut where their value no longer matters: `count`
  at `MaxAllowed + 1`, `gone` at `Forgotten`.

## What the runs show

All passing runs are exhaustive. States are distinct states; times are with two
workers.

| run | states | bounds | what it shows |
|---|---|---|---|
| `connection` | 76,909 / 45 s | one user, two logins, one forwarder, `Capacity` 1, `MaxBacklog` 1 | the goroutines implement the hub; older teardowns spare newer logins; whatever is dropped ends |
| `connection_panic` | violated | as above | a `Send` that found its client pushes into the closed channel |
| `router` | 14,831 / 5 s | one user, three overlapping logins, `InboxRoom` 1 | a running connection has an open subscription, and listens again |
| `rate_limiter` | 40,401 / 8 s | two users, `MaxAllowed` 2, `Window` 3, `MaxExtra` 1 | at most the limit per key and twice the limit in any window, beside what Redis failed to refuse; no lock-out |
| `dm_one_process` | 1,725,365 / 139 s | one sender, a receiver who logs in twice and once leaves, a message and a queued note of the sender to himself, `Capacity` 1, `PendingLimit` 2 | no message is left between the push and the fetch; a marked one that is in nobody's hand is never pushed again; of what waits for the receiver only the note was not written to him |
| `dm_two_processes` | 340,535 / 171 s | sender and receiver at different processes, one message, every kind of failure, receipts that name either user (`MaxNamed` 1) | partial failures; who gets a frame; each process's hub and router behave as their modules say |
| `groups` | 231,407 / 13 s | three users, one with two sessions, one not connected; one group, one message, a full channel | the fan-out reaches whoever stayed and nobody who had left |
| `presence` | 386,133 / 13 s | three connections; `Ttl` 3, `Beat` 2 ticks, which are the code's 30 s and 20 s; a watching page that loses and regains its place in the hub | how long the key may be missing or stale, and how long the page shows it |
| `session` | 299,152 / 76 s | two people who want one name, three sockets, `Retries` 2, `LastDelay` 3 | who owns a token; one socket, none after logout; reconnection |
| `client_store` | 795,447 / 41 s | a message of each side, a request at a time, `Room` 2 | marks and merging |
| `page` | 1,070,720 / 65 s | two partners of whom one has written, a message of the user, two histories at a time, one typing chat; `Pushes` 2, `MaxTimers` 2 | the composition of form, page and store: lists, receipts, text, indicators |
| `chat_directory` | 33,004 / 4 s | three users, three calls, three ids | histories and the number of chats |

Why the bounds are enough for what is asked. The hub's and the router's
races need two holders of one map entry and one more goroutine: two logins and a
forwarder for the hub, three logins for the router, where one closes the
subscription of a second while a third stores its own. `Capacity` 1 makes a
channel full as soon as there is anything in it, so that eviction, the
rare case in the code, happens in most behaviours; a larger capacity only
delays it. `NoneStranded` needs a message that is queued and another sent
during the login, and a limit of rows that both fit in (beyond the limit the
code does leave messages behind, see below). The page's races need a second
partner to go to while the first one's history is under way, a second history of
the same partner, a second push of a message that was read already, and a second
timeout of one flag. The fixed window needs a burst
at the end of a key's life and another at the start of the next. `Window` 3
gives both. Two of the runs leave out what their theorems cover: `dm_two_processes`
has one connection per process, so that the logins that overlap at one hub or
one router of the composition are covered by `ComponentsAreImplemented` only
(of a hub and a router alone, by `connection` and `router`); and `MaxExtra` and
`MaxNamed`, which only keep the runs small, are any numbers in the theorems.
All safety properties but one are proved for all values of the
constants, so there the runs only back the proofs: they show that the
properties are not vacuous, and they cover what the proofs do not, liveness.

The constants that bound a run rather than describe the code are `MaxBacklog`,
`Queued`, `Leavers`, `Readers`, `Slow`, `Room`, `Requests`, `Pushes`, `MaxTimers`,
`MaxExtra` (requests that pass beyond the limit in the life of a key), `MaxNamed`
(users whom the acknowledgements of one message name), `Pasted` (what a person types as the id of a new partner), `Retries` (3 in the code),
`LastDelay` (30) and all finite sets of actors. `Failures` selects what may go
wrong; the one-process run of the direct messages excludes failures, since it
asks about interleavings, and the two-process run has all of them.

`CHECK_DEADLOCK FALSE` stands where actors are used up and the system comes
to rest; in `connection`, `router` and `rate_limiter` there is always a step.

Every module's type invariant is a theorem. Three are run as well, because
they say more than types: those of `DirectMessages`, `ChatDirectory` and
`ClientStore` also bound the queues, and say what belongs to an open socket or
to a call that is over.

## Fairness

* `Connection`: weak fairness of each goroutine's own steps, which is what the Go
  scheduler gives. That a broken socket ends a read is the read deadline and
  TCP; that a ping fails on a *closed* socket is the ping ticker. Nothing is
  assumed of peers, frames or new connections.
* `Router`: weak fairness of storing, closing, and of Redis confirming a
  subscription go-redis repeats. A connection need never end.
* `RateLimiter`: time passes (`LimiterTick`).
* `WebApp`: none; its properties are safety properties. That a lit indicator goes
  out is `LitHasTimer` (a timeout is pending) and the browser, which fires it.
* `Session`: React renders, a closed socket reports it, timers fire, and
  *strong* fairness that a socket which is tried again and again with a valid
  token opens once: a server that never answers would make reconnection
  impossible whatever the page does.

## Proofs

TLAPS checks every theorem to the last leaf. Beyond the named assumptions on the
constants nothing is assumed: the "none" values are none of the others,
`Beat < Ttl`, `MaxAllowed \in Nat` and the like; every message has a sender, a
receiver and, in the page, one side; the messages of a conversation are
finitely many; every connection belongs to one user and one process.

What each argument rests on:

* **Hub** (`ConnectionProofs`, first part) – types; an entry is a registered
  client of its user, with an open channel (`CurrentIsOpen`); a client that was
  never registered was never closed (`FreshIsOpen`). `NoDoubleClose` alone is not
  inductive: it does not say why the client found in the map has not been
  closed before.
* **Connection** (second part) – types, and that a reader past its `Unregister`
  is not in the map. `ImplementsHub` maps every action of `Connection` to one of
  `Hub` or to a stutter, and the invariant of `Hub` is carried over
  (`NeverClosedTwice`, `LookupIsOpen`). `NewerSurvives` is an action property.
* **Router** – `StillSubscribed` is not inductive. Counting makes it so:
  `EnoughOpen` says that a user has at least as many open subscriptions as
  connections. It holds since every connection brings one and closes at most
  one, and it needs that what is being closed is closed by nobody else and
  is not in the map (`HeldOnce`), that what is in the map is open (`MapIsOpen`)
  and that nobody touches a subscription that was not stored yet (`Untouched`).
* **Direct messages** – one inductive invariant, `IInv`, carries all
  eight theorems. Its parts: what each goroutine has in hand (`InHand`); a client in a
  hub or in a pending call of `Send` is of its user, its process, and registered
  (`Located`); a frame, a carried frame and a fetched row are about a stored
  message and with the user they concern, a read receipt with a user whom an
  acknowledgement named, which the goroutine of the reader remembers until it
  has sent it (`FramesInv`, which is `FramesFit` and what makes it inductive); a handler comes to its acknowledgement only past a
  push or a publish (`RoutedInv`); before a connection registers or subscribes
  it has left nothing behind (`Untouched`, `SubsLocated`).
  `NoneStranded` needs three more. `RowsInv`: what is pending is in the queue
  of the database, and before it is inserted it has no handler. `HookInv`: a
  connection that caught up is past its fetch, and as long as it is current its
  hook sends into its own channel and marks only what it has pushed.
  `HandlerInv` is the argument itself: a handler whose lookup found another
  client than the current one looked it up before that one registered, so the
  row was inserted before it was fetched, and is pushed or among the rows to
  push. `SettledIsNeverResent` is an action property of the same invariant.
  `EveryHubIsAHub` and `EveryRouterIsARouter` are the two refinements, one
  instance of `Hub` and of `Router` per process, action by action: everything
  else that happens in the system is a stutter of each hub and each router.
  `ComponentsAreImplemented` is both.
* **Rate limiter** – the requests let through in the life of a key are no
  more than its counter and the extras; a counter and its expiry exist together.
  `TwiceBound` is a sum over the last `Window` ticks, which says nothing of keys.
  `TwoKeys` makes it inductive: what passed within the limit since the key began
  is at most the limit, the older rest belongs to the life of one other key,
  and when there is no key nothing of the limit has passed in the current tick. The lemmas about the sums are proved by
  induction over the age.
* **Presence** – key, heartbeats and watcher age together: a key that
  nobody deleted has more life left than the page's next heartbeat is away
  (`KeyOutlivesBeat`); dark ticks are counted by every present page's heartbeat
  clock (`DarkIsBrief`); a key has a writer that will delete it
  (`KeyHasWriter`); what a watching page shows that
  gets the answers is no older than its clock (`ViewIsRecent`, `KeyIsRecent`).
* **Chat directory** – `HistoryIsOfThePair` holds because no chat ever has more
  than two members (`ChatsOfTwo`), a call holds a chat of its own pair
  (`FoundIsTheirs`), and a row's two users are members of its chat
  (`RowsOfMembers`): two different users who are both members are all of them.
  Without "different" it is false, and the code's behaviour is listed below.
  `NoSecondChat` is an action property: only a call past its lookup creates.
* **Client store** – `StoreInv` says that everything that speaks of a message is
  true, wherever it is: entries of the list (`IsTrue`), rows (`RowsTrue`), the
  history that was answered and not yet merged (`FetchTrue`) and the frames in
  both directions (`FramesTrue`). None of what they say is ever taken back
  (`Grows`, `TrueStays`), so that an old history or a late frame is still true when
  it arrives; `MarksAreTrue` alone says nothing of what is under way.
  `NothingDisappears` needs only that a map over the list keeps the messages of
  its entries and that what `Merge` drops is in the history.
* **Groups** – what holds while a handler is between its statements. A
  message that is being fanned out or acknowledged is stored, in the name of the
  session's own user (`Handled`); who is in `todo` was a member after the insert;
  and a member who stayed and is still to be reached is in `todo`, so that an
  acknowledgement finds no steady member unreached. `NobodyRevives`: only an add
  past its check, or a creation, gives an empty group a member.
* **Session**, first part – the socket: only the last run of the effect
  owns a socket that lives, it is the one in the ref, no timer of that run is
  pending beside it, and a socket that is closing belongs to a run that is over.
  The last two parts are what keeps a timer from opening a second socket.
  Second part: every step of `Session` is a step of `ClientSocket` or leaves it
  alone (`UsesTheSocket`), which carries the two socket properties over; and
  `TokensAreOwned`, from `GrantIsOwners`: a grant that is on its way is still true,
  because rows are never overwritten.
* **Web app** – `IInv` of `ChatPage` adds two parts to the properties:
  `AnswersFit`, a history under way holds messages of the pair it was asked for,
  and what it calls read has been acknowledged; `AcksFit`, an acknowledgement
  names the sender of its message. `UsesTheChatPage` carries the invariant to the
  whole app, since every step of `WebApp` is one of `ChatPage` or leaves it alone.

Some of the data are recursive: the rows that a query selects (`Select`), the
requests of the last ticks (`Younger`), the copies of a bag's entries
(`Copies`). The library's induction theorems take a predicate as a parameter and
cannot be applied here. Induction is proved instead of a *set* of numbers
(`SetInduction`, from `NatLeast`, from the well-foundedness of `<` on the
naturals), applied to the set of all numbers for which the statement holds;
that a recursive function exists is proved in the same way (`SumsExist`).

Some properties say less than one would like, because the code does less.
`NoneStranded` cannot count a note to oneself: the query of the connect hook does
not fetch it for its writer (`sender_id != $1`), and the other member of its chat,
who gets it, is not whom `HandleDM` sends it to; `PendingFor` says for whom a row
counts. `FramesFit` excepts the same notes and lets a receipt be with whomever
an acknowledgement named. `WindowBound` and `TwiceBound` set apart what Redis
failed to refuse, and `ShownNoLonger` speaks of a page that gets the answers. What
lies outside is in the list below.

The strengthenings were run by TLC as invariants before they were proved. Only
model-checked are `SendNeverPanics`, which is false, and the liveness properties
(`DroppedConnectionEnds`, `WriterEnds`, `EventuallyListening`,
`LimitedUserReturns`, `Reconnects`): liveness under fairness is out of this
prover's reach.

## Where the code and its documents disagree

One disagreement is a run of its own: **`connection_panic`**. `hub.go:52` says that
`Send` "Returns true if delivered", and `hub_test.go:41-42` that a `Send` to an
unregistered client reports false. `Send` releases the lock before it pushes
(`hub.go:60-61`); the client's `Unregister` in between closes the channel, and the
push panics. In a pump or a forwarder this ends the process.

Others were met while reading and have no run:

* `src/README.md:49`: "status updated to `delivered` immediately on successful local
  hub delivery". The connect hook (`main.go:225-226`) marks the row whatever
  `hub.Send` returned; a hundred rows cannot overflow a channel of 256 that starts
  empty, but frames of other senders arrive meanwhile, and a newer login may have
  replaced the client. Such a message is not pushed again; a page that opens the
  conversation still finds it in the history.
* A receiver who logs in between `hub.Send` and the mark of `HandleDM`
  (`dm.go:58-67`) fetches the row and gets the message twice.
* `LIMIT 100` (`messages.go:86`): the rest of a longer queue waits for the next
  login. `NoneStranded` speaks of connections that fetched all.
* A message that went through Redis is never marked `delivered`, although the
  design (`…p2p-chat-upgrade-design.md:268`) says the other process does it; it is
  pushed again at the next login.
* `UpdateMessageStatus` (`messages.go:130`) overwrites `read` by `delivered`. No
  property finds fault with it: `MarksAreTrue` is a bound from above.
* `HandleAck` (`dm.go:80-110`) marks any row read whose id it is given, without
  asking whether the reader is its receiver, and sends the receipt to whomever
  `sender_id` names, for an id that has no row as well; its comment (`dm.go:96`)
  says "the original sender".
* A note to oneself is stored in a chat with somebody else. If nobody takes it
  at once (`dm.go:58`) it stays `sent`, and the next login of the other member
  fetches it (`messages.go:79-86`).
* The limiter fails open (`limiter.go:28-31`): a request that was counted beyond
  the limit passes if its reply is lost, and all requests pass while Redis is
  out of reach. Nothing bounds their number.
* The answer to a presence check goes to the user, not to the page that asked
  (`main.go:111`). Of two pages of one user on one process only the newer gets
  answers, its own and the other's; the older one may show a user who has gone
  for as long as it is open: nothing closes its socket, since `writePump` goes on
  pinging it and the browser's pongs renew the read deadline.
* The design (`:303`) calls the rate limit a sliding window; it is a fixed one
  (`TwiceBound` is the most it can promise).
* Of two overlapping logins one subscription stays open, with its forwarder,
  for the life of the process (`router.go:44`); frames from other processes
  then arrive twice.
* `FindOrCreateChat` called by two users at once creates two chats, and
  `LIMIT 1` has no order. The test (`messages_test.go:27`) makes the calls one after
  the other. With oneself as the partner the look-up returns any chat one is in.
* A read receipt that overtakes "sent" is dropped by the page; "sent" makes the
  page show `delivered` although it says stored; an acknowledgement made while
  the socket is closed is not repeated.
* `Register` answers "username already taken" to every error, the repetition of
  its own success included (`auth/handler.go:37-41`).
* A page whose token has expired reconnects for ever, silently.
* In development the late `onclose` of the socket StrictMode closed can clear the
  timer of the next one: that page never reconnects (`overtaken`).
* A history that was answered before an acknowledgement was carried out puts
  `delivered` over the page's `read`. The id is in `ackedIds`, so the effect passes
  over it, and the contact's number of unread messages stays until the window is
  left and opened again, although `ChatWindow.tsx:64` marks messages "so unread count
  clears immediately". This is why `ShownIsAcked` says that what counts as
  unread in the open window is in `ackedIds`, and not that nothing does.
* `typing` is persisted with the store, its timeouts are not: an indicator that
  was lit during a reload stays lit until the next typing frame. `LitHasTimer`
  excepts it (`stale`).
* The first timeout of several typing frames puts the indicator out for all of
  them; so does the first timeout of the copy button.
* The text in the window is carried along when another partner is selected
  (`ChatPage.tsx:299` gives the window no key), and is sent to him.
* The store is the browser's, not the account's: whoever logs in next sees the
  lists of the account before (`store.ts:72` says that they stay on purpose),
  and two tabs overwrite each other's lists.
* The design (`:392`) wants contacts by the time of their last message; the page
  lists them in the order in which they entered the store.
* The web page's typing frames lack the fields the server expects, are not
  debounced as the design (`:319`) wants, and the window looks the indicator up
  under the partner's id while frames carry a chat's; the CLI sends no heartbeat and
  goes offline after thirty seconds.

## Not modelled

* **WebRTC relay** – stateless; its two operations are in `Connection` and
  `Router`.
* **typing** (partly) – the page's indicators are in `ChatPage`. The server's side
  is a Redis key nobody reads, and a loop of `hub.Send`: no state.
* **CLI** – one reader goroutine and one prompt that share nothing but the socket.
* **configuration, pool, migrations** – I/O. The schema's keys and checks appear
  where handlers rely on them.
* **dispatcher** (partly) – one frame at a time per connection is in every
  module; the typing and WebRTC cases are left out.
* **history** (partly) – the limit of fifty rows and their order.
* **page store** (partly) – `groups`, `groupMessages`, `activeChatId` and
  `activeChatType`: nothing reads them.
* **pages** – names, avatars, dates, colours, the search among the contacts, the
  scrolling and the buttons for calls, which do nothing.
* Two tabs of one browser over one store.
* Group messages across processes: the code does not publish them, and
  `Groups` has it so.

## Plan

Done first, as the rest stands on it: hub and connections with the refinement
and its proof; router; direct messages as their composition; then groups,
chat directory, limiter, presence, and the page: its socket with the accounts,
one conversation, and all conversations from the login form to the logout. Every
safety property of a passing run is proved.

To come, in this order:

1. *Refine.* An abstract mailbox (sent, then reached or pending, never lost)
   that `DirectMessages` implements for one process; its `NoneStranded` would
   become that module's invariant. `ClientStore` as what `ChatPage` says of one
   conversation.
2. *Prove.* These refinements; and that a connection of `Connection` meets what
   `DirectMessages` takes for granted of it (it registers once, its hook comes
   before its pumps, its teardown is the last thing it does).
3. *Model.* The order of the page's lists; the history's limit and paging; two
   tabs over one store; WebRTC and typing frames as audiences of `RightAudience`.
