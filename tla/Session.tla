------------------------------ MODULE Session -------------------------------
(***************************************************************************)
(* One page from its login form to its logout: Accounts, among the other   *)
(* pages, and the socket that ClientSocket keeps for as long as the page   *)
(* has a token (App.tsx:5-8).                                              *)
(*                                                                         *)
(* The two meet in the token.  It mounts the chat page; JWTAuth looks at   *)
(* it when a socket is opened, and only then; and nothing tells a page     *)
(* that its token has expired.  What the page does after its logout is the *)
(* same again with new refs, and is left out.                              *)
(***************************************************************************)
EXTENDS ClientSocket

CONSTANTS Pages, Me, Names, Nobody, Retries

ASSUME MeAssumption == Me \in Pages /\ Nobody \notin Pages \union Names
ASSUME RetriesAssumption == Retries \in Nat \ {0}

VARIABLES users, form, strays, token, expired

A == INSTANCE Accounts

accounts == <<users, form, strays, token, expired>>
sessionVars == <<vars, accounts>>

SessionTypeOK == TypeOK /\ A!AccountsTypeOK

SessionInit == Init /\ A!AccountsInit

-----------------------------------------------------------------------------
(* Steps of the page's socket.                                             *)
ShowChat(s, t) == token[Me] # Nobody /\ Mount(s, t) /\ UNCHANGED accounts
Upgraded(s) == A!Authorised(Me) /\ Opened(s) /\ UNCHANGED accounts
Dropped(s) == Closed(s) /\ UNCHANGED accounts
Tried(s, t) == Fire(s, t) /\ UNCHANGED accounts
Leave == A!Logout(Me) /\ Unmount

(* Steps of a form and of the server.                                      *)
Asks(p) ==
    /\ p = Me => page = "login"
    /\ \E mode \in {"login", "register"}, n \in Names : A!Submit(p, mode, n)
    /\ UNCHANGED vars

Account(p) ==
    /\ \/ A!Register(p) \/ A!Login(p) \/ A!Answered(p)
       \/ A!TimedOut(p) \/ A!AskAgain(p)
       \/ p = Me /\ A!Expire(p)
       \/ \E n \in Names : A!Stray(p, n)
       \/ p # Me /\ A!Logout(p)
    /\ UNCHANGED vars

SessionNext ==
    \/ \E s, t \in Sockets : ShowChat(s, t) \/ Tried(s, t)
    \/ \E s \in Sockets : Upgraded(s) \/ Dropped(s)
    \/ Leave
    \/ \E p \in Pages : Asks(p) \/ Account(p)

SessionSpec == SessionInit /\ [][SessionNext]_sessionVars

(* The page renders what the store says; a socket that is asked for is     *)
(* opened or fails, one that is closed says so, timers fire, and a server  *)
(* that is tried for ever answers once.                                    *)
Fairness ==
    /\ WF_sessionVars(\E s, t \in Sockets : ShowChat(s, t))
    /\ \A s \in Sockets :
          /\ SF_sessionVars(Upgraded(s))
          /\ WF_sessionVars(sock[s] # "open" /\ Dropped(s))
          /\ WF_sessionVars(Tried(s, s))

FairSession == SessionSpec /\ Fairness

-----------------------------------------------------------------------------
(* Whoever is logged in under a name is the person who has registered it,  *)
(* though registrations of a name race and are repeated (Accounts).        *)
TokenIsOwners == A!TokenIsOwners

(* A page that has a token gets a socket, and again after every loss,      *)
(* until it logs out; unless the token has expired, which the page does    *)
(* not notice, or, in development, the socket that StrictMode closed at    *)
(* the mount has reported its end after a later one: its onclose clears    *)
(* the timer of the other (useWebSocket.ts:132-138).                       *)
Reconnects ==
    token[Me] # Nobody ~> \/ page = "left" \/ Me \in expired
                          \/ effects = 2 /\ overtaken
                          \/ \E s \in Sockets : sock[s] = "open"
=============================================================================
