------------------------------ MODULE Accounts ------------------------------
(***************************************************************************)
(* Registration and login: the form of the page (LoginForm.tsx), the       *)
(* request that is repeated after a timeout (api.ts), the two handlers     *)
(* (server/auth), and the users table with its unique names.               *)
(*                                                                         *)
(* A page stands for the person at it, who has a password of his own: the  *)
(* row of a name is known by the person whose password it holds.  Hashing, *)
(* signing and validation of the fields are left out, they decide nothing  *)
(* here but that a request may fail.                                       *)
(*                                                                         *)
(* A request that the page has given up is a stray: the server may have    *)
(* it still, and may carry it out while the page asks again.               *)
(***************************************************************************)
EXTENDS Naturals

CONSTANTS
    Pages, Names, Nobody,
    Retries         \* attempts of fetchWithRetry

VARIABLES
    users,          \* name -> the person whose row it is, or Nobody
    form,           \* page -> what its request is, how often and how far
    strays,         \* <<person, name>> of registrations given up
    token,          \* page -> the name its token is for, or Nobody
    expired         \* pages whose token is older than seven days

Stages == {"idle", "asked", "granted", "refused", "pause"}

AccountsTypeOK ==
    /\ users \in [Names -> Pages \union {Nobody}]
    /\ form \in [Pages -> [mode : {"login", "register"}, name : Names,
                           try : 1..Retries, at : Stages]]
    /\ \A p \in Pages : form[p].at = "pause" => form[p].try < Retries
    /\ strays \subseteq Pages \X Names
    /\ token \in [Pages -> Names \union {Nobody}]
    /\ expired \subseteq {p \in Pages : token[p] # Nobody}

AccountsInit ==
    /\ users = [n \in Names |-> Nobody]
    /\ form \in [Pages -> {[mode |-> "login", name |-> n, try |-> 1, at |-> "idle"] : n \in Names}]
    /\ strays = {}
    /\ token = [p \in Pages |-> Nobody]
    /\ expired = {}

Goes(p, at) == form' = [form EXCEPT ![p].at = at]

-----------------------------------------------------------------------------
(* handleSubmit: the form has no token, and no request under way, which    *)
(* disables its button.  The mode is the one at the time of the click.     *)
Submit(p, mode, n) ==
    /\ token[p] = Nobody /\ form[p].at = "idle"
    /\ form' = [form EXCEPT ![p] = [mode |-> mode, name |-> n, try |-> 1, at |-> "asked"]]
    /\ UNCHANGED <<users, strays, token, expired>>

(* Mutant of CreateUser: a registration that is repeated takes the row     *)
(* over, so that the retry of a lost answer succeeds.                      *)
CreateOrReplace(p, n, stored, told) ==
    /\ told => stored
    /\ users' = [users EXCEPT ![n] = IF stored THEN p ELSE @]

(* INSERT INTO users: the name is taken, the row is stored, or the         *)
(* database fails before or after it has stored it.                        *)
CreateUser(p, n, stored, told) ==
    /\ stored => users[n] = Nobody
    /\ told => stored
    /\ users' = [users EXCEPT ![n] = IF stored THEN p ELSE @]

(* Register: whatever CreateUser fails with is answered by 409.            *)
Register(p) ==
    /\ form[p].at = "asked" /\ form[p].mode = "register"
    /\ \E stored, told \in BOOLEAN :
          /\ CreateUser(p, form[p].name, stored, told)
          /\ Goes(p, IF told THEN "granted" ELSE "refused")
    /\ UNCHANGED <<strays, token, expired>>

(* Login: the row of the name and its password, or a database that fails.  *)
Login(p) ==
    /\ form[p].at = "asked" /\ form[p].mode = "login"
    /\ \E granted \in BOOLEAN :
          /\ granted => users[form[p].name] = p
          /\ Goes(p, IF granted THEN "granted" ELSE "refused")
    /\ UNCHANGED <<users, strays, token, expired>>

(* The answer reaches the page: setAuth, or the error is shown.            *)
Answered(p) ==
    /\ form[p].at \in {"granted", "refused"}
    /\ Goes(p, "idle")
    /\ token' = [token EXCEPT ![p] = IF form[p].at = "granted" THEN form[p].name ELSE @]
    /\ UNCHANGED <<users, strays, expired>>

(* No answer within fifteen seconds, or none at all: the page gives the    *)
(* request up, and the last attempt ends in "Server is waking up".         *)
TimedOut(p) ==
    /\ form[p].at \in {"asked", "granted", "refused"}
    /\ Goes(p, IF form[p].try < Retries THEN "pause" ELSE "idle")
    /\ strays' = IF form[p].at = "asked" /\ form[p].mode = "register"
                 THEN strays \union {<<p, form[p].name>>} ELSE strays
    /\ UNCHANGED <<users, token, expired>>

(* Two seconds later it asks again.                                        *)
AskAgain(p) ==
    /\ form[p].at = "pause"
    /\ form' = [form EXCEPT ![p].at = "asked", ![p].try = @ + 1]
    /\ UNCHANGED <<users, strays, token, expired>>

(* A stray is carried out late, or lost on its way.                        *)
Stray(p, n) ==
    /\ <<p, n>> \in strays
    /\ strays' = strays \ {<<p, n>>}
    /\ \E stored \in BOOLEAN : CreateUser(p, n, stored, FALSE)
    /\ UNCHANGED <<form, token, expired>>

Expire(p) ==
    /\ token[p] # Nobody /\ p \notin expired
    /\ expired' = expired \union {p}
    /\ UNCHANGED <<users, form, strays, token>>

(* clearAuth                                                               *)
Logout(p) ==
    /\ token[p] # Nobody
    /\ token' = [token EXCEPT ![p] = Nobody]
    /\ expired' = expired \ {p}
    /\ UNCHANGED <<users, form, strays>>

(* JWTAuth lets a request of the page through.                             *)
Authorised(p) == token[p] # Nobody /\ p \notin expired

-----------------------------------------------------------------------------
(* Whoever is logged in under a name is the person who has registered it,  *)
(* though registrations of a name race, are repeated after a timeout and   *)
(* take effect when their page has given them up (api.ts:9-20): no answer  *)
(* that came too late, and no stray, has changed the row since.            *)
TokenIsOwners == \A p \in Pages : token[p] # Nobody => users[token[p]] = p

(* Why it holds: what the server has granted is true when it is granted,   *)
(* and a row that is there stays as it is.                                 *)
GrantIsOwners ==
    \A p \in Pages : form[p].at = "granted" => users[form[p].name] = p
=============================================================================
