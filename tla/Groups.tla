------------------------------- MODULE Groups -------------------------------
(***************************************************************************)
(* Group membership and group messages: server/chat/group.go over          *)
(* server/db/groups.go, for any number of sessions (WebSocket connections) *)
(* and server processes.                                                   *)
(*                                                                         *)
(* A handler is a row of database statements and pushes executed by the    *)
(* read goroutine of its session; every statement and every push is an     *)
(* action, so that handlers of other sessions (another member's, or the    *)
(* same user's older connection) come in between.  pc[s]:                  *)
(*   new -> idle -> over           connect, disconnect                     *)
(*   insert, list, send, ack       HandleGroupMessage                      *)
(*   join, reply                   HandleAddMember, and every other reply  *)
(* A push is atomic here: that Hub.Send is two steps, and what may happen  *)
(* between them, is the subject of module Connection.                      *)
(***************************************************************************)
EXTENDS Naturals

CONSTANTS
    Users, Instances, Sessions,
    UserOf, InstanceOf,     \* the user and the process of a session
    Groups,                 \* group names; a name is unique, so it is the id
    Messages,               \* the group messages that will be sent, each once
    Slow,                   \* sessions whose channel may be full (bound)
    Failures,               \* {"db"} if statements may fail, else {}
    NoUser, NoSession, NoRow, NoArgs

ASSUME SessionsAssumption ==
    /\ UserOf \in [Sessions -> Users] /\ InstanceOf \in [Sessions -> Instances]
    /\ Slow \subseteq Sessions
ASSUME NonesAssumption ==
    /\ NoUser \notin Users /\ NoSession \notin Sessions
    /\ NoRow \notin [group : Groups, from : Users, at : Instances]

VARIABLES
    creator,    \* groups.created_by, NoUser if there is no such group
    role,       \* group_members.role, "none" if there is no such row
    stored,     \* group_messages: the row of a message, or NoRow
    hub,        \* Hub.clients of every process
    pc, args,   \* where the goroutine of a session is, and what it handles
    todo,       \* members its fan-out has still to push to
    heard,      \* <<m, u>>: message m was pushed to a session of user u
    acked,      \* messages whose sender was told "group_sent"
    past,       \* history: who was a member since the message was stored
    steady      \* history: who was a member and connected all that time

dbVars == <<creator, role, stored>>
outVars == <<heard, acked>>
vars == <<dbVars, hub, pc, args, todo, outVars, past, steady>>

Row == [group : Groups, from : Users, at : Instances]
Args == [group : Groups, msg : Messages] \union [group : Groups, user : Users]

IsMember(g, u) == role[g][u] # "none"
Members(g) == {u \in Users : IsMember(g, u)}

TypeOK ==
    /\ creator \in [Groups -> Users \union {NoUser}]
    /\ role \in [Groups -> [Users -> {"none", "member", "admin"}]]
    /\ stored \in [Messages -> Row \union {NoRow}]
    /\ hub \in [Instances -> [Users -> Sessions \union {NoSession}]]
    /\ pc \in [Sessions -> {"new", "idle", "insert", "list", "send", "ack",
                            "join", "reply", "over"}]
    /\ args \in [Sessions -> Args \union {NoArgs}]
    /\ todo \in [Sessions -> SUBSET Users]
    /\ heard \subseteq Messages \X Users
    /\ acked \subseteq Messages
    /\ past \in [Messages -> SUBSET Users]
    /\ steady \in [Messages -> SUBSET Users]

Init ==
    /\ creator = [g \in Groups |-> NoUser]
    /\ role = [g \in Groups |-> [u \in Users |-> "none"]]
    /\ stored = [m \in Messages |-> NoRow]
    /\ hub = [i \in Instances |-> [u \in Users |-> NoSession]]
    /\ pc = [s \in Sessions |-> "new"]
    /\ args = [s \in Sessions |-> NoArgs]
    /\ todo = [s \in Sessions |-> {}]
    /\ heard = {} /\ acked = {}
    /\ past = [m \in Messages |-> {}]
    /\ steady = [m \in Messages |-> {}]

Goto(s, label) == pc' = [pc EXCEPT ![s] = label]

Idle(s) == pc[s] = "idle"

(* The handler is over, with or without a reply to its own user.           *)
Finish(s) == Goto(s, "idle") /\ args' = [args EXCEPT ![s] = NoArgs]

-----------------------------------------------------------------------------
(* Connections, as in module Hub.                                          *)
Connect(s) ==
    /\ pc[s] = "new"
    /\ hub' = [hub EXCEPT ![InstanceOf[s]][UserOf[s]] = s]
    /\ Goto(s, "idle")
    /\ UNCHANGED <<dbVars, args, todo, outVars>>

Unregister(s) ==
    hub' = IF hub[InstanceOf[s]][UserOf[s]] = s
           THEN [hub EXCEPT ![InstanceOf[s]][UserOf[s]] = NoSession]
           ELSE hub

Disconnect(s) ==
    /\ Idle(s)
    /\ Unregister(s)
    /\ Goto(s, "over")
    /\ UNCHANGED <<dbVars, args, todo, outVars>>

Target(s, u) == hub[InstanceOf[s]][u]

(* hub.Send to a user who is pushed to, or dropped: the channel was full.  *)
Pushed(s, u) == Target(s, u) # NoSession /\ UNCHANGED hub
Dropped(s, u) == Target(s, u) \in Slow /\ Unregister(Target(s, u))
Absent(s, u) == Target(s, u) = NoSession /\ UNCHANGED hub

-----------------------------------------------------------------------------
(* HandleCreateGroup: one transaction, which a name in use fails.          *)
Create(s, g) ==
    /\ Idle(s)
    /\ creator[g] = NoUser
    /\ creator' = [creator EXCEPT ![g] = UserOf[s]]
    /\ role' = [role EXCEPT ![g][UserOf[s]] = "admin"]
    /\ \/ Goto(s, "reply")
       \/ "db" \in Failures /\ UNCHANGED pc     \* the reply to COMMIT is lost
    /\ UNCHANGED <<stored, hub, args, todo, outVars>>

(* "group name already taken", "not a member", "you are not a member".     *)
Refuse(s, g) ==
    /\ Idle(s)
    /\ creator[g] # NoUser \/ ~IsMember(g, UserOf[s])
    /\ Goto(s, "reply")
    /\ UNCHANGED <<dbVars, hub, args, todo, outVars>>

(* Mutant of Add: nobody asks whether the adder is a member.               *)
AddUnchecked(s, g, u) ==
    /\ Idle(s)
    /\ creator[g] # NoUser
    /\ args' = [args EXCEPT ![s] = [group |-> g, user |-> u]]
    /\ Goto(s, "join")
    /\ UNCHANGED <<dbVars, hub, todo, outVars>>

(* HandleAddMember: the adder is checked, and the row inserted afterwards. *)
Add(s, g, u) ==
    /\ Idle(s)
    /\ IsMember(g, UserOf[s])
    /\ args' = [args EXCEPT ![s] = [group |-> g, user |-> u]]
    /\ Goto(s, "join")
    /\ UNCHANGED <<dbVars, hub, todo, outVars>>

(* ON CONFLICT DO NOTHING: a member keeps the role there is.               *)
Join(s) ==
    /\ pc[s] = "join"
    /\ LET g == args[s].group
           u == args[s].user
       IN  \/ role' = IF IsMember(g, u) THEN role
                      ELSE [role EXCEPT ![g][u] = "member"]
           \/ "db" \in Failures /\ UNCHANGED role
    /\ Goto(s, "reply")
    /\ args' = [args EXCEPT ![s] = NoArgs]
    /\ UNCHANGED <<creator, stored, hub, todo, outVars>>

(* HandleLeaveGroup: one DELETE; whoever leaves last leaves the group and  *)
(* its name behind.                                                        *)
Quit(s, g) ==
    /\ Idle(s)
    /\ IsMember(g, UserOf[s])
    /\ role' = [role EXCEPT ![g][UserOf[s]] = "none"]
    /\ \/ Goto(s, "reply")
       \/ "db" \in Failures /\ UNCHANGED pc
    /\ UNCHANGED <<creator, stored, hub, args, todo, outVars>>

(* The reply to the user of the session: whatever the handler had to say.  *)
Reply(s) ==
    /\ pc[s] = "reply"
    /\ Pushed(s, UserOf[s]) \/ Dropped(s, UserOf[s]) \/ Absent(s, UserOf[s])
    /\ Goto(s, "idle")
    /\ UNCHANGED <<dbVars, args, todo, outVars>>

-----------------------------------------------------------------------------
Handles(s, m) == pc[s] \in {"insert", "list", "send", "ack"} /\ args[s].msg = m

(* HandleGroupMessage: check, insert, list the members, push, acknowledge. *)
Check(s, g, m) ==
    /\ Idle(s)
    /\ stored[m] = NoRow /\ \A t \in Sessions : ~Handles(t, m)
    /\ IsMember(g, UserOf[s])
    /\ args' = [args EXCEPT ![s] = [group |-> g, msg |-> m]]
    /\ Goto(s, "insert")
    /\ UNCHANGED <<dbVars, hub, todo, outVars>>

Insert(s) ==
    /\ pc[s] = "insert"
    /\ stored' = [stored EXCEPT ![args[s].msg] =
                    [group |-> args[s].group, from |-> UserOf[s], at |-> InstanceOf[s]]]
    /\ Goto(s, "list")
    /\ UNCHANGED <<creator, role, hub, args, todo, outVars>>

(* A statement fails, the insert with or without effect: nobody is told.   *)
InsertError(s) ==
    /\ "db" \in Failures
    /\ pc[s] = "insert"
    /\ \/ stored' = [stored EXCEPT ![args[s].msg] =
                        [group |-> args[s].group, from |-> UserOf[s], at |-> InstanceOf[s]]]
       \/ UNCHANGED stored
    /\ Finish(s)
    /\ UNCHANGED <<creator, role, hub, todo, outVars>>

ListError(s) ==
    /\ "db" \in Failures
    /\ pc[s] = "list"
    /\ Finish(s)
    /\ UNCHANGED <<dbVars, hub, todo, outVars>>

(* Mutant of List: the query has lost its WHERE clause.                    *)
ListEveryone(s) ==
    /\ pc[s] = "list"
    /\ todo' = [todo EXCEPT ![s] = Users \ {UserOf[s]}]
    /\ Goto(s, "send")
    /\ UNCHANGED <<dbVars, hub, args, outVars>>

List(s) ==
    /\ pc[s] = "list"
    /\ todo' = [todo EXCEPT ![s] = Members(args[s].group) \ {UserOf[s]}]
    /\ Goto(s, "send")
    /\ UNCHANGED <<dbVars, hub, args, outVars>>

(* Mutant of Skip: the fan-out ends at the first member who is absent.     *)
SkipRest(s, u) ==
    /\ pc[s] = "send" /\ u \in todo[s]
    /\ Absent(s, u)
    /\ todo' = [todo EXCEPT ![s] = {}]
    /\ UNCHANGED <<dbVars, pc, args, outVars>>

(* The result of a push is ignored: a member who is absent from this       *)
(* process, or whose channel is full, is passed over.                      *)
Skip(s, u) ==
    /\ pc[s] = "send" /\ u \in todo[s]
    /\ Absent(s, u) \/ Dropped(s, u)
    /\ todo' = [todo EXCEPT ![s] = @ \ {u}]
    /\ UNCHANGED <<dbVars, pc, args, outVars>>

Tell(s, u) ==
    /\ pc[s] = "send" /\ u \in todo[s]
    /\ Pushed(s, u)
    /\ heard' = heard \union {<<args[s].msg, u>>}
    /\ todo' = [todo EXCEPT ![s] = @ \ {u}]
    /\ UNCHANGED <<dbVars, pc, args, acked>>

FanOutDone(s) ==
    /\ pc[s] = "send" /\ todo[s] = {}
    /\ Goto(s, "ack")
    /\ UNCHANGED <<dbVars, hub, args, todo, outVars>>

Ack(s) ==
    /\ pc[s] = "ack"
    /\ \/ Pushed(s, UserOf[s]) /\ acked' = acked \union {args[s].msg}
       \/ (Dropped(s, UserOf[s]) \/ Absent(s, UserOf[s])) /\ UNCHANGED acked
    /\ Finish(s)
    /\ UNCHANGED <<dbVars, todo, heard>>

-----------------------------------------------------------------------------
Step ==
    \E s \in Sessions :
        \/ Connect(s) \/ Disconnect(s)
        \/ \E g \in Groups :
              \/ Create(s, g) \/ Refuse(s, g) \/ Quit(s, g)
              \/ \E u \in Users : Add(s, g, u)
              \/ \E m \in Messages : Check(s, g, m)
        \/ Join(s) \/ Reply(s)
        \/ Insert(s) \/ InsertError(s) \/ List(s) \/ ListError(s)
        \/ \E u \in Users : Skip(s, u) \/ Tell(s, u)
        \/ FanOutDone(s) \/ Ack(s)

MembersNext(g) == {u \in Users : role'[g][u] # "none"}

(* The history variables follow the rows and the hubs.                     *)
Remember ==
    /\ past' = [m \in Messages |->
                  IF stored'[m] = NoRow THEN {}
                  ELSE past[m] \union MembersNext(stored'[m].group)]
    /\ steady' = [m \in Messages |->
                    IF stored'[m] = NoRow THEN {}
                    ELSE {u \in MembersNext(stored'[m].group) :
                            /\ hub'[stored'[m].at][u] # NoSession
                            /\ stored[m] = NoRow \/ u \in steady[m]}]

Next == Step /\ Remember

Spec == Init /\ [][Next]_vars

-----------------------------------------------------------------------------
(* Who had left when a message was stored never hears it, nor does its     *)
(* sender: the list of members is read after the insert (group.go:42-64).  *)
DepartedHearNothing ==
    \A m \in Messages, u \in Users :
        <<m, u>> \in heard => u \in past[m] \ {stored[m].from}

(* "group_sent" means that every other member who belonged to the group    *)
(* and was connected to the sender's process all the time has the message, *)
(* whoever joined, left, was dropped or reconnected meanwhile              *)
(* (group.go:57-73).                                                       *)
AckedReachedSteady ==
    \A m \in acked : \A u \in steady[m] \ {stored[m].from} : <<m, u>> \in heard

Dead(g) ==
    /\ creator[g] # NoUser /\ Members(g) = {}
    /\ \A s \in Sessions : pc[s] = "join" => args[s].group # g

(* A group whose last member has left is dead, name and all: nobody can    *)
(* join it or create it again; only an add that was past its check when    *)
(* the last member left can bring it back (group.go:124-136).              *)
DeadGroupsStayDead == [][\A g \in Groups : Dead(g) => Dead(g)']_vars

-----------------------------------------------------------------------------
(* Why these hold: the hubs know sessions of their own; a session handles  *)
(* what its place says, a message is handled by one session, which has     *)
(* stored it for its own user; members are remembered; and whoever was     *)
(* there all the time is on the session's list until he was pushed to.     *)
HubsFit ==
    \A i \in Instances, u \in Users :
        hub[i][u] # NoSession => InstanceOf[hub[i][u]] = i /\ UserOf[hub[i][u]] = u

ArgsFit ==
    \A s \in Sessions :
        /\ pc[s] = "join" => args[s] \in [group : Groups, user : Users]
        /\ pc[s] \in {"insert", "list", "send", "ack"} =>
              args[s] \in [group : Groups, msg : Messages]

OneHandler ==
    \A m \in Messages, s, t \in Sessions : Handles(s, m) /\ Handles(t, m) => s = t

HandledIsStored ==
    \A s \in Sessions :
        /\ pc[s] = "insert" => stored[args[s].msg] = NoRow
        /\ pc[s] \in {"list", "send", "ack"} =>
              stored[args[s].msg] =
                  [group |-> args[s].group, from |-> UserOf[s], at |-> InstanceOf[s]]

MembersAreRemembered ==
    \A m \in Messages :
        IF stored[m] = NoRow THEN past[m] = {} /\ steady[m] = {} /\ m \notin acked
        ELSE /\ Members(stored[m].group) \subseteq past[m]
             /\ \A u \in steady[m] :
                   u \in Members(stored[m].group) /\ hub[stored[m].at][u] # NoSession

ListIsOfMembers ==
    \A s \in Sessions : pc[s] = "send" => todo[s] \subseteq past[args[s].msg] \ {UserOf[s]}

ListHasTheSteady ==
    \A s \in Sessions, m \in Messages :
        pc[s] \in {"send", "ack"} /\ args[s].msg = m =>
            \A u \in steady[m] \ {UserOf[s]} :
                <<m, u>> \in heard \/ (pc[s] = "send" /\ u \in todo[s])

IInv ==
    /\ TypeOK /\ HubsFit /\ ArgsFit /\ OneHandler /\ HandledIsStored
    /\ MembersAreRemembered /\ ListIsOfMembers /\ ListHasTheSteady
    /\ DepartedHearNothing /\ AckedReachedSteady
=============================================================================
