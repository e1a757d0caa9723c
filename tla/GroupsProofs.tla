---------------------------- MODULE GroupsProofs ----------------------------
(***************************************************************************)
(* Theorems about groups, for any number of users, processes, sessions,    *)
(* groups and messages, with and without failures of the database.         *)
(***************************************************************************)
EXTENDS Groups, TLAPS

Handling == {"insert", "list", "send", "ack"}
Stages == {"new", "idle", "insert", "list", "send", "ack", "join", "reply", "over"}

RolesFit == role \in [Groups -> [Users -> {"none", "member", "admin"}]]
HubsTyped == hub \in [Instances -> [Users -> Sessions \union {NoSession}]]

(* A row of group_messages stays as it is.                                 *)
RowsStay == \A m \in Messages : stored[m] # NoRow => stored'[m] = stored[m]

(* The history variables keep their types and what they stand for: past    *)
(* grows, steady shrinks, and whoever is in it was there in this step too. *)
LEMMA HistoryKeeps ==
    ASSUME IInv, Remember, RowsStay, stored' \in [Messages -> Row \union {NoRow}],
           \A m \in acked' : m \in acked \/ stored[m] # NoRow
    PROVE  /\ past' \in [Messages -> SUBSET Users] /\ steady' \in [Messages -> SUBSET Users]
           /\ MembersAreRemembered'
           /\ \A m \in Messages : stored[m] # NoRow =>
                 past[m] \subseteq past'[m] /\ steady'[m] \subseteq steady[m]
           /\ \A m \in Messages, u \in Users : u \in steady'[m] =>
                 hub'[stored'[m].at][u] # NoSession
<1>1. past \in [Messages -> SUBSET Users] /\ steady \in [Messages -> SUBSET Users]
  BY DEF IInv, TypeOK
<1>2. \A g \in Groups : MembersNext(g) \subseteq Users /\ MembersNext(g) = Members(g)'
  BY DEF MembersNext, Members, IsMember
<1>3. \A m \in Messages : stored'[m] # NoRow => stored'[m].group \in Groups
  BY DEF Row
<1>4. \A m \in Messages :
         /\ past'[m] = IF stored'[m] = NoRow THEN {}
                       ELSE past[m] \union MembersNext(stored'[m].group)
         /\ steady'[m] = IF stored'[m] = NoRow THEN {}
                         ELSE {u \in MembersNext(stored'[m].group) :
                                 /\ hub'[stored'[m].at][u] # NoSession
                                 /\ stored[m] = NoRow \/ u \in steady[m]}
  BY DEF Remember
<1>5. past' \in [Messages -> SUBSET Users]
  BY <1>1, <1>2, <1>3, <1>4 DEF Remember
<1>6. steady' \in [Messages -> SUBSET Users]
  BY <1>1, <1>2, <1>3, <1>4 DEF Remember
<1>7. \A m \in Messages : stored'[m] = NoRow => stored[m] = NoRow /\ m \notin acked'
  BY NonesAssumption DEF IInv, MembersAreRemembered, RowsStay
<1>8. MembersAreRemembered'
  BY <1>3, <1>4, <1>7 DEF MembersAreRemembered, Members, IsMember, MembersNext
<1>9. \A m \in Messages : stored[m] # NoRow =>
         past[m] \subseteq past'[m] /\ steady'[m] \subseteq steady[m]
  BY <1>4 DEF RowsStay
<1> QED
  BY <1>4, <1>5, <1>6, <1>8, <1>9

(* What was heard was heard by a member, and what was acknowledged reached *)
(* whoever is still steady.                                                *)
LEMMA OutcomesKeep ==
    ASSUME IInv, Remember, RowsStay, stored' \in [Messages -> Row \union {NoRow}],
           UNCHANGED <<heard, acked>>
    PROVE  DepartedHearNothing' /\ AckedReachedSteady'
<1>1. \A m \in acked' : m \in acked \/ stored[m] # NoRow
  OBVIOUS
<1>2. \A m \in Messages : stored[m] # NoRow =>
         past[m] \subseteq past'[m] /\ steady'[m] \subseteq steady[m]
  BY <1>1, HistoryKeeps
<1>3. \A m \in Messages, u \in Users : <<m, u>> \in heard => stored[m] # NoRow
  BY DEF IInv, DepartedHearNothing, MembersAreRemembered
<1>4. \A m \in acked : m \in Messages /\ stored[m] # NoRow
  BY DEF IInv, TypeOK, MembersAreRemembered
<1>5. DepartedHearNothing'
  BY <1>2, <1>3 DEF IInv, DepartedHearNothing, RowsStay
<1>6. AckedReachedSteady'
  BY <1>2, <1>4 DEF IInv, AckedReachedSteady, RowsStay
<1> QED
  BY <1>5, <1>6

(* What a session handles is stored, for its own user.                     *)
LEMMA Handled ==
    ASSUME IInv, NEW s \in Sessions, pc[s] \in {"list", "send", "ack"}
    PROVE  /\ args[s] \in [group : Groups, msg : Messages]
           /\ args[s].group \in Groups /\ args[s].msg \in Messages
           /\ stored[args[s].msg] # NoRow
           /\ stored[args[s].msg].group = args[s].group
           /\ stored[args[s].msg].from = UserOf[s]
           /\ stored[args[s].msg].at = InstanceOf[s]
<1>1. args[s] \in [group : Groups, msg : Messages]
  BY DEF IInv, ArgsFit
<1>2. [group |-> args[s].group, from |-> UserOf[s], at |-> InstanceOf[s]]
         \in [group : Groups, from : Users, at : Instances]
  BY <1>1, SessionsAssumption
<1>3. stored[args[s].msg] =
         [group |-> args[s].group, from |-> UserOf[s], at |-> InstanceOf[s]]
  BY DEF IInv, HandledIsStored
<1> QED
  BY <1>1, <1>2, <1>3, NonesAssumption

(* A step of a session that handles no message afterwards, and pushes and  *)
(* stores none, keeps everything.                                          *)
LEMMA QuietKeeps ==
    ASSUME IInv, Remember, NEW s \in Sessions,
           UNCHANGED <<stored, todo, heard, acked>>,
           creator' \in [Groups -> Users \union {NoUser}],
           RolesFit', HubsTyped', HubsFit',
           pc' \in [Sessions -> Stages],
           args' \in [Sessions -> Args \union {NoArgs}],
           \A t \in Sessions \ {s} : pc'[t] = pc[t] /\ args'[t] = args[t],
           pc'[s] \notin Handling,
           pc'[s] = "join" => args'[s] \in [group : Groups, user : Users]
    PROVE  IInv'
<1>1. RowsStay /\ stored' \in [Messages -> Row \union {NoRow}]
  BY DEF IInv, TypeOK, RowsStay
<1>2. /\ past' \in [Messages -> SUBSET Users] /\ steady' \in [Messages -> SUBSET Users]
      /\ MembersAreRemembered'
      /\ \A m \in Messages : stored[m] # NoRow =>
            past[m] \subseteq past'[m] /\ steady'[m] \subseteq steady[m]
  BY <1>1, HistoryKeeps
<1>3. DepartedHearNothing' /\ AckedReachedSteady'
  BY <1>1, OutcomesKeep
<1>4. TypeOK'
  BY <1>2 DEF IInv, TypeOK, RolesFit, HubsTyped, Stages, Row
<1>5. ArgsFit' /\ OneHandler' /\ HandledIsStored'
  BY DEF IInv, ArgsFit, OneHandler, HandledIsStored, Handles, Handling
<1>6. \A t \in Sessions : pc'[t] \in {"send", "ack"} =>
         /\ pc[t] = pc'[t] /\ args[t] = args'[t]
         /\ args[t].msg \in Messages /\ stored[args[t].msg] # NoRow
  BY Handled DEF Handling
<1>7. ListIsOfMembers' /\ ListHasTheSteady'
  BY <1>2, <1>6 DEF IInv, ListIsOfMembers, ListHasTheSteady
<1> QED
  BY <1>2, <1>3, <1>4, <1>5, <1>7 DEF IInv

-----------------------------------------------------------------------------
(* Whatever a push does to the hubs, they keep what they are: a session    *)
(* whose channel is full goes, and nobody comes.                           *)
LEMMA PushKeepsHubs ==
    ASSUME IInv, NEW s \in Sessions, NEW u \in Users,
           Pushed(s, u) \/ Dropped(s, u) \/ Absent(s, u)
    PROVE  /\ HubsTyped' /\ HubsFit'
           /\ Target(s, u) = NoSession \/ Dropped(s, u) => hub'[InstanceOf[s]][u] = NoSession
<1>1. InstanceOf[s] \in Instances /\ Target(s, u) \in Sessions \union {NoSession}
  BY SessionsAssumption DEF IInv, TypeOK, Target
<1>2. CASE UNCHANGED hub /\ ~Dropped(s, u)
  BY <1>2 DEF IInv, TypeOK, HubsTyped, HubsFit, Target
<1>3. CASE Dropped(s, u)
  <2>1. Target(s, u) \in Slow /\ Unregister(Target(s, u))
    BY <1>3 DEF Dropped
  <2>2. InstanceOf[Target(s, u)] = InstanceOf[s] /\ UserOf[Target(s, u)] = u
    BY <1>1, <2>1, SessionsAssumption, NonesAssumption DEF IInv, HubsFit, Target
  <2>3. hub' = [hub EXCEPT ![InstanceOf[s]][u] = NoSession]
    BY <2>1, <2>2 DEF Unregister, Target
  <2> QED
    BY <1>1, <2>3 DEF IInv, TypeOK, HubsTyped, HubsFit
<1> QED
  BY <1>2, <1>3 DEF Pushed, Absent

(* The places of a session, when it goes to another.                       *)
LEMMA GotoKeeps ==
    ASSUME IInv, NEW s \in Sessions, NEW label \in Stages, Goto(s, label)
    PROVE  /\ pc' \in [Sessions -> Stages] /\ pc'[s] = label
           /\ \A t \in Sessions \ {s} : pc'[t] = pc[t]
  BY DEF IInv, TypeOK, Goto, Stages

(* The arguments of one session change.                                     *)
LEMMA ArgsChange ==
    ASSUME IInv, NEW s \in Sessions, NEW a \in Args \union {NoArgs},
           args' = [args EXCEPT ![s] = a]
    PROVE  /\ args' \in [Sessions -> Args \union {NoArgs}] /\ args'[s] = a
           /\ \A t \in Sessions \ {s} : args'[t] = args[t]
  BY DEF IInv, TypeOK

(* Connections, and the handlers of rows of groups and members.            *)
LEMMA ConnectionsKeep ==
    ASSUME IInv, Remember, NEW s \in Sessions, Connect(s) \/ Disconnect(s) \/ Reply(s)
    PROVE  IInv'
<1>1. /\ UNCHANGED <<creator, role, stored, args, todo, heard, acked>>
      /\ Goto(s, "idle") \/ Goto(s, "over")
  BY DEF Connect, Disconnect, Reply, dbVars, outVars
<1>2. /\ pc' \in [Sessions -> Stages] /\ pc'[s] \in {"idle", "over"}
      /\ \A t \in Sessions \ {s} : pc'[t] = pc[t]
  BY <1>1, GotoKeeps DEF Stages
<1>3. HubsTyped' /\ HubsFit'
  <2>1. CASE Connect(s)
    BY <2>1, SessionsAssumption DEF IInv, TypeOK, HubsTyped, HubsFit, Connect
  <2>2. CASE Disconnect(s)
    BY <2>2, SessionsAssumption DEF IInv, TypeOK, HubsTyped, HubsFit, Disconnect, Unregister
  <2>3. CASE Reply(s)
    BY <2>3, PushKeepsHubs, SessionsAssumption DEF Reply
  <2> QED
    BY <2>1, <2>2, <2>3
<1> QED
  BY <1>1, <1>2, <1>3, QuietKeeps DEF IInv, TypeOK, RolesFit, Handling

(* A role that a row is given is a role.                                   *)
LEMMA RoleChange ==
    ASSUME IInv, NEW g \in Groups, NEW u \in Users, NEW r \in {"none", "member", "admin"},
           role' = [role EXCEPT ![g][u] = r]
    PROVE  RolesFit'
  BY DEF IInv, TypeOK, RolesFit

(* A handler that changes who is a member.                                  *)
LEMMA MembershipKeeps ==
    ASSUME IInv, Remember, NEW s \in Sessions,
           \/ Join(s)
           \/ \E g \in Groups :
                 \/ Create(s, g) \/ Refuse(s, g) \/ Quit(s, g)
                 \/ \E u \in Users : Add(s, g, u)
    PROVE  IInv'
<1>1. /\ UNCHANGED <<stored, hub, todo, heard, acked>>
      /\ HubsTyped' /\ HubsFit'
  BY DEF Join, Create, Refuse, Quit, Add, dbVars, outVars, IInv, TypeOK, HubsTyped, HubsFit
<1>2. UserOf[s] \in Users
  BY SessionsAssumption
<1>3. CASE Join(s)
  <2>1. args[s].group \in Groups /\ args[s].user \in Users
    BY <1>3 DEF IInv, ArgsFit, Join
  <2>2. creator' = creator /\ Goto(s, "reply") /\ args' = [args EXCEPT ![s] = NoArgs]
    BY <1>3 DEF Join
  <2>3. \/ role' = role
        \/ role' = [role EXCEPT ![args[s].group][args[s].user] = "member"]
    BY <1>3 DEF Join
  <2>4. RolesFit'
    BY <2>1, <2>3, RoleChange DEF IInv, TypeOK, RolesFit
  <2>5. /\ pc' \in [Sessions -> Stages] /\ pc'[s] = "reply"
        /\ \A t \in Sessions \ {s} : pc'[t] = pc[t]
    BY <2>2, GotoKeeps DEF Stages
  <2>6. /\ args' \in [Sessions -> Args \union {NoArgs}]
        /\ \A t \in Sessions \ {s} : args'[t] = args[t]
    BY <2>2, ArgsChange
  <2> QED
    BY <1>1, <2>2, <2>4, <2>5, <2>6, QuietKeeps DEF IInv, TypeOK, Handling
<1>4. ASSUME NEW g \in Groups, Create(s, g) \/ Refuse(s, g) \/ Quit(s, g) PROVE IInv'
  <2>1. /\ \/ role' = role
           \/ role' = [role EXCEPT ![g][UserOf[s]] = "admin"]
           \/ role' = [role EXCEPT ![g][UserOf[s]] = "none"]
        /\ creator' = creator \/ creator' = [creator EXCEPT ![g] = UserOf[s]]
        /\ args' = args
    BY <1>4 DEF Create, Refuse, Quit, dbVars
  <2>2. RolesFit'
    BY <1>2, <2>1, RoleChange DEF IInv, TypeOK, RolesFit
  <2>3. creator' \in [Groups -> Users \union {NoUser}]
    BY <1>2, <2>1 DEF IInv, TypeOK
  <2>4. Idle(s) /\ (Goto(s, "reply") \/ UNCHANGED pc)
    BY <1>4 DEF Create, Refuse, Quit
  <2>5. /\ pc' \in [Sessions -> Stages] /\ pc'[s] \in {"reply", "idle"}
        /\ \A t \in Sessions \ {s} : pc'[t] = pc[t]
    BY <2>4, GotoKeeps DEF Idle, IInv, TypeOK, Stages
  <2> QED
    BY <1>1, <2>1, <2>2, <2>3, <2>5, QuietKeeps DEF IInv, TypeOK, Handling
<1>5. ASSUME NEW g \in Groups, NEW u \in Users, Add(s, g, u) PROVE IInv'
  <2>1. /\ UNCHANGED <<creator, role>> /\ Goto(s, "join")
        /\ args' = [args EXCEPT ![s] = [group |-> g, user |-> u]]
        /\ [group |-> g, user |-> u] \in [group : Groups, user : Users]
    BY <1>5 DEF Add, dbVars
  <2>2. /\ pc' \in [Sessions -> Stages] /\ pc'[s] = "join"
        /\ \A t \in Sessions \ {s} : pc'[t] = pc[t]
    BY <2>1, GotoKeeps DEF Stages
  <2>3. /\ args' \in [Sessions -> Args \union {NoArgs}]
        /\ args'[s] = [group |-> g, user |-> u]
        /\ \A t \in Sessions \ {s} : args'[t] = args[t]
    BY <2>1, ArgsChange DEF Args
  <2> QED
    BY <1>1, <2>1, <2>2, <2>3, QuietKeeps DEF IInv, TypeOK, RolesFit, Handling
<1> QED
  BY <1>3, <1>4, <1>5

-----------------------------------------------------------------------------
(* The handler of a group message.                                         *)
LEMMA CheckKeeps ==
    ASSUME IInv, Remember, NEW s \in Sessions, NEW g \in Groups, NEW m \in Messages,
           Check(s, g, m)
    PROVE  IInv'
<1>1. /\ UNCHANGED <<creator, role, stored, hub, todo, heard, acked>>
      /\ stored[m] = NoRow /\ Goto(s, "insert")
      /\ args' = [args EXCEPT ![s] = [group |-> g, msg |-> m]]
      /\ \A t \in Sessions : ~Handles(t, m)
  BY DEF Check, dbVars, outVars
<1>2. /\ pc' \in [Sessions -> Stages] /\ pc'[s] = "insert"
      /\ \A t \in Sessions \ {s} : pc'[t] = pc[t]
  BY <1>1, GotoKeeps DEF Stages
<1>3. [group |-> g, msg |-> m] \in [group : Groups, msg : Messages]
  OBVIOUS
<1>4. /\ args' \in [Sessions -> Args \union {NoArgs}]
      /\ args'[s] = [group |-> g, msg |-> m]
      /\ \A t \in Sessions \ {s} : args'[t] = args[t]
  BY <1>1, <1>3, ArgsChange DEF Args
<1>5. RowsStay /\ stored' \in [Messages -> Row \union {NoRow}]
  BY <1>1 DEF IInv, TypeOK, RowsStay
<1>6. /\ past' \in [Messages -> SUBSET Users] /\ steady' \in [Messages -> SUBSET Users]
      /\ MembersAreRemembered'
      /\ \A n \in Messages : stored[n] # NoRow =>
            past[n] \subseteq past'[n] /\ steady'[n] \subseteq steady[n]
  BY <1>1, <1>5, HistoryKeeps
<1>7. DepartedHearNothing' /\ AckedReachedSteady'
  BY <1>1, <1>5, OutcomesKeep
<1>8. TypeOK' /\ HubsFit'
  BY <1>1, <1>2, <1>4, <1>6 DEF IInv, TypeOK, Stages, Row, HubsFit
<1>9. ArgsFit'
  BY <1>2, <1>3, <1>4 DEF IInv, ArgsFit
<1>10. OneHandler'
  BY <1>1, <1>2, <1>4 DEF IInv, OneHandler, Handles
<1>11. HandledIsStored'
  BY <1>1, <1>2, <1>4 DEF IInv, HandledIsStored
<1>12. \A t \in Sessions : pc'[t] \in {"send", "ack"} =>
         /\ pc[t] = pc'[t] /\ args[t] = args'[t]
         /\ args[t].msg \in Messages /\ stored[args[t].msg] # NoRow
  BY <1>2, <1>4, Handled
<1>13. ListIsOfMembers' /\ ListHasTheSteady'
  BY <1>1, <1>6, <1>12 DEF IInv, ListIsOfMembers, ListHasTheSteady
<1> QED
  BY <1>6, <1>7, <1>8, <1>9, <1>10, <1>11, <1>13 DEF IInv

(* The insert, by a handler that goes on or, when its answer is lost, ends.*)
LEMMA InsertKeeps ==
    ASSUME IInv, Remember, NEW s \in Sessions,
           pc[s] = "insert",
           stored' = [stored EXCEPT ![args[s].msg] =
                        [group |-> args[s].group, from |-> UserOf[s], at |-> InstanceOf[s]]],
           UNCHANGED <<creator, role, hub, todo, heard, acked>>,
           (Goto(s, "list") /\ args' = args) \/ Finish(s)
    PROVE  IInv'
<1> DEFINE m == args[s].msg
           row == [group |-> args[s].group, from |-> UserOf[s], at |-> InstanceOf[s]]
<1>1. args[s].group \in Groups /\ m \in Messages /\ stored[m] = NoRow
  BY DEF IInv, ArgsFit, HandledIsStored
<1>2. row \in Row /\ row # NoRow
  BY <1>1, SessionsAssumption, NonesAssumption DEF Row
<1>3. /\ stored' \in [Messages -> Row \union {NoRow}] /\ stored'[m] = row
      /\ \A n \in Messages \ {m} : stored'[n] = stored[n]
  BY <1>1, <1>2 DEF IInv, TypeOK
<1>4. RowsStay
  BY <1>1, <1>3 DEF RowsStay
<1>5. /\ pc' \in [Sessions -> Stages] /\ pc'[s] \in {"list", "idle"}
      /\ \A t \in Sessions \ {s} : pc'[t] = pc[t]
  BY GotoKeeps DEF Stages, Finish
<1>6. /\ args' \in [Sessions -> Args \union {NoArgs}]
      /\ pc'[s] = "list" => args'[s] = args[s]
      /\ \A t \in Sessions \ {s} : args'[t] = args[t]
  <2>1. CASE Goto(s, "list") /\ args' = args
    BY <2>1 DEF IInv, TypeOK
  <2>2. CASE Finish(s)
    <3>1. Goto(s, "idle") /\ args' = [args EXCEPT ![s] = NoArgs]
      BY <2>2 DEF Finish
    <3> QED
      BY <3>1, ArgsChange, GotoKeeps DEF Stages
  <2> QED
    BY <2>1, <2>2
<1>7. \A n \in acked' : n \in acked \/ stored[n] # NoRow
  OBVIOUS
<1>8. /\ past' \in [Messages -> SUBSET Users] /\ steady' \in [Messages -> SUBSET Users]
      /\ MembersAreRemembered'
      /\ \A n \in Messages : stored[n] # NoRow =>
            past[n] \subseteq past'[n] /\ steady'[n] \subseteq steady[n]
  BY <1>3, <1>4, <1>7, HistoryKeeps
<1>9. DepartedHearNothing' /\ AckedReachedSteady'
  BY <1>3, <1>4, OutcomesKeep
<1>10. TypeOK' /\ HubsFit'
  BY <1>3, <1>5, <1>6, <1>8 DEF IInv, TypeOK, Stages, Row, HubsFit
<1>11. ArgsFit' /\ OneHandler'
  BY <1>5, <1>6 DEF IInv, ArgsFit, OneHandler, Handles
<1>12. \A t \in Sessions \ {s} : pc[t] \in Handling =>
          args[t].msg \in Messages \ {m}
  BY <1>1 DEF IInv, ArgsFit, OneHandler, Handles, Handling
<1>13. HandledIsStored'
  BY <1>3, <1>5, <1>6, <1>12 DEF IInv, HandledIsStored, Handling
<1>14. \A t \in Sessions : pc'[t] \in {"send", "ack"} =>
         /\ pc[t] = pc'[t] /\ args[t] = args'[t]
         /\ args[t].msg \in Messages /\ stored[args[t].msg] # NoRow
  BY <1>5, <1>6, Handled
<1>15. ListIsOfMembers' /\ ListHasTheSteady'
  BY <1>8, <1>14 DEF IInv, ListIsOfMembers, ListHasTheSteady
<1> QED
  BY <1>8, <1>9, <1>10, <1>11, <1>13, <1>15 DEF IInv

(* A statement that failed without effect.                                 *)
LEMMA ErrorKeeps ==
    ASSUME IInv, Remember, NEW s \in Sessions, Finish(s),
           UNCHANGED <<creator, role, stored, hub, todo, heard, acked>>
    PROVE  IInv'
<1>1. Goto(s, "idle") /\ args' = [args EXCEPT ![s] = NoArgs]
  BY DEF Finish
<1>2. /\ pc' \in [Sessions -> Stages] /\ pc'[s] = "idle"
      /\ \A t \in Sessions \ {s} : pc'[t] = pc[t]
  BY <1>1, GotoKeeps DEF Stages
<1>3. /\ args' \in [Sessions -> Args \union {NoArgs}]
      /\ \A t \in Sessions \ {s} : args'[t] = args[t]
  BY <1>1, ArgsChange
<1>4. HubsTyped' /\ HubsFit' /\ RolesFit'
  BY DEF IInv, TypeOK, HubsTyped, HubsFit, RolesFit
<1> QED
  BY <1>2, <1>3, <1>4, QuietKeeps DEF IInv, TypeOK, Handling

(* A step of the fan-out: the rows stay, the session goes on with the      *)
(* message it has, and only its own list and its own message are touched.  *)
LEMMA FanOutKeeps ==
    ASSUME IInv, Remember, NEW s \in Sessions,
           UNCHANGED <<creator, role, stored, args, acked>>,
           pc[s] \in {"list", "send"}, pc' \in [Sessions -> Stages],
           pc'[s] \in {"send", "ack"},
           \A t \in Sessions \ {s} : pc'[t] = pc[t] /\ todo'[t] = todo[t],
           todo' \in [Sessions -> SUBSET Users], HubsTyped', HubsFit',
           heard \subseteq heard', heard' \subseteq Messages \X Users,
           \A h \in heard' \ heard : \E u \in past[args[s].msg] \ {UserOf[s]} :
               h = <<args[s].msg, u>>,
           pc'[s] = "send" => todo'[s] \subseteq past[args[s].msg] \ {UserOf[s]},
           \A u \in steady'[args[s].msg] \ {UserOf[s]} :
               <<args[s].msg, u>> \in heard' \/ (pc'[s] = "send" /\ u \in todo'[s])
    PROVE  IInv'
<1>1. RowsStay /\ stored' \in [Messages -> Row \union {NoRow}]
  BY DEF IInv, TypeOK, RowsStay
<1>2. /\ past' \in [Messages -> SUBSET Users] /\ steady' \in [Messages -> SUBSET Users]
      /\ MembersAreRemembered'
      /\ \A n \in Messages : stored[n] # NoRow =>
            past[n] \subseteq past'[n] /\ steady'[n] \subseteq steady[n]
  BY <1>1, HistoryKeeps
<1>3. \A t \in Sessions : pc[t] \in {"list", "send", "ack"} =>
         /\ args[t].msg \in Messages /\ stored[args[t].msg] # NoRow
         /\ stored[args[t].msg].from = UserOf[t]
  BY Handled
<1>4. TypeOK'
  BY <1>2 DEF IInv, TypeOK, HubsTyped, Stages, Row
<1>5. ArgsFit' /\ OneHandler' /\ HandledIsStored'
  BY DEF IInv, ArgsFit, OneHandler, HandledIsStored, Handles
<1>6. ListIsOfMembers'
  BY <1>2, <1>3 DEF IInv, ListIsOfMembers
<1>7. ListHasTheSteady'
  BY <1>2, <1>3 DEF IInv, ListHasTheSteady
<1>8. \A n \in Messages, u \in Users : <<n, u>> \in heard => stored[n] # NoRow
  BY DEF IInv, DepartedHearNothing, MembersAreRemembered
<1>9. DepartedHearNothing'
  <2> SUFFICES ASSUME NEW n \in Messages, NEW u \in Users, <<n, u>> \in heard'
               PROVE  u \in past'[n] \ {stored[n].from}
    BY DEF DepartedHearNothing
  <2>1. CASE <<n, u>> \in heard
    BY <1>2, <1>8, <2>1 DEF IInv, DepartedHearNothing
  <2>2. CASE <<n, u>> \notin heard
    <3>1. n = args[s].msg /\ u \in past[args[s].msg] \ {UserOf[s]}
      BY <2>2
    <3> QED
      BY <1>2, <1>3, <3>1
  <2> QED
    BY <2>1, <2>2
<1>10. \A n \in acked : n \in Messages /\ stored[n] # NoRow
  BY DEF IInv, TypeOK, MembersAreRemembered
<1>11. AckedReachedSteady'
  BY <1>2, <1>10 DEF IInv, AckedReachedSteady
<1> QED
  BY <1>2, <1>4, <1>5, <1>6, <1>7, <1>9, <1>11 DEF IInv

(* The list is of members, all of them remembered, and every steady one.   *)
LEMMA ListKeeps ==
    ASSUME IInv, Remember, NEW s \in Sessions, List(s)
    PROVE  IInv'
<1> DEFINE m == args[s].msg
<1>1. /\ UNCHANGED <<creator, role, stored, hub, args, heard, acked>>
      /\ pc[s] = "list" /\ Goto(s, "send")
      /\ todo' = [todo EXCEPT ![s] = Members(args[s].group) \ {UserOf[s]}]
  BY DEF List, dbVars, outVars
<1>2. m \in Messages /\ stored[m] # NoRow /\ stored[m].group = args[s].group
  BY <1>1, Handled
<1>3. /\ pc' \in [Sessions -> Stages] /\ pc'[s] = "send"
      /\ \A t \in Sessions \ {s} : pc'[t] = pc[t]
  BY <1>1, GotoKeeps DEF Stages
<1>4. Members(args[s].group) \subseteq Users /\ Members(args[s].group) \subseteq past[m]
  BY <1>2 DEF IInv, MembersAreRemembered, Members
<1>5. /\ todo' \in [Sessions -> SUBSET Users]
      /\ todo'[s] = Members(args[s].group) \ {UserOf[s]}
      /\ \A t \in Sessions \ {s} : todo'[t] = todo[t]
  BY <1>1, <1>4 DEF IInv, TypeOK
<1>6. RowsStay /\ stored' \in [Messages -> Row \union {NoRow}]
  BY <1>1 DEF IInv, TypeOK, RowsStay
<1>7. \A n \in Messages : stored[n] # NoRow => steady'[n] \subseteq steady[n]
  BY <1>1, <1>6, HistoryKeeps
<1>8. steady'[m] \subseteq Members(args[s].group)
  BY <1>2, <1>7 DEF IInv, MembersAreRemembered
<1>9. HubsTyped' /\ HubsFit'
  BY <1>1 DEF IInv, TypeOK, HubsTyped, HubsFit
<1>10. heard' \subseteq Messages \X Users
  BY <1>1 DEF IInv, TypeOK
<1> QED
  BY <1>1, <1>3, <1>4, <1>5, <1>8, <1>9, <1>10, FanOutKeeps

(* A push of the fan-out: who is passed over is no longer steady.          *)
LEMMA PushKeeps ==
    ASSUME IInv, Remember, NEW s \in Sessions, NEW u \in Users, Skip(s, u) \/ Tell(s, u)
    PROVE  IInv'
<1> DEFINE m == args[s].msg
<1>1. /\ UNCHANGED <<creator, role, stored, args, pc, acked>>
      /\ pc[s] = "send" /\ u \in todo[s]
      /\ todo' = [todo EXCEPT ![s] = @ \ {u}]
      /\ Pushed(s, u) \/ Dropped(s, u) \/ Absent(s, u)
      /\ \/ heard' = heard /\ (Absent(s, u) \/ Dropped(s, u))
         \/ heard' = heard \union {<<m, u>>}
  BY DEF Skip, Tell, dbVars, outVars
<1>2. /\ m \in Messages /\ stored[m] # NoRow
      /\ stored[m].at = InstanceOf[s]
  BY <1>1, Handled
<1>3. /\ todo' \in [Sessions -> SUBSET Users] /\ todo'[s] = todo[s] \ {u}
      /\ \A t \in Sessions \ {s} : todo'[t] = todo[t]
  BY <1>1 DEF IInv, TypeOK
<1>4. HubsTyped' /\ HubsFit'
  BY <1>1, PushKeepsHubs
<1>5. Absent(s, u) \/ Dropped(s, u) => hub'[InstanceOf[s]][u] = NoSession
  BY <1>1, PushKeepsHubs DEF Absent
<1>6. RowsStay /\ stored' \in [Messages -> Row \union {NoRow}]
  BY <1>1 DEF IInv, TypeOK, RowsStay
<1>7. /\ \A n \in Messages : stored[n] # NoRow => steady'[n] \subseteq steady[n]
      /\ \A n \in Messages, v \in Users : v \in steady'[n] =>
            hub'[stored'[n].at][v] # NoSession
  BY <1>1, <1>6, HistoryKeeps
<1>8. u \in steady'[m] => <<m, u>> \in heard'
  BY <1>1, <1>2, <1>5, <1>7
<1>9. todo[s] \subseteq past[m] \ {UserOf[s]}
  BY <1>1 DEF IInv, ListIsOfMembers
<1>10. \A v \in steady'[m] \ {UserOf[s]} : <<m, v>> \in heard \/ v \in todo[s]
  BY <1>1, <1>2, <1>7 DEF IInv, ListHasTheSteady
<1>11. /\ heard \subseteq heard' /\ heard' \subseteq Messages \X Users
       /\ \A h \in heard' \ heard : \E v \in past[m] \ {UserOf[s]} : h = <<m, v>>
  BY <1>1, <1>2, <1>9 DEF IInv, TypeOK
<1>12. \A v \in steady'[m] \ {UserOf[s]} : <<m, v>> \in heard' \/ v \in todo'[s]
  BY <1>3, <1>8, <1>10, <1>11
<1>13. pc' \in [Sessions -> Stages] /\ \A t \in Sessions \ {s} : pc'[t] = pc[t]
  BY <1>1 DEF IInv, TypeOK, Stages
<1> QED
  BY <1>1, <1>3, <1>4, <1>9, <1>11, <1>12, <1>13, FanOutKeeps

(* The loop of the sender is over: everybody who stayed a member has been   *)
(* reached.                                                                 *)
LEMMA FanOutDoneKeeps ==
    ASSUME IInv, Remember, NEW s \in Sessions, FanOutDone(s)
    PROVE  IInv'
<1> DEFINE m == args[s].msg
<1>1. /\ UNCHANGED <<creator, role, stored, hub, args, todo, heard, acked>>
      /\ pc[s] = "send" /\ todo[s] = {} /\ Goto(s, "ack")
  BY DEF FanOutDone, dbVars, outVars
<1>2. m \in Messages /\ stored[m] # NoRow
  BY <1>1, Handled
<1>3. /\ pc' \in [Sessions -> Stages] /\ pc'[s] = "ack"
      /\ \A t \in Sessions \ {s} : pc'[t] = pc[t]
  BY <1>1, GotoKeeps DEF Stages
<1>4. RowsStay /\ stored' \in [Messages -> Row \union {NoRow}]
  BY <1>1 DEF IInv, TypeOK, RowsStay
<1>5. \A n \in Messages : stored[n] # NoRow => steady'[n] \subseteq steady[n]
  BY <1>1, <1>4, HistoryKeeps
<1>6. \A v \in steady'[m] \ {UserOf[s]} : <<m, v>> \in heard
  BY <1>1, <1>2, <1>5 DEF IInv, ListHasTheSteady
<1>7. /\ HubsTyped' /\ HubsFit' /\ todo' \in [Sessions -> SUBSET Users]
      /\ heard' \subseteq Messages \X Users
  BY <1>1 DEF IInv, TypeOK, HubsTyped, HubsFit
<1> QED
  BY <1>1, <1>3, <1>6, <1>7, FanOutKeeps

(* The acknowledgement: whoever is steady yet has the message.             *)
LEMMA AckKeeps ==
    ASSUME IInv, Remember, NEW s \in Sessions, Ack(s)
    PROVE  IInv'
<1> DEFINE m == args[s].msg
<1>1. /\ UNCHANGED <<creator, role, stored, todo, heard>>
      /\ pc[s] = "ack" /\ Finish(s)
      /\ acked' = acked \/ acked' = acked \union {m}
      /\ \/ Pushed(s, UserOf[s])
         \/ Dropped(s, UserOf[s])
         \/ Absent(s, UserOf[s])
  BY DEF Ack, dbVars
<1>2. m \in Messages /\ stored[m] # NoRow /\ stored[m].from = UserOf[s]
  BY <1>1, Handled
<1>3. Goto(s, "idle") /\ args' = [args EXCEPT ![s] = NoArgs]
  BY <1>1 DEF Finish
<1>4. /\ pc' \in [Sessions -> Stages] /\ pc'[s] = "idle"
      /\ \A t \in Sessions \ {s} : pc'[t] = pc[t]
  BY <1>3, GotoKeeps DEF Stages
<1>5. /\ args' \in [Sessions -> Args \union {NoArgs}]
      /\ \A t \in Sessions \ {s} : args'[t] = args[t]
  BY <1>3, ArgsChange
<1>6. HubsTyped' /\ HubsFit'
  BY <1>1, PushKeepsHubs, SessionsAssumption
<1>7. RowsStay /\ stored' \in [Messages -> Row \union {NoRow}]
  BY <1>1 DEF IInv, TypeOK, RowsStay
<1>8. \A n \in acked' : n \in acked \/ stored[n] # NoRow
  BY <1>1, <1>2
<1>9. /\ past' \in [Messages -> SUBSET Users] /\ steady' \in [Messages -> SUBSET Users]
      /\ MembersAreRemembered'
      /\ \A n \in Messages : stored[n] # NoRow =>
            past[n] \subseteq past'[n] /\ steady'[n] \subseteq steady[n]
  BY <1>7, <1>8, HistoryKeeps
<1>10. TypeOK'
  BY <1>1, <1>2, <1>4, <1>5, <1>6, <1>9 DEF IInv, TypeOK, HubsTyped, Stages, Row
<1>11. ArgsFit' /\ OneHandler' /\ HandledIsStored'
  BY <1>1, <1>4, <1>5 DEF IInv, ArgsFit, OneHandler, HandledIsStored, Handles
<1>12. \A t \in Sessions : pc'[t] \in {"send", "ack"} =>
         /\ pc[t] = pc'[t] /\ args[t] = args'[t]
         /\ args[t].msg \in Messages /\ stored[args[t].msg] # NoRow
  BY <1>4, <1>5, Handled
<1>13. ListIsOfMembers' /\ ListHasTheSteady'
  BY <1>1, <1>9, <1>12 DEF IInv, ListIsOfMembers, ListHasTheSteady
<1>14. \A n \in Messages, u \in Users : <<n, u>> \in heard => stored[n] # NoRow
  BY DEF IInv, DepartedHearNothing, MembersAreRemembered
<1>15. DepartedHearNothing'
  BY <1>1, <1>9, <1>14 DEF IInv, DepartedHearNothing
<1>16. \A u \in steady[m] \ {UserOf[s]} : <<m, u>> \in heard
  BY <1>1, <1>2 DEF IInv, ListHasTheSteady
<1>17. \A n \in acked : n \in Messages /\ stored[n] # NoRow
  BY DEF IInv, TypeOK, MembersAreRemembered
<1>18. \A n \in acked' : \A u \in steady[n] \ {stored[n].from} : <<n, u>> \in heard
  BY <1>1, <1>2, <1>16 DEF IInv, AckedReachedSteady
<1>19. AckedReachedSteady'
  BY <1>1, <1>2, <1>9, <1>17, <1>18 DEF AckedReachedSteady
<1> QED
  BY <1>6, <1>9, <1>10, <1>11, <1>13, <1>15, <1>19 DEF IInv

-----------------------------------------------------------------------------
(* The invariant holds in an empty database.                                *)
LEMMA InitHolds == Init => IInv
<1> SUFFICES ASSUME Init PROVE IInv
  OBVIOUS
<1>1. TypeOK
  BY DEF Init, TypeOK
<1>2. HubsFit /\ ArgsFit /\ OneHandler /\ HandledIsStored
  BY NonesAssumption DEF Init, HubsFit, ArgsFit, OneHandler, Handles, HandledIsStored
<1>3. /\ MembersAreRemembered /\ ListIsOfMembers /\ ListHasTheSteady
      /\ DepartedHearNothing /\ AckedReachedSteady
  BY DEF Init, MembersAreRemembered, ListIsOfMembers, ListHasTheSteady,
         DepartedHearNothing, AckedReachedSteady
<1> QED
  BY <1>1, <1>2, <1>3 DEF IInv

(* Every step keeps the invariant.                                          *)
LEMMA StepKeeps ==
    ASSUME IInv, Next PROVE IInv'
<1>1. PICK s \in Sessions :
        \/ Connect(s) \/ Disconnect(s)
        \/ \E g \in Groups :
              \/ Create(s, g) \/ Refuse(s, g) \/ Quit(s, g)
              \/ \E u \in Users : Add(s, g, u)
              \/ \E m \in Messages : Check(s, g, m)
        \/ Join(s) \/ Reply(s)
        \/ Insert(s) \/ InsertError(s) \/ List(s) \/ ListError(s)
        \/ \E u \in Users : Skip(s, u) \/ Tell(s, u)
        \/ FanOutDone(s) \/ Ack(s)
  BY DEF Next, Step
<1>2. Remember
  BY DEF Next
<1>3. CASE Connect(s) \/ Disconnect(s) \/ Reply(s)
  BY <1>2, <1>3, ConnectionsKeep
<1>4. CASE \/ Join(s)
           \/ \E g \in Groups :
                 \/ Create(s, g) \/ Refuse(s, g) \/ Quit(s, g)
                 \/ \E u \in Users : Add(s, g, u)
  BY <1>2, <1>4, MembershipKeeps
<1>5. CASE \E g \in Groups, m \in Messages : Check(s, g, m)
  BY <1>2, <1>5, CheckKeeps
<1>6. CASE Insert(s)
  BY <1>2, <1>6, InsertKeeps DEF Insert, outVars
<1>7. CASE InsertError(s)
  <2>1. /\ pc[s] = "insert" /\ Finish(s)
        /\ UNCHANGED <<creator, role, hub, todo, heard, acked>>
        /\ \/ UNCHANGED stored
           \/ stored' = [stored EXCEPT ![args[s].msg] =
                           [group |-> args[s].group, from |-> UserOf[s],
                            at |-> InstanceOf[s]]]
    BY <1>7 DEF InsertError, outVars
  <2> QED
    BY <1>2, <2>1, InsertKeeps, ErrorKeeps
<1>8. CASE ListError(s)
  BY <1>2, <1>8, ErrorKeeps DEF ListError, dbVars, outVars
<1>9. CASE List(s)
  BY <1>2, <1>9, ListKeeps
<1>10. CASE \E u \in Users : Skip(s, u) \/ Tell(s, u)
  BY <1>2, <1>10, PushKeeps
<1>11. CASE FanOutDone(s)
  BY <1>2, <1>11, FanOutDoneKeeps
<1>12. CASE Ack(s)
  BY <1>2, <1>12, AckKeeps
<1> QED
  BY <1>1, <1>3, <1>4, <1>5, <1>6, <1>7, <1>8, <1>9, <1>10, <1>11, <1>12

(* So does a step that changes nothing.                                     *)
LEMMA StutterKeeps ==
    ASSUME IInv, UNCHANGED vars PROVE IInv'
<1> USE DEF vars, dbVars, outVars
<1>1. TypeOK' /\ HubsFit' /\ ArgsFit' /\ OneHandler' /\ HandledIsStored'
  BY DEF IInv, TypeOK, HubsFit, ArgsFit, OneHandler, Handles, HandledIsStored
<1>2. MembersAreRemembered' /\ ListIsOfMembers' /\ ListHasTheSteady'
  BY DEF IInv, MembersAreRemembered, ListIsOfMembers, ListHasTheSteady, Members, IsMember
<1>3. DepartedHearNothing' /\ AckedReachedSteady'
  BY DEF IInv, DepartedHearNothing, AckedReachedSteady
<1> QED
  BY <1>1, <1>2, <1>3 DEF IInv

(* The invariant holds in every reachable state.                            *)
LEMMA AlwaysIInv == Spec => []IInv
<1>1. IInv /\ [Next]_vars => IInv'
  BY StepKeeps, StutterKeeps
<1> QED
  BY <1>1, InitHolds, PTL DEF Spec

(* The types of the rows, the hubs and the handlers (group.go, groups.go). *)
THEOREM TypeCorrect == Spec => []TypeOK
<1>1. IInv => TypeOK
  BY DEF IInv
<1> QED
  BY <1>1, AlwaysIInv, PTL

(* Whoever had left a group when a message was stored never hears it, nor  *)
(* does its sender (group.go:42-64).                                       *)
THEOREM DepartedAreLeftAlone == Spec => []DepartedHearNothing
<1>1. IInv => DepartedHearNothing
  BY DEF IInv
<1> QED
  BY <1>1, AlwaysIInv, PTL

(* "group_sent" is told when every member who belonged to the group and    *)
(* was connected all the time has the message (group.go:57-73).            *)
THEOREM AckMeansReached == Spec => []AckedReachedSteady
<1>1. IInv => AckedReachedSteady
  BY DEF IInv
<1> QED
  BY <1>1, AlwaysIInv, PTL

(* No step revives a group that its last member has left and that no add   *)
(* is past its check for (group.go:124-136).                               *)
THEOREM NobodyRevives == Spec => DeadGroupsStayDead
<1>1. ASSUME IInv, [Next]_vars, NEW g \in Groups, Dead(g) PROVE Dead(g)'
  <2>1. CASE UNCHANGED vars
    BY <1>1, <2>1 DEF vars, dbVars, Dead, Members, IsMember
  <2>2. CASE Next
    <3>1. /\ creator[g] # NoUser
          /\ \A u \in Users : role[g][u] = "none"
          /\ \A t \in Sessions : pc[t] = "join" => args[t].group # g
      BY <1>1 DEF Dead, Members, IsMember
    <3>2. PICK s \in Sessions :
            \/ \E h \in Groups : Create(s, h) \/ Refuse(s, h) \/ Quit(s, h)
            \/ \E h \in Groups, u \in Users : Add(s, h, u)
            \/ \E h \in Groups, m \in Messages : Check(s, h, m)
            \/ Join(s)
            \/ /\ UNCHANGED <<creator, role>>
               /\ \/ \E label \in Stages \ {"join"} : Goto(s, label)
                  \/ UNCHANGED pc
               /\ args' = args \/ (args' = [args EXCEPT ![s] = NoArgs] /\ pc[s] # "join")
      BY <2>2 DEF Next, Step, Connect, Disconnect, Reply, Insert, InsertError, List,
         ListError, Skip, Tell, FanOutDone, Ack, Finish, dbVars, Stages
    <3>3. UserOf[s] \in Users
      BY SessionsAssumption
    <3>4. CASE \E h \in Groups : Create(s, h) \/ Refuse(s, h) \/ Quit(s, h)
      <4>1. PICK h \in Groups : Create(s, h) \/ Refuse(s, h) \/ Quit(s, h)
        BY <3>4
      <4>2. Create(s, h) => h # g
        BY <3>1 DEF Create
      <4>3. Quit(s, h) => h # g
        BY <3>1, <3>3 DEF Quit, IsMember
      <4>4. ASSUME Create(s, h) PROVE creator'[g] = creator[g] /\ role'[g] = role[g]
        <5>1. /\ creator' = [creator EXCEPT ![h] = UserOf[s]] /\ h # g
              /\ role' = [role EXCEPT ![h][UserOf[s]] = "admin"]
          BY <4>2, <4>4 DEF Create
        <5> QED
          BY <1>1, <5>1 DEF IInv, TypeOK
      <4>5. ASSUME Quit(s, h) PROVE creator'[g] = creator[g] /\ role'[g] = role[g]
        <5>1. /\ creator' = creator /\ h # g
              /\ role' = [role EXCEPT ![h][UserOf[s]] = "none"]
          BY <4>3, <4>5 DEF Quit
        <5> QED
          BY <1>1, <5>1 DEF IInv, TypeOK
      <4>6. creator'[g] = creator[g] /\ role'[g] = role[g]
        BY <4>1, <4>4, <4>5 DEF Refuse, dbVars
      <4>7. args' = args /\ (Goto(s, "reply") \/ UNCHANGED pc)
        BY <4>1 DEF Create, Refuse, Quit
      <4>8. \A t \in Sessions : pc'[t] = "join" => pc[t] = "join"
        BY <1>1, <4>7, GotoKeeps DEF Stages
      <4> QED
        BY <3>1, <4>6, <4>7, <4>8 DEF Dead, Members, IsMember
    <3>5. CASE \E h \in Groups, u \in Users : Add(s, h, u)
      <4>1. PICK h \in Groups, u \in Users : Add(s, h, u)
        BY <3>5
      <4>2. h # g
        BY <3>1, <3>3, <4>1 DEF Add, IsMember
      <4>3. /\ creator' = creator /\ role' = role /\ Goto(s, "join")
            /\ args' = [args EXCEPT ![s] = [group |-> h, user |-> u]]
            /\ [group |-> h, user |-> u] \in Args
        BY <4>1 DEF Add, dbVars, Args
      <4>4. /\ args'[s] = [group |-> h, user |-> u]
            /\ \A t \in Sessions \ {s} : args'[t] = args[t]
        BY <1>1, <4>3, ArgsChange
      <4>5. \A t \in Sessions \ {s} : pc'[t] = pc[t]
        BY <1>1, <4>3, GotoKeeps DEF Stages
      <4>6. \A t \in Sessions : pc'[t] = "join" => args'[t].group # g
        BY <3>1, <4>2, <4>4, <4>5
      <4> QED
        BY <3>1, <4>3, <4>6 DEF Dead, Members, IsMember
    <3>6. CASE \E h \in Groups, m \in Messages : Check(s, h, m)
      <4>1. PICK h \in Groups, m \in Messages : Check(s, h, m)
        BY <3>6
      <4>2. /\ creator' = creator /\ role' = role /\ Goto(s, "insert")
            /\ args' = [args EXCEPT ![s] = [group |-> h, msg |-> m]]
            /\ [group |-> h, msg |-> m] \in Args
        BY <4>1 DEF Check, dbVars, Args
      <4>3. \A t \in Sessions : pc'[t] = "join" => args'[t].group # g
        BY <1>1, <3>1, <4>2, GotoKeeps, ArgsChange DEF Stages
      <4> QED
        BY <3>1, <4>2, <4>3 DEF Dead, Members, IsMember
    <3>7. CASE Join(s)
      <4>1. args[s].group \in Groups /\ args[s].group # g
        BY <1>1, <3>1, <3>7 DEF IInv, ArgsFit, Join
      <4>2. creator' = creator /\ role'[g] = role[g]
        BY <1>1, <3>7, <4>1 DEF Join, IInv, TypeOK
      <4>3. Goto(s, "reply") /\ args' = [args EXCEPT ![s] = NoArgs]
        BY <3>7 DEF Join
      <4>4. \A t \in Sessions : pc'[t] = "join" => args'[t].group # g
        BY <1>1, <3>1, <4>3, GotoKeeps, ArgsChange DEF Stages
      <4> QED
        BY <3>1, <4>2, <4>4 DEF Dead, Members, IsMember
    <3>8. CASE /\ UNCHANGED <<creator, role>>
               /\ \/ \E label \in Stages \ {"join"} : Goto(s, label)
                  \/ UNCHANGED pc
               /\ args' = args \/ (args' = [args EXCEPT ![s] = NoArgs] /\ pc[s] # "join")
      <4>1. \A t \in Sessions : pc'[t] = "join" => pc[t] = "join"
        BY <1>1, <3>8, GotoKeeps
      <4>2. \A t \in Sessions : pc'[t] = "join" => args'[t] = args[t]
        BY <1>1, <3>8, <4>1, ArgsChange
      <4> QED
        BY <3>1, <3>8, <4>1, <4>2 DEF Dead, Members, IsMember
    <3> QED
      BY <3>2, <3>4, <3>5, <3>6, <3>7, <3>8
  <2> QED
    BY <1>1, <2>1, <2>2
<1>2. IInv /\ [Next]_vars => (\A g \in Groups : Dead(g) => Dead(g)')
  BY <1>1
<1> QED
  BY <1>2, AlwaysIInv, PTL DEF Spec, DeadGroupsStayDead
=============================================================================
