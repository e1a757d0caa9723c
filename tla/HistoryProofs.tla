---------------------------- MODULE HistoryProofs ----------------------------
(***************************************************************************)
(* Theorems about the history of a conversation: at the server, the chats  *)
(* of two users (ChatDirectory), for any number of users, calls and chats; *)
(* in the page, the list that histories and frames make (ClientStore), for *)
(* any number of messages.                                                 *)
(***************************************************************************)
EXTENDS ChatDirectory, ClientStore, FiniteSetTheorems, WellFoundedInduction, TLAPS

-----------------------------------------------------------------------------
(* The chats of two users.                                                 *)

(* What a call has found is a chat of its two users.                       *)
FoundIsTheirs ==
    \A c \in Callers : pc[c] = "found" =>
        chatID[c] \in Chats /\ Pair(c) \subseteq members[chatID[c]]

(* A chat is never of more than two users.                                 *)
ChatsOfTwo ==
    \A k \in Chats : members[k] # {} =>
        \E u, v \in Users : members[k] \subseteq {u, v}

(* Who wrote and to whom are both members of the chat of the row.          *)
RowsOfMembers == \A r \in rows : {r.from, r.to} \subseteq members[r.chat]

DirectoryInv ==
    /\ DirectoryTypeOK
    /\ FoundIsTheirs
    /\ ChatsOfTwo
    /\ RowsOfMembers
    /\ HistoryIsOfThePair

(* Two users who are different and both members are all the members.       *)
LEMMA MembersAreThePair ==
  ASSUME ChatsOfTwo, NEW k \in Chats, NEW u, NEW v, u # v, {u, v} \subseteq members[k]
  PROVE  members[k] = {u, v}
BY DEF ChatsOfTwo

(* The invariant holds in an empty database.                               *)
LEMMA DirectoryInvInit == DirectoryInit => DirectoryInv
<1> SUFFICES ASSUME DirectoryInit
             PROVE  DirectoryInv
  OBVIOUS
<1>1. DirectoryTypeOK
  BY DEF DirectoryInit, DirectoryTypeOK
<1>2. FoundIsTheirs /\ ChatsOfTwo /\ RowsOfMembers /\ HistoryIsOfThePair
  BY DEF DirectoryInit, FoundIsTheirs, ChatsOfTwo, RowsOfMembers, HistoryIsOfThePair
<1>. QED
  BY <1>1, <1>2 DEF DirectoryInv

(* One of the statements that only move a call: what a call holds stays    *)
(* what it was, and it is at "found" only if it was there before.          *)
LEMMA MoveKeeps ==
  ASSUME DirectoryInv, NEW c \in Callers, NEW label \in {"lookup", "create", "over"},
         Goto(c, label), UNCHANGED <<members, rows, from, to, chatID, read>>
  PROVE  DirectoryInv'
<1>1. DirectoryTypeOK'
  BY DEF DirectoryInv, DirectoryTypeOK, Goto
<1>2. FoundIsTheirs'
  BY DEF DirectoryInv, DirectoryTypeOK, FoundIsTheirs, Goto, Pair
<1>3. ChatsOfTwo' /\ RowsOfMembers' /\ HistoryIsOfThePair'
  BY DEF DirectoryInv, ChatsOfTwo, RowsOfMembers, HistoryIsOfThePair, Pair
<1>. QED
  BY <1>1, <1>2, <1>3 DEF DirectoryInv

(* The lookup has found a chat of both users (messages.go:24-34).          *)
LEMMA LookupFoundKeeps ==
  ASSUME DirectoryInv, NEW c \in Callers, LookupFound(c)
  PROVE  DirectoryInv'
<1>1. PICK k \in Chats : /\ Pair(c) \subseteq members[k]
                        /\ chatID' = [chatID EXCEPT ![c] = k]
  BY DEF LookupFound, Matching
<1>2. /\ pc' = [pc EXCEPT ![c] = "found"]
      /\ UNCHANGED <<members, rows, from, to, read>>
  BY DEF LookupFound, Goto
<1>3. DirectoryTypeOK'
  BY <1>1, <1>2 DEF DirectoryInv, DirectoryTypeOK
<1>4. FoundIsTheirs'
  BY <1>1, <1>2 DEF DirectoryInv, DirectoryTypeOK, FoundIsTheirs, Pair
<1>5. ChatsOfTwo' /\ RowsOfMembers' /\ HistoryIsOfThePair'
  BY <1>2 DEF DirectoryInv, ChatsOfTwo, RowsOfMembers, HistoryIsOfThePair, Pair
<1>. QED
  BY <1>3, <1>4, <1>5 DEF DirectoryInv

(* A new chat: no row and no call is in it yet, and its members are the    *)
(* two users (messages.go:45-58).                                          *)
LEMMA NewChatKeeps ==
  ASSUME DirectoryInv, NEW c \in Callers, NEW k \in Chats, members[k] = {},
         members' = [members EXCEPT ![k] = Pair(c)],
         UNCHANGED <<rows, from, to, read>>
  PROVE  /\ members' \in [Chats -> SUBSET Users]
         /\ \A l \in Chats : members[l] \subseteq members'[l]
         /\ ChatsOfTwo' /\ RowsOfMembers' /\ HistoryIsOfThePair'
<1>1. members' \in [Chats -> SUBSET Users] /\ Pair(c) \subseteq Users
  BY DEF DirectoryInv, DirectoryTypeOK, Pair
<1>2. \A l \in Chats : members[l] \subseteq members'[l]
  BY DEF DirectoryInv, DirectoryTypeOK
<1>3. ChatsOfTwo'
  BY DEF DirectoryInv, DirectoryTypeOK, ChatsOfTwo, Pair
<1>4. RowsOfMembers'
  <2>1. \A r \in rows : r.chat \in Chats
    BY DEF DirectoryInv, DirectoryTypeOK, Row
  <2>. QED
    BY <1>2, <2>1 DEF DirectoryInv, RowsOfMembers
<1>5. HistoryIsOfThePair'
  BY DEF DirectoryInv, HistoryIsOfThePair, Pair
<1>. QED
  BY <1>1, <1>2, <1>3, <1>4, <1>5

(* The transaction has created a chat and returns it.                      *)
LEMMA CreateKeeps ==
  ASSUME DirectoryInv, NEW c \in Callers, Create(c)
  PROVE  DirectoryInv'
<1>1. PICK k \in Chats : /\ members[k] = {}
                        /\ members' = [members EXCEPT ![k] = Pair(c)]
                        /\ chatID' = [chatID EXCEPT ![c] = k]
  BY DEF Create
<1>2. /\ pc' = [pc EXCEPT ![c] = "found"]
      /\ UNCHANGED <<rows, from, to, read>>
  BY DEF Create, Goto
<1>3. /\ members' \in [Chats -> SUBSET Users]
      /\ \A l \in Chats : members[l] \subseteq members'[l]
      /\ ChatsOfTwo' /\ RowsOfMembers' /\ HistoryIsOfThePair'
  BY <1>1, <1>2, NewChatKeeps
<1>4. DirectoryTypeOK'
  BY <1>1, <1>2, <1>3 DEF DirectoryInv, DirectoryTypeOK
<1>5. FoundIsTheirs'
  <2>1. SUFFICES ASSUME NEW d \in Callers, pc'[d] = "found"
                 PROVE  chatID'[d] \in Chats /\ Pair(d)' \subseteq members'[chatID'[d]]
    BY DEF FoundIsTheirs
  <2>2. CASE d = c
    BY <1>1, <1>2, <2>2 DEF DirectoryInv, DirectoryTypeOK, Pair
  <2>3. CASE d # c
    <3>1. chatID'[d] = chatID[d] /\ pc[d] = "found"
      BY <1>1, <1>2, <2>1, <2>3 DEF DirectoryInv, DirectoryTypeOK
    <3>2. chatID[d] \in Chats /\ Pair(d) \subseteq members[chatID[d]]
      BY <3>1 DEF DirectoryInv, FoundIsTheirs
    <3>. QED
      BY <1>2, <1>3, <3>1, <3>2 DEF Pair
  <2>. QED
    BY <2>2, <2>3
<1>. QED
  BY <1>3, <1>4, <1>5 DEF DirectoryInv

(* A failure ends the call; the COMMIT may have had its effect.            *)
LEMMA FailKeeps ==
  ASSUME DirectoryInv, NEW c \in Callers, Fail(c)
  PROVE  DirectoryInv'
<1>1. /\ Goto(c, "over") /\ UNCHANGED <<rows, from, to, chatID, read>>
  BY DEF Fail
<1>2. CASE UNCHANGED members
  BY <1>1, <1>2, MoveKeeps
<1>3. ASSUME NEW k \in Chats, members[k] = {},
             members' = [members EXCEPT ![k] = Pair(c)]
      PROVE  DirectoryInv'
  <2>1. /\ members' \in [Chats -> SUBSET Users]
        /\ \A l \in Chats : members[l] \subseteq members'[l]
        /\ ChatsOfTwo' /\ RowsOfMembers' /\ HistoryIsOfThePair'
    BY <1>1, <1>3, NewChatKeeps
  <2>2. DirectoryTypeOK'
    BY <1>1, <2>1 DEF DirectoryInv, DirectoryTypeOK, Goto
  <2>3. FoundIsTheirs'
    BY <1>1, <2>1 DEF DirectoryInv, DirectoryTypeOK, FoundIsTheirs, Goto, Pair
  <2>. QED
    BY <2>1, <2>2, <2>3 DEF DirectoryInv
<1>. QED
  BY <1>2, <1>3 DEF Fail

(* A message is stored in the chat that was found: its sender and receiver *)
(* are members of it (dm.go:43).                                           *)
LEMMA InsertMessageKeeps ==
  ASSUME DirectoryInv, NEW c \in Callers, InsertMessage(c)
  PROVE  DirectoryInv'
<1> DEFINE new == [by |-> c, from |-> from[c], to |-> to[c], chat |-> chatID[c]]
<1>1. /\ pc[c] = "found" /\ rows' = rows \union {new} /\ pc' = [pc EXCEPT ![c] = "over"]
      /\ UNCHANGED <<members, from, to, chatID, read>>
  BY DEF InsertMessage, Goto
<1>2. chatID[c] \in Chats /\ Pair(c) \subseteq members[chatID[c]]
  BY <1>1 DEF DirectoryInv, FoundIsTheirs
<1>3. new \in Row
  BY <1>2 DEF DirectoryInv, DirectoryTypeOK, Row
<1>4. DirectoryTypeOK'
  BY <1>1, <1>3 DEF DirectoryInv, DirectoryTypeOK
<1>5. FoundIsTheirs'
  BY <1>1 DEF DirectoryInv, DirectoryTypeOK, FoundIsTheirs, Pair
<1>6. RowsOfMembers'
  <2>1. {new.from, new.to} \subseteq members[new.chat]
    BY <1>2 DEF Pair
  <2>. QED
    BY <1>1, <2>1 DEF DirectoryInv, RowsOfMembers
<1>7. ChatsOfTwo' /\ HistoryIsOfThePair'
  BY <1>1 DEF DirectoryInv, ChatsOfTwo, HistoryIsOfThePair, Pair
<1>. QED
  BY <1>4, <1>5, <1>6, <1>7 DEF DirectoryInv

(* The rows of a chat of two different users are between members of it,    *)
(* and it has no others (main.go:257-265).                                 *)
LEMMA ReadHistoryKeeps ==
  ASSUME DirectoryInv, NEW c \in Callers, ReadHistory(c)
  PROVE  DirectoryInv'
<1>1. /\ pc[c] = "found" /\ pc' = [pc EXCEPT ![c] = "over"]
      /\ read' = [read EXCEPT ![c] = {r \in rows : r.chat = chatID[c]}]
      /\ UNCHANGED <<members, rows, from, to, chatID>>
  BY DEF ReadHistory, Goto
<1>2. chatID[c] \in Chats /\ Pair(c) \subseteq members[chatID[c]]
  BY <1>1 DEF DirectoryInv, FoundIsTheirs
<1>3. DirectoryTypeOK'
  BY <1>1 DEF DirectoryInv, DirectoryTypeOK
<1>4. FoundIsTheirs'
  BY <1>1 DEF DirectoryInv, DirectoryTypeOK, FoundIsTheirs, Pair
<1>5. RowsOfMembers' /\ ChatsOfTwo'
  BY <1>1 DEF DirectoryInv, RowsOfMembers, ChatsOfTwo
<1>6. HistoryIsOfThePair'
  <2>1. SUFFICES ASSUME NEW d \in Callers, from[d] # to[d], NEW r \in read'[d]
                 PROVE  {r.from, r.to} \subseteq Pair(d)
    BY <1>1 DEF HistoryIsOfThePair, Pair
  <2>2. CASE d = c
    <3>1. r \in rows /\ r.chat = chatID[c]
      BY <1>1, <2>1, <2>2 DEF DirectoryInv, DirectoryTypeOK
    <3>2. members[chatID[c]] = Pair(c)
      BY <1>2, <2>1, <2>2, MembersAreThePair DEF DirectoryInv, Pair
    <3>. QED
      BY <2>2, <3>1, <3>2 DEF DirectoryInv, RowsOfMembers
  <2>3. CASE d # c
    <3>1. r \in read[d]
      BY <1>1, <2>1, <2>3 DEF DirectoryInv, DirectoryTypeOK
    <3>. QED
      BY <2>1, <3>1 DEF DirectoryInv, HistoryIsOfThePair
  <2>. QED
    BY <2>2, <2>3
<1>. QED
  BY <1>3, <1>4, <1>5, <1>6 DEF DirectoryInv

(* Every step keeps the invariant.                                         *)
LEMMA DirectoryInvStep == DirectoryInv /\ [DirectoryNext]_directoryVars => DirectoryInv'
<1> SUFFICES ASSUME DirectoryInv, [DirectoryNext]_directoryVars
             PROVE  DirectoryInv'
  OBVIOUS
<1>1. ASSUME NEW c \in Callers, Call(c) \/ LookupNone(c) \/ CreateSelf(c)
      PROVE  DirectoryInv'
  BY <1>1, MoveKeeps DEF Call, LookupNone, CreateSelf
<1>2. ASSUME NEW c \in Callers,
             LookupFound(c) \/ Create(c) \/ Fail(c) \/ InsertMessage(c) \/ ReadHistory(c)
      PROVE  DirectoryInv'
  BY <1>2, LookupFoundKeeps, CreateKeeps, FailKeeps, InsertMessageKeeps, ReadHistoryKeeps
<1>3. CASE UNCHANGED directoryVars
  BY <1>3 DEF directoryVars, callVars, DirectoryInv, DirectoryTypeOK, FoundIsTheirs, ChatsOfTwo,
              RowsOfMembers, HistoryIsOfThePair, Pair
<1>. QED
  BY <1>1, <1>2, <1>3 DEF DirectoryNext

(* The invariant holds in every reachable state.                           *)
LEMMA DirectoryInvHolds == DirectorySpec => []DirectoryInv
BY DirectoryInvInit, DirectoryInvStep, PTL DEF DirectorySpec

(* Every variable keeps its type: no row is stored outside of a chat, as   *)
(* FindOrCreateChat's errors end the handlers (dm.go:38-41).               *)
THEOREM DirectoryTypeCorrect == DirectorySpec => []DirectoryTypeOK
<1>1. DirectoryInv => DirectoryTypeOK
  BY DEF DirectoryInv
<1>. QED
  BY <1>1, DirectoryInvHolds, PTL

(* A history of two users holds only what they wrote to each other or to   *)
(* themselves, however many calls race and whichever chat the lookup takes *)
(* (messages.go:24-30, main.go:257-265).                                   *)
THEOREM HistoriesArePrivate == DirectorySpec => []HistoryIsOfThePair
<1>1. DirectoryInv => HistoryIsOfThePair
  BY DEF DirectoryInv
<1>. QED
  BY <1>1, DirectoryInvHolds, PTL

-----------------------------------------------------------------------------
(* With a chat of the pair no lookup of its calls finds none, and what the *)
(* calls of another pair create is not theirs.                             *)
LEMMA SettledStep ==
  ASSUME DirectoryInv, [DirectoryNext]_directoryVars, NEW c \in Callers, Settled(Pair(c))
  PROVE  Settled(Pair(c))' /\ ChatsOf(Pair(c))' = ChatsOf(Pair(c))
<1> DEFINE p == Pair(c)
<1>1. /\ ChatsOf(p) # {} /\ \A d \in Callers : Pair(d) = p => pc[d] # "create"
  BY DEF Settled
<1>2. UNCHANGED <<from, to>> /\ \A d \in Callers : Pair(d)' = Pair(d)
  <2>1. UNCHANGED <<from, to>>
    BY DEF DirectoryNext, directoryVars, callVars, Call, LookupFound, LookupNone, Create,
           CreateSelf, Fail, InsertMessage, ReadHistory
  <2>. QED
    BY <2>1 DEF Pair
<1>3. ASSUME NEW d \in Callers, pc'[d] = "create"
      PROVE  pc[d] = "create" \/ Matching(d) = {}
  BY <1>3 DEF DirectoryInv, DirectoryTypeOK, DirectoryNext, directoryVars, callVars, Goto, Call,
              LookupFound, LookupNone, Create, CreateSelf, Fail, InsertMessage, ReadHistory
<1>4. \A d \in Callers : Pair(d) = p => pc'[d] # "create"
  <2>1. ASSUME NEW d \in Callers, Pair(d) = p
        PROVE  Matching(d) # {}
    BY <1>1, <2>1 DEF ChatsOf, Matching
  <2>. QED
    BY <1>1, <1>3, <2>1
<1>5. \/ UNCHANGED members
      \/ \E d \in Callers, k \in Chats :
            /\ pc[d] = "create" /\ members[k] = {}
            /\ members' = [members EXCEPT ![k] = Pair(d)]
  BY DEF DirectoryNext, directoryVars, callVars, Call, LookupFound, LookupNone, Create,
         CreateSelf, Fail, InsertMessage, ReadHistory
<1>6. {k \in Chats : members'[k] = p} = ChatsOf(p)
  <2>1. CASE UNCHANGED members
    BY <2>1 DEF ChatsOf
  <2>2. ASSUME NEW d \in Callers, NEW k \in Chats, pc[d] = "create", members[k] = {},
               members' = [members EXCEPT ![k] = Pair(d)]
        PROVE  {l \in Chats : members'[l] = p} = ChatsOf(p)
    <3>1. Pair(d) # p /\ p # {}
      BY <1>1, <2>2 DEF Pair
    <3>2. \A l \in Chats : members'[l] = p <=> members[l] = p
      BY <2>2, <3>1 DEF DirectoryInv, DirectoryTypeOK
    <3>. QED
      BY <3>2 DEF ChatsOf
  <2>. QED
    BY <1>5, <2>1, <2>2
<1>7. ChatsOf(Pair(c))' = {k \in Chats : members'[k] = p}
  BY <1>2 DEF ChatsOf
<1>8. Settled(Pair(c))'
  BY <1>1, <1>2, <1>4, <1>6, <1>7 DEF Settled
<1>. QED
  BY <1>6, <1>7, <1>8

(* Once a pair has a chat and none of its calls is past its lookup, no     *)
(* other chat of theirs is created, for any number of calls and whatever   *)
(* fails (messages.go:24-40).                                              *)
THEOREM NoSecondChat == DirectorySpec => SettledStays
<1>1. DirectoryInv /\ [DirectoryNext]_directoryVars =>
        [\A c \in Callers : Settled(Pair(c)) =>
            Settled(Pair(c))' /\ ChatsOf(Pair(c))' = ChatsOf(Pair(c))]_directoryVars
  BY SettledStep
<1>. QED
  BY <1>1, DirectoryInvHolds, PTL DEF DirectorySpec, SettledStays

-----------------------------------------------------------------------------
(* Sequences, bags and sums, as far as the list of the page needs them.    *)

(* A sequence over a set is one over a larger set.                         *)
LEMMA SeqMono ==
  ASSUME NEW S, NEW T, S \subseteq T, NEW s \in Seq(S)
  PROVE  s \in Seq(T)
OBVIOUS

(* What a sequence of a finite set is.                                     *)
LEMMA SetToSeqIs ==
  ASSUME NEW S, IsFiniteSet(S)
  PROVE  SetToSeq(S) \in Seq(S) /\ Len(SetToSeq(S)) = Cardinality(S)
<1>1. Cardinality(S) \in Nat /\ ExistsBijection(1..Cardinality(S), S)
  BY FS_CardinalityType
<1>2. \E f \in [1..Cardinality(S) -> S] : IsInjective(f)
  BY <1>1 DEF ExistsBijection, Bijection, Injection
<1>3. SetToSeq(S) \in [1..Cardinality(S) -> S]
  BY <1>2 DEF SetToSeq
<1>. QED
  BY <1>1, <1>3

(* A function on 1..n is a sequence.                                       *)
LEMMA FcnIsSeq ==
  ASSUME NEW S, NEW n \in Nat, NEW f \in [1..n -> S]
  PROVE  f \in Seq(S)
OBVIOUS

(* The frames of some messages are frames of those messages.                *)
LEMMA FramesAre ==
  ASSUME NEW t, NEW ms, IsFiniteSet(ms)
  PROVE  Frames(t, ms) \in Seq([type : {t}, msg : ms])
<1>1. SetToSeq(ms) \in Seq(ms)
  BY SetToSeqIs
<1> DEFINE s == SetToSeq(ms)
<1>2. DOMAIN s = 1..Len(s) /\ Len(s) \in Nat /\ \A i \in 1..Len(s) : s[i] \in ms
  BY <1>1
<1>3. Frames(t, ms) = [i \in DOMAIN s |-> Frame(t, s[i])]
  BY DEF Frames
<1> HIDE DEF s
<1>4. Frames(t, ms) \in [1..Len(s) -> [type : {t}, msg : ms]]
  BY <1>2, <1>3 DEF Frame
<1>. QED
  BY <1>2, <1>4, FcnIsSeq

(* What the union of two bags is.                                           *)
LEMMA BagCupIs ==
  ASSUME NEW l, IsABag(l), NEW k, IsABag(k)
  PROVE  IsABag(l (+) k) /\ BagToSet(l (+) k) = BagToSet(l) \union BagToSet(k)
BY DEF (+), BagToSet, IsABag

(* What the bag of a set is.                                                *)
LEMMA SetToBagIs ==
  ASSUME NEW S
  PROVE  IsABag(SetToBag(S)) /\ BagToSet(SetToBag(S)) = S
BY DEF SetToBag, BagToSet, IsABag

(* A nonempty set of natural numbers has a least element.                  *)
LEMMA NatLeast ==
  ASSUME NEW T, T \subseteq Nat, T # {}
  PROVE  \E n \in T : \A k \in T : ~(k < n)
<1> DEFINE R == OpToRel(<, Nat)
<1>1. IsWellFoundedOn(R, Nat)
  BY NatLessThanWellFounded
<1>2. \E x \in T : \A y \in T : ~ (<<y, x>> \in R)
  BY <1>1, WFMin
<1>3. \A y, x \in Nat : y < x => <<y, x>> \in R
  BY DEF OpToRel
<1>. QED
  BY <1>2, <1>3

(* Induction up to a bound, stated of a set of numbers instead of a        *)
(* predicate.                                                              *)
LEMMA SetInduction ==
  ASSUME NEW N \in Nat, NEW T, 0 \in T, \A n \in 0..N : n \in T /\ n < N => n + 1 \in T
  PROVE  0..N \subseteq T
<1>1. SUFFICES ASSUME (0..N) \ T # {}
               PROVE  FALSE
  OBVIOUS
<1>2. PICK n \in (0..N) \ T : \A k \in (0..N) \ T : ~(k < n)
  <2>1. (0..N) \ T \subseteq Nat
    OBVIOUS
  <2>. QED
    BY <1>1, <2>1, NatLeast
<1>3. n # 0 /\ n - 1 \in 0..N /\ n - 1 < n /\ n - 1 < N
  BY <1>2
<1>4. n - 1 \in T
  BY <1>2, <1>3
<1>. QED
  BY <1>2, <1>3, <1>4

(* g holds the sums of the copies in l of the first elements of s.         *)
Sums(g, l, s, N) == g = [n \in 0..N |-> IF n = 0 THEN 0 ELSE g[n - 1] + l[s[n]]]

(* The recursive function by which Copies is defined exists.               *)
LEMMA SumsExist ==
  ASSUME NEW l, NEW s, NEW N \in Nat
  PROVE  \E g : Sums(g, l, s, N)
<1> DEFINE T == {n \in 0..N : \E g : Sums(g, l, s, n)}
<1>1. 0 \in T
  <2> DEFINE g == [n \in 0..0 |-> 0]
  <2>1. Sums(g, l, s, 0)
    BY DEF Sums
  <2>. QED
    BY <2>1
<1>2. ASSUME NEW n \in 0..N, n \in T, n < N
      PROVE  n + 1 \in T
  <2>1. PICK g : Sums(g, l, s, n)
    BY <1>2
  <2> DEFINE h == [k \in 0..(n + 1) |-> IF k = n + 1 THEN g[n] + l[s[n + 1]] ELSE g[k]]
  <2>2. Sums(h, l, s, n + 1)
    <3>1. ASSUME NEW k \in 0..(n + 1)
          PROVE  h[k] = IF k = 0 THEN 0 ELSE h[k - 1] + l[s[k]]
      <4>1. CASE k = n + 1
        <5>1. k # 0 /\ k - 1 = n /\ n \in 0..(n + 1) /\ n # n + 1
          BY <4>1
        <5>. QED
          BY <4>1, <5>1
      <4>2. CASE k = 0
        <5>1. 0 \in 0..n /\ 0 # n + 1
          OBVIOUS
        <5>. QED
          BY <2>1, <4>2, <5>1 DEF Sums
      <4>3. CASE k # 0 /\ k # n + 1
        <5>1. k \in 0..n /\ k - 1 \in 0..n /\ k - 1 \in 0..(n + 1) /\ k - 1 # n + 1
          BY <4>3
        <5>2. g[k] = g[k - 1] + l[s[k]]
          BY <2>1, <4>3, <5>1 DEF Sums
        <5>. QED
          BY <4>3, <5>1, <5>2
      <4>. QED
        BY <4>1, <4>2, <4>3
    <3>2. h = [k \in 0..(n + 1) |-> h[k]]
      OBVIOUS
    <3>. QED
      BY <3>1, <3>2 DEF Sums
  <2>3. n + 1 \in 0..N
    BY <1>2
  <2>. QED
    BY <2>2, <2>3
<1>3. N \in T
  <2>1. 0..N \subseteq T
    <3> HIDE DEF T
    <3>. QED
      BY <1>1, <1>2, SetInduction
  <2>. QED
    BY <2>1
<1>. QED
  BY <1>3

(* Of a nonempty part of a bag there is a copy.                            *)
LEMMA CopiesIs ==
  ASSUME NEW l, NEW S, IsFiniteSet(S), S # {}, \A e \in S : l[e] \in Nat \ {0}
  PROVE  Copies(l, S) \in Nat \ {0}
<1> DEFINE s == SetToSeq(S)
           N == Len(s)
           g == CHOOSE h : Sums(h, l, s, N)
<1>1. /\ s \in Seq(S) /\ N \in Nat /\ N # 0
      /\ \A n \in 1..N : s[n] \in S
  <2>1. SetToSeq(S) \in Seq(S) /\ Len(SetToSeq(S)) = Cardinality(S)
    BY SetToSeqIs
  <2>2. Cardinality(S) # 0
    BY FS_EmptySet
  <2>. QED
    BY <2>1, <2>2
<1>2. Copies(l, S) = g[N]
  BY DEF Copies, Sums
<1> HIDE DEF s, N
<1>3. Sums(g, l, s, N)
  BY <1>1, SumsExist
<1> HIDE DEF g
<1>4. g[0] = 0 /\ \A n \in 0..N : n < N => g[n + 1] = g[n] + l[s[n + 1]]
  <2>1. 0 \in 0..N
    BY <1>1
  <2>2. ASSUME NEW n \in 0..N, n < N
        PROVE  g[n + 1] = g[n] + l[s[n + 1]]
    <3>1. n + 1 \in 0..N /\ n + 1 # 0 /\ (n + 1) - 1 = n
      BY <1>1, <2>2
    <3>. QED
      BY <1>3, <3>1 DEF Sums
  <2>. QED
    BY <1>3, <2>1, <2>2 DEF Sums
<1> DEFINE T == {n \in 0..N : g[n] \in Nat /\ (n > 0 => g[n] > 0)}
<1>5. 0 \in T
  BY <1>1, <1>4
<1>6. ASSUME NEW n \in 0..N, n \in T, n < N
      PROVE  n + 1 \in T
  <2>1. n + 1 \in 1..N /\ n + 1 \in 0..N
    BY <1>1, <1>6
  <2>2. l[s[n + 1]] \in Nat \ {0}
    BY <1>1, <2>1
  <2>3. g[n + 1] = g[n] + l[s[n + 1]]
    BY <1>4, <1>6
  <2>. QED
    BY <1>6, <2>1, <2>2, <2>3
<1>7. 0..N \subseteq T
  <2> HIDE DEF T
  <2>. QED
    BY <1>1, <1>5, <1>6, SetInduction
<1>. QED
  BY <1>1, <1>2, <1>7

(* The entries of a message are finitely many.                             *)
LEMMA EntriesFinite ==
  ASSUME NEW m, NEW S, S \subseteq Entry, \A e \in S : e.msg = m
  PROVE  IsFiniteSet(S)
<1> DEFINE A == {Listed(m, "client", "sent")} \union {Listed(m, "client", "delivered")}
           B == {Listed(m, "client", "read")} \union {Listed(m, "server", "sent")}
           C == {Listed(m, "server", "delivered")} \union {Listed(m, "server", "read")}
<1>1. IsFiniteSet((A \union B) \union C)
  <2>1. IsFiniteSet(A) /\ IsFiniteSet(B) /\ IsFiniteSet(C)
    BY FS_Singleton, FS_Union
  <2>2. IsFiniteSet(A \union B)
    <3> HIDE DEF A, B
    <3>. QED
      BY <2>1, FS_Union
  <2>. QED
    <3> HIDE DEF A, B, C
    <3>. QED
      BY <2>1, <2>2, FS_Union
<1>2. S \subseteq (A \union B) \union C
  BY DEF Entry, Listed
<1>. QED
  BY <1>1, <1>2, FS_Subset

(* A function that leaves the message of an entry alone makes a bag of a   *)
(* bag.                                                                    *)
LEMMA ChangedIs ==
  ASSUME NEW l, IsABag(l), BagToSet(l) \subseteq Entry,
         NEW f, \A e \in BagToSet(l) \intersect DOMAIN f : f[e].msg = e.msg
  PROVE  /\ IsABag(Changed(l, f))
         /\ BagToSet(Changed(l, f)) =
               {IF e \in DOMAIN f THEN f[e] ELSE e : e \in BagToSet(l)}
<1> DEFINE image(e) == IF e \in DOMAIN f THEN f[e] ELSE e
           fibre(x) == {e \in BagToSet(l) : image(e) = x}
           D == {image(e) : e \in BagToSet(l)}
<1>1. Changed(l, f) = [x \in D |-> Copies(l, fibre(x))]
  BY DEF Changed
<1>2. ASSUME NEW x \in D
      PROVE  Copies(l, fibre(x)) \in Nat \ {0}
  <2>1. fibre(x) \subseteq Entry /\ \A e \in fibre(x) : e.msg = x.msg
    OBVIOUS
  <2>2. IsFiniteSet(fibre(x))
    <3> HIDE DEF fibre
    <3>. QED
      BY <2>1, EntriesFinite
  <2>3. fibre(x) # {}
    OBVIOUS
  <2>4. \A e \in fibre(x) : l[e] \in Nat \ {0}
    BY DEF IsABag, BagToSet
  <2>. QED
    <3> HIDE DEF fibre
    <3>. QED
      BY <2>2, <2>3, <2>4, CopiesIs
<1>3. IsABag(Changed(l, f))
  <2> HIDE DEF D, fibre
  <2>. QED
    BY <1>1, <1>2 DEF IsABag
<1>. QED
  BY <1>1, <1>3 DEF BagToSet

-----------------------------------------------------------------------------
(* The list of the page.                                                   *)

(* What an entry says of its message is so: it is stored if it is more     *)
(* than sent, and somebody has read it if it is read.                      *)
IsTrue(e) ==
    /\ e \in Entry
    /\ e.id = "client" => e.msg \in Mine
    /\ e.msg \in Mine /\ e.status # "sent" => row[e.msg] # "none"
    /\ e.status = "read" => e.msg \in readBy \union seen

ListTrue == \A e \in BagToSet(list) : IsTrue(e)

(* So it is with the rows of the database, ...                             *)
RowsTrue ==
    /\ \A m \in Messages : row[m] = "read" => m \in readBy \union seen
    /\ \A m \in readBy : row[m] # "none"
    /\ serving # Nothing => row[serving] # "none"

(* ... with an answered history, ...                                       *)
FetchTrue ==
    fetch \in Rows =>
        \A m \in Messages :
            /\ fetch[m] # "none" => row[m] # "none"
            /\ fetch[m] = "read" => m \in readBy \union seen

(* ... and with the frames on their way.                                   *)
UpFrame == [type : {"message"}, msg : Mine] \union [type : {"ack"}, msg : seen]

DownFrame ==
    [type : {"message"}, msg : Theirs]
      \union [type : {"sent"}, msg : {m \in Mine : row[m] # "none"}]
      \union [type : {"read"}, msg : readBy]

FramesTrue == up \in Seq(UpFrame) /\ down \in Seq(DownFrame)

StoreInv == TypeOK /\ ListTrue /\ RowsTrue /\ FetchTrue /\ FramesTrue

(* MessagesAssumption and the type tell the sets of messages apart.        *)
LEMMA ReadByOrSeen ==
  ASSUME StoreInv, NEW m \in readBy \union seen
  PROVE  (m \in Mine => m \in readBy) /\ (m \in Theirs => m \in seen)
BY MessagesAssumption DEF StoreInv, TypeOK

(* Nothing is stored before the page has done anything.                    *)
LEMMA StoreInvInit == Init => StoreInv
<1> SUFFICES ASSUME Init
             PROVE  StoreInv
  OBVIOUS
<1>1. IsABag(list) /\ BagToSet(list) = {}
  BY DEF Init, EmptyBag, SetToBag, IsABag, BagToSet
<1>2. TypeOK
  <2>1. row \in Rows
    BY DEF Init, Rows
  <2>2. <<>> \in Seq([type : {"message", "ack"}, msg : Messages])
    OBVIOUS
  <2>3. <<>> \in Seq([type : {"message", "sent", "read"}, msg : Messages])
    OBVIOUS
  <2>. QED
    BY <1>1, <2>1, <2>2, <2>3 DEF Init, TypeOK
<1>3. ListTrue /\ RowsTrue /\ FetchTrue /\ FramesTrue
  BY <1>1, TokensAssumption DEF Init, ListTrue, RowsTrue, FetchTrue, FramesTrue
<1>. QED
  BY <1>2, <1>3 DEF StoreInv

(* No row disappears, and what was read or seen stays so.                  *)
Grows ==
    /\ \A m \in Messages : row[m] # "none" => row'[m] # "none"
    /\ readBy \subseteq readBy'
    /\ seen \subseteq seen'

(* While they grow, what was true of an entry, an answer and the frames    *)
(* stays true.                                                             *)
LEMMA TrueStays ==
  ASSUME StoreInv, Grows
  PROVE  /\ \A e : IsTrue(e) => IsTrue(e)'
         /\ UNCHANGED list => IsABag(list') /\ ListTrue'
         /\ UNCHANGED fetch => FetchTrue'
         /\ Seq(UpFrame) \subseteq Seq(UpFrame')
         /\ Seq(DownFrame) \subseteq Seq(DownFrame')
<1>1. \A e : IsTrue(e) => IsTrue(e)'
  BY DEF Grows, IsTrue, Entry, Messages
<1>2. UNCHANGED list => IsABag(list') /\ ListTrue'
  BY <1>1 DEF StoreInv, TypeOK, ListTrue
<1>3. UNCHANGED fetch => FetchTrue'
  BY DEF Grows, StoreInv, FetchTrue
<1>4. UpFrame \subseteq UpFrame'
  BY DEF Grows, UpFrame
<1>5. DownFrame \subseteq DownFrame'
  BY DEF Grows, DownFrame, Messages
<1>6. Seq(UpFrame) \subseteq Seq(UpFrame') /\ Seq(DownFrame) \subseteq Seq(DownFrame')
  BY <1>4, <1>5, SeqMono
<1>. QED
  BY <1>1, <1>2, <1>3, <1>6

(* The invariant of the next state, put together.                          *)
LEMMA Together ==
  ASSUME StoreInv, Grows, IsABag(list'), ListTrue', RowsTrue',
         chat' \in BOOLEAN, acked' \subseteq Theirs, seen' \subseteq Theirs,
         open' \in BOOLEAN, hooked' \in BOOLEAN,
         ~open' => ~hooked' /\ up' = <<>> /\ down' = <<>>,
         up' \in Seq(UpFrame'), down' \in Seq(DownFrame'),
         fetch' = fetch \/ fetch' \in {Asked, Nothing} \/ fetch' = row',
         row' \in Rows, serving' \in Mine \union {Nothing}, readBy' \subseteq Mine,
         pushed' \in [Theirs -> {"no", "stored", "pushed", "done"}]
  PROVE  StoreInv'
<1>1. BagToSet(list') \subseteq Entry /\ \A e \in BagToSet(list') : e.id = "client" => e.msg \in Mine
  BY DEF ListTrue, IsTrue
<1>2. up' \in Seq([type : {"message", "ack"}, msg : Messages])
  <2>1. UpFrame' \subseteq [type : {"message", "ack"}, msg : Messages]
    BY DEF UpFrame, Messages
  <2>. QED
    BY <2>1, SeqMono
<1>3. down' \in Seq([type : {"message", "sent", "read"}, msg : Messages])
  <2>1. DownFrame' \subseteq [type : {"message", "sent", "read"}, msg : Messages]
    BY DEF DownFrame, Messages
  <2>. QED
    BY <2>1, SeqMono
<1>4. fetch' \in Rows \/ fetch' \in {Asked, Nothing}
  BY DEF StoreInv, TypeOK
<1>5. TypeOK'
  BY <1>1, <1>2, <1>3, <1>4 DEF TypeOK
<1>6. FetchTrue'
  <2>1. CASE fetch' = fetch
    BY <2>1, TrueStays
  <2>2. CASE fetch' \in {Asked, Nothing}
    BY <2>2, TokensAssumption DEF FetchTrue
  <2>3. CASE fetch' = row'
    BY <2>3 DEF FetchTrue, RowsTrue
  <2>. QED
    BY <2>1, <2>2, <2>3
<1>. QED
  BY <1>5, <1>6 DEF StoreInv, FramesTrue

-----------------------------------------------------------------------------
(* The effect of ChatWindow on a list whose entries are true: what it      *)
(* marks as read is now seen, and only that is acknowledged.               *)
LEMMA ShowKeeps ==
  ASSUME StoreInv, NEW l, IsABag(l), \A e \in BagToSet(l) : IsTrue(e),
         NEW sent \in Seq([type : {"message"}, msg : Mine]), Show(l, sent),
         UNCHANGED <<row, readBy>>
  PROVE  /\ Grows
         /\ IsABag(list') /\ ListTrue'
         /\ acked' \subseteq Theirs /\ seen' \subseteq Theirs
         /\ up' \in Seq(UpFrame') /\ (~open => up' = up)
<1>0. PICK new : new = IF chat' THEN Unacked(l) ELSE {}
  OBVIOUS
<1> DEFINE these == {e \in BagToSet(l) : e.msg \in new}
           f == MarkedRead(these)
<1>1. /\ list' = Changed(l, f)
      /\ acked' = acked \union new
      /\ seen' = seen \union new
      /\ up' = IF open THEN up \o sent \o Frames("ack", new) ELSE up
  BY <1>0 DEF Show
<1>2. new \subseteq Theirs /\ IsFiniteSet(new)
  <2>1. new \subseteq Theirs
    BY <1>0 DEF Unacked
  <2>2. IsFiniteSet(Theirs)
    BY MessagesAssumption
  <2>. QED
    BY <2>1, <2>2, FS_Subset
<1>3. f = [e \in these |-> [e EXCEPT !.status = "read"]]
  BY DEF MarkedRead
<1>4. BagToSet(l) \subseteq Entry /\ these \subseteq BagToSet(l)
  BY DEF IsTrue
<1>5. Grows
  BY <1>1 DEF Grows
<1>6. \A e \in these : f[e] = [e EXCEPT !.status = "read"] /\ f[e].msg = e.msg
  <2>1. ASSUME NEW e \in these
        PROVE  [e EXCEPT !.status = "read"].msg = e.msg
    BY <1>4, <2>1 DEF Entry
  <2>. QED
    BY <1>3, <2>1
<1>7. /\ IsABag(list')
      /\ BagToSet(list') = {IF e \in these THEN f[e] ELSE e : e \in BagToSet(l)}
  <2>1. DOMAIN f = these
    BY <1>3
  <2> HIDE DEF f, these
  <2>. QED
    BY <1>1, <1>4, <1>6, <2>1, ChangedIs
<1>8. ListTrue'
  <2>1. ASSUME NEW e \in these
        PROVE  IsTrue(f[e])'
    <3>1. IsTrue(e)
      BY <1>4, <2>1
    <3>2. e \in Entry /\ e.msg \in new /\ e.msg \in Theirs /\ e.msg \notin Mine
      BY <1>2, <1>4, <2>1, MessagesAssumption
    <3>3. /\ f[e] \in Entry
          /\ f[e].msg = e.msg /\ f[e].id = e.id /\ f[e].status = "read"
      BY <1>6, <3>2 DEF Entry
    <3>4. f[e].msg \in readBy' \union seen'
      BY <1>1, <3>2, <3>3
    <3>5. f[e].id = "client" => f[e].msg \in Mine
      BY <3>1, <3>2, <3>3 DEF IsTrue
    <3>6. f[e].msg \notin Mine
      BY <3>2, <3>3
    <3> HIDE DEF f, these
    <3>. QED
      BY <3>3, <3>4, <3>5, <3>6 DEF IsTrue
  <2>2. ASSUME NEW e \in BagToSet(l)
        PROVE  IsTrue(e)'
    BY <1>5, <2>2, TrueStays
  <2>3. SUFFICES ASSUME NEW x \in BagToSet(list')
                 PROVE  IsTrue(x)'
    BY DEF ListTrue
  <2>4. PICK e \in BagToSet(l) : x = IF e \in these THEN f[e] ELSE e
    BY <1>7, <2>3
  <2> HIDE DEF f, these
  <2>. QED
    BY <2>1, <2>2, <2>4
<1>9. acked' \subseteq Theirs /\ seen' \subseteq Theirs
  BY <1>1, <1>2 DEF StoreInv, TypeOK
<1>10. up' \in Seq(UpFrame')
  <2>1. up \in Seq(UpFrame')
    BY <1>5, TrueStays DEF StoreInv, FramesTrue
  <2>2. sent \in Seq(UpFrame')
    <3>1. [type : {"message"}, msg : Mine] \subseteq UpFrame'
      BY DEF UpFrame
    <3>. QED
      BY <3>1, SeqMono
  <2>3. Frames("ack", new) \in Seq(UpFrame')
    <3>1. [type : {"ack"}, msg : new] \subseteq UpFrame'
      BY <1>1 DEF UpFrame
    <3>2. Frames("ack", new) \in Seq([type : {"ack"}, msg : new])
      BY <1>2, FramesAre
    <3>. QED
      BY <3>1, <3>2, SeqMono
  <2>. QED
    BY <1>1, <2>1, <2>2, <2>3
<1>. QED
  BY <1>1, <1>5, <1>7, <1>8, <1>9, <1>10

(* A task of the page that shows a list: what it leaves alone, what it may *)
(* take from the connection and what it asks for.                          *)
LEMMA PageKeeps ==
  ASSUME StoreInv, NEW l, IsABag(l), \A e \in BagToSet(l) : IsTrue(e),
         NEW sent \in Seq([type : {"message"}, msg : Mine]), Show(l, sent),
         chat' \in BOOLEAN, UNCHANGED <<open, hooked, serverVars>>,
         down' = down \/ (hooked /\ down # <<>> /\ down' = Tail(down)),
         fetch' = fetch \/ fetch' \in {Asked, Nothing}
  PROVE  StoreInv'
<1>1. UNCHANGED <<row, serving, pushed, readBy>>
  BY DEF serverVars
<1>2. /\ Grows
      /\ IsABag(list') /\ ListTrue'
      /\ acked' \subseteq Theirs /\ seen' \subseteq Theirs
      /\ up' \in Seq(UpFrame') /\ (~open => up' = up)
  BY <1>1, ShowKeeps
<1>3. down' \in Seq(DownFrame')
  <2>1. down' \in Seq(DownFrame)
    BY DEF StoreInv, FramesTrue
  <2>. QED
    BY <1>2, <2>1, TrueStays
<1>4. RowsTrue'
  BY <1>1, <1>2 DEF StoreInv, RowsTrue, Grows
<1>5. ~open' => ~hooked' /\ up' = <<>> /\ down' = <<>>
  BY <1>2 DEF StoreInv, TypeOK
<1>6. /\ row' \in Rows /\ serving' \in Mine \union {Nothing} /\ readBy' \subseteq Mine
      /\ pushed' \in [Theirs -> {"no", "stored", "pushed", "done"}]
      /\ open' \in BOOLEAN /\ hooked' \in BOOLEAN
  BY <1>1 DEF StoreInv, TypeOK
<1>. QED
  BY <1>2, <1>3, <1>4, <1>5, <1>6, Together

(* The window opens and asks for the history (ChatWindow.tsx:41-64).        *)
LEMMA OpenChatKeeps ==
  ASSUME StoreInv, OpenChat
  PROVE  StoreInv'
<1>1. PICK l : l = list
  OBVIOUS
<1>2. IsABag(l) /\ \A e \in BagToSet(l) : IsTrue(e)
  BY <1>1 DEF StoreInv, TypeOK, ListTrue
<1>3. Show(l, <<>>)
  BY <1>1 DEF OpenChat, Show
<1>4. <<>> \in Seq([type : {"message"}, msg : Mine])
  OBVIOUS
<1>. QED
  BY <1>2, <1>3, <1>4, PageKeeps DEF OpenChat

(* The user sends a message: the entry says no more than that.             *)
LEMMA TypeKeeps ==
  ASSUME StoreInv, NEW m \in Mine, Type(m)
  PROVE  StoreInv'
<1>1. PICK l : l = list (+) SetToBag({Listed(m, "client", "sent")})
  OBVIOUS
<1>2. IsABag(l) /\ BagToSet(l) = BagToSet(list) \union {Listed(m, "client", "sent")}
  BY <1>1, SetToBagIs, BagCupIs DEF StoreInv, TypeOK
<1>3. IsTrue(Listed(m, "client", "sent"))
  BY DEF IsTrue, Entry, Listed, Messages
<1>4. \A e \in BagToSet(l) : IsTrue(e)
  BY <1>2, <1>3 DEF StoreInv, ListTrue
<1>5. Show(l, <<Frame("message", m)>>)
  BY <1>1 DEF Type, Show
<1>6. <<Frame("message", m)>> \in Seq([type : {"message"}, msg : Mine])
  BY DEF Frame
<1>7. chat' \in BOOLEAN
  BY DEF Type, StoreInv, TypeOK
<1>. QED
  BY <1>2, <1>4, <1>5, <1>6, <1>7, PageKeeps DEF Type

(* What the frame at the head of the connection says is so.                *)
LEMMA HeadIs ==
  ASSUME StoreInv, NEW type, Received(type)
  PROVE  /\ hooked /\ down # <<>>
         /\ type = "message" => Head(down).msg \in Theirs
         /\ type = "sent" => Head(down).msg \in Mine /\ row[Head(down).msg] # "none"
         /\ type = "read" => Head(down).msg \in readBy
<1>1. hooked /\ down # <<>> /\ Head(down).type = type
  BY DEF Received
<1>2. PICK frame \in DownFrame : frame = Head(down)
  BY <1>1 DEF StoreInv, FramesTrue
<1>. QED
  BY <1>1, <1>2 DEF DownFrame

(* A message of the partner's arrives (useWebSocket.ts:66-79).              *)
LEMMA MessageFrameKeeps ==
  ASSUME StoreInv, MessageFrame
  PROVE  StoreInv'
<1>1. PICK m : m = Head(down).msg
  OBVIOUS
<1>2. m \in Theirs /\ hooked /\ down # <<>>
  <2>1. Received("message")
    BY DEF MessageFrame
  <2>. QED
    BY <1>1, <2>1, HeadIs
<1>3. PICK l : l = list (+) SetToBag({Listed(m, "server", "delivered")})
  OBVIOUS
<1>4. IsABag(l) /\ BagToSet(l) = BagToSet(list) \union {Listed(m, "server", "delivered")}
  BY <1>3, SetToBagIs, BagCupIs DEF StoreInv, TypeOK
<1>5. IsTrue(Listed(m, "server", "delivered"))
  BY <1>2, MessagesAssumption DEF IsTrue, Entry, Listed, Messages
<1>6. \A e \in BagToSet(l) : IsTrue(e)
  BY <1>4, <1>5 DEF StoreInv, ListTrue
<1>7. Show(l, <<>>)
  BY <1>1, <1>3 DEF MessageFrame, Show
<1>8. <<>> \in Seq([type : {"message"}, msg : Mine])
  OBVIOUS
<1>9. chat' \in BOOLEAN
  BY DEF MessageFrame, StoreInv, TypeOK
<1>. QED
  BY <1>2, <1>4, <1>6, <1>7, <1>8, <1>9, PageKeeps DEF MessageFrame

(* The history is merged into the list: its entries are what the rows      *)
(* were, and nobody takes back what he has stored or read                  *)
(* (store.ts:83-92).                                                       *)
LEMMA MergeKeeps ==
  ASSUME StoreInv, Merge
  PROVE  StoreInv'
<1>1. fetch \in Rows /\ fetch' = Nothing /\ chat' \in BOOLEAN
      /\ UNCHANGED <<open, hooked, down, serverVars>>
  BY DEF Merge, StoreInv, TypeOK
<1>2. CASE Fetched = {}
  <2>1. UNCHANGED <<list, acked, seen, up>>
    BY <1>2 DEF Merge
  <2>2. UNCHANGED <<row, serving, pushed, readBy>>
    BY <1>1 DEF serverVars
  <2>3. Grows
    BY <2>1, <2>2 DEF Grows
  <2>4. IsABag(list') /\ ListTrue' /\ up' \in Seq(UpFrame') /\ down' \in Seq(DownFrame')
    BY <1>1, <2>1, <2>3, TrueStays DEF StoreInv, FramesTrue
  <2>5. RowsTrue'
    BY <2>1, <2>2 DEF StoreInv, RowsTrue
  <2>. QED
    BY <1>1, <2>1, <2>2, <2>3, <2>4, <2>5, Together DEF StoreInv, TypeOK
<1>3. CASE Fetched # {}
  <2>1. PICK l : l = History (+) LocalOnly
    OBVIOUS
  <2>2. IsABag(History) /\ BagToSet(History) = {Listed(m, "server", fetch[m]) : m \in Fetched}
    BY SetToBagIs DEF History
  <2>3. IsABag(LocalOnly) /\ BagToSet(LocalOnly) \subseteq BagToSet(list)
    BY DEF LocalOnly, StoreInv, TypeOK, IsABag, BagToSet
  <2>4. IsABag(l) /\ BagToSet(l) = BagToSet(History) \union BagToSet(LocalOnly)
    BY <2>1, <2>2, <2>3, BagCupIs
  <2>5. ASSUME NEW m \in Fetched
        PROVE  IsTrue(Listed(m, "server", fetch[m]))
    <3>1. m \in Messages /\ fetch[m] # "none" /\ fetch[m] \in {"none", "sent", "delivered", "read"}
      BY <1>1 DEF Fetched, Rows
    <3>2. /\ row[m] # "none"
          /\ fetch[m] = "read" => m \in readBy \union seen
      BY <1>1, <3>1 DEF StoreInv, FetchTrue
    <3>. QED
      BY <3>1, <3>2 DEF IsTrue, Entry, Listed
  <2>6. \A e \in BagToSet(l) : IsTrue(e)
    BY <2>2, <2>3, <2>4, <2>5 DEF StoreInv, ListTrue
  <2>7. Show(l, <<>>)
    BY <1>3, <2>1 DEF Merge, Show
  <2>8. <<>> \in Seq([type : {"message"}, msg : Mine])
    OBVIOUS
  <2>. QED
    BY <1>1, <2>4, <2>6, <2>7, <2>8, PageKeeps
<1>. QED
  BY <1>2, <1>3

(* Some entries of the list change their id or their status, as a frame    *)
(* says that left a true one.                                              *)
LEMMA FrameKeeps ==
  ASSUME StoreInv, NEW f, list' = Changed(list, f), hooked, down # <<>>,
         DOMAIN f \subseteq BagToSet(list),
         \A e \in DOMAIN f : f[e].msg = e.msg /\ IsTrue(f[e]),
         down' = Tail(down),
         UNCHANGED <<chat, acked, seen, open, hooked, up, fetch, serverVars>>
  PROVE  StoreInv'
<1>1. UNCHANGED <<row, serving, pushed, readBy>>
  BY DEF serverVars
<1>2. Grows
  BY <1>1 DEF Grows
<1>3. PICK l : l = list
  OBVIOUS
<1>4. IsABag(l) /\ BagToSet(l) \subseteq Entry
  BY <1>3 DEF StoreInv, TypeOK
<1>5. /\ IsABag(Changed(l, f))
      /\ BagToSet(Changed(l, f)) = {IF e \in DOMAIN f THEN f[e] ELSE e : e \in BagToSet(l)}
  BY <1>4, ChangedIs
<1>6. list' = Changed(l, f)
  BY <1>3
<1>7. ASSUME NEW x \in BagToSet(list')
      PROVE  IsTrue(x)'
  <2>1. PICK e \in BagToSet(l) : x = IF e \in DOMAIN f THEN f[e] ELSE e
    BY <1>5, <1>6, <1>7
  <2>2. IsTrue(x)
    BY <1>3, <2>1 DEF StoreInv, ListTrue
  <2>. QED
    BY <1>2, <2>2, TrueStays
<1>8. IsABag(list') /\ ListTrue'
  BY <1>5, <1>6, <1>7 DEF ListTrue
<1>9. up' \in Seq(UpFrame') /\ down' \in Seq(DownFrame')
  <2>1. up' \in Seq(UpFrame) /\ down' \in Seq(DownFrame)
    BY DEF StoreInv, FramesTrue
  <2>. QED
    BY <1>2, <2>1, TrueStays
<1>10. RowsTrue'
  BY <1>1 DEF StoreInv, RowsTrue
<1>. QED
  BY <1>1, <1>2, <1>8, <1>9, <1>10, Together DEF StoreInv, TypeOK

(* The server confirms a message: it was stored (useWebSocket.ts:81-94).   *)
LEMMA SentFrameKeeps ==
  ASSUME StoreInv, SentFrame
  PROVE  StoreInv'
<1>1. PICK m : m = Head(down).msg
  OBVIOUS
<1>2. m \in Mine /\ row[m] # "none" /\ hooked /\ down # <<>>
  <2>1. Received("sent")
    BY DEF SentFrame
  <2>. QED
    BY <1>1, <2>1, HeadIs
<1>3. PICK f : f = [e \in {x \in BagToSet(list) : x.msg = m /\ x.id = "client"} |->
                      Listed(e.msg, "server", "delivered")]
  OBVIOUS
<1>4. list' = Changed(list, f)
  BY <1>1, <1>3 DEF SentFrame
<1>5. DOMAIN f \subseteq BagToSet(list)
  BY <1>3
<1>6. \A e \in DOMAIN f : f[e].msg = e.msg /\ IsTrue(f[e])
  BY <1>2, <1>3 DEF IsTrue, Entry, Listed, Messages
<1>. QED
  BY <1>2, <1>4, <1>5, <1>6, FrameKeeps DEF SentFrame

(* The partner has read a message (useWebSocket.ts:95-107).                *)
LEMMA ReadFrameKeeps ==
  ASSUME StoreInv, ReadFrame
  PROVE  StoreInv'
<1>1. PICK m : m = Head(down).msg
  OBVIOUS
<1>2. m \in readBy /\ hooked /\ down # <<>>
  <2>1. Received("read")
    BY DEF ReadFrame
  <2>. QED
    BY <1>1, <2>1, HeadIs
<1>3. PICK D : D = {e \in BagToSet(list) : e.msg = m /\ e.id = "server"}
  OBVIOUS
<1>4. PICK f : f = [e \in D |-> [e EXCEPT !.status = "read"]]
  OBVIOUS
<1>5. list' = Changed(list, f)
  BY <1>1, <1>3, <1>4 DEF ReadFrame, MarkedRead
<1>6. DOMAIN f \subseteq BagToSet(list)
  BY <1>3, <1>4
<1>7. ASSUME NEW e \in DOMAIN f
      PROVE  f[e].msg = e.msg /\ IsTrue(f[e])
  <2>1. e \in Entry /\ IsTrue(e) /\ e.msg = m /\ f[e] = [e EXCEPT !.status = "read"]
    BY <1>3, <1>4, <1>7 DEF StoreInv, ListTrue, IsTrue
  <2>2. f[e] \in Entry /\ f[e].msg = m /\ f[e].id = e.id /\ f[e].status = "read"
    BY <2>1 DEF Entry
  <2>3. row[m] # "none"
    BY <1>2 DEF StoreInv, RowsTrue
  <2>. QED
    BY <1>2, <2>1, <2>2, <2>3 DEF IsTrue
<1>. QED
  BY <1>2, <1>5, <1>6, <1>7, FrameKeeps DEF ReadFrame

-----------------------------------------------------------------------------
(* The tasks that leave the list alone.                                    *)

(* The window is closed, or the history is answered or fails: the rest     *)
(* stays.                                                                  *)
LEMMA WindowKeeps ==
  ASSUME StoreInv, CloseChat \/ Answer \/ FetchFails
  PROVE  StoreInv'
<1>1. UNCHANGED <<list, seen, open, hooked, up, down, row, serving, pushed, readBy>>
  BY DEF CloseChat, Answer, FetchFails, pageVars, sockVars, serverVars
<1>2. chat' \in BOOLEAN /\ acked' \subseteq Theirs
  BY DEF CloseChat, Answer, FetchFails, pageVars, StoreInv, TypeOK
<1>3. fetch' = fetch \/ fetch' \in {Asked, Nothing} \/ fetch' = row'
  BY <1>1 DEF CloseChat, Answer, FetchFails
<1>4. Grows
  BY <1>1 DEF Grows
<1>5. IsABag(list') /\ ListTrue' /\ up' \in Seq(UpFrame') /\ down' \in Seq(DownFrame')
  BY <1>1, <1>4, TrueStays DEF StoreInv, FramesTrue
<1>6. RowsTrue'
  BY <1>1 DEF StoreInv, RowsTrue
<1>. QED
  BY <1>1, <1>2, <1>3, <1>4, <1>5, <1>6, Together DEF StoreInv, TypeOK

(* The connection comes or is lost, or the page is loaded again.           *)
LEMMA SocketKeeps ==
  ASSUME StoreInv, Connect \/ Lose \/ Reload
  PROVE  StoreInv'
<1>1. UNCHANGED <<list, seen, row, serving, pushed, readBy>>
  BY DEF Connect, Lose, Reload, pageVars, serverVars
<1>2. chat' \in BOOLEAN /\ acked' \subseteq Theirs
  BY DEF Connect, Lose, Reload, pageVars, StoreInv, TypeOK
<1>3. fetch' = fetch \/ fetch' \in {Asked, Nothing}
  BY DEF Connect, Lose, Reload
<1>4. Grows
  BY <1>1 DEF Grows
<1>5. up' \in Seq(UpFrame) /\ down' \in Seq(DownFrame)
  <2>1. up \in Seq(UpFrame) /\ down \in Seq(DownFrame)
    BY DEF StoreInv, FramesTrue
  <2>2. <<>> \in Seq(UpFrame) /\ <<>> \in Seq(DownFrame)
    OBVIOUS
  <2>3. UNCHANGED <<up, down>> \/ (up' = <<>> /\ down' = <<>>)
    BY DEF Connect, Lose, Reload
  <2>4. CASE UNCHANGED <<up, down>>
    BY <2>1, <2>4
  <2>5. CASE up' = <<>> /\ down' = <<>>
    BY <2>2, <2>5
  <2>. QED
    BY <2>3, <2>4, <2>5
<1>6. IsABag(list') /\ ListTrue' /\ up' \in Seq(UpFrame') /\ down' \in Seq(DownFrame')
  BY <1>1, <1>4, <1>5, TrueStays
<1>7. RowsTrue'
  BY <1>1 DEF StoreInv, RowsTrue
<1>8. /\ open' \in BOOLEAN /\ hooked' \in BOOLEAN
      /\ ~open' => ~hooked' /\ up' = <<>> /\ down' = <<>>
  BY DEF Connect, Lose, Reload, StoreInv, TypeOK
<1>. QED
  BY <1>1, <1>2, <1>3, <1>4, <1>6, <1>7, <1>8, Together DEF StoreInv, TypeOK

(* A step of the server: what it may do to the rows, to the frames and to  *)
(* what the partner has read.                                              *)
LEMMA ServerKeeps ==
  ASSUME StoreInv, UNCHANGED <<pageVars, open, fetch>>,
         hooked' \in BOOLEAN, hooked' => open,
         up' = up \/ (open /\ up # <<>> /\ up' = Tail(up)),
         NEW frames \in Seq(DownFrame'), down' = down \/ SendDown(frames),
         row' \in Rows, \A m \in Messages : row[m] # "none" => row'[m] # "none",
         readBy \subseteq readBy', readBy' \subseteq Mine, RowsTrue',
         serving' \in Mine \union {Nothing},
         pushed' \in [Theirs -> {"no", "stored", "pushed", "done"}]
  PROVE  StoreInv'
<1>1. UNCHANGED <<list, chat, acked, seen, open, fetch>>
  BY DEF pageVars
<1>2. Grows
  BY <1>1 DEF Grows
<1>3. IsABag(list') /\ ListTrue'
  BY <1>1, <1>2, TrueStays
<1>4. up' \in Seq(UpFrame')
  <2>1. PICK S : S = UpFrame
    OBVIOUS
  <2>2. up \in Seq(S)
    BY <2>1 DEF StoreInv, FramesTrue
  <2>3. up # <<>> => Tail(up) \in Seq(S)
    BY <2>2
  <2>4. up' \in Seq(S)
    BY <2>2, <2>3
  <2>. QED
    BY <1>2, <2>1, <2>4, TrueStays
<1>5. down' \in Seq(DownFrame') /\ (~open => down' = <<>>)
  <2>1. down \in Seq(DownFrame')
    BY <1>2, TrueStays DEF StoreInv, FramesTrue
  <2>2. ~open => down = <<>>
    BY DEF StoreInv, TypeOK
  <2>3. CASE down' = down
    BY <2>1, <2>2, <2>3
  <2>4. CASE SendDown(frames)
    BY <2>1, <2>2, <2>4 DEF SendDown
  <2>. QED
    BY <2>3, <2>4
<1>6. ~open => up' = <<>>
  BY DEF StoreInv, TypeOK
<1>. QED
  BY <1>1, <1>2, <1>3, <1>4, <1>5, <1>6, Together DEF StoreInv, TypeOK

(* The connect hook sends what is pending and marks it (main.go:211-227).   *)
LEMMA HookKeeps ==
  ASSUME StoreInv, Hook
  PROVE  StoreInv'
<1>1. PICK pending : pending = {t \in Theirs : row[t] = "sent"}
  OBVIOUS
<1>2. /\ open /\ hooked' = TRUE
      /\ SendDown(Frames("message", pending))
      /\ row' = [m \in Messages |-> IF m \in pending THEN "delivered" ELSE row[m]]
      /\ UNCHANGED <<pageVars, open, up, fetch, serving, pushed, readBy>>
  BY <1>1 DEF Hook
<1>3. IsFiniteSet(pending)
  BY <1>1, MessagesAssumption, FS_Subset
<1>4. Frames("message", pending) \in Seq(DownFrame')
  <2>1. [type : {"message"}, msg : pending] \subseteq DownFrame'
    BY <1>1 DEF DownFrame
  <2>2. Frames("message", pending) \in Seq([type : {"message"}, msg : pending])
    BY <1>3, FramesAre
  <2>. QED
    BY <2>1, <2>2, SeqMono
<1>5. row' \in Rows /\ \A m \in Messages : row[m] # "none" => row'[m] # "none"
  BY <1>2 DEF StoreInv, TypeOK, Rows
<1>6. RowsTrue'
  <2>1. UNCHANGED <<serving, readBy, seen>>
    BY <1>2 DEF pageVars
  <2>2. readBy \subseteq Messages /\ (serving # Nothing => serving \in Messages)
    BY DEF StoreInv, TypeOK, Messages
  <2>. QED
    BY <1>2, <1>5, <2>1, <2>2 DEF StoreInv, RowsTrue
<1>. QED
  BY <1>2, <1>4, <1>5, <1>6, ServerKeeps DEF StoreInv, TypeOK

(* One row changes its status to one that is so.                           *)
LEMMA RowKeeps ==
  ASSUME StoreInv, NEW m \in Messages, NEW status \in {"sent", "delivered", "read"},
         row' = [row EXCEPT ![m] = status], readBy \subseteq readBy', UNCHANGED seen,
         \A n \in readBy' : n \in readBy \/ n = m,
         status = "read" => m \in readBy' \union seen,
         serving' \in {serving, m, Nothing}
  PROVE  /\ row' \in Rows /\ RowsTrue'
         /\ \A n \in Messages : row[n] # "none" => row'[n] # "none"
<1>1. row \in Rows /\ readBy \subseteq Messages /\ (serving # Nothing => serving \in Messages)
  BY DEF StoreInv, TypeOK, Messages
<1>2. row' \in Rows /\ \A n \in Messages : row'[n] = IF n = m THEN status ELSE row[n]
  BY <1>1 DEF Rows
<1>3. \A n \in Messages : row[n] # "none" => row'[n] # "none"
  BY <1>2
<1>. QED
  BY <1>1, <1>2, <1>3 DEF StoreInv, RowsTrue

(* HandleDM and HandleAck for the frames of the page.                      *)
LEMMA ServeKeeps ==
  ASSUME StoreInv, ServeMessage \/ ServeAck
  PROVE  StoreInv'
<1>1. /\ hooked /\ up # <<>> /\ up' = Tail(up)
      /\ UNCHANGED <<pageVars, open, hooked, down, fetch, pushed, readBy>>
  BY DEF ServeMessage, ServeAck
<1>2. PICK frame \in UpFrame : frame = Head(up)
  BY <1>1 DEF StoreInv, FramesTrue
<1>3. UNCHANGED seen
  BY <1>1 DEF pageVars
<1>4. /\ row' \in Rows /\ RowsTrue'
      /\ \A n \in Messages : row[n] # "none" => row'[n] # "none"
      /\ serving' \in Mine \union {Nothing}
  <2>1. CASE UNCHANGED <<row, serving>>
    BY <1>1, <1>3, <2>1 DEF StoreInv, TypeOK, RowsTrue
  <2>2. CASE /\ Head(up).type = "message"
             /\ row' = [row EXCEPT ![Head(up).msg] = "sent"] /\ serving' = Head(up).msg
    <3>1. frame.msg \in Mine /\ frame.msg \in Messages
      BY <1>2, <2>2 DEF UpFrame, Messages
    <3>2. row' = [row EXCEPT ![frame.msg] = "sent"] /\ serving' = frame.msg
      BY <1>2, <2>2
    <3>. QED
      BY <1>1, <1>3, <3>1, <3>2, RowKeeps
  <2>3. CASE /\ Head(up).type = "ack"
             /\ row' = [row EXCEPT ![Head(up).msg] = "read"] /\ UNCHANGED serving
    <3>1. frame.msg \in seen /\ frame.msg \in Messages
      BY <1>2, <2>3 DEF UpFrame, Messages, StoreInv, TypeOK
    <3>2. row' = [row EXCEPT ![frame.msg] = "read"]
      BY <1>2, <2>3
    <3>3. /\ row' \in Rows /\ RowsTrue'
          /\ \A n \in Messages : row[n] # "none" => row'[n] # "none"
      BY <1>1, <1>3, <2>3, <3>1, <3>2, RowKeeps
    <3>. QED
      BY <2>3, <3>3 DEF StoreInv, TypeOK
  <2>. QED
    BY <2>1, <2>2, <2>3 DEF ServeMessage, ServeAck
<1>5. <<>> \in Seq(DownFrame') /\ hooked \in BOOLEAN /\ (hooked => open)
  BY DEF StoreInv, TypeOK
<1>. QED
  BY <1>1, <1>4, <1>5, ServerKeeps DEF StoreInv, TypeOK

(* HandleDM tells the sender, from the send on (dm.go:58-75).               *)
LEMMA ConfirmKeeps ==
  ASSUME StoreInv, Confirm
  PROVE  StoreInv'
<1>1. PICK m : m = serving
  OBVIOUS
<1>2. /\ m \in Mine /\ m \in Messages /\ row[m] # "none"
      /\ row' = [row EXCEPT ![m] = "delivered"] \/ UNCHANGED row
      /\ down' = down \/ SendDown(<<Frame("sent", m)>>)
      /\ serving' = Nothing
      /\ UNCHANGED <<pageVars, open, hooked, up, fetch, pushed, readBy>>
  BY <1>1 DEF Confirm, StoreInv, TypeOK, RowsTrue, Messages
<1>3. UNCHANGED seen
  BY <1>2 DEF pageVars
<1>4. /\ row' \in Rows /\ RowsTrue'
      /\ \A n \in Messages : row[n] # "none" => row'[n] # "none"
  <2>1. CASE UNCHANGED row
    BY <1>2, <1>3, <2>1 DEF StoreInv, TypeOK, RowsTrue
  <2>2. CASE row' = [row EXCEPT ![m] = "delivered"]
    BY <1>2, <1>3, <2>2, RowKeeps
  <2>. QED
    BY <1>2, <2>1, <2>2
<1>5. <<Frame("sent", m)>> \in Seq(DownFrame')
  BY <1>2, <1>4 DEF DownFrame, Frame
<1>6. hooked \in BOOLEAN /\ (hooked => open)
  BY DEF StoreInv, TypeOK
<1>. QED
  BY <1>2, <1>4, <1>5, <1>6, ServerKeeps DEF StoreInv, TypeOK

(* The partner's page acknowledges a message (dm.go:93-107).                *)
LEMMA PartnerReadsKeeps ==
  ASSUME StoreInv, NEW m \in Mine, PartnerReads(m)
  PROVE  StoreInv'
<1>1. /\ row' = [row EXCEPT ![m] = "read"]
      /\ readBy' = readBy \union {m}
      /\ SendDown(<<Frame("read", m)>>)
      /\ UNCHANGED <<pageVars, open, hooked, up, fetch, serving, pushed>>
  BY DEF PartnerReads
<1>2. UNCHANGED seen /\ m \in Messages
  BY <1>1 DEF pageVars, Messages
<1>3. /\ row' \in Rows /\ RowsTrue'
      /\ \A n \in Messages : row[n] # "none" => row'[n] # "none"
  BY <1>1, <1>2, RowKeeps
<1>4. <<Frame("read", m)>> \in Seq(DownFrame')
  BY <1>1 DEF DownFrame, Frame
<1>5. hooked \in BOOLEAN /\ (hooked => open)
  BY DEF StoreInv, TypeOK
<1>. QED
  BY <1>1, <1>3, <1>4, <1>5, ServerKeeps DEF StoreInv, TypeOK

(* HandleDM for the messages of the partner (dm.go:43-67).                  *)
LEMMA TheirsKeeps ==
  ASSUME StoreInv, NEW t \in Theirs, TheirInsert(t) \/ TheirPush(t) \/ TheirMark(t)
  PROVE  StoreInv'
<1>1. /\ UNCHANGED <<pageVars, open, hooked, up, fetch, serving, readBy>>
      /\ t \in Messages
  BY DEF TheirInsert, TheirPush, TheirMark, sockVars, Messages
<1>2. UNCHANGED seen
  BY <1>1 DEF pageVars
<1>3. /\ row' \in Rows /\ RowsTrue'
      /\ \A n \in Messages : row[n] # "none" => row'[n] # "none"
  <2>1. CASE UNCHANGED row
    BY <1>1, <1>2, <2>1 DEF StoreInv, TypeOK, RowsTrue
  <2>2. CASE row' = [row EXCEPT ![t] = "sent"]
    BY <1>1, <1>2, <2>2, RowKeeps
  <2>3. CASE row' = [row EXCEPT ![t] = "delivered"]
    BY <1>1, <1>2, <2>3, RowKeeps
  <2>. QED
    BY <2>1, <2>2, <2>3 DEF TheirInsert, TheirPush, TheirMark
<1>4. pushed' \in [Theirs -> {"no", "stored", "pushed", "done"}]
  BY DEF TheirInsert, TheirPush, TheirMark, StoreInv, TypeOK
<1>5. <<Frame("message", t)>> \in Seq(DownFrame')
  BY DEF DownFrame, Frame
<1>6. down' = down \/ SendDown(<<Frame("message", t)>>)
  BY DEF TheirInsert, TheirPush, TheirMark, sockVars
<1>7. hooked \in BOOLEAN /\ (hooked => open)
  BY DEF StoreInv, TypeOK
<1>. QED
  BY <1>1, <1>3, <1>4, <1>5, <1>6, <1>7, ServerKeeps DEF StoreInv, TypeOK

-----------------------------------------------------------------------------
(* Every step keeps the invariant.                                         *)
LEMMA StoreInvStep == StoreInv /\ [Next]_vars => StoreInv'
<1> SUFFICES ASSUME StoreInv, [Next]_vars
             PROVE  StoreInv'
  OBVIOUS
<1>1. CASE OpenChat \/ MessageFrame \/ Merge \/ SentFrame \/ ReadFrame
  BY <1>1, OpenChatKeeps, MessageFrameKeeps, MergeKeeps, SentFrameKeeps, ReadFrameKeeps
<1>2. ASSUME NEW m \in Mine, Type(m) \/ PartnerReads(m)
      PROVE  StoreInv'
  BY <1>2, TypeKeeps, PartnerReadsKeeps
<1>3. CASE CloseChat \/ Answer \/ FetchFails
  BY <1>3, WindowKeeps
<1>4. CASE Connect \/ Lose \/ Reload
  BY <1>4, SocketKeeps
<1>5. CASE Hook \/ ServeMessage \/ ServeAck \/ Confirm
  BY <1>5, HookKeeps, ServeKeeps, ConfirmKeeps
<1>6. ASSUME NEW t \in Theirs, TheirInsert(t) \/ TheirPush(t) \/ TheirMark(t)
      PROVE  StoreInv'
  BY <1>6, TheirsKeeps
<1>7. CASE UNCHANGED vars
  BY <1>7 DEF vars, pageVars, sockVars, serverVars, StoreInv, TypeOK, ListTrue, IsTrue, RowsTrue,
              FetchTrue, FramesTrue, UpFrame, DownFrame
<1>. QED
  BY <1>1, <1>2, <1>3, <1>4, <1>5, <1>6, <1>7 DEF Next

(* The invariant holds in every reachable state.                           *)
LEMMA StoreInvHolds == Spec => []StoreInv
BY StoreInvInit, StoreInvStep, PTL DEF Spec

(* The page and what it sees of the server keep their types: a closed      *)
(* socket has nothing under way, and the list stays a bag.                 *)
THEOREM StoreTypeCorrect == Spec => []TypeOK
<1>1. StoreInv => TypeOK
  BY DEF StoreInv
<1>. QED
  BY <1>1, StoreInvHolds, PTL

(* The ticks do not lie, for any number of messages and frames, histories, *)
(* losses and reloads in any order (useWebSocket.ts:79-106).               *)
THEOREM TicksTellTheTruth == Spec => []MarksAreTrue
<1>1. StoreInv => MarksAreTrue
  <2> SUFFICES ASSUME StoreInv, NEW e \in BagToSet(list)
               PROVE  /\ Tick(e) \in {"two", "blue"} => row[e.msg] # "none"
                      /\ Tick(e) = "blue" => e.msg \in readBy
                      /\ e.msg \in Theirs /\ e.status = "read" => e.msg \in seen
    BY DEF MarksAreTrue
  <2>1. IsTrue(e) /\ e \in Entry
    BY DEF StoreInv, ListTrue, IsTrue
  <2>2. e.status = "read" => /\ e.msg \in Mine => e.msg \in readBy
                             /\ e.msg \in Theirs => e.msg \in seen
    BY <2>1, ReadByOrSeen DEF IsTrue
  <2>3. CASE e.msg \in Theirs
    BY <2>2, <2>3 DEF Tick
  <2>4. CASE e.msg \notin Theirs
    <3>1. e.msg \in Mine /\ e.status \in {"sent", "delivered", "read"}
      BY <2>1, <2>4 DEF Entry, Messages
    <3>2. /\ e.status = "sent" => Tick(e) = "one"
          /\ e.status = "delivered" => Tick(e) = "two"
      BY <2>4 DEF Tick
    <3>. QED
      BY <2>1, <2>2, <2>4, <3>1, <3>2 DEF IsTrue
  <2>. QED
    BY <2>3, <2>4
<1>. QED
  BY <1>1, StoreInvHolds, PTL

-----------------------------------------------------------------------------
(* A map that leaves the messages alone shows what was shown.              *)
LEMMA ChangedShows ==
  ASSUME NEW l, IsABag(l), BagToSet(l) \subseteq Entry,
         NEW f, \A e \in BagToSet(l) \intersect DOMAIN f : f[e].msg = e.msg,
         NEW m, Shows(l, m)
  PROVE  Shows(Changed(l, f), m)
<1>1. PICK e \in BagToSet(l) : e.msg = m
  BY DEF Shows
<1>2. BagToSet(Changed(l, f)) = {IF x \in DOMAIN f THEN f[x] ELSE x : x \in BagToSet(l)}
  BY ChangedIs
<1>. QED
  BY <1>1, <1>2 DEF Shows

(* So does the window.                                                     *)
LEMMA ShowShows ==
  ASSUME NEW l, IsABag(l), BagToSet(l) \subseteq Entry, NEW sent, Show(l, sent),
         NEW m, Shows(l, m)
  PROVE  Shows(list, m)'
<1>1. PICK new : list' = Changed(l, MarkedRead({e \in BagToSet(l) : e.msg \in new}))
  BY DEF Show
<1> DEFINE f == MarkedRead({e \in BagToSet(l) : e.msg \in new})
<1>2. ASSUME NEW e \in BagToSet(l) \intersect DOMAIN f
      PROVE  f[e].msg = e.msg
  <2>1. e \in Entry /\ f[e] = [e EXCEPT !.status = "read"]
    BY DEF MarkedRead
  <2>. QED
    BY <2>1 DEF Entry
<1>3. Shows(Changed(l, f), m)
  <2> HIDE DEF f
  <2>. QED
    BY <1>2, ChangedShows
<1>. QED
  BY <1>1, <1>3 DEF Shows

(* An entry that is added hides none.                                      *)
LEMMA AddedShows ==
  ASSUME NEW l, IsABag(l), BagToSet(l) \subseteq Entry, NEW e \in Entry, NEW sent,
         Show(l (+) SetToBag({e}), sent), NEW m, Shows(l, m)
  PROVE  Shows(list, m)'
<1>1. PICK k : k = l (+) SetToBag({e})
  OBVIOUS
<1>2. IsABag(k) /\ BagToSet(k) = BagToSet(l) \union {e}
  BY <1>1, SetToBagIs, BagCupIs
<1>3. Shows(k, m)
  BY <1>2 DEF Shows
<1>4. Show(k, sent)
  BY <1>1
<1>. QED
  BY <1>2, <1>3, <1>4, ShowShows

(* What the answered history replaces is in the history, and the rest of   *)
(* the list is kept (store.ts:84-93).                                      *)
LEMMA MergeShows ==
  ASSUME StoreInv, Merge, NEW m \in Messages, Shows(list, m)
  PROVE  Shows(list, m)'
<1>1. CASE Fetched = {}
  BY <1>1 DEF Merge, Shows
<1>2. CASE Fetched # {}
  <2>1. PICK l : l = History (+) LocalOnly
    OBVIOUS
  <2>2. IsABag(History) /\ BagToSet(History) = {Listed(n, "server", fetch[n]) : n \in Fetched}
    BY SetToBagIs DEF History
  <2>3. IsABag(LocalOnly)
        /\ BagToSet(LocalOnly) = {e \in BagToSet(list) : e.id = "client" \/ e.msg \notin Fetched}
    BY DEF LocalOnly, StoreInv, TypeOK, IsABag, BagToSet
  <2>4. IsABag(l) /\ BagToSet(l) = BagToSet(History) \union BagToSet(LocalOnly)
    BY <2>1, <2>2, <2>3, BagCupIs
  <2>5. BagToSet(History) \subseteq Entry
    <3> SUFFICES ASSUME NEW n \in Fetched
                 PROVE  Listed(n, "server", fetch[n]) \in Entry
      BY <2>2
    <3>1. n \in Messages /\ fetch[n] # "none" /\ fetch[n] \in {"none", "sent", "delivered", "read"}
      BY DEF Merge, Fetched, Rows
    <3>. QED
      BY <3>1 DEF Listed, Entry
  <2>6. BagToSet(l) \subseteq Entry
    BY <2>3, <2>4, <2>5 DEF StoreInv, TypeOK
  <2>7. Shows(l, m)
    <3>1. PICK e \in BagToSet(list) : e.msg = m
      BY DEF Shows
    <3>2. CASE m \in Fetched
      <4>1. Listed(m, "server", fetch[m]) \in BagToSet(History)
        BY <2>2, <3>2
      <4>2. Listed(m, "server", fetch[m]) \in BagToSet(l)
        BY <2>4, <4>1
      <4>. QED
        BY <4>2 DEF Shows, Listed
    <3>3. CASE m \notin Fetched
      BY <2>3, <2>4, <3>1, <3>3 DEF Shows
    <3>. QED
      BY <3>2, <3>3
  <2>8. Show(l, <<>>)
    BY <1>2, <2>1 DEF Merge, Show
  <2>. QED
    BY <2>4, <2>6, <2>7, <2>8, ShowShows
<1>. QED
  BY <1>1, <1>2

(* No task of the page and no step of the server takes a message out of    *)
(* the list.                                                               *)
LEMMA ShownStays ==
  ASSUME StoreInv, [Next]_vars, NEW m \in Messages, Shows(list, m)
  PROVE  Shows(list, m)'
<1>1. PICK l : l = list
  OBVIOUS
<1>2. IsABag(l) /\ BagToSet(l) \subseteq Entry /\ Shows(l, m)
  BY <1>1 DEF StoreInv, TypeOK
<1>3. CASE OpenChat
  <2>1. Show(l, <<>>)
    BY <1>1, <1>3 DEF OpenChat, Show
  <2>. QED
    BY <1>2, <2>1, ShowShows
<1>4. ASSUME NEW n \in Mine, Type(n)
      PROVE  Shows(list, m)'
  <2>1. Listed(n, "client", "sent") \in Entry
    BY DEF Listed, Entry, Messages
  <2>2. Show(l (+) SetToBag({Listed(n, "client", "sent")}), <<Frame("message", n)>>)
    BY <1>1, <1>4 DEF Type, Show
  <2>. QED
    BY <1>2, <2>1, <2>2, AddedShows
<1>5. CASE MessageFrame
  <2>1. Received("message")
    BY <1>5 DEF MessageFrame
  <2>2. Listed(Head(down).msg, "server", "delivered") \in Entry
    BY <2>1, HeadIs DEF Listed, Entry, Messages
  <2>3. PICK e : e = Listed(Head(down).msg, "server", "delivered")
    OBVIOUS
  <2>4. Show(l (+) SetToBag({e}), <<>>)
    BY <1>1, <1>5, <2>3 DEF MessageFrame, Show
  <2>. QED
    BY <1>2, <2>2, <2>3, <2>4, AddedShows
<1>6. CASE SentFrame
  <2>1. PICK f : f = [e \in {x \in BagToSet(list) : x.msg = Head(down).msg /\ x.id = "client"} |->
                        Listed(e.msg, "server", "delivered")]
    OBVIOUS
  <2>2. list' = Changed(l, f)
    BY <1>1, <1>6, <2>1 DEF SentFrame
  <2>3. \A e \in BagToSet(l) \intersect DOMAIN f : f[e].msg = e.msg
    BY <2>1 DEF Listed
  <2>. QED
    BY <1>2, <2>2, <2>3, ChangedShows
<1>7. CASE ReadFrame
  <2>1. PICK D : D = {e \in BagToSet(list) : e.msg = Head(down).msg /\ e.id = "server"}
    OBVIOUS
  <2>2. PICK f : f = [e \in D |-> [e EXCEPT !.status = "read"]]
    OBVIOUS
  <2>3. list' = Changed(l, f)
    BY <1>1, <1>7, <2>1, <2>2 DEF ReadFrame, MarkedRead
  <2>4. \A e \in BagToSet(l) \intersect DOMAIN f : f[e].msg = e.msg
    BY <1>2, <2>2 DEF Entry
  <2>. QED
    BY <1>2, <2>3, <2>4, ChangedShows
<1>8. CASE Merge
  BY <1>8, MergeShows
<1>9. CASE UNCHANGED list
  BY <1>9 DEF Shows
<1>10. \/ OpenChat \/ MessageFrame \/ SentFrame \/ ReadFrame \/ Merge
       \/ \E n \in Mine : Type(n)
       \/ UNCHANGED list
  BY DEF Next, CloseChat, Reload, PartnerReads, Answer, FetchFails, Connect, Hook, Lose,
         ServeMessage, Confirm, ServeAck, TheirInsert, TheirPush, TheirMark, vars, pageVars
<1>. QED
  BY <1>3, <1>4, <1>5, <1>6, <1>7, <1>8, <1>9, <1>10

(* Nothing that the list has shown disappears from it: the history that    *)
(* replaces entries has others of the same messages (store.ts:84-93).      *)
THEOREM NothingDisappears == Spec => MessagesStay
<1>1. StoreInv /\ [Next]_vars => [\A m \in Messages : Shows(list, m) => Shows(list, m)']_vars
  BY ShownStays
<1>. QED
  BY <1>1, StoreInvHolds, PTL DEF Spec, MessagesStay
=============================================================================
