----------------------------- MODULE GroupsProofs ----------------------------
(***************************************************************************)
(* Proofs about Groups, for any accounts, connections, groups and bounds,  *)
(* with any number of logins of one account, failing statements and sends, *)
(* rollbacks and crashes.                                                  *)
(***************************************************************************)
EXTENDS Groups, FiniteSetTheorems, TLAPS

Creating  == {"find_group", "insert_group", "insert_creator", "list_creator"}
Asking    == {"find_asked", "find_active", "insert_ask"}
Welcoming == {"members", "tell_members", "tell_others"}
Working   == Creating \cup Asking \cup Welcoming
               \cup {"update", "count", "fetch", "tell_self", "tell_peer"}

\* What a handler at work knows of its message.
Work(c) ==
  /\ req[c] \in Request
  /\ pc[c] \in Creating => req[c].kind = "create"
  /\ pc[c] \in Asking => req[c].kind = "ask"
  /\ pc[c] = "update" => req[c].kind \in {"accept", "reject"}
  /\ pc[c] \in Welcoming \cup {"count"} => req[c].kind = "accept"
  /\ req[c].kind \in {"create", "ask"} => req[c].user = AccountOf[c]
  /\ pc[c] \in {"find_active", "insert_ask"} => req[c].creator \in Accounts
WorkInv == \A c \in Clients : pc[c] \in Working => Work(c)

\* The row that a request will insert is still free, and its number is its own.
SlotInv ==
  /\ \A i \in RowIds : i > requests => user_group[i] = None
  /\ \A c \in Clients : Adding(c) =>
       req[c].id \in 1..requests /\ user_group[req[c].id] = None
  /\ \A c, d \in Clients : Adding(c) /\ Adding(d) /\ req[c].id = req[d].id => c = d

\* Since BEGIN groups and rows were added, counted and answered.
SavedInv ==
  saved # None =>
    /\ \A g \in Groups : saved.groups[g] # None =>
         group_info[g] # None /\ group_info[g].creator = saved.groups[g].creator
    /\ \A i \in RowIds : saved.rows[i] # None =>
         /\ user_group[i] # None
         /\ user_group[i].user = saved.rows[i].user /\ user_group[i].group = saved.rows[i].group
         /\ user_group[i].creator = saved.rows[i].creator
         /\ saved.rows[i].status = 1 => user_group[i].status = 1

BasicInv == TypeOK /\ WorkInv /\ SlotInv /\ SavedInv

\* A creator's handler between its two inserts finds the group its own.
FoundInv ==
  \A c \in Clients : pc[c] = "insert_creator" /\ req[c].group \notin undone =>
    group_info[req[c].group] # None /\ group_info[req[c].group].creator = req[c].user
CreatorInv == BasicInv /\ FoundInv /\ CreatorIsMember

\* Rows that are about to be inserted for one user in one group are contested, and what
\* their handlers have found is so until the insert, unless they are.
CheckInv ==
  \A c \in Clients : Adding(c) =>
    /\ \A d \in Clients \ {c} : Adding(d) /\ Place(d) = Place(c) => Place(c) \in contested
    /\ pc[c] \in {"insert_creator", "insert_ask"} /\ Place(c) \notin contested =>
         Active(req[c].user, req[c].group) = {}
    /\ pc[c] \in {"insert_creator", "find_active", "insert_ask"} /\ Place(c) \notin contested =>
         group_info[req[c].group] # None

\* One live row per user and group, and none in a group that does not exist.
OneOf(groups, rows) ==
  \A u \in Accounts, g \in Groups : <<u, g>> \notin contested =>
    /\ \A i, j \in ActiveIn(rows, u, g) : i = j
    /\ groups[g] = None => ActiveIn(rows, u, g) = {}
TableInv == OneOf(group_info, user_group) /\ (saved # None => OneOf(saved.groups, saved.rows))

IInv == BasicInv /\ CheckInv /\ TableInv

\* The members and those who will be, against the number and the increments to come.
ToJoin(g)  == {c \in Clients : pc[c] = "insert_creator" /\ req[c].group = g}
ToCount(g) == {c \in Clients : pc[c] = "count" /\ req[c].group = g}
Followed(g) ==
  g \notin undone \cup uncounted /\ group_info[g] # None /\ \A u \in Accounts : <<u, g>> \notin contested
CountInv ==
  /\ \A g \in Groups : IsFiniteSet(ToJoin(g)) /\ IsFiniteSet(ToCount(g))
  /\ \A g \in Groups : Followed(g) =>
       Cardinality(MemberRows(g)) + Cardinality(ToJoin(g)) <=
         group_info[g].member_num + Cardinality(ToCount(g))

\* user_client names connections that are logged in to the account: all of them, unless the
\* account is doubled.
ClientInv ==
  /\ \A a \in Accounts : user_client[a] # None =>
       AccountOf[user_client[a]] = a /\ pc[user_client[a]] # "out"
  /\ \A c \in Clients : pc[c] # "out" /\ AccountOf[c] \notin doubled =>
       user_client[AccountOf[c]] = c
  /\ \A c \in Clients : pc[c] = "out" => c \notin cut

\* The connection that notices for its account go to, as long as all of them arrive.
Served(c) == pc[c] # "out" /\ user_client[AccountOf[c]] = c /\ c \notin cut

\* c has read its list of groups, and should show the group of its row i ...
GroupDue(c, i) ==
  /\ Served(c) /\ pc[c] \notin {"logged_in", "ask_list", "sending_asks", "asks_sent"}
  /\ i \in Ids /\ user_group[i].status = 1 /\ user_group[i].user = AccountOf[c]
  /\ user_group[i].creator # AccountOf[c] \/ AccountOf[c] \notin doubled
  /\ user_group[i].group \notin undone
\* ... and d is going to tell it.
Accepts(d, i) ==
  /\ pc[d] \in {"count", "fetch", "tell_self", "tell_peer", "members"}
  /\ req[d].kind = "accept" /\ req[d].user = user_group[i].user
Welcomes(d, i) == pc[d] \in {"tell_members", "tell_others"} /\ user_group[i].user \in to_tell[d]
GroupComing(d, i, c) ==
  /\ Accepts(d, i) \/ Welcomes(d, i) \/ (pc[d] = "list_creator" /\ c = d)
  /\ req[d].group = user_group[i].group
InGroupList(c, i) ==
  pc[c] \in {"group_list", "sending_groups"} /\ user_group[i].group \in got_groups[c]
GroupKnown(c, i) ==
  \/ user_group[i].group \in listed[c] \/ InGroupList(c, i)
  \/ \E d \in Clients : GroupComing(d, i, c)
GroupInv == \A c \in Clients, i \in RowIds : GroupDue(c, i) => GroupKnown(c, i)

\* A group that has a row, or is about to have one, exists, unless a ROLLBACK reached it.
ExistsInv ==
  /\ \A c \in Clients : pc[c] \in {"find_active", "insert_ask"} /\ req[c].group \notin undone =>
       group_info[req[c].group] # None
  /\ \A i \in Ids : user_group[i].group \notin undone => group_info[user_group[i].group] # None

TellInv == ClientInv /\ ExistsInv /\ GroupInv

USE DEF Goto, dbVars, clientVars, boundVars, raceVars, gotVars, Creating, Asking, Welcoming, Working

-----------------------------------------------------------------------------
(* Parts that several steps share *)

\* A failure is counted within its bound.
LEMMA MishapType ==
  ASSUME TypeOK, Mishap
  PROVE  mishaps' \in 0..MaxMishaps /\ UNCHANGED <<requests, answers, logins, clock>>
BY GroupsAssumption DEF Mishap, TypeOK

\* What connections are told, and what is counted, after a send.
ToldType ==
  /\ pending' \in [Clients -> SUBSET RowIds] /\ listed' \in [Clients -> SUBSET Groups]
  /\ cut' \subseteq Clients /\ mishaps' \in 0..MaxMishaps
  /\ UNCHANGED <<requests, answers, logins, clock>>

LEMMA CutType ==
  ASSUME TypeOK, NEW S \in SUBSET Clients, Cut(S)
  PROVE  /\ pending' \in [Clients -> SUBSET RowIds] /\ listed' \in [Clients -> SUBSET Groups]
         /\ cut' \subseteq Clients /\ cut' = cut \cup S
         /\ \A d \in Clients \ S : listed'[d] = listed[d]
BY DEF Cut, TypeOK

LEMMA LostType ==
  ASSUME TypeOK, NEW d \in Clients, IsLost(d)
  PROVE  ToldType
<1>1. CASE UNCHANGED boundVars
  BY <1>1, CutType DEF IsLost, ToldType, TypeOK
<1>2. CASE Mishap
  BY <1>2, CutType, MishapType DEF IsLost, ToldType
<1> QED BY <1>1, <1>2 DEF IsLost

LEMMA LearnType == \A d, rows : Learn(d, rows) \in SUBSET RowIds
BY DEF Learn

\* The locals of a handler that returns.
LEMMA ReturnType ==
  ASSUME TypeOK, NEW c \in Clients, Return(c)
  PROVE  /\ pc' \in [Clients -> Pcs] /\ req' \in [Clients -> Request \cup {None}]
         /\ got' \in [Clients -> Statuses] /\ got_groups' \in [Clients -> SUBSET Groups]
         /\ to_tell' \in [Clients -> SUBSET Accounts]
         /\ pc'[c] = "idle"
         /\ \A d \in Clients \ {c} : /\ pc'[d] = pc[d] /\ req'[d] = req[d]
                                     /\ got_groups'[d] = got_groups[d] /\ to_tell'[d] = to_tell[d]
<1>1. Nothing \in Statuses
  BY DEF Nothing, Statuses
<1> QED BY <1>1 DEF Return, TypeOK, Pcs

\* The other side of a handler's request.
LEMMA PeerType ==
  ASSUME TypeOK, WorkInv, NEW c \in Clients, pc[c] \in Working
  PROVE  PeerClient(c) \in Clients \cup {None}
<1>1. Peer(c) \in Accounts \cup {None}
  BY DEF WorkInv, Work, Request, Peer
<1> QED BY <1>1 DEF PeerClient, TypeOK

\* A row that is there.
LEMMA RowType ==
  ASSUME TypeOK, NEW i \in RowIds, user_group[i] # None
  PROVE  user_group[i] \in Row
BY DEF TypeOK, RowTable

LEMMA ReadType ==
  ASSUME TypeOK, NEW S \in SUBSET Ids
  PROVE  Read(S) \in Statuses
<1>1. \A i \in S : user_group[i].status \in {-1, 0, 1}
  BY RowType DEF Ids, Row
<1> QED BY <1>1 DEF Read, Statuses

\* The tables after a ROLLBACK or a crash.
LEMMA RestoreType ==
  ASSUME TypeOK, Restore
  PROVE  group_info' \in GroupTable /\ user_group' \in RowTable /\ saved' = None /\ undone' \subseteq Groups
<1>1. \A i \in Ids : user_group[i].group \in Groups
  BY RowType DEF Ids, Row
<1>2. ToUndo \subseteq Groups
  BY <1>1 DEF ToUndo
<1>3. saved # None => saved.groups \in GroupTable /\ saved.rows \in RowTable
  BY DEF TypeOK, Tables
<1> QED BY <1>2, <1>3 DEF Restore, TypeOK

\* A crash leaves tables, and nobody logged in.
LEMMA DieType ==
  ASSUME TypeOK, WorkInv, Die, UNCHANGED boundVars \/ Mishap
  PROVE  TypeOK' /\ \A c \in Clients : pc'[c] = "out"
<1>1. group_info' \in GroupTable /\ user_group' \in RowTable /\ saved' = None /\ undone' \subseteq Groups
  BY RestoreType DEF Die
<1>2. uncounted' \subseteq Groups
  BY DEF Die, WorkInv, Work, Request, TypeOK
<1>3. Nothing \in Statuses
  BY DEF Nothing, Statuses
<1>4. /\ user_client' \in [Accounts -> Clients \cup {None}]
      /\ pc' \in [Clients -> Pcs] /\ \A c \in Clients : pc'[c] = "out"
      /\ req' \in [Clients -> Request \cup {None}]
      /\ got' \in [Clients -> Statuses] /\ pending' \in [Clients -> SUBSET RowIds]
      /\ got_groups' \in [Clients -> SUBSET Groups] /\ listed' \in [Clients -> SUBSET Groups]
      /\ to_tell' \in [Clients -> SUBSET Accounts]
      /\ cut' = {} /\ UNCHANGED <<doubled, contested, created>>
  BY <1>3 DEF Die, Pcs
<1>5. /\ requests' \in 0..MaxRequests /\ answers' \in 0..MaxAnswers /\ logins' \in 0..MaxLogins
      /\ clock' \in 0..MaxTime /\ mishaps' \in 0..MaxMishaps
  BY MishapType DEF TypeOK
<1> QED BY <1>1, <1>2, <1>4, <1>5 DEF TypeOK

\* A request that starts.
LEMMA StartType ==
  ASSUME TypeOK, NEW c \in Clients, NEW kind \in {"create", "ask"}, NEW g \in Groups,
         NEW label \in {"find_group", "find_asked"}, Start(c, kind, g, label)
  PROVE  /\ TypeOK' /\ req'[c] \in Request /\ req'[c].kind = kind /\ req'[c].user = AccountOf[c]
         /\ pc'[c] = label /\ req'[c].id = requests + 1 /\ requests' = requests + 1
         /\ requests + 1 \in RowIds /\ requests \in Nat
         /\ Place(c)' = <<AccountOf[c], g>> /\ UNCHANGED dbVars
         /\ \A d \in Clients : Adding(d) /\ Place(d) = Place(c)' => Place(c)' \in contested'
<1>1. /\ requests + 1 \in RowIds /\ requests \in Nat /\ requests + 1 \in 0..MaxRequests
      /\ requests' = requests + 1 /\ AccountOf[c] \in Accounts
  <2>1. requests < MaxRequests /\ requests' = requests + 1
    BY DEF Start
  <2>2. requests \in 0..MaxRequests /\ MaxRequests \in Nat
    BY GroupsAssumption DEF TypeOK
  <2>3. AccountOf[c] \in Accounts
    BY GroupsAssumption
  <2> QED BY <2>1, <2>2, <2>3 DEF RowIds
<1>2. [kind |-> kind, user |-> AccountOf[c], group |-> g, creator |-> None, id |-> requests + 1] \in Request
  BY <1>1 DEF Request
<1>3. req' = [req EXCEPT ![c] = [kind |-> kind, user |-> AccountOf[c], group |-> g, creator |-> None,
                                 id |-> requests + 1]]
  BY DEF Start
<1>4. /\ req' \in [Clients -> Request \cup {None}] /\ req'[c] \in Request
      /\ req'[c].kind = kind /\ req'[c].user = AccountOf[c] /\ req'[c].group = g
      /\ req'[c].id = requests + 1
  BY <1>2, <1>3 DEF TypeOK
<1>5. pc' \in [Clients -> Pcs] /\ pc'[c] = label
  BY DEF Start, TypeOK, Pcs
<1>6. contested' \subseteq Accounts \X Groups
  BY <1>1 DEF Start, TypeOK
<1>7. Place(c)' = <<AccountOf[c], g>>
  BY <1>4 DEF Place
<1>8. \A d \in Clients : Adding(d) /\ Place(d) = <<AccountOf[c], g>> => <<AccountOf[c], g>> \in contested'
  BY DEF Start
<1>9. TypeOK'
  BY <1>1, <1>4, <1>5, <1>6 DEF Start, TypeOK
<1> QED BY <1>1, <1>4, <1>5, <1>7, <1>8, <1>9 DEF Start

\* A row that is inserted.
LEMMA InsertRowType ==
  ASSUME TypeOK, NEW c \in Clients, Work(c), req[c].id \in RowIds, NEW creator \in Accounts,
         NEW status \in {0, 1}, InsertRow(c, creator, status)
  PROVE  /\ user_group' \in RowTable
         /\ user_group'[req[c].id] \in Row /\ user_group'[req[c].id] # None
         /\ user_group'[req[c].id].user = req[c].user /\ user_group'[req[c].id].group = req[c].group
         /\ user_group'[req[c].id].creator = creator /\ user_group'[req[c].id].status = status
         /\ \A i \in RowIds \ {req[c].id} : user_group'[i] = user_group[i]
<1> DEFINE row == [user |-> req[c].user, group |-> req[c].group, creator |-> creator,
                   status |-> status, add_time |-> clock]
<1>1. row \in Row
  BY GroupsAssumption DEF Work, Request, Row, TypeOK
<1>2. user_group' = [user_group EXCEPT ![req[c].id] = row] /\ row # None
  BY <1>1, GroupsAssumption DEF InsertRow
<1>3. row.user = req[c].user /\ row.group = req[c].group /\ row.creator = creator /\ row.status = status
  OBVIOUS
<1> HIDE DEF row
<1> QED BY <1>1, <1>2, <1>3 DEF TypeOK, RowTable

-----------------------------------------------------------------------------
(* Type correctness *)

LEMMA InitType == Init => TypeOK
<1> SUFFICES ASSUME Init PROVE TypeOK
  OBVIOUS
<1>1. \A a \in Accounts : FirstClient(a) \in Clients \cup {None}
  BY GroupsAssumption DEF FirstClient
<1>2. user_client \in [Accounts -> Clients \cup {None}] /\ pc \in [Clients -> Pcs]
  BY <1>1 DEF Init, Pcs
<1>3. group_info \in GroupTable /\ user_group \in RowTable /\ saved = None
  BY DEF Init, GroupTable, RowTable
<1>4. Nothing \in Statuses
  BY DEF Nothing, Statuses
<1> QED BY <1>2, <1>3, <1>4, GroupsAssumption DEF Init, TypeOK

\* The steps of other threads.
LEMMA ThreadType ==
  ASSUME TypeOK, WorkInv, Tick \/ Begin \/ Rollback
  PROVE  TypeOK'
<1>1. CASE Tick
  BY <1>1, GroupsAssumption DEF Tick, TypeOK
<1>2. CASE Begin
  <2>1. [groups |-> group_info, rows |-> user_group] \in Tables
    BY DEF TypeOK, Tables
  <2> QED BY <1>2, <2>1, MishapType DEF Begin, TypeOK
<1>3. CASE Rollback
  <2>1. \A d \in Clients : Adding(d) => Place(d) \in Accounts \X Groups
    BY DEF WorkInv, Work, Adding, Request, Place
  <2>2. contested' \subseteq Accounts \X Groups
    BY <1>3, <2>1 DEF Rollback, TypeOK
  <2>3. group_info' \in GroupTable /\ user_group' \in RowTable /\ saved' = None /\ undone' \subseteq Groups
    BY <1>3, RestoreType DEF Rollback
  <2> QED BY <1>3, <2>2, <2>3 DEF Rollback, TypeOK
<1> QED BY <1>1, <1>2, <1>3

\* A login and a disconnect.
LEMMA LoginType ==
  ASSUME TypeOK, NEW c \in Clients,
         \/ do_login(c) \/ get_addgroup_ask(c) \/ SendAskList(c) \/ AskListSent(c)
         \/ get_grouplist(c) \/ SendGroupList(c) \/ GroupListSent(c) \/ ListFails(c)
         \/ Disconnect(c) \/ Interrupt(c)
  PROVE  TypeOK'
<1>0. Nothing \in Statuses /\ AccountOf[c] \in Accounts
  BY GroupsAssumption DEF Nothing, Statuses
<1>1. CASE do_login(c)
  <2>1. logins' \in 0..MaxLogins
    BY <1>1, GroupsAssumption DEF do_login, TypeOK
  <2>2. doubled' \subseteq Accounts
    BY <1>0, <1>1 DEF do_login, TypeOK
  <2> QED BY <1>1, <2>1, <2>2 DEF do_login, TypeOK, Pcs
<1>2. CASE get_addgroup_ask(c)
  <2> DEFINE S == {i \in Ids : /\ AccountOf[c] \in {user_group[i].user, user_group[i].creator}
                              /\ user_group[i].user # user_group[i].creator}
  <2>1. Read(S) \in Statuses
    BY ReadType
  <2>2. got' = [got EXCEPT ![c] = Read(S)]
    BY <1>2 DEF get_addgroup_ask
  <2> HIDE DEF S
  <2> QED BY <1>2, <2>1, <2>2 DEF get_addgroup_ask, TypeOK, Pcs
<1>3. CASE SendAskList(c)
  BY <1>3 DEF SendAskList, TypeOK, Pcs
<1>4. CASE AskListSent(c)
  BY <1>0, <1>4, LearnType DEF AskListSent, TypeOK, Pcs
<1>5. CASE get_grouplist(c)
  BY <1>5 DEF get_grouplist, TypeOK, Pcs
<1>6. CASE SendGroupList(c)
  BY <1>6 DEF SendGroupList, TypeOK, Pcs
<1>7. CASE GroupListSent(c)
  <2>1. listed' \in [Clients -> SUBSET Groups]
    BY <1>7 DEF GroupListSent, TypeOK
  <2> QED BY <1>7, <2>1, ReturnType DEF GroupListSent, TypeOK
<1>8. CASE ListFails(c)
  BY <1>0, <1>8, CutType, MishapType DEF ListFails, TypeOK, Pcs
<1>9. CASE Disconnect(c)
  BY <1>9 DEF Disconnect, TypeOK, Pcs
<1>10. CASE Interrupt(c)
  BY <1>10, CutType, MishapType DEF Interrupt, TypeOK
<1> QED BY <1>1, <1>2, <1>3, <1>4, <1>5, <1>6, <1>7, <1>8, <1>9, <1>10

\* The handlers that add a row, up to it.
LEMMA AddingType ==
  ASSUME TypeOK, WorkInv, SlotInv, NEW c \in Clients,
         \/ (\E g \in Groups : Create(c, g) \/ Ask(c, g))
         \/ FindGroup(c) \/ InsertGroup(c) \/ InsertCreator(c) \/ InsertCreatorFails(c)
         \/ ListCreator(c) \/ FindAsked(c) \/ FindActive(c) \/ InsertAsk(c) \/ StatementFails(c)
  PROVE  TypeOK'
<1>0. Adding(c) => Work(c) /\ req[c] \in Request /\ req[c].id \in RowIds
  BY GroupsAssumption DEF Adding, WorkInv, Work, SlotInv, RowIds, TypeOK
<1>1. CASE \E g \in Groups : Create(c, g) \/ Ask(c, g)
  BY <1>1, StartType DEF Create, Ask
<1>2. CASE FindGroup(c)
  BY <1>2 DEF FindGroup, TypeOK, Pcs
<1>3. CASE InsertGroup(c)
  <2>1. req[c].group \in Groups /\ [creator |-> req[c].user, member_num |-> 1] \in Group
    BY <1>0, <1>3 DEF InsertGroup, Adding, Request, Group
  <2>2. group_info' \in GroupTable
    BY <1>3, <2>1 DEF InsertGroup, TypeOK, GroupTable
  <2> QED BY <1>3, <2>2 DEF InsertGroup, TypeOK, Pcs
<1>4. CASE InsertCreator(c)
  <2>1. Work(c) /\ req[c].id \in RowIds /\ req[c].user \in Accounts /\ Place(c) \in Accounts \X Groups
    BY <1>0, <1>4 DEF InsertCreator, Adding, Request, Place
  <2>2. user_group' \in RowTable
    BY <1>4, <2>1, InsertRowType DEF InsertCreator
  <2> QED BY <1>4, <2>1, <2>2 DEF InsertCreator, TypeOK, Pcs
<1>5. CASE InsertCreatorFails(c)
  BY <1>5, MishapType DEF InsertCreatorFails, TypeOK, Pcs
<1>6. CASE ListCreator(c)
  <2>1. ToldType
    <3>1. CASE Arrives(c) /\ UNCHANGED pending /\ listed' = [listed EXCEPT ![c] = @ \cup Shown(c)]
      BY <1>6, <3>1 DEF ListCreator, Shown, Arrives, ToldType, TypeOK, WorkInv, Work, Request
    <3> QED BY <1>6, <3>1, LostType DEF ListCreator
  <2> QED BY <1>6, <2>1, ReturnType DEF ListCreator, ToldType, TypeOK
<1>7. CASE FindAsked(c)
  <2>1. CASE Return(c)
    BY <1>7, <2>1, ReturnType DEF FindAsked, TypeOK
  <2>2. CASE group_info[req[c].group] # None
    <3>1. group_info[req[c].group].creator \in Accounts
      BY <1>0, <1>7, <2>2 DEF FindAsked, Adding, Request, TypeOK, GroupTable, Group
    <3>2. [req[c] EXCEPT !.creator = group_info[req[c].group].creator] \in Request
      BY <1>0, <1>7, <3>1 DEF FindAsked, Adding, Request
    <3>3. req' \in [Clients -> Request \cup {None}]
      BY <1>7, <2>2, <3>2 DEF FindAsked, TypeOK
    <3> QED BY <1>7, <2>2, <3>3 DEF FindAsked, TypeOK, Pcs
  <2> QED BY <1>7, <2>1, <2>2 DEF FindAsked
<1>8. CASE FindActive(c)
  <2>1. CASE Return(c)
    BY <1>8, <2>1, ReturnType DEF FindActive, TypeOK
  <2>2. CASE Goto(c, "insert_ask") /\ UNCHANGED <<req, gotVars>>
    BY <1>8, <2>2 DEF FindActive, TypeOK, Pcs
  <2> QED BY <1>8, <2>1, <2>2 DEF FindActive
<1>9. CASE InsertAsk(c)
  <2>1. Work(c) /\ req[c].id \in RowIds /\ req[c].creator \in Accounts
    BY <1>0, <1>9 DEF InsertAsk, Adding, Work
  <2>2. user_group' \in RowTable
    BY <1>9, <2>1, InsertRowType DEF InsertAsk
  <2> QED BY <1>9, <2>2 DEF InsertAsk, TypeOK, Pcs
<1>10. CASE StatementFails(c)
  <2>1. CASE Goto(c, "list_creator") /\ UNCHANGED <<req, gotVars, clientVars, boundVars>>
    BY <1>10, <2>1 DEF StatementFails, TypeOK, Pcs
  <2>2. CASE Return(c) /\ UNCHANGED <<clientVars, boundVars>>
    BY <1>10, <2>2, ReturnType DEF StatementFails, TypeOK
  <2>3. ASSUME Return(c), Mishap, NEW S \in SUBSET Clients, Cut(S) PROVE TypeOK'
    BY <1>10, <2>3, ReturnType, MishapType, CutType DEF StatementFails, TypeOK
  <2>4. CASE pc[c] = "fetch" /\ Return(c) /\ Cut({c, PeerClient(c)} \ {None}) /\ Mishap
    <3>1. {c, PeerClient(c)} \ {None} \in SUBSET Clients
      BY <2>4, PeerType
    <3> QED BY <2>3, <2>4, <3>1
  <2> QED BY <1>10, <2>1, <2>2, <2>3, <2>4 DEF StatementFails
<1> QED BY <1>1, <1>2, <1>3, <1>4, <1>5, <1>6, <1>7, <1>8, <1>9, <1>10

\* An answer, up to its statements.
LEMMA AnswerType ==
  ASSUME TypeOK, WorkInv, NEW c \in Clients,
         \/ (\E u \in Accounts, g \in Groups, kind \in {"accept", "reject"} : Answer(c, u, g, kind))
         \/ updata_group_data_handle(c) \/ UpdateFails(c) \/ CountMember(c) \/ CountMemberFails(c)
         \/ NobodyAdded(c)
  PROVE  TypeOK'
<1>1. ASSUME NEW u \in Accounts, NEW g \in Groups, NEW kind \in {"accept", "reject"}, Answer(c, u, g, kind)
      PROVE  TypeOK'
  <2>1. [kind |-> kind, user |-> u, group |-> g, creator |-> None, id |-> 0] \in Request
    BY GroupsAssumption DEF Request
  <2>2. answers' \in 0..MaxAnswers
    BY <1>1, GroupsAssumption DEF Answer, TypeOK
  <2> QED BY <1>1, <2>1, <2>2 DEF Answer, TypeOK, Pcs
<1>2. CASE updata_group_data_handle(c)
  <2>1. \A i \in Rows(req[c].user, req[c].group) : user_group[i] \in Row
    BY RowType DEF Rows, RowsIn
  <2>2. user_group' \in RowTable
    BY <1>2, <2>1 DEF updata_group_data_handle, TypeOK, RowTable, Row
  <2> QED BY <1>2, <2>2 DEF updata_group_data_handle, TypeOK, Pcs
<1>3. CASE UpdateFails(c)
  BY <1>3, DieType DEF UpdateFails
<1>4. CASE CountMember(c)
  <2>1. req[c].group \in Groups
    BY <1>4 DEF CountMember, WorkInv, Work, Request
  <2>2. group_info[req[c].group] # None =>
          [group_info[req[c].group] EXCEPT !.member_num = @ + 1] \in Group
    BY <2>1 DEF TypeOK, GroupTable, Group
  <2>3. group_info' \in GroupTable
    BY <1>4, <2>1, <2>2 DEF CountMember, TypeOK, GroupTable
  <2> QED BY <1>4, <2>3 DEF CountMember, TypeOK, Pcs
<1>5. CASE CountMemberFails(c)
  <2>1. req[c].group \in Groups
    BY <1>5 DEF CountMemberFails, WorkInv, Work, Request
  <2> QED BY <1>5, <2>1, MishapType DEF CountMemberFails, TypeOK, Pcs
<1>6. CASE NobodyAdded(c)
  BY <1>6, DieType DEF NobodyAdded
<1> QED BY <1>1, <1>2, <1>3, <1>4, <1>5, <1>6

\* The notices of a handler.
LEMMA NoticeType ==
  ASSUME TypeOK, WorkInv, NEW c \in Clients,
         \/ consutrct_group_ask_notice_msg(c) \/ NoRowToTell(c) \/ TellSelf(c) \/ TellPeer(c)
         \/ QueryFails(c) \/ get_users_in_group(c) \/ TellMember(c) \/ TellAddSuccess(c)
  PROVE  TypeOK'
<1>1. CASE consutrct_group_ask_notice_msg(c)
  <2>1. PICK i \in Latest(req[c].user, req[c].group) :
          /\ got' = [got EXCEPT ![c] = Read({i})]
          /\ req' = [req EXCEPT ![c].creator = user_group[i].creator]
    BY <1>1 DEF consutrct_group_ask_notice_msg
  <2>2. i \in Ids /\ user_group[i].creator \in Accounts
    BY RowType DEF Latest, Rows, RowsIn, Ids, Row
  <2>3. [req[c] EXCEPT !.creator = user_group[i].creator] \in Request
    BY <1>1, <2>2 DEF consutrct_group_ask_notice_msg, WorkInv, Work, Request
  <2>4. Read({i}) \in Statuses
    BY <2>2, ReadType
  <2> QED BY <1>1, <2>1, <2>3, <2>4 DEF consutrct_group_ask_notice_msg, TypeOK, Pcs
<1>2. CASE NoRowToTell(c)
  <2>1. CASE Die /\ UNCHANGED boundVars
    BY <2>1, DieType
  <2>2. CASE Goto(c, "tell_self") /\ UNCHANGED <<dbVars, user_client, req, gotVars, clientVars, boundVars, raceVars>>
    BY <2>2 DEF TypeOK, Pcs
  <2> QED BY <1>2, <2>1, <2>2 DEF NoRowToTell
<1>3. CASE TellSelf(c)
  <2>1. ToldType
    <3>1. CASE Arrives(c) /\ pending' = [pending EXCEPT ![c] = Learn(c, got[c])] /\ UNCHANGED listed
      BY <3>1, LearnType DEF Arrives, ToldType, TypeOK
    <3> QED BY <1>3, <3>1, LostType DEF TellSelf
  <2> QED BY <1>3, <2>1 DEF TellSelf, ToldType, TypeOK, Pcs
<1>4. CASE TellPeer(c)
  <2>1. ToldType
    <3>1. CASE UNCHANGED <<clientVars, boundVars>>
      BY <3>1 DEF ToldType, TypeOK
    <3>2. CASE Arrives(PeerClient(c)) /\ UNCHANGED listed /\
               pending' = [pending EXCEPT ![PeerClient(c)] = Learn(PeerClient(c), got[c])]
      BY <3>2, LearnType DEF Arrives, ToldType, TypeOK
    <3>3. CASE PeerClient(c) # None /\ IsLost(PeerClient(c))
      BY <1>4, <3>3, PeerType, LostType DEF TellPeer
    <3> QED BY <1>4, <3>1, <3>2, <3>3 DEF TellPeer
  <2>2. CASE Return(c)
    BY <1>4, <2>1, <2>2, ReturnType DEF TellPeer, ToldType, TypeOK
  <2>3. CASE Goto(c, "members") /\ UNCHANGED <<req, gotVars>>
    BY <1>4, <2>1, <2>3 DEF TellPeer, ToldType, TypeOK, Pcs
  <2> QED BY <1>4, <2>2, <2>3 DEF TellPeer
<1>5. CASE QueryFails(c)
  <2>1. {d \in Clients : pc[d] # "out"} \in SUBSET Clients
    OBVIOUS
  <2> QED BY <1>5, <2>1, CutType, MishapType DEF QueryFails, TypeOK
<1>6. CASE get_users_in_group(c)
  <2>1. Members(req[c].group) \subseteq Accounts
    BY RowType DEF Members, MemberRows, Ids, Row
  <2> QED BY <1>6, <2>1 DEF get_users_in_group, TypeOK, Pcs
<1>7. CASE TellMember(c)
  <2>1. PICK u \in to_tell[c] :
          /\ to_tell' = [to_tell EXCEPT ![c] = @ \ {u}]
          /\ \/ user_client[u] = None /\ UNCHANGED <<clientVars, boundVars>>
             \/ /\ user_client[u] # None /\ Arrives(user_client[u]) /\ UNCHANGED pending
                /\ listed' = [listed EXCEPT ![user_client[u]] = @ \cup Shown(c)]
             \/ user_client[u] # None /\ IsLost(user_client[u])
    BY <1>7 DEF TellMember
  <2>2. user_client[u] \in Clients \cup {None} /\ req[c].group \in Groups
    BY <1>7, <2>1 DEF TellMember, TypeOK, WorkInv, Work, Request
  <2>3. ToldType
    <3>1. CASE UNCHANGED <<clientVars, boundVars>>
      BY <3>1 DEF ToldType, TypeOK
    <3>2. CASE Arrives(user_client[u]) /\ UNCHANGED pending /\
               listed' = [listed EXCEPT ![user_client[u]] = @ \cup Shown(c)]
      BY <2>2, <3>2 DEF Shown, Arrives, ToldType, TypeOK
    <3>3. CASE user_client[u] # None /\ IsLost(user_client[u])
      BY <2>2, <3>3, LostType
    <3> QED BY <2>1, <3>1, <3>2, <3>3
  <2> QED BY <1>7, <2>1, <2>3 DEF TellMember, ToldType, TypeOK
<1>8. CASE TellAddSuccess(c)
  BY <1>8, ReturnType DEF TellAddSuccess, TypeOK
<1> QED BY <1>1, <1>2, <1>3, <1>4, <1>5, <1>6, <1>7, <1>8

LEMMA TypeStep == BasicInv /\ [Next]_vars => TypeOK'
<1> SUFFICES ASSUME BasicInv, [Next]_vars PROVE TypeOK'
  OBVIOUS
<1>1. CASE UNCHANGED vars
  BY <1>1 DEF vars, BasicInv, TypeOK
<1>2. ASSUME NEW c \in Clients, ClientNext(c) PROVE TypeOK'
  BY <1>2, LoginType, AddingType, AnswerType, NoticeType DEF ClientNext, BasicInv
<1> QED BY <1>1, <1>2, ThreadType DEF Next, BasicInv

\* A step of one handler leaves the others where they are, unless the process dies.
LEMMA OthersKeep ==
  ASSUME TypeOK, NEW c \in Clients, ClientNext(c)
  PROVE  \/ Die
         \/ \A d \in Clients \ {c} : /\ pc'[d] = pc[d] /\ req'[d] = req[d]
                                     /\ got_groups'[d] = got_groups[d] /\ to_tell'[d] = to_tell[d]
<1>1. CASE \/ do_login(c) \/ get_addgroup_ask(c) \/ SendAskList(c) \/ AskListSent(c)
           \/ get_grouplist(c) \/ SendGroupList(c) \/ ListFails(c) \/ Disconnect(c) \/ Interrupt(c)
  BY <1>1 DEF do_login, get_addgroup_ask, SendAskList, AskListSent, get_grouplist,
              SendGroupList, ListFails, Disconnect, Interrupt, TypeOK
<1>2. CASE Return(c)
  BY <1>2, ReturnType
<1>3. CASE GroupListSent(c) \/ ListCreator(c) \/ TellAddSuccess(c)
  BY <1>2, <1>3 DEF GroupListSent, ListCreator, TellAddSuccess
<1>4. CASE FindAsked(c) \/ FindActive(c) \/ TellPeer(c) \/ StatementFails(c)
  BY <1>2, <1>4 DEF FindAsked, FindActive, TellPeer, StatementFails, TypeOK
<1>5. CASE (\E g \in Groups : Create(c, g) \/ Ask(c, g)) \/ FindGroup(c) \/ InsertGroup(c)
           \/ InsertCreator(c) \/ InsertCreatorFails(c) \/ InsertAsk(c)
  BY <1>5 DEF Create, Ask, Start, FindGroup, InsertGroup, InsertCreator, InsertCreatorFails,
              InsertAsk, TypeOK
<1>6. CASE (\E u \in Accounts, g \in Groups, kind \in {"accept", "reject"} : Answer(c, u, g, kind))
           \/ updata_group_data_handle(c) \/ CountMember(c) \/ CountMemberFails(c)
  BY <1>6 DEF Answer, updata_group_data_handle, CountMember, CountMemberFails, TypeOK
<1>7. CASE UpdateFails(c) \/ NobodyAdded(c)
  BY <1>7 DEF UpdateFails, NobodyAdded
<1>8. CASE consutrct_group_ask_notice_msg(c) \/ TellSelf(c) \/ QueryFails(c) \/ get_users_in_group(c)
           \/ TellMember(c)
  BY <1>8 DEF consutrct_group_ask_notice_msg, TellSelf, QueryFails, get_users_in_group, TellMember, TypeOK
<1>9. CASE NoRowToTell(c)
  BY <1>9 DEF NoRowToTell, TypeOK
<1> QED BY <1>1, <1>3, <1>4, <1>5, <1>6, <1>7, <1>8, <1>9 DEF ClientNext

-----------------------------------------------------------------------------
(* What handlers know of their messages *)

LEMMA WorkStep == TypeOK /\ WorkInv /\ [Next]_vars => WorkInv'
<1> SUFFICES ASSUME TypeOK, WorkInv, [Next]_vars PROVE WorkInv'
  OBVIOUS
<1>1. CASE Tick \/ Begin \/ Rollback \/ UNCHANGED vars
  BY <1>1 DEF Tick, Begin, Rollback, vars, WorkInv, Work
<1>2. ASSUME NEW c \in Clients, ClientNext(c) PROVE WorkInv'
  <2>1. CASE Die
    BY <2>1 DEF Die, WorkInv
  <2>2. SUFFICES ASSUME ~Die, \A d \in Clients \ {c} : pc'[d] = pc[d] /\ req'[d] = req[d]
                 PROVE  WorkInv'
    BY <1>2, <2>1, OthersKeep
  <2>3. SUFFICES ASSUME pc'[c] \in Working PROVE Work(c)'
    BY <2>2 DEF WorkInv, Work
  <2>4. CASE \/ do_login(c) \/ get_addgroup_ask(c) \/ SendAskList(c) \/ AskListSent(c)
             \/ get_grouplist(c) \/ SendGroupList(c) \/ ListFails(c) \/ Disconnect(c)
    BY <2>3, <2>4 DEF do_login, get_addgroup_ask, SendAskList, AskListSent,
                      get_grouplist, SendGroupList, ListFails, Disconnect, TypeOK
  <2>5. CASE Return(c) \/ GroupListSent(c) \/ ListCreator(c) \/ TellAddSuccess(c)
    BY <2>3, <2>5, ReturnType DEF GroupListSent, ListCreator, TellAddSuccess
  <2>6. CASE Interrupt(c) \/ QueryFails(c) \/ TellMember(c)
    BY <2>3, <2>6 DEF Interrupt, QueryFails, TellMember, WorkInv, Work
  <2>7. ASSUME NEW g \in Groups, Create(c, g) \/ Ask(c, g) PROVE Work(c)'
    BY <2>7, StartType DEF Create, Ask, Work
  <2>8. CASE FindGroup(c) \/ InsertGroup(c) \/ InsertCreator(c) \/ InsertCreatorFails(c) \/ InsertAsk(c)
    BY <2>8 DEF FindGroup, InsertGroup, InsertCreator, InsertCreatorFails, InsertAsk, WorkInv, Work, TypeOK
  <2>9. CASE FindAsked(c) /\ ~Return(c)
    <3>1. Work(c) /\ req[c].group \in Groups /\ group_info[req[c].group] # None
      BY <2>9 DEF FindAsked, WorkInv, Work, Request
    <3>2. group_info[req[c].group].creator \in Accounts
      BY <3>1 DEF TypeOK, GroupTable, Group
    <3>3. [req[c] EXCEPT !.creator = group_info[req[c].group].creator] \in Request
      BY <3>1, <3>2 DEF Work, Request
    <3>4. req'[c] = [req[c] EXCEPT !.creator = group_info[req[c].group].creator] /\ pc'[c] = "find_active"
      BY <2>9 DEF FindAsked, TypeOK
    <3> QED BY <2>9, <3>1, <3>2, <3>3, <3>4 DEF FindAsked, Work, Request
  <2>10. CASE (FindActive(c) \/ TellPeer(c) \/ StatementFails(c)) /\ ~Return(c)
    BY <2>10 DEF FindActive, TellPeer, StatementFails, WorkInv, Work, TypeOK
  <2>11. ASSUME NEW u \in Accounts, NEW g \in Groups, NEW kind \in {"accept", "reject"}, Answer(c, u, g, kind)
         PROVE  Work(c)'
    <3>1. [kind |-> kind, user |-> u, group |-> g, creator |-> None, id |-> 0] \in Request
      BY GroupsAssumption DEF Request
    <3> QED BY <2>11, <3>1 DEF Answer, Work, TypeOK
  <2>12. CASE updata_group_data_handle(c) \/ CountMember(c) \/ CountMemberFails(c)
    BY <2>12 DEF updata_group_data_handle, CountMember, CountMemberFails, WorkInv, Work, TypeOK
  <2>13. CASE UpdateFails(c) \/ NobodyAdded(c)
    BY <2>2, <2>13 DEF UpdateFails, NobodyAdded
  <2>14. CASE consutrct_group_ask_notice_msg(c)
    <3>1. PICK i \in Latest(req[c].user, req[c].group) : req' = [req EXCEPT ![c].creator = user_group[i].creator]
      BY <2>14 DEF consutrct_group_ask_notice_msg
    <3>2. user_group[i].creator \in Accounts
      BY RowType DEF Latest, Rows, RowsIn, Row
    <3>3. Work(c) /\ req'[c] = [req[c] EXCEPT !.creator = user_group[i].creator] /\ pc'[c] = "tell_self"
      BY <2>14, <3>1 DEF consutrct_group_ask_notice_msg, WorkInv, TypeOK
    <3>4. [req[c] EXCEPT !.creator = user_group[i].creator] \in Request
      BY <3>2, <3>3 DEF Work, Request
    <3> QED BY <3>3, <3>4 DEF Work, Request
  <2>15. CASE NoRowToTell(c) \/ TellSelf(c) \/ get_users_in_group(c)
    BY <2>2, <2>15 DEF NoRowToTell, TellSelf, get_users_in_group, WorkInv, Work, TypeOK
  <2> QED BY <1>2, <2>4, <2>5, <2>6, <2>7, <2>8, <2>9, <2>10, <2>11, <2>12, <2>13, <2>14, <2>15 DEF ClientNext
<1> QED BY <1>1, <1>2 DEF Next

-----------------------------------------------------------------------------
(* The tables: a group is added, counted; a row is inserted, answered *)

\* A step that writes a table does one of these.
Founds(c) ==
  /\ pc[c] = "insert_group" /\ pc'[c] = "insert_creator" /\ req'[c] = req[c]
  /\ group_info[req[c].group] = None
  /\ group_info' = [group_info EXCEPT ![req[c].group] = [creator |-> req[c].user, member_num |-> 1]]
  /\ UNCHANGED <<user_group, saved>>
Inserts(c) ==
  /\ \/ pc[c] = "insert_creator" /\ pc'[c] = "list_creator" /\ InsertRow(c, req[c].user, 1)
     \/ pc[c] = "insert_ask" /\ pc'[c] = "fetch" /\ InsertRow(c, req[c].creator, 0)
  /\ req'[c] = req[c]
  /\ UNCHANGED <<group_info, saved>>
Answers(c, i) ==
  /\ i \in Rows(req[c].user, req[c].group) /\ user_group[i].status = 0
  /\ \E s \in {-1, 1} : /\ user_group'[i] = [user_group[i] EXCEPT !.status = s]
                        /\ s = 1 => req[c].kind = "accept"
Updates(c) ==
  /\ pc[c] = "update" /\ pc'[c] = IF req[c].kind = "accept" THEN "count" ELSE "fetch"
  /\ req'[c] = req[c]
  /\ \A i \in RowIds : user_group'[i] = user_group[i] \/ Answers(c, i)
  /\ UNCHANGED <<group_info, saved>>
Counts(c) ==
  /\ pc[c] = "count" /\ pc'[c] = "fetch" /\ req'[c] = req[c]
  /\ group_info' = IF group_info[req[c].group] = None THEN group_info
                   ELSE [group_info EXCEPT ![req[c].group].member_num = @ + 1]
  /\ UNCHANGED <<user_group, saved>>

LEMMA TableWrites ==
  ASSUME TypeOK, NEW c \in Clients, ClientNext(c)
  PROVE  Founds(c) \/ Inserts(c) \/ Updates(c) \/ Counts(c) \/ Die \/ UNCHANGED dbVars
<1>1. CASE \/ do_login(c) \/ get_addgroup_ask(c) \/ SendAskList(c) \/ AskListSent(c)
           \/ get_grouplist(c) \/ SendGroupList(c) \/ GroupListSent(c) \/ ListFails(c)
           \/ Disconnect(c) \/ Interrupt(c)
  BY <1>1 DEF do_login, get_addgroup_ask, SendAskList, AskListSent, get_grouplist,
              SendGroupList, GroupListSent, ListFails, Disconnect, Interrupt
<1>2. CASE \/ (\E g \in Groups : Create(c, g) \/ Ask(c, g)) \/ FindGroup(c) \/ InsertCreatorFails(c)
           \/ ListCreator(c) \/ FindAsked(c) \/ FindActive(c) \/ StatementFails(c)
           \/ (\E u \in Accounts, g \in Groups, kind \in {"accept", "reject"} : Answer(c, u, g, kind))
           \/ CountMemberFails(c)
  BY <1>2 DEF Create, Ask, Start, FindGroup, InsertCreatorFails, ListCreator, FindAsked, FindActive,
              StatementFails, Answer, CountMemberFails
<1>3. CASE InsertGroup(c)
  BY <1>3 DEF InsertGroup, Founds, TypeOK
<1>4. CASE InsertCreator(c) \/ InsertAsk(c)
  BY <1>4 DEF InsertCreator, InsertAsk, Inserts, TypeOK
<1>5. CASE updata_group_data_handle(c)
  BY <1>5 DEF updata_group_data_handle, Updates, Answers, TypeOK
<1>6. CASE CountMember(c)
  BY <1>6 DEF CountMember, Counts, TypeOK
<1>7. CASE UpdateFails(c) \/ NobodyAdded(c)
  BY <1>7 DEF UpdateFails, NobodyAdded
<1>8. CASE \/ consutrct_group_ask_notice_msg(c) \/ NoRowToTell(c) \/ TellSelf(c) \/ TellPeer(c)
           \/ QueryFails(c) \/ get_users_in_group(c) \/ TellMember(c) \/ TellAddSuccess(c)
  BY <1>8 DEF consutrct_group_ask_notice_msg, NoRowToTell, TellSelf, TellPeer, QueryFails,
              get_users_in_group, TellMember, TellAddSuccess
<1> QED BY <1>1, <1>2, <1>3, <1>4, <1>5, <1>6, <1>7, <1>8 DEF ClientNext

\* A handler goes on towards its row, or begins to.
Goes(c) ==
  /\ Adding(c) /\ requests' = requests /\ Place(c)' = Place(c)
  /\ req'[c].id = req[c].id /\ req'[c].user = req[c].user /\ req'[c].group = req[c].group
  /\ \/ pc'[c] \in {pc[c], "insert_group"} /\ UNCHANGED dbVars
     \/ Founds(c)
     \/ pc'[c] = "find_active" /\ group_info[req[c].group] # None /\ UNCHANGED dbVars
     \/ /\ pc[c] = "find_active" /\ pc'[c] = "insert_ask" /\ Active(req[c].user, req[c].group) = {}
        /\ UNCHANGED dbVars

LEMMA Checks ==
  ASSUME TypeOK, WorkInv, NEW c \in Clients, ClientNext(c), Adding(c)'
  PROVE  Goes(c) \/ \E g \in Groups : Create(c, g) \/ Ask(c, g)
<1>1. CASE Die
  BY <1>1 DEF Die, Adding
<1>2. CASE \/ do_login(c) \/ get_addgroup_ask(c) \/ SendAskList(c) \/ AskListSent(c)
           \/ get_grouplist(c) \/ SendGroupList(c) \/ ListFails(c) \/ Disconnect(c)
  BY <1>2 DEF do_login, get_addgroup_ask, SendAskList, AskListSent,
              get_grouplist, SendGroupList, ListFails, Disconnect, TypeOK, Adding
<1>3. CASE Return(c) \/ GroupListSent(c) \/ ListCreator(c) \/ TellAddSuccess(c)
  BY <1>3, ReturnType DEF GroupListSent, ListCreator, TellAddSuccess, Adding
<1>4. CASE Interrupt(c) \/ QueryFails(c) \/ TellMember(c)
  BY <1>4 DEF Interrupt, QueryFails, TellMember, Listing, Adding
<1>5. CASE FindGroup(c) \/ InsertGroup(c)
  BY <1>5 DEF FindGroup, InsertGroup, Adding, Goes, Place, Founds, TypeOK
<1>6. CASE FindAsked(c) /\ ~Return(c)
  <2>1. req[c] \in Request
    BY <1>6 DEF FindAsked, WorkInv, Work
  <2>2. req'[c] = [req[c] EXCEPT !.creator = group_info[req[c].group].creator] /\ pc'[c] = "find_active"
    BY <1>6 DEF FindAsked, TypeOK
  <2>3. req'[c].id = req[c].id /\ req'[c].user = req[c].user /\ req'[c].group = req[c].group
    BY <2>1, <2>2 DEF Request
  <2> QED BY <1>6, <2>2, <2>3 DEF FindAsked, Adding, Goes, Place
<1>7. CASE FindActive(c) /\ ~Return(c)
  BY <1>7 DEF FindActive, Adding, Goes, Place, TypeOK
<1>8. CASE StatementFails(c) /\ ~Return(c)
  BY <1>8 DEF StatementFails, Adding, TypeOK
<1>9. CASE TellPeer(c) /\ ~Return(c)
  BY <1>9 DEF TellPeer, Adding, TypeOK
<1>10. CASE \/ (\E u \in Accounts, g \in Groups, kind \in {"accept", "reject"} : Answer(c, u, g, kind))
            \/ InsertCreator(c) \/ InsertCreatorFails(c) \/ InsertAsk(c)
            \/ updata_group_data_handle(c) \/ CountMember(c) \/ CountMemberFails(c)
            \/ consutrct_group_ask_notice_msg(c) \/ (NoRowToTell(c) /\ ~Die) \/ TellSelf(c)
            \/ get_users_in_group(c)
  BY <1>10 DEF Answer, InsertCreator, InsertCreatorFails, InsertAsk, updata_group_data_handle, CountMember,
               CountMemberFails, consutrct_group_ask_notice_msg, NoRowToTell, TellSelf,
               get_users_in_group, Adding, TypeOK
<1>11. CASE UpdateFails(c) \/ NobodyAdded(c)
  BY <1>1, <1>11 DEF UpdateFails, NobodyAdded
<1> QED BY <1>2, <1>3, <1>4, <1>5, <1>6, <1>7, <1>8, <1>9, <1>10, <1>11, <1>1 DEF ClientNext

\* Only a request counts as one, and only a request, or a ROLLBACK, makes others contested.
LEMMA Unasked ==
  ASSUME TypeOK, NEW c \in Clients, ClientNext(c)
  PROVE  UNCHANGED <<requests, contested>> \/ \E g \in Groups : Create(c, g) \/ Ask(c, g)
<1>1. CASE \/ do_login(c) \/ get_addgroup_ask(c) \/ SendAskList(c) \/ AskListSent(c)
           \/ get_grouplist(c) \/ SendGroupList(c) \/ GroupListSent(c) \/ ListFails(c)
           \/ Disconnect(c) \/ Interrupt(c)
  BY <1>1 DEF do_login, get_addgroup_ask, SendAskList, AskListSent, get_grouplist,
              SendGroupList, GroupListSent, ListFails, Disconnect, Interrupt, Mishap
<1>2. CASE \/ FindGroup(c) \/ InsertGroup(c) \/ InsertCreator(c) \/ InsertCreatorFails(c)
           \/ FindAsked(c) \/ FindActive(c) \/ InsertAsk(c) \/ StatementFails(c)
           \/ (\E u \in Accounts, g \in Groups, kind \in {"accept", "reject"} : Answer(c, u, g, kind))
           \/ updata_group_data_handle(c) \/ UpdateFails(c) \/ CountMember(c) \/ CountMemberFails(c)
           \/ consutrct_group_ask_notice_msg(c) \/ NoRowToTell(c)
  BY <1>2 DEF FindGroup, InsertGroup, InsertCreator, InsertCreatorFails, FindAsked, FindActive, InsertAsk,
              StatementFails, Answer, updata_group_data_handle, UpdateFails, CountMember, CountMemberFails,
              consutrct_group_ask_notice_msg, NoRowToTell, Mishap, Die
<1>3. CASE ListCreator(c) \/ TellSelf(c) \/ TellPeer(c) \/ TellMember(c)
  BY <1>3 DEF ListCreator, TellSelf, TellPeer, TellMember, Arrives, IsLost, Mishap
<1>4. CASE QueryFails(c) \/ get_users_in_group(c) \/ TellAddSuccess(c) \/ NobodyAdded(c)
  BY <1>4 DEF QueryFails, get_users_in_group, TellAddSuccess, NobodyAdded, Mishap, Die
<1> QED BY <1>1, <1>2, <1>3, <1>4 DEF ClientNext

LEMMA ContestedGrows ==
  ASSUME TypeOK, [Next]_vars
  PROVE  contested \subseteq contested'
<1>1. CASE Tick \/ Begin \/ Rollback \/ UNCHANGED vars
  BY <1>1 DEF Tick, Begin, Rollback, vars
<1>2. ASSUME NEW c \in Clients, ClientNext(c) PROVE contested \subseteq contested'
  BY <1>2, Unasked DEF Create, Ask, Start
<1> QED BY <1>1, <1>2 DEF Next

-----------------------------------------------------------------------------
(* Free places, and what a ROLLBACK leaves *)

\* What an insert does to the rows.
LEMMA InsertsRow ==
  ASSUME BasicInv, NEW c \in Clients, Inserts(c)
  PROVE  /\ Adding(c) /\ ~Adding(c)' /\ Work(c)
         /\ req[c].id \in RowIds /\ user_group[req[c].id] = None
         /\ user_group'[req[c].id] \in Row /\ user_group'[req[c].id] # None
         /\ user_group'[req[c].id].user = req[c].user /\ user_group'[req[c].id].group = req[c].group
         /\ pc[c] = "insert_creator" => user_group'[req[c].id].creator = req[c].user
                                        /\ user_group'[req[c].id].status = 1
         /\ pc[c] = "insert_ask" => user_group'[req[c].id].status = 0
         /\ \A i \in RowIds \ {req[c].id} : user_group'[i] = user_group[i]
<1>1. Adding(c) /\ ~Adding(c)' /\ Work(c)
  BY DEF Inserts, Adding, BasicInv, WorkInv
<1>2. req[c].id \in RowIds /\ user_group[req[c].id] = None
  BY <1>1, GroupsAssumption DEF BasicInv, SlotInv, TypeOK, RowIds
<1>3. CASE pc[c] = "insert_creator"
  <2>1. req[c].user \in Accounts
    BY <1>1 DEF Work, Request
  <2>2. InsertRow(c, req[c].user, 1)
    BY <1>3 DEF Inserts
  <2> QED BY <1>1, <1>2, <1>3, <2>1, <2>2, InsertRowType DEF BasicInv
<1>4. CASE pc[c] = "insert_ask"
  <2>1. req[c].creator \in Accounts
    BY <1>1, <1>4 DEF Work
  <2>2. InsertRow(c, req[c].creator, 0)
    BY <1>4 DEF Inserts
  <2> QED BY <1>1, <1>2, <1>4, <2>1, <2>2, InsertRowType DEF BasicInv
<1> QED BY <1>3, <1>4 DEF Inserts

\* What an answer does to a row.
LEMMA AnswersRow ==
  ASSUME TypeOK, NEW c \in Clients, NEW i \in RowIds, Answers(c, i)
  PROVE  /\ user_group[i] # None /\ user_group'[i] # None
         /\ user_group[i].user = req[c].user /\ user_group[i].group = req[c].group
         /\ user_group'[i].user = user_group[i].user /\ user_group'[i].group = user_group[i].group
         /\ user_group'[i].creator = user_group[i].creator
         /\ user_group[i].status = 0
         /\ user_group'[i].status \in {-1, 1} /\ (user_group'[i].status = 1 => req[c].kind = "accept")
<1>1. user_group[i] \in Row /\ user_group[i] # None
  BY RowType DEF Answers, Rows, RowsIn
<1>2. ASSUME NEW s \in {-1, 1}, user_group'[i] = [user_group[i] EXCEPT !.status = s]
      PROVE  /\ user_group'[i] \in Row /\ user_group'[i].status = s
             /\ user_group'[i].user = user_group[i].user /\ user_group'[i].group = user_group[i].group
             /\ user_group'[i].creator = user_group[i].creator
  BY <1>1, <1>2 DEF Row
<1> QED BY <1>1, <1>2, GroupsAssumption DEF Answers, Rows, RowsIn

\* A row that is there stays what it is but for its status, which only an acceptance turns to 1.
LEMMA RowsKeep ==
  ASSUME BasicInv, NEW c \in Clients, ClientNext(c), ~Die
  PROVE  /\ \A i \in Ids : /\ user_group'[i] # None
                           /\ user_group'[i].user = user_group[i].user
                           /\ user_group'[i].group = user_group[i].group
                           /\ user_group'[i].creator = user_group[i].creator
                           /\ user_group[i].status = 1 => user_group'[i].status = 1
                           /\ user_group[i].status = -1 => user_group'[i].status = -1
                           /\ user_group'[i].status = 1 =>
                                user_group[i].status = 1 \/ (Updates(c) /\ Answers(c, i) /\ req[c].kind = "accept")
         /\ \A i \in RowIds : user_group'[i] # None => i \in Ids \/ (Inserts(c) /\ i = req[c].id)
<1>1. CASE UNCHANGED user_group
  BY <1>1 DEF Ids
<1>2. CASE Inserts(c)
  BY <1>2, InsertsRow DEF Ids
<1>3. CASE Updates(c)
  <2>1. ASSUME NEW i \in RowIds, user_group'[i] # user_group[i] PROVE Answers(c, i)
    BY <1>3, <2>1 DEF Updates
  <2> QED BY <1>3, <2>1, AnswersRow DEF Ids, BasicInv
<1> QED BY <1>1, <1>2, <1>3, TableWrites DEF BasicInv, Founds, Counts

\* A group stays, and keeps its creator.
LEMMA GroupsKeep ==
  ASSUME BasicInv, NEW c \in Clients, ClientNext(c), ~Die, NEW g \in Groups
  PROVE  /\ group_info[g] # None =>
              /\ group_info'[g] # None /\ group_info'[g].creator = group_info[g].creator
              /\ group_info'[g].member_num =
                   group_info[g].member_num + (IF Counts(c) /\ req[c].group = g THEN 1 ELSE 0)
         /\ group_info[g] = None /\ group_info'[g] # None =>
              Founds(c) /\ req[c].group = g /\ group_info'[g].creator = req[c].user /\ group_info'[g].member_num = 1
<1>1. group_info[g] \in Group \cup {None} /\ group_info \in [Groups -> Group \cup {None}] /\ None \notin Group
  BY GroupsAssumption DEF BasicInv, TypeOK, GroupTable
<1>2. CASE UNCHANGED group_info /\ ~Counts(c)
  BY <1>1, <1>2 DEF Group
<1>3. CASE Founds(c)
  <2>1. [creator |-> req[c].user, member_num |-> 1] \in Group
    BY <1>3 DEF Founds, BasicInv, WorkInv, Work, Request, Group
  <2>2. ~Counts(c)
    BY <1>3 DEF Founds, Counts
  <2> QED BY <1>1, <1>3, <2>1, <2>2 DEF Founds, Group
<1>4. CASE Counts(c)
  <2>1. CASE req[c].group = g /\ group_info[g] # None
    <3>1. group_info'[g] = [group_info[g] EXCEPT !.member_num = @ + 1] /\ group_info[g] \in Group
      BY <1>1, <1>4, <2>1 DEF Counts
    <3>2. group_info'[g] \in Group
      BY <3>1 DEF Group
    <3> QED BY <1>1, <1>4, <2>1, <3>1, <3>2 DEF Group
  <2>2. CASE ~(req[c].group = g /\ group_info[g] # None)
    <3>1. group_info'[g] = group_info[g]
      BY <1>1, <1>4, <2>2 DEF Counts
    <3> QED BY <1>1, <2>2, <3>1 DEF Group
  <2> QED BY <2>1, <2>2
<1>5. UNCHANGED dbVars \/ Inserts(c) \/ Updates(c) => UNCHANGED group_info
  BY DEF Inserts, Updates
<1> QED BY <1>2, <1>3, <1>4, <1>5, TableWrites DEF BasicInv

LEMMA SlotStep == BasicInv /\ [Next]_vars => SlotInv'
<1> SUFFICES ASSUME BasicInv, [Next]_vars PROVE SlotInv'
  OBVIOUS
<1>0. TypeOK /\ WorkInv /\ SlotInv /\ SavedInv
  BY DEF BasicInv
<1>1. CASE Tick \/ Begin \/ UNCHANGED vars
  BY <1>0, <1>1 DEF Tick, Begin, vars, SlotInv, Adding, Mishap
<1>2. Restore => \A i \in RowIds : user_group[i] = None => user_group'[i] = None
  BY <1>0 DEF Restore, SavedInv
<1>3. CASE Rollback
  <2>1. UNCHANGED <<pc, req, requests>> /\ Restore
    BY <1>3 DEF Rollback
  <2>2. \A d \in Clients : Adding(d) => req[d].id \in RowIds
    BY <1>0, GroupsAssumption DEF SlotInv, TypeOK, RowIds
  <2> QED BY <1>0, <1>2, <2>1, <2>2 DEF SlotInv, Adding
<1>4. ASSUME NEW c \in Clients, ClientNext(c) PROVE SlotInv'
  <2>1. CASE Die
    <3>1. UNCHANGED requests
      BY <1>0, <1>4, <2>1, Unasked DEF Die, Create, Ask, Start, TypeOK
    <3> QED BY <1>0, <1>2, <2>1, <3>1 DEF Die, SlotInv, Adding
  <2>2. SUFFICES ASSUME ~Die, \A d \in Clients \ {c} : pc'[d] = pc[d] /\ req'[d] = req[d]
                 PROVE  SlotInv'
    BY <1>0, <1>4, <2>1, OthersKeep
  <2>3. \A i \in RowIds : user_group[i] = None =>
          user_group'[i] = None \/ (Inserts(c) /\ i = req[c].id)
    BY <1>4, <2>2, RowsKeep DEF Ids
  <2>4. \A d \in Clients \ {c} : Adding(d)' <=> Adding(d)
    BY <2>2 DEF Adding
  <2>5. CASE \E g \in Groups : Create(c, g) \/ Ask(c, g)
    <3>1. /\ requests' = requests + 1 /\ requests + 1 \in RowIds /\ req'[c].id = requests + 1
          /\ UNCHANGED user_group /\ requests \in Nat
      BY <1>0, <2>5, StartType DEF Create, Ask
    <3> QED BY <1>0, <2>2, <2>4, <3>1 DEF SlotInv, RowIds
  <2>6. CASE UNCHANGED requests /\ ~\E g \in Groups : Create(c, g) \/ Ask(c, g)
    <3>1. Adding(c)' => Adding(c) /\ req'[c].id = req[c].id /\ ~Inserts(c)
      BY <1>0, <1>4, <2>6, Checks, InsertsRow DEF Goes
    <3>2. Inserts(c) => Adding(c) /\ ~Adding(c)'
      BY InsertsRow
    <3>3. \A d \in Clients : Adding(d)' => Adding(d) /\ req'[d].id = req[d].id
      BY <2>2, <2>4, <3>1
    <3>4. \A i \in RowIds : i > requests => user_group'[i] = None
      BY <1>0, <2>3, <3>2 DEF SlotInv, TypeOK
    <3>5. \A d \in Clients : Adding(d)' => user_group'[req[d].id] = None
      BY <1>0, <2>3, <3>2, <3>3, GroupsAssumption DEF SlotInv, RowIds, TypeOK
    <3> QED BY <1>0, <2>6, <3>3, <3>4, <3>5 DEF SlotInv
  <2> QED BY <1>0, <1>4, <2>5, <2>6, Unasked DEF Create, Ask, Start
<1> QED BY <1>1, <1>3, <1>4 DEF Next

LEMMA SavedStep == BasicInv /\ [Next]_vars => SavedInv'
<1> SUFFICES ASSUME BasicInv, [Next]_vars PROVE SavedInv'
  OBVIOUS
<1>1. CASE UNCHANGED dbVars \/ saved' = None
  BY <1>1 DEF SavedInv, BasicInv
<1>2. CASE Tick \/ Rollback \/ UNCHANGED vars
  BY <1>1, <1>2 DEF Tick, Rollback, Restore, vars
<1>3. CASE Begin
  BY <1>3 DEF Begin, SavedInv
<1>4. ASSUME NEW c \in Clients, ClientNext(c), ~Die PROVE SavedInv'
  <2>1. UNCHANGED saved
    BY <1>4, TableWrites DEF BasicInv, Founds, Inserts, Updates, Counts
  <2>2. SUFFICES ASSUME saved # None
        PROVE /\ \A g \in Groups : saved.groups[g] # None =>
                   group_info'[g] # None /\ group_info'[g].creator = saved.groups[g].creator
              /\ \A i \in RowIds : saved.rows[i] # None =>
                   /\ user_group'[i] # None
                   /\ user_group'[i].user = saved.rows[i].user /\ user_group'[i].group = saved.rows[i].group
                   /\ user_group'[i].creator = saved.rows[i].creator
                   /\ saved.rows[i].status = 1 => user_group'[i].status = 1
    BY <2>1 DEF SavedInv
  <2>3. /\ \A g \in Groups : saved.groups[g] # None =>
             group_info[g] # None /\ group_info[g].creator = saved.groups[g].creator
        /\ \A i \in RowIds : saved.rows[i] # None =>
             /\ i \in Ids
             /\ user_group[i].user = saved.rows[i].user /\ user_group[i].group = saved.rows[i].group
             /\ user_group[i].creator = saved.rows[i].creator
             /\ saved.rows[i].status = 1 => user_group[i].status = 1
    BY <2>2 DEF BasicInv, SavedInv, Ids
  <2> QED BY <1>4, <2>3, RowsKeep, GroupsKeep
<1> QED BY <1>1, <1>2, <1>3, <1>4 DEF Next, Die, Restore

\* What a ROLLBACK, or a crash, takes nothing from stays as it is.
LEMMA Untouched ==
  ASSUME BasicInv, Restore, NEW g \in Groups, g \notin undone'
  PROVE  /\ g \notin undone /\ group_info'[g] = group_info[g]
         /\ \A i \in RowIds : (user_group'[i] # None /\ user_group'[i].group = g) <=>
                                (i \in Ids /\ user_group[i].group = g)
         /\ \A i \in Ids : user_group[i].group = g => user_group'[i] = user_group[i]
<1>1. CASE saved = None
  BY <1>1 DEF Restore, Ids, ToUndo
<1>2. CASE saved # None
  <2>1. g \notin ToUndo /\ g \notin undone /\ group_info' = saved.groups /\ user_group' = saved.rows
    BY <1>2 DEF Restore
  <2>2. \A i \in Ids : user_group[i].group = g => user_group[i] = saved.rows[i]
    BY <1>2, <2>1 DEF ToUndo
  <2>3. group_info[g] = saved.groups[g]
    BY <1>2, <2>1 DEF ToUndo
  <2>4. \A i \in RowIds : saved.rows[i] # None => i \in Ids /\ user_group[i].group = saved.rows[i].group
    BY <1>2 DEF BasicInv, SavedInv, Ids
  <2> QED BY <2>1, <2>2, <2>3, <2>4 DEF Ids
<1> QED BY <1>1, <1>2

LEMMA BasicStep == BasicInv /\ [Next]_vars => BasicInv'
BY TypeStep, WorkStep, SlotStep, SavedStep DEF BasicInv

LEMMA InitBasic == Init => BasicInv
<1> SUFFICES ASSUME Init PROVE BasicInv
  OBVIOUS
<1>1. \A c \in Clients : pc[c] \notin Working /\ ~Adding(c)
  BY DEF Init, Adding
<1> QED BY <1>1, InitType DEF Init, BasicInv, WorkInv, SlotInv, SavedInv

\* Every variable keeps its type, whatever fails and whenever the process dies.
THEOREM TypeCorrect == Spec => []TypeOK
<1>1. BasicInv => TypeOK
  BY DEF BasicInv
<1> QED BY <1>1, InitBasic, BasicStep, PTL DEF Spec

-----------------------------------------------------------------------------
(* The creator of a group *)

\* Who writes what happened.
LEMMA Records ==
  ASSUME TypeOK, NEW c \in Clients, ClientNext(c), ~Die
  PROVE  /\ undone' = undone
         /\ created' = created \/ InsertCreator(c)
         /\ uncounted' = uncounted \/ CountMemberFails(c)
         /\ doubled' = doubled \/ do_login(c)
<1>1. CASE \/ do_login(c) \/ get_addgroup_ask(c) \/ SendAskList(c) \/ AskListSent(c)
           \/ get_grouplist(c) \/ SendGroupList(c) \/ GroupListSent(c) \/ ListFails(c)
           \/ Disconnect(c) \/ Interrupt(c)
  BY <1>1 DEF do_login, get_addgroup_ask, SendAskList, AskListSent, get_grouplist,
              SendGroupList, GroupListSent, ListFails, Disconnect, Interrupt
<1>2. CASE \/ (\E g \in Groups : Create(c, g) \/ Ask(c, g)) \/ FindGroup(c) \/ InsertGroup(c)
           \/ InsertCreator(c) \/ InsertCreatorFails(c) \/ ListCreator(c)
           \/ FindAsked(c) \/ FindActive(c) \/ InsertAsk(c) \/ StatementFails(c)
  BY <1>2 DEF Create, Ask, Start, FindGroup, InsertGroup, InsertCreator, InsertCreatorFails, ListCreator,
              FindAsked, FindActive, InsertAsk, StatementFails
<1>3. CASE \/ (\E u \in Accounts, g \in Groups, kind \in {"accept", "reject"} : Answer(c, u, g, kind))
           \/ updata_group_data_handle(c) \/ UpdateFails(c) \/ CountMember(c) \/ CountMemberFails(c)
           \/ consutrct_group_ask_notice_msg(c) \/ NoRowToTell(c) \/ TellSelf(c) \/ TellPeer(c)
  BY <1>3 DEF Answer, updata_group_data_handle, UpdateFails, CountMember, CountMemberFails,
              consutrct_group_ask_notice_msg, NoRowToTell, TellSelf, TellPeer
<1>4. CASE QueryFails(c) \/ get_users_in_group(c) \/ TellMember(c) \/ TellAddSuccess(c) \/ NobodyAdded(c)
  BY <1>4 DEF QueryFails, get_users_in_group, TellMember, TellAddSuccess, NobodyAdded
<1> QED BY <1>1, <1>2, <1>3, <1>4 DEF ClientNext

\* The groups that handlers are at are groups.
LEMMA GroupType ==
  ASSUME BasicInv, NEW c \in Clients, pc[c] \in Working
  PROVE  req[c].group \in Groups /\ req[c].user \in Accounts
BY DEF BasicInv, WorkInv, Work, Request

LEMMA FoundStep == CreatorInv /\ [Next]_vars => FoundInv'
<1> SUFFICES ASSUME CreatorInv, [Next]_vars PROVE FoundInv'
  OBVIOUS
<1>0. BasicInv /\ TypeOK /\ WorkInv /\ FoundInv
  BY DEF CreatorInv, BasicInv
<1>1. CASE Tick \/ Begin \/ UNCHANGED vars
  BY <1>0, <1>1 DEF Tick, Begin, vars, FoundInv
<1>2. CASE Rollback
  <2>1. Restore /\ UNCHANGED <<pc, req>>
    BY <1>2 DEF Rollback
  <2>2. ASSUME NEW c \in Clients, pc[c] = "insert_creator", req[c].group \notin undone'
        PROVE  group_info'[req[c].group] # None /\ group_info'[req[c].group].creator = req[c].user
    BY <1>0, <2>1, <2>2, GroupType, Untouched DEF FoundInv
  <2> QED BY <2>1, <2>2 DEF FoundInv
<1>3. ASSUME NEW c \in Clients, ClientNext(c) PROVE FoundInv'
  <2>1. CASE Die
    BY <2>1 DEF Die, FoundInv
  <2>2. SUFFICES ASSUME ~Die, \A d \in Clients \ {c} : pc'[d] = pc[d] /\ req'[d] = req[d]
                 PROVE  FoundInv'
    BY <1>0, <1>3, <2>1, OthersKeep
  <2>3. undone' = undone
    BY <1>0, <1>3, <2>2, Records
  <2>4. ASSUME NEW d \in Clients, pc[d] = "insert_creator", req[d].group \notin undone
        PROVE  group_info'[req[d].group] # None /\ group_info'[req[d].group].creator = req[d].user
    BY <1>0, <1>3, <2>2, <2>4, GroupType, GroupsKeep DEF FoundInv
  <2>5. ASSUME pc'[c] = "insert_creator", req'[c].group \notin undone
        PROVE  group_info'[req'[c].group] # None /\ group_info'[req'[c].group].creator = req'[c].user
    <3>1. ~\E g \in Groups : Create(c, g) \/ Ask(c, g)
      BY <1>0, <2>5, StartType DEF Create, Ask
    <3>2. Goes(c)
      BY <1>0, <1>3, <2>5, <3>1, Checks DEF Adding
    <3>3. CASE pc[c] = "insert_creator"
      BY <2>4, <2>5, <3>2, <3>3 DEF Goes
    <3>4. CASE Founds(c)
      <4>1. req[c].group \in Groups /\ group_info[req[c].group] = None
        BY <1>0, <3>4, GroupType DEF Founds
      <4>2. group_info'[req[c].group] # None
        <5>1. [creator |-> req[c].user, member_num |-> 1] \in Group
          BY <1>0, <3>4, GroupType DEF Founds, Group
        <5> QED BY <1>0, <3>4, <4>1, <5>1, GroupsAssumption DEF Founds, TypeOK, GroupTable
      <4> QED BY <1>0, <1>3, <2>2, <3>4, <4>1, <4>2, GroupsKeep DEF Founds
    <3> QED BY <2>5, <3>2, <3>3, <3>4 DEF Goes
  <2> QED BY <2>2, <2>3, <2>4, <2>5 DEF FoundInv
<1> QED BY <1>1, <1>2, <1>3 DEF Next

\* A member that keeps its row stays one.
LEMMA MemberStays ==
  ASSUME NEW g \in Groups, NEW u,
         \A i \in MemberRows(g) : /\ user_group'[i] # None /\ user_group'[i].status = 1
                                  /\ user_group'[i].user = user_group[i].user
                                  /\ user_group'[i].group = user_group[i].group,
         u \in Members(g)
  PROVE  u \in Members(g)'
<1>1. PICK i \in MemberRows(g) : u = user_group[i].user
  BY DEF Members
<1>2. i \in MemberRows(g)' /\ user_group'[i].user = u
  BY <1>1 DEF MemberRows, Ids
<1> QED BY <1>2 DEF Members

LEMMA CreatorStep == CreatorInv /\ [Next]_vars => CreatorIsMember'
<1> SUFFICES ASSUME CreatorInv, [Next]_vars, NEW p \in created', p[2] \notin undone'
             PROVE  /\ group_info'[p[2]] # None /\ group_info'[p[2]].creator = p[1]
                    /\ p[1] \in Members(p[2])'
  BY DEF CreatorIsMember, Members, MemberRows, Ids
<1>0. BasicInv /\ TypeOK /\ WorkInv /\ FoundInv /\ CreatorIsMember
  BY DEF CreatorInv, BasicInv
<1>1. \A q \in created : q[1] \in Accounts /\ q[2] \in Groups
  BY <1>0 DEF TypeOK
<1>2. CASE Tick \/ Begin \/ UNCHANGED vars
  BY <1>0, <1>2 DEF Tick, Begin, vars, CreatorIsMember, Members, MemberRows, Ids
<1>3. CASE Restore /\ created' = created
  <2>1. p[2] \in Groups /\ p[2] \notin undone
    BY <1>0, <1>1, <1>3, Untouched
  <2>2. /\ group_info[p[2]] # None /\ group_info[p[2]].creator = p[1]
        /\ p[1] \in Members(p[2])
    BY <1>0, <1>3, <2>1 DEF CreatorIsMember
  <2>3. group_info'[p[2]] = group_info[p[2]]
    BY <1>0, <1>3, <2>1, Untouched
  <2>4. \A i \in MemberRows(p[2]) : user_group'[i] = user_group[i]
    BY <1>0, <1>3, <2>1, Untouched DEF MemberRows
  <2> QED BY <2>1, <2>2, <2>3, <2>4, MemberStays DEF MemberRows, Ids
<1>4. ASSUME NEW c \in Clients, ClientNext(c), ~Die
      PROVE  /\ group_info'[p[2]] # None /\ group_info'[p[2]].creator = p[1]
             /\ p[1] \in Members(p[2])'
  <2>1. undone' = undone
    BY <1>0, <1>4, Records
  <2>2. CASE p \in created
    <3>1. /\ group_info[p[2]] # None /\ group_info[p[2]].creator = p[1]
          /\ p[1] \in Members(p[2]) /\ p[2] \in Groups
      BY <1>0, <1>1, <2>1, <2>2 DEF CreatorIsMember
    <3>2. \A i \in MemberRows(p[2]) : /\ user_group'[i] # None /\ user_group'[i].status = 1
                                      /\ user_group'[i].user = user_group[i].user
                                      /\ user_group'[i].group = user_group[i].group
      BY <1>0, <1>4, RowsKeep DEF MemberRows
    <3> QED BY <1>0, <1>4, <3>1, <3>2, GroupsKeep, MemberStays
  <2>3. CASE p \notin created
    <3>1. InsertCreator(c)
      BY <1>0, <1>4, <2>3, Records
    <3>2. Inserts(c) /\ pc[c] = "insert_creator" /\ p = Place(c) /\ UNCHANGED group_info
      BY <1>0, <2>3, <3>1 DEF InsertCreator, Inserts, TypeOK
    <3>3. p[1] = req[c].user /\ p[2] = req[c].group
      BY <3>2 DEF Place
    <3>4. group_info'[p[2]] # None /\ group_info'[p[2]].creator = p[1]
      BY <1>0, <2>1, <3>2, <3>3 DEF FoundInv
    <3>5. req[c].id \in MemberRows(p[2])' /\ user_group'[req[c].id].user = p[1]
      BY <1>0, <3>2, <3>3, InsertsRow DEF MemberRows, Ids
    <3> QED BY <3>4, <3>5 DEF Members
  <2> QED BY <2>2, <2>3
<1> QED BY <1>2, <1>3, <1>4 DEF Next, Rollback, Die

\* Whoever is answered that it created a group is its creator and a member of it, whatever
\* else failed, and unless a ROLLBACK took the group or the row away.
THEOREM CreatorJoins == Spec => []CreatorIsMember
<1>1. Init => CreatorInv
  BY InitBasic DEF Init, CreatorInv, FoundInv, CreatorIsMember
<1>2. CreatorInv /\ [Next]_vars => CreatorInv'
  BY BasicStep, FoundStep, CreatorStep DEF CreatorInv
<1>3. CreatorInv => CreatorIsMember
  BY DEF CreatorInv
<1> QED BY <1>1, <1>2, <1>3, PTL DEF Spec

-----------------------------------------------------------------------------
(* One live row per user in a group *)

\* An answer makes no row live that was not.
LEMMA UpdateActive ==
  ASSUME TypeOK, NEW c \in Clients, Updates(c), NEW u, NEW g
  PROVE  ActiveIn(user_group', u, g) \subseteq Active(u, g)
<1> SUFFICES ASSUME NEW i \in ActiveIn(user_group', u, g) PROVE i \in Active(u, g)
  OBVIOUS
<1>1. i \in RowIds /\ user_group'[i] # None /\ user_group'[i].user = u
      /\ user_group'[i].group = g /\ user_group'[i].status # -1
  BY DEF ActiveIn, RowsIn
<1>2. CASE user_group'[i] = user_group[i]
  BY <1>1, <1>2 DEF Active, ActiveIn, RowsIn
<1>3. CASE Answers(c, i)
  BY <1>1, <1>3, AnswersRow DEF Active, ActiveIn, RowsIn
<1> QED BY <1>1, <1>2, <1>3 DEF Updates

\* An insert adds its row at its place, and at no other.
LEMMA InsertActive ==
  ASSUME BasicInv, NEW c \in Clients, Inserts(c), NEW u, NEW g
  PROVE  /\ req[c].id \in RowIds
         /\ ActiveIn(user_group', u, g) =
              IF Place(c) = <<u, g>> THEN Active(u, g) \cup {req[c].id} ELSE Active(u, g)
<1>1. /\ req[c].id \in RowIds /\ user_group[req[c].id] = None
      /\ user_group'[req[c].id] # None /\ user_group'[req[c].id].status # -1
      /\ user_group'[req[c].id].user = req[c].user /\ user_group'[req[c].id].group = req[c].group
      /\ \A i \in RowIds \ {req[c].id} : user_group'[i] = user_group[i]
  BY InsertsRow DEF Inserts
<1> QED BY <1>1 DEF Active, ActiveIn, RowsIn, Place

\* What the handlers of one step leave to the others.
LEMMA CheckStep == IInv /\ [Next]_vars => CheckInv'
<1> SUFFICES ASSUME IInv, [Next]_vars PROVE CheckInv'
  OBVIOUS
<1>0. BasicInv /\ TypeOK /\ WorkInv /\ SlotInv /\ CheckInv /\ TableInv /\ contested \subseteq contested'
  BY ContestedGrows DEF IInv, BasicInv
<1>1. CASE Tick \/ Begin \/ UNCHANGED vars
  <2>1. UNCHANGED <<group_info, user_group, pc, req, contested>>
    BY <1>1 DEF Tick, Begin, vars
  <2> QED BY <1>0, <2>1 DEF CheckInv, Adding, Place, Active, ActiveIn, RowsIn
<1>2. CASE Rollback
  <2>1. \A d \in Clients : Adding(d) => Place(d) \in contested'
    BY <1>2 DEF Rollback
  <2>2. \A d \in Clients : (Adding(d)' <=> Adding(d)) /\ Place(d)' = Place(d)
    BY <1>2 DEF Rollback, Adding, Place
  <2> QED BY <2>1, <2>2 DEF CheckInv
<1>3. ASSUME NEW c \in Clients, ClientNext(c) PROVE CheckInv'
  <2>1. CASE Die
    BY <2>1 DEF Die, CheckInv, Adding
  <2>2. SUFFICES ASSUME ~Die, \A d \in Clients \ {c} : pc'[d] = pc[d] /\ req'[d] = req[d]
                 PROVE  CheckInv'
    BY <1>0, <1>3, <2>1, OthersKeep
  <2>3. \A d \in Clients \ {c} : (Adding(d)' <=> Adding(d)) /\ Place(d)' = Place(d)
    BY <2>2 DEF Adding, Place
  <2>4. SUFFICES ASSUME NEW e \in Clients, Adding(e)'
        PROVE  /\ \A d \in Clients \ {e} : Adding(d)' /\ Place(d)' = Place(e)' => Place(e)' \in contested'
               /\ pc'[e] \in {"insert_creator", "insert_ask"} /\ Place(e)' \notin contested' =>
                    ActiveIn(user_group', req'[e].user, req'[e].group) = {}
               /\ pc'[e] \in {"insert_creator", "find_active", "insert_ask"} /\ Place(e)' \notin contested' =>
                    group_info'[req'[e].group] # None
    BY DEF CheckInv, Active, Place, ActiveIn, RowsIn
  <2>5. ASSUME \E g \in Groups : Create(c, g) \/ Ask(c, g)
        PROVE  /\ pc'[c] \in {"find_group", "find_asked"}
               /\ \A d \in Clients : Adding(d) /\ Place(d) = Place(c)' => Place(c)' \in contested'
    BY <1>0, <2>5, StartType DEF Create, Ask
  <2>6. ASSUME ~\E g \in Groups : Create(c, g) \/ Ask(c, g), Adding(c)'
        PROVE  Goes(c)
    BY <1>0, <1>3, <2>6, Checks
  <2>7. ASSUME NEW d \in Clients \ {e}, Adding(d)', Place(d)' = Place(e)'
        PROVE  Place(e)' \in contested'
    <3>1. CASE \E g \in Groups : Create(c, g) \/ Ask(c, g)
      <4>1. CASE e = c
        BY <2>3, <2>5, <2>7, <3>1, <4>1
      <4>2. CASE d = c
        BY <2>3, <2>4, <2>5, <2>7, <3>1, <4>2
      <4> QED BY <1>0, <2>3, <2>4, <2>7, <4>1, <4>2 DEF CheckInv
    <3>2. CASE ~\E g \in Groups : Create(c, g) \/ Ask(c, g)
      <4>1. Adding(c)' => Adding(c) /\ Place(c)' = Place(c)
        BY <2>6, <3>2 DEF Goes
      <4> QED BY <1>0, <2>3, <2>4, <2>7, <4>1 DEF CheckInv
    <3> QED BY <3>1, <3>2
  <2>8. CASE e = c
    <3>1. CASE \E g \in Groups : Create(c, g) \/ Ask(c, g)
      BY <2>5, <2>7, <2>8, <3>1
    <3>2. CASE ~\E g \in Groups : Create(c, g) \/ Ask(c, g)
      <4>1. Goes(c)
        BY <2>4, <2>6, <2>8, <3>2
      <4>2. req[c].group \in Groups /\ req[c].user \in Accounts
        BY <1>0, <4>1, GroupType DEF Goes, Adding
      <4>3. CASE Founds(c)
        <5>1. group_info'[req[c].group] # None
          <6>1. [creator |-> req[c].user, member_num |-> 1] \in Group
            BY <4>2 DEF Group
          <6> QED BY <1>0, <4>2, <4>3, <6>1, GroupsAssumption DEF Founds, TypeOK, GroupTable
        <5>2. Place(c) \notin contested => Active(req[c].user, req[c].group) = {}
          BY <1>0, <4>2, <4>3 DEF TableInv, OneOf, Founds, Active, Place
        <5> QED BY <1>0, <2>7, <2>8, <4>1, <4>3, <5>1, <5>2 DEF Founds, Goes, Active
      <4>4. CASE UNCHANGED dbVars /\ pc'[c] \in {pc[c], "insert_group", "find_active"}
        BY <1>0, <2>7, <2>8, <4>1, <4>4 DEF Goes, Founds, CheckInv, Active
      <4>5. CASE pc[c] = "find_active" /\ UNCHANGED dbVars
        BY <1>0, <2>7, <2>8, <4>1, <4>5 DEF Goes, CheckInv, Active, Founds
      <4> QED BY <4>1, <4>3, <4>4, <4>5 DEF Goes
    <3> QED BY <3>1, <3>2
  <2>9. CASE e # c
    <3>1. Adding(e) /\ pc'[e] = pc[e] /\ req'[e] = req[e] /\ Place(e)' = Place(e)
      BY <2>2, <2>3, <2>4, <2>9
    <3>2. req[e].group \in Groups
      BY <1>0, <3>1, GroupType DEF Adding
    <3>3. /\ pc[e] \in {"insert_creator", "insert_ask"} /\ Place(e) \notin contested' =>
               Active(req[e].user, req[e].group) = {}
          /\ pc[e] \in {"insert_creator", "find_active", "insert_ask"} /\ Place(e) \notin contested' =>
               group_info[req[e].group] # None
      BY <1>0, <3>1 DEF CheckInv
    <3>4. group_info[req[e].group] # None => group_info'[req[e].group] # None
      BY <1>0, <1>3, <2>2, <3>2, GroupsKeep
    <3>5. Place(e) \notin contested' =>
            ActiveIn(user_group', req[e].user, req[e].group) \subseteq Active(req[e].user, req[e].group)
      <4>1. CASE Inserts(c)
        <5>1. Place(c) = Place(e) => Place(e) \in contested'
          BY <1>0, <2>9, <3>1, <4>1, InsertsRow DEF CheckInv
        <5> QED BY <1>0, <4>1, <5>1, InsertActive DEF Place
      <4>2. CASE Updates(c)
        BY <1>0, <4>2, UpdateActive
      <4>3. CASE UNCHANGED user_group
        BY <4>3 DEF Active
      <4> QED BY <1>0, <1>3, <2>2, <4>1, <4>2, <4>3, TableWrites DEF Founds, Counts
    <3> QED BY <2>7, <3>1, <3>3, <3>4, <3>5
  <2> QED BY <2>8, <2>9
<1> QED BY <1>1, <1>2, <1>3 DEF Next

LEMMA TableStep == IInv /\ [Next]_vars => TableInv'
<1> SUFFICES ASSUME IInv, [Next]_vars PROVE TableInv'
  OBVIOUS
<1>0. BasicInv /\ TypeOK /\ WorkInv /\ CheckInv /\ TableInv /\ contested \subseteq contested'
  BY ContestedGrows DEF IInv, BasicInv
<1>1. CASE UNCHANGED dbVars
  BY <1>0, <1>1 DEF TableInv, OneOf
<1>2. CASE Tick \/ UNCHANGED vars
  BY <1>1, <1>2 DEF Tick, vars
<1>3. CASE Begin
  BY <1>0, <1>3 DEF Begin, TableInv, OneOf
<1>4. CASE Rollback \/ Die
  <2>1. Restore
    BY <1>4 DEF Rollback, Die
  <2>2. CASE saved = None
    BY <1>0, <2>1, <2>2 DEF Restore, TableInv, OneOf
  <2>3. CASE saved # None
    BY <1>0, <2>1, <2>3 DEF Restore, TableInv, OneOf
  <2> QED BY <2>2, <2>3
<1>5. ASSUME NEW c \in Clients, ClientNext(c), ~Die PROVE TableInv'
  <2>1. UNCHANGED saved
    BY <1>0, <1>5, TableWrites DEF Founds, Inserts, Updates, Counts
  <2>2. saved' # None => OneOf(saved.groups, saved.rows)'
    BY <1>0, <2>1 DEF TableInv, OneOf
  <2>3. \A g \in Groups : group_info'[g] = None => group_info[g] = None
    BY <1>0, <1>5, GroupsKeep
  <2>4. CASE Inserts(c)
    <3>1. req[c].group \in Groups /\ UNCHANGED group_info
      BY <1>0, <2>4, GroupType DEF Inserts
    <3>2. Place(c) \notin contested' =>
            Active(req[c].user, req[c].group) = {} /\ group_info[req[c].group] # None
      BY <1>0, <2>4, InsertsRow DEF CheckInv, Inserts
    <3>3. ASSUME NEW u \in Accounts, NEW g \in Groups, <<u, g>> \notin contested'
          PROVE  /\ \A i, j \in ActiveIn(user_group', u, g) : i = j
                 /\ group_info'[g] = None => ActiveIn(user_group', u, g) = {}
      <4>1. /\ \A i, j \in Active(u, g) : i = j
            /\ group_info[g] = None => Active(u, g) = {}
        BY <1>0, <3>3 DEF TableInv, OneOf, Active
      <4>2. CASE Place(c) = <<u, g>>
        <5>1. Active(u, g) = {} /\ group_info[g] # None
          BY <3>2, <3>3, <4>2 DEF Place
        <5>2. ActiveIn(user_group', u, g) = {req[c].id}
          BY <1>0, <2>4, <4>2, <5>1, InsertActive
        <5> QED BY <3>1, <5>1, <5>2
      <4>3. CASE Place(c) # <<u, g>>
        BY <1>0, <2>4, <3>1, <4>1, <4>3, InsertActive
      <4> QED BY <4>2, <4>3
    <3> QED BY <2>1, <2>2, <3>3 DEF TableInv, OneOf
  <2>5. CASE Updates(c) \/ UNCHANGED user_group
    <3>1. \A u \in Accounts, g \in Groups : ActiveIn(user_group', u, g) \subseteq ActiveIn(user_group, u, g)
      BY <1>0, <2>5, UpdateActive DEF Active
    <3>2. OneOf(group_info, user_group)'
      BY <1>0, <2>3, <3>1 DEF TableInv, OneOf
    <3> QED BY <2>1, <2>2, <3>2 DEF TableInv
  <2> QED BY <1>0, <1>5, <2>4, <2>5, TableWrites DEF Founds, Counts
<1> QED BY <1>2, <1>3, <1>4, <1>5 DEF Next

LEMMA InitIInv == Init => IInv
<1> SUFFICES ASSUME Init PROVE IInv
  OBVIOUS
<1>1. \A c \in Clients : ~Adding(c)
  BY DEF Init, Adding
<1>2. \A u, g : ActiveIn(user_group, u, g) = {}
  BY DEF Init, ActiveIn, RowsIn
<1> QED BY <1>1, <1>2, InitBasic DEF Init, IInv, CheckInv, TableInv, OneOf

LEMMA IInvStep == IInv /\ [Next]_vars => IInv'
BY BasicStep, CheckStep, TableStep DEF IInv

\* The inductive invariant: places, transactions, checks in progress and tables together.
THEOREM Invariant == Spec => []IInv
BY InitIInv, IInvStep, PTL DEF Spec

\* A user has one live row in a group, whoever is logged in how often, unless two requests
\* of it were checked together or a ROLLBACK fell between check and insert.
THEOREM OneActive == Spec => []OneActivePerGroup
<1>1. IInv => OneActivePerGroup
  BY DEF IInv, TableInv, OneOf, OneActivePerGroup, Active
<1> QED BY <1>1, Invariant, PTL

-----------------------------------------------------------------------------
(* The members and their number *)

LEMMA Finite ==
  ASSUME TypeOK, NEW g \in Groups
  PROVE  IsFiniteSet(MemberRows(g)) /\ Cardinality(MemberRows(g)) \in Nat
<1>1. IsFiniteSet(RowIds)
  BY FS_Interval, GroupsAssumption DEF RowIds
<1>2. MemberRows(g) \in SUBSET RowIds
  BY DEF MemberRows, Ids
<1> QED BY <1>1, <1>2, FS_Subset, FS_CardinalityType

LEMMA AddsOne ==
  ASSUME NEW S, IsFiniteSet(S), NEW x
  PROVE  Cardinality(S \cup {x}) \in Nat /\ Cardinality(S \cup {x}) <= Cardinality(S) + 1
<1>1. IsFiniteSet(S \cup {x}) /\ Cardinality(S \cup {x}) = IF x \in S THEN Cardinality(S) ELSE Cardinality(S) + 1
  BY FS_AddElement
<1>2. Cardinality(S) \in Nat
  BY FS_CardinalityType
<1> QED BY <1>1, <1>2

\* Who is about to count, and who is about to join, changes with the tables.
LEMMA Counters ==
  ASSUME BasicInv, NEW c \in Clients, ClientNext(c), ~Die
  PROVE  /\ pc[c] = "count" => \/ pc'[c] = "count" /\ req'[c] = req[c]
                               \/ Counts(c)
                               \/ pc'[c] # "count" /\ uncounted' = uncounted \cup {req[c].group}
         /\ pc'[c] = "count" => (pc[c] = "count" /\ req'[c] = req[c]) \/ Updates(c)
         /\ pc'[c] = "insert_creator" => (pc[c] = "insert_creator" /\ req'[c].group = req[c].group) \/ Founds(c)
<1>0. TypeOK /\ WorkInv
  BY DEF BasicInv
<1>1. /\ pc[c] = "count" => \/ pc'[c] = "count" /\ req'[c] = req[c]
                            \/ Counts(c)
                            \/ pc'[c] # "count" /\ uncounted' = uncounted \cup {req[c].group}
      /\ pc'[c] = "count" => (pc[c] = "count" /\ req'[c] = req[c]) \/ Updates(c)
  <2>1. CASE \/ do_login(c) \/ get_addgroup_ask(c) \/ SendAskList(c) \/ AskListSent(c)
             \/ get_grouplist(c) \/ SendGroupList(c) \/ ListFails(c) \/ Disconnect(c) \/ Interrupt(c)
    BY <1>0, <2>1 DEF do_login, get_addgroup_ask, SendAskList, AskListSent, get_grouplist,
                SendGroupList, ListFails, Disconnect, Interrupt, Listing, TypeOK
  <2>2. CASE GroupListSent(c) \/ ListCreator(c) \/ TellAddSuccess(c)
    BY <1>0, <2>2, ReturnType DEF GroupListSent, ListCreator, TellAddSuccess
  <2>3. CASE FindAsked(c) \/ FindActive(c) \/ TellPeer(c) \/ StatementFails(c)
    BY <1>0, <2>3, ReturnType DEF FindAsked, FindActive, TellPeer, StatementFails, TypeOK
  <2>4. CASE (\E g \in Groups : Create(c, g) \/ Ask(c, g)) \/ FindGroup(c) \/ InsertGroup(c)
             \/ InsertCreator(c) \/ InsertCreatorFails(c) \/ InsertAsk(c)
    BY <1>0, <2>4 DEF Create, Ask, Start, FindGroup, InsertGroup, InsertCreator, InsertCreatorFails,
                      InsertAsk, TypeOK
  <2>5. CASE (\E u \in Accounts, g \in Groups, kind \in {"accept", "reject"} : Answer(c, u, g, kind))
             \/ CountMemberFails(c)
    BY <1>0, <2>5 DEF Answer, CountMemberFails, TypeOK
  <2>6. CASE updata_group_data_handle(c)
    BY <1>0, <2>6 DEF updata_group_data_handle, Updates, Answers, TypeOK
  <2>7. CASE CountMember(c)
    BY <1>0, <2>7 DEF CountMember, Counts, TypeOK
  <2>8. CASE consutrct_group_ask_notice_msg(c) \/ NoRowToTell(c) \/ TellSelf(c) \/ QueryFails(c)
             \/ get_users_in_group(c) \/ TellMember(c) \/ UpdateFails(c) \/ NobodyAdded(c)
    BY <1>0, <2>8 DEF consutrct_group_ask_notice_msg, NoRowToTell, TellSelf, QueryFails, get_users_in_group,
                      TellMember, UpdateFails, NobodyAdded, TypeOK
  <2> QED BY <2>1, <2>2, <2>3, <2>4, <2>5, <2>6, <2>7, <2>8 DEF ClientNext
<1>2. ASSUME pc'[c] = "insert_creator"
      PROVE  (pc[c] = "insert_creator" /\ req'[c].group = req[c].group) \/ Founds(c)
  <2>1. ~\E g \in Groups : Create(c, g) \/ Ask(c, g)
    BY <1>0, <1>2, StartType DEF Create, Ask
  <2>2. Goes(c)
    BY <1>0, <1>2, <2>1, Checks DEF Adding
  <2> QED BY <1>2, <2>2 DEF Goes
<1> QED BY <1>1, <1>2

\* Where nothing is contested an acceptance accepts one row at most.
LEMMA OneAccepted ==
  ASSUME IInv, NEW c \in Clients, Updates(c), NEW g \in Groups, <<req[c].user, g>> \notin contested
  PROVE  \/ MemberRows(g)' = MemberRows(g)
         \/ req[c].kind = "accept" /\ req[c].group = g /\ \E i : MemberRows(g)' = MemberRows(g) \cup {i}
<1>0. BasicInv /\ TypeOK /\ WorkInv /\ TableInv
  BY DEF IInv, BasicInv
<1>1. req[c].user \in Accounts
  BY <1>0, GroupType DEF Updates
<1>2. \A i \in RowIds : user_group'[i] = user_group[i] \/ Answers(c, i)
  BY DEF Updates
<1>3. \A i \in MemberRows(g) : i \in MemberRows(g)'
  <2>1. ASSUME NEW i \in MemberRows(g) PROVE user_group'[i] = user_group[i]
    <3>1. i \in RowIds /\ user_group[i].status = 1
      BY DEF MemberRows, Ids
    <3> QED BY <1>0, <1>2, <3>1, AnswersRow
  <2> QED BY <2>1 DEF MemberRows, Ids
<1>4. ASSUME NEW i \in MemberRows(g)', i \notin MemberRows(g)
      PROVE  i \in Active(req[c].user, g) /\ req[c].kind = "accept" /\ req[c].group = g
  <2>1. i \in RowIds /\ user_group'[i] # user_group[i] /\ user_group'[i].status = 1 /\ user_group'[i].group = g
    BY <1>4 DEF MemberRows, Ids
  <2>2. Answers(c, i)
    BY <1>2, <2>1
  <2> QED BY <1>0, <2>1, <2>2, AnswersRow DEF Active, ActiveIn, RowsIn
<1>5. \A i, j \in Active(req[c].user, g) : i = j
  BY <1>0, <1>1 DEF TableInv, OneOf, Active
<1>6. CASE MemberRows(g)' \subseteq MemberRows(g)
  BY <1>3, <1>6
<1>7. ASSUME NEW i \in MemberRows(g)', i \notin MemberRows(g)
      PROVE  MemberRows(g)' = MemberRows(g) \cup {i} /\ req[c].kind = "accept" /\ req[c].group = g
  BY <1>3, <1>4, <1>5, <1>7
<1> QED BY <1>6, <1>7

LEMMA FiniteStep == IInv /\ CountInv /\ [Next]_vars => \A g \in Groups : IsFiniteSet(ToJoin(g)') /\ IsFiniteSet(ToCount(g)')
<1> SUFFICES ASSUME IInv, CountInv, [Next]_vars, NEW g \in Groups
             PROVE  IsFiniteSet(ToJoin(g)') /\ IsFiniteSet(ToCount(g)')
  OBVIOUS
<1>0. TypeOK /\ IsFiniteSet(ToJoin(g)) /\ IsFiniteSet(ToCount(g))
  BY DEF IInv, BasicInv, CountInv
<1>1. CASE Tick \/ Begin \/ Rollback \/ UNCHANGED vars
  BY <1>0, <1>1 DEF Tick, Begin, Rollback, vars, ToJoin, ToCount
<1>2. CASE Die
  <2>1. ToJoin(g)' = {} /\ ToCount(g)' = {}
    BY <1>2 DEF Die, ToJoin, ToCount
  <2> QED BY <2>1, FS_EmptySet
<1>3. ASSUME NEW c \in Clients, ClientNext(c), ~Die
      PROVE  IsFiniteSet(ToJoin(g)') /\ IsFiniteSet(ToCount(g)')
  <2>1. ToJoin(g)' \in SUBSET (ToJoin(g) \cup {c}) /\ ToCount(g)' \in SUBSET (ToCount(g) \cup {c})
    BY <1>0, <1>3, OthersKeep DEF ToJoin, ToCount
  <2>2. IsFiniteSet(ToJoin(g) \cup {c}) /\ IsFiniteSet(ToCount(g) \cup {c})
    BY <1>0, FS_AddElement
  <2> QED BY <2>1, <2>2, FS_Subset
<1> QED BY <1>1, <1>2, <1>3 DEF Next

LEMMA CountStep == IInv /\ CountInv /\ [Next]_vars => CountInv'
<1> SUFFICES ASSUME IInv, CountInv, [Next]_vars, NEW g \in Groups, Followed(g)'
             PROVE  Cardinality(MemberRows(g)') + Cardinality(ToJoin(g)') <=
                      group_info'[g].member_num + Cardinality(ToCount(g)')
  BY FiniteStep DEF CountInv
<1>0. BasicInv /\ TypeOK /\ WorkInv /\ CheckInv /\ TableInv /\ contested \subseteq contested'
  BY ContestedGrows DEF IInv, BasicInv
<1>1. /\ IsFiniteSet(ToJoin(g)) /\ Cardinality(ToJoin(g)) \in Nat
      /\ IsFiniteSet(ToCount(g)) /\ Cardinality(ToCount(g)) \in Nat
      /\ IsFiniteSet(MemberRows(g)) /\ Cardinality(MemberRows(g)) \in Nat
      /\ IsFiniteSet(ToJoin(g)') /\ Cardinality(ToJoin(g)') \in Nat
      /\ IsFiniteSet(ToCount(g)') /\ Cardinality(ToCount(g)') \in Nat
  BY <1>0, Finite, FiniteStep, FS_CardinalityType DEF CountInv
<1>2. /\ g \notin undone' /\ g \notin uncounted' /\ group_info'[g] # None
      /\ \A u \in Accounts : <<u, g>> \notin contested' /\ <<u, g>> \notin contested
  BY <1>0 DEF Followed
<1>3. group_info[g] # None => group_info[g].member_num \in Nat
  BY <1>0 DEF TypeOK, GroupTable, Group
<1>4. CASE Tick \/ Begin \/ UNCHANGED vars
  BY <1>4 DEF Tick, Begin, vars, CountInv, Followed, MemberRows, Ids, ToJoin, ToCount
<1>5. ASSUME Restore, uncounted \subseteq uncounted'
      PROVE  /\ MemberRows(g)' = MemberRows(g) /\ group_info'[g] = group_info[g]
             /\ Cardinality(MemberRows(g)) + Cardinality(ToJoin(g)) <=
                  group_info[g].member_num + Cardinality(ToCount(g))
  <2>1. g \notin undone /\ g \notin uncounted /\ group_info'[g] = group_info[g]
    BY <1>0, <1>2, <1>5, Untouched
  <2>2. MemberRows(g)' = MemberRows(g)
    BY <1>0, <1>2, <1>5, Untouched DEF MemberRows, Ids
  <2> QED BY <1>2, <2>1, <2>2 DEF CountInv, Followed
<1>6. CASE Rollback
  <2>1. ToJoin(g)' = ToJoin(g) /\ ToCount(g)' = ToCount(g) /\ uncounted' = uncounted /\ Restore
    BY <1>6 DEF Rollback, ToJoin, ToCount
  <2> QED BY <1>5, <2>1
<1>7. CASE Die
  <2>1. ToJoin(g)' = {} /\ ToCount(g)' = {} /\ ToCount(g) = {} /\ Restore /\ uncounted \subseteq uncounted'
    BY <1>2, <1>7 DEF Die, ToJoin, ToCount
  <2>2. group_info[g] # None
    BY <1>2, <1>5, <2>1
  <2> QED BY <1>1, <1>3, <1>5, <2>1, <2>2, FS_EmptySet
<1>8. ASSUME NEW c \in Clients, ClientNext(c), ~Die
      PROVE  Cardinality(MemberRows(g)') + Cardinality(ToJoin(g)') <=
               group_info'[g].member_num + Cardinality(ToCount(g)')
  <2>1. \A d \in Clients \ {c} : pc'[d] = pc[d] /\ req'[d] = req[d]
    BY <1>0, <1>8, OthersKeep
  <2>2. /\ g \notin undone /\ g \notin uncounted
    BY <1>0, <1>2, <1>8, Records DEF CountMemberFails
  <2>3. group_info[g] # None =>
          /\ Cardinality(MemberRows(g)) + Cardinality(ToJoin(g)) <=
               group_info[g].member_num + Cardinality(ToCount(g))
          /\ group_info'[g].member_num =
               group_info[g].member_num + (IF Counts(c) /\ req[c].group = g THEN 1 ELSE 0)
    BY <1>0, <1>2, <1>8, <2>2, GroupsKeep DEF CountInv, Followed
  <2>4. CASE group_info[g] = None
    <3>1. Founds(c) /\ req[c].group = g /\ group_info'[g].member_num = 1
      BY <1>0, <1>2, <1>8, <2>4, GroupsKeep
    <3>2. MemberRows(g) = {}
      <4> SUFFICES ASSUME NEW i \in MemberRows(g) PROVE FALSE
        OBVIOUS
      <4>1. user_group[i].user \in Accounts /\ i \in Active(user_group[i].user, g)
        BY <1>0, RowType DEF MemberRows, Ids, Row, Active, ActiveIn, RowsIn
      <4> QED BY <1>0, <1>2, <2>4, <4>1 DEF TableInv, OneOf, Active
    <3>3. MemberRows(g)' = {}
      BY <3>1, <3>2 DEF Founds, MemberRows, Ids
    <3>4. ToJoin(g) = {}
      <4> SUFFICES ASSUME NEW d \in Clients, pc[d] = "insert_creator", req[d].group = g PROVE FALSE
        BY DEF ToJoin
      <4>1. Place(d) \notin contested
        BY <1>0, <1>2, GroupType DEF Place
      <4> QED BY <1>0, <2>4, <4>1 DEF CheckInv, Adding
    <3>5. ToJoin(g)' = {c}
      BY <2>1, <3>1, <3>4 DEF ToJoin, Founds
    <3>6. Cardinality(MemberRows(g)') = 0 /\ Cardinality(ToJoin(g)') = 1
      BY <3>3, <3>5, FS_EmptySet, FS_Singleton
    <3> QED BY <1>1, <3>1, <3>6
  <2>5. CASE group_info[g] # None
    <3>1. ~(Founds(c) /\ req[c].group = g)
      BY <2>5 DEF Founds
    <3>2. ToJoin(g)' = ToJoin(g) \/ ToJoin(g)' = ToJoin(g) \ {c}
      <4>1. c \in ToJoin(g)' => c \in ToJoin(g)
        BY <1>0, <1>8, <3>1, Counters DEF ToJoin, Founds
      <4> QED BY <2>1, <4>1 DEF ToJoin
    <3>3. Cardinality(ToJoin(g)') <= Cardinality(ToJoin(g))
      BY <1>1, <3>2, FS_Subset
    <3>4. ~Counts(c) /\ c \in ToCount(g) => c \in ToCount(g)'
      BY <1>0, <1>2, <1>8, Counters DEF ToCount
    <3>5. ~Counts(c) => Cardinality(ToCount(g)) <= Cardinality(ToCount(g)')
      <4> SUFFICES ASSUME ~Counts(c) PROVE ToCount(g) \subseteq ToCount(g)'
        BY <1>1, FS_Subset
      <4> QED BY <2>1, <3>4 DEF ToCount
    <3>6. CASE Counts(c)
      <4>1. MemberRows(g)' = MemberRows(g)
        BY <3>6 DEF Counts, MemberRows, Ids
      <4>2. CASE req[c].group = g
        <5>1. ToCount(g)' = ToCount(g) \ {c} /\ c \in ToCount(g)
          BY <2>1, <3>6, <4>2 DEF Counts, ToCount
        <5>2. Cardinality(ToCount(g)') = Cardinality(ToCount(g)) - 1
          BY <1>1, <5>1, FS_RemoveElement
        <5> QED BY <1>1, <1>3, <2>3, <2>5, <3>3, <3>6, <4>1, <4>2, <5>2
      <4>3. CASE req[c].group # g
        <5>1. ToCount(g)' = ToCount(g)
          BY <2>1, <3>6, <4>3 DEF Counts, ToCount
        <5> QED BY <1>1, <1>3, <2>3, <2>5, <3>3, <4>1, <4>3, <5>1
      <4> QED BY <4>2, <4>3
    <3>7. CASE Inserts(c)
      <4>0. ~Counts(c)
        BY <3>7 DEF Inserts, Counts
      <4>1. CASE pc[c] = "insert_creator" /\ req[c].group = g
        <5>1. MemberRows(g)' = MemberRows(g) \cup {req[c].id}
          BY <1>0, <3>7, <4>1, InsertsRow DEF MemberRows, Ids
        <5>2. Cardinality(MemberRows(g)') \in Nat /\ Cardinality(MemberRows(g)') <= Cardinality(MemberRows(g)) + 1
          BY <1>1, <5>1, AddsOne
        <5>3. c \in ToJoin(g) /\ ToJoin(g)' = ToJoin(g) \ {c}
          BY <2>1, <3>7, <4>1 DEF Inserts, ToJoin
        <5>4. Cardinality(ToJoin(g)') = Cardinality(ToJoin(g)) - 1
          BY <1>1, <5>3, FS_RemoveElement
        <5> QED BY <1>1, <1>3, <2>3, <2>5, <3>5, <4>0, <5>2, <5>4
      <4>2. CASE ~(pc[c] = "insert_creator" /\ req[c].group = g)
        <5>1. MemberRows(g)' = MemberRows(g)
          BY <1>0, <3>7, <4>2, InsertsRow DEF MemberRows, Ids, Inserts
        <5> QED BY <1>1, <1>3, <2>3, <2>5, <3>3, <3>5, <4>0, <5>1
      <4> QED BY <4>1, <4>2
    <3>8. CASE Updates(c)
      <4>0. ~Counts(c) /\ req[c].user \in Accounts
        BY <1>0, <3>8, GroupType DEF Updates, Counts
      <4>1. CASE MemberRows(g)' = MemberRows(g)
        BY <1>1, <1>3, <2>3, <2>5, <3>3, <3>5, <4>0, <4>1
      <4>2. CASE req[c].kind = "accept" /\ req[c].group = g /\ \E i : MemberRows(g)' = MemberRows(g) \cup {i}
        <5>1. Cardinality(MemberRows(g)') <= Cardinality(MemberRows(g)) + 1 /\ Cardinality(MemberRows(g)') \in Nat
          BY <1>1, <4>2, AddsOne
        <5>2. ToCount(g)' = ToCount(g) \cup {c} /\ c \notin ToCount(g)
          BY <2>1, <3>8, <4>2 DEF Updates, ToCount
        <5>3. Cardinality(ToCount(g)') = Cardinality(ToCount(g)) + 1
          BY <1>1, <5>2, FS_AddElement
        <5> QED BY <1>1, <1>3, <2>3, <2>5, <3>3, <4>0, <5>1, <5>3
      <4> QED BY <1>2, <3>8, <4>0, <4>1, <4>2, OneAccepted
    <3>9. CASE ~Counts(c) /\ UNCHANGED user_group
      <4>1. MemberRows(g)' = MemberRows(g)
        BY <3>9 DEF MemberRows, Ids
      <4> QED BY <1>1, <1>3, <2>3, <2>5, <3>3, <3>5, <3>9, <4>1
    <3> QED BY <1>0, <1>8, <3>6, <3>7, <3>8, <3>9, TableWrites DEF Founds
  <2> QED BY <2>4, <2>5
<1> QED BY <1>4, <1>6, <1>7, <1>8 DEF Next

\* The number never falls behind the member rows by more than the increments to come, unless
\* an increment failed, or a ROLLBACK or two requests of one user interfered.
THEOREM CountKeepsUp == Spec => []NotUndercounted
<1>1. Init => CountInv
  <2> SUFFICES ASSUME Init PROVE CountInv
    OBVIOUS
  <2>1. \A g \in Groups : ToJoin(g) = {} /\ ToCount(g) = {} /\ group_info[g] = None
    BY DEF Init, ToJoin, ToCount
  <2> QED BY <2>1, FS_EmptySet DEF CountInv, Followed
<1>2. IInv /\ CountInv => NotUndercounted
  <2> SUFFICES ASSUME IInv, CountInv, NEW g \in Groups, Followed(g)
               PROVE  Cardinality(MemberRows(g)) <= group_info[g].member_num + Cardinality(ToCount(g))
    BY DEF NotUndercounted, Followed, ToCount
  <2>1. /\ Cardinality(MemberRows(g)) + Cardinality(ToJoin(g)) <=
             group_info[g].member_num + Cardinality(ToCount(g))
        /\ Cardinality(ToJoin(g)) \in Nat /\ Cardinality(ToCount(g)) \in Nat
        /\ Cardinality(MemberRows(g)) \in Nat
    BY Finite, FS_CardinalityType DEF CountInv, IInv, BasicInv
  <2>2. group_info[g].member_num \in Nat
    BY DEF Followed, IInv, BasicInv, TypeOK, GroupTable, Group
  <2> QED BY <2>1, <2>2
<1> QED BY <1>1, <1>2, InitIInv, IInvStep, CountStep, PTL DEF Spec

-----------------------------------------------------------------------------
(* Who is told *)

\* Apart from a login, a disconnect and a crash, the same connections stay, and keep what
\* they were told unless something is lost.
Stays(c) ==
  /\ UNCHANGED <<user_client, doubled>>
  /\ pc[c] # "out" /\ pc'[c] # "out"
  /\ cut \subseteq cut' /\ \A d \in cut' : d \in cut \/ pc[d] # "out"
  /\ \A d \in Clients : d \notin cut' => listed[d] \subseteq listed'[d]

\* What is cut off is cut off from those who are there.
LEMMA CutStays ==
  ASSUME TypeOK, NEW S \in SUBSET Clients, Cut(S), \A d \in S : pc[d] # "out"
  PROVE  /\ cut \subseteq cut' /\ \A d \in cut' : d \in cut \/ pc[d] # "out"
         /\ \A d \in Clients : d \notin cut' => d \notin S /\ listed'[d] = listed[d]
BY DEF Cut, TypeOK

\* A send to d arrives, or d is cut off.
LEMMA SendStays ==
  ASSUME TypeOK, NEW d \in Clients, pc[d] # "out",
         \/ Arrives(d) /\ UNCHANGED listed
         \/ \E G \in SUBSET Groups : Arrives(d) /\ listed' = [listed EXCEPT ![d] = @ \cup G]
         \/ IsLost(d)
  PROVE  /\ cut \subseteq cut' /\ \A e \in cut' : e \in cut \/ pc[e] # "out"
         /\ \A e \in Clients : e \notin cut' => listed[e] \subseteq listed'[e]
         /\ IsLost(d) => d \in cut'
<1>1. CASE IsLost(d)
  <2>1. Cut({d})
    BY <1>1 DEF IsLost
  <2>2. cut' = cut \cup {d}
    BY <2>1 DEF Cut
  <2> QED BY <2>1, <2>2, CutStays
<1>2. CASE Arrives(d) /\ ~IsLost(d)
  BY <1>2 DEF Arrives, TypeOK
<1> QED BY <1>1, <1>2

\* Accounts have connections that are logged in.
LEMMA Online ==
  ASSUME TypeOK, ClientInv, NEW a \in Accounts, user_client[a] # None
  PROVE  user_client[a] \in Clients /\ pc[user_client[a]] # "out" /\ AccountOf[user_client[a]] = a
BY DEF TypeOK, ClientInv

LEMMA PeerOnline ==
  ASSUME TypeOK, WorkInv, ClientInv, NEW c \in Clients, pc[c] \in Working, PeerClient(c) # None
  PROVE  PeerClient(c) \in Clients /\ pc[PeerClient(c)] # "out"
<1>1. Peer(c) \in Accounts
  BY DEF WorkInv, Work, Request, Peer, PeerClient
<1>2. PeerClient(c) = user_client[Peer(c)] /\ user_client[Peer(c)] # None
  BY DEF PeerClient
<1> QED BY <1>1, <1>2, Online

LEMMA ClientsStay ==
  ASSUME TypeOK, WorkInv, ClientInv, NEW c \in Clients, ClientNext(c)
  PROVE  Die \/ do_login(c) \/ Disconnect(c) \/ Stays(c)
<1>1. CASE \/ get_addgroup_ask(c) \/ SendAskList(c) \/ AskListSent(c)
           \/ get_grouplist(c) \/ SendGroupList(c)
  BY <1>1 DEF get_addgroup_ask, SendAskList, AskListSent, get_grouplist, SendGroupList, Stays, TypeOK
<1>2. CASE GroupListSent(c) \/ TellAddSuccess(c)
  BY <1>2, ReturnType DEF GroupListSent, TellAddSuccess, Stays, TypeOK
<1>3. CASE ListFails(c) \/ Interrupt(c)
  <2>1. Cut({c}) /\ UNCHANGED <<user_client, doubled>> /\ pc[c] # "out" /\ pc'[c] # "out"
    BY <1>3 DEF ListFails, Interrupt, Listing, TypeOK
  <2>2. {c} \in SUBSET Clients /\ \A d \in {c} : pc[d] # "out"
    BY <2>1
  <2> QED BY <2>1, <2>2, CutStays DEF Stays
<1>4. CASE StatementFails(c)
  <2>1. UNCHANGED <<user_client, doubled>> /\ pc[c] # "out" /\ pc'[c] # "out"
    <3>1. CASE Return(c)
      BY <1>4, <3>1, ReturnType DEF StatementFails
    <3>2. CASE ~Return(c)
      BY <1>4, <3>2 DEF StatementFails, TypeOK
    <3> QED BY <3>1, <3>2
  <2>2. CASE UNCHANGED clientVars
    BY <2>1, <2>2 DEF Stays
  <2>3. CASE pc[c] = "fetch" /\ Cut({c, PeerClient(c)} \ {None})
    <3>1. \A d \in {c, PeerClient(c)} \ {None} : d \in Clients /\ pc[d] # "out"
      BY <2>1, <2>3, PeerOnline
    <3>2. {c, PeerClient(c)} \ {None} \in SUBSET Clients
      BY <3>1
    <3> QED BY <2>1, <2>3, <3>1, <3>2, CutStays DEF Stays
  <2>4. CASE Cut({c})
    <3>1. {c} \in SUBSET Clients /\ \A d \in {c} : pc[d] # "out"
      BY <2>1
    <3> QED BY <2>1, <2>4, <3>1, CutStays DEF Stays
  <2> QED BY <1>4, <2>2, <2>3, <2>4 DEF StatementFails
<1>5. CASE FindAsked(c) \/ FindActive(c)
  <2>1. CASE Return(c)
    BY <1>5, <2>1, ReturnType DEF FindAsked, FindActive, Stays, TypeOK
  <2>2. CASE ~Return(c)
    BY <1>5, <2>2 DEF FindAsked, FindActive, Stays, TypeOK
  <2> QED BY <2>1, <2>2
<1>6. CASE (\E g \in Groups : Create(c, g) \/ Ask(c, g)) \/ FindGroup(c) \/ InsertGroup(c)
           \/ InsertCreator(c) \/ InsertCreatorFails(c) \/ InsertAsk(c)
  BY <1>6 DEF Create, Ask, Start, FindGroup, InsertGroup, InsertCreator, InsertCreatorFails, InsertAsk,
              Stays, TypeOK
<1>7. CASE (\E u \in Accounts, g \in Groups, kind \in {"accept", "reject"} : Answer(c, u, g, kind))
           \/ updata_group_data_handle(c) \/ CountMember(c) \/ CountMemberFails(c)
  BY <1>7 DEF Answer, updata_group_data_handle, CountMember, CountMemberFails, Stays, TypeOK
<1>8. CASE UpdateFails(c) \/ NobodyAdded(c)
  BY <1>8 DEF UpdateFails, NobodyAdded
<1>9. CASE \/ consutrct_group_ask_notice_msg(c) \/ (NoRowToTell(c) /\ ~Die) \/ get_users_in_group(c)
  BY <1>9 DEF consutrct_group_ask_notice_msg, NoRowToTell, get_users_in_group, Stays, TypeOK
<1>10. CASE ListCreator(c) \/ TellSelf(c)
  <2>1. UNCHANGED <<user_client, doubled>> /\ pc[c] # "out" /\ pc'[c] # "out"
    BY <1>10, ReturnType DEF ListCreator, TellSelf, TypeOK
  <2>2. Shown(c) \in SUBSET Groups
    BY <1>10 DEF ListCreator, TellSelf, Shown, WorkInv, Work, Request
  <2>3. /\ cut \subseteq cut' /\ \A e \in cut' : e \in cut \/ pc[e] # "out"
        /\ \A e \in Clients : e \notin cut' => listed[e] \subseteq listed'[e]
    BY <1>10, <2>1, <2>2, SendStays DEF ListCreator, TellSelf
  <2> QED BY <2>1, <2>3 DEF Stays
<1>11. CASE TellPeer(c)
  <2>1. UNCHANGED <<user_client, doubled>> /\ pc[c] # "out" /\ pc'[c] # "out"
    <3>1. CASE Return(c)
      BY <1>11, <3>1, ReturnType DEF TellPeer
    <3>2. CASE ~Return(c)
      BY <1>11, <3>2 DEF TellPeer, TypeOK
    <3> QED BY <3>1, <3>2
  <2>2. CASE PeerClient(c) = None
    <3>1. UNCHANGED clientVars
      BY <1>11, <2>2 DEF TellPeer
    <3> QED BY <2>1, <3>1 DEF Stays
  <2>3. CASE PeerClient(c) # None
    <3>1. PeerClient(c) \in Clients /\ pc[PeerClient(c)] # "out"
      BY <1>11, <2>3, PeerOnline DEF TellPeer
    <3>2. (Arrives(PeerClient(c)) /\ UNCHANGED listed) \/ IsLost(PeerClient(c))
      BY <1>11, <2>3 DEF TellPeer
    <3> QED BY <2>1, <3>1, <3>2, SendStays DEF Stays
  <2> QED BY <2>2, <2>3
<1>12. CASE QueryFails(c)
  <2>1. Cut({d \in Clients : pc[d] # "out"}) /\ UNCHANGED <<user_client, doubled, pc>> /\ pc[c] # "out"
    BY <1>12 DEF QueryFails
  <2> QED BY <2>1, CutStays DEF Stays
<1>13. CASE TellMember(c)
  <2>1. UNCHANGED <<user_client, doubled, pc>> /\ pc[c] # "out"
    BY <1>13 DEF TellMember
  <2>2. PICK u \in to_tell[c] :
          \/ user_client[u] = None /\ UNCHANGED <<clientVars, boundVars>>
          \/ /\ user_client[u] # None /\ Arrives(user_client[u])
             /\ listed' = [listed EXCEPT ![user_client[u]] = @ \cup Shown(c)]
          \/ user_client[u] # None /\ IsLost(user_client[u])
    BY <1>13 DEF TellMember
  <2>3. u \in Accounts /\ Shown(c) \in SUBSET Groups
    BY <1>13 DEF TellMember, TypeOK, Shown, WorkInv, Work, Request
  <2>4. CASE user_client[u] = None
    BY <2>1, <2>2, <2>4 DEF Stays
  <2>5. CASE user_client[u] # None
    <3>1. user_client[u] \in Clients /\ pc[user_client[u]] # "out"
      BY <2>3, <2>5, Online
    <3>2. \/ \E G \in SUBSET Groups : Arrives(user_client[u]) /\ listed' = [listed EXCEPT ![user_client[u]] = @ \cup G]
          \/ IsLost(user_client[u])
      BY <2>2, <2>3, <2>5
    <3> QED BY <2>1, <3>1, <3>2, SendStays DEF Stays
  <2> QED BY <2>4, <2>5
<1> QED BY <1>1, <1>2, <1>3, <1>4, <1>5, <1>6, <1>7, <1>8, <1>9, <1>10, <1>11, <1>12, <1>13 DEF ClientNext

LEMMA ClientStep == TypeOK /\ WorkInv /\ ClientInv /\ [Next]_vars => ClientInv'
<1> SUFFICES ASSUME TypeOK, WorkInv, ClientInv, [Next]_vars PROVE ClientInv'
  OBVIOUS
<1>1. CASE Tick \/ Begin \/ Rollback \/ UNCHANGED vars
  <2>1. UNCHANGED <<user_client, pc, cut, doubled>>
    BY <1>1 DEF Tick, Begin, Rollback, vars
  <2> QED BY <2>1 DEF ClientInv
<1>2. ASSUME NEW c \in Clients, ClientNext(c) PROVE ClientInv'
  <2>1. CASE Die
    BY <2>1 DEF Die, ClientInv
  <2>2. CASE do_login(c)
    <3>1. AccountOf[c] \in Accounts
      BY GroupsAssumption
    <3> QED BY <2>2, <3>1, GroupsAssumption DEF do_login, ClientInv, TypeOK
  <2>3. CASE Disconnect(c)
    BY <2>3, GroupsAssumption DEF Disconnect, ClientInv, TypeOK
  <2>4. CASE Stays(c) /\ ~Die
    <3>1. \A d \in Clients : pc'[d] = "out" <=> pc[d] = "out"
      BY <1>2, <2>4, OthersKeep DEF Stays
    <3>2. \A d \in Clients : pc[d] = "out" => d \notin cut'
      BY <2>4 DEF Stays, ClientInv
    <3>3. \A a \in Accounts : user_client[a] # None => user_client[a] \in Clients
      BY DEF TypeOK
    <3> QED BY <2>4, <3>1, <3>2, <3>3 DEF Stays, ClientInv
  <2> QED BY <1>2, <2>1, <2>2, <2>3, <2>4, ClientsStay
<1> QED BY <1>1, <1>2 DEF Next

\* A connection that is served was so before, unless it logs in.
LEMMA ServedBefore ==
  ASSUME TypeOK, WorkInv, ClientInv, NEW c \in Clients, ClientNext(c), ~Die, NEW e \in Clients, Served(e)'
  PROVE  \/ do_login(c) /\ e = c /\ pc'[e] = "logged_in"
         \/ /\ Served(e) /\ listed[e] \subseteq listed'[e]
            /\ Stays(c) \/ (e # c /\ do_login(c)) \/ (e # c /\ Disconnect(c))
<1>1. CASE Stays(c)
  <2>1. pc[e] # "out"
    BY <1>1, OthersKeep DEF Stays, Served
  <2> QED BY <1>1, <2>1 DEF Stays, Served
<1>2. CASE do_login(c)
  BY <1>2, GroupsAssumption DEF do_login, Served, TypeOK
<1>3. CASE Disconnect(c)
  BY <1>3, GroupsAssumption DEF Disconnect, Served, TypeOK
<1> QED BY <1>1, <1>2, <1>3, ClientsStay

-----------------------------------------------------------------------------
(* No group is forgotten *)

\* The login sends its list.
LEMMA GroupListStep ==
  ASSUME TypeOK, WorkInv, NEW c \in Clients, ClientNext(c), NEW i \in RowIds,
         InGroupList(c, i), Stays(c), c \notin cut', user_group'[i].group = user_group[i].group
  PROVE  user_group[i].group \in listed'[c] \/ InGroupList(c, i)'
<1>1. CASE SendGroupList(c)
  BY <1>1 DEF SendGroupList, InGroupList, TypeOK
<1>2. CASE GroupListSent(c)
  BY <1>2 DEF GroupListSent, InGroupList, TypeOK
<1>3. CASE ListFails(c) \/ Interrupt(c)
  BY <1>3 DEF ListFails, Interrupt, Cut
<1>4. CASE do_login(c) \/ get_addgroup_ask(c) \/ get_grouplist(c) \/ SendAskList(c)
           \/ AskListSent(c) \/ Disconnect(c)
  BY <1>4 DEF do_login, get_addgroup_ask, get_grouplist, SendAskList, AskListSent,
              Disconnect, InGroupList
<1>5. CASE \/ (\E g \in Groups : Create(c, g) \/ Ask(c, g)) \/ FindGroup(c) \/ InsertGroup(c)
           \/ InsertCreator(c) \/ InsertCreatorFails(c) \/ ListCreator(c)
           \/ FindAsked(c) \/ FindActive(c) \/ InsertAsk(c) \/ StatementFails(c)
           \/ (\E u \in Accounts, g \in Groups, kind \in {"accept", "reject"} : Answer(c, u, g, kind))
           \/ updata_group_data_handle(c) \/ UpdateFails(c) \/ CountMember(c) \/ CountMemberFails(c)
           \/ consutrct_group_ask_notice_msg(c) \/ NoRowToTell(c) \/ TellSelf(c) \/ TellPeer(c)
           \/ QueryFails(c) \/ get_users_in_group(c) \/ TellMember(c) \/ TellAddSuccess(c)
           \/ NobodyAdded(c)
  BY <1>5 DEF Create, Ask, Start, FindGroup, InsertGroup, InsertCreator, InsertCreatorFails, ListCreator,
              FindAsked, FindActive, InsertAsk, StatementFails, Answer, updata_group_data_handle,
              UpdateFails, CountMember, CountMemberFails, consutrct_group_ask_notice_msg, NoRowToTell,
              TellSelf, TellPeer, QueryFails, get_users_in_group, TellMember, TellAddSuccess,
              NobodyAdded, InGroupList
<1> QED BY <1>1, <1>2, <1>3, <1>4, <1>5 DEF ClientNext

\* From the states before it, only reading the list of groups leads to a client that should
\* know its groups.
LEMMA OnlyGroupList ==
  ASSUME TypeOK, NEW c \in Clients, ClientNext(c), ~Die, c \notin cut', pc'[c] # "out",
         pc[c] \in {"logged_in", "ask_list", "sending_asks", "asks_sent"},
         pc'[c] \notin {"logged_in", "ask_list", "sending_asks", "asks_sent"}
  PROVE  get_grouplist(c)
<1>1. CASE \/ do_login(c) \/ get_addgroup_ask(c) \/ SendAskList(c) \/ AskListSent(c)
           \/ SendGroupList(c) \/ GroupListSent(c) \/ Disconnect(c)
  BY <1>1 DEF do_login, get_addgroup_ask, SendAskList, AskListSent, SendGroupList,
              GroupListSent, Disconnect, TypeOK
<1>2. CASE ListFails(c) \/ Interrupt(c)
  BY <1>2 DEF ListFails, Interrupt, Cut
<1>3. CASE StatementFails(c)
  BY <1>3 DEF StatementFails, Cut
<1>4. CASE \/ (\E g \in Groups : Create(c, g) \/ Ask(c, g)) \/ FindGroup(c) \/ InsertGroup(c)
           \/ InsertCreator(c) \/ InsertCreatorFails(c) \/ ListCreator(c)
           \/ FindAsked(c) \/ FindActive(c) \/ InsertAsk(c)
           \/ (\E u \in Accounts, g \in Groups, kind \in {"accept", "reject"} : Answer(c, u, g, kind))
           \/ updata_group_data_handle(c) \/ UpdateFails(c) \/ CountMember(c) \/ CountMemberFails(c)
           \/ consutrct_group_ask_notice_msg(c) \/ NoRowToTell(c) \/ TellSelf(c) \/ TellPeer(c)
           \/ QueryFails(c) \/ get_users_in_group(c) \/ TellMember(c) \/ TellAddSuccess(c)
           \/ NobodyAdded(c)
  BY <1>4 DEF Create, Ask, Start, FindGroup, InsertGroup, InsertCreator, InsertCreatorFails, ListCreator,
              FindAsked, FindActive, InsertAsk, Answer, updata_group_data_handle, UpdateFails,
              CountMember, CountMemberFails, consutrct_group_ask_notice_msg, NoRowToTell, TellSelf,
              TellPeer, QueryFails, get_users_in_group, TellMember, TellAddSuccess, NobodyAdded
<1> QED BY <1>1, <1>2, <1>3, <1>4 DEF ClientNext

\* A handler that is going to show e the group shows it, or still is going to.
LEMMA GroupComingStep ==
  ASSUME TypeOK, WorkInv, ClientInv, ExistsInv, NEW c \in Clients, ClientNext(c), ~Die,
         NEW i \in Ids, NEW e \in Clients, GroupComing(c, i, e), GroupDue(e, i), e \notin cut',
         UNCHANGED user_group
  PROVE  user_group[i].group \in listed'[e] \/ GroupComing(c, i, e)'
<1>0. /\ i \in RowIds /\ req[c].group = user_group[i].group /\ user_group[i].status = 1
      /\ user_group[i].user = AccountOf[e] /\ user_client[AccountOf[e]] = e /\ pc[e] # "out"
      /\ user_group[i].user \in Accounts /\ req[c].group \in Groups
      /\ e # None /\ Shown(c) = {req[c].group}
  <2>1. user_group[i].user \in Accounts /\ user_group[i].group \in Groups
    BY RowType DEF Ids, Row
  <2>2. req[c].group = user_group[i].group /\ group_info[user_group[i].group] # None
    BY DEF GroupDue, GroupComing, ExistsInv
  <2>3. Shown(c) = {req[c].group}
    BY <2>2 DEF Shown
  <2> QED BY <2>1, <2>3, GroupsAssumption DEF GroupDue, Served, GroupComing, Ids
<1>1. CASE CountMember(c) \/ CountMemberFails(c) \/ NoRowToTell(c) \/ TellSelf(c)
  BY <1>0, <1>1 DEF CountMember, CountMemberFails, NoRowToTell, TellSelf, GroupComing, Accepts, Welcomes, TypeOK
<1>2. CASE consutrct_group_ask_notice_msg(c)
  <2>1. PICK j \in RowIds : req' = [req EXCEPT ![c].creator = user_group[j].creator]
    BY <1>2 DEF consutrct_group_ask_notice_msg, Latest, Rows, RowsIn
  <2>2. req[c] \in Request /\ req'[c] = [req[c] EXCEPT !.creator = user_group[j].creator]
    BY <1>2, <2>1 DEF consutrct_group_ask_notice_msg, WorkInv, Work, TypeOK
  <2>3. req'[c].kind = req[c].kind /\ req'[c].user = req[c].user /\ req'[c].group = req[c].group
    BY <2>2 DEF Request
  <2> QED BY <1>0, <1>2, <2>3 DEF consutrct_group_ask_notice_msg, GroupComing, Accepts, Welcomes, TypeOK
<1>3. CASE StatementFails(c)
  <2>1. pc[c] = "fetch" /\ Cut({c, PeerClient(c)} \ {None}) /\ req[c].kind = "accept" /\ req[c].user = AccountOf[e]
    BY <1>0, <1>3 DEF StatementFails, GroupComing, Accepts, Welcomes
  <2>2. PeerClient(c) = e
    BY <1>0, <2>1, GroupsAssumption DEF PeerClient, Peer
  <2> QED BY <1>0, <2>1, <2>2 DEF Cut
<1>4. CASE TellPeer(c)
  BY <1>0, <1>4 DEF TellPeer, GroupComing, Accepts, Welcomes, TypeOK
<1>5. CASE QueryFails(c)
  BY <1>0, <1>5 DEF QueryFails, Cut
<1>6. CASE get_users_in_group(c)
  <2>1. user_group[i].user \in Members(req[c].group)
    BY <1>0 DEF Members, MemberRows
  <2>2. /\ to_tell'[c] = Members(req[c].group) /\ pc'[c] \in {"tell_members", "tell_others"}
        /\ UNCHANGED req
    BY <1>6 DEF get_users_in_group, TypeOK
  <2> QED BY <1>0, <2>1, <2>2 DEF GroupComing, Welcomes
<1>7. CASE TellMember(c)
  <2>1. PICK u \in to_tell[c] :
          /\ to_tell' = [to_tell EXCEPT ![c] = @ \ {u}]
          /\ \/ user_client[u] = None
             \/ listed' = [listed EXCEPT ![user_client[u]] = @ \cup {req[c].group}]
             \/ IsLost(user_client[u])
    BY <1>0, <1>7 DEF TellMember
  <2>2. user_group[i].user \in to_tell[c] /\ UNCHANGED <<pc, req>> /\ pc[c] \in {"tell_members", "tell_others"}
    BY <1>7 DEF TellMember, GroupComing, Accepts, Welcomes
  <2>3. CASE u = user_group[i].user
    <3>1. user_client[u] = e
      BY <1>0, <2>3
    <3>2. CASE IsLost(e)
      BY <3>2 DEF IsLost, Cut
    <3>3. CASE listed' = [listed EXCEPT ![e] = @ \cup {req[c].group}]
      BY <1>0, <3>3 DEF TypeOK
    <3> QED BY <1>0, <2>1, <3>1, <3>2, <3>3
  <2>4. CASE u # user_group[i].user
    BY <1>0, <2>1, <2>2, <2>4 DEF GroupComing, Welcomes, TypeOK
  <2> QED BY <2>3, <2>4
<1>8. CASE TellAddSuccess(c)
  BY <1>8 DEF TellAddSuccess, GroupComing, Accepts, Welcomes
<1>9. CASE ListCreator(c)
  <2>1. e = c
    BY <1>9 DEF ListCreator, GroupComing, Accepts, Welcomes
  <2>2. CASE IsLost(c)
    BY <2>1, <2>2 DEF IsLost, Cut
  <2>3. CASE listed' = [listed EXCEPT ![c] = @ \cup {req[c].group}]
    BY <1>0, <2>1, <2>3 DEF TypeOK
  <2> QED BY <1>0, <1>9, <2>2, <2>3 DEF ListCreator
<1>10. CASE \/ do_login(c) \/ get_addgroup_ask(c) \/ SendAskList(c) \/ AskListSent(c)
            \/ get_grouplist(c) \/ SendGroupList(c) \/ GroupListSent(c) \/ ListFails(c)
            \/ Disconnect(c) \/ Interrupt(c)
  BY <1>10 DEF do_login, get_addgroup_ask, SendAskList, AskListSent, get_grouplist, SendGroupList,
               GroupListSent, ListFails, Disconnect, Interrupt, Listing, GroupComing, Accepts, Welcomes
<1>11. CASE \/ (\E g \in Groups : Create(c, g) \/ Ask(c, g)) \/ FindGroup(c) \/ InsertGroup(c)
            \/ InsertCreator(c) \/ InsertCreatorFails(c) \/ FindAsked(c) \/ FindActive(c) \/ InsertAsk(c)
            \/ (\E u \in Accounts, g \in Groups, kind \in {"accept", "reject"} : Answer(c, u, g, kind))
            \/ updata_group_data_handle(c) \/ UpdateFails(c) \/ NobodyAdded(c)
  BY <1>11 DEF Create, Ask, Start, FindGroup, InsertGroup, InsertCreator, InsertCreatorFails, FindAsked,
               FindActive, InsertAsk, Answer, updata_group_data_handle, UpdateFails, NobodyAdded,
               GroupComing, Accepts, Welcomes
<1> QED BY <1>1, <1>2, <1>3, <1>4, <1>5, <1>6, <1>7, <1>8, <1>9, <1>10, <1>11 DEF ClientNext

\* A group that exists stays, but for a ROLLBACK, and the rows of a group come after it.
LEMMA ExistsStep ==
  ASSUME BasicInv, FoundInv, ExistsInv, [Next]_vars
  PROVE  ExistsInv'
<1>0. TypeOK /\ WorkInv
  BY DEF BasicInv
<1>1. CASE Tick \/ Begin \/ UNCHANGED vars
  BY <1>1 DEF Tick, Begin, vars, ExistsInv, Ids
<1>2. CASE Restore /\ ((UNCHANGED <<pc, req>>) \/ \A c \in Clients : pc'[c] = "out")
  <2>1. ASSUME NEW c \in Clients, pc'[c] \in {"find_active", "insert_ask"}, req'[c].group \notin undone'
        PROVE  group_info'[req'[c].group] # None
    BY <1>0, <1>2, <2>1, GroupType, Untouched DEF ExistsInv
  <2>2. ASSUME NEW i \in Ids', user_group'[i].group \notin undone'
        PROVE  group_info'[user_group'[i].group] # None
    <3>1. i \in RowIds /\ user_group'[i] # None
      BY DEF Ids
    <3>2. i \in Ids /\ user_group[i].group = user_group'[i].group
      BY <1>2, <3>1 DEF Restore, BasicInv, SavedInv, Ids
    <3>3. user_group[i].group \in Groups
      BY <1>0, <3>2, RowType DEF Ids, Row
    <3> QED BY <1>2, <2>2, <3>2, <3>3, Untouched DEF ExistsInv
  <2> QED BY <2>1, <2>2 DEF ExistsInv
<1>3. ASSUME NEW c \in Clients, ClientNext(c), ~Die PROVE ExistsInv'
  <2>1. undone' = undone
    BY <1>0, <1>3, Records
  <2>2. \A g \in Groups : group_info[g] # None => group_info'[g] # None
    BY <1>3, GroupsKeep
  <2>3. ASSUME NEW d \in Clients, pc'[d] \in {"find_active", "insert_ask"}, req'[d].group \notin undone
        PROVE  group_info'[req'[d].group] # None
    <3>1. CASE d # c \/ (pc'[d] = pc[d] /\ req'[d].group = req[d].group)
      <4>1. pc'[d] = pc[d] /\ req'[d].group = req[d].group
        BY <1>0, <1>3, <3>1, OthersKeep
      <4> QED BY <1>0, <2>2, <2>3, <4>1, GroupType DEF ExistsInv
    <3>2. CASE d = c
      <4>1. ~\E g \in Groups : Create(c, g) \/ Ask(c, g)
        BY <1>0, <2>3, <3>2, StartType DEF Create, Ask
      <4>2. Goes(c)
        BY <1>0, <1>3, <2>3, <3>2, <4>1, Checks DEF Adding
      <4> QED BY <1>0, <2>2, <2>3, <3>1, <3>2, <4>2, GroupType DEF Goes, Founds, ExistsInv, Adding
    <3> QED BY <3>1, <3>2
  <2>4. ASSUME NEW i \in Ids', user_group'[i].group \notin undone
        PROVE  group_info'[user_group'[i].group] # None
    <3>1. i \in RowIds /\ user_group'[i] # None
      BY DEF Ids
    <3>2. CASE i \in Ids
      <4>1. user_group'[i].group = user_group[i].group /\ user_group[i].group \in Groups
        BY <1>0, <1>3, <3>2, RowsKeep, RowType DEF Ids, Row
      <4> QED BY <2>2, <2>4, <3>2, <4>1 DEF ExistsInv
    <3>3. CASE i \notin Ids
      <4>1. Inserts(c) /\ i = req[c].id
        BY <1>3, <3>1, <3>3, RowsKeep
      <4>2. pc[c] \in {"insert_creator", "insert_ask"} /\ user_group'[i].group = req[c].group
        BY <4>1, InsertsRow DEF Inserts
      <4> QED BY <1>0, <2>2, <2>4, <4>2, GroupType DEF FoundInv, ExistsInv
    <3> QED BY <3>2, <3>3
  <2> QED BY <2>1, <2>3, <2>4 DEF ExistsInv
<1> QED BY <1>1, <1>2, <1>3 DEF Next, Rollback, Die

LEMMA GroupStep ==
  ASSUME BasicInv, TellInv, [Next]_vars
  PROVE  GroupInv'
<1>0. TypeOK /\ WorkInv /\ SlotInv /\ SavedInv /\ ClientInv /\ ExistsInv /\ GroupInv
  BY DEF BasicInv, TellInv
<1> SUFFICES ASSUME NEW e \in Clients, NEW i \in RowIds, GroupDue(e, i)' PROVE GroupKnown(e, i)'
  BY DEF GroupInv
<1>1. CASE Tick \/ Begin \/ Rollback \/ UNCHANGED vars
  <2>1. UNCHANGED <<user_client, pc, req, got_groups, to_tell, listed, cut, doubled>>
    BY <1>1 DEF Tick, Begin, Rollback, vars
  <2>2. user_group' = user_group \/ (saved # None /\ user_group' = saved.rows)
    BY <1>1 DEF Tick, Begin, Rollback, Restore, vars
  <2>3. /\ i \in Ids /\ user_group'[i].user = user_group[i].user /\ user_group'[i].group = user_group[i].group
        /\ user_group'[i].creator = user_group[i].creator /\ user_group[i].status = 1
    BY <1>0, <2>2 DEF GroupDue, Ids, SavedInv
  <2>4. GroupDue(e, i)
    <3>1. undone \subseteq undone'
      BY <1>1 DEF Tick, Begin, Rollback, Restore, vars
    <3> QED BY <2>1, <2>3, <3>1 DEF GroupDue, Served
  <2>5. GroupKnown(e, i)
    BY <1>0, <2>4 DEF GroupInv
  <2> QED BY <2>1, <2>3, <2>5 DEF GroupKnown, InGroupList, GroupComing, Accepts, Welcomes
<1>2. ASSUME NEW c \in Clients, ClientNext(c) PROVE GroupKnown(e, i)'
  <2>1. ~Die
    BY DEF Die, GroupDue, Served
  <2>2. /\ \A d \in Clients \ {c} : /\ pc'[d] = pc[d] /\ req'[d] = req[d]
                                    /\ got_groups'[d] = got_groups[d] /\ to_tell'[d] = to_tell[d]
        /\ Served(e)' /\ user_group'[i] # None /\ user_group'[i].status = 1
        /\ pc'[e] \notin {"logged_in", "ask_list", "sending_asks", "asks_sent"}
    BY <1>0, <1>2, <2>1, OthersKeep DEF GroupDue, Ids
  <2>3. /\ Served(e) /\ e \notin cut' /\ listed[e] \subseteq listed'[e]
        /\ Stays(c) \/ e # c
        /\ doubled \subseteq doubled' /\ undone' = undone
    <3>1. e \notin cut'
      BY <2>2 DEF Served
    <3>2. do_login(c) => doubled \subseteq doubled'
      BY DEF do_login
    <3> QED BY <1>0, <1>2, <2>1, <2>2, <3>1, <3>2, ServedBefore, Records
  <2>4. CASE i \notin Ids
    <3>1. Inserts(c) /\ i = req[c].id
      BY <1>2, <2>1, <2>2, <2>4, RowsKeep
    <3>2. /\ pc[c] = "insert_creator" /\ user_group'[i].user = req[c].user
          /\ user_group'[i].group = req[c].group /\ user_group'[i].creator = req[c].user /\ Work(c)
      BY <2>2, <3>1, InsertsRow DEF Inserts
    <3>3. req[c].user = AccountOf[c] /\ AccountOf[e] = AccountOf[c] /\ AccountOf[e] \notin doubled
      BY <2>3, <3>2 DEF GroupDue, Work
    <3>4. e = c
      BY <1>0, <2>3, <3>2, <3>3 DEF ClientInv, Served
    <3>5. pc'[c] = "list_creator" /\ req'[c] = req[c]
      BY <3>1, <3>2 DEF Inserts
    <3> QED BY <3>2, <3>4, <3>5 DEF GroupKnown, GroupComing
  <2>5. CASE i \in Ids
    <3>1. /\ user_group'[i].user = user_group[i].user /\ user_group'[i].group = user_group[i].group
          /\ user_group'[i].creator = user_group[i].creator
          /\ user_group[i].status = 1 \/ (Updates(c) /\ Answers(c, i) /\ req[c].kind = "accept")
      BY <1>2, <2>1, <2>2, <2>5, RowsKeep
    <3>2. /\ user_group[i].user = AccountOf[e]
          /\ user_group[i].creator # AccountOf[e] \/ AccountOf[e] \notin doubled
          /\ user_group[i].group \notin undone
      BY <2>3, <3>1 DEF GroupDue
    <3>3. CASE Updates(c) /\ Answers(c, i) /\ req[c].kind = "accept"
      <4>1. /\ user_group[i].user = req[c].user /\ user_group[i].group = req[c].group
            /\ pc'[c] = "count" /\ req'[c] = req[c]
        BY <1>0, <3>3, AnswersRow DEF Updates
      <4> QED BY <3>1, <3>3, <4>1 DEF GroupKnown, GroupComing, Accepts
    <3>4. CASE user_group[i].status = 1 /\ pc[e] \in {"logged_in", "ask_list", "sending_asks", "asks_sent"}
      <4>1. e = c
        BY <2>2, <3>4
      <4>2. get_grouplist(c)
        BY <1>0, <1>2, <2>1, <2>2, <2>3, <3>4, <4>1, OnlyGroupList DEF Served
      <4>3. user_group[i].group \in Groups
        BY <1>0, <2>5, RowType DEF Ids, Row
      <4>4. AccountOf[c] \in Members(user_group[i].group)
        BY <2>5, <3>2, <3>4, <4>1 DEF Members, MemberRows
      <4>5. pc'[c] = "group_list" /\ user_group[i].group \in got_groups'[c]
        BY <1>0, <4>2, <4>3, <4>4 DEF get_grouplist, TypeOK
      <4> QED BY <3>1, <4>1, <4>5 DEF GroupKnown, InGroupList
    <3>5. CASE user_group[i].status = 1 /\ pc[e] \notin {"logged_in", "ask_list", "sending_asks", "asks_sent"}
      <4>1. GroupDue(e, i)
        BY <2>3, <2>5, <3>2, <3>5 DEF GroupDue
      <4>2. GroupKnown(e, i)
        BY <1>0, <4>1 DEF GroupInv
      <4>3. CASE user_group[i].group \in listed[e]
        BY <2>3, <3>1, <4>3 DEF GroupKnown
      <4>4. CASE InGroupList(e, i)
        <5>1. CASE e = c
          BY <1>0, <1>2, <2>3, <3>1, <4>4, <5>1, GroupListStep DEF GroupKnown
        <5>2. CASE e # c
          BY <2>2, <3>1, <4>4, <5>2 DEF GroupKnown, InGroupList
        <5> QED BY <5>1, <5>2
      <4>5. ASSUME NEW d \in Clients, GroupComing(d, i, e) PROVE GroupKnown(e, i)'
        <5>1. CASE d # c
          <6>1. GroupComing(d, i, e)'
            BY <2>2, <3>1, <4>5, <5>1 DEF GroupComing, Accepts, Welcomes
          <6> QED BY <6>1 DEF GroupKnown
        <5>2. CASE d = c
          <6>1. UNCHANGED user_group
            BY <1>0, <1>2, <2>1, <4>5, <5>2, TableWrites
               DEF GroupComing, Accepts, Welcomes, Inserts, Updates, Founds, Counts
          <6> QED BY <1>0, <1>2, <2>1, <2>3, <2>5, <3>1, <4>1, <4>5, <5>2, <6>1, GroupComingStep DEF GroupKnown
        <5> QED BY <5>1, <5>2
      <4> QED BY <4>2, <4>3, <4>4, <4>5 DEF GroupKnown
    <3> QED BY <3>1, <3>3, <3>4, <3>5
  <2> QED BY <2>4, <2>5
<1> QED BY <1>1, <1>2 DEF Next

LEMMA InitTell == Init => TellInv
<1> SUFFICES ASSUME Init PROVE TellInv
  OBVIOUS
<1>1. Ids = {}
  BY DEF Init, Ids
<1>2. ClientInv
  <2>1. \A c \in Clients : pc[c] # "out" <=> c \in OnlineAtStart
    BY DEF Init
  <2>2. \A c \in OnlineAtStart : FirstClient(AccountOf[c]) = c
    BY GroupsAssumption DEF FirstClient
  <2>3. \A a \in Accounts : FirstClient(a) # None =>
          AccountOf[FirstClient(a)] = a /\ FirstClient(a) \in OnlineAtStart
    BY GroupsAssumption DEF FirstClient
  <2>4. \A c \in Clients : AccountOf[c] \in Accounts
    BY GroupsAssumption
  <2>5. \A a \in Accounts : user_client[a] = FirstClient(a)
    BY DEF Init
  <2> QED BY <2>1, <2>2, <2>3, <2>4, <2>5, GroupsAssumption DEF Init, ClientInv
<1>3. \A c \in Clients : pc[c] \notin {"find_active", "insert_ask"}
  BY DEF Init
<1> QED BY <1>1, <1>2, <1>3 DEF TellInv, ExistsInv, GroupInv, GroupDue

\* Whoever is served, and whatever else fails: each group of a member is in what its
\* connection was sent, in the list its login is about to send, or with a handler that is
\* about to send it.
THEOREM NothingForgotten == Spec => [](CreatorInv /\ TellInv)
<1>1. Init => CreatorInv /\ TellInv
  BY InitBasic, InitTell DEF Init, CreatorInv, FoundInv, CreatorIsMember
<1>2. CreatorInv /\ TellInv /\ [Next]_vars => (CreatorInv /\ TellInv)'
  BY BasicStep, FoundStep, CreatorStep, ClientStep, ExistsStep, GroupStep DEF CreatorInv, TellInv, BasicInv
<1> QED BY <1>1, <1>2, PTL DEF Spec

\* When no handler is at work, whoever was sent all that was meant for it shows every group
\* that it is a member of, unless a ROLLBACK reached the group.
THEOREM GroupsAreShown == Spec => []NoMissedGroup
<1>1. CreatorInv /\ TellInv => NoMissedGroup
  <2> SUFFICES ASSUME CreatorInv, TellInv, Quiet, NEW c \in Clients, Reached(c),
                      NEW g \in Groups \ undone, NEW i \in MemberRows(g),
                      user_group[i].user = AccountOf[c],
                      user_group[i].creator # AccountOf[c] \/ AccountOf[c] \notin doubled
               PROVE  g \in listed[c]
    BY DEF NoMissedGroup
  <2>1. GroupDue(c, i) /\ i \in RowIds /\ user_group[i].group = g
    BY DEF GroupDue, Served, Reached, MemberRows, Ids
  <2>2. \A d \in Clients : ~GroupComing(d, i, c)
    BY DEF Quiet, GroupComing, Accepts, Welcomes
  <2> QED BY <2>1, <2>2 DEF TellInv, GroupInv, GroupKnown, InGroupList, Quiet
<1> QED BY <1>1, NothingForgotten, PTL
=============================================================================
