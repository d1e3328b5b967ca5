--------------------------- MODULE ChatNoticeProofs ---------------------------
(***************************************************************************)
(* Proofs that no message of Chat is missed, by the history or by the      *)
(* notice, on the connection that its account logged in on last, unless a  *)
(* send to it or the list of members failed.                               *)
(***************************************************************************)
EXTENDS ChatProofs

\* user_client names connections that are logged in to the account; whoever is out has its
\* history still to come.
ClientInv ==
  /\ \A a \in Accounts : user_client[a] # None =>
       AccountOf[user_client[a]] = a /\ pc[user_client[a]] # "out"
  /\ \A c \in Clients : pc[c] = "out" => ~fetched[c] /\ c \notin cut

\* The connection that messages to its account go to, as long as all of them arrive.
Served(c) == pc[c] # "out" /\ user_client[AccountOf[c]] = c /\ c \notin cut

\* Which messages a table holds, from whom and to whom.
Letters(table) == {<<table[i].msg, table[i].sender, table[i].receiver>> : i \in DOMAIN table}

\* A rollback only removes messages.
UndoInv ==
  saved # None => /\ Letters(saved[2]) \subseteq Letters(msg_info_from_friend)
                  /\ Letters(saved[3]) \subseteq Letters(msg_info_from_group)

\* The rows of the group, in the tables to roll back to as well, are those of the start, and
\* as long as nothing failed nobody who was found a member or was stored a message stops
\* being one.
Joined == {MembersAtStart[i] : i \in DOMAIN MembersAtStart}
Users(rows) == {rows[i].user : i \in DOMAIN rows}
IsMember(a) == \E i \in DOMAIN user_group : user_group[i].user = a /\ user_group[i].status = 1
Listed(c) == {users[c][k] : k \in DOMAIN users[c]}
Stays(a) == a \in Joined /\ (faults = 0 => IsMember(a))
MemberInv ==
  /\ Users(user_group) \subseteq Joined /\ (saved # None => Users(saved[1]) \subseteq Joined)
  /\ \A c \in Clients : \A a \in Listed(c) : Stays(a)
  /\ \A l \in Letters(msg_info_from_group) : Stays(l[3])
  /\ \A c \in Clients : pc[c] = "rollback" => faults # 0
  /\ \A c \in Clients : pc[c] # "tell_members" => told[c] = 0

\* The handler has the notice of m to a still to send.
ToSend(h, m, a) ==
  /\ pc[h] \in {"id", "respond", "find"}
  /\ ~req[h].group /\ req[h].msg = m /\ req[h].receiver = a
ToTell(h, m, a) ==
  /\ \/ pc[h] \in InTx \cup {"respond", "users"}
     \/ pc[h] = "tell_members" /\ \E k \in DOMAIN users[h] : k > told[h] /\ users[h][k] = a
  /\ req[h].group /\ req[h].msg = m /\ req[h].sender # a

\* The client has the message, or its history is still to come, or the notice is.
Has(c, m) == \E n \in seen[c] : n.msg = m
ReachesOne(c, l) ==
  \/ Has(c, l[1]) \/ (~fetched[c] /\ pc[c] # "group_history")
  \/ \E h \in Clients : ToSend(h, l[1], l[3])
ReachesGroup(c, l) ==
  \/ Has(c, l[1]) \/ ~fetched[c]
  \/ \E h \in Clients : ToTell(h, l[1], l[3])
ReachInv ==
  \A c \in Clients : Served(c) =>
    /\ \A l \in Letters(msg_info_from_friend) : l[3] = AccountOf[c] => ReachesOne(c, l)
    /\ \A l \in Letters(msg_info_from_group) :
         l[3] = AccountOf[c] /\ l[2] # l[3] /\ ~MaybeUndone(l[3]) => ReachesGroup(c, l)

\* After a crash nobody is sent anything.
NoticeInv == ~Crashed => ClientInv /\ UndoInv /\ MemberInv /\ ReachInv

USE DEF Goto, tables, dbVars, localVars, clientVars, bounds

-----------------------------------------------------------------------------
(* The tables *)

\* A row more is a message more.
LEMMA AppendLetters ==
  ASSUME NEW T \in Seq(Chat), NEW r \in Chat
  PROVE  Letters(Append(T, r)) = Letters(T) \cup {<<r.msg, r.sender, r.receiver>>}
<1> DEFINE S == Append(T, r)
<1>1. /\ DOMAIN S = 1..Len(S) /\ DOMAIN T = 1..Len(T) /\ Len(S) = Len(T) + 1
      /\ \A i \in DOMAIN T : i \in DOMAIN S /\ S[i] = T[i]
      /\ Len(T) \in Nat /\ Len(S) \in DOMAIN S /\ S[Len(S)] = r
  OBVIOUS
<1>2. \A i \in DOMAIN S : i \in DOMAIN T \/ i = Len(S)
  BY <1>1
<1> HIDE DEF S
<1>3. Letters(S) = Letters(T) \cup {<<r.msg, r.sender, r.receiver>>}
  BY <1>1, <1>2 DEF Letters
<1> QED BY <1>3 DEF S

\* A mark changes no message.
LEMMA MarkLetters ==
  ASSUME NEW T \in Seq(Chat), NEW id \in Nat, NEW a \in Accounts
  PROVE  Letters(MarkRow(T, id, a)) = Letters(T)
<1>1. CASE id \notin DOMAIN T
  BY <1>1 DEF MarkRow
<1>2. CASE id \in DOMAIN T
  <2> DEFINE S == [T EXCEPT ![id].read = a]
  <2>1. MarkRow(T, id, a) = S /\ T[id] \in Chat
    BY <1>2 DEF MarkRow
  <2>2. /\ DOMAIN S = DOMAIN T /\ S[id] = [T[id] EXCEPT !.read = a]
        /\ \A i \in DOMAIN T : i # id => S[i] = T[i]
    BY <1>2
  <2>3. /\ S[id].msg = T[id].msg /\ S[id].sender = T[id].sender
        /\ S[id].receiver = T[id].receiver
    BY <2>1, <2>2 DEF Chat
  <2> HIDE DEF S
  <2>4. \A i \in DOMAIN T : /\ S[i].msg = T[i].msg /\ S[i].sender = T[i].sender
                            /\ S[i].receiver = T[i].receiver
    BY <2>2, <2>3
  <2>5. Letters(S) = Letters(T)
    BY <2>2, <2>4 DEF Letters
  <2> QED BY <2>1, <2>5
<1> QED BY <1>1, <1>2

\* The list of the members has exactly the members.
LEMMA ListMembers ==
  ASSUME user_group \in Seq(Member), NEW list \in MemberLists
  PROVE  /\ \A k \in DOMAIN list : IsMember(list[k]) /\ list[k] \in Users(user_group)
         /\ \A a : IsMember(a) => \E k \in DOMAIN list : list[k] = a
<1>1. PICK f \in InOrder(MemberIds) : list = [k \in DOMAIN f |-> user_group[f[k]].user]
  BY DEF MemberLists
<1>2. /\ f \in [1..Cardinality(MemberIds) -> MemberIds]
      /\ \A i \in MemberIds : \E k \in 1..Cardinality(MemberIds) : f[k] = i
  BY <1>1 DEF InOrder, Bijection, Surjection
<1>3. /\ DOMAIN list = 1..Cardinality(MemberIds)
      /\ \A k \in DOMAIN list : f[k] \in MemberIds /\ list[k] = user_group[f[k]].user
  BY <1>1, <1>2
<1>4. \A k \in DOMAIN list : IsMember(list[k]) /\ list[k] \in Users(user_group)
  BY <1>3 DEF IsMember, Users, MemberIds
<1>5. ASSUME NEW a, IsMember(a) PROVE \E k \in DOMAIN list : list[k] = a
  <2>1. PICK i \in MemberIds : user_group[i].user = a
    BY <1>5 DEF IsMember, MemberIds
  <2> QED BY <1>2, <1>3, <2>1
<1> QED BY <1>4, <1>5

-----------------------------------------------------------------------------
(* What a step of one client leaves alone *)

\* The handlers of the others.
Solo(c) == \A d \in Clients : d # c => /\ pc'[d] = pc[d] /\ req'[d] = req[d]
                                       /\ users'[d] = users[d] /\ told'[d] = told[d]

\* A statement that fails is counted.
FaultsGrow == faults' = faults \/ faults' > 0

LEMMA StepFacts ==
  ASSUME TypeOK, NEW c \in Clients, ClientNext(c)
  PROVE  Solo(c) /\ FaultsGrow
<1>1. FaultsGrow
  <2>1. faults \in Nat
    BY ChatAssumption DEF TypeOK
  <2>2. faults' = faults \/ faults' = faults + 1
    BY DEF ClientNext, do_login, Disconnect, HistoryMsgGet, get_history_msg_handle,
           get_group_history_msg_handle, UpdateMsg, SendChat, SendGroupChat, Receive,
           InsertChat, InsertChatFails, ReadId, Respond, ForwardChat,
           get_users_account_in_group, Begin, InsertMember, InsertMemberFails, ReadMemberId,
           Commit, CommitFails, Rollback, get_users_in_group, TellMember, MissingIds, AllTold,
           MembersFail, See, Forward, Fault
  <2> QED BY <2>1, <2>2 DEF FaultsGrow
<1>2. Solo(c)
  <2>1. /\ \E label \in Pcs : pc' = [pc EXCEPT ![c] = label]
        /\ req' = req \/ \E request : req' = [req EXCEPT ![c] = request]
        /\ users' = users \/ \E list : users' = [users EXCEPT ![c] = list]
        /\ told' = told \/ \E n : told' = [told EXCEPT ![c] = n]
    <3>1. CASE do_login(c) \/ Disconnect(c) \/ HistoryMsgGet(c)
      BY <3>1 DEF do_login, Disconnect, HistoryMsgGet, Pcs
    <3>2. CASE get_history_msg_handle(c) \/ get_group_history_msg_handle(c)
      BY <3>2 DEF get_history_msg_handle, get_group_history_msg_handle, Pcs
    <3>3. ASSUME NEW n \in seen[c], UpdateMsg(c, n)
          PROVE  (\E label \in Pcs : pc' = [pc EXCEPT ![c] = label])
                 /\ UNCHANGED <<req, users, told>>
      BY <3>3 DEF UpdateMsg, Pcs, TypeOK
    <3>4. CASE (\E r \in Accounts : SendChat(c, r)) \/ SendGroupChat(c)
      BY <3>4 DEF SendChat, SendGroupChat, Receive, Pcs
    <3>5. CASE InsertChat(c) \/ InsertChatFails(c) \/ ReadId(c) \/ Respond(c)
      BY <3>5 DEF InsertChat, InsertChatFails, ReadId, Respond, Pcs
    <3>6. CASE ForwardChat(c) \/ AllTold(c)
      BY <3>6 DEF ForwardChat, AllTold, Return, Pcs
    <3>7. CASE get_users_account_in_group(c) \/ Begin(c) \/ get_users_in_group(c)
      BY <3>7 DEF get_users_account_in_group, Begin, get_users_in_group, Pcs
    <3>8. CASE InsertMember(c) \/ InsertMemberFails(c) \/ ReadMemberId(c)
      BY <3>8 DEF InsertMember, InsertMemberFails, ReadMemberId, Pcs
    <3>9. CASE Commit(c) \/ CommitFails(c) \/ Rollback(c) \/ MissingIds(c)
      BY <3>9 DEF Commit, CommitFails, Rollback, MissingIds, Pcs
    <3>10. CASE TellMember(c)
      BY <3>10 DEF TellMember, Pcs, TypeOK
    <3>11. CASE MembersFail(c)
      BY <3>11 DEF MembersFail, Return, Pcs
    <3> QED BY <3>1, <3>2, <3>3, <3>4, <3>5, <3>6, <3>7, <3>8, <3>9, <3>10, <3>11 DEF ClientNext
  <2> QED BY <2>1 DEF Solo, TypeOK
<1> QED BY <1>1, <1>2

\* What is lost was sent to a connection that is logged in.
LEMMA CutStep ==
  ASSUME TypeOK, RequestInv, ClientInv, NEW c \in Clients, ClientNext(c), ~Disconnect(c)
  PROVE  /\ cut \subseteq cut'
         /\ \A d \in cut' : d \in cut \/ pc[d] # "out"
<1>1. ASSUME NEW T, NEW group, NEW ids, See(c, T, group, ids), pc[c] # "out"
      PROVE  cut \subseteq cut' /\ \A d \in cut' : d \in cut \/ pc[d] # "out"
  BY <1>1 DEF See
<1>2. ASSUME NEW a \in Accounts, NEW id, Forward(c, a, id)
      PROVE  cut \subseteq cut' /\ \A d \in cut' : d \in cut \/ pc[d] # "out"
  BY <1>2 DEF Forward, ClientInv
<1>3. CASE get_history_msg_handle(c) \/ get_group_history_msg_handle(c)
  BY <1>1, <1>3 DEF get_history_msg_handle, get_group_history_msg_handle
<1>4. CASE ForwardChat(c)
  <2>1. req[c].receiver \in Accounts
    BY <1>4 DEF ForwardChat, RequestInv, Private
  <2> QED BY <1>2, <1>4, <2>1 DEF ForwardChat
<1>5. CASE TellMember(c)
  <2>1. NextMember(c) \in Accounts
    <3>1. told[c] \in Nat /\ told[c] < Len(users[c]) /\ users[c] \in Seq(Accounts)
      BY <1>5 DEF TellMember, Left, TypeOK
    <3> QED BY <3>1 DEF NextMember
  <2> QED BY <1>2, <1>5, <2>1 DEF TellMember
<1>6. CASE MembersFail(c)
  BY <1>6 DEF MembersFail, TypeOK
<1>7. CASE ~(\/ get_history_msg_handle(c) \/ get_group_history_msg_handle(c) \/ ForwardChat(c)
             \/ TellMember(c) \/ MembersFail(c))
  <2>1. cut' = cut
    BY <1>7 DEF ClientNext, do_login, HistoryMsgGet, UpdateMsg, SendChat, SendGroupChat, Receive,
           InsertChat, InsertChatFails, ReadId, Respond, get_users_account_in_group, Begin,
           InsertMember, InsertMemberFails, ReadMemberId, Commit, CommitFails, Rollback,
           get_users_in_group, MissingIds, AllTold
  <2> QED BY <2>1
<1> QED BY <1>3, <1>4, <1>5, <1>6, <1>7

\* A client logs in or leaves; otherwise user_client stays as it is.
LEMMA ClientStep ==
  ASSUME TypeOK, RequestInv, ClientInv, NEW c \in Clients, ClientNext(c)
  PROVE  /\ ClientInv'
         /\ \A d \in Clients : Served(d)' => Served(d) \/ (d = c /\ do_login(c))
<1>0. Solo(c)
  BY StepFacts
<1>1. CASE do_login(c)
  <2>1. /\ pc[c] = "out" /\ pc' = [pc EXCEPT ![c] = "idle"] /\ UNCHANGED <<fetched, cut>>
        /\ user_client' = [user_client EXCEPT ![AccountOf[c]] = c]
    BY <1>1 DEF do_login
  <2>2. \A d \in Clients : AccountOf[d] \in Accounts
    BY ChatAssumption
  <2>3. /\ user_client'[AccountOf[c]] = c
        /\ \A b \in Accounts : b # AccountOf[c] => user_client'[b] = user_client[b]
    BY <2>1, <2>2 DEF TypeOK
  <2>4. pc'[c] = "idle" /\ \A d \in Clients : d # c => pc'[d] = pc[d]
    BY <1>0, <2>1 DEF Solo, TypeOK
  <2>5. \A a \in Accounts : user_client[a] \in Clients \cup {None}
    BY DEF TypeOK
  <2>6. ClientInv'
    BY <2>1, <2>3, <2>4, <2>5 DEF ClientInv
  <2>7. \A d \in Clients : Served(d)' => Served(d) \/ d = c
    BY <2>1, <2>2, <2>3, <2>4 DEF Served
  <2> QED BY <1>1, <2>6, <2>7
<1>2. CASE Disconnect(c)
  <2>1. /\ pc[c] = "idle" /\ pc' = [pc EXCEPT ![c] = "out"] /\ cut' = cut \ {c}
        /\ fetched' = [fetched EXCEPT ![c] = FALSE]
        /\ user_client' = [a \in Accounts |-> IF user_client[a] = c THEN None
                                               ELSE user_client[a]]
    BY <1>2 DEF Disconnect
  <2>2. /\ pc'[c] = "out" /\ ~fetched'[c]
        /\ \A d \in Clients : d # c => pc'[d] = pc[d] /\ fetched'[d] = fetched[d]
    BY <1>0, <2>1 DEF Solo, TypeOK
  <2>3. \A a \in Accounts : user_client[a] \in Clients \cup {None}
    BY DEF TypeOK
  <2>4. ClientInv'
    BY <2>1, <2>2, <2>3 DEF ClientInv
  <2>5. ASSUME NEW d \in Clients, Served(d)' PROVE Served(d)
    BY <2>1, <2>2, <2>5, ChatAssumption DEF Served
  <2> QED BY <2>4, <2>5
<1>3. CASE ~(do_login(c) \/ Disconnect(c))
  <2>1. UNCHANGED user_client /\ pc[c] # "out" /\ pc'[c] # "out"
    BY <1>3 DEF ClientNext, HistoryMsgGet, get_history_msg_handle, get_group_history_msg_handle,
           UpdateMsg, SendChat, SendGroupChat, Receive,
           InsertChat, InsertChatFails, ReadId, Respond, ForwardChat,
           get_users_account_in_group, Begin, InsertMember, InsertMemberFails, ReadMemberId,
           Commit, CommitFails, Rollback, get_users_in_group, TellMember, MissingIds, AllTold,
           MembersFail, Return, TypeOK
  <2>2. \A d \in Clients : d # c => fetched'[d] = fetched[d]
    BY <1>3 DEF ClientNext, HistoryMsgGet, get_history_msg_handle, get_group_history_msg_handle,
           UpdateMsg, SendChat, SendGroupChat, Receive,
           InsertChat, InsertChatFails, ReadId, Respond, ForwardChat,
           get_users_account_in_group, Begin, InsertMember, InsertMemberFails, ReadMemberId,
           Commit, CommitFails, Rollback, get_users_in_group, TellMember, MissingIds, AllTold,
           MembersFail, TypeOK
  <2>3. cut \subseteq cut' /\ \A d \in cut' : d \in cut \/ pc[d] # "out"
    BY <1>3, CutStep
  <2>4. \A a \in Accounts : user_client[a] \in Clients \cup {None}
    BY DEF TypeOK
  <2>5. \A d \in Clients : pc'[d] = "out" <=> pc[d] = "out"
    BY <1>0, <2>1 DEF Solo
  <2>6. ClientInv'
    BY <2>1, <2>2, <2>3, <2>4, <2>5 DEF ClientInv
  <2>7. \A d \in Clients : Served(d)' => Served(d)
    BY <2>1, <2>3, <2>5 DEF Served
  <2> QED BY <2>6, <2>7
<1> QED BY <1>1, <1>2, <1>3

\* A step that leaves tables and transaction alone, or one of those that do not.
LEMMA TableSteps ==
  ASSUME NEW c \in Clients, ClientNext(c)
  PROVE  \/ UNCHANGED <<tables, saved>>
         \/ (\E n \in seen[c] : UpdateMsg(c, n)) \/ InsertChat(c) \/ Begin(c)
         \/ InsertMember(c) \/ Commit(c) \/ Rollback(c) \/ MissingIds(c)
BY DEF ClientNext, do_login, Disconnect, HistoryMsgGet, get_history_msg_handle,
       get_group_history_msg_handle, SendChat, SendGroupChat, Receive, InsertChatFails, ReadId,
       Respond, ForwardChat, get_users_account_in_group, InsertMemberFails, ReadMemberId,
       CommitFails, get_users_in_group, TellMember, AllTold, MembersFail

\* The message that a private message's handler stores.
LEMMA InsertOneFacts ==
  ASSUME TypeOK, RequestInv, NEW c \in Clients, InsertChat(c)
  PROVE  Letters(msg_info_from_friend)' = Letters(msg_info_from_friend) \cup
           {<<req[c].msg, req[c].sender, req[c].receiver>>}
<1> DEFINE row == NewRow(c, req[c].receiver, None)
<1>1. /\ row \in Chat /\ msg_info_from_friend' = Append(msg_info_from_friend, row)
  BY NewRowType DEF InsertChat, RequestInv, Private
<1>2. row.msg = req[c].msg /\ row.sender = req[c].sender /\ row.receiver = req[c].receiver
  BY DEF NewRow
<1> HIDE DEF row
<1>3. Letters(msg_info_from_friend') =
        Letters(msg_info_from_friend) \cup {<<row.msg, row.sender, row.receiver>>}
  BY <1>1, AppendLetters DEF TypeOK
<1> QED BY <1>2, <1>3 DEF Letters

\* And that a group message's handler does, for one of the members it has found.
LEMMA InsertMemberFacts ==
  ASSUME TypeOK, RequestInv, LoopInv, NEW c \in Clients, InsertMember(c)
  PROVE  \E k \in DOMAIN users[c] :
           Letters(msg_info_from_group)' = Letters(msg_info_from_group) \cup
             {<<req[c].msg, req[c].sender, users[c][k]>>}
<1> DEFINE k == Len(message_ids[c]) + 1
           a == users[c][k]
           row == NewRow(c, a, IF a = req[c].sender THEN a ELSE None)
<1>1. pc[c] = "insert_member" /\ req[c] \in Request
  BY DEF InsertMember, RequestInv, Grouped, InTx
<1>2. Len(message_ids[c]) < Len(users[c]) /\ Len(message_ids[c]) \in Nat
  BY <1>1 DEF LoopInv, TypeOK
<1>3. k \in DOMAIN users[c] /\ a \in Accounts
  BY <1>2 DEF TypeOK
<1>4. msg_info_from_group' = Append(msg_info_from_group, row)
  BY DEF InsertMember
<1> HIDE DEF k, a
<1>5. row \in Chat
  BY <1>1, <1>3, NewRowType
<1>6. row.msg = req[c].msg /\ row.sender = req[c].sender /\ row.receiver = a
  BY DEF NewRow
<1> HIDE DEF row
<1>7. Letters(msg_info_from_group') =
        Letters(msg_info_from_group) \cup {<<row.msg, row.sender, row.receiver>>}
  BY <1>4, <1>5, AppendLetters DEF TypeOK
<1> QED BY <1>3, <1>6, <1>7 DEF Letters, a

\* A client that marks a message leaves the messages as they are.
LEMMA UpdateFacts ==
  ASSUME TypeOK, NEW c \in Clients, NEW n \in seen[c], UpdateMsg(c, n)
  PROVE  /\ Letters(msg_info_from_friend)' = Letters(msg_info_from_friend)
         /\ Letters(msg_info_from_group)' = Letters(msg_info_from_group)
<1>1. n.id \in Nat /\ AccountOf[c] \in Accounts
  BY ChatAssumption DEF TypeOK, Notice
<1>2. /\ Letters(MarkRow(msg_info_from_friend, n.id, AccountOf[c]))
           = Letters(msg_info_from_friend)
      /\ Letters(MarkRow(msg_info_from_group, n.id, AccountOf[c]))
           = Letters(msg_info_from_group)
  BY <1>1, MarkLetters DEF TypeOK
<1>3. /\ Letters(msg_info_from_friend') = Letters(msg_info_from_friend)
      /\ Letters(msg_info_from_group') = Letters(msg_info_from_group)
  BY <1>2 DEF UpdateMsg
<1> QED BY <1>3 DEF Letters

\* The tables to roll back to hold no other messages than the tables.
LEMMA UndoStep ==
  ASSUME TypeOK, RequestInv, LoopInv, UndoInv, NEW c \in Clients, ClientNext(c), ~MissingIds(c)
  PROVE  UndoInv'
<1>1. CASE UNCHANGED <<tables, saved>>
  BY <1>1 DEF UndoInv, Letters
<1>2. ASSUME saved' = saved,
             Letters(msg_info_from_friend) \subseteq Letters(msg_info_from_friend)',
             Letters(msg_info_from_group) \subseteq Letters(msg_info_from_group)'
      PROVE  UndoInv'
  <2>1. Letters(saved[2])' = Letters(saved[2]) /\ Letters(saved[3])' = Letters(saved[3])
    BY <1>2 DEF Letters
  <2> QED BY <1>2, <2>1 DEF UndoInv
<1>3. ASSUME NEW n \in seen[c], UpdateMsg(c, n) PROVE UndoInv'
  BY <1>2, <1>3, UpdateFacts DEF UpdateMsg
<1>4. CASE InsertChat(c)
  <2>1. saved' = saved /\ Letters(msg_info_from_group)' = Letters(msg_info_from_group)
    BY <1>4 DEF InsertChat, Letters
  <2> QED BY <1>2, <1>4, <2>1, InsertOneFacts
<1>5. CASE InsertMember(c)
  <2>1. saved' = saved /\ Letters(msg_info_from_friend)' = Letters(msg_info_from_friend)
    BY <1>5 DEF InsertMember, Letters
  <2> QED BY <1>2, <1>5, <2>1, InsertMemberFacts
<1>6. CASE Begin(c)
  <2>1. UNCHANGED tables /\ (saved' = saved \/ saved' = tables)
    BY <1>6 DEF Begin
  <2>2. CASE saved' = saved
    BY <2>1, <2>2 DEF UndoInv, Letters
  <2>3. CASE saved' = tables
    <3>1. saved'[2] = msg_info_from_friend' /\ saved'[3] = msg_info_from_group'
      BY <2>1, <2>3
    <3> QED BY <3>1 DEF UndoInv, Letters
  <2> QED BY <2>1, <2>2, <2>3
<1>7. CASE Commit(c) \/ Rollback(c)
  BY <1>7 DEF Commit, Rollback, Restore, UndoInv
<1> QED BY <1>1, <1>3, <1>4, <1>5, <1>6, <1>7, TableSteps

-----------------------------------------------------------------------------
(* Who is a member *)

\* A step that takes nobody from the group.
LEMMA MemberKeep ==
  ASSUME MemberInv, NEW c \in Clients, Solo(c), FaultsGrow, faults \in Nat,
         Users(user_group') = Users(user_group),
         \A a : IsMember(a) => IsMember(a)',
         \/ saved' = saved \/ saved' = None \/ saved' = tables,
         \A a \in Listed(c)' : a \in Listed(c) \/ Stays(a),
         \A l \in Letters(msg_info_from_group)' :
           l \in Letters(msg_info_from_group) \/ l[3] \in Listed(c),
         pc'[c] = "rollback" => pc[c] = "rollback" \/ faults' > 0,
         pc'[c] # "tell_members" => told'[c] = 0
  PROVE  MemberInv'
<1>1. faults' = 0 => faults = 0
  BY DEF FaultsGrow
<1>2. faults # 0 => faults' # 0
  BY DEF FaultsGrow
<1>3. \A a : Stays(a) => Stays(a)'
  BY <1>1 DEF Stays
<1>4. Users(user_group)' \subseteq Joined
  BY DEF MemberInv, Users
<1>5. (saved # None => Users(saved[1]) \subseteq Joined)'
  BY DEF MemberInv, Users
<1>6. ASSUME NEW d \in Clients, NEW a \in Listed(d)' PROVE Stays(a)'
  <2>1. a \in Listed(d) \/ Stays(a)
    BY <1>6 DEF Solo, Listed
  <2>2. Stays(a)
    BY <2>1 DEF MemberInv
  <2> QED BY <1>3, <2>2
<1>7. ASSUME NEW l \in Letters(msg_info_from_group)' PROVE Stays(l[3])'
  <2>1. Stays(l[3])
    BY <1>7 DEF MemberInv
  <2> QED BY <1>3, <2>1
<1>8. \A d \in Clients : /\ pc'[d] = "rollback" => faults' # 0
                         /\ pc'[d] # "tell_members" => told'[d] = 0
  BY <1>2 DEF MemberInv, Solo
<1> QED BY <1>4, <1>5, <1>6, <1>7, <1>8 DEF MemberInv

\* What the handler of a client does to its locals.
LEMMA MemberLocal ==
  ASSUME TypeOK, MemberInv, NEW c \in Clients, ClientNext(c), ~MissingIds(c)
  PROVE  /\ \A a \in Listed(c)' : a \in Listed(c) \/ Stays(a)
         /\ pc'[c] = "rollback" => faults' > 0
         /\ pc'[c] # "tell_members" => told'[c] = 0
<1>1. CASE get_users_account_in_group(c) \/ get_users_in_group(c)
  <2>1. PICK list \in MemberLists : users' = [users EXCEPT ![c] = list]
    BY <1>1 DEF get_users_account_in_group, get_users_in_group
  <2>2. users'[c] = list
    BY <2>1 DEF TypeOK
  <2>3. \A k \in DOMAIN list : IsMember(list[k]) /\ list[k] \in Joined
    BY ListMembers DEF TypeOK, MemberInv
  <2>4. \A a \in Listed(c)' : Stays(a)
    BY <2>2, <2>3 DEF Listed, Stays
  <2>5. told'[c] = told[c] /\ pc[c] # "tell_members" /\ pc'[c] # "rollback"
    BY <1>1 DEF get_users_account_in_group, get_users_in_group, TypeOK
  <2> QED BY <2>4, <2>5 DEF MemberInv
<1>2. CASE ForwardChat(c) \/ AllTold(c)
  <2>1. users'[c] = <<>> /\ told'[c] = 0 /\ pc'[c] = "idle"
    BY <1>2 DEF ForwardChat, AllTold, Return, TypeOK
  <2> QED BY <2>1 DEF Listed
<1>6. CASE MembersFail(c)
  <2>1. \/ users'[c] = <<>> /\ told'[c] = 0 /\ pc'[c] = "idle"
        \/ UNCHANGED <<users, told>> /\ pc[c] = "accounts" /\ pc'[c] = "respond"
    BY <1>6 DEF MembersFail, Return, TypeOK
  <2> QED BY <2>1 DEF MemberInv, Listed
<1>3. CASE InsertMemberFails(c)
  <2>1. /\ UNCHANGED <<users, told>> /\ faults' = faults + 1 /\ pc[c] = "insert_member"
    BY <1>3 DEF InsertMemberFails, Fault
  <2>2. faults' > 0
    BY <2>1, ChatAssumption DEF TypeOK
  <2> QED BY <2>1, <2>2 DEF MemberInv, Listed
<1>4. CASE TellMember(c)
  BY <1>4 DEF TellMember, Listed
<1>5. CASE ~(\/ get_users_account_in_group(c) \/ get_users_in_group(c) \/ ForwardChat(c)
             \/ AllTold(c) \/ InsertMemberFails(c) \/ TellMember(c) \/ MembersFail(c))
  <2>1. UNCHANGED <<users, told>>
    BY <1>5 DEF ClientNext, do_login, Disconnect, HistoryMsgGet, get_history_msg_handle,
           get_group_history_msg_handle, UpdateMsg, SendChat, SendGroupChat, Receive,
           InsertChat, InsertChatFails, ReadId, Respond, Begin, InsertMember, ReadMemberId,
           Commit, CommitFails, Rollback
  <2>2. pc[c] # "tell_members" /\ pc'[c] # "rollback"
    BY <1>5 DEF ClientNext, do_login, Disconnect, HistoryMsgGet, get_history_msg_handle,
           get_group_history_msg_handle, UpdateMsg, SendChat, SendGroupChat, Receive,
           InsertChat, InsertChatFails, ReadId, Respond, Begin, InsertMember, ReadMemberId,
           Commit, CommitFails, Rollback, TypeOK
  <2> QED BY <2>1, <2>2 DEF MemberInv, Listed
<1> QED BY <1>1, <1>2, <1>3, <1>4, <1>5, <1>6

\* Every step of a client keeps the members, a rollback those of the start.
LEMMA MemberStep ==
  ASSUME TypeOK, RequestInv, TxInv, LoopInv, UndoInv, MemberInv, NEW c \in Clients,
         ClientNext(c), ~MissingIds(c)
  PROVE  MemberInv'
<1>1. Solo(c) /\ FaultsGrow /\ faults \in Nat
  BY StepFacts, ChatAssumption DEF TypeOK
<1>2. /\ \A a \in Listed(c)' : a \in Listed(c) \/ Stays(a)
      /\ pc'[c] = "rollback" => faults' > 0
      /\ pc'[c] # "tell_members" => told'[c] = 0
  BY MemberLocal
<1>3. ASSUME UNCHANGED user_group, \/ saved' = saved \/ saved' = None \/ saved' = tables,
             \A l \in Letters(msg_info_from_group)' :
               l \in Letters(msg_info_from_group) \/ l[3] \in Listed(c)
      PROVE  MemberInv'
  <2>1. Users(user_group') = Users(user_group) /\ \A a : IsMember(a) => IsMember(a)'
    BY <1>3 DEF IsMember
  <2> QED BY <1>1, <1>2, <1>3, <2>1, MemberKeep
<1>4. CASE UNCHANGED <<tables, saved>>
  BY <1>3, <1>4 DEF Letters
<1>5. ASSUME NEW n \in seen[c], UpdateMsg(c, n) PROVE MemberInv'
  BY <1>3, <1>5, UpdateFacts DEF UpdateMsg
<1>6. CASE InsertChat(c) \/ Commit(c)
  BY <1>3, <1>6 DEF InsertChat, Commit, Letters
<1>7. CASE Begin(c)
  BY <1>3, <1>7 DEF Begin, Letters
<1>8. CASE InsertMember(c)
  <2>1. PICK k \in DOMAIN users[c] :
          Letters(msg_info_from_group)' = Letters(msg_info_from_group) \cup
            {<<req[c].msg, req[c].sender, users[c][k]>>}
    BY <1>8, InsertMemberFacts
  <2>2. \A l \in Letters(msg_info_from_group)' :
          l \in Letters(msg_info_from_group) \/ l[3] \in Listed(c)
    BY <2>1 DEF Listed
  <2> QED BY <1>3, <1>8, <2>2 DEF InsertMember
<1>9. CASE Rollback(c)
  <2>1. /\ pc[c] = "rollback" /\ saved' = None /\ user_group' = saved[1]
        /\ msg_info_from_group' = saved[3] /\ UNCHANGED <<users, told, faults>>
        /\ pc'[c] = "respond"
    BY <1>9 DEF Rollback, Restore, TypeOK
  <2>2. saved # None /\ faults # 0
    BY <2>1 DEF TxInv, MemberInv, InTx
  <2>3. Users(user_group)' \subseteq Joined
    BY <2>1, <2>2 DEF MemberInv, Users
  <2>4. \A a \in Joined : Stays(a)'
    BY <2>1, <2>2 DEF Stays
  <2>5. \A d \in Clients : \A a \in Listed(d)' : Stays(a)'
    BY <2>1, <2>4 DEF MemberInv, Stays, Listed
  <2>6. \A l \in Letters(msg_info_from_group)' : Stays(l[3])'
    <3>1. Letters(msg_info_from_group)' \subseteq Letters(msg_info_from_group)
      BY <2>1, <2>2 DEF UndoInv, Letters
    <3> QED BY <2>4, <3>1 DEF MemberInv, Stays
  <2>7. \A d \in Clients : /\ pc'[d] = "rollback" => faults' # 0
                           /\ pc'[d] # "tell_members" => told'[d] = 0
    BY <1>1, <1>2, <2>1, <2>2 DEF MemberInv, Solo
  <2> QED BY <2>1, <2>3, <2>5, <2>6, <2>7 DEF MemberInv
<1> QED BY <1>4, <1>5, <1>6, <1>7, <1>8, <1>9, TableSteps

\* A member more.
LEMMA MemberAccept ==
  ASSUME TypeOK, MemberInv, NEW i \in DOMAIN user_group, AcceptMember(i)
  PROVE  MemberInv'
<1>1. /\ user_group' = [user_group EXCEPT ![i].status = 1]
      /\ UNCHANGED <<msg_info_from_group, saved, pc, users, told, faults>>
  BY DEF AcceptMember
<1>2. /\ DOMAIN user_group' = DOMAIN user_group
      /\ \A j \in DOMAIN user_group :
           /\ user_group'[j].user = user_group[j].user
           /\ user_group[j].status = 1 => user_group'[j].status = 1
  <2>1. \A j \in DOMAIN user_group : user_group[j] \in Member
    BY DEF TypeOK
  <2> QED BY <1>1, <2>1 DEF Member
<1>3. Users(user_group)' \subseteq Joined
  BY <1>2 DEF MemberInv, Users
<1>4. \A a : Stays(a) => Stays(a)'
  BY <1>1, <1>2 DEF Stays, IsMember
<1>5. \A d \in Clients : Listed(d)' = Listed(d)
  BY <1>1 DEF Listed
<1>6. Letters(msg_info_from_group)' = Letters(msg_info_from_group)
  BY <1>1 DEF Letters
<1>7. saved # None => Users(saved[1])' = Users(saved[1])
  BY <1>1 DEF Users
<1> QED BY <1>1, <1>3, <1>4, <1>5, <1>6, <1>7 DEF MemberInv

-----------------------------------------------------------------------------
(* Every message reaches its client *)

\* The connection that serves a after the step has m.
Shown(m, a) ==
  \A d \in Clients : AccountOf[d] = a /\ Served(d)' => \E n \in seen'[d] : n.msg = m
\* Nobody logs in.
NoLogin == \A d \in Clients : Served(d)' => Served(d)

\* A step of a handler that is in: what it stores it has still to send, and what it had to
\* send it sends, or has still to.
LEMMA ReachFrame ==
  ASSUME ReachInv, NEW c \in Clients, Solo(c), NoLogin, FaultsGrow,
         pc'[c] # "group_history", UNCHANGED fetched,
         \A d \in Clients : seen[d] \subseteq seen'[d],
         \A l \in Letters(msg_info_from_friend)' :
           l \in Letters(msg_info_from_friend) \/ ToSend(c, l[1], l[3])',
         \A l \in Letters(msg_info_from_group)' :
           l \in Letters(msg_info_from_group) \/ l[2] = l[3] \/ ToTell(c, l[1], l[3])',
         \A l \in Letters(msg_info_from_friend) :
           ToSend(c, l[1], l[3]) => ToSend(c, l[1], l[3])' \/ Shown(l[1], l[3]),
         \A l \in Letters(msg_info_from_group) :
           ~MaybeUndone(l[3]) /\ ToTell(c, l[1], l[3])
             => ToTell(c, l[1], l[3])' \/ Shown(l[1], l[3])
  PROVE  ReachInv'
<1>1. \A d \in Clients : \A m : Has(d, m) => Has(d, m)'
  BY DEF Has
<1>2. \A d \in Clients : Served(d)' => Served(d)
  BY DEF NoLogin
<1>3. ASSUME NEW d \in Clients, Served(d)', NEW l \in Letters(msg_info_from_friend)',
             l[3] = AccountOf[d]
      PROVE  ReachesOne(d, l)'
  <2>1. CASE l \notin Letters(msg_info_from_friend)
    BY <1>3, <2>1 DEF ReachesOne
  <2>2. CASE l \in Letters(msg_info_from_friend)
    <3>1. ReachesOne(d, l)
      BY <1>2, <1>3, <2>2 DEF ReachInv
    <3>2. CASE Has(d, l[1])
      BY <1>1, <3>2 DEF ReachesOne
    <3>3. CASE ~fetched[d] /\ pc[d] # "group_history"
      BY <3>3 DEF ReachesOne, Solo
    <3>4. ASSUME NEW h \in Clients, ToSend(h, l[1], l[3]) PROVE ReachesOne(d, l)'
      <4>1. CASE h = c
        <5>1. ToSend(c, l[1], l[3])' \/ Shown(l[1], l[3])
          BY <2>2, <3>4, <4>1
        <5>2. Shown(l[1], l[3]) => Has(d, l[1])'
          BY <1>3 DEF Shown, Has
        <5> QED BY <5>1, <5>2 DEF ReachesOne
      <4>2. CASE h # c
        <5>1. ToSend(h, l[1], l[3])'
          BY <3>4, <4>2 DEF ToSend, Solo
        <5> QED BY <5>1 DEF ReachesOne
      <4> QED BY <4>1, <4>2
    <3> QED BY <3>1, <3>2, <3>3, <3>4 DEF ReachesOne
  <2> QED BY <2>1, <2>2
<1>4. ASSUME NEW d \in Clients, Served(d)', NEW l \in Letters(msg_info_from_group)',
             l[3] = AccountOf[d], l[2] # l[3], ~MaybeUndone(l[3])'
      PROVE  ReachesGroup(d, l)'
  <2>1. CASE l \notin Letters(msg_info_from_group)
    BY <1>4, <2>1 DEF ReachesGroup
  <2>2. CASE l \in Letters(msg_info_from_group)
    <3>0. ~MaybeUndone(l[3])
      BY <1>4 DEF MaybeUndone, FaultsGrow
    <3>1. ReachesGroup(d, l)
      BY <1>2, <1>4, <2>2, <3>0 DEF ReachInv
    <3>2. CASE Has(d, l[1])
      BY <1>1, <3>2 DEF ReachesGroup
    <3>3. CASE ~fetched[d]
      BY <3>3 DEF ReachesGroup
    <3>4. ASSUME NEW h \in Clients, ToTell(h, l[1], l[3]) PROVE ReachesGroup(d, l)'
      <4>1. CASE h = c
        <5>1. ToTell(c, l[1], l[3])' \/ Shown(l[1], l[3])
          BY <2>2, <3>0, <3>4, <4>1
        <5>2. Shown(l[1], l[3]) => Has(d, l[1])'
          BY <1>4 DEF Shown, Has
        <5> QED BY <5>1, <5>2 DEF ReachesGroup
      <4>2. CASE h # c
        <5>1. ToTell(h, l[1], l[3])'
          BY <3>4, <4>2 DEF ToTell, Solo
        <5> QED BY <5>1 DEF ReachesGroup
      <4> QED BY <4>1, <4>2
    <3> QED BY <3>1, <3>2, <3>3, <3>4 DEF ReachesGroup
  <2> QED BY <2>1, <2>2
<1> QED BY <1>3, <1>4 DEF ReachInv

\* A step before anything is stored.
LEMMA ReachQuiet ==
  ASSUME ReachInv, NEW c \in Clients, Solo(c), NoLogin, FaultsGrow,
         pc[c] \in {"idle", "insert", "accounts", "begin"},
         pc'[c] # "group_history", UNCHANGED <<fetched, seen>>,
         Letters(msg_info_from_friend)' = Letters(msg_info_from_friend),
         Letters(msg_info_from_group)' = Letters(msg_info_from_group)
  PROVE  ReachInv'
<1>1. \A m, a : ~ToSend(c, m, a) /\ ~ToTell(c, m, a)
  BY DEF ToSend, ToTell, InTx
<1> QED BY <1>1, ReachFrame

\* A step of the handler of a group message before the second list is read.
LEMMA ReachStoring ==
  ASSUME ReachInv, NEW c \in Clients, Solo(c), NoLogin, FaultsGrow, pc[c] \in InTx,
         pc'[c] \in InTx \cup {"respond"}, req'[c] = req[c],
         UNCHANGED <<fetched, seen>>,
         Letters(msg_info_from_friend)' \subseteq Letters(msg_info_from_friend),
         \A l \in Letters(msg_info_from_group)' :
           l \in Letters(msg_info_from_group) \/ l[2] = l[3] \/ ToTell(c, l[1], l[3])'
  PROVE  ReachInv'
<1>1. \A m, a : ~ToSend(c, m, a)
  BY DEF ToSend, InTx
<1>2. \A m, a : ToTell(c, m, a) => ToTell(c, m, a)'
  BY DEF ToTell, InTx
<1>3. pc[c] # "out" /\ pc'[c] # "group_history"
  BY DEF InTx
<1> QED BY <1>1, <1>2, <1>3, ReachFrame

\* What is forwarded arrives, or its receiver is not served any more.
LEMMA ForwardArrives ==
  ASSUME TypeOK, NEW c \in Clients, NEW a, NEW id, Forward(c, a, id),
         UNCHANGED user_client
  PROVE  Shown(req[c].msg, a) /\ \A d \in Clients : seen[d] \subseteq seen'[d]
<1>1. ASSUME NEW d \in Clients, AccountOf[d] = a, Served(d)'
      PROVE  \E n \in seen'[d] : n.msg = req[c].msg
  <2> DEFINE n == [group |-> req[c].group, id |-> id, msg |-> req[c].msg,
                   sender |-> req[c].sender]
  <2>1. user_client[a] = d /\ d \notin cut' /\ d # None
    BY <1>1, ChatAssumption DEF Served
  <2>2. n \in seen'[d]
    BY <2>1 DEF Forward, TypeOK
  <2>3. n.msg = req[c].msg
    OBVIOUS
  <2> QED BY <2>2, <2>3
<1>2. \A d \in Clients : seen[d] \subseteq seen'[d]
  BY DEF Forward, TypeOK
<1> QED BY <1>1, <1>2 DEF Shown

\* The handler of a private message.
LEMMA ReachOneStep ==
  ASSUME TypeOK, RequestInv, ClientInv, ReachInv, NEW c \in Clients, Solo(c), NoLogin, FaultsGrow,
         \/ InsertChat(c) \/ InsertChatFails(c) \/ ReadId(c) \/ Respond(c) \/ ForwardChat(c)
  PROVE  ReachInv'
<1>1. CASE InsertChat(c)
  <2>1. /\ pc[c] = "insert" /\ pc'[c] = "id" /\ req' = req /\ ~req[c].group
        /\ UNCHANGED <<msg_info_from_group, seen, fetched>>
    BY <1>1 DEF InsertChat, RequestInv, Private, TypeOK
  <2>2. Letters(msg_info_from_friend)' = Letters(msg_info_from_friend) \cup
          {<<req[c].msg, req[c].sender, req[c].receiver>>}
    BY <1>1, InsertOneFacts
  <2>3. \A l \in Letters(msg_info_from_friend)' :
          l \in Letters(msg_info_from_friend) \/ ToSend(c, l[1], l[3])'
    BY <2>1, <2>2 DEF ToSend
  <2>4. \A m, a : ~ToSend(c, m, a) /\ ~ToTell(c, m, a)
    BY <2>1 DEF ToSend, ToTell, InTx
  <2>5. Letters(msg_info_from_group)' = Letters(msg_info_from_group)
    BY <2>1 DEF Letters
  <2> QED BY <2>1, <2>3, <2>4, <2>5, ReachFrame
<1>2. CASE InsertChatFails(c)
  <2>1. /\ pc[c] = "insert" /\ pc'[c] = "respond"
        /\ UNCHANGED <<msg_info_from_friend, msg_info_from_group, seen, fetched>>
    BY <1>2 DEF InsertChatFails, TypeOK
  <2> QED BY <2>1, ReachQuiet DEF Letters
<1>3. CASE ReadId(c) \/ Respond(c)
  <2>1. /\ \/ pc[c] = "id" /\ pc'[c] = "respond" /\ ~req[c].group
           \/ pc[c] = "respond" /\ pc'[c] = "users" /\ req[c].group
           \/ pc[c] = "respond" /\ pc'[c] = "find" /\ ~req[c].group
        /\ UNCHANGED <<req, msg_info_from_friend, msg_info_from_group, seen, fetched>>
    BY <1>3 DEF ReadId, Respond, RequestInv, Private, TypeOK
  <2>2. \A m, a : /\ ToSend(c, m, a) => ToSend(c, m, a)'
                  /\ ToTell(c, m, a) => ToTell(c, m, a)'
    BY <2>1 DEF ToSend, ToTell, InTx
  <2>3. /\ Letters(msg_info_from_friend)' = Letters(msg_info_from_friend)
        /\ Letters(msg_info_from_group)' = Letters(msg_info_from_group)
    BY <2>1 DEF Letters
  <2> QED BY <2>1, <2>2, <2>3, ReachFrame
<1>4. CASE ForwardChat(c)
  <2>1. /\ pc[c] = "find" /\ pc'[c] = "idle"
        /\ Forward(c, req[c].receiver, Head(message_ids[c]))
        /\ UNCHANGED <<msg_info_from_friend, msg_info_from_group, user_client, fetched>>
    BY <1>4 DEF ForwardChat, Return, TypeOK
  <2>2. /\ Shown(req[c].msg, req[c].receiver)
        /\ \A d \in Clients : seen[d] \subseteq seen'[d]
    BY <2>1, ForwardArrives
  <2>3. \A m, a : ToSend(c, m, a) => Shown(m, a)
    BY <2>2 DEF ToSend
  <2>4. \A m, a : ~ToTell(c, m, a)
    BY <2>1 DEF ToTell, InTx
  <2>5. /\ Letters(msg_info_from_friend)' = Letters(msg_info_from_friend)
        /\ Letters(msg_info_from_group)' = Letters(msg_info_from_group)
    BY <2>1 DEF Letters
  <2> QED BY <2>1, <2>2, <2>3, <2>4, <2>5, ReachFrame
<1> QED BY <1>1, <1>2, <1>3, <1>4

\* Its statements in the transaction.
LEMMA ReachStoreStep ==
  ASSUME TypeOK, RequestInv, LoopInv, TxInv, UndoInv, ReachInv, NEW c \in Clients, Solo(c), NoLogin,
         FaultsGrow,
         \/ InsertMember(c) \/ InsertMemberFails(c) \/ ReadMemberId(c)
         \/ Commit(c) \/ CommitFails(c) \/ Rollback(c)
  PROVE  ReachInv'
<1>1. CASE InsertMember(c)
  <2>1. /\ pc[c] = "insert_member" /\ pc'[c] = "member_id" /\ req' = req /\ req[c].group
        /\ UNCHANGED <<msg_info_from_friend, seen, fetched>>
    BY <1>1 DEF InsertMember, RequestInv, Grouped, InTx, TypeOK
  <2>2. PICK k \in DOMAIN users[c] :
          Letters(msg_info_from_group)' = Letters(msg_info_from_group) \cup
            {<<req[c].msg, req[c].sender, users[c][k]>>}
    BY <1>1, InsertMemberFacts
  <2>3. \A l \in Letters(msg_info_from_group)' :
          l \in Letters(msg_info_from_group) \/ l[2] = l[3] \/ ToTell(c, l[1], l[3])'
    BY <2>1, <2>2 DEF ToTell, InTx
  <2>4. Letters(msg_info_from_friend)' = Letters(msg_info_from_friend)
    BY <2>1 DEF Letters
  <2> QED BY <2>1, <2>3, <2>4, ReachStoring DEF InTx
<1>2. CASE InsertMemberFails(c) \/ ReadMemberId(c) \/ Commit(c) \/ CommitFails(c)
  <2>1. /\ pc[c] \in InTx /\ pc'[c] \in InTx \cup {"respond"}
        /\ UNCHANGED <<req, msg_info_from_friend, msg_info_from_group, seen, fetched>>
    BY <1>2 DEF InsertMemberFails, ReadMemberId, Commit, CommitFails, InTx, TypeOK
  <2> QED BY <2>1, ReachStoring DEF Letters
<1>3. CASE Rollback(c)
  <2>1. /\ pc[c] = "rollback" /\ pc'[c] = "respond" /\ UNCHANGED <<req, seen, fetched>>
        /\ msg_info_from_friend' = saved[2] /\ msg_info_from_group' = saved[3]
    BY <1>3 DEF Rollback, Restore, TypeOK
  <2>2. saved # None
    BY <2>1 DEF TxInv, InTx
  <2>3. /\ Letters(msg_info_from_friend)' \subseteq Letters(msg_info_from_friend)
        /\ Letters(msg_info_from_group)' \subseteq Letters(msg_info_from_group)
    BY <2>1, <2>2 DEF UndoInv, Letters
  <2> QED BY <2>1, <2>3, ReachStoring DEF InTx
<1> QED BY <1>1, <1>2, <1>3

\* A member whose message is stored is in the second list, too, and is told when the loop
\* comes to it.
LEMMA ReachTellStep ==
  ASSUME TypeOK, RequestInv, CoreInv, ClientInv, MemberInv, ReachInv, NEW c \in Clients,
         Solo(c), NoLogin, FaultsGrow,
         get_users_in_group(c) \/ TellMember(c) \/ AllTold(c)
  PROVE  ReachInv'
<1>0. UNCHANGED <<msg_info_from_friend, msg_info_from_group, fetched>>
  BY DEF get_users_in_group, TellMember, AllTold
<1>1. /\ Letters(msg_info_from_friend)' = Letters(msg_info_from_friend)
      /\ Letters(msg_info_from_group)' = Letters(msg_info_from_group)
  BY <1>0 DEF Letters
<1>2. /\ pc[c] \in {"users", "tell_members"} /\ pc'[c] # "group_history"
      /\ \A m, a : ~ToSend(c, m, a)
  BY DEF get_users_in_group, TellMember, AllTold, Return, ToSend, TypeOK
<1>3. CASE get_users_in_group(c)
  <2>1. PICK list \in MemberLists : users' = [users EXCEPT ![c] = list]
    BY <1>3 DEF get_users_in_group
  <2>2. /\ users'[c] = list /\ pc'[c] = "tell_members" /\ pc[c] = "users"
        /\ UNCHANGED <<req, told, seen>>
    BY <1>3, <2>1 DEF get_users_in_group, TypeOK
  <2>3. ASSUME NEW l \in Letters(msg_info_from_group), ~MaybeUndone(l[3]),
               ToTell(c, l[1], l[3])
        PROVE  ToTell(c, l[1], l[3])'
    <3>1. IsMember(l[3])
      <4>1. Stays(l[3])
        BY DEF MemberInv
      <4>2. CASE faults = 0
        BY <4>1, <4>2 DEF Stays
      <4>3. CASE faults # 0
        <5>1. faults > 0
          BY <4>3, ChatAssumption DEF TypeOK
        <5>2. l[3] \in Joined /\ l[3] \notin PendingAtStart
          BY <2>3, <4>1, <5>1 DEF Stays, MaybeUndone
        <5>3. l[3] \in Core
          BY <5>2 DEF Joined, Core
        <5> QED BY <5>3 DEF CoreInv, HasCore, IsMember
      <4> QED BY <4>2, <4>3
    <3>2. PICK k \in DOMAIN list : list[k] = l[3]
      BY <3>1, ListMembers DEF TypeOK
    <3>3. told[c] = 0
      BY <2>2 DEF MemberInv
    <3>4. list \in Seq(Accounts)
      BY ListFacts DEF TypeOK
    <3>5. k > told'[c] /\ k \in DOMAIN users'[c] /\ users'[c][k] = l[3]
      BY <2>2, <3>2, <3>3, <3>4
    <3> QED BY <2>2, <2>3, <3>5 DEF ToTell
  <2> QED BY <1>0, <1>1, <1>2, <2>2, <2>3, ReachFrame
<1>4. CASE TellMember(c)
  <2>1. /\ pc[c] = "tell_members" /\ told[c] \in Nat /\ told' = [told EXCEPT ![c] = @ + 1]
        /\ UNCHANGED <<pc, req, users, user_client>>
        /\ IF ToForward(c) THEN \E id \in IdsRead(c) : Forward(c, NextMember(c), id)
           ELSE UNCHANGED seen
    BY <1>4 DEF TellMember, TypeOK
  <2>2. told'[c] = told[c] + 1
    BY <2>1 DEF TypeOK
  <2>3. /\ ToForward(c) => Shown(req[c].msg, NextMember(c))
        /\ \A d \in Clients : seen[d] \subseteq seen'[d]
    BY <2>1, ForwardArrives
  <2>4. ASSUME NEW m, NEW a, ToTell(c, m, a) PROVE ToTell(c, m, a)' \/ Shown(m, a)
    <3>1. PICK k \in DOMAIN users[c] : k > told[c] /\ users[c][k] = a
      BY <2>1, <2>4 DEF ToTell, InTx
    <3>2. k \in Nat
      BY DEF TypeOK
    <3>3. CASE k = told[c] + 1
      <4>1. NextMember(c) = a /\ req[c].msg = m /\ a # req[c].sender
        BY <2>4, <3>1, <3>3 DEF NextMember, ToTell
      <4>2. CASE user_client[a] = None
        <5>1. \A d \in Clients : AccountOf[d] = a => ~Served(d)'
          BY <2>1, <4>2, ChatAssumption DEF Served
        <5> QED BY <5>1 DEF Shown
      <4>3. CASE user_client[a] # None
        BY <2>3, <4>1, <4>3 DEF ToForward
      <4> QED BY <4>2, <4>3
    <3>4. CASE k # told[c] + 1
      <4>1. k > told'[c]
        BY <2>1, <2>2, <3>1, <3>2, <3>4
      <4> QED BY <2>1, <2>4, <3>1, <4>1 DEF ToTell
    <3> QED BY <3>3, <3>4
  <2> QED BY <1>0, <1>1, <1>2, <2>3, <2>4, ReachFrame
<1>5. CASE AllTold(c)
  <2>1. pc[c] = "tell_members" /\ ~Left(c) /\ UNCHANGED seen
    BY <1>5 DEF AllTold
  <2>2. ASSUME NEW m, NEW a, ToTell(c, m, a) PROVE FALSE
    <3>1. PICK k \in DOMAIN users[c] : k > told[c]
      BY <2>1, <2>2 DEF ToTell, InTx
    <3>2. k <= Len(users[c]) /\ k \in Nat /\ Len(users[c]) \in Nat /\ told[c] \in Nat
      BY DEF TypeOK
    <3> QED BY <2>1, <3>1, <3>2 DEF Left
  <2> QED BY <1>0, <1>1, <1>2, <2>1, <2>2, ReachFrame
<1> QED BY <1>3, <1>4, <1>5

\* What the client of a message that is stored has, when neither handlers nor messages move.
LEMMA ReachOthers ==
  ASSUME ReachInv, NEW c \in Clients, Solo(c), FaultsGrow,
         \A m, a : ~ToSend(c, m, a) /\ ~ToTell(c, m, a),
         UNCHANGED <<msg_info_from_friend, msg_info_from_group>>,
         NEW d \in Clients, Served(d), seen[d] \subseteq seen'[d], fetched'[d] = fetched[d],
         pc'[d] = "group_history" => pc[d] = "group_history"
  PROVE  /\ \A l \in Letters(msg_info_from_friend)' : l[3] = AccountOf[d] => ReachesOne(d, l)'
         /\ \A l \in Letters(msg_info_from_group)' :
              l[3] = AccountOf[d] /\ l[2] # l[3] /\ ~MaybeUndone(l[3])' => ReachesGroup(d, l)'
<1>1. \A h \in Clients : \A m, a : /\ ToSend(h, m, a) => ToSend(h, m, a)'
                                   /\ ToTell(h, m, a) => ToTell(h, m, a)'
  BY DEF ToSend, ToTell, Solo
<1>2. \A m : Has(d, m) => Has(d, m)'
  BY DEF Has
<1>3. ASSUME NEW l \in Letters(msg_info_from_friend)', l[3] = AccountOf[d]
      PROVE  ReachesOne(d, l)'
  <2>1. ReachesOne(d, l)
    BY <1>3 DEF ReachInv, Letters
  <2> QED BY <1>1, <1>2, <2>1 DEF ReachesOne
<1>4. ASSUME NEW l \in Letters(msg_info_from_group)', l[3] = AccountOf[d], l[2] # l[3],
             ~MaybeUndone(l[3])'
      PROVE  ReachesGroup(d, l)'
  <2>1. ReachesGroup(d, l)
    BY <1>4 DEF ReachInv, Letters, MaybeUndone, FaultsGrow
  <2> QED BY <1>1, <1>2, <2>1 DEF ReachesGroup
<1> QED BY <1>3, <1>4

\* A client that is still served was sent all the rows.
LEMMA SeeArrives ==
  ASSUME TypeOK, NEW c \in Clients, NEW T \in Seq(Chat), NEW group \in BOOLEAN,
         NEW ids \in SUBSET DOMAIN T, See(c, T, group, ids)
  PROVE  /\ \A d \in Clients : seen[d] \subseteq seen'[d]
         /\ Served(c)' => \A i \in ids : \E n \in seen'[c] : n.msg = T[i].msg
<1> DEFINE rows(sent) == {[group |-> group, id |-> i, msg |-> T[i].msg, sender |-> T[i].sender] : i \in sent}
<1>1. PICK sent \in SUBSET ids :
        /\ seen' = [seen EXCEPT ![c] = @ \cup rows(sent)]
        /\ sent = ids \/ cut' = cut \cup {c}
  BY DEF See
<1>2. /\ seen'[c] = seen[c] \cup rows(sent)
      /\ \A d \in Clients : d # c => seen'[d] = seen[d]
  BY <1>1 DEF TypeOK
<1>3. ASSUME Served(c)', NEW i \in ids PROVE \E n \in seen'[c] : n.msg = T[i].msg
  <2> DEFINE n == [group |-> group, id |-> i, msg |-> T[i].msg, sender |-> T[i].sender]
  <2>1. sent = ids
    BY <1>1, <1>3 DEF Served
  <2>2. n \in seen'[c] /\ n.msg = T[i].msg
    BY <1>2, <2>1
  <2> QED BY <2>2
<1> QED BY <1>2, <1>3

\* A client gets its history, of private messages and then of those of the group.
LEMMA ReachHistoryStep ==
  ASSUME TypeOK, ReachInv, NEW c \in Clients, Solo(c), NoLogin, FaultsGrow,
         get_history_msg_handle(c) \/ get_group_history_msg_handle(c)
  PROVE  ReachInv'
<1>1. CASE get_history_msg_handle(c)
  <2> DEFINE ids == {i \in DOMAIN msg_info_from_friend :
               AccountOf[c] \in {msg_info_from_friend[i].sender,
                                 msg_info_from_friend[i].receiver}}
  <2>1. /\ pc[c] = "history" /\ pc'[c] = "group_history"
        /\ See(c, msg_info_from_friend, FALSE, ids)
        /\ UNCHANGED <<msg_info_from_friend, msg_info_from_group, fetched>>
    BY <1>1 DEF get_history_msg_handle, TypeOK
  <2>0. ids \in SUBSET DOMAIN msg_info_from_friend /\ msg_info_from_friend \in Seq(Chat)
    BY DEF TypeOK
  <2> HIDE DEF ids
  <2>2. /\ \A d \in Clients : seen[d] \subseteq seen'[d]
        /\ Served(c)' => \A i \in ids : \E n \in seen'[c] : n.msg = msg_info_from_friend[i].msg
    BY <2>0, <2>1, SeeArrives
  <2> USE DEF ids
  <2>3. \A m, a : ~ToSend(c, m, a) /\ ~ToTell(c, m, a)
    BY <2>1 DEF ToSend, ToTell, InTx
  <2>4. ASSUME NEW l \in Letters(msg_info_from_friend)', l[3] = AccountOf[c], Served(c)'
        PROVE  ReachesOne(c, l)'
    <3>1. PICK i \in DOMAIN msg_info_from_friend :
            l[1] = msg_info_from_friend[i].msg /\ msg_info_from_friend[i].receiver = AccountOf[c]
      BY <2>1, <2>4 DEF Letters
    <3>2. Has(c, l[1])'
      BY <2>2, <2>4, <3>1 DEF Has
    <3> QED BY <3>2 DEF ReachesOne
  <2>5. ASSUME NEW l \in Letters(msg_info_from_group)', l[3] = AccountOf[c], l[2] # l[3],
               ~MaybeUndone(l[3])', Served(c)'
        PROVE  ReachesGroup(c, l)'
    <3>1. ReachesGroup(c, l)
      BY <2>1, <2>5 DEF ReachInv, Letters, MaybeUndone, FaultsGrow, NoLogin
    <3>2. ASSUME NEW h \in Clients, NEW m, NEW a, ToTell(h, m, a) PROVE ToTell(h, m, a)'
      <4>1. h # c
        BY <2>3, <3>2
      <4> QED BY <3>2, <4>1 DEF ToTell, Solo
    <3> QED BY <2>1, <2>2, <3>1, <3>2 DEF ReachesGroup, Has
  <2>6. \A d \in Clients : d # c => pc'[d] = pc[d]
    BY DEF Solo
  <2>7. ASSUME NEW d \in Clients, d # c, Served(d)'
        PROVE  /\ \A l \in Letters(msg_info_from_friend)' :
                    l[3] = AccountOf[d] => ReachesOne(d, l)'
               /\ \A l \in Letters(msg_info_from_group)' :
                    l[3] = AccountOf[d] /\ l[2] # l[3] /\ ~MaybeUndone(l[3])'
                      => ReachesGroup(d, l)'
    BY <2>1, <2>2, <2>3, <2>6, <2>7, ReachOthers DEF NoLogin
  <2> QED BY <2>4, <2>5, <2>7 DEF ReachInv
<1>2. CASE get_group_history_msg_handle(c)
  <2> DEFINE ids == {i \in DOMAIN msg_info_from_group :
                       msg_info_from_group[i].receiver = AccountOf[c]}
  <2>1. /\ pc[c] = "group_history" /\ pc'[c] = "idle"
        /\ See(c, msg_info_from_group, TRUE, ids)
        /\ UNCHANGED <<msg_info_from_friend, msg_info_from_group>>
        /\ \A d \in Clients : d # c => fetched'[d] = fetched[d]
    BY <1>2 DEF get_group_history_msg_handle, TypeOK
  <2>0. ids \in SUBSET DOMAIN msg_info_from_group /\ msg_info_from_group \in Seq(Chat)
    BY DEF TypeOK
  <2> HIDE DEF ids
  <2>2. /\ \A d \in Clients : seen[d] \subseteq seen'[d]
        /\ Served(c)' => \A i \in ids : \E n \in seen'[c] : n.msg = msg_info_from_group[i].msg
    BY <2>0, <2>1, SeeArrives
  <2> USE DEF ids
  <2>3. \A m, a : ~ToSend(c, m, a) /\ ~ToTell(c, m, a)
    BY <2>1 DEF ToSend, ToTell, InTx
  <2>4. ASSUME NEW l \in Letters(msg_info_from_group)', l[3] = AccountOf[c], Served(c)'
        PROVE  ReachesGroup(c, l)'
    <3>1. PICK i \in DOMAIN msg_info_from_group :
            l[1] = msg_info_from_group[i].msg /\ msg_info_from_group[i].receiver = AccountOf[c]
      BY <2>1, <2>4 DEF Letters
    <3>2. Has(c, l[1])'
      BY <2>2, <2>4, <3>1 DEF Has
    <3> QED BY <3>2 DEF ReachesGroup
  <2>5. ASSUME NEW l \in Letters(msg_info_from_friend)', l[3] = AccountOf[c], Served(c)'
        PROVE  ReachesOne(c, l)'
    <3>1. ReachesOne(c, l)
      BY <2>1, <2>5 DEF ReachInv, Letters, NoLogin
    <3>2. \A h \in Clients : \A m, a : ToSend(h, m, a) => ToSend(h, m, a)'
      BY <2>3 DEF ToSend, Solo
    <3> QED BY <2>1, <2>2, <3>1, <3>2 DEF ReachesOne, Has
  <2>6. \A d \in Clients : d # c => pc'[d] = pc[d]
    BY DEF Solo
  <2>7. ASSUME NEW d \in Clients, d # c, Served(d)'
        PROVE  /\ \A l \in Letters(msg_info_from_friend)' :
                    l[3] = AccountOf[d] => ReachesOne(d, l)'
               /\ \A l \in Letters(msg_info_from_group)' :
                    l[3] = AccountOf[d] /\ l[2] # l[3] /\ ~MaybeUndone(l[3])'
                      => ReachesGroup(d, l)'
    BY <2>1, <2>2, <2>3, <2>6, <2>7, ReachOthers DEF NoLogin
  <2> QED BY <2>4, <2>5, <2>7 DEF ReachInv
<1> QED BY <1>1, <1>2

\* Who logs in has its history to come, and who leaves is not served.
LEMMA ReachSessionStep ==
  ASSUME TypeOK, ClientInv, ReachInv, NEW c \in Clients, Solo(c), FaultsGrow,
         \A d \in Clients : Served(d)' => Served(d) \/ (d = c /\ do_login(c)),
         do_login(c) \/ Disconnect(c)
  PROVE  ReachInv'
<1>1. /\ pc[c] \in {"out", "idle"}
      /\ UNCHANGED <<msg_info_from_friend, msg_info_from_group>>
      /\ \A d \in Clients : d # c => seen'[d] = seen[d] /\ fetched'[d] = fetched[d]
  BY DEF do_login, Disconnect, TypeOK
<1>2. \A m, a : ~ToSend(c, m, a) /\ ~ToTell(c, m, a)
  BY <1>1 DEF ToSend, ToTell, InTx
<1>3. ASSUME NEW d \in Clients, Served(d)'
      PROVE  /\ \A l \in Letters(msg_info_from_friend)' :
                  l[3] = AccountOf[d] => ReachesOne(d, l)'
             /\ \A l \in Letters(msg_info_from_group)' :
                  l[3] = AccountOf[d] /\ l[2] # l[3] /\ ~MaybeUndone(l[3])'
                    => ReachesGroup(d, l)'
  <2>1. CASE d = c
    <3>1. CASE do_login(c)
      <4>1. ~fetched'[c] /\ pc'[c] = "idle"
        BY <3>1 DEF ClientInv, do_login, TypeOK
      <4> QED BY <2>1, <4>1 DEF ReachesOne, ReachesGroup
    <3>2. CASE Disconnect(c)
      BY <1>3, <2>1, <3>2 DEF Served, Disconnect, TypeOK
    <3> QED BY <3>1, <3>2
  <2>2. CASE d # c
    <3>1. pc'[d] = pc[d] /\ Served(d)
      BY <1>3, <2>2 DEF Solo
    <3> QED BY <1>1, <1>2, <2>2, <3>1, ReachOthers
  <2> QED BY <2>1, <2>2
<1> QED BY <1>3 DEF ReachInv

\* Nobody is told of the members: all who are logged in miss something.
LEMMA ReachFailsStep ==
  ASSUME TypeOK, ReachInv, NEW c \in Clients, Solo(c), NoLogin, FaultsGrow, MembersFail(c)
  PROVE  ReachInv'
<1>1. CASE pc[c] = "accounts"
  <2>1. /\ pc'[c] = "respond"
        /\ UNCHANGED <<fetched, seen, msg_info_from_friend, msg_info_from_group>>
    BY <1>1 DEF MembersFail, TypeOK
  <2> QED BY <1>1, <2>1, ReachQuiet DEF Letters
<1>2. CASE pc[c] = "users"
  <2>1. cut' = cut \cup {d \in Clients : pc[d] # "out"}
    BY <1>2 DEF MembersFail
  <2>2. \A d \in Clients : ~Served(d)'
    BY <2>1 DEF Served, NoLogin
  <2> QED BY <2>2 DEF ReachInv
<1> QED BY <1>1, <1>2 DEF MembersFail

\* Every step of a client keeps the messages on their way.
LEMMA ReachStep ==
  ASSUME TypeOK, RequestInv, CoreInv, TxInv, LoopInv, ClientInv, UndoInv, MemberInv, ReachInv,
         NEW c \in Clients, ClientNext(c), ~MissingIds(c)
  PROVE  ReachInv'
<1>1. /\ Solo(c) /\ FaultsGrow
      /\ \A d \in Clients : Served(d)' => Served(d) \/ (d = c /\ do_login(c))
  BY StepFacts, ClientStep
<1>0. ~do_login(c) => NoLogin
  BY <1>1 DEF NoLogin
<1>2. CASE \/ HistoryMsgGet(c) \/ (\E r \in Accounts : SendChat(c, r)) \/ SendGroupChat(c)
           \/ get_users_account_in_group(c) \/ Begin(c)
  <2>0. ~do_login(c)
    BY <1>2 DEF HistoryMsgGet, SendChat, SendGroupChat, Receive, get_users_account_in_group,
           Begin, do_login
  <2>1. /\ pc[c] \in {"idle", "insert", "accounts", "begin"} /\ pc'[c] # "group_history"
        /\ UNCHANGED <<fetched, seen, msg_info_from_friend, msg_info_from_group>>
    BY <1>2 DEF HistoryMsgGet, SendChat, SendGroupChat, Receive, get_users_account_in_group,
           Begin, TypeOK
  <2> QED BY <1>0, <1>1, <2>0, <2>1, ReachQuiet DEF Letters
<1>3. ASSUME NEW n \in seen[c], UpdateMsg(c, n) PROVE ReachInv'
  <2>1. pc[c] = "idle" /\ UNCHANGED <<pc, fetched, seen>> /\ ~do_login(c)
    BY <1>3 DEF UpdateMsg, do_login
  <2> QED BY <1>0, <1>1, <1>3, <2>1, UpdateFacts, ReachQuiet
<1>4. CASE do_login(c) \/ Disconnect(c)
  BY <1>1, <1>4, ReachSessionStep
<1>5. CASE ~do_login(c) /\ ~Disconnect(c)
  BY <1>0, <1>1, <1>2, <1>3, <1>5, ReachOneStep, ReachStoreStep, ReachTellStep, ReachHistoryStep,
     ReachFailsStep DEF ClientNext
<1> QED BY <1>4, <1>5

-----------------------------------------------------------------------------
(* The theorems *)

\* The logins, the tables, the members and the messages on their way, in every step.
LEMMA NoticeStep ==
  ASSUME IInv, NoticeInv, [Next]_vars
  PROVE  NoticeInv'
<1>1. CASE UNCHANGED vars
  <2>1. /\ \A T : UNCHANGED T => Letters(T)' = Letters(T)
        /\ \A c \in Clients : \A m, a : /\ ToSend(c, m, a)' <=> ToSend(c, m, a)
                                        /\ ToTell(c, m, a)' <=> ToTell(c, m, a)
    BY <1>1 DEF vars, Letters, ToSend, ToTell
  <2>2. UNCHANGED <<Letters(msg_info_from_friend), Letters(msg_info_from_group),
                    Letters(saved[2]), Letters(saved[3]), Users(user_group), Users(saved[1])>>
    BY <1>1 DEF vars, Letters, Users
  <2>3. /\ ~Crashed' => ~Crashed
        /\ \A a : /\ Stays(a)' <=> Stays(a)
                  /\ MaybeUndone(a)' <=> MaybeUndone(a)
        /\ \A c \in Clients : \A m : Has(c, m)' <=> Has(c, m)
        /\ \A c \in Clients : Listed(c)' = Listed(c)
    BY <1>1 DEF vars, Crashed, Stays, IsMember, MaybeUndone, Has, Listed
  <2>4. ClientInv => ClientInv'
    BY <1>1 DEF vars, ClientInv
  <2>8. \A c \in Clients : Served(c)' <=> Served(c)
    BY <1>1 DEF vars, Served
  <2>5. UndoInv => UndoInv'
    BY <1>1, <2>2 DEF vars, UndoInv
  <2>6. MemberInv => MemberInv'
    BY <1>1, <2>2, <2>3 DEF vars, MemberInv
  <2>7. ReachInv => ReachInv'
    BY <1>1, <2>1, <2>2, <2>3, <2>8 DEF vars, ReachInv, ReachesOne, ReachesGroup
  <2> QED BY <2>3, <2>4, <2>5, <2>6, <2>7 DEF NoticeInv
<1>2. ASSUME NEW i \in DOMAIN user_group, AcceptMember(i), ~Crashed PROVE NoticeInv'
  <2>1. /\ UNCHANGED <<msg_info_from_friend, msg_info_from_group, saved, user_client, pc, req,
                       users, told, seen, fetched, cut, faults>>
        /\ TypeOK /\ ClientInv /\ UndoInv /\ MemberInv /\ ReachInv
    BY <1>2 DEF AcceptMember, IInv, NoticeInv
  <2>2. MemberInv'
    BY <1>2, <2>1, MemberAccept
  <2>3. ClientInv' /\ UndoInv'
    BY <2>1 DEF ClientInv, UndoInv, Letters
  <2>4. \A c \in Clients : \A m, a : /\ ToSend(c, m, a)' <=> ToSend(c, m, a)
                                     /\ ToTell(c, m, a)' <=> ToTell(c, m, a)
                                     /\ Has(c, m)' <=> Has(c, m)
                                     /\ MaybeUndone(a)' <=> MaybeUndone(a)
                                     /\ Served(c)' <=> Served(c)
    BY <2>1 DEF ToSend, ToTell, Has, MaybeUndone, Served
  <2>5. UNCHANGED <<Letters(msg_info_from_friend), Letters(msg_info_from_group)>>
    BY <2>1 DEF Letters
  <2>6. ReachInv'
    BY <2>1, <2>4, <2>5 DEF ReachInv, ReachesOne, ReachesGroup
  <2> QED BY <2>2, <2>3, <2>6 DEF NoticeInv
<1>3. ASSUME NEW c \in Clients, ClientNext(c), ~Crashed PROVE NoticeInv'
  <2>1. /\ TypeOK /\ RequestInv /\ CoreInv /\ TxInv /\ LoopInv
        /\ ClientInv /\ UndoInv /\ MemberInv /\ ReachInv
    BY <1>3 DEF IInv, LiveInv, NoticeInv
  <2>2. CASE MissingIds(c)
    <3>1. Crashed'
      BY <2>1, <2>2 DEF MissingIds, Crashed, TypeOK
    <3> QED BY <3>1 DEF NoticeInv
  <2>3. CASE ~MissingIds(c)
    <3>1. ClientInv' /\ UndoInv' /\ MemberInv' /\ ReachInv'
      BY <1>3, <2>1, <2>3, ClientStep, UndoStep, MemberStep, ReachStep
    <3> QED BY <3>1 DEF NoticeInv
  <2> QED BY <2>2, <2>3
<1> QED BY <1>1, <1>2, <1>3 DEF Next

\* Nothing is stored at first, and the history of who is logged in is empty.
LEMMA InitNotice ==
  ASSUME Init
  PROVE  NoticeInv
<1>1. /\ saved = None /\ msg_info_from_friend = <<>> /\ msg_info_from_group = <<>>
      /\ \A c \in Clients : /\ pc[c] = IF c \in OnlineAtStart THEN "idle" ELSE "out"
                            /\ users[c] = <<>> /\ told[c] = 0
                            /\ fetched[c] <=> c \in OnlineAtStart
      /\ \A a \in Accounts : user_client[a] = FirstClient(a)
      /\ cut = {}
  BY DEF Init
<1>2. ClientInv
  <2>1. ASSUME NEW a \in Accounts, user_client[a] # None
        PROVE  user_client[a] \in OnlineAtStart /\ AccountOf[user_client[a]] = a
    BY <1>1, <2>1 DEF FirstClient
  <2>2. OnlineAtStart \subseteq Clients
    BY ChatAssumption
  <2> QED BY <1>1, <2>1, <2>2 DEF ClientInv
<1>3. Letters(msg_info_from_friend) = {} /\ Letters(msg_info_from_group) = {}
  BY <1>1 DEF Letters
<1>4. UndoInv /\ ReachInv
  BY <1>1, <1>3 DEF UndoInv, ReachInv
<1>5. Users(user_group) \subseteq Joined
  BY DEF Init, Users, Joined
<1>6. MemberInv
  BY <1>1, <1>3, <1>5 DEF MemberInv, Listed
<1> QED BY <1>2, <1>4, <1>6 DEF NoticeInv

\* The inductive invariant of the notices: as long as the process lives, a message that is
\* stored for an account has reached the connection that serves it, or is in the history
\* which that has still to ask for, or in the hands of the handler that stored it.
THEOREM NothingForgotten == Spec => [](IInv /\ NoticeInv)
<1>1. IInv /\ NoticeInv /\ [Next]_vars => NoticeInv'
  BY NoticeStep
<1>2. Init => NoticeInv
  BY InitNotice
<1> QED BY <1>1, <1>2, Invariant, PTL DEF Spec

\* handle_HistoryMsgGet_message and the notices of handle_chat_message and
\* handle_group_chat_message: the latest connection of an account that has had its history
\* and got all that was sent to it has seen every message to it that is stored, with any
\* number of logins, whichever handlers ran meanwhile and whatever was rolled back.
THEOREM ChatsShown == Spec => []NoMissedChat
<1>1. IInv /\ NoticeInv => NoMissedChat
  <2> SUFFICES ASSUME IInv, NoticeInv, Quiet,
                      NEW c \in Clients, Reached(c), ~MaybeUndone(AccountOf[c]),
                      NEW r \in Stored, r.receiver = AccountOf[c], r.sender # AccountOf[c]
               PROVE  \E n \in seen[c] : n.msg = r.msg
    BY DEF NoMissedChat
  <2>0. Served(c) /\ pc[c] = "idle" /\ fetched[c]
    BY DEF Reached, Served
  <2>1. ~Crashed
    BY DEF Quiet, Crashed
  <2>2. \A h \in Clients : \A m, a : ~ToSend(h, m, a) /\ ~ToTell(h, m, a)
    BY DEF Quiet, ToSend, ToTell, InTx
  <2> DEFINE l == <<r.msg, r.sender, r.receiver>>
  <2>3. l \in Letters(msg_info_from_friend) \/ l \in Letters(msg_info_from_group)
    BY DEF Stored, Letters
  <2>4. ReachesOne(c, l) \/ ReachesGroup(c, l)
    BY <2>0, <2>1, <2>3 DEF NoticeInv, ReachInv
  <2>5. Has(c, l[1])
    BY <2>0, <2>2, <2>4 DEF ReachesOne, ReachesGroup
  <2> QED BY <2>5 DEF Has
<1> QED BY <1>1, NothingForgotten, PTL

=============================================================================
