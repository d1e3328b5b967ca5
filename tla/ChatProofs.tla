------------------------------ MODULE ChatProofs ------------------------------
(***************************************************************************)
(* Proofs about Chat, for any accounts, connections, members and bounds,   *)
(* with second logins, failing statements and the crash.                   *)
(***************************************************************************)
EXTENDS Chat, FiniteSetTheorems, TLAPS

\* Where a handler has a private message, a group message, an open transaction, and where
\* it has stored its message for some members only.
Private == {"insert", "id", "find"}
InTx    == {"insert_member", "member_id", "commit", "rollback"}
Storing == {"insert_member", "member_id", "rollback"}
Grouped == {"accounts", "begin", "users", "tell_members"} \cup InTx
NoIds   == {"out", "idle", "history", "group_history", "insert", "id", "accounts", "begin"}

\* What a handler knows of its message.
RequestInv ==
  \A c \in Clients :
    /\ pc[c] \in Private \cup Grouped \cup {"respond"} => req[c] \in Request
    /\ pc[c] \in Private => ~req[c].group
    /\ pc[c] \in Grouped => req[c].group
    /\ req[c] \in Request /\ ~req[c].group => req[c].receiver \in Accounts
    /\ pc[c] \in NoIds => message_ids[c] = <<>>
    /\ pc[c] = "find" => message_ids[c] # <<>>
    /\ pc[c] = "respond" /\ ~req[c].group => message_ids[c] # <<>>

\* No two messages have the same number.
NumberInv ==
  /\ \A c \in Clients : req[c] # None => req[c].msg \in 1..sends
  /\ \A c, d \in Clients : req[c] # None /\ req[d] # None /\ req[c].msg = req[d].msg => c = d

\* The members from the start stay members, in the tables to roll back to as well.
HasCore(rows) == \A a \in Core : \E i \in DOMAIN rows : rows[i].user = a /\ rows[i].status = 1
CoreInv == HasCore(user_group) /\ (saved # None => HasCore(saved[1]))

\* A message is stored in a table for all of them or for nobody.
Recs(table, m) == {table[i].receiver : i \in Rows(table, m)}
Whole(table, m) == Recs(table, m) = {} \/ Core \subseteq Recs(table, m)

\* A transaction is opened over whole messages, and adds to them.
SavedInv ==
  saved # None => \A m \in Messages :
    Whole(saved[3], m) /\ Recs(saved[3], m) \subseteq Recs(msg_info_from_group, m)

\* Only one handler is in its transaction.
TxInv ==
  /\ \A c \in Clients : pc[c] \in InTx => saved # None
  /\ \A c, d \in Clients : pc[c] \in InTx /\ pc[d] \in InTx => c = d

\* How far its loop is: the rows up to there are in the table.
Placed(c, k) == k <= Len(message_ids[c]) \/ (pc[c] = "member_id" /\ k = Len(message_ids[c]) + 1)
LoopInv ==
  \A c \in Clients :
    /\ pc[c] \in {"begin", "insert_member", "member_id", "commit"}
         => users[c] # <<>> /\ \A a \in Core : \E k \in DOMAIN users[c] : users[c][k] = a
    /\ pc[c] \in {"insert_member", "member_id"} => Len(message_ids[c]) < Len(users[c])
    /\ pc[c] = "commit" => Len(message_ids[c]) = Len(users[c])
    /\ pc[c] \in {"insert_member", "member_id", "commit"} =>
         \A k \in DOMAIN users[c] :
           Placed(c, k) => users[c][k] \in Recs(msg_info_from_group, req[c].msg)

\* Only its message is in the table for some members and not for others.
WholeInv ==
  \A m \in Messages : \/ Whole(msg_info_from_group, m)
                      \/ \E c \in Clients : pc[c] \in Storing /\ req[c].msg = m

\* The transaction adds the rows of its handler's message, of which there were none.
FreshInv ==
  /\ \A m \in Messages : m > sends => Recs(msg_info_from_group, m) = {}
  /\ \A c \in Clients : pc[c] \in {"accounts", "begin"} =>
       Recs(msg_info_from_group, req[c].msg) = {}
  /\ \A c \in Clients : pc[c] \in InTx => \A m \in Messages :
       Recs(saved[3], m) = IF m = req[c].msg THEN {} ELSE Recs(msg_info_from_group, m)

\* Success is not set before COMMIT, and then the message is on disk.
SuccessInv ==
  \A c \in Clients :
    /\ pc[c] \in InTx \cup {"begin"} => ~success[c]
    /\ pc[c] = "respond" /\ req[c].group /\ success[c] => Recs(OnDisk, req[c].msg) # {}

\* After a crash only what is on disk matters.
LiveInv == ~Crashed => TxInv /\ LoopInv /\ WholeInv /\ FreshInv
DiskInv == SavedInv /\ GroupAllOrNothing /\ SuccessInv /\ AckedGroupStored
IInv    == TypeOK /\ RequestInv /\ NumberInv /\ CoreInv /\ DiskInv /\ LiveInv

USE DEF Goto, tables, dbVars, localVars, clientVars, bounds

-----------------------------------------------------------------------------
(* The tables *)

\* A row more: its receiver is added to those of its message.
LEMMA AppendRecs ==
  ASSUME NEW T \in Seq(Chat), NEW r \in Chat, NEW m
  PROVE  /\ Append(T, r) \in Seq(Chat)
         /\ Recs(T, m) \subseteq Recs(Append(T, r), m)
         /\ r.msg = m => r.receiver \in Recs(Append(T, r), m)
         /\ r.msg # m => Recs(Append(T, r), m) = Recs(T, m)
<1> DEFINE S == Append(T, r)
<1>1. /\ S \in Seq(Chat) /\ Len(S) = Len(T) + 1 /\ DOMAIN S = 1..Len(S) /\ DOMAIN T = 1..Len(T)
      /\ \A i \in DOMAIN T : i \in DOMAIN S /\ S[i] = T[i]
      /\ Len(T) \in Nat /\ Len(S) \in DOMAIN S /\ S[Len(S)] = r
  OBVIOUS
<1>2. \A i \in DOMAIN S : i \in DOMAIN T \/ i = Len(S)
  BY <1>1
<1> HIDE DEF S
<1>3. Recs(T, m) \subseteq Recs(S, m)
  BY <1>1 DEF Recs, Rows
<1>4. r.msg = m => r.receiver \in Recs(S, m)
  BY <1>1 DEF Recs, Rows
<1>5. r.msg # m => Recs(S, m) \subseteq Recs(T, m)
  BY <1>1, <1>2 DEF Recs, Rows
<1> QED BY <1>1, <1>3, <1>4, <1>5 DEF S

\* A mark changes neither message nor receiver of a row.
LEMMA MarkRecs ==
  ASSUME NEW T \in Seq(Chat), NEW id \in Nat, NEW a \in Accounts
  PROVE  /\ MarkRow(T, id, a) \in Seq(Chat)
         /\ \A m : Recs(MarkRow(T, id, a), m) = Recs(T, m)
<1>1. CASE id \notin DOMAIN T
  BY <1>1 DEF MarkRow
<1>2. CASE id \in DOMAIN T
  <2> DEFINE S == [T EXCEPT ![id].read = a]
  <2>1. MarkRow(T, id, a) = S /\ T[id] \in Chat
    BY <1>2 DEF MarkRow
  <2>2. /\ DOMAIN S = DOMAIN T /\ S[id] = [T[id] EXCEPT !.read = a]
        /\ \A i \in DOMAIN T : i # id => S[i] = T[i]
    BY <1>2
  <2>3. S[id] \in Chat /\ S[id].msg = T[id].msg /\ S[id].receiver = T[id].receiver
    BY <2>1, <2>2 DEF Chat
  <2>4. S \in Seq(Chat)
    <3>1. \A i \in 1..Len(T) : S[i] \in Chat
      BY <2>2, <2>3
    <3>2. DOMAIN T = 1..Len(T) /\ Len(T) \in Nat
      OBVIOUS
    <3>3. S = [i \in 1..Len(T) |-> S[i]]
      BY <3>2
    <3> HIDE DEF S
    <3>4. S \in [1..Len(T) -> Chat]
      BY <3>1, <3>3
    <3> QED BY <3>2, <3>4
  <2> HIDE DEF S
  <2>5. \A i \in DOMAIN T : S[i].msg = T[i].msg /\ S[i].receiver = T[i].receiver
    BY <2>2, <2>3
  <2>6. \A m : Rows(S, m) = Rows(T, m)
    BY <2>2, <2>5 DEF Rows
  <2>7. \A m : Recs(S, m) = Recs(T, m)
    BY <2>2, <2>5, <2>6 DEF Recs, Rows
  <2> QED BY <2>1, <2>4, <2>7
<1> QED BY <1>1, <1>2

\* The list of the members has all members, each row's user once.
LEMMA ListFacts ==
  ASSUME user_group \in Seq(Member), NEW list \in MemberLists
  PROVE  /\ list \in Seq(Accounts)
         /\ MemberIds # {} => list # <<>>
         /\ HasCore(user_group) => \A a \in Core : \E k \in DOMAIN list : list[k] = a
<1>1. DOMAIN user_group = 1..Len(user_group) /\ Len(user_group) \in Nat
  OBVIOUS
<1>2. IsFiniteSet(MemberIds) /\ MemberIds \subseteq DOMAIN user_group
  <2>1. IsFiniteSet(1..Len(user_group))
    BY <1>1, FS_Interval
  <2>2. MemberIds \in SUBSET (1..Len(user_group))
    BY <1>1 DEF MemberIds
  <2> QED BY <1>1, <2>1, <2>2, FS_Subset
<1>3. Cardinality(MemberIds) \in Nat
  BY <1>2, FS_CardinalityType
<1>4. PICK f \in InOrder(MemberIds) : list = [k \in DOMAIN f |-> user_group[f[k]].user]
  BY DEF MemberLists
<1>5. /\ f \in [1..Cardinality(MemberIds) -> MemberIds]
      /\ \A i \in MemberIds : \E k \in 1..Cardinality(MemberIds) : f[k] = i
  BY <1>4 DEF InOrder, Bijection, Surjection
<1>6. \A i \in DOMAIN user_group : user_group[i] \in Member
  OBVIOUS
<1>7. /\ DOMAIN list = 1..Cardinality(MemberIds)
      /\ \A k \in DOMAIN list : f[k] \in MemberIds /\ list[k] = user_group[f[k]].user
  BY <1>4, <1>5
<1>8. \A k \in DOMAIN list : list[k] \in Accounts
  BY <1>2, <1>6, <1>7 DEF Member
<1>9. list \in [1..Cardinality(MemberIds) -> Accounts]
  BY <1>4, <1>5, <1>7, <1>8
<1>10. list \in Seq(Accounts)
  BY <1>3, <1>9
<1>11. ASSUME MemberIds # {} PROVE list # <<>>
  <2>1. PICK k \in DOMAIN list : TRUE
    BY <1>5, <1>7, <1>11
  <2> QED BY <2>1
<1>12. ASSUME HasCore(user_group), NEW a \in Core PROVE \E k \in DOMAIN list : list[k] = a
  <2>1. PICK i \in MemberIds : user_group[i].user = a
    BY <1>12 DEF HasCore, MemberIds
  <2> QED BY <1>5, <1>7, <2>1
<1> QED BY <1>10, <1>11, <1>12

-----------------------------------------------------------------------------
(* Type correctness, and what a handler knows of its message *)

\* A handler's message becomes a row.
LEMMA NewRowType ==
  ASSUME TypeOK, RequestInv, NEW c \in Clients, NEW r \in Accounts, NEW read \in Accounts \cup {None},
         req[c] \in Request
  PROVE  NewRow(c, r, read) \in Chat
BY DEF NewRow, Chat, Request

\* A statement or a send that fails.
LEMMA FaultType ==
  ASSUME TypeOK, Fault
  PROVE  faults' \in 0..MaxFaults /\ UNCHANGED <<sends, reads, logins>>
BY ChatAssumption DEF Fault, TypeOK

\* Who got all that was sent, and the bounds, after a send.
Sent ==
  /\ cut' \subseteq Clients
  /\ sends' \in 0..MaxSends /\ reads' \in 0..MaxReads /\ faults' \in 0..MaxFaults
  /\ logins' \in 0..MaxLogins

\* What a client is sent of the tables are notices.
LEMMA SeeType ==
  ASSUME seen \in [Clients -> SUBSET Notice], NEW c \in Clients, NEW T \in Seq(Chat),
         NEW group \in BOOLEAN, NEW ids \in SUBSET DOMAIN T, See(c, T, group, ids), TypeOK
  PROVE  seen' \in [Clients -> SUBSET Notice] /\ Sent
<1>1. \A i \in ids : T[i] \in Chat /\ i \in Nat
  OBVIOUS
<1>2. \A i \in ids : [group |-> group, id |-> i, msg |-> T[i].msg, sender |-> T[i].sender] \in Notice
  BY <1>1 DEF Chat, Notice
<1>3. seen' \in [Clients -> SUBSET Notice]
  BY <1>2 DEF See
<1>4. Sent
  <2>1. \/ UNCHANGED <<cut, bounds>>
        \/ cut' = cut \cup {c} /\ Fault
    BY DEF See
  <2>2. CASE UNCHANGED <<cut, bounds>>
    BY <2>2 DEF Sent, TypeOK
  <2>3. CASE cut' = cut \cup {c} /\ Fault
    BY <2>3, FaultType DEF Sent, TypeOK
  <2> QED BY <2>1, <2>2, <2>3
<1> QED BY <1>3, <1>4

\* So is what is forwarded.
LEMMA ForwardType ==
  ASSUME seen \in [Clients -> SUBSET Notice], NEW c \in Clients, NEW a \in Accounts, NEW id \in Nat,
         req[c] \in Request, Forward(c, a, id), TypeOK
  PROVE  seen' \in [Clients -> SUBSET Notice] /\ Sent
<1>1. [group |-> req[c].group, id |-> id, msg |-> req[c].msg, sender |-> req[c].sender] \in Notice
  BY DEF Request, Notice
<1>2. seen' \in [Clients -> SUBSET Notice]
  BY <1>1 DEF Forward
<1>3. user_client[a] \in Clients \cup {None}
  BY DEF TypeOK
<1>4. Sent
  <2>1. CASE UNCHANGED <<cut, bounds>>
    BY <2>1 DEF Sent, TypeOK
  <2>2. CASE user_client[a] # None /\ cut' = cut \cup {user_client[a]}
             /\ IF user_client[a] \in cut THEN UNCHANGED bounds ELSE Fault
    <3>1. cut' \subseteq Clients
      BY <1>3, <2>2 DEF TypeOK
    <3>2. /\ sends' \in 0..MaxSends /\ reads' \in 0..MaxReads /\ faults' \in 0..MaxFaults
          /\ logins' \in 0..MaxLogins
      BY <2>2, FaultType DEF TypeOK
    <3> QED BY <3>1, <3>2 DEF Sent
  <2> QED BY <2>1, <2>2 DEF Forward
<1> QED BY <1>2, <1>4

\* Receiving a message.
LEMMA ReceiveType ==
  ASSUME TypeOK, RequestInv, NEW c \in Clients, NEW request \in Request,
         NEW label \in {"insert", "accounts"}, request.group <=> label = "accounts",
         ~request.group => request.receiver \in Accounts, Receive(c, request, label)
  PROVE  TypeOK' /\ RequestInv'
<1>0. sends' \in 0..MaxSends
  BY ChatAssumption DEF Receive, TypeOK
<1>1. TypeOK'
  BY <1>0 DEF Receive, TypeOK, Pcs
<1>2. /\ pc' = [pc EXCEPT ![c] = label] /\ req' = [req EXCEPT ![c] = request]
      /\ UNCHANGED message_ids /\ pc[c] \in NoIds
  BY DEF Receive, NoIds
<1>3. RequestInv'
  BY <1>2 DEF TypeOK, RequestInv, Private, Grouped, InTx, NoIds
<1> QED BY <1>1, <1>3

\* The members accepted: one row of user_group.
LEMMA AcceptType ==
  ASSUME TypeOK, NEW i \in DOMAIN user_group, AcceptMember(i)
  PROVE  user_group' \in Seq(Member)
<1>1. user_group \in Seq(Member) /\ user_group' = [user_group EXCEPT ![i].status = 1]
  BY DEF TypeOK, AcceptMember
<1>2. DOMAIN user_group = 1..Len(user_group) /\ Len(user_group) \in Nat
  BY <1>1
<1>3. \A j \in DOMAIN user_group : user_group[j] \in Member
  BY <1>1
<1>4. \A j \in DOMAIN user_group : user_group'[j] \in Member
  BY <1>1, <1>3 DEF Member
<1>5. user_group' \in [1..Len(user_group) -> Member]
  BY <1>1, <1>2, <1>4
<1> QED BY <1>2, <1>5

\* The tables of an open transaction.
LEMMA SavedType ==
  ASSUME TypeOK, saved # None
  PROVE  saved[1] \in Seq(Member) /\ saved[2] \in Seq(Chat) /\ saved[3] \in Seq(Chat)
BY DEF TypeOK, Tables

\* Each step of a handler keeps the types.
LEMMA TypeStep ==
  ASSUME TypeOK, RequestInv, TxInv, LoopInv, Next
  PROVE  TypeOK' /\ RequestInv'
<1>1. ASSUME NEW i \in DOMAIN user_group, AcceptMember(i) PROVE TypeOK' /\ RequestInv'
  BY <1>1, AcceptType DEF AcceptMember, TypeOK, RequestInv
<1>2. ASSUME NEW c \in Clients, ClientNext(c) PROVE TypeOK' /\ RequestInv'
  <2> USE DEF Private, Grouped, InTx, NoIds
  <2>1. CASE do_login(c)
    <3>1. logins' \in 0..MaxLogins
      BY <2>1, ChatAssumption DEF do_login, TypeOK
    <3> QED BY <2>1, <3>1, ChatAssumption DEF do_login, TypeOK, RequestInv, Pcs
  <2>2. CASE Disconnect(c)
    BY <2>2 DEF Disconnect, TypeOK, RequestInv, Pcs
  <2>3. CASE HistoryMsgGet(c)
    BY <2>3 DEF HistoryMsgGet, TypeOK, RequestInv, Pcs
  <2>4. CASE get_history_msg_handle(c)
    <3>1. seen' \in [Clients -> SUBSET Notice] /\ Sent
      BY <2>4, SeeType DEF get_history_msg_handle, TypeOK
    <3> QED BY <2>4, <3>1 DEF get_history_msg_handle, Sent, TypeOK, RequestInv, Pcs
  <2>5. CASE get_group_history_msg_handle(c)
    <3>1. seen' \in [Clients -> SUBSET Notice] /\ Sent
      BY <2>5, SeeType DEF get_group_history_msg_handle, TypeOK
    <3> QED BY <2>5, <3>1 DEF get_group_history_msg_handle, Sent, TypeOK, RequestInv, Pcs
  <2>6. ASSUME NEW n \in seen[c], UpdateMsg(c, n) PROVE TypeOK' /\ RequestInv'
    <3>1. n.id \in Nat /\ AccountOf[c] \in Accounts
      BY ChatAssumption DEF TypeOK, Notice
    <3>2. /\ MarkRow(msg_info_from_friend, n.id, AccountOf[c]) \in Seq(Chat)
          /\ MarkRow(msg_info_from_group, n.id, AccountOf[c]) \in Seq(Chat)
      BY <3>1, MarkRecs DEF TypeOK
    <3>3. reads' \in 0..MaxReads
      BY <2>6, ChatAssumption DEF UpdateMsg, TypeOK
    <3>4. msg_info_from_friend' \in Seq(Chat) /\ msg_info_from_group' \in Seq(Chat)
      BY <2>6, <3>2 DEF UpdateMsg, TypeOK
    <3> QED BY <2>6, <3>3, <3>4 DEF UpdateMsg, TypeOK, RequestInv
  <2>7. ASSUME NEW r \in Accounts, SendChat(c, r) PROVE TypeOK' /\ RequestInv'
    <3> DEFINE request == [group |-> FALSE, msg |-> sends + 1, sender |-> AccountOf[c], receiver |-> r]
    <3>1. sends + 1 \in Messages
      BY <2>7, ChatAssumption DEF SendChat, Receive, TypeOK, Messages
    <3>2. request \in Request /\ ~request.group /\ request.receiver \in Accounts
      BY <3>1, ChatAssumption DEF Request
    <3>3. Receive(c, request, "insert")
      BY <2>7 DEF SendChat
    <3> HIDE DEF request
    <3> QED BY <3>2, <3>3, ReceiveType
  <2>8. CASE SendGroupChat(c)
    <3> DEFINE request == [group |-> TRUE, msg |-> sends + 1, sender |-> AccountOf[c], receiver |-> None]
    <3>1. sends + 1 \in Messages
      BY <2>8, ChatAssumption DEF SendGroupChat, Receive, TypeOK, Messages
    <3>2. request \in Request /\ request.group
      BY <3>1, ChatAssumption DEF Request
    <3>3. Receive(c, request, "accounts")
      BY <2>8 DEF SendGroupChat
    <3> HIDE DEF request
    <3> QED BY <3>2, <3>3, ReceiveType
  <2>9. CASE InsertChat(c)
    <3>1. /\ NewRow(c, req[c].receiver, None) \in Chat /\ pc[c] = "insert"
          /\ msg_info_from_friend' = Append(msg_info_from_friend, NewRow(c, req[c].receiver, None))
      BY <2>9, NewRowType DEF InsertChat, RequestInv
    <3>2. msg_info_from_friend' \in Seq(Chat)
      BY <3>1 DEF TypeOK
    <3>3. last_rowid' \in Nat
      BY <2>9, <3>2 DEF InsertChat
    <3> QED BY <2>9, <3>2, <3>3 DEF InsertChat, TypeOK, RequestInv, Pcs
  <2>10. CASE InsertChatFails(c)
    <3>1. <<0>> \in Seq(Nat) /\ <<0>> # <<>>
      OBVIOUS
    <3>2. faults' \in 0..MaxFaults /\ UNCHANGED <<sends, reads, logins>>
      BY <2>10, FaultType DEF InsertChatFails
    <3>3. PICK answer \in BOOLEAN : success' = [success EXCEPT ![c] = answer]
      BY <2>10 DEF InsertChatFails
    <3>4. message_ids' = [message_ids EXCEPT ![c] = <<0>>] /\ pc' = [pc EXCEPT ![c] = "respond"]
      BY <2>10 DEF InsertChatFails
    <3>5. TypeOK'
      BY <2>10, <3>1, <3>2, <3>3 DEF InsertChatFails, TypeOK, Pcs
    <3>6. RequestInv'
      BY <2>10, <3>1, <3>4 DEF InsertChatFails, TypeOK, RequestInv
    <3> QED BY <3>5, <3>6
  <2>11. CASE ReadId(c)
    <3>0. message_ids[c] \in Seq(Nat) /\ last_rowid \in Nat
      BY DEF TypeOK
    <3>1. Append(message_ids[c], last_rowid) \in Seq(Nat) /\ Append(message_ids[c], last_rowid) # <<>>
      BY <3>0
    <3> QED BY <2>11, <3>1 DEF ReadId, TypeOK, RequestInv, Pcs
  <2>12. CASE Respond(c)
    <3>1. acked' \subseteq BOOLEAN \X Messages
      <4>1. <<req[c].group, req[c].msg>> \in BOOLEAN \X Messages
        BY <2>12 DEF Respond, RequestInv, Request
      <4> QED BY <2>12, <4>1 DEF Respond, TypeOK
    <3> QED BY <2>12, <3>1 DEF Respond, TypeOK, RequestInv, Pcs
  <2>13. CASE ForwardChat(c)
    <3>1. /\ req[c] \in Request /\ req[c].receiver \in Accounts /\ message_ids[c] # <<>>
      BY <2>13 DEF ForwardChat, RequestInv
    <3>2. Head(message_ids[c]) \in Nat
      BY <3>1 DEF TypeOK
    <3>3. seen' \in [Clients -> SUBSET Notice] /\ Sent
      BY <2>13, <3>1, <3>2, ForwardType DEF ForwardChat, TypeOK
    <3>4. TypeOK'
      <4>1. Return(c) /\ UNCHANGED <<dbVars, user_client, req, fetched, acked>>
        BY <2>13 DEF ForwardChat
      <4> QED BY <3>3, <4>1 DEF Return, Sent, TypeOK, Pcs
    <3>5. RequestInv'
      BY <2>13 DEF ForwardChat, Return, TypeOK, RequestInv
    <3> QED BY <3>4, <3>5
  <2>14. CASE get_users_account_in_group(c)
    <3>1. PICK list \in MemberLists : users' = [users EXCEPT ![c] = list]
      BY <2>14 DEF get_users_account_in_group
    <3>2. users' \in [Clients -> Seq(Accounts)]
      BY <3>1, ListFacts DEF TypeOK
    <3> QED BY <2>14, <3>2 DEF get_users_account_in_group, TypeOK, RequestInv, Pcs
  <2>15. CASE Begin(c)
    <3>1. saved' \in Tables \cup {None}
      BY <2>15 DEF Begin, TypeOK, Tables
    <3> QED BY <2>15, <3>1 DEF Begin, TypeOK, RequestInv, Pcs
  <2>16. CASE InsertMember(c)
    <3> DEFINE a == users[c][Len(message_ids[c]) + 1]
               row == NewRow(c, a, IF a = req[c].sender THEN a ELSE None)
    <3>1. req[c] \in Request /\ pc[c] = "insert_member"
      BY <2>16 DEF InsertMember, RequestInv
    <3>2. Len(message_ids[c]) < Len(users[c]) /\ Len(message_ids[c]) \in Nat
      BY <3>1 DEF LoopInv, TypeOK
    <3>3. a \in Accounts
      BY <3>2 DEF TypeOK
    <3> HIDE DEF a
    <3>4. row \in Chat
      BY <3>1, <3>3, NewRowType
    <3>5. msg_info_from_group' = Append(msg_info_from_group, row)
      BY <2>16 DEF InsertMember, a
    <3> HIDE DEF row
    <3>6. msg_info_from_group' \in Seq(Chat)
      BY <3>4, <3>5 DEF TypeOK
    <3>7. last_rowid' \in Nat
      BY <2>16, <3>6 DEF InsertMember
    <3> QED BY <2>16, <3>6, <3>7 DEF InsertMember, TypeOK, RequestInv, Pcs
  <2>17. CASE InsertMemberFails(c)
    <3>1. faults' \in 0..MaxFaults /\ UNCHANGED <<sends, reads, logins>>
      BY <2>17, FaultType DEF InsertMemberFails
    <3> QED BY <2>17, <3>1 DEF InsertMemberFails, TypeOK, RequestInv, Pcs
  <2>18. CASE ReadMemberId(c)
    <3>1. Append(message_ids[c], last_rowid) \in Seq(Nat)
      BY DEF TypeOK
    <3> QED BY <2>18, <3>1 DEF ReadMemberId, TypeOK, RequestInv, Pcs
  <2>19. CASE Commit(c)
    BY <2>19 DEF Commit, TypeOK, RequestInv, Pcs
  <2>20. CASE CommitFails(c)
    <3>1. faults' \in 0..MaxFaults /\ UNCHANGED <<sends, reads, logins>>
      BY <2>20, FaultType DEF CommitFails
    <3> QED BY <2>20, <3>1 DEF CommitFails, TypeOK, RequestInv, Pcs
  <2>21. CASE Rollback(c)
    <3>1. saved # None
      BY <2>21 DEF Rollback, TxInv
    <3> QED BY <2>21, <3>1, SavedType DEF Rollback, Restore, TypeOK, RequestInv, Pcs
  <2>22. CASE get_users_in_group(c)
    <3>1. PICK list \in MemberLists : users' = [users EXCEPT ![c] = list]
      BY <2>22 DEF get_users_in_group
    <3>2. users' \in [Clients -> Seq(Accounts)]
      BY <3>1, ListFacts DEF TypeOK
    <3> QED BY <2>22, <3>2 DEF get_users_in_group, TypeOK, RequestInv, Pcs
  <2>23. CASE TellMember(c)
    <3>1. req[c] \in Request /\ told[c] \in Nat /\ told[c] < Len(users[c])
      BY <2>23 DEF TellMember, Left, TypeOK, RequestInv
    <3>2. NextMember(c) \in Accounts
      BY <3>1 DEF NextMember, TypeOK
    <3>3. ASSUME NEW id \in IdsRead(c) PROVE id \in Nat
      <4>1. Len(msg_info_from_group) \in Nat
        BY DEF TypeOK
      <4>2. told[c] < Len(message_ids[c]) => message_ids[c][told[c] + 1] \in Nat
        BY <3>1 DEF TypeOK
      <4> QED BY <3>3, <4>1, <4>2 DEF IdsRead
    <3>4. seen' \in [Clients -> SUBSET Notice] /\ Sent
      <4>1. CASE UNCHANGED <<seen, cut, bounds>>
        BY <4>1 DEF TypeOK, Sent
      <4>2. CASE \E id \in IdsRead(c) : Forward(c, NextMember(c), id)
        BY <4>2, <3>1, <3>2, <3>3, ForwardType DEF TypeOK
      <4> QED BY <2>23, <4>1, <4>2 DEF TellMember
    <3>5. told' \in [Clients -> Nat]
      BY <2>23, <3>1 DEF TellMember, TypeOK
    <3> QED BY <2>23, <3>4, <3>5 DEF TellMember, Sent, TypeOK, RequestInv
  <2>24. CASE MissingIds(c)
    <3>1. /\ user_group' \in Seq(Member) /\ msg_info_from_friend' \in Seq(Chat)
          /\ msg_info_from_group' \in Seq(Chat) /\ saved' = None
      BY <2>24, SavedType DEF MissingIds, Restore, TypeOK
    <3> QED BY <2>24, <3>1 DEF MissingIds, TypeOK, RequestInv, Pcs
  <2>25. CASE AllTold(c)
    BY <2>25 DEF AllTold, Return, TypeOK, RequestInv, Pcs
  <2>26. CASE MembersFail(c)
    <3>1. faults' \in 0..MaxFaults /\ UNCHANGED <<sends, reads, logins>>
      BY <2>26, FaultType DEF MembersFail
    <3>2. cut' \subseteq Clients
      BY <2>26 DEF MembersFail, Return, TypeOK
    <3>3. pc[c] \in {"accounts", "users"}
      BY <2>26 DEF MembersFail
    <3>4. CASE /\ pc[c] = "accounts" /\ Goto(c, "respond")
               /\ success' = [success EXCEPT ![c] = FALSE] /\ UNCHANGED <<users, message_ids, told>>
      BY <2>26, <3>1, <3>2, <3>4 DEF MembersFail, TypeOK, RequestInv, Pcs
    <3>5. CASE pc[c] = "users" /\ Return(c)
      BY <2>26, <3>1, <3>2, <3>5 DEF MembersFail, Return, TypeOK, RequestInv, Pcs
    <3> QED BY <2>26, <3>4, <3>5 DEF MembersFail
  <2> QED BY <1>2, <2>1, <2>2, <2>3, <2>4, <2>5, <2>6, <2>7, <2>8, <2>9, <2>10, <2>11, <2>12, <2>13,
             <2>14, <2>15, <2>16, <2>17, <2>18, <2>19, <2>20, <2>21, <2>22, <2>23, <2>24, <2>25, <2>26
          DEF ClientNext
<1> QED BY <1>1, <1>2 DEF Next

-----------------------------------------------------------------------------
(* Messages have numbers of their own *)

\* A request changes when a message is received, with the next number.
LEMMA ReqStep ==
  ASSUME TypeOK, NEW c \in Clients, ClientNext(c)
  PROVE  \/ UNCHANGED <<req, sends>>
         \/ /\ pc[c] = "idle" /\ req'[c].msg = sends + 1 /\ sends' = sends + 1
            /\ \A d \in Clients : d # c => req'[d] = req[d]
<1>1. ASSUME NEW request, NEW label, Receive(c, request, label), request.msg = sends + 1
      PROVE  /\ pc[c] = "idle" /\ req'[c].msg = sends + 1 /\ sends' = sends + 1
             /\ \A d \in Clients : d # c => req'[d] = req[d]
  BY <1>1 DEF Receive, TypeOK
<1>2. ASSUME (\E r \in Accounts : SendChat(c, r)) \/ SendGroupChat(c)
      PROVE  /\ pc[c] = "idle" /\ req'[c].msg = sends + 1 /\ sends' = sends + 1
             /\ \A d \in Clients : d # c => req'[d] = req[d]
  BY <1>1, <1>2 DEF SendChat, SendGroupChat
<1>3. CASE ~((\E r \in Accounts : SendChat(c, r)) \/ SendGroupChat(c))
  BY <1>3 DEF ClientNext, do_login, Disconnect, HistoryMsgGet, get_history_msg_handle,
              get_group_history_msg_handle, UpdateMsg, InsertChat, InsertChatFails, ReadId,
              Respond, ForwardChat, get_users_account_in_group, Begin, InsertMember,
              InsertMemberFails, ReadMemberId, Commit, CommitFails, Rollback,
              get_users_in_group, TellMember, MissingIds, AllTold, MembersFail, Return,
              See, Forward, Fault
<1> QED BY <1>2, <1>3

\* A message is numbered as it is received.
LEMMA NumberStep ==
  ASSUME TypeOK, NumberInv, Next
  PROVE  NumberInv'
<1>0. sends \in Nat
  BY ChatAssumption DEF TypeOK
<1>1. CASE UNCHANGED <<req, sends>>
  BY <1>1 DEF NumberInv
<1>2. ASSUME NEW c \in Clients, req'[c].msg = sends + 1, sends' = sends + 1,
             \A d \in Clients : d # c => req'[d] = req[d]
      PROVE  NumberInv'
  <2>1. \A n \in 1..sends : n \in 1..sends' /\ n # sends + 1
    BY <1>0, <1>2
  <2>2. sends + 1 \in 1..sends'
    BY <1>0, <1>2
  <2> QED BY <1>2, <2>1, <2>2 DEF NumberInv
<1>3. ASSUME NEW i \in DOMAIN user_group, AcceptMember(i) PROVE UNCHANGED <<req, sends>>
  BY <1>3 DEF AcceptMember
<1> QED BY <1>1, <1>2, <1>3, ReqStep DEF Next

-----------------------------------------------------------------------------
(* The steps outside of a transaction *)

StoreInv == CoreInv /\ SavedInv /\ SuccessInv /\ TxInv /\ LoopInv /\ WholeInv /\ FreshInv
DiskKept == \A m \in Messages : Recs(OnDisk, m)' = Recs(OnDisk, m)

Outside(c) ==
  \/ do_login(c) \/ Disconnect(c)
  \/ HistoryMsgGet(c) \/ get_history_msg_handle(c) \/ get_group_history_msg_handle(c)
  \/ (\E r \in Accounts : SendChat(c, r))
  \/ InsertChat(c) \/ InsertChatFails(c) \/ ReadId(c) \/ Respond(c) \/ ForwardChat(c)
  \/ SendGroupChat(c) \/ get_users_account_in_group(c)
  \/ get_users_in_group(c) \/ TellMember(c) \/ AllTold(c) \/ MembersFail(c)

\* They leave the group's messages, the transaction and the other handlers alone.
LEMMA OutsideFacts ==
  ASSUME TypeOK, RequestInv, NEW c \in Clients, Outside(c)
  PROVE  /\ pc[c] \notin InTx \cup {"begin"} /\ pc'[c] \notin InTx /\ pc'[c] # "crashed"
         /\ UNCHANGED <<user_group, msg_info_from_group, saved>>
         /\ \A d \in Clients : d # c =>
              /\ pc'[d] = pc[d] /\ req'[d] = req[d] /\ users'[d] = users[d]
              /\ message_ids'[d] = message_ids[d] /\ success'[d] = success[d]
<1> DEFINE Alone ==
      /\ pc[c] \notin InTx \cup {"begin"} /\ pc'[c] \notin InTx /\ pc'[c] # "crashed"
      /\ UNCHANGED <<user_group, msg_info_from_group, saved>>
      /\ \A d \in Clients : d # c =>
           /\ pc'[d] = pc[d] /\ req'[d] = req[d] /\ users'[d] = users[d]
           /\ message_ids'[d] = message_ids[d] /\ success'[d] = success[d]
<1> USE DEF InTx
<1>1. CASE do_login(c)
  BY <1>1 DEF do_login, TypeOK
<1>2. CASE Disconnect(c)
  BY <1>2 DEF Disconnect, TypeOK
<1>3. CASE HistoryMsgGet(c)
  BY <1>3 DEF HistoryMsgGet, TypeOK
<1>4. CASE get_history_msg_handle(c)
  BY <1>4 DEF get_history_msg_handle, TypeOK
<1>5. CASE get_group_history_msg_handle(c)
  BY <1>5 DEF get_group_history_msg_handle, TypeOK
<1>6. CASE InsertChat(c)
  BY <1>6 DEF InsertChat, TypeOK
<1>7. CASE InsertChatFails(c)
  BY <1>7 DEF InsertChatFails, TypeOK
<1>8. CASE ReadId(c)
  BY <1>8 DEF ReadId, TypeOK
<1>9. CASE Respond(c)
  BY <1>9 DEF Respond, TypeOK
<1>10. CASE ForwardChat(c)
  BY <1>10 DEF ForwardChat, Return, TypeOK
<1>11. CASE get_users_account_in_group(c)
  BY <1>11 DEF get_users_account_in_group, TypeOK
<1>12. CASE get_users_in_group(c)
  BY <1>12 DEF get_users_in_group, TypeOK
<1>13. CASE TellMember(c)
  BY <1>13 DEF TellMember, TypeOK
<1>14. CASE AllTold(c)
  BY <1>14 DEF AllTold, Return, TypeOK
<1>15. ASSUME NEW request, NEW label \in {"insert", "accounts"}, Receive(c, request, label)
      PROVE  Alone
  BY <1>15 DEF Receive, TypeOK
<1>16. ASSUME NEW r \in Accounts, SendChat(c, r) PROVE Alone
  BY <1>15, <1>16 DEF SendChat
<1>17. CASE SendGroupChat(c)
  BY <1>15, <1>17 DEF SendGroupChat
<1>18. CASE MembersFail(c)
  BY <1>18 DEF MembersFail, Return, TypeOK
<1> QED BY <1>1, <1>2, <1>3, <1>4, <1>5, <1>6, <1>7, <1>8, <1>9, <1>10, <1>11, <1>12, <1>13, <1>14,
           <1>16, <1>17, <1>18 DEF Outside

\* A list of members that a handler has read is whole, for as long as it loops.
LEMMA OutsideLoop ==
  ASSUME TypeOK, RequestInv, CoreInv, LoopInv, NEW c \in Clients, Outside(c)
  PROVE  LoopInv'
<1>1. /\ pc'[c] \notin InTx /\ msg_info_from_group' = msg_info_from_group
      /\ \A d \in Clients : d # c =>
           /\ pc'[d] = pc[d] /\ req'[d] = req[d] /\ users'[d] = users[d]
           /\ message_ids'[d] = message_ids[d]
  BY OutsideFacts
<1>2. ASSUME pc'[c] = "begin"
      PROVE  users'[c] # <<>> /\ \A a \in Core : \E k \in DOMAIN users'[c] : users'[c][k] = a
  <2>1. get_users_account_in_group(c)
    BY <1>2 DEF Outside, do_login, Disconnect, HistoryMsgGet, get_history_msg_handle,
           get_group_history_msg_handle, SendChat, Receive, InsertChat, InsertChatFails, ReadId,
           Respond, ForwardChat, SendGroupChat, get_users_in_group, TellMember, AllTold,
           MembersFail, Return, TypeOK
  <2>2. PICK list \in MemberLists : users' = [users EXCEPT ![c] = list]
    BY <2>1 DEF get_users_account_in_group
  <2>3. MemberIds # {}
    BY <1>2, <2>1 DEF get_users_account_in_group, TypeOK
  <2>4. users'[c] = list
    BY <2>2 DEF TypeOK
  <2> QED BY <2>3, <2>4, ListFacts DEF TypeOK, CoreInv
<1>3. ASSUME NEW d \in Clients, d # c
      PROVE  /\ pc'[d] = pc[d] /\ req'[d] = req[d] /\ users'[d] = users[d]
             /\ message_ids'[d] = message_ids[d] /\ \A k : Placed(d, k)' <=> Placed(d, k)
  BY <1>1, <1>3 DEF Placed
<1> QED BY <1>1, <1>2, <1>3 DEF LoopInv, InTx

\* Success is not set outside, except for a private message.
LEMMA OutsideSuccess ==
  ASSUME TypeOK, RequestInv, SuccessInv, NEW c \in Clients, Outside(c)
  PROVE  SuccessInv'
<1>1. /\ pc'[c] \notin InTx /\ UNCHANGED <<msg_info_from_group, saved>>
      /\ \A d \in Clients : d # c =>
           pc'[d] = pc[d] /\ req'[d] = req[d] /\ success'[d] = success[d]
  BY OutsideFacts
<1>2. \/ pc'[c] \notin {"begin", "respond"}
      \/ ~success'[c]
      \/ ~req'[c].group
  <2>1. CASE get_users_account_in_group(c)
    BY <2>1 DEF get_users_account_in_group, TypeOK
  <2>2. CASE InsertChatFails(c) \/ ReadId(c)
    BY <2>2 DEF InsertChatFails, ReadId, RequestInv, Private
  <2>4. CASE MembersFail(c)
    BY <2>4 DEF MembersFail, Return, TypeOK
  <2>3. CASE ~(get_users_account_in_group(c) \/ InsertChatFails(c) \/ ReadId(c) \/ MembersFail(c))
    BY <2>3 DEF Outside, do_login, Disconnect, HistoryMsgGet, get_history_msg_handle,
           get_group_history_msg_handle, SendChat, Receive, InsertChat,
           Respond, ForwardChat, SendGroupChat, get_users_in_group, TellMember, AllTold,
           MembersFail, Return, TypeOK
  <2> QED BY <2>1, <2>2, <2>3, <2>4
<1>3. pc'[c] = "begin" => ~success'[c]
  <2>1. CASE get_users_account_in_group(c)
    BY <2>1 DEF get_users_account_in_group, TypeOK
  <2>2. CASE ~get_users_account_in_group(c)
    BY <2>2 DEF Outside, do_login, Disconnect, HistoryMsgGet, get_history_msg_handle,
           get_group_history_msg_handle, SendChat, Receive, InsertChat, InsertChatFails, ReadId,
           Respond, ForwardChat, SendGroupChat, get_users_in_group, TellMember, AllTold,
           MembersFail, Return, TypeOK
  <2> QED BY <2>1, <2>2
<1>4. OnDisk' = OnDisk
  BY <1>1 DEF OnDisk
<1>5. \A m : Recs(OnDisk, m)' = Recs(OnDisk, m)
  BY <1>4 DEF Recs, Rows
<1> QED BY <1>1, <1>2, <1>3, <1>5 DEF SuccessInv, InTx

\* A message that is received is a new one, and has no rows.
LEMMA OutsideFresh ==
  ASSUME TypeOK, RequestInv, FreshInv, NEW c \in Clients, Outside(c)
  PROVE  FreshInv'
<1>1. /\ pc'[c] \notin InTx /\ UNCHANGED <<msg_info_from_group, saved>>
      /\ \A d \in Clients : d # c => pc'[d] = pc[d] /\ req'[d] = req[d]
  BY OutsideFacts
<1>2. \A m : /\ Recs(msg_info_from_group, m)' = Recs(msg_info_from_group, m)
             /\ Recs(saved[3], m)' = Recs(saved[3], m)
  BY <1>1 DEF Recs, Rows
<1>3. /\ sends' \in Nat /\ sends \in Nat /\ sends <= sends'
      /\ req'[c] = req[c] \/ req'[c].msg = sends + 1
  <2>1. sends \in Nat
    BY ChatAssumption DEF TypeOK
  <2>2. ClientNext(c)
    BY DEF Outside, ClientNext
  <2> QED BY <2>1, <2>2, ReqStep
<1>4. \A m \in Messages : m > sends' => Recs(msg_info_from_group, m)' = {}
  BY <1>2, <1>3 DEF FreshInv, Messages
<1>5. ASSUME pc'[c] \in {"accounts", "begin"} PROVE Recs(msg_info_from_group', req'[c].msg) = {}
  <2>1. CASE SendGroupChat(c)
    <3>1. /\ req' = [req EXCEPT ![c] = [group |-> TRUE, msg |-> sends + 1, sender |-> AccountOf[c],
                                        receiver |-> None]]
          /\ sends < MaxSends
      BY <2>1 DEF SendGroupChat, Receive
    <3>2. req'[c].msg = sends + 1
      BY <3>1 DEF TypeOK
    <3>3. sends + 1 \in Messages /\ sends + 1 > sends
      BY <1>3, <3>1, ChatAssumption DEF Messages
    <3> QED BY <1>1, <3>2, <3>3 DEF FreshInv
  <2>2. CASE get_users_account_in_group(c)
    <3>1. pc[c] = "accounts" /\ req' = req
      BY <2>2 DEF get_users_account_in_group
    <3> QED BY <1>1, <3>1 DEF FreshInv
  <2>3. CASE ~SendGroupChat(c) /\ ~get_users_account_in_group(c)
    BY <1>5, <2>3 DEF Outside, do_login, Disconnect, HistoryMsgGet, get_history_msg_handle,
           get_group_history_msg_handle, SendChat, Receive, InsertChat, InsertChatFails, ReadId,
           Respond, ForwardChat, get_users_in_group, TellMember, AllTold, MembersFail, Return,
           TypeOK
  <2> QED BY <2>1, <2>2, <2>3
<1> QED BY <1>1, <1>2, <1>4, <1>5 DEF FreshInv

\* All the rest is as before.
LEMMA OutsideStep ==
  ASSUME TypeOK, RequestInv, StoreInv, NEW c \in Clients, Outside(c)
  PROVE  StoreInv' /\ DiskKept
<1>1. /\ pc[c] \notin InTx /\ pc'[c] \notin InTx
      /\ UNCHANGED <<user_group, msg_info_from_group, saved>>
      /\ \A d \in Clients : d # c => pc'[d] = pc[d] /\ req'[d] = req[d]
  BY OutsideFacts
<1>2. CoreInv' /\ SavedInv'
  <2>1. CoreInv'
    BY <1>1 DEF StoreInv, CoreInv, HasCore
  <2>2. \A m : Recs(saved[3], m)' = Recs(saved[3], m)
    BY <1>1 DEF Recs, Rows
  <2>3. \A m : Recs(msg_info_from_group, m)' = Recs(msg_info_from_group, m)
    BY <1>1 DEF Recs, Rows
  <2>4. SavedInv'
    BY <1>1, <2>2, <2>3 DEF StoreInv, SavedInv, Whole
  <2> QED BY <2>1, <2>4
<1>3. TxInv'
  BY <1>1 DEF StoreInv, TxInv
<1>4. WholeInv'
  <2>1. SUFFICES ASSUME NEW m \in Messages, ~Whole(msg_info_from_group', m)
                 PROVE  \E d \in Clients : pc'[d] \in Storing /\ req'[d].msg = m
    BY DEF WholeInv
  <2>2. PICK d \in Clients : pc[d] \in Storing /\ req[d].msg = m
    BY <1>1, <2>1 DEF StoreInv, WholeInv
  <2>3. d # c
    BY <1>1, <2>2 DEF Storing, InTx
  <2> QED BY <1>1, <2>2, <2>3
<1>5. LoopInv' /\ SuccessInv' /\ FreshInv'
  BY OutsideLoop, OutsideSuccess, OutsideFresh DEF StoreInv
<1>6. DiskKept
  BY <1>1 DEF DiskKept, OnDisk, Recs, Rows
<1> QED BY <1>2, <1>3, <1>4, <1>5, <1>6 DEF StoreInv

-----------------------------------------------------------------------------
(* The steps that change a table or the transaction *)

\* A member is accepted.
LEMMA AcceptStep ==
  ASSUME TypeOK, StoreInv, NEW i \in DOMAIN user_group, AcceptMember(i)
  PROVE  StoreInv' /\ DiskKept
<1>1. /\ user_group' = [user_group EXCEPT ![i].status = 1]
      /\ UNCHANGED <<msg_info_from_group, saved, pc, req, users, message_ids, success, sends>>
  BY DEF AcceptMember
<1>2. ASSUME NEW a \in Core, HasCore(user_group)
      PROVE  \E j \in DOMAIN user_group' : user_group'[j].user = a /\ user_group'[j].status = 1
  <2>1. PICK j \in DOMAIN user_group : user_group[j].user = a /\ user_group[j].status = 1
    BY <1>2 DEF HasCore
  <2>2. user_group[i] \in Member /\ user_group \in Seq(Member)
    BY DEF TypeOK
  <2>3. /\ DOMAIN user_group' = DOMAIN user_group
        /\ user_group'[j].user = a /\ user_group'[j].status = 1
    BY <1>1, <2>1, <2>2 DEF Member
  <2> QED BY <2>1, <2>3
<1>3. CoreInv'
  BY <1>1, <1>2 DEF StoreInv, CoreInv, HasCore
<1>4. \A m : Recs(msg_info_from_group, m)' = Recs(msg_info_from_group, m)
  BY <1>1 DEF Recs, Rows
<1>5. \A m : Recs(OnDisk, m)' = Recs(OnDisk, m)
  BY <1>1 DEF OnDisk, Recs, Rows
<1>6. SavedInv' /\ TxInv' /\ WholeInv'
  <2>1. \A m : Recs(saved[3], m)' = Recs(saved[3], m)
    BY <1>1 DEF Recs, Rows
  <2>2. TxInv'
    BY <1>1 DEF StoreInv, TxInv
  <2> QED BY <1>1, <1>4, <2>1, <2>2 DEF StoreInv, SavedInv, WholeInv, Whole
<1>7. LoopInv' /\ SuccessInv' /\ FreshInv'
  <2>1. \A m : Recs(saved[3], m)' = Recs(saved[3], m)
    BY <1>1 DEF Recs, Rows
  <2>2. FreshInv' /\ LoopInv'
    BY <1>1, <1>4, <2>1 DEF StoreInv, FreshInv, LoopInv, Placed
  <2>3. SuccessInv'
    BY <1>1, <1>5 DEF StoreInv, SuccessInv
  <2> QED BY <2>2, <2>3
<1> QED BY <1>3, <1>5, <1>6, <1>7 DEF StoreInv, DiskKept

\* A message is marked: no row changes its message or receiver.
LEMMA MarkStep ==
  ASSUME TypeOK, StoreInv, NEW c \in Clients, NEW n \in seen[c], UpdateMsg(c, n)
  PROVE  StoreInv' /\ DiskKept
<1>1. UNCHANGED <<user_group, saved, pc, req, users, message_ids, success, sends>>
  BY DEF UpdateMsg
<1>2. \A m : Recs(msg_info_from_group, m)' = Recs(msg_info_from_group, m)
  <2>1. n.id \in Nat /\ AccountOf[c] \in Accounts /\ msg_info_from_group \in Seq(Chat)
    BY ChatAssumption DEF TypeOK, Notice
  <2>2. \/ msg_info_from_group' = msg_info_from_group
        \/ msg_info_from_group' = MarkRow(msg_info_from_group, n.id, AccountOf[c])
    BY DEF UpdateMsg
  <2>3. CASE msg_info_from_group' = msg_info_from_group
    BY <2>3 DEF Recs, Rows
  <2>4. CASE msg_info_from_group' = MarkRow(msg_info_from_group, n.id, AccountOf[c])
    <3> DEFINE T == MarkRow(msg_info_from_group, n.id, AccountOf[c])
    <3>1. \A m : Recs(T, m) = Recs(msg_info_from_group, m)
      BY <2>1, MarkRecs
    <3> HIDE DEF T
    <3>2. \A m : Recs(msg_info_from_group, m)' = Recs(T, m)
      BY <2>4 DEF Recs, Rows, T
    <3> QED BY <3>1, <3>2
  <2> QED BY <2>2, <2>3, <2>4
<1>3. \A m : Recs(saved[3], m)' = Recs(saved[3], m)
  BY <1>1 DEF Recs, Rows
<1>4. \A m : Recs(OnDisk, m)' = Recs(OnDisk, m)
  BY <1>1, <1>2, <1>3 DEF OnDisk
<1>5. CoreInv' /\ TxInv'
  BY <1>1 DEF StoreInv, CoreInv, HasCore, TxInv
<1>6. SavedInv' /\ WholeInv'
  BY <1>1, <1>2, <1>3 DEF StoreInv, SavedInv, WholeInv, Whole
<1>7. LoopInv' /\ SuccessInv' /\ FreshInv'
  <2>1. FreshInv' /\ LoopInv'
    BY <1>1, <1>2, <1>3 DEF StoreInv, FreshInv, LoopInv, Placed
  <2>2. SuccessInv'
    BY <1>1, <1>4 DEF StoreInv, SuccessInv
  <2> QED BY <2>1, <2>2
<1> QED BY <1>4, <1>5, <1>6, <1>7 DEF StoreInv, DiskKept

\* BEGIN TRANSACTION: over whole messages, as no other handler is in a transaction.
LEMMA BeginStep ==
  ASSUME TypeOK, RequestInv, StoreInv, NEW c \in Clients, Begin(c)
  PROVE  StoreInv' /\ DiskKept
<1>1. /\ pc[c] = "begin"
      /\ UNCHANGED <<user_group, msg_info_from_group, req, users, message_ids, success, sends>>
      /\ \A d \in Clients : d # c => pc'[d] = pc[d]
  BY DEF Begin, TypeOK
<1>2. \A m : Recs(msg_info_from_group, m)' = Recs(msg_info_from_group, m)
  BY <1>1 DEF Recs, Rows
<1>3. ~success[c] /\ message_ids[c] = <<>>
  BY <1>1 DEF StoreInv, SuccessInv, RequestInv, NoIds
<1>4. CASE saved # None
  <2>1. saved' = saved /\ pc'[c] = "respond"
    BY <1>4 DEF Begin, TypeOK
  <2>2. \A m : Recs(OnDisk, m)' = Recs(OnDisk, m)
    BY <1>1, <2>1 DEF OnDisk, Recs, Rows
  <2>3. \A m : Recs(saved[3], m)' = Recs(saved[3], m)
    BY <2>1 DEF Recs, Rows
  <2>4. CoreInv' /\ TxInv'
    BY <1>1, <2>1 DEF StoreInv, CoreInv, HasCore, TxInv, InTx
  <2>5. SavedInv'
    BY <1>1, <1>2, <2>1, <2>3 DEF StoreInv, SavedInv, Whole
  <2>6. WholeInv'
    BY <1>1, <1>2 DEF StoreInv, WholeInv, Whole, Storing
  <2>7. LoopInv'
    BY <1>1, <1>2, <2>1 DEF StoreInv, LoopInv, Placed
  <2>8. SuccessInv'
    BY <1>1, <1>3, <2>1, <2>2 DEF StoreInv, SuccessInv, InTx
  <2>9. FreshInv'
    BY <1>1, <1>2, <2>1, <2>3 DEF StoreInv, FreshInv, InTx
  <2> QED BY <2>2, <2>4, <2>5, <2>6, <2>7, <2>8, <2>9 DEF StoreInv, DiskKept
<1>5. CASE saved = None
  <2>1. saved' = tables /\ pc'[c] = "insert_member"
    BY <1>5 DEF Begin, TypeOK
  <2>2. \A d \in Clients : pc[d] \notin InTx
    BY <1>5 DEF StoreInv, TxInv
  <2>3. saved'[1] = user_group /\ saved'[3] = msg_info_from_group
    BY <2>1
  <2>4. saved' # None
    <3>1. tables \in Tables
      BY DEF TypeOK, Tables
    <3> QED BY <2>1, <3>1, ChatAssumption
  <2>5. \A m : Recs(saved[3], m)' = Recs(msg_info_from_group, m)
    BY <2>3 DEF Recs, Rows
  <2>6. \A m : Recs(OnDisk, m)' = Recs(OnDisk, m)
    BY <1>5, <2>3, <2>4 DEF OnDisk, Recs, Rows
  <2>7. \A m \in Messages : Whole(msg_info_from_group, m)
    BY <2>2 DEF StoreInv, WholeInv, Storing, InTx
  <2>8. CoreInv'
    BY <1>1, <2>3 DEF StoreInv, CoreInv, HasCore
  <2>9. SavedInv'
    BY <1>2, <2>5, <2>7 DEF SavedInv, Whole
  <2>10. TxInv'
    BY <1>1, <2>2, <2>4 DEF TxInv
  <2>11. WholeInv'
    BY <1>2, <2>7 DEF WholeInv, Whole
  <2>12. LoopInv'
    <3>1. ASSUME NEW d \in Clients, d # c
          PROVE  /\ pc'[d] = pc[d] /\ pc[d] \notin InTx /\ users'[d] = users[d]
      BY <1>1, <2>2, <3>1
    <3>2. \A k \in DOMAIN users[c] : ~Placed(c, k)'
      <4>1. \A k \in DOMAIN users[c] : k \in Nat /\ k > 0
        BY DEF TypeOK
      <4> QED BY <1>1, <1>3, <2>1, <4>1 DEF Placed
    <3>3. Len(message_ids[c]) < Len(users[c])
      <4>1. users[c] # <<>> /\ users[c] \in Seq(Accounts)
        BY <1>1 DEF StoreInv, LoopInv, TypeOK
      <4> QED BY <1>3, <4>1
    <3> QED BY <1>1, <2>1, <3>1, <3>2, <3>3 DEF StoreInv, LoopInv, InTx
  <2>13. SuccessInv'
    BY <1>1, <1>3, <2>1, <2>6 DEF StoreInv, SuccessInv, InTx
  <2>14. FreshInv'
    <3>1. Recs(msg_info_from_group, req[c].msg) = {}
      BY <1>1 DEF StoreInv, FreshInv
    <3> QED BY <1>1, <1>2, <2>1, <2>2, <2>5, <3>1 DEF StoreInv, FreshInv, InTx
  <2> QED BY <2>6, <2>8, <2>9, <2>10, <2>11, <2>12, <2>13, <2>14 DEF StoreInv, DiskKept
<1> QED BY <1>4, <1>5

\* A member's row: only of the message of the handler in the transaction, and not on disk.
LEMMA InsertMemberStep ==
  ASSUME TypeOK, RequestInv, NumberInv, StoreInv, NEW c \in Clients, InsertMember(c)
  PROVE  StoreInv' /\ DiskKept
<1> DEFINE a == users[c][Len(message_ids[c]) + 1]
           row == NewRow(c, a, IF a = req[c].sender THEN a ELSE None)
<1>1. /\ pc[c] = "insert_member" /\ pc' = [pc EXCEPT ![c] = "member_id"]
      /\ msg_info_from_group' = Append(msg_info_from_group, row)
      /\ UNCHANGED <<user_group, saved, req, users, message_ids, success, sends>>
  BY DEF InsertMember
<1>2. /\ pc'[c] = "member_id" /\ \A d \in Clients : d # c => pc'[d] = pc[d] /\ pc[d] \notin InTx
      /\ saved # None
  BY <1>1 DEF TypeOK, StoreInv, TxInv, InTx
<1>3. req[c] \in Request /\ Len(message_ids[c]) < Len(users[c])
  BY <1>1 DEF RequestInv, StoreInv, LoopInv, Grouped, InTx
<1>4. a \in Accounts /\ Len(message_ids[c]) \in Nat
  BY <1>3 DEF TypeOK
<1> HIDE DEF a
<1>5. row \in Chat /\ row.msg = req[c].msg /\ row.receiver = a
  BY <1>3, <1>4, NewRowType DEF NewRow
<1> HIDE DEF row
<1>6. ASSUME NEW m
      PROVE  /\ Recs(msg_info_from_group, m) \subseteq Recs(msg_info_from_group', m)
             /\ req[c].msg = m => a \in Recs(msg_info_from_group', m)
             /\ req[c].msg # m => Recs(msg_info_from_group', m) = Recs(msg_info_from_group, m)
  BY <1>1, <1>5, AppendRecs DEF TypeOK
<1>7. \A m : Recs(saved[3], m)' = Recs(saved[3], m)
  BY <1>1 DEF Recs, Rows
<1>8. \A m : Recs(OnDisk, m)' = Recs(OnDisk, m)
  BY <1>1, <1>2, <1>7 DEF OnDisk
<1>9. CoreInv' /\ TxInv'
  BY <1>1, <1>2 DEF StoreInv, CoreInv, HasCore, TxInv
<1>10. SavedInv'
  BY <1>1, <1>6, <1>7 DEF StoreInv, SavedInv, Whole
<1>11. WholeInv'
  <2>1. SUFFICES ASSUME NEW m \in Messages, req[c].msg # m PROVE Whole(msg_info_from_group', m)
    BY <1>1, <1>2 DEF WholeInv, Storing
  <2>2. Whole(msg_info_from_group, m)
    BY <1>2, <2>1 DEF StoreInv, WholeInv, Storing, InTx
  <2> QED BY <1>6, <2>1, <2>2 DEF Whole
<1>12. LoopInv'
  <2>1. ASSUME NEW k \in DOMAIN users[c], Placed(c, k)'
        PROVE  users[c][k] \in Recs(msg_info_from_group', req[c].msg)
    <3>1. CASE k <= Len(message_ids[c])
      <4>1. users[c][k] \in Recs(msg_info_from_group, req[c].msg)
        BY <1>1, <3>1 DEF StoreInv, LoopInv, Placed
      <4> QED BY <1>6, <4>1
    <3>2. CASE k = Len(message_ids[c]) + 1
      BY <1>6, <3>2 DEF a
    <3> QED BY <1>1, <2>1, <3>1, <3>2 DEF Placed
  <2> QED BY <1>1, <1>2, <1>3, <2>1 DEF StoreInv, LoopInv, InTx
<1>13. SuccessInv'
  BY <1>1, <1>2, <1>8 DEF StoreInv, SuccessInv, InTx
<1>14. FreshInv'
  <2>1. req[c] # None /\ sends \in Nat
    BY <1>3, ChatAssumption DEF TypeOK
  <2>2. \A m \in Messages : m > sends => m # req[c].msg
    BY <2>1 DEF NumberInv, Messages
  <2>3. ASSUME NEW d \in Clients, d # c, pc[d] \in {"accounts", "begin"}
        PROVE  req[d].msg # req[c].msg
    <3>1. req[d] # None
      BY <2>3, ChatAssumption DEF RequestInv, Grouped
    <3> QED BY <2>1, <2>3, <3>1 DEF NumberInv
  <2>4. \A m \in Messages : m > sends => Recs(msg_info_from_group', m) = {}
    BY <1>6, <2>2 DEF StoreInv, FreshInv
  <2>5. \A d \in Clients : pc'[d] \in {"accounts", "begin"} =>
          Recs(msg_info_from_group', req[d].msg) = {}
    BY <1>2, <1>6, <2>3 DEF StoreInv, FreshInv
  <2>6. \A m \in Messages :
          Recs(saved[3], m) = IF m = req[c].msg THEN {} ELSE Recs(msg_info_from_group', m)
    BY <1>1, <1>6 DEF StoreInv, FreshInv, InTx
  <2> QED BY <1>1, <1>2, <1>7, <2>4, <2>5, <2>6 DEF FreshInv
<1> QED BY <1>8, <1>9, <1>10, <1>11, <1>12, <1>13, <1>14 DEF StoreInv, DiskKept

\* Steps of the handler in the transaction that touch neither tables nor transaction.
LEMMA InsideStep ==
  ASSUME TypeOK, RequestInv, StoreInv, NEW c \in Clients,
         InsertMemberFails(c) \/ ReadMemberId(c) \/ CommitFails(c)
  PROVE  StoreInv' /\ DiskKept
<1>1. /\ pc[c] \in {"insert_member", "member_id", "commit"}
      /\ pc'[c] \in {"insert_member", "rollback", "commit", "respond"}
      /\ UNCHANGED <<user_group, msg_info_from_group, saved, req, users, success, sends>>
      /\ \A d \in Clients : d # c => pc'[d] = pc[d] /\ message_ids'[d] = message_ids[d]
  BY DEF InsertMemberFails, ReadMemberId, CommitFails, Fault, TypeOK
<1>2. \A d \in Clients : d # c => pc[d] \notin InTx
  BY <1>1 DEF StoreInv, TxInv, InTx
<1>3. saved # None /\ ~success[c]
  BY <1>1 DEF StoreInv, TxInv, SuccessInv, InTx
<1>4. \A m : /\ Recs(msg_info_from_group, m)' = Recs(msg_info_from_group, m)
             /\ Recs(saved[3], m)' = Recs(saved[3], m)
  BY <1>1 DEF Recs, Rows
<1>5. \A m : Recs(OnDisk, m)' = Recs(OnDisk, m)
  BY <1>1, <1>4 DEF OnDisk
<1>6. CoreInv'
  BY <1>1 DEF StoreInv, CoreInv, HasCore
<1>7. TxInv'
  BY <1>1, <1>2, <1>3 DEF TxInv
<1>8. SavedInv'
  BY <1>1, <1>4 DEF StoreInv, SavedInv, Whole
<1>9. SuccessInv'
  BY <1>1, <1>3, <1>5 DEF StoreInv, SuccessInv, InTx
<1>10. ASSUME ReadMemberId(c)
       PROVE  /\ pc[c] = "member_id" /\ Len(message_ids'[c]) = Len(message_ids[c]) + 1
              /\ Len(message_ids[c]) \in Nat /\ Len(users[c]) \in Nat
              /\ Len(message_ids[c]) < Len(users[c])
              /\ pc'[c] = IF Len(message_ids[c]) + 1 = Len(users[c]) THEN "commit"
                          ELSE "insert_member"
  <2>1. /\ pc[c] = "member_id" /\ message_ids[c] \in Seq(Nat) /\ last_rowid \in Nat
        /\ message_ids'[c] = Append(message_ids[c], last_rowid)
        /\ pc'[c] = IF Len(message_ids[c]) + 1 = Len(users[c]) THEN "commit" ELSE "insert_member"
    BY <1>10 DEF ReadMemberId, TypeOK
  <2>2. Len(Append(message_ids[c], last_rowid)) = Len(message_ids[c]) + 1
    BY <2>1
  <2>3. users[c] \in Seq(Accounts)
    BY DEF TypeOK
  <2>4. Len(message_ids[c]) \in Nat /\ Len(users[c]) \in Nat
    BY <2>1, <2>3
  <2>5. Len(message_ids[c]) < Len(users[c])
    BY <2>1 DEF StoreInv, LoopInv
  <2> QED BY <2>1, <2>2, <2>4, <2>5
<1>11. ASSUME ReadMemberId(c), NEW k \in DOMAIN users[c], k <= Len(message_ids[c]) + 1
       PROVE  users[c][k] \in Recs(msg_info_from_group, req[c].msg)
  <2>1. k \in Nat
    BY DEF TypeOK
  <2>2. Placed(c, k)
    BY <1>10, <1>11, <2>1 DEF Placed
  <2> QED BY <1>10, <1>11, <2>2 DEF StoreInv, LoopInv
<1>12. LoopInv'
  <2>1. ASSUME NEW d \in Clients, d # c
        PROVE  /\ pc'[d] = pc[d] /\ pc[d] \notin InTx /\ users'[d] = users[d]
    BY <1>1, <1>2, <2>1
  <2>2. CASE InsertMemberFails(c) \/ CommitFails(c)
    <3>1. pc'[c] \in {"rollback", "respond"}
      BY <2>2 DEF InsertMemberFails, CommitFails, TypeOK
    <3> QED BY <2>1, <3>1 DEF StoreInv, LoopInv, InTx
  <2>3. CASE ReadMemberId(c)
    <3>1. /\ users'[c] # <<>> /\ \A a \in Core : \E k \in DOMAIN users'[c] : users'[c][k] = a
      BY <1>1, <2>3, <1>10 DEF StoreInv, LoopInv
    <3>2. /\ pc'[c] = "insert_member" => Len(message_ids'[c]) < Len(users'[c])
          /\ pc'[c] = "commit" => Len(message_ids'[c]) = Len(users'[c])
          /\ pc'[c] \in {"insert_member", "commit"}
      BY <1>1, <2>3, <1>10
    <3>3. ASSUME NEW k \in DOMAIN users'[c], Placed(c, k)'
          PROVE  users'[c][k] \in Recs(msg_info_from_group', req'[c].msg)
      <4>1. k <= Len(message_ids[c]) + 1
        BY <2>3, <1>10, <3>2, <3>3 DEF Placed
      <4> QED BY <1>1, <1>4, <1>11, <2>3, <4>1
    <3> QED BY <2>1, <3>1, <3>2, <3>3 DEF StoreInv, LoopInv, InTx
  <2> QED BY <2>2, <2>3
<1>13. WholeInv'
  <2>1. SUFFICES ASSUME NEW m \in Messages, ~Whole(msg_info_from_group, m)
                 PROVE  pc'[c] \in Storing /\ req'[c].msg = m
    BY <1>4 DEF WholeInv, Whole
  <2>2. pc[c] \in Storing /\ req[c].msg = m
    BY <1>2, <2>1 DEF StoreInv, WholeInv, Storing, InTx
  <2>3. CASE InsertMemberFails(c) \/ CommitFails(c)
    BY <2>2, <2>3 DEF InsertMemberFails, CommitFails, TypeOK, Storing
  <2>4. CASE ReadMemberId(c)
    <3>1. CASE pc'[c] = "insert_member"
      BY <1>1, <2>2, <3>1 DEF Storing
    <3>2. CASE pc'[c] = "commit"
      <4>1. Len(message_ids[c]) + 1 = Len(users[c])
        BY <1>10, <2>4, <3>2
      <4>2. ASSUME NEW a \in Core PROVE a \in Recs(msg_info_from_group, m)
        <5>1. PICK k \in DOMAIN users[c] : users[c][k] = a
          BY <1>10, <2>4 DEF StoreInv, LoopInv
        <5>2. k <= Len(message_ids[c]) + 1
          BY <4>1 DEF TypeOK
        <5> QED BY <1>11, <2>2, <2>4, <5>1, <5>2
      <4> QED BY <2>1, <4>2 DEF Whole
    <3> QED BY <1>10, <2>4, <3>1, <3>2
  <2> QED BY <2>3, <2>4
<1>14. FreshInv'
  BY <1>1, <1>2, <1>4 DEF StoreInv, FreshInv, InTx
<1> QED BY <1>5, <1>6, <1>7, <1>8, <1>9, <1>12, <1>13, <1>14 DEF StoreInv, DiskKept

\* COMMIT: the message is whole, and it comes to the disk.
StoresOne ==
  \E m \in Messages :
    /\ Recs(OnDisk, m) = {} /\ Recs(OnDisk, m)' # {} /\ Core \subseteq Recs(OnDisk, m)'
    /\ \A n \in Messages : n # m => Recs(OnDisk, n)' = Recs(OnDisk, n)

LEMMA CommitStep ==
  ASSUME TypeOK, RequestInv, StoreInv, NEW c \in Clients, Commit(c)
  PROVE  StoreInv' /\ StoresOne
<1>1. /\ pc[c] = "commit" /\ pc'[c] = "respond" /\ saved' = None
      /\ UNCHANGED <<user_group, msg_info_from_group, req, users, message_ids, sends>>
      /\ \A d \in Clients : d # c => pc'[d] = pc[d] /\ success'[d] = success[d]
  BY DEF Commit, TypeOK
<1>2. saved # None /\ \A d \in Clients : d # c => pc[d] \notin InTx
  BY <1>1 DEF StoreInv, TxInv, InTx
<1>3. \A m : Recs(msg_info_from_group, m)' = Recs(msg_info_from_group, m)
  BY <1>1 DEF Recs, Rows
<1>4. \A m : Recs(OnDisk, m)' = Recs(msg_info_from_group, m)
  BY <1>1, <1>3 DEF OnDisk
<1>5. \A m \in Messages : Recs(OnDisk, m) \subseteq Recs(msg_info_from_group, m)
  BY <1>2 DEF OnDisk, StoreInv, SavedInv
<1>6. CoreInv' /\ SavedInv' /\ TxInv'
  BY <1>1, <1>2 DEF StoreInv, CoreInv, SavedInv, HasCore, TxInv, InTx
<1>7. WholeInv'
  BY <1>1, <1>2, <1>3 DEF StoreInv, WholeInv, Whole, Storing, InTx
<1>8. LoopInv'
  <2>1. ASSUME NEW d \in Clients, d # c
        PROVE  /\ pc'[d] = pc[d] /\ pc[d] \notin InTx /\ users'[d] = users[d]
    BY <1>1, <1>2, <2>1
  <2> QED BY <1>1, <2>1 DEF StoreInv, LoopInv, InTx
<1>9. Recs(OnDisk, req[c].msg)' # {}
  <2>1. /\ users[c] # <<>> /\ users[c] \in Seq(Accounts)
        /\ Len(message_ids[c]) = Len(users[c])
    BY <1>1 DEF StoreInv, LoopInv, TypeOK
  <2>2. 1 \in DOMAIN users[c] /\ 1 <= Len(message_ids[c])
    BY <2>1
  <2>3. users[c][1] \in Recs(msg_info_from_group, req[c].msg)
    BY <1>1, <2>2 DEF StoreInv, LoopInv, Placed
  <2> QED BY <1>1, <1>4, <2>3
<1>10. SuccessInv'
  <2>1. ASSUME NEW d \in Clients, d # c
        PROVE  /\ pc'[d] \in InTx \cup {"begin"} => ~success'[d]
               /\ pc'[d] = "respond" /\ req'[d].group /\ success'[d]
                    => Recs(OnDisk, req[d].msg)' # {}
    <3>1. pc[d] = "respond" => req[d].msg \in Messages
      BY DEF RequestInv, Request
    <3> QED BY <1>1, <1>4, <1>5, <2>1, <3>1 DEF StoreInv, SuccessInv
  <2> QED BY <1>1, <1>9, <2>1 DEF SuccessInv, InTx
<1>11. FreshInv'
  BY <1>1, <1>2, <1>3 DEF StoreInv, FreshInv, InTx
<1>12. StoresOne
  <2>1. req[c].msg \in Messages
    BY <1>1 DEF RequestInv, Request, Grouped, InTx
  <2>2. /\ Recs(OnDisk, req[c].msg) = {}
        /\ \A n \in Messages : n # req[c].msg => Recs(OnDisk, n) = Recs(msg_info_from_group, n)
    BY <1>1, <1>2, <2>1 DEF StoreInv, FreshInv, OnDisk, InTx
  <2>3. Core \subseteq Recs(msg_info_from_group, req[c].msg)
    BY <1>3, <1>7, <1>9, <1>1, <1>2, <1>4, <2>1 DEF StoreInv, WholeInv, Whole, Storing, InTx
  <2> QED BY <1>1, <1>4, <1>9, <2>1, <2>2, <2>3 DEF StoresOne
<1> QED BY <1>5, <1>6, <1>7, <1>8, <1>10, <1>11, <1>12 DEF StoreInv

\* ROLLBACK: the tables are the whole ones of BEGIN.
LEMMA RollbackStep ==
  ASSUME TypeOK, RequestInv, StoreInv, NEW c \in Clients, Rollback(c)
  PROVE  StoreInv' /\ DiskKept
<1>1. /\ pc[c] = "rollback" /\ pc'[c] = "respond" /\ saved' = None
      /\ user_group' = saved[1] /\ msg_info_from_group' = saved[3]
      /\ UNCHANGED <<req, users, message_ids, success, sends>>
      /\ \A d \in Clients : d # c => pc'[d] = pc[d]
  BY DEF Rollback, Restore, TypeOK
<1>2. saved # None /\ ~success[c] /\ \A d \in Clients : d # c => pc[d] \notin InTx
  BY <1>1 DEF StoreInv, TxInv, SuccessInv, InTx
<1>3. \A m : Recs(msg_info_from_group, m)' = Recs(saved[3], m)
  BY <1>1 DEF Recs, Rows
<1>4. \A m : Recs(OnDisk, m)' = Recs(OnDisk, m)
  BY <1>1, <1>2, <1>3 DEF OnDisk
<1>5. CoreInv' /\ SavedInv' /\ TxInv'
  BY <1>1, <1>2 DEF StoreInv, CoreInv, SavedInv, HasCore, TxInv, InTx
<1>6. WholeInv'
  BY <1>2, <1>3 DEF StoreInv, SavedInv, WholeInv, Whole
<1>7. LoopInv'
  <2>1. ASSUME NEW d \in Clients, d # c
        PROVE  /\ pc'[d] = pc[d] /\ pc[d] \notin InTx /\ users'[d] = users[d]
    BY <1>1, <1>2, <2>1
  <2> QED BY <1>1, <2>1 DEF StoreInv, LoopInv, InTx
<1>8. SuccessInv'
  BY <1>1, <1>2, <1>4 DEF StoreInv, SuccessInv, InTx
<1>9. FreshInv'
  <2>1. \A m \in Messages : Recs(msg_info_from_group, m) = {} => Recs(msg_info_from_group, m)' = {}
    BY <1>2, <1>3 DEF StoreInv, SavedInv
  <2>2. \A d \in Clients : pc[d] \in {"accounts", "begin"} => req[d].msg \in Messages
    BY DEF RequestInv, Request, Grouped
  <2> QED BY <1>1, <1>2, <2>1, <2>2 DEF StoreInv, FreshInv, InTx
<1> QED BY <1>4, <1>5, <1>6, <1>7, <1>8, <1>9 DEF StoreInv, DiskKept

\* The crash leaves what was on disk.
LEMMA CrashStep ==
  ASSUME TypeOK, RequestInv, StoreInv, NEW c \in Clients, MissingIds(c)
  PROVE  CoreInv' /\ SavedInv' /\ SuccessInv' /\ Crashed' /\ \A m : Recs(OnDisk, m)' = Recs(OnDisk, m)
<1>1. /\ pc'[c] = "crashed" /\ UNCHANGED <<req, success>> /\ saved' = None
      /\ user_group' = IF saved = None THEN user_group ELSE saved[1]
      /\ msg_info_from_group' = OnDisk
      /\ \A d \in Clients : d # c => pc'[d] = pc[d]
  BY DEF MissingIds, Restore, TypeOK, OnDisk
<1>2. OnDisk' = OnDisk
  BY <1>1 DEF OnDisk
<1>3. \A m : Recs(OnDisk, m)' = Recs(OnDisk, m)
  BY <1>2 DEF Recs, Rows
<1>4. CoreInv' /\ SavedInv'
  BY <1>1 DEF StoreInv, CoreInv, SavedInv, HasCore
<1>5. SuccessInv'
  BY <1>1, <1>3 DEF StoreInv, SuccessInv, InTx
<1> QED BY <1>1, <1>3, <1>4, <1>5 DEF Crashed

-----------------------------------------------------------------------------
(* Theorems *)

\* Initially there are no messages, and the members are those of the start.
LEMMA InitInv == Init => IInv
<1> SUFFICES ASSUME Init PROVE IInv
  OBVIOUS
<1> USE ChatAssumption
<1>1. /\ \A c \in Clients : pc[c] \in {"idle", "out"} /\ req[c] = None
      /\ \A c \in Clients : message_ids[c] = <<>>
      /\ saved = None /\ acked = {} /\ msg_info_from_group = <<>>
  BY DEF Init
<1>2. \A i \in DOMAIN MembersAtStart : MembersAtStart[i] \in Accounts
  OBVIOUS
<1>3. /\ DOMAIN user_group = DOMAIN MembersAtStart
      /\ \A i \in DOMAIN MembersAtStart :
           /\ user_group[i].user = MembersAtStart[i]
           /\ user_group[i].status = IF MembersAtStart[i] \in PendingAtStart THEN 0 ELSE 1
           /\ user_group[i] \in Member
  BY <1>2 DEF Init, Member
<1>4. user_group \in Seq(Member)
  <2>1. DOMAIN MembersAtStart = 1..Len(MembersAtStart) /\ Len(MembersAtStart) \in Nat
    OBVIOUS
  <2>2. user_group \in [DOMAIN MembersAtStart -> Member]
    BY <1>3 DEF Init
  <2> QED BY <2>1, <2>2
<1>5. user_client \in [Accounts -> Clients \cup {None}]
  <2>1. \A a \in Accounts : FirstClient(a) \in Clients \cup {None}
    BY DEF FirstClient
  <2> QED BY <2>1 DEF Init
<1>6. /\ msg_info_from_friend \in Seq(Chat) /\ msg_info_from_group \in Seq(Chat)
      /\ users \in [Clients -> Seq(Accounts)] /\ message_ids \in [Clients -> Seq(Nat)]
  BY DEF Init
<1>7. /\ last_rowid \in Nat /\ saved \in Tables \cup {None} /\ pc \in [Clients -> Pcs]
      /\ req \in [Clients -> Request \cup {None}] /\ told \in [Clients -> Nat]
      /\ success \in [Clients -> BOOLEAN] /\ seen \in [Clients -> SUBSET Notice]
      /\ fetched \in [Clients -> BOOLEAN] /\ acked \subseteq BOOLEAN \X Messages
      /\ cut \subseteq Clients
  BY DEF Init, Pcs
<1>8. /\ sends \in 0..MaxSends /\ reads \in 0..MaxReads /\ faults \in 0..MaxFaults
      /\ logins \in 0..MaxLogins
  BY DEF Init
<1>9. TypeOK
  BY <1>4, <1>5, <1>6, <1>7, <1>8 DEF TypeOK
<1>10. RequestInv /\ NumberInv
  BY <1>1 DEF RequestInv, NumberInv, Private, Grouped, InTx
<1>11. CoreInv
  BY <1>1, <1>3 DEF CoreInv, HasCore, Core
<1>12. \A m : Recs(msg_info_from_group, m) = {} /\ Recs(OnDisk, m) = {}
  BY <1>1 DEF OnDisk, Recs, Rows
<1>13. GroupAllOrNothing /\ AckedGroupStored
  BY <1>1, <1>12 DEF GroupAllOrNothing, AckedGroupStored, Receivers, Recs
<1>14. SavedInv /\ SuccessInv /\ TxInv /\ LoopInv
  BY <1>1 DEF SavedInv, SuccessInv, TxInv, LoopInv, InTx
<1>15. WholeInv /\ FreshInv
  BY <1>1, <1>12 DEF WholeInv, FreshInv, Whole, InTx
<1> QED BY <1>9, <1>10, <1>11, <1>13, <1>14, <1>15 DEF IInv, DiskInv, LiveInv

\* What is on disk is whole, in a transaction and outside of one.
LEMMA DiskWhole == SavedInv /\ TxInv /\ WholeInv => GroupAllOrNothing
<1> SUFFICES ASSUME SavedInv, TxInv, WholeInv PROVE GroupAllOrNothing
  OBVIOUS
<1>1. \A m \in Messages : Whole(OnDisk, m)
  BY DEF SavedInv, TxInv, WholeInv, OnDisk, Storing, InTx
<1>2. \A m : Receivers(m) = Recs(OnDisk, m)
  BY DEF Receivers, Recs
<1> QED BY <1>1, <1>2 DEF GroupAllOrNothing, Whole, Core

\* A step of a handler that does not crash: what is on disk is kept, or one message more
\* is there.
LEMMA StoreStep ==
  ASSUME TypeOK, RequestInv, NumberInv, StoreInv, Next, \A c \in Clients : ~MissingIds(c)
  PROVE  StoreInv' /\ (DiskKept \/ StoresOne)
<1>1. ASSUME NEW c \in Clients, ClientNext(c)
      PROVE  \/ Outside(c) \/ (\E n \in seen[c] : UpdateMsg(c, n)) \/ Begin(c) \/ InsertMember(c)
             \/ InsertMemberFails(c) \/ ReadMemberId(c) \/ CommitFails(c)
             \/ Commit(c) \/ Rollback(c)
  BY <1>1 DEF ClientNext, Outside
<1> QED BY <1>1, AcceptStep, MarkStep, OutsideStep, BeginStep, InsertMemberStep, InsideStep,
           CommitStep, RollbackStep
        DEF Next

\* The disk in every step.
LEMMA DiskStep ==
  ASSUME IInv, Next
  PROVE  DiskKept \/ StoresOne
<1>1. StoreInv
  BY DEF IInv, DiskInv, LiveInv, StoreInv, Next
<1>2. CASE \E c \in Clients : MissingIds(c)
  BY <1>1, <1>2, CrashStep DEF IInv, DiskKept
<1>3. CASE \A c \in Clients : ~MissingIds(c)
  BY <1>1, <1>3, StoreStep DEF IInv
<1> QED BY <1>2, <1>3

\* Only an answer tells a sender of success.
LEMMA AckStep == Next => UNCHANGED acked \/ \E c \in Clients : Respond(c)
<1>1. ASSUME NEW c \in Clients, ClientNext(c), ~Respond(c) PROVE UNCHANGED acked
  BY <1>1 DEF ClientNext, do_login, Disconnect, HistoryMsgGet, get_history_msg_handle,
              get_group_history_msg_handle, UpdateMsg, SendChat, SendGroupChat, Receive,
              InsertChat, InsertChatFails, ReadId, ForwardChat, get_users_account_in_group,
              Begin, InsertMember, InsertMemberFails, ReadMemberId, Commit, CommitFails,
              Rollback, get_users_in_group, TellMember, MissingIds, AllTold, MembersFail, Return
<1>2. ASSUME NEW i \in DOMAIN user_group, AcceptMember(i) PROVE UNCHANGED acked
  BY <1>2 DEF AcceptMember
<1> QED BY <1>1, <1>2 DEF Next

\* The group message of an answer of success is on disk.
LEMMA RespondStored ==
  ASSUME TypeOK, RequestInv, SuccessInv, NEW c \in Clients, Respond(c)
  PROVE  \/ \A m \in Messages : <<TRUE, m>> \in acked' => <<TRUE, m>> \in acked
         \/ /\ req[c].msg \in Messages /\ Recs(OnDisk, req[c].msg) # {}
            /\ acked' = acked \cup {<<TRUE, req[c].msg>>}
<1>1. req[c] \in Request /\ pc[c] = "respond"
  BY DEF Respond, RequestInv
<1>2. CASE success[c] /\ req[c].group
  BY <1>1, <1>2 DEF Respond, SuccessInv, Request
<1>3. CASE ~(success[c] /\ req[c].group)
  BY <1>1, <1>3 DEF Respond
<1> QED BY <1>2, <1>3

\* No step takes the message of an answer away.
LEMMA AckedStep ==
  ASSUME IInv, Next
  PROVE  AckedGroupStored'
<1>1. SUFFICES ASSUME NEW m \in Messages, <<TRUE, m>> \in acked' PROVE Recs(OnDisk, m)' # {}
  BY DEF AckedGroupStored, Receivers, Recs
<1>2. Recs(OnDisk, m) # {} => Recs(OnDisk, m)' # {}
  BY DiskStep DEF DiskKept, StoresOne
<1>3. <<TRUE, m>> \in acked => Recs(OnDisk, m) # {}
  BY DEF IInv, DiskInv, AckedGroupStored, Receivers, Recs
<1>4. ASSUME <<TRUE, m>> \notin acked PROVE Recs(OnDisk, m) # {}
  <2>1. PICK c \in Clients : Respond(c)
    BY <1>1, <1>4, AckStep
  <2>2. Recs(OnDisk, req[c].msg) # {} /\ acked' = acked \cup {<<TRUE, req[c].msg>>}
    BY <1>1, <1>4, <2>1, RespondStored DEF IInv, DiskInv
  <2>3. m = req[c].msg
    BY <1>1, <1>4, <2>2
  <2> QED BY <2>2, <2>3
<1> QED BY <1>2, <1>3, <1>4

\* Every step keeps the invariant.
LEMMA InvStep == IInv /\ [Next]_vars => IInv'
<1> SUFFICES ASSUME IInv, [Next]_vars PROVE IInv'
  OBVIOUS
<1>1. CASE UNCHANGED vars
  <2>1. OnDisk' = OnDisk
    BY <1>1 DEF vars, OnDisk
  <2>2. \A m : /\ Recs(saved[3], m)' = Recs(saved[3], m)
               /\ Recs(msg_info_from_group, m)' = Recs(msg_info_from_group, m)
               /\ Recs(OnDisk, m)' = Recs(OnDisk, m) /\ Receivers(m)' = Receivers(m)
    BY <1>1, <2>1 DEF vars, Recs, Rows, Receivers
  <2>3. TypeOK' /\ RequestInv' /\ NumberInv' /\ CoreInv'
    BY <1>1 DEF vars, IInv, TypeOK, RequestInv, NumberInv, CoreInv, HasCore
  <2>4. DiskInv'
    BY <1>1, <2>2 DEF vars, IInv, DiskInv, SavedInv, GroupAllOrNothing, SuccessInv,
           AckedGroupStored, Whole
  <2>5. LiveInv'
    BY <1>1, <2>2 DEF vars, IInv, LiveInv, Crashed, TxInv, LoopInv, WholeInv, FreshInv, Whole,
           Placed
  <2> QED BY <2>3, <2>4, <2>5 DEF IInv
<1>2. CASE Next
  <2>1. StoreInv /\ ~Crashed
    BY <1>2 DEF IInv, DiskInv, LiveInv, StoreInv, Next
  <2>2. TypeOK' /\ RequestInv' /\ NumberInv'
    BY <1>2, <2>1, TypeStep, NumberStep DEF IInv, StoreInv
  <2>3. CASE \E c \in Clients : MissingIds(c)
    <3>1. /\ CoreInv' /\ SavedInv' /\ SuccessInv' /\ Crashed'
          /\ \A m : Recs(OnDisk, m)' = Recs(OnDisk, m)
      BY <2>1, <2>3, CrashStep DEF IInv
    <3>2. GroupAllOrNothing'
      BY <3>1 DEF IInv, DiskInv, GroupAllOrNothing, Receivers, Recs
    <3>3. AckedGroupStored'
      BY <1>2, AckedStep
    <3> QED BY <2>2, <3>1, <3>2, <3>3 DEF IInv, DiskInv, LiveInv
  <2>4. CASE \A c \in Clients : ~MissingIds(c)
    <3>1. StoreInv'
      BY <1>2, <2>1, <2>4, StoreStep DEF IInv
    <3>2. GroupAllOrNothing'
      BY <3>1, DiskWhole, PTL DEF StoreInv
    <3>3. AckedGroupStored'
      BY <1>2, AckedStep
    <3> QED BY <2>2, <3>1, <3>2, <3>3 DEF IInv, DiskInv, LiveInv, StoreInv
  <2> QED BY <2>3, <2>4
<1> QED BY <1>1, <1>2

\* The inductive invariant of the chat handlers and the shared connection's transaction.
THEOREM Invariant == Spec => []IInv
BY InitInv, InvStep, PTL DEF Spec

\* Every variable keeps its type.
THEOREM TypeCorrect == Spec => []TypeOK
<1>1. IInv => TypeOK
  BY DEF IInv
<1> QED BY <1>1, Invariant, PTL

\* group_chatmsg_data_handle: a group message is on disk for all who were members from the
\* start or for none, whatever other handlers do in its transaction and whatever fails.
THEOREM AllOrNothing == Spec => []GroupAllOrNothing
<1>1. IInv => GroupAllOrNothing
  BY DEF IInv, DiskInv
<1> QED BY <1>1, Invariant, PTL

\* What is stored, as pairs of message and receiver.
Pairs(table) == {<<table[i].msg, table[i].receiver>> : i \in DOMAIN table}

LEMMA PairRecs ==
  ASSUME NEW T \in Seq(Chat)
  PROVE  /\ Pairs(T) \subseteq Messages \X Accounts
         /\ \A m, a : <<m, a>> \in Pairs(T) <=> a \in Recs(T, m)
<1>1. \A i \in DOMAIN T : T[i] \in Chat
  OBVIOUS
<1>2. Pairs(T) \subseteq Messages \X Accounts
  BY <1>1 DEF Pairs, Chat
<1>3. \A m, a : <<m, a>> \in Pairs(T) <=> \E i \in DOMAIN T : T[i].msg = m /\ T[i].receiver = a
  BY DEF Pairs
<1>4. \A m, a : a \in Recs(T, m) <=> \E i \in DOMAIN T : T[i].msg = m /\ T[i].receiver = a
  BY DEF Recs, Rows
<1> QED BY <1>2, <1>3, <1>4

\* What is on disk has the type of the table.
LEMMA DiskType == TypeOK => OnDisk \in Seq(Chat)
BY SavedType DEF TypeOK, OnDisk

Confirmed == {m \in Messages : <<TRUE, m>> \in acked}

LEMMA MailConfirmed ==
  ASSUME NEW m \in Messages, \E pair \in Pairs(OnDisk) : pair[1] = m,
         Confirmed' = Confirmed \cup {m}, UNCHANGED Pairs(OnDisk)
  PROVE  Mail!MailNext
<1>1. Mail!Confirm(m)
  BY DEF Mail!Confirm, Pairs, Confirmed
<1> QED BY <1>1 DEF Mail!MailNext, Mail!Confirm, Mail!Store

LEMMA MailStored ==
  ASSUME NEW m \in Messages, NEW R \in SUBSET Accounts, R # {}, Core \subseteq R,
         \A pair \in Pairs(OnDisk) : pair[1] # m,
         Pairs(OnDisk)' = Pairs(OnDisk) \cup ({m} \X R), UNCHANGED Confirmed
  PROVE  Mail!MailNext
<1>1. Mail!Store(m, R)
  BY DEF Mail!Store, Pairs, Confirmed
<1>2. \E receivers \in SUBSET Accounts : Mail!Store(m, receivers)
  BY <1>1
<1>3. \E n \in Messages : (\E receivers \in SUBSET Accounts : Mail!Store(n, receivers)) \/ Mail!Confirm(n)
  BY <1>2
<1> QED BY <1>3 DEF Mail!MailNext

\* A step stores one message for all, or confirms one that is stored, or does neither.
LEMMA MailStep ==
  ASSUME IInv, TypeOK', Next
  PROVE  [Mail!MailNext]_<<Pairs(OnDisk), Confirmed>>
<1>1. OnDisk \in Seq(Chat) /\ OnDisk' \in Seq(Chat)
  <2>1. OnDisk \in Seq(Chat)
    BY DiskType DEF IInv
  <2>2. OnDisk' \in Seq(Chat)
    <3>1. msg_info_from_group' \in Seq(Chat) /\ saved' \in Tables \cup {None}
      BY DEF TypeOK
    <3>2. CASE saved' = None
      BY <3>1, <3>2 DEF OnDisk
    <3>3. CASE saved' # None
      <4>1. saved'[3] \in Seq(Chat)
        BY <3>1, <3>3 DEF Tables
      <4> QED BY <3>3, <4>1 DEF OnDisk
    <3> QED BY <3>2, <3>3
  <2> QED BY <2>1, <2>2
<1>2. /\ Pairs(OnDisk) \subseteq Messages \X Accounts /\ Pairs(OnDisk') \subseteq Messages \X Accounts
      /\ \A m, a : <<m, a>> \in Pairs(OnDisk) <=> a \in Recs(OnDisk, m)
      /\ \A m, a : <<m, a>> \in Pairs(OnDisk') <=> a \in Recs(OnDisk', m)
  BY <1>1, PairRecs
<1>3. CASE DiskKept
  <2>1. Pairs(OnDisk') = Pairs(OnDisk)
    BY <1>2, <1>3 DEF DiskKept
  <2>2. CASE Confirmed' = Confirmed
    BY <2>1, <2>2
  <2>3. CASE Confirmed' # Confirmed
    <3>1. PICK c \in Clients : Respond(c)
      BY <2>3, AckStep DEF Confirmed
    <3>2. /\ req[c].msg \in Messages /\ Recs(OnDisk, req[c].msg) # {}
          /\ acked' = acked \cup {<<TRUE, req[c].msg>>}
      <4>1. acked \subseteq acked'
        BY <3>1 DEF Respond
      <4> QED BY <2>3, <3>1, <4>1, RespondStored DEF IInv, DiskInv, Confirmed
    <3>3. Confirmed' = Confirmed \cup {req[c].msg}
      BY <3>2 DEF Confirmed
    <3>4. \E pair \in Pairs(OnDisk) : pair[1] = req[c].msg
      <4>1. PICK a : a \in Recs(OnDisk, req[c].msg)
        BY <3>2
      <4>2. <<req[c].msg, a>> \in Pairs(OnDisk)
        BY <1>2, <4>1
      <4> QED BY <4>2
    <3>5. UNCHANGED Pairs(OnDisk)
      BY <2>1 DEF Pairs
    <3>6. Mail!MailNext
      BY <3>2, <3>3, <3>4, <3>5, MailConfirmed
    <3> QED BY <3>6
  <2> QED BY <2>2, <2>3
<1>4. CASE StoresOne
  <2>1. PICK m \in Messages :
          /\ Recs(OnDisk, m) = {} /\ Recs(OnDisk, m)' # {} /\ Core \subseteq Recs(OnDisk, m)'
          /\ \A n \in Messages : n # m => Recs(OnDisk, n)' = Recs(OnDisk, n)
    BY <1>4 DEF StoresOne
  <2> DEFINE R == Recs(OnDisk', m)
  <2>2. R \in SUBSET Accounts
    <3>1. \A a \in R : <<m, a>> \in Messages \X Accounts
      BY <1>2
    <3> QED BY <3>1
  <2>3. Pairs(OnDisk') = Pairs(OnDisk) \cup ({m} \X R)
    BY <1>2, <2>1, <2>2
  <2>4. \A pair \in Pairs(OnDisk) : pair[1] # m
    BY <1>2, <2>1
  <2>5. UNCHANGED Confirmed
    <3>1. ASSUME NEW c \in Clients, Respond(c) PROVE OnDisk' = OnDisk
      BY <3>1 DEF Respond, OnDisk
    <3>2. UNCHANGED acked
      BY <2>1, <3>1, AckStep DEF Recs, Rows
    <3> QED BY <3>2 DEF Confirmed
  <2>6. Pairs(OnDisk)' = Pairs(OnDisk) \cup ({m} \X R)
    BY <2>3 DEF Pairs
  <2>7. R # {} /\ Core \subseteq R
    BY <2>1 DEF Recs, Rows
  <2> HIDE DEF R
  <2>8. Mail!MailNext
    BY <2>1, <2>2, <2>4, <2>5, <2>6, <2>7, MailStored
  <2> QED BY <2>8
<1> QED BY <1>3, <1>4, DiskStep

\* Chat implements GroupMail: group messages come to the disk one at a time, each for all
\* the core members in one step, and only what is there is confirmed.
THEOREM Implements == Spec => StoredAtOnce
<1>1. Init => Mail!MailInit
  BY DEF Init, OnDisk, Mail!MailInit
<1>2. IInv /\ TypeOK' /\ [Next]_vars => [Mail!MailNext]_Mail!mailVars
  <2>1. SUFFICES ASSUME IInv, TypeOK', [Next]_vars PROVE [Mail!MailNext]_<<Pairs(OnDisk), Confirmed>>
    BY DEF Mail!mailVars, Pairs, Confirmed
  <2>2. CASE UNCHANGED vars
    BY <2>2 DEF vars, Pairs, OnDisk, Confirmed
  <2> QED BY <2>1, <2>2, MailStep
<1>3. IInv => TypeOK
  BY DEF IInv
<1> QED BY <1>1, <1>2, <1>3, Invariant, PTL DEF Spec, StoredAtOnce, Mail!MailSpec

\* A sender that was told of success has its group message on disk, now and ever after.
THEOREM AckedStored == Spec => []AckedGroupStored
<1>1. IInv => AckedGroupStored
  BY DEF IInv, DiskInv
<1> QED BY <1>1, Invariant, PTL
=============================================================================
