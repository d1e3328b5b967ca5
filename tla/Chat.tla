--------------------------------- MODULE Chat ---------------------------------
(***************************************************************************)
(* Chat: the handlers of SEND_CHAT_MSG, SEND_GROUP_CHAT_MSG,               *)
(* HISTORY_MSG_GET and the two updates of the read status (business.cpp)   *)
(* over msg_info_from_friend and msg_info_from_group (data_handler.cpp).   *)
(*                                                                         *)
(* As in Friends, a connection runs one handler at a time, several         *)
(* connections may be logged in to one account, each SQL statement is      *)
(* atomic, handlers interleave between statements and sends, and a message *)
(* to a client is one send that may fail or be cut short.  All handlers    *)
(* share one sqlite connection: a transaction that one of them opens takes *)
(* in the statements of all, a second BEGIN fails, and last_insert_rowid   *)
(* is the last insert of any of them.  A statement may fail, and then the  *)
(* code goes on as it is written.  There is one group.  A behaviour is one *)
(* life of the process: nothing follows its crash, which leaves what was   *)
(* committed.                                                              *)
(***************************************************************************)
EXTENDS Integers, Sequences, FiniteSets, Functions

CONSTANTS
  Clients,          \* connections
  Accounts,         \* registered accounts
  AccountOf,        \* the account each connection logs in to
  OnlineAtStart,    \* connections that are logged in initially
  MembersAtStart,   \* accounts of the group's rows, in table order
  PendingAtStart,   \* the accounts among them that still wait for an answer
  None,
  MaxSends,         \* bound: messages sent
  MaxReads,         \* bound: messages marked as read
  MaxFaults,        \* bound: statements and sends that fail
  MaxLogins         \* bound: logins, and closes before the last of them

Messages == 1..MaxSends
Member == [user : Accounts, status : {0, 1}]
\* read is None while read_status is 0, then (a history) the account that set it.
Chat == [msg : Messages, sender : Accounts, receiver : Accounts, read : Accounts \cup {None}]
Request == [group : BOOLEAN, msg : Messages, sender : Accounts, receiver : Accounts \cup {None}]
Tables == Seq(Member) \X Seq(Chat) \X Seq(Chat)

ASSUME ChatAssumption ==
  /\ AccountOf \in [Clients -> Accounts]
  /\ OnlineAtStart \subseteq Clients
  /\ MembersAtStart \in Seq(Accounts) /\ PendingAtStart \subseteq Accounts
  /\ None \notin Clients \cup Accounts /\ None \notin Request /\ None \notin Tables
  /\ MaxSends \in Nat /\ MaxReads \in Nat /\ MaxFaults \in Nat /\ MaxLogins \in Nat

VARIABLES
  user_group,       \* the rows of the group
  msg_info_from_friend, msg_info_from_group,    \* the rows; chat_msg_id is the index
  saved,            \* the tables to roll back to, or None outside a transaction
  last_rowid,       \* sqlite3_last_insert_rowid of the shared connection
  user_client,      \* user_client[a]: the latest connection a logged in on, or None
  pc, req,          \* pc[c]: where c's handler is; req[c]: the message it handles
  users,            \* users[c]: the accounts the handler's last member query returned
  message_ids,      \* message_ids[c]: the ids the handler read back, in order
  told,             \* told[c]: i of the forwarding loop, members passed so far
  success,          \* success[c]: the success_flag of the response
  seen, fetched,    \* messages c was sent, with their ids; whether it has had its history
  acked,            \* messages answered with success, group or not
  cut,              \* connections that did not get all that was meant for them
  sends, reads, faults, logins

tables     == <<user_group, msg_info_from_friend, msg_info_from_group>>
dbVars     == <<tables, saved, last_rowid>>
localVars  == <<users, message_ids, told, success>>
clientVars == <<seen, fetched, acked, cut>>
bounds     == <<sends, reads, faults, logins>>
vars == <<dbVars, user_client, pc, req, localVars, clientVars, bounds>>

Notice == [group : BOOLEAN, id : Nat, msg : Messages, sender : Accounts]
Pcs == {"out", "idle", "history", "group_history", "insert", "id", "find",
        "accounts", "begin", "insert_member", "member_id", "commit", "rollback",
        "respond", "users", "tell_members", "crashed"}

FirstClient(a) == IF \E c \in OnlineAtStart : AccountOf[c] = a
                  THEN CHOOSE c \in OnlineAtStart : AccountOf[c] = a ELSE None

Init ==
  /\ user_group = [i \in DOMAIN MembersAtStart |->
       [user |-> MembersAtStart[i],
        status |-> IF MembersAtStart[i] \in PendingAtStart THEN 0 ELSE 1]]
  /\ msg_info_from_friend = <<>> /\ msg_info_from_group = <<>>
  /\ saved = None /\ last_rowid = 0
  /\ user_client = [a \in Accounts |-> FirstClient(a)]
  /\ pc = [c \in Clients |-> IF c \in OnlineAtStart THEN "idle" ELSE "out"]
  /\ req = [c \in Clients |-> None]
  /\ users = [c \in Clients |-> <<>>] /\ message_ids = [c \in Clients |-> <<>>]
  /\ told = [c \in Clients |-> 0] /\ success = [c \in Clients |-> FALSE]
  /\ seen = [c \in Clients |-> {}] /\ fetched = [c \in Clients |-> c \in OnlineAtStart]
  /\ acked = {} /\ cut = {} /\ sends = 0 /\ reads = 0 /\ faults = 0 /\ logins = 0

Goto(c, label) == pc' = [pc EXCEPT ![c] = label]

\* The handler is back, and its locals are gone.
Return(c) ==
  /\ Goto(c, "idle")
  /\ users' = [users EXCEPT ![c] = <<>>] /\ message_ids' = [message_ids EXCEPT ![c] = <<>>]
  /\ told' = [told EXCEPT ![c] = 0] /\ success' = [success EXCEPT ![c] = FALSE]

\* where group_account = g and status = 1, in table order: the one list of them.
MemberIds == {i \in DOMAIN user_group : user_group[i].status = 1}
InOrder(ids) == {f \in Bijection(1..Cardinality(ids), ids) :
                   \A k, l \in DOMAIN f : k < l => f[k] < f[l]}
MemberLists == {[k \in DOMAIN f |-> user_group[f[k]].user] : f \in InOrder(MemberIds)}

\* The members' rows are updated by handle_acceptgroup_message, on any connection.
AcceptMember(i) ==
  /\ user_group[i].status = 0
  /\ user_group' = [user_group EXCEPT ![i].status = 1]
  /\ UNCHANGED <<msg_info_from_friend, msg_info_from_group, saved, last_rowid, user_client,
                 pc, req, localVars, clientVars, bounds>>

-----------------------------------------------------------------------------
(* Login, disconnect and handle_HistoryMsgGet_message *)

do_login(c) ==
  /\ pc[c] = "out" /\ logins < MaxLogins
  /\ logins' = logins + 1
  /\ user_client' = [user_client EXCEPT ![AccountOf[c]] = c]
  /\ Goto(c, "idle")
  /\ UNCHANGED <<dbVars, req, localVars, clientVars, sends, reads, faults>>

\* MaxLogins bounds this, too: no client leaves once none can come back.
Disconnect(c) ==
  /\ pc[c] = "idle" /\ logins < MaxLogins
  /\ user_client' = [a \in Accounts |-> IF user_client[a] = c THEN None ELSE user_client[a]]
  /\ Goto(c, "out")
  /\ seen' = [seen EXCEPT ![c] = {}]
  /\ fetched' = [fetched EXCEPT ![c] = FALSE]
  /\ cut' = cut \ {c}
  /\ UNCHANGED <<dbVars, req, localVars, acked, bounds>>

HistoryMsgGet(c) ==
  /\ pc[c] = "idle" /\ ~fetched[c]
  /\ Goto(c, "history")
  /\ UNCHANGED <<dbVars, user_client, req, localVars, clientVars, bounds>>

\* A statement or a send fails.
Fault ==
  /\ faults < MaxFaults
  /\ faults' = faults + 1
  /\ UNCHANGED <<sends, reads, logins>>

\* What the client is sent: the rows with their chat_msg_id, one send for each.  Some may
\* fail; all of them, when the SELECT does.
See(c, table, group, ids) ==
  \E sent \in SUBSET ids :
    /\ seen' = [seen EXCEPT ![c] = @ \cup
         {[group |-> group, id |-> i, msg |-> table[i].msg, sender |-> table[i].sender] : i \in sent}]
    /\ \/ sent = ids /\ UNCHANGED <<cut, bounds>>
       \/ sent # ids /\ cut' = cut \cup {c} /\ Fault

\* The messages the account sent or received, each sent to the client.
get_history_msg_handle(c) ==
  /\ pc[c] = "history"
  /\ See(c, msg_info_from_friend, FALSE,
         {i \in DOMAIN msg_info_from_friend :
            AccountOf[c] \in {msg_info_from_friend[i].sender, msg_info_from_friend[i].receiver}})
  /\ Goto(c, "group_history")
  /\ UNCHANGED <<dbVars, user_client, req, localVars, fetched, acked>>

\* Variant: the group messages the account sent.
get_sent_group_history(c) ==
  /\ pc[c] = "group_history"
  /\ See(c, msg_info_from_group, TRUE,
         {i \in DOMAIN msg_info_from_group : msg_info_from_group[i].sender = AccountOf[c]})
  /\ fetched' = [fetched EXCEPT ![c] = TRUE]
  /\ Goto(c, "idle")
  /\ UNCHANGED <<dbVars, user_client, req, localVars, acked>>

get_group_history_msg_handle(c) ==
  /\ pc[c] = "group_history"
  /\ See(c, msg_info_from_group, TRUE,
         {i \in DOMAIN msg_info_from_group : msg_info_from_group[i].receiver = AccountOf[c]})
  /\ fetched' = [fetched EXCEPT ![c] = TRUE]
  /\ Goto(c, "idle")
  /\ UNCHANGED <<dbVars, user_client, req, localVars, acked>>

-----------------------------------------------------------------------------
(* handle_updateMsg_message and handle_update_groupMsg_message *)

MarkRow(table, id, a) == IF id \in DOMAIN table THEN [table EXCEPT ![id].read = a] ELSE table

\* The client marks a message it was sent, by the id that came with it: one UPDATE.  A list
\* of ids is one UPDATE after the other.
UpdateMsg(c, n) ==
  /\ pc[c] = "idle" /\ reads < MaxReads
  /\ n.sender # AccountOf[c]
  /\ reads' = reads + 1
  /\ msg_info_from_friend' = IF n.group THEN msg_info_from_friend
                             ELSE MarkRow(msg_info_from_friend, n.id, AccountOf[c])
  /\ msg_info_from_group' = IF n.group THEN MarkRow(msg_info_from_group, n.id, AccountOf[c])
                            ELSE msg_info_from_group
  /\ UNCHANGED <<user_group, saved, last_rowid, user_client, pc, req, localVars, clientVars,
                 sends, faults, logins>>

-----------------------------------------------------------------------------
(* handle_chat_message *)

Receive(c, request, label) ==
  /\ pc[c] = "idle" /\ sends < MaxSends
  /\ sends' = sends + 1
  /\ req' = [req EXCEPT ![c] = request]
  /\ Goto(c, label)
  /\ UNCHANGED <<dbVars, user_client, localVars, clientVars, reads, faults, logins>>

SendChat(c, r) ==
  Receive(c, [group |-> FALSE, msg |-> sends + 1, sender |-> AccountOf[c], receiver |-> r],
          "insert")

\* A new row of c's message.
NewRow(c, r, read) ==
  [msg |-> req[c].msg, sender |-> req[c].sender, receiver |-> r, read |-> read]

\* Variant: the row has no receiver.
InsertChatNoReceiver(c) ==
  /\ pc[c] = "insert"
  /\ msg_info_from_friend' = Append(msg_info_from_friend, NewRow(c, None, None))
  /\ last_rowid' = Len(msg_info_from_friend')
  /\ success' = [success EXCEPT ![c] = TRUE]
  /\ Goto(c, "id")
  /\ UNCHANGED <<user_group, msg_info_from_group, saved, user_client, req, users,
                 message_ids, told, clientVars, bounds>>

InsertChat(c) ==
  /\ pc[c] = "insert"
  /\ msg_info_from_friend' = Append(msg_info_from_friend, NewRow(c, req[c].receiver, None))
  /\ last_rowid' = Len(msg_info_from_friend')
  /\ success' = [success EXCEPT ![c] = TRUE]
  /\ Goto(c, "id")
  /\ UNCHANGED <<user_group, msg_info_from_group, saved, user_client, req, users,
                 message_ids, told, clientVars, bounds>>

\* A failed prepare is -1, but a failed step is "false", which is 0, and that is success.
\* The message keeps the id its sender put there, here 0.
InsertChatFails(c) ==
  /\ pc[c] = "insert"
  /\ Fault
  /\ \E answer \in BOOLEAN : success' = [success EXCEPT ![c] = answer]
  /\ message_ids' = [message_ids EXCEPT ![c] = <<0>>]
  /\ Goto(c, "respond")
  /\ UNCHANGED <<dbVars, user_client, req, users, told, clientVars>>

ReadId(c) ==
  /\ pc[c] = "id"
  /\ message_ids' = [message_ids EXCEPT ![c] = Append(@, last_rowid)]
  /\ Goto(c, "respond")
  /\ UNCHANGED <<dbVars, user_client, req, users, told, success, clientVars, bounds>>

\* The response of both handlers; the message is forwarded whatever it says.
Respond(c) ==
  /\ pc[c] = "respond"
  /\ acked' = IF success[c] THEN acked \cup {<<req[c].group, req[c].msg>>} ELSE acked
  /\ Goto(c, IF req[c].group THEN "users" ELSE "find")
  /\ UNCHANGED <<dbVars, user_client, req, localVars, seen, fetched, cut, bounds>>

\* user_client.find and one send, which may fail: nothing when the receiver is not logged
\* in.  A send that was cut short spoils those that follow.
Forward(c, a, id) ==
  LET d == user_client[a] IN
  \/ d = None /\ UNCHANGED <<seen, cut, bounds>>
  \/ /\ d # None /\ UNCHANGED <<cut, bounds>>
     /\ seen' = [seen EXCEPT ![d] = @ \cup
          {[group |-> req[c].group, id |-> id, msg |-> req[c].msg, sender |-> req[c].sender]}]
  \/ /\ d # None /\ cut' = cut \cup {d} /\ UNCHANGED seen
     /\ IF d \in cut THEN UNCHANGED bounds ELSE Fault

ForwardChat(c) ==
  /\ pc[c] = "find"
  /\ Forward(c, req[c].receiver, Head(message_ids[c]))
  /\ Return(c)
  /\ UNCHANGED <<dbVars, user_client, req, fetched, acked>>

-----------------------------------------------------------------------------
(* handle_group_chat_message *)

\* The handler does not ask whether the sender is a member.
SendGroupChat(c) ==
  Receive(c, [group |-> TRUE, msg |-> sends + 1, sender |-> AccountOf[c], receiver |-> None],
          "accounts")

get_users_account_in_group(c) ==
  /\ pc[c] = "accounts"
  /\ \E list \in MemberLists : users' = [users EXCEPT ![c] = list]
  /\ success' = [success EXCEPT ![c] = FALSE]
  /\ Goto(c, IF MemberIds = {} THEN "respond" ELSE "begin")
  /\ UNCHANGED <<dbVars, user_client, req, message_ids, told, clientVars, bounds>>

\* Variant: the failure is returned as 0, which the caller takes for success.
BeginReturnsFalse(c) ==
  /\ pc[c] = "begin"
  /\ saved' = IF saved = None THEN tables ELSE saved
  /\ success' = [success EXCEPT ![c] = saved # None]
  /\ Goto(c, IF saved = None THEN "insert_member" ELSE "respond")
  /\ UNCHANGED <<tables, last_rowid, user_client, req, users, message_ids, told, clientVars,
                 bounds>>

\* Variant: the result of BEGIN is not looked at.
BeginUnchecked(c) ==
  /\ pc[c] = "begin"
  /\ saved' = IF saved = None THEN tables ELSE saved
  /\ Goto(c, "insert_member")
  /\ UNCHANGED <<tables, last_rowid, user_client, req, localVars, clientVars, bounds>>

\* BEGIN TRANSACTION fails while any handler has one open.
Begin(c) ==
  /\ pc[c] = "begin"
  /\ saved' = IF saved = None THEN tables ELSE saved
  /\ Goto(c, IF saved = None THEN "insert_member" ELSE "respond")
  /\ UNCHANGED <<tables, last_rowid, user_client, req, localVars, clientVars, bounds>>

\* The sender's own row is read from the start.
InsertMember(c) ==
  LET a == users[c][Len(message_ids[c]) + 1] IN
  /\ pc[c] = "insert_member"
  /\ msg_info_from_group' = Append(msg_info_from_group,
       NewRow(c, a, IF a = req[c].sender THEN a ELSE None))
  /\ last_rowid' = Len(msg_info_from_group')
  /\ Goto(c, "member_id")
  /\ UNCHANGED <<user_group, msg_info_from_friend, saved, user_client, req, localVars,
                 clientVars, bounds>>

\* Variant: the loop is left, and what was inserted is committed.
InsertMemberBreaks(c) ==
  /\ pc[c] = "insert_member"
  /\ Fault
  /\ Goto(c, "commit")
  /\ UNCHANGED <<dbVars, user_client, req, localVars, clientVars>>

\* Also a failed prepare, before the first row.
InsertMemberFails(c) ==
  /\ pc[c] = "insert_member"
  /\ Fault
  /\ Goto(c, "rollback")
  /\ UNCHANGED <<dbVars, user_client, req, localVars, clientVars>>

ReadMemberId(c) ==
  /\ pc[c] = "member_id"
  /\ message_ids' = [message_ids EXCEPT ![c] = Append(@, last_rowid)]
  /\ Goto(c, IF Len(message_ids[c]) + 1 = Len(users[c]) THEN "commit" ELSE "insert_member")
  /\ UNCHANGED <<dbVars, user_client, req, users, told, success, clientVars, bounds>>

Commit(c) ==
  /\ pc[c] = "commit"
  /\ saved' = None
  /\ success' = [success EXCEPT ![c] = TRUE]
  /\ Goto(c, "respond")
  /\ UNCHANGED <<tables, last_rowid, user_client, req, users, message_ids, told, clientVars,
                 bounds>>

\* The transaction stays open, and nobody closes it.
CommitFails(c) ==
  /\ pc[c] = "commit"
  /\ Fault
  /\ Goto(c, "respond")
  /\ UNCHANGED <<dbVars, user_client, req, localVars, clientVars>>

\* The tables as they were at BEGIN: what other handlers did since is undone, too.
Restore ==
  /\ saved' = None
  /\ user_group' = saved[1]
  /\ msg_info_from_friend' = saved[2]
  /\ msg_info_from_group' = saved[3]

\* message_ids keeps the ids of the rows that are gone.
Rollback(c) ==
  /\ pc[c] = "rollback"
  /\ Restore
  /\ Goto(c, "respond")
  /\ UNCHANGED <<last_rowid, user_client, req, localVars, clientVars, bounds>>

\* A second query: who has become a member since is in the list, too.
get_users_in_group(c) ==
  /\ pc[c] = "users"
  /\ \E list \in MemberLists : users' = [users EXCEPT ![c] = list]
  /\ Goto(c, "tell_members")
  /\ UNCHANGED <<dbVars, user_client, req, message_ids, told, success, clientVars, bounds>>

Left(c) == told[c] < Len(users[c])
NextMember(c) == users[c][told[c] + 1]
ToForward(c) == user_client[NextMember(c)] # None /\ NextMember(c) # req[c].sender

\* message_ids[i] for the i-th member of the second list.  Past the end of the vector
\* anything may be read; an empty vector has no buffer to read from (MissingIds).
IdsRead(c) == IF told[c] < Len(message_ids[c]) THEN {message_ids[c][told[c] + 1]}
              ELSE 0..Len(msg_info_from_group)

TellMember(c) ==
  /\ pc[c] = "tell_members" /\ Left(c)
  /\ IF ToForward(c)
     THEN message_ids[c] # <<>> /\ \E id \in IdsRead(c) : Forward(c, NextMember(c), id)
     ELSE UNCHANGED <<seen, cut, bounds>>
  /\ told' = [told EXCEPT ![c] = @ + 1]
  /\ UNCHANGED <<dbVars, user_client, pc, req, users, message_ids, success, fetched, acked>>

\* A read from a null pointer ends the process; what was not committed is lost.
MissingIds(c) ==
  /\ pc[c] = "tell_members" /\ Left(c)
  /\ ToForward(c) /\ message_ids[c] = <<>>
  /\ Goto(c, "crashed")
  /\ IF saved = None THEN UNCHANGED <<tables, saved>> ELSE Restore
  /\ UNCHANGED <<last_rowid, user_client, req, localVars, clientVars, bounds>>

AllTold(c) ==
  /\ pc[c] = "tell_members" /\ ~Left(c)
  /\ Return(c)
  /\ UNCHANGED <<dbVars, user_client, req, clientVars, bounds>>

\* The query of the members fails: nothing is stored, or nobody is told.
MembersFail(c) ==
  /\ Fault
  /\ \/ /\ pc[c] = "accounts" /\ Goto(c, "respond")
        /\ success' = [success EXCEPT ![c] = FALSE]
        /\ UNCHANGED <<users, message_ids, told, cut>>
     \/ pc[c] = "users" /\ Return(c) /\ cut' = cut \cup {d \in Clients : pc[d] # "out"}
  /\ UNCHANGED <<dbVars, user_client, req, seen, fetched, acked>>

-----------------------------------------------------------------------------
ClientNext(c) ==
  \/ do_login(c) \/ Disconnect(c)
  \/ HistoryMsgGet(c) \/ get_history_msg_handle(c) \/ get_group_history_msg_handle(c)
  \/ (\E n \in seen[c] : UpdateMsg(c, n))
  \/ (\E r \in Accounts : SendChat(c, r))
  \/ InsertChat(c) \/ InsertChatFails(c) \/ ReadId(c) \/ Respond(c) \/ ForwardChat(c)
  \/ SendGroupChat(c) \/ get_users_account_in_group(c) \/ Begin(c)
  \/ InsertMember(c) \/ InsertMemberFails(c) \/ ReadMemberId(c)
  \/ Commit(c) \/ CommitFails(c) \/ Rollback(c)
  \/ get_users_in_group(c) \/ TellMember(c) \/ MissingIds(c) \/ AllTold(c)
  \/ MembersFail(c)

Crashed == \E c \in Clients : pc[c] = "crashed"

Next == /\ ~Crashed
        /\ \/ \E i \in DOMAIN user_group : AcceptMember(i)
           \/ \E c \in Clients : ClientNext(c)
Spec == Init /\ [][Next]_vars

-----------------------------------------------------------------------------
(* Properties *)

\* The values that every variable keeps; a transaction saves the three tables.
TypeOK ==
  /\ user_group \in Seq(Member)
  /\ msg_info_from_friend \in Seq(Chat) /\ msg_info_from_group \in Seq(Chat)
  /\ saved \in Tables \cup {None}
  /\ last_rowid \in Nat
  /\ user_client \in [Accounts -> Clients \cup {None}]
  /\ pc \in [Clients -> Pcs]
  /\ req \in [Clients -> Request \cup {None}]
  /\ users \in [Clients -> Seq(Accounts)] /\ message_ids \in [Clients -> Seq(Nat)]
  /\ told \in [Clients -> Nat] /\ success \in [Clients -> BOOLEAN]
  /\ seen \in [Clients -> SUBSET Notice] /\ fetched \in [Clients -> BOOLEAN]
  /\ acked \subseteq BOOLEAN \X Messages /\ cut \subseteq Clients
  /\ sends \in 0..MaxSends /\ reads \in 0..MaxReads /\ faults \in 0..MaxFaults
  /\ logins \in 0..MaxLogins

\* The accounts that are members throughout.
Core == {MembersAtStart[i] :
           i \in {j \in DOMAIN MembersAtStart : MembersAtStart[j] \notin PendingAtStart}}

\* What a crash would leave of msg_info_from_group.
OnDisk == IF saved = None THEN msg_info_from_group ELSE saved[3]
Rows(table, m) == {i \in DOMAIN table : table[i].msg = m}
Receivers(m) == {OnDisk[i].receiver : i \in Rows(OnDisk, m)}

\* group_chatmsg_data_handle inserts one row for each member in a transaction that
\* the statements of every other handler fall into.  Whatever interleaves, whichever
\* INSERT or COMMIT fails, and if the process dies, a message is stored for all who were
\* members from the start or for none.
GroupAllOrNothing ==
  \A m \in Messages : Receivers(m) = {} \/ Core \subseteq Receivers(m)

\* A sender that is told of success has a message on disk, not one that another
\* handler's transaction still holds.
AckedGroupStored ==
  \A m \in Messages : <<TRUE, m>> \in acked => Receivers(m) # {}

Mail == INSTANCE GroupMail
          WITH mail <- {<<OnDisk[i].msg, OnDisk[i].receiver>> : i \in DOMAIN OnDisk},
               confirmed <- {m \in Messages : <<TRUE, m>> \in acked}

\* What is on disk goes from nobody to all in one step of one handler, for one message,
\* and stays: rows in the open transaction, a ROLLBACK, a COMMIT that fails, the marks of
\* readers and a crash leave it alone.
StoredAtOnce == Mail!MailSpec

\* No handler is at work: every notice is out.
Quiet == \A c \in Clients : pc[c] \in {"idle", "out"}

Stored == {msg_info_from_friend[i] : i \in DOMAIN msg_info_from_friend}
            \cup {msg_info_from_group[i] : i \in DOMAIN msg_info_from_group}

\* A rollback may have taken back what made a a member.
MaybeUndone(a) == faults > 0 /\ a \in PendingAtStart

\* The connection that messages to its account go to, with its history, and nothing sent
\* to it was lost.
Reached(c) == pc[c] = "idle" /\ user_client[AccountOf[c]] = c /\ fetched[c] /\ c \notin cut

\* A login that races a message misses nothing, whichever handler rolls back: a client that
\* got all that was sent to it has seen every message to it that is stored, by the history
\* or by the notice, as long as no rollback removed it from the group.
NoMissedChat ==
  Quiet => \A c \in Clients : Reached(c) /\ ~MaybeUndone(AccountOf[c]) =>
             \A r \in Stored : r.receiver = AccountOf[c] /\ r.sender # AccountOf[c] =>
               \E n \in seen[c] : n.msg = r.msg

\* "记录消息号，便于查找" (protocol.h:141), the number of a message to find it by: when a client
\* has a message marked as read, it is not another account's message that is marked.
MarkedByReceiver ==
  \A r \in Stored : r.read # None => r.read = r.receiver
=============================================================================
