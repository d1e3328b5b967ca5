------------------------------- MODULE Groups --------------------------------
(***************************************************************************)
(* Groups: the handlers of CREATE_GROUP_REQUEST, ADD_GROUP_REQUEST,        *)
(* ACCEPT_GROUP_ASK and REJECT_GROUP_ASK (business.cpp) over group_info    *)
(* and user_group (data_handler.cpp), and the group part of a login.       *)
(*                                                                         *)
(* As in Friends, a connection runs one handler at a time, several         *)
(* connections may be logged in to one account, SQL statements are atomic, *)
(* may fail, and are taken back by another thread's ROLLBACK, a notice is  *)
(* one send that may be lost, and a process that dies is started again.    *)
(***************************************************************************)
EXTENDS Integers, FiniteSets

CONSTANTS
  Clients,          \* connections
  Accounts,         \* registered accounts
  AccountOf,        \* the account each connection logs in to
  Groups,           \* group accounts that clients may name
  OnlineAtStart,    \* connections that are logged in initially
  Attentive,        \* connections whose clients answer only what they see pending
  None,
  MaxRequests,      \* bound: groups that clients try to create, and requests to join
  MaxAnswers,       \* bound: answers to requests
  MaxLogins,        \* bound: logins
  MaxTime,          \* bound: seconds that pass (add_time has second resolution)
  MaxMishaps        \* bound: failed statements, lost sends, rolled back transactions

Group == [creator : Accounts, member_num : Nat]
Row == [user : Accounts, group : Groups, creator : Accounts, status : {-1, 0, 1},
        add_time : Nat]
RowIds == 1..MaxRequests
GroupTable == [Groups -> Group \cup {None}]
RowTable == [RowIds -> Row \cup {None}]
Tables == [groups : GroupTable, rows : RowTable]

ASSUME GroupsAssumption ==
  /\ AccountOf \in [Clients -> Accounts]
  /\ OnlineAtStart \subseteq Clients /\ Attentive \subseteq Clients
  /\ \A c, d \in OnlineAtStart : AccountOf[c] = AccountOf[d] => c = d
  /\ None \notin Clients \cup Accounts \cup Groups \cup {-1, 0, 1}
  /\ None \notin Group /\ None \notin Row
  /\ MaxRequests \in Nat /\ MaxAnswers \in Nat
  /\ MaxLogins \in Nat /\ MaxTime \in Nat /\ MaxMishaps \in Nat

VARIABLES
  group_info,       \* group_info[g]: the row with this primary key, or None
  user_group,       \* user_group[i]: the row that request i inserted, or None
  saved,            \* the tables at another thread's BEGIN, or None
  user_client,      \* user_client[a]: the latest connection a logged in on, or None
  pc, req,          \* pc[c]: where c's handler is; req[c]: the message it handles
  got,              \* got[c]: the requests that the handler's SELECT returned
  got_groups,       \* got_groups[c]: the groups that it returned
  to_tell,          \* to_tell[c]: the members the handler has yet to notify
  pending,          \* pending[c]: the rows that c, attentive, was last told are pending
  listed,           \* listed[c]: groups that c was told to show as its own
  requests, answers, logins, clock, mishaps,
  \* What happened, for the properties
  cut,              \* connections that did not get all that was meant for them
  doubled,          \* accounts that logged in while another login of theirs stood
  contested,        \* <<u, g>> whose rows two handlers were about to insert at once
  undone,           \* groups of which a ROLLBACK removed or changed a row
  created,          \* <<a, g>>: a was answered that it created g
  uncounted         \* groups with an acceptance whose increment failed

dbVars     == <<group_info, user_group, saved>>
gotVars    == <<got, got_groups, to_tell>>
clientVars == <<pending, listed, cut>>
boundVars  == <<requests, answers, logins, clock, mishaps>>
raceVars   == <<doubled, contested, undone, created, uncounted>>
vars == <<dbVars, user_client, pc, req, gotVars, clientVars, boundVars, raceVars>>

Request == [kind : {"create", "ask", "accept", "reject"}, user : Accounts, group : Groups,
            creator : Accounts \cup {None}, id : 0..MaxRequests]
Nothing == [i \in RowIds |-> None]
Statuses == [RowIds -> {None, -1, 0, 1}]

Pcs == {"out", "logged_in", "ask_list", "sending_asks", "asks_sent", "group_list",
        "sending_groups", "idle", "find_group", "insert_group", "insert_creator",
        "list_creator", "find_asked", "find_active", "insert_ask", "update", "count",
        "fetch", "tell_self", "tell_peer", "members", "tell_members", "tell_others"}

FirstClient(a) == IF \E c \in OnlineAtStart : AccountOf[c] = a
                  THEN CHOOSE c \in OnlineAtStart : AccountOf[c] = a ELSE None

Init ==
  /\ group_info = [g \in Groups |-> None]
  /\ user_group = [i \in RowIds |-> None] /\ saved = None
  /\ user_client = [a \in Accounts |-> FirstClient(a)]
  /\ pc = [c \in Clients |-> IF c \in OnlineAtStart THEN "idle" ELSE "out"]
  /\ req = [c \in Clients |-> None]
  /\ got = [c \in Clients |-> Nothing]
  /\ got_groups = [c \in Clients |-> {}] /\ to_tell = [c \in Clients |-> {}]
  /\ pending = [c \in Clients |-> {}]
  /\ listed = [c \in Clients |-> {}]
  /\ requests = 0 /\ answers = 0 /\ logins = 0 /\ clock = 0 /\ mishaps = 0
  /\ cut = {} /\ doubled = {} /\ contested = {} /\ undone = {}
  /\ created = {} /\ uncounted = {}

Goto(c, label) == pc' = [pc EXCEPT ![c] = label]

\* The handler returns, and what it read is gone.
Return(c) ==
  /\ pc' = [pc EXCEPT ![c] = "idle"]
  /\ req' = [req EXCEPT ![c] = None]
  /\ got' = [got EXCEPT ![c] = Nothing]
  /\ got_groups' = [got_groups EXCEPT ![c] = {}]
  /\ to_tell' = [to_tell EXCEPT ![c] = {}]

Mishap ==
  /\ mishaps < MaxMishaps
  /\ mishaps' = mishaps + 1
  /\ UNCHANGED <<requests, answers, logins, clock>>

\* The rows of a table where user_account = u and group_account = g
RowsIn(t, u, g) == {i \in RowIds : t[i] # None /\ t[i].user = u /\ t[i].group = g}
\* ... and status != -1
ActiveIn(t, u, g) == {i \in RowsIn(t, u, g) : t[i].status # -1}
Rows(u, g) == RowsIn(user_group, u, g)
Active(u, g) == ActiveIn(user_group, u, g)
Ids == {i \in RowIds : user_group[i] # None}
\* where group_account = g and status = 1
MemberRows(g) == {i \in Ids : user_group[i].group = g /\ user_group[i].status = 1}
Members(g) == {user_group[i].user : i \in MemberRows(g)}

\* What a SELECT returns, and what a client then sees pending
Read(S) == [i \in RowIds |-> IF i \in S THEN user_group[i].status ELSE None]
Learn(d, rows) ==
  IF d \in Attentive THEN {i \in RowIds : rows[i] = 0 \/ (rows[i] = None /\ i \in pending[d])}
  ELSE {}

InsertRow(c, creator, status) ==
  user_group' = [user_group EXCEPT ![req[c].id] =
    [user |-> req[c].user, group |-> req[c].group, creator |-> creator, status |-> status,
     add_time |-> clock]]

\* Only the seconds between two rows of one user in one group matter, and it does not
\* matter where between them.
Tick ==
  /\ clock < MaxTime
  /\ \E c \in Clients : pc[c] \in {"insert_creator", "insert_ask"}
                       /\ Rows(req[c].user, req[c].group) # {}
  /\ clock' = clock + 1
  /\ UNCHANGED <<dbVars, user_client, pc, req, gotVars, clientVars, requests,
                 answers, logins, mishaps, raceVars>>

-----------------------------------------------------------------------------
(* What other threads do, and what goes wrong *)

\* A row of its user in its group is about to be inserted.
Adding(c) == pc[c] \in {"find_group", "insert_group", "insert_creator",
                        "find_asked", "find_active", "insert_ask"}
Place(c) == <<req[c].user, req[c].group>>

Writing(c) == pc[c] \in {"insert_group", "insert_creator", "insert_ask", "update", "count"}

\* BEGIN of another thread's group message that will not be committed: one that is makes
\* no difference here, and neither does the time of BEGIN before the next write.
Begin ==
  /\ saved = None
  /\ \E c \in Clients : Writing(c)
  /\ Mishap
  /\ saved' = [groups |-> group_info, rows |-> user_group]
  /\ UNCHANGED <<group_info, user_group, user_client, pc, req, gotVars, clientVars, raceVars>>

\* The groups that lose something with the statements since BEGIN.
ToUndo == IF saved = None THEN {} ELSE
  {g \in Groups : group_info[g] # saved.groups[g]} \cup
  {user_group[i].group : i \in {j \in Ids : user_group[j] # saved.rows[j]}}

Restore ==
  /\ group_info' = IF saved = None THEN group_info ELSE saved.groups
  /\ user_group' = IF saved = None THEN user_group ELSE saved.rows
  /\ saved' = None
  /\ undone' = undone \cup ToUndo

Rollback ==
  /\ saved # None
  /\ Restore
  /\ contested' = contested \cup {Place(d) : d \in {e \in Clients : Adding(e)}}
  /\ UNCHANGED <<user_client, pc, req, gotVars, clientVars, boundVars, doubled, created,
                 uncounted>>

\* Something meant for these connections is lost; what they are sent from then on is
\* not followed.
Cut(S) ==
  /\ cut' = cut \cup S
  /\ pending' = [d \in Clients |-> IF d \in S THEN {} ELSE pending[d]]
  /\ listed' = [d \in Clients |-> IF d \in S THEN {} ELSE listed[d]]

\* Another message, of another thread, goes out between two parts of a list.
Listing(c) == pc[c] \in {"sending_asks", "sending_groups"}

Interrupt(c) ==
  /\ Listing(c)
  /\ Mishap
  /\ Cut({c})
  /\ UNCHANGED <<dbVars, user_client, pc, req, gotVars, raceVars>>

\* The process dies, perhaps between the two statements of an acceptance, and is started
\* again on what the database holds.
Die ==
  /\ Restore
  /\ uncounted' = uncounted \cup {req[d].group : d \in {e \in Clients : pc[e] = "count"}}
  /\ user_client' = [a \in Accounts |-> None]
  /\ pc' = [c \in Clients |-> "out"]
  /\ req' = [c \in Clients |-> None]
  /\ got' = [c \in Clients |-> Nothing]
  /\ got_groups' = [c \in Clients |-> {}] /\ to_tell' = [c \in Clients |-> {}]
  /\ pending' = [c \in Clients |-> {}]
  /\ listed' = [c \in Clients |-> {}]
  /\ cut' = {}
  /\ UNCHANGED <<doubled, contested, created>>

\* One send to d: it arrives whole, or it does not, or it falls into a list.
Arrives(d) == ~Listing(d) /\ d \notin cut /\ UNCHANGED <<cut, boundVars>>
IsLost(d) ==
  /\ Cut({d})
  /\ \/ (Listing(d) \/ d \in cut) /\ UNCHANGED boundVars
     \/ ~Listing(d) /\ Mishap

-----------------------------------------------------------------------------
(* Login and disconnect *)

\* The newest login replaces the entry; nothing refuses a second one.
do_login(c) ==
  /\ pc[c] = "out" /\ logins < MaxLogins
  /\ logins' = logins + 1
  /\ user_client' = [user_client EXCEPT ![AccountOf[c]] = c]
  /\ doubled' = IF user_client[AccountOf[c]] = None THEN doubled
                ELSE doubled \cup {AccountOf[c]}
  /\ Goto(c, "logged_in")
  /\ UNCHANGED <<dbVars, req, gotVars, clientVars, requests, answers, clock, mishaps,
                 contested, undone, created, uncounted>>

\* The requests of the account and those to the groups it created, its own rows
\* as a creator left out.
get_addgroup_ask(c) ==
  LET me == AccountOf[c] IN
  /\ pc[c] = "logged_in"
  /\ got' = [got EXCEPT ![c] = Read({i \in Ids : /\ me \in {user_group[i].user, user_group[i].creator}
                                                 /\ user_group[i].user # user_group[i].creator})]
  /\ Goto(c, "ask_list")
  /\ UNCHANGED <<dbVars, user_client, req, got_groups, to_tell, clientVars, boundVars, raceVars>>

\* send_large_data, from the first part of the list ...
SendAskList(c) ==
  /\ pc[c] = "ask_list"
  /\ Goto(c, "sending_asks")
  /\ UNCHANGED <<dbVars, user_client, req, gotVars, clientVars, boundVars, raceVars>>

\* ... to the last; then the list is freed.
AskListSent(c) ==
  /\ pc[c] = "sending_asks"
  /\ pending' = IF c \in cut THEN pending ELSE [pending EXCEPT ![c] = Learn(c, got[c])]
  /\ got' = [got EXCEPT ![c] = Nothing]
  /\ Goto(c, "asks_sent")
  /\ UNCHANGED <<dbVars, user_client, req, got_groups, to_tell, listed, cut, boundVars, raceVars>>

get_grouplist(c) ==
  /\ pc[c] = "asks_sent"
  /\ got_groups' = [got_groups EXCEPT ![c] = {g \in Groups : AccountOf[c] \in Members(g)}]
  /\ Goto(c, "group_list")
  /\ UNCHANGED <<dbVars, user_client, req, got, to_tell, clientVars, boundVars, raceVars>>

SendGroupList(c) ==
  /\ pc[c] = "group_list"
  /\ Goto(c, "sending_groups")
  /\ UNCHANGED <<dbVars, user_client, req, gotVars, clientVars, boundVars, raceVars>>

GroupListSent(c) ==
  /\ pc[c] = "sending_groups"
  /\ listed' = IF c \in cut THEN listed ELSE [listed EXCEPT ![c] = @ \cup got_groups[c]]
  /\ Return(c)
  /\ UNCHANGED <<dbVars, user_client, pending, cut, boundVars, raceVars>>

\* send_large_data gives up, and the login goes on.
ListFails(c) ==
  /\ Listing(c)
  /\ Mishap
  /\ Cut({c})
  /\ pc' = [pc EXCEPT ![c] = IF pc[c] = "sending_asks" THEN "asks_sent" ELSE "idle"]
  /\ got' = [got EXCEPT ![c] = Nothing]
  /\ got_groups' = [got_groups EXCEPT ![c] = {}]
  /\ UNCHANGED <<dbVars, user_client, req, to_tell, raceVars>>

\* recv returned 0: the entry with this descriptor is erased; the client is gone.
Disconnect(c) ==
  /\ pc[c] = "idle"
  /\ user_client' = [a \in Accounts |-> IF user_client[a] = c THEN None ELSE user_client[a]]
  /\ Goto(c, "out")
  /\ pending' = [pending EXCEPT ![c] = {}]
  /\ listed' = [listed EXCEPT ![c] = {}]
  /\ cut' = cut \ {c}
  /\ UNCHANGED <<dbVars, req, gotVars, boundVars, raceVars>>

-----------------------------------------------------------------------------
(* handle_create_group_message *)

\* A request that may insert a row starts.
Start(c, kind, g, label) ==
  LET u == AccountOf[c] IN
  /\ pc[c] = "idle" /\ requests < MaxRequests
  /\ requests' = requests + 1
  /\ req' = [req EXCEPT ![c] = [kind |-> kind, user |-> u, group |-> g, creator |-> None,
                                id |-> requests + 1]]
  /\ contested' = IF \E d \in Clients : Adding(d) /\ Place(d) = <<u, g>>
                  THEN contested \cup {<<u, g>>} ELSE contested
  /\ Goto(c, label)
  /\ UNCHANGED <<dbVars, user_client, gotVars, clientVars, answers, logins, clock, mishaps,
                 doubled, undone, created, uncounted>>

Create(c, g) == Start(c, "create", g, "find_group")

\* A group that exists is refused, and its notice is sent all the same.
FindGroup(c) ==
  /\ pc[c] = "find_group"
  /\ Goto(c, IF group_info[req[c].group] = None THEN "insert_group" ELSE "list_creator")
  /\ UNCHANGED <<dbVars, user_client, req, gotVars, clientVars, boundVars, raceVars>>

\* Variant: member_num is left NULL.
InsertGroupNoNumber(c) ==
  /\ pc[c] = "insert_group" /\ group_info[req[c].group] = None
  /\ group_info' = [group_info EXCEPT ![req[c].group] =
                      [creator |-> req[c].user, member_num |-> None]]
  /\ Goto(c, "insert_creator")
  /\ UNCHANGED <<user_group, saved, user_client, req, gotVars, clientVars, boundVars, raceVars>>

InsertGroup(c) ==
  LET g == req[c].group IN
  /\ pc[c] = "insert_group"
  /\ IF group_info[g] = None
     THEN /\ group_info' = [group_info EXCEPT ![g] = [creator |-> req[c].user, member_num |-> 1]]
          /\ Goto(c, "insert_creator")
     ELSE /\ Goto(c, "list_creator")      \* the primary key: somebody was faster
          /\ UNCHANGED group_info
  /\ UNCHANGED <<user_group, saved, user_client, req, gotVars, clientVars, boundVars, raceVars>>

\* Variant: the creator's row waits for an answer as any other.
InsertCreatorPending(c) ==
  /\ pc[c] = "insert_creator"
  /\ InsertRow(c, req[c].user, 0)
  /\ created' = created \cup {Place(c)}
  /\ Goto(c, "list_creator")
  /\ UNCHANGED <<group_info, saved, user_client, req, gotVars, clientVars, boundVars, doubled,
                 contested, undone, uncounted>>

\* The creator's row, and the response of success.
InsertCreator(c) ==
  /\ pc[c] = "insert_creator"
  /\ InsertRow(c, req[c].user, 1)
  /\ created' = created \cup {Place(c)}
  /\ Goto(c, "list_creator")
  /\ UNCHANGED <<group_info, saved, user_client, req, gotVars, clientVars, boundVars, doubled,
                 contested, undone, uncounted>>

\* The group stays, the creator is refused.
InsertCreatorFails(c) ==
  /\ pc[c] = "insert_creator"
  /\ Mishap
  /\ Goto(c, "list_creator")
  /\ UNCHANGED <<dbVars, user_client, req, gotVars, clientVars, raceVars>>

\* What query_group finds for the notice of a group; without it the notice goes out
\* uninitialised.
Shown(c) == {g \in {req[c].group} : group_info[g] # None}

\* The notice of the group goes to the connection whatever became of the request.
ListCreator(c) ==
  /\ pc[c] = "list_creator"
  /\ \/ /\ Arrives(c) /\ UNCHANGED pending
        /\ listed' = [listed EXCEPT ![c] = @ \cup Shown(c)]
     \/ IsLost(c)
  /\ Return(c)
  /\ UNCHANGED <<dbVars, user_client, raceVars>>

-----------------------------------------------------------------------------
(* handle_addgroup_message *)

Ask(c, g) == Start(c, "ask", g, "find_asked")

FindAsked(c) ==
  LET g == req[c].group IN
  /\ pc[c] = "find_asked"
  /\ IF group_info[g] = None THEN Return(c)
     ELSE /\ req' = [req EXCEPT ![c].creator = group_info[g].creator]
          /\ Goto(c, "find_active")
          /\ UNCHANGED gotVars
  /\ UNCHANGED <<dbVars, user_client, clientVars, boundVars, raceVars>>

\* Variant: only a user who already asked is refused.
FindActivePending(c) ==
  /\ pc[c] = "find_active"
  /\ IF \E i \in Rows(req[c].user, req[c].group) : user_group[i].status = 0 THEN Return(c)
     ELSE Goto(c, "insert_ask") /\ UNCHANGED <<req, gotVars>>
  /\ UNCHANGED <<dbVars, user_client, clientVars, boundVars, raceVars>>

\* The user already asked, or is a member.
FindActive(c) ==
  /\ pc[c] = "find_active"
  /\ IF Active(req[c].user, req[c].group) # {} THEN Return(c)
     ELSE Goto(c, "insert_ask") /\ UNCHANGED <<req, gotVars>>
  /\ UNCHANGED <<dbVars, user_client, clientVars, boundVars, raceVars>>

InsertAsk(c) ==
  /\ pc[c] = "insert_ask"
  /\ InsertRow(c, req[c].creator, 0)
  /\ Goto(c, "fetch")
  /\ UNCHANGED <<group_info, saved, user_client, req, gotVars, clientVars, boundVars, raceVars>>

-----------------------------------------------------------------------------
(* handle_acceptgroup_message *)

\* Nothing is checked: neither who answers, nor that there is such a request.  Only an
\* attentive client keeps to the requests to its groups that it sees pending.
Answer(c, u, g, kind) ==
  /\ pc[c] = "idle" /\ answers < MaxAnswers
  /\ answers' = answers + 1
  /\ c \in Attentive => \E i \in pending[c] \cap Rows(u, g) : user_group[i].creator = AccountOf[c]
  /\ req' = [req EXCEPT ![c] = [kind |-> kind, user |-> u, group |-> g, creator |-> None,
                                id |-> 0]]
  /\ Goto(c, "update")
  /\ UNCHANGED <<dbVars, user_client, gotVars, clientVars, requests, logins, clock, mishaps,
                 raceVars>>

\* Variant: the number is not touched.
updata_rows_only(c) ==
  /\ pc[c] = "update"
  /\ user_group' = [i \in RowIds |->
       IF i \in Rows(req[c].user, req[c].group) /\ user_group[i].status = 0
       THEN [user_group[i] EXCEPT !.status = IF req[c].kind = "accept" THEN 1 ELSE -1]
       ELSE user_group[i]]
  /\ Goto(c, "fetch")
  /\ UNCHANGED <<group_info, saved, user_client, req, gotVars, clientVars, boundVars, raceVars>>

\* update ... where status=0: it succeeds for any number of rows
updata_group_data_handle(c) ==
  /\ pc[c] = "update"
  /\ user_group' = [i \in RowIds |->
       IF i \in Rows(req[c].user, req[c].group) /\ user_group[i].status = 0
       THEN [user_group[i] EXCEPT !.status = IF req[c].kind = "accept" THEN 1 ELSE -1]
       ELSE user_group[i]]
  /\ Goto(c, IF req[c].kind = "accept" THEN "count" ELSE "fetch")
  /\ UNCHANGED <<group_info, saved, user_client, req, gotVars, clientVars, boundVars, raceVars>>

\* The error message is copied after it was freed and set to NULL.
UpdateFails(c) ==
  /\ pc[c] = "update"
  /\ Mishap
  /\ Die

\* set member_num = member_num + 1, whatever the first statement found
CountMember(c) ==
  LET g == req[c].group IN
  /\ pc[c] = "count"
  /\ group_info' = IF group_info[g] = None THEN group_info
                   ELSE [group_info EXCEPT ![g].member_num = @ + 1]
  /\ Goto(c, "fetch")
  /\ UNCHANGED <<user_group, saved, user_client, req, gotVars, clientVars, boundVars, raceVars>>

\* The rows stay, and the handler goes on.
CountMemberFails(c) ==
  /\ pc[c] = "count"
  /\ Mishap
  /\ uncounted' = uncounted \cup {req[c].group}
  /\ Goto(c, "fetch")
  /\ UNCHANGED <<dbVars, user_client, req, gotVars, clientVars, doubled, contested, undone,
                 created>>

-----------------------------------------------------------------------------
(* The notices that end both handlers *)

\* order by add_time desc limit 1
Latest(u, g) == {i \in Rows(u, g) :
                   \A j \in Rows(u, g) : user_group[j].add_time <= user_group[i].add_time}

\* The creator that is told of a request is the one in its row.
consutrct_group_ask_notice_msg(c) ==
  /\ pc[c] = "fetch"
  /\ \E i \in Latest(req[c].user, req[c].group) :
       /\ got' = [got EXCEPT ![c] = Read({i})]
       /\ req' = [req EXCEPT ![c].creator = user_group[i].creator]
  /\ Goto(c, "tell_self")
  /\ UNCHANGED <<dbVars, user_client, got_groups, to_tell, clientVars, boundVars, raceVars>>

\* Row 0 is read whether or not there is one: the process dies, or a notice of no
\* request goes out.
NoRowToTell(c) ==
  /\ pc[c] = "fetch" /\ Rows(req[c].user, req[c].group) = {}
  /\ \/ Die /\ UNCHANGED boundVars
     \/ /\ Goto(c, "tell_self")
        /\ UNCHANGED <<dbVars, user_client, req, gotVars, clientVars, boundVars, raceVars>>

TellSelf(c) ==
  /\ pc[c] = "tell_self"
  /\ \/ Arrives(c) /\ pending' = [pending EXCEPT ![c] = Learn(c, got[c])] /\ UNCHANGED listed
     \/ IsLost(c)
  /\ Goto(c, "tell_peer")
  /\ UNCHANGED <<dbVars, user_client, req, gotVars, raceVars>>

Peer(c) == IF req[c].kind = "ask" THEN req[c].creator ELSE req[c].user
PeerClient(c) == IF Peer(c) = None THEN None ELSE user_client[Peer(c)]

\* user_client.find and send: nothing when the peer is not logged in.
TellPeer(c) ==
  /\ pc[c] = "tell_peer"
  /\ \/ PeerClient(c) = None /\ UNCHANGED <<clientVars, boundVars>>
     \/ /\ PeerClient(c) # None /\ Arrives(PeerClient(c)) /\ UNCHANGED listed
        /\ pending' = [pending EXCEPT ![PeerClient(c)] = Learn(PeerClient(c), got[c])]
     \/ PeerClient(c) # None /\ IsLost(PeerClient(c))
  /\ IF req[c].kind = "accept" THEN Goto(c, "members") /\ UNCHANGED <<req, gotVars>> ELSE Return(c)
  /\ UNCHANGED <<dbVars, user_client, raceVars>>

\* query_group fails, and its result is sent to the members uninitialised.
QueryFails(c) ==
  /\ pc[c] = "members"
  /\ Mishap
  /\ Cut({d \in Clients : pc[d] # "out"})
  /\ UNCHANGED <<dbVars, user_client, pc, req, gotVars, raceVars>>

\* Variant: the new member is left out, as it has had its notice.
get_other_users_in_group(c) ==
  LET g == req[c].group IN
  /\ pc[c] = "members"
  /\ to_tell' = [to_tell EXCEPT ![c] = Members(g) \ {req[c].user}]
  /\ Goto(c, IF req[c].user \in Members(g) THEN "tell_members" ELSE "tell_others")
  /\ UNCHANGED <<dbVars, user_client, req, got, got_groups, clientVars, boundVars, raceVars>>

\* The accepted user is looked for among the members.
get_users_in_group(c) ==
  LET g == req[c].group IN
  /\ pc[c] = "members"
  /\ to_tell' = [to_tell EXCEPT ![c] = Members(g)]
  /\ Goto(c, IF req[c].user \in Members(g) THEN "tell_members" ELSE "tell_others")
  /\ UNCHANGED <<dbVars, user_client, req, got, got_groups, clientVars, boundVars, raceVars>>

\* Member by member: user_client.find and send.  (The order makes no difference here.)
TellMember(c) ==
  /\ pc[c] \in {"tell_members", "tell_others"}
  /\ \E u \in to_tell[c] :
       /\ to_tell' = [to_tell EXCEPT ![c] = @ \ {u}]
       /\ \/ user_client[u] = None /\ UNCHANGED <<clientVars, boundVars>>
          \/ /\ user_client[u] # None /\ Arrives(user_client[u]) /\ UNCHANGED pending
             /\ listed' = [listed EXCEPT ![user_client[u]] = @ \cup Shown(c)]
          \/ user_client[u] # None /\ IsLost(user_client[u])
  /\ UNCHANGED <<dbVars, user_client, pc, req, got, got_groups, raceVars>>

\* The members are then told of add_success_user[0], the accepted user; that message
\* names no group that they would not have.
TellAddSuccess(c) ==
  /\ pc[c] = "tell_members" /\ to_tell[c] = {}
  /\ Return(c)
  /\ UNCHANGED <<dbVars, user_client, clientVars, boundVars, raceVars>>

\* The vector is empty when the accepted user was not among the members, or when the
\* SELECT failed: the copy reads address 0.
NobodyAdded(c) ==
  /\ \/ pc[c] = "tell_others" /\ to_tell[c] = {} /\ UNCHANGED boundVars
     \/ pc[c] = "members" /\ Mishap
  /\ Die

\* A SELECT or INSERT fails: the notice of the group to create is sent all the same, a
\* request is refused, and what a login or a handler would have sent is not.
StatementFails(c) ==
  /\ \/ /\ pc[c] \in {"find_group", "insert_group"} /\ Goto(c, "list_creator")
        /\ UNCHANGED <<req, gotVars, clientVars, boundVars>>
     \/ /\ pc[c] \in {"find_asked", "find_active", "insert_ask"} /\ Return(c)
        /\ UNCHANGED <<clientVars, boundVars>>
     \/ pc[c] \in {"logged_in", "asks_sent"} /\ Return(c) /\ Cut({c}) /\ Mishap
     \/ pc[c] = "fetch" /\ Return(c) /\ Cut({c, PeerClient(c)} \ {None}) /\ Mishap
  /\ UNCHANGED <<dbVars, user_client, raceVars>>

-----------------------------------------------------------------------------
ClientNext(c) ==
  \/ do_login(c) \/ get_addgroup_ask(c) \/ SendAskList(c) \/ AskListSent(c)
  \/ get_grouplist(c) \/ SendGroupList(c) \/ GroupListSent(c) \/ ListFails(c)
  \/ Disconnect(c) \/ Interrupt(c)
  \/ (\E g \in Groups : Create(c, g) \/ Ask(c, g))
  \/ FindGroup(c) \/ InsertGroup(c) \/ InsertCreator(c) \/ InsertCreatorFails(c)
  \/ ListCreator(c) \/ FindAsked(c) \/ FindActive(c) \/ InsertAsk(c) \/ StatementFails(c)
  \/ (\E u \in Accounts, g \in Groups, kind \in {"accept", "reject"} : Answer(c, u, g, kind))
  \/ updata_group_data_handle(c) \/ UpdateFails(c) \/ CountMember(c) \/ CountMemberFails(c)
  \/ consutrct_group_ask_notice_msg(c) \/ NoRowToTell(c) \/ TellSelf(c) \/ TellPeer(c)
  \/ QueryFails(c) \/ get_users_in_group(c) \/ TellMember(c) \/ TellAddSuccess(c)
  \/ NobodyAdded(c)

Next == Tick \/ Begin \/ Rollback \/ (\E c \in Clients : ClientNext(c))
Spec == Init /\ [][Next]_vars

-----------------------------------------------------------------------------
(* Properties *)

\* The values that every variable keeps; within the bounds.
TypeOK ==
  /\ group_info \in GroupTable /\ user_group \in RowTable /\ saved \in Tables \cup {None}
  /\ user_client \in [Accounts -> Clients \cup {None}]
  /\ pc \in [Clients -> Pcs]
  /\ req \in [Clients -> Request \cup {None}]
  /\ got \in [Clients -> Statuses] /\ pending \in [Clients -> SUBSET RowIds]
  /\ got_groups \in [Clients -> SUBSET Groups] /\ listed \in [Clients -> SUBSET Groups]
  /\ to_tell \in [Clients -> SUBSET Accounts]
  /\ requests \in 0..MaxRequests /\ answers \in 0..MaxAnswers
  /\ logins \in 0..MaxLogins /\ clock \in 0..MaxTime /\ mishaps \in 0..MaxMishaps
  /\ cut \subseteq Clients /\ doubled \subseteq Accounts
  /\ contested \subseteq Accounts \X Groups /\ created \subseteq Accounts \X Groups
  /\ undone \subseteq Groups /\ uncounted \subseteq Groups

\* create_group_handle is three statements, any of which may fail: of two users that
\* create the same group at once one at most is answered with success, and unless a
\* ROLLBACK reached the group, it is the creator and has its row as a member.
CreatorIsMember ==
  \A p \in created : p[2] \notin undone =>
    /\ group_info[p[2]] # None /\ group_info[p[2]].creator = p[1]
    /\ p[1] \in Members(p[2])

\* user_group has no key.  A user has at most one live row in a group, the creator's
\* row and the requests it is checked against taken together, unless two logins of the
\* user were at it at the same time, or a ROLLBACK fell between check and insert.
OneActivePerGroup ==
  \A u \in Accounts, g \in Groups :
    <<u, g>> \notin contested => \A i, j \in Active(u, g) : i = j

\* member_num and the member rows are two statements apart, and several handlers are at
\* work: the number never falls behind the rows by more than the increments that are
\* still to come, where none failed and none was taken back.
NotUndercounted ==
  \A g \in Groups \ (undone \cup uncounted) :
    group_info[g] # None /\ (\A u \in Accounts : <<u, g>> \notin contested) =>
      Cardinality(MemberRows(g)) <= group_info[g].member_num
        + Cardinality({c \in Clients : pc[c] = "count" /\ req[c].group = g})

\* No handler is at work: every notice is out.
Quiet == \A c \in Clients : pc[c] \in {"idle", "out"}

\* The connection that notices for its account go to, and nothing sent to it was lost.
Reached(c) == pc[c] = "idle" /\ user_client[AccountOf[c]] = c /\ c \notin cut

\* A login that races an acceptance misses nothing: a connection that got all that was
\* sent to it shows every group its user is a member of, by the list of its login or by
\* the notice.  A creator is told on the connection that created the group, and groups
\* that a ROLLBACK reached are left out: of them the row of a member may stand alone.
NoMissedGroup ==
  Quiet => \A c \in Clients : Reached(c) =>
    \A g \in Groups \ undone : \A i \in MemberRows(g) :
      /\ user_group[i].user = AccountOf[c]
      /\ user_group[i].creator # AccountOf[c] \/ AccountOf[c] \notin doubled
      => g \in listed[c]

=============================================================================
