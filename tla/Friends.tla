------------------------------- MODULE Friends -------------------------------
(***************************************************************************)
(* Friend requests: the handlers of ADD_FRIEND_REQUEST, ACCEPT_FRIEND_ASK  *)
(* and REJECT_FRIEND_ASK (business.cpp) over the friend_info table         *)
(* (data_handler.cpp), the part of a login that sends a client its         *)
(* requests and friends, and the part of a disconnect that forgets it.     *)
(*                                                                         *)
(* A connection runs one handler at a time (Dispatch!OneWorkerPerClient);  *)
(* handlers of different connections, which may be logged in to one        *)
(* account, interleave between SQL statements and sends.  A statement is   *)
(* atomic: all threads share one sqlite connection, and with it the        *)
(* transaction of a group message, whose ROLLBACK takes everyone's         *)
(* statements since BEGIN back.  A statement may fail.  A notice is one    *)
(* send that may fail or be cut short, and that spoils a list when it      *)
(* falls between two parts of it.                                          *)
(***************************************************************************)
EXTENDS Integers

CONSTANTS
  Clients,          \* connections
  Accounts,         \* registered accounts: rows of user_info
  AccountOf,        \* the account each connection logs in to
  OnlineAtStart,    \* connections that are logged in initially
  None,
  MaxAsks,          \* bound: friend requests that clients send
  MaxAnswers,       \* bound: answers that clients send
  MaxLogins,        \* bound: logins
  MaxTime,          \* bound: seconds that pass (add_time has second resolution)
  MaxMishaps        \* bound: failed statements, lost sends, rolled back transactions

ASSUME FriendsAssumption ==
  /\ AccountOf \in [Clients -> Accounts]
  /\ OnlineAtStart \subseteq Clients
  /\ \A c, d \in OnlineAtStart : AccountOf[c] = AccountOf[d] => c = d
  /\ None \notin Clients \cup Accounts \cup {-1, 0, 1}
  /\ None \notin [user : Accounts, friend : Accounts, status : {-1, 0, 1}, add_time : Nat]
  /\ MaxAsks \in Nat /\ MaxAnswers \in Nat /\ MaxLogins \in Nat
  /\ MaxTime \in Nat /\ MaxMishaps \in Nat

VARIABLES
  friend_info,      \* friend_info[i]: the row that request i inserted, or None
  saved,            \* the table at another thread's BEGIN, or None
  user_client,      \* user_client[a]: the latest connection a logged in on, or None
  pc, req,          \* pc[c]: where c's handler is; req[c]: the message it handles
  got, got_friends, \* the requests and the friends that the handler's SELECT returned
  heard,            \* heard[c]: the rows c was sent, of whatever status
  buddies,          \* buddies[c]: accounts c was sent as friends
  asks, answers, logins, clock, mishaps,
  \* What happened, for the properties
  cut,              \* connections that did not get all that was meant for them
  doubled,          \* accounts that logged in while another login of theirs stood
  contested,        \* sets of directions whose requests were checked together
  undone            \* directions with a row that a ROLLBACK removed or changed

dbVars     == <<friend_info, saved>>
clientVars == <<heard, buddies, cut>>
boundVars  == <<asks, answers, logins, clock, mishaps>>
raceVars   == <<doubled, contested, undone>>
gotVars    == <<got, got_friends>>
vars == <<dbVars, user_client, pc, req, gotVars, clientVars, boundVars, raceVars>>

Row == [user : Accounts, friend : Accounts, status : {-1, 0, 1}, add_time : Nat]
RowIds == 1..MaxAsks
Request == [kind : {"ask", "accept", "reject"}, user : Accounts, friend : Accounts,
            id : 0..MaxAsks]
Table == [RowIds -> Row \cup {None}]

Pcs == {"out", "logged_in", "ask_list", "sending_asks", "listed", "friend_list",
        "sending_friends", "idle", "own", "reverse", "insert", "update", "fetch",
        "tell_self", "tell_peer", "list_peer", "list_self"}

FirstClient(a) == IF \E c \in OnlineAtStart : AccountOf[c] = a
                  THEN CHOOSE c \in OnlineAtStart : AccountOf[c] = a ELSE None

Init ==
  /\ friend_info = [i \in RowIds |-> None] /\ saved = None
  /\ user_client = [a \in Accounts |-> FirstClient(a)]
  /\ pc = [c \in Clients |-> IF c \in OnlineAtStart THEN "idle" ELSE "out"]
  /\ req = [c \in Clients |-> None]
  /\ got = [c \in Clients |-> {}] /\ got_friends = [c \in Clients |-> {}]
  /\ heard = [c \in Clients |-> {}]
  /\ buddies = [c \in Clients |-> {}]
  /\ asks = 0 /\ answers = 0 /\ logins = 0 /\ clock = 0 /\ mishaps = 0
  /\ cut = {} /\ doubled = {} /\ contested = {} /\ undone = {}

Goto(c, label) == pc' = [pc EXCEPT ![c] = label]

\* The handler returns, and what it read is gone.
Return(c) ==
  /\ pc' = [pc EXCEPT ![c] = "idle"]
  /\ req' = [req EXCEPT ![c] = None]
  /\ got' = [got EXCEPT ![c] = {}]
  /\ got_friends' = [got_friends EXCEPT ![c] = {}]

Mishap ==
  /\ mishaps < MaxMishaps
  /\ mishaps' = mishaps + 1
  /\ UNCHANGED <<asks, answers, logins, clock>>

\* The rows of a table where user_account = u and friend_account = f
RowsIn(t, u, f) == {i \in RowIds : t[i] # None /\ t[i].user = u /\ t[i].friend = f}
\* ... and friend_status != -1
ActiveIn(t, u, f) == {i \in RowsIn(t, u, f) : t[i].status # -1}
Rows(u, f) == RowsIn(friend_info, u, f)
Active(u, f) == ActiveIn(friend_info, u, f)
Ids == {i \in RowIds : friend_info[i] # None}
Involving(a) == {i \in Ids : a \in {friend_info[i].user, friend_info[i].friend}}

\* Only the seconds between two rows matter.
Tick ==
  /\ clock < MaxTime /\ Ids # {}
  /\ clock' = clock + 1
  /\ UNCHANGED <<dbVars, user_client, pc, req, gotVars, clientVars, asks, answers, logins,
                 mishaps, raceVars>>

-----------------------------------------------------------------------------
(* What other threads do, and what goes wrong *)

\* A request is being checked, or is about to be inserted.
Checking(c) == pc[c] \in {"own", "reverse", "insert"}
Direction(c) == <<req[c].user, req[c].friend>>
Opposite(p) == <<p[2], p[1]>>

Changed == {i \in Ids : friend_info[i] # saved[i]}

\* BEGIN of another thread's group message that will not be committed: one that is makes
\* no difference here, and neither does the time of BEGIN before the next write.
Begin ==
  /\ saved = None
  /\ \E c \in Clients : pc[c] \in {"insert", "update"}
  /\ Mishap
  /\ saved' = friend_info
  /\ UNCHANGED <<friend_info, user_client, pc, req, gotVars, clientVars, raceVars>>

Rollback ==
  /\ saved # None
  /\ friend_info' = saved /\ saved' = None
  /\ undone' = undone \cup {<<friend_info[i].user, friend_info[i].friend>> : i \in Changed}
  /\ contested' = contested \cup
       {{Direction(d)} : d \in {e \in Clients : Checking(e)}} \cup
       {{Direction(d), Opposite(Direction(d))} : d \in {e \in Clients : Checking(e)}}
  /\ UNCHANGED <<user_client, pc, req, gotVars, clientVars, boundVars, doubled>>

\* Another message, of another thread, goes out between two parts of a list.
Listing(c) == pc[c] \in {"sending_asks", "sending_friends"}

\* Something meant for these connections is lost; what they are sent from then on is
\* not followed.
Cut(S) ==
  /\ cut' = cut \cup S
  /\ heard' = [d \in Clients |-> IF d \in S THEN {} ELSE heard[d]]
  /\ buddies' = [d \in Clients |-> IF d \in S THEN {} ELSE buddies[d]]

Interrupt(c) ==
  /\ Listing(c)
  /\ Mishap
  /\ Cut({c})
  /\ UNCHANGED <<dbVars, user_client, pc, req, gotVars, raceVars>>

\* The process dies, and is started again on what the database holds.
Die ==
  /\ friend_info' = IF saved = None THEN friend_info ELSE saved
  /\ saved' = None
  /\ undone' = IF saved = None THEN undone
               ELSE undone \cup {<<friend_info[i].user, friend_info[i].friend>> : i \in Changed}
  /\ user_client' = [a \in Accounts |-> None]
  /\ pc' = [c \in Clients |-> "out"]
  /\ req' = [c \in Clients |-> None]
  /\ got' = [c \in Clients |-> {}] /\ got_friends' = [c \in Clients |-> {}]
  /\ heard' = [c \in Clients |-> {}]
  /\ buddies' = [c \in Clients |-> {}]
  /\ cut' = {}
  /\ UNCHANGED <<doubled, contested>>

-----------------------------------------------------------------------------
(* Login and disconnect *)

\* The newest login replaces the entry; nothing refuses a second one.
do_login(c) ==
  /\ pc[c] = "out" /\ logins < MaxLogins
  /\ logins' = logins + 1
  /\ user_client' = [user_client EXCEPT ![AccountOf[c]] = c]
  /\ doubled' = IF user_client[AccountOf[c]] = None THEN doubled
                ELSE doubled \cup {AccountOf[c]}
  /\ Goto(c, "logged_in")
  /\ UNCHANGED <<dbVars, req, gotVars, clientVars, asks, answers, clock, mishaps, contested, undone>>

\* Variant: only the requests of others are looked for.
get_addfriend_ask_received(c) ==
  /\ pc[c] = "logged_in"
  /\ got' = [got EXCEPT ![c] = {i \in Ids : friend_info[i].friend = AccountOf[c]}]
  /\ Goto(c, "ask_list")
  /\ UNCHANGED <<dbVars, user_client, req, got_friends, clientVars, boundVars, raceVars>>

get_addfriend_ask(c) ==
  /\ pc[c] = "logged_in"
  /\ got' = [got EXCEPT ![c] = Involving(AccountOf[c])]
  /\ Goto(c, "ask_list")
  /\ UNCHANGED <<dbVars, user_client, req, got_friends, clientVars, boundVars, raceVars>>

\* send_large_data, from the first part of the list ...
SendAskList(c) ==
  /\ pc[c] = "ask_list"
  /\ Goto(c, "sending_asks")
  /\ UNCHANGED <<dbVars, user_client, req, gotVars, clientVars, boundVars, raceVars>>

\* ... to the last; then the list is freed.
AskListSent(c) ==
  /\ pc[c] = "sending_asks"
  /\ heard' = IF c \in cut THEN heard ELSE [heard EXCEPT ![c] = @ \cup got[c]]
  /\ got' = [got EXCEPT ![c] = {}]
  /\ Goto(c, "listed")
  /\ UNCHANGED <<dbVars, user_client, req, got_friends, buddies, cut, boundVars, raceVars>>

\* The other side of each row of status 1
FriendsOf(a) ==
  {b \in Accounts \ {a} : \E i \in Involving(a) :
     friend_info[i].status = 1 /\ b \in {friend_info[i].user, friend_info[i].friend}}

get_friendlist(c) ==
  /\ pc[c] = "listed"
  /\ got_friends' = [got_friends EXCEPT ![c] = FriendsOf(AccountOf[c])]
  /\ Goto(c, "friend_list")
  /\ UNCHANGED <<dbVars, user_client, req, got, clientVars, boundVars, raceVars>>

SendFriendList(c) ==
  /\ pc[c] = "friend_list"
  /\ Goto(c, "sending_friends")
  /\ UNCHANGED <<dbVars, user_client, req, gotVars, clientVars, boundVars, raceVars>>

FriendListSent(c) ==
  /\ pc[c] = "sending_friends"
  /\ buddies' = IF c \in cut THEN buddies ELSE [buddies EXCEPT ![c] = @ \cup got_friends[c]]
  /\ Return(c)
  /\ UNCHANGED <<dbVars, user_client, heard, cut, boundVars, raceVars>>

\* send_large_data gives up, and the login goes on.
ListFails(c) ==
  /\ Listing(c)
  /\ Mishap
  /\ Cut({c})
  /\ pc' = [pc EXCEPT ![c] = IF pc[c] = "sending_asks" THEN "listed" ELSE "idle"]
  /\ got' = [got EXCEPT ![c] = {}]
  /\ got_friends' = [got_friends EXCEPT ![c] = {}]
  /\ UNCHANGED <<dbVars, user_client, req, raceVars>>

\* recv returned 0: the entry with this descriptor is erased; the client is gone.
Disconnect(c) ==
  /\ pc[c] = "idle"
  /\ user_client' = [a \in Accounts |-> IF user_client[a] = c THEN None ELSE user_client[a]]
  /\ Goto(c, "out")
  /\ heard' = [heard EXCEPT ![c] = {}]
  /\ buddies' = [buddies EXCEPT ![c] = {}]
  /\ cut' = cut \ {c}
  /\ UNCHANGED <<dbVars, req, gotVars, boundVars, raceVars>>

-----------------------------------------------------------------------------
(* handle_addfriend_message *)

\* The requests that name the sender or no account are refused before any
\* statement that matters here.
Ask(c, f) ==
  LET p == <<AccountOf[c], f>>
      others == {Direction(d) : d \in {e \in Clients : Checking(e)}}
  IN
  /\ pc[c] = "idle" /\ asks < MaxAsks
  /\ f # AccountOf[c]
  /\ asks' = asks + 1
  /\ req' = [req EXCEPT ![c] = [kind |-> "ask", user |-> AccountOf[c], friend |-> f,
                                id |-> asks + 1]]
  /\ contested' = contested \cup {{p, q} : q \in others \cap {p, Opposite(p)}}
  /\ Goto(c, "own")
  /\ UNCHANGED <<dbVars, user_client, gotVars, clientVars, answers, logins, clock, mishaps,
                 doubled, undone>>

\* Variants: only the reverse direction is looked at, or only the own one.
FindOwnSkipped(c) ==
  /\ pc[c] = "own"
  /\ Goto(c, "reverse")
  /\ UNCHANGED <<dbVars, user_client, req, gotVars, clientVars, boundVars, raceVars>>

FindReverseSkipped(c) ==
  /\ pc[c] = "reverse"
  /\ Goto(c, "insert")
  /\ UNCHANGED <<dbVars, user_client, req, gotVars, clientVars, boundVars, raceVars>>

\* A user who already asked, or is a friend, is refused ...
FindOwn(c) ==
  /\ pc[c] = "own"
  /\ IF Active(req[c].user, req[c].friend) = {}
     THEN Goto(c, "reverse") /\ UNCHANGED <<req, gotVars>> ELSE Return(c)
  /\ UNCHANGED <<dbVars, user_client, clientVars, boundVars, raceVars>>

\* ... and so is one whom the other one already asked.
FindReverse(c) ==
  /\ pc[c] = "reverse"
  /\ IF Active(req[c].friend, req[c].user) = {}
     THEN Goto(c, "insert") /\ UNCHANGED <<req, gotVars>> ELSE Return(c)
  /\ UNCHANGED <<dbVars, user_client, clientVars, boundVars, raceVars>>

\* Variant: friend_status is left NULL.
InsertAskNoStatus(c) ==
  /\ pc[c] = "insert"
  /\ friend_info' = [friend_info EXCEPT ![req[c].id] =
       [user |-> req[c].user, friend |-> req[c].friend, status |-> None, add_time |-> clock]]
  /\ Goto(c, "fetch")
  /\ UNCHANGED <<saved, user_client, req, gotVars, clientVars, boundVars, raceVars>>

\* The response of success follows; the time is taken with the insert.
InsertAsk(c) ==
  /\ pc[c] = "insert"
  /\ friend_info' = [friend_info EXCEPT ![req[c].id] =
       [user |-> req[c].user, friend |-> req[c].friend, status |-> 0, add_time |-> clock]]
  /\ Goto(c, "fetch")
  /\ UNCHANGED <<saved, user_client, req, gotVars, clientVars, boundVars, raceVars>>

-----------------------------------------------------------------------------
(* handle_acceptfriend_message *)

\* Nothing is checked: there need not be such a request.  (There is never one to
\* oneself, so an answer to it adds no case.)
Answer(c, u, kind) ==
  /\ pc[c] = "idle" /\ answers < MaxAnswers /\ u # AccountOf[c]
  /\ answers' = answers + 1
  /\ req' = [req EXCEPT ![c] = [kind |-> kind, user |-> u, friend |-> AccountOf[c], id |-> 0]]
  /\ Goto(c, "update")
  /\ UNCHANGED <<dbVars, user_client, gotVars, clientVars, asks, logins, clock, mishaps, raceVars>>

\* update ... where friend_status=0, and a response of success for any row count
updata_friend_data_handle(c) ==
  /\ pc[c] = "update"
  /\ friend_info' = [i \in RowIds |->
       IF i \in Rows(req[c].user, req[c].friend) /\ friend_info[i].status = 0
       THEN [friend_info[i] EXCEPT !.status = IF req[c].kind = "accept" THEN 1 ELSE -1]
       ELSE friend_info[i]]
  /\ Goto(c, "fetch")
  /\ UNCHANGED <<saved, user_client, req, gotVars, clientVars, boundVars, raceVars>>

\* The error message is copied after it was freed and set to NULL.
UpdateFails(c) ==
  /\ pc[c] = "update"
  /\ Mishap
  /\ Die

-----------------------------------------------------------------------------
(* The notices that end both handlers *)

\* order by add_time desc limit 1
Latest(u, f) == {i \in Rows(u, f) :
                   \A j \in Rows(u, f) : friend_info[j].add_time <= friend_info[i].add_time}

consutrct_friend_ask_notice_msg(c) ==
  /\ pc[c] = "fetch"
  /\ \E i \in Latest(req[c].user, req[c].friend) : got' = [got EXCEPT ![c] = {i}]
  /\ Goto(c, "tell_self")
  /\ UNCHANGED <<dbVars, user_client, req, got_friends, clientVars, boundVars, raceVars>>

\* Row 0 is read whether or not there is one: the process dies, or a notice of no
\* request goes out.
NoRowToTell(c) ==
  /\ pc[c] = "fetch" /\ Rows(req[c].user, req[c].friend) = {}
  /\ \/ Die /\ UNCHANGED boundVars
     \/ /\ Goto(c, "tell_self")
        /\ UNCHANGED <<dbVars, user_client, req, gotVars, clientVars, boundVars, raceVars>>

\* One send to d: it arrives whole, or it does not, or it falls into a list.
Arrives(d) == ~Listing(d) /\ d \notin cut /\ UNCHANGED <<cut, boundVars>>
IsLost(d) ==
  /\ Cut({d})
  /\ \/ (Listing(d) \/ d \in cut) /\ UNCHANGED boundVars
     \/ ~Listing(d) /\ Mishap

TellSelf(c) ==
  /\ pc[c] = "tell_self"
  /\ \/ Arrives(c) /\ heard' = [heard EXCEPT ![c] = @ \cup got[c]] /\ UNCHANGED buddies
     \/ IsLost(c)
  /\ Goto(c, "tell_peer")
  /\ UNCHANGED <<dbVars, user_client, req, gotVars, raceVars>>

Peer(c) == IF req[c].kind = "ask" THEN req[c].friend ELSE req[c].user
PeerClient(c) == user_client[Peer(c)]

\* user_client.find and send: nothing when the peer is not logged in.
TellPeer(c) ==
  /\ pc[c] = "tell_peer"
  /\ \/ PeerClient(c) = None /\ UNCHANGED <<clientVars, boundVars>>
     \/ /\ PeerClient(c) # None /\ Arrives(PeerClient(c)) /\ UNCHANGED buddies
        /\ heard' = [heard EXCEPT ![PeerClient(c)] = @ \cup got[c]]
     \/ PeerClient(c) # None /\ IsLost(PeerClient(c))
  /\ IF req[c].kind = "accept" THEN Goto(c, "list_peer") /\ UNCHANGED <<req, gotVars>> ELSE Return(c)
  /\ UNCHANGED <<dbVars, user_client, raceVars>>

\* Variant: the user who accepted is told, the friend is not.
ListPeerForgotten(c) ==
  /\ pc[c] = "list_peer"
  /\ Goto(c, "list_self")
  /\ UNCHANGED <<dbVars, user_client, req, gotVars, clientVars, boundVars, raceVars>>

\* After ACCEPT_FRIEND_ASK both friend lists grow, whatever the update found.
ListPeer(c) ==
  /\ pc[c] = "list_peer"
  /\ \/ PeerClient(c) = None /\ UNCHANGED <<clientVars, boundVars>>
     \/ /\ PeerClient(c) # None /\ Arrives(PeerClient(c)) /\ UNCHANGED heard
        /\ buddies' = [buddies EXCEPT ![PeerClient(c)] = @ \cup {AccountOf[c]}]
     \/ PeerClient(c) # None /\ IsLost(PeerClient(c))
  /\ Goto(c, "list_self")
  /\ UNCHANGED <<dbVars, user_client, req, gotVars, raceVars>>

ListSelf(c) ==
  /\ pc[c] = "list_self"
  /\ \/ Arrives(c) /\ buddies' = [buddies EXCEPT ![c] = @ \cup {Peer(c)}] /\ UNCHANGED heard
     \/ IsLost(c)
  /\ Return(c)
  /\ UNCHANGED <<dbVars, user_client, raceVars>>

\* A SELECT or INSERT fails and the handler returns.  After the lists of a login, or
\* the notices of a request that is stored, somebody is not told.
StatementFails(c) ==
  /\ \/ Checking(c) /\ UNCHANGED <<clientVars, boundVars>>
     \/ pc[c] \in {"logged_in", "listed"} /\ Cut({c}) /\ Mishap
     \/ pc[c] = "fetch" /\ Cut({c, PeerClient(c)} \ {None}) /\ Mishap
  /\ Return(c)
  /\ UNCHANGED <<dbVars, user_client, raceVars>>

-----------------------------------------------------------------------------
ClientNext(c) ==
  \/ do_login(c) \/ get_addfriend_ask(c) \/ SendAskList(c) \/ AskListSent(c)
  \/ get_friendlist(c) \/ SendFriendList(c) \/ FriendListSent(c) \/ ListFails(c)
  \/ Disconnect(c) \/ Interrupt(c)
  \/ (\E f \in Accounts : Ask(c, f))
  \/ FindOwn(c) \/ FindReverse(c) \/ InsertAsk(c) \/ StatementFails(c)
  \/ (\E u \in Accounts, kind \in {"accept", "reject"} : Answer(c, u, kind))
  \/ updata_friend_data_handle(c) \/ UpdateFails(c)
  \/ consutrct_friend_ask_notice_msg(c) \/ NoRowToTell(c)
  \/ TellSelf(c) \/ TellPeer(c) \/ ListPeer(c) \/ ListSelf(c)

Next == Tick \/ Begin \/ Rollback \/ (\E c \in Clients : ClientNext(c))
Spec == Init /\ [][Next]_vars

-----------------------------------------------------------------------------
(* Properties *)

\* The values that every variable keeps; within the bounds.
TypeOK ==
  /\ friend_info \in Table /\ saved \in Table \cup {None}
  /\ user_client \in [Accounts -> Clients \cup {None}]
  /\ pc \in [Clients -> Pcs]
  /\ req \in [Clients -> Request \cup {None}]
  /\ got \in [Clients -> SUBSET RowIds] /\ heard \in [Clients -> SUBSET RowIds]
  /\ got_friends \in [Clients -> SUBSET Accounts]
  /\ buddies \in [Clients -> SUBSET Accounts]
  /\ asks \in 0..MaxAsks /\ answers \in 0..MaxAnswers /\ logins \in 0..MaxLogins
  /\ clock \in 0..MaxTime /\ mishaps \in 0..MaxMishaps
  /\ cut \subseteq Clients /\ doubled \subseteq Accounts
  /\ contested \subseteq SUBSET (Accounts \X Accounts)
  /\ undone \subseteq Accounts \X Accounts

\* The check-then-insert of addfriend_data_handle is not atomic and friend_info has no
\* key: still there is one live request per direction, unless two requests of that
\* direction (of two logins of one user) were checked at the same time, or a ROLLBACK
\* fell between check and insert.
OneActivePerDirection ==
  \A u, f \in Accounts :
    {<<u, f>>} \notin contested => \A i, j \in Active(u, f) : i = j

\* Two users never hold live requests of one another, unless they asked at the same time.
OneWayPerPair ==
  \A u, f \in Accounts :
    {<<u, f>>, <<f, u>>} \notin contested => Active(u, f) = {} \/ Active(f, u) = {}

\* No handler is at work: every notice is out.
Quiet == \A c \in Clients : pc[c] \in {"idle", "out"}

\* The connection that notices for its account go to, and nothing sent to it was lost.
Reached(c) == pc[c] = "idle" /\ user_client[AccountOf[c]] = c /\ c \notin cut

\* The row that "the latest" names, without a tie.
Newest(i) == \A j \in Rows(friend_info[i].user, friend_info[i].friend) \ {i} :
               friend_info[j].add_time < friend_info[i].add_time

\* A login that races a request misses nothing: a connection that got all that was sent
\* to it has heard of every request that involves its account, by the list of its login
\* or by a notice.  The notice to the sender goes to the connection that asked, so a
\* sender with several logins is left out, and so are requests that a ROLLBACK reached.
NoMissedAsk ==
  Quiet => \A c \in Clients : Reached(c) =>
    \A i \in Involving(AccountOf[c]) :
      /\ Newest(i) /\ <<friend_info[i].user, friend_info[i].friend>> \notin undone
      /\ friend_info[i].friend = AccountOf[c] \/ AccountOf[c] \notin doubled
      => i \in heard[c]

\* The same for friendships: whoever is logged in sees every friend in the list; the one
\* who accepted, on the connection that did.
NoMissedFriend ==
  Quiet => \A c \in Clients : Reached(c) =>
    \A i \in Involving(AccountOf[c]) :
      /\ friend_info[i].status = 1
      /\ friend_info[i].user = AccountOf[c] \/ AccountOf[c] \notin doubled
      => {friend_info[i].user, friend_info[i].friend} \ {AccountOf[c]} \subseteq buddies[c]
=============================================================================
