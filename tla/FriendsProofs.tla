---------------------------- MODULE FriendsProofs ----------------------------
(***************************************************************************)
(* Proofs about Friends, for any accounts, connections and bounds, with    *)
(* any number of logins of one account, failing statements and sends,      *)
(* rollbacks and crashes.                                                  *)
(***************************************************************************)
EXTENDS Friends, TLAPS

Working == {"own", "reverse", "insert", "update", "fetch", "tell_self", "tell_peer",
            "list_peer", "list_self"}

\* What a handler at work knows of its message.
Work(c) ==
  /\ req[c] \in Request /\ req[c].user # req[c].friend
  /\ req[c].kind = "ask" <=> req[c].user = AccountOf[c]
  /\ req[c].kind # "ask" <=> req[c].friend = AccountOf[c]
  /\ Checking(c) => req[c].kind = "ask"
  /\ pc[c] = "update" => req[c].kind # "ask"
  /\ pc[c] \in {"list_peer", "list_self"} => req[c].kind = "accept"
WorkInv == \A c \in Clients : pc[c] \in Working => Work(c)

\* The row that a request will insert is still free, and its number is its own.
SlotInv ==
  /\ \A i \in RowIds : i > asks => friend_info[i] = None
  /\ \A c \in Clients : Checking(c) =>
       req[c].id \in 1..asks /\ friend_info[req[c].id] = None
  /\ \A c, d \in Clients : Checking(c) /\ Checking(d) /\ req[c].id = req[d].id => c = d

\* Since BEGIN rows were added, and answered.
SavedInv ==
  saved # None => \A i \in RowIds : saved[i] # None =>
    /\ friend_info[i] # None
    /\ friend_info[i].user = saved[i].user /\ friend_info[i].friend = saved[i].friend
    /\ saved[i].status = 1 => friend_info[i].status = 1

\* Requests that are checked together are contested, and what a check has found is so until
\* the insert, unless they are.
CheckInv ==
  \A c \in Clients : Checking(c) =>
    /\ \A d \in Clients \ {c} :
         Checking(d) /\ Direction(d) \in {Direction(c), Opposite(Direction(c))} =>
           {Direction(c), Direction(d)} \in contested
    /\ pc[c] \in {"reverse", "insert"} /\ {Direction(c)} \notin contested =>
         Active(req[c].user, req[c].friend) = {}
    /\ pc[c] = "insert" /\ {Direction(c), Opposite(Direction(c))} \notin contested =>
         Active(req[c].friend, req[c].user) = {}

\* The two properties, of a table.
OneOf(t) ==
  \A u, f \in Accounts :
    /\ {<<u, f>>} \notin contested => \A i, j \in ActiveIn(t, u, f) : i = j
    /\ {<<u, f>>, <<f, u>>} \notin contested =>
         ActiveIn(t, u, f) = {} \/ ActiveIn(t, f, u) = {}
TableInv == OneOf(friend_info) /\ (saved # None => OneOf(saved))

BasicInv == TypeOK /\ WorkInv
IInv     == BasicInv /\ SlotInv /\ SavedInv /\ CheckInv /\ TableInv

\* user_client names connections that are logged in to the account: all of them, unless the
\* account is doubled.
ClientInv ==
  /\ \A a \in Accounts : user_client[a] # None =>
       AccountOf[user_client[a]] = a /\ pc[user_client[a]] # "out"
  /\ \A c \in Clients : pc[c] # "out" /\ AccountOf[c] \notin doubled =>
       user_client[AccountOf[c]] = c
  /\ \A c \in Clients : pc[c] = "out" => c \notin cut

\* The connection that notices for its account go to, as long as all of them arrive.
Served(c) == pc[c] # "out" /\ user_client[AccountOf[c]] = c /\ c \notin cut

\* The handler's request is in the direction of row i.
Concerns(d, i) == req[d].user = friend_info[i].user /\ req[d].friend = friend_info[i].friend

\* c has read its list of requests, and should know of row i ...
AskDue(c, i) ==
  /\ Served(c) /\ pc[c] # "logged_in" /\ i \in Involving(AccountOf[c]) /\ Newest(i)
  /\ <<friend_info[i].user, friend_info[i].friend>> \notin undone
  /\ friend_info[i].friend = AccountOf[c] \/ AccountOf[c] \notin doubled
\* ... and d is going to tell it.
AskComing(d, i, c) ==
  /\ \/ pc[d] = "fetch"
     \/ pc[d] = "tell_self" /\ i \in got[d]
     \/ pc[d] = "tell_peer" /\ i \in got[d] /\ friend_info[i].friend = AccountOf[c]
  /\ req[d].kind = "ask" /\ Concerns(d, i)
InAskList(c, i) == pc[c] \in {"ask_list", "sending_asks"} /\ i \in got[c]
AskInv ==
  \A c \in Clients, i \in RowIds : AskDue(c, i) =>
    i \in heard[c] \/ InAskList(c, i) \/ \E d \in Clients : AskComing(d, i, c)

\* The same for friends.
Other(i, c) == {friend_info[i].user, friend_info[i].friend} \ {AccountOf[c]}
FriendDue(c, i) ==
  /\ Served(c) /\ pc[c] \notin {"logged_in", "ask_list", "sending_asks", "listed"}
  /\ i \in Involving(AccountOf[c]) /\ friend_info[i].status = 1
  /\ friend_info[i].user = AccountOf[c] \/ AccountOf[c] \notin doubled
FriendComing(d, i, c) ==
  /\ pc[d] \in {"fetch", "tell_self", "tell_peer", "list_peer"} \/ (pc[d] = "list_self" /\ c = d)
  /\ req[d].kind = "accept" /\ Concerns(d, i)
InFriendList(c, i) ==
  pc[c] \in {"friend_list", "sending_friends"} /\ Other(i, c) \subseteq got_friends[c]
FriendInv ==
  \A c \in Clients, i \in RowIds : FriendDue(c, i) =>
    Other(i, c) \subseteq buddies[c] \/ InFriendList(c, i) \/ \E d \in Clients : FriendComing(d, i, c)

TellInv == ClientInv /\ AskInv /\ FriendInv

USE DEF Goto, dbVars, clientVars, boundVars, raceVars, gotVars, Working

-----------------------------------------------------------------------------
(* Parts that several steps share *)

\* A failure is counted within its bound.
LEMMA MishapType ==
  ASSUME TypeOK, Mishap
  PROVE  mishaps' \in 0..MaxMishaps /\ UNCHANGED <<asks, answers, logins, clock>>
BY FriendsAssumption DEF Mishap, TypeOK

\* What connections are told, and what is counted, after a send.
ToldType ==
  /\ heard' \in [Clients -> SUBSET RowIds] /\ buddies' \in [Clients -> SUBSET Accounts]
  /\ cut' \subseteq Clients /\ mishaps' \in 0..MaxMishaps
  /\ UNCHANGED <<asks, answers, logins, clock>>

LEMMA CutType ==
  ASSUME TypeOK, NEW S \in SUBSET Clients, Cut(S)
  PROVE  /\ heard' \in [Clients -> SUBSET RowIds] /\ buddies' \in [Clients -> SUBSET Accounts]
         /\ cut' \subseteq Clients
         /\ \A d \in Clients \ S : heard'[d] = heard[d] /\ buddies'[d] = buddies[d]
         /\ cut' = cut \cup S
BY DEF Cut, TypeOK

LEMMA LostType ==
  ASSUME TypeOK, NEW d \in Clients, IsLost(d)
  PROVE  ToldType
<1>1. UNCHANGED boundVars \/ Mishap
  BY DEF IsLost
<1>2. CASE UNCHANGED boundVars
  BY <1>2, CutType DEF IsLost, ToldType, TypeOK
<1>3. CASE Mishap
  BY <1>3, CutType, MishapType DEF IsLost, ToldType
<1> QED BY <1>1, <1>2, <1>3

\* The locals of a handler that returns.
LEMMA ReturnType ==
  ASSUME TypeOK, NEW c \in Clients, Return(c)
  PROVE  /\ pc' \in [Clients -> Pcs] /\ req' \in [Clients -> Request \cup {None}]
         /\ got' \in [Clients -> SUBSET RowIds] /\ got_friends' \in [Clients -> SUBSET Accounts]
         /\ pc'[c] = "idle"
         /\ \A d \in Clients \ {c} : pc'[d] = pc[d] /\ req'[d] = req[d] /\ got'[d] = got[d]
                                     /\ got_friends'[d] = got_friends[d]
BY DEF Return, TypeOK, Pcs

\* The other side of a handler's request.
LEMMA PeerType ==
  ASSUME TypeOK, WorkInv, NEW c \in Clients, pc[c] \in Working
  PROVE  Peer(c) \in Accounts /\ PeerClient(c) \in Clients \cup {None}
<1>1. Peer(c) \in Accounts
  BY DEF WorkInv, Work, Request, Peer
<1> QED BY <1>1 DEF PeerClient, TypeOK

\* The pairs that rows have.
LEMMA PairType ==
  ASSUME TypeOK, NEW i \in Ids
  PROVE  friend_info[i] \in Row /\ <<friend_info[i].user, friend_info[i].friend>> \in Accounts \X Accounts
<1>1. friend_info[i] \in Row
  BY DEF TypeOK, Table, Ids
<1> QED BY <1>1 DEF Row

\* A crash leaves a table, and nobody logged in.
LEMMA DieType ==
  ASSUME TypeOK, Die, UNCHANGED boundVars \/ Mishap
  PROVE  TypeOK' /\ \A c \in Clients : pc'[c] = "out"
<1>1. friend_info' \in Table /\ saved' = None
  BY DEF Die, TypeOK
<1>2. {<<friend_info[i].user, friend_info[i].friend>> : i \in Changed} \subseteq Accounts \X Accounts
  BY PairType DEF Changed
<1>3. undone' \subseteq Accounts \X Accounts
  BY <1>2 DEF Die, TypeOK
<1>4. /\ user_client' \in [Accounts -> Clients \cup {None}]
      /\ pc' \in [Clients -> Pcs] /\ \A c \in Clients : pc'[c] = "out"
      /\ req' \in [Clients -> Request \cup {None}]
      /\ got' \in [Clients -> SUBSET RowIds] /\ heard' \in [Clients -> SUBSET RowIds]
      /\ got_friends' \in [Clients -> SUBSET Accounts] /\ buddies' \in [Clients -> SUBSET Accounts]
      /\ cut' = {} /\ UNCHANGED <<doubled, contested>>
  BY DEF Die, Pcs
<1>5. /\ asks' \in 0..MaxAsks /\ answers' \in 0..MaxAnswers /\ logins' \in 0..MaxLogins
      /\ clock' \in 0..MaxTime /\ mishaps' \in 0..MaxMishaps
  BY MishapType DEF TypeOK
<1> QED BY <1>1, <1>3, <1>4, <1>5 DEF TypeOK

-----------------------------------------------------------------------------
(* Type correctness *)

LEMMA InitType == Init => TypeOK
<1> SUFFICES ASSUME Init PROVE TypeOK
  OBVIOUS
<1>1. \A a \in Accounts : FirstClient(a) \in Clients \cup {None}
  BY FriendsAssumption DEF FirstClient
<1>2. user_client \in [Accounts -> Clients \cup {None}] /\ pc \in [Clients -> Pcs]
  BY <1>1 DEF Init, Pcs
<1>3. friend_info \in Table /\ saved = None
  BY DEF Init, Table
<1> QED BY <1>2, <1>3, FriendsAssumption DEF Init, TypeOK

\* The steps of other threads.
LEMMA ThreadType ==
  ASSUME TypeOK, WorkInv, Tick \/ Begin \/ Rollback
  PROVE  TypeOK'
<1>1. CASE Tick
  BY <1>1, FriendsAssumption DEF Tick, TypeOK
<1>2. CASE Begin
  BY <1>2, MishapType DEF Begin, TypeOK
<1>3. CASE Rollback
  <2>1. {<<friend_info[i].user, friend_info[i].friend>> : i \in Changed} \subseteq Accounts \X Accounts
    BY PairType DEF Changed
  <2>2. \A d \in Clients : Checking(d) =>
          Direction(d) \in Accounts \X Accounts /\ Opposite(Direction(d)) \in Accounts \X Accounts
    BY DEF WorkInv, Work, Checking, Request, Direction, Opposite
  <2>3. undone' \subseteq Accounts \X Accounts
    BY <1>3, <2>1 DEF Rollback, TypeOK
  <2>4. contested' \subseteq SUBSET (Accounts \X Accounts)
    BY <1>3, <2>2 DEF Rollback, TypeOK
  <2> QED BY <1>3, <2>3, <2>4 DEF Rollback, TypeOK
<1> QED BY <1>1, <1>2, <1>3

\* A login and a disconnect.
LEMMA LoginType ==
  ASSUME TypeOK, NEW c \in Clients,
         \/ do_login(c) \/ get_addfriend_ask(c) \/ SendAskList(c) \/ AskListSent(c)
         \/ get_friendlist(c) \/ SendFriendList(c) \/ FriendListSent(c) \/ ListFails(c)
         \/ Disconnect(c) \/ Interrupt(c)
  PROVE  TypeOK'
<1>1. CASE do_login(c)
  <2>1. logins' \in 0..MaxLogins
    BY <1>1, FriendsAssumption DEF do_login, TypeOK
  <2>2. AccountOf[c] \in Accounts
    BY FriendsAssumption
  <2>3. doubled' \subseteq Accounts
    BY <1>1, <2>2 DEF do_login, TypeOK
  <2> QED BY <1>1, <2>1, <2>2, <2>3 DEF do_login, TypeOK, Pcs
<1>2. CASE get_addfriend_ask(c)
  BY <1>2 DEF get_addfriend_ask, TypeOK, Pcs, Involving, Ids
<1>3. CASE SendAskList(c)
  BY <1>3 DEF SendAskList, TypeOK, Pcs
<1>4. CASE AskListSent(c)
  BY <1>4 DEF AskListSent, TypeOK, Pcs
<1>5. CASE get_friendlist(c)
  <2>1. FriendsOf(AccountOf[c]) \subseteq Accounts
    BY DEF FriendsOf
  <2> QED BY <1>5, <2>1 DEF get_friendlist, TypeOK, Pcs
<1>6. CASE SendFriendList(c)
  BY <1>6 DEF SendFriendList, TypeOK, Pcs
<1>7. CASE FriendListSent(c)
  <2>1. buddies' \in [Clients -> SUBSET Accounts]
    BY <1>7 DEF FriendListSent, TypeOK
  <2> QED BY <1>7, <2>1, ReturnType DEF FriendListSent, TypeOK
<1>8. CASE ListFails(c)
  <2>1. Cut({c}) /\ Mishap
    BY <1>8 DEF ListFails
  <2> QED BY <1>8, <2>1, CutType, MishapType DEF ListFails, TypeOK, Pcs
<1>9. CASE Disconnect(c)
  BY <1>9 DEF Disconnect, TypeOK, Pcs
<1>10. CASE Interrupt(c)
  <2>1. Cut({c}) /\ Mishap
    BY <1>10 DEF Interrupt
  <2> QED BY <1>10, <2>1, CutType, MishapType DEF Interrupt, TypeOK
<1> QED BY <1>1, <1>2, <1>3, <1>4, <1>5, <1>6, <1>7, <1>8, <1>9, <1>10

\* A request up to its row, and an answer up to its update.
LEMMA HandlerType ==
  ASSUME TypeOK, WorkInv, NEW c \in Clients,
         \/ (\E f \in Accounts : Ask(c, f)) \/ FindOwn(c) \/ FindReverse(c) \/ InsertAsk(c)
         \/ (\E u \in Accounts, kind \in {"accept", "reject"} : Answer(c, u, kind))
         \/ updata_friend_data_handle(c) \/ UpdateFails(c) \/ StatementFails(c)
  PROVE  TypeOK'
<1>1. ASSUME NEW f \in Accounts, Ask(c, f) PROVE TypeOK'
  <2> DEFINE p == <<AccountOf[c], f>>
             others == {Direction(d) : d \in {e \in Clients : Checking(e)}}
  <2>1. p \in Accounts \X Accounts
    BY FriendsAssumption
  <2>2. req' \in [Clients -> Request \cup {None}] /\ asks' \in 0..MaxAsks
    <3>1. asks + 1 \in 0..MaxAsks /\ asks' = asks + 1
      BY <1>1, FriendsAssumption DEF Ask, TypeOK
    <3>2. [kind |-> "ask", user |-> AccountOf[c], friend |-> f, id |-> asks + 1] \in Request
      BY <3>1, FriendsAssumption DEF Request
    <3> QED BY <1>1, <3>1, <3>2 DEF Ask, TypeOK
  <2>3. \A q \in others \cap {p, Opposite(p)} : {p, q} \subseteq Accounts \X Accounts
    BY <2>1 DEF Opposite
  <2>4. contested' = contested \cup {{p, q} : q \in others \cap {p, Opposite(p)}}
    BY <1>1 DEF Ask
  <2> HIDE DEF p, others
  <2>5. contested' \subseteq SUBSET (Accounts \X Accounts)
    BY <2>3, <2>4 DEF TypeOK
  <2> QED BY <1>1, <2>2, <2>5 DEF Ask, TypeOK, Pcs
<1>2. CASE FindOwn(c) \/ FindReverse(c)
  <2>1. CASE Return(c)
    BY <1>2, <2>1, ReturnType DEF FindOwn, FindReverse, TypeOK
  <2>2. CASE \E label \in {"reverse", "insert"} : Goto(c, label) /\ UNCHANGED <<req, gotVars>>
    BY <1>2, <2>2 DEF FindOwn, FindReverse, TypeOK, Pcs
  <2> QED BY <1>2, <2>1, <2>2 DEF FindOwn, FindReverse
<1>3. CASE InsertAsk(c)
  <2>1. [user |-> req[c].user, friend |-> req[c].friend, status |-> 0, add_time |-> clock] \in Row
    BY <1>3, FriendsAssumption DEF InsertAsk, WorkInv, Work, Request, Row, TypeOK
  <2>2. friend_info' \in Table
    BY <1>3, <2>1 DEF InsertAsk, TypeOK, Table
  <2> QED BY <1>3, <2>2 DEF InsertAsk, TypeOK, Pcs
<1>4. ASSUME NEW u \in Accounts, NEW kind \in {"accept", "reject"}, Answer(c, u, kind) PROVE TypeOK'
  <2>1. [kind |-> kind, user |-> u, friend |-> AccountOf[c], id |-> 0] \in Request
    BY FriendsAssumption DEF Request
  <2>2. answers' \in 0..MaxAnswers
    BY <1>4, FriendsAssumption DEF Answer, TypeOK
  <2> QED BY <1>4, <2>1, <2>2 DEF Answer, TypeOK, Pcs
<1>5. CASE updata_friend_data_handle(c)
  <2>1. \A i \in Rows(req[c].user, req[c].friend) : friend_info[i] \in Row
    BY PairType DEF Rows, RowsIn, Ids
  <2>2. friend_info' \in Table
    BY <1>5, <2>1 DEF updata_friend_data_handle, TypeOK, Table, Row
  <2> QED BY <1>5, <2>2 DEF updata_friend_data_handle, TypeOK, Pcs
<1>6. CASE UpdateFails(c)
  BY <1>6, DieType DEF UpdateFails
<1>7. CASE StatementFails(c)
  <2>1. /\ heard' \in [Clients -> SUBSET RowIds] /\ buddies' \in [Clients -> SUBSET Accounts]
        /\ cut' \subseteq Clients /\ mishaps' \in 0..MaxMishaps
        /\ UNCHANGED <<asks, answers, logins, clock>>
    <3>1. CASE UNCHANGED <<clientVars, boundVars>>
      BY <3>1 DEF TypeOK
    <3>2. ASSUME Mishap, NEW S \in SUBSET Clients, Cut(S)
          PROVE  /\ heard' \in [Clients -> SUBSET RowIds] /\ buddies' \in [Clients -> SUBSET Accounts]
                 /\ cut' \subseteq Clients /\ mishaps' \in 0..MaxMishaps
                 /\ UNCHANGED <<asks, answers, logins, clock>>
      BY <3>2, CutType, MishapType
    <3>3. CASE pc[c] = "fetch" /\ Cut({c, PeerClient(c)} \ {None}) /\ Mishap
      <4>1. {c, PeerClient(c)} \ {None} \in SUBSET Clients
        BY <3>3, PeerType
      <4> QED BY <3>2, <3>3, <4>1
    <3>4. CASE Cut({c}) /\ Mishap
      BY <3>2, <3>4
    <3> QED BY <1>7, <3>1, <3>3, <3>4 DEF StatementFails
  <2> QED BY <1>7, <2>1, ReturnType DEF StatementFails, TypeOK
<1> QED BY <1>1, <1>2, <1>3, <1>4, <1>5, <1>6, <1>7

\* The notices of a handler.
LEMMA NoticeType ==
  ASSUME TypeOK, WorkInv, NEW c \in Clients,
         \/ consutrct_friend_ask_notice_msg(c) \/ NoRowToTell(c)
         \/ TellSelf(c) \/ TellPeer(c) \/ ListPeer(c) \/ ListSelf(c)
  PROVE  TypeOK'
<1>1. CASE consutrct_friend_ask_notice_msg(c)
  <2>1. Latest(req[c].user, req[c].friend) \subseteq RowIds
    BY DEF Latest, Rows, RowsIn
  <2> QED BY <1>1, <2>1 DEF consutrct_friend_ask_notice_msg, TypeOK, Pcs
<1>2. CASE NoRowToTell(c)
  <2>1. CASE Die /\ UNCHANGED boundVars
    BY <2>1, DieType
  <2>2. CASE Goto(c, "tell_self") /\ UNCHANGED <<dbVars, user_client, req, gotVars, clientVars, boundVars, raceVars>>
    BY <2>2 DEF TypeOK, Pcs
  <2> QED BY <1>2, <2>1, <2>2 DEF NoRowToTell
<1>3. CASE TellSelf(c)
  <2>1. ToldType
    <3>1. CASE Arrives(c) /\ heard' = [heard EXCEPT ![c] = @ \cup got[c]] /\ UNCHANGED buddies
      BY <3>1 DEF Arrives, ToldType, TypeOK
    <3> QED BY <1>3, <3>1, LostType DEF TellSelf
  <2> QED BY <1>3, <2>1 DEF TellSelf, ToldType, TypeOK, Pcs
<1>4. CASE TellPeer(c)
  <2>1. ToldType
    <3>1. CASE UNCHANGED <<clientVars, boundVars>>
      BY <3>1 DEF ToldType, TypeOK
    <3>2. CASE Arrives(PeerClient(c)) /\ UNCHANGED buddies /\
               heard' = [heard EXCEPT ![PeerClient(c)] = @ \cup got[c]]
      BY <3>2 DEF Arrives, ToldType, TypeOK
    <3>3. CASE PeerClient(c) # None /\ IsLost(PeerClient(c))
      BY <1>4, <3>3, PeerType, LostType DEF TellPeer
    <3> QED BY <1>4, <3>1, <3>2, <3>3 DEF TellPeer
  <2>2. CASE Return(c)
    BY <1>4, <2>1, <2>2, ReturnType DEF TellPeer, ToldType, TypeOK
  <2>3. CASE Goto(c, "list_peer") /\ UNCHANGED <<req, gotVars>>
    BY <1>4, <2>1, <2>3 DEF TellPeer, ToldType, TypeOK, Pcs
  <2> QED BY <1>4, <2>2, <2>3 DEF TellPeer
<1>5. CASE ListPeer(c)
  <2>1. ToldType
    <3>1. CASE UNCHANGED <<clientVars, boundVars>>
      BY <3>1 DEF ToldType, TypeOK
    <3>2. CASE Arrives(PeerClient(c)) /\ UNCHANGED heard /\
               buddies' = [buddies EXCEPT ![PeerClient(c)] = @ \cup {AccountOf[c]}]
      BY <3>2, FriendsAssumption DEF Arrives, ToldType, TypeOK
    <3>3. CASE PeerClient(c) # None /\ IsLost(PeerClient(c))
      BY <1>5, <3>3, PeerType, LostType DEF ListPeer
    <3> QED BY <1>5, <3>1, <3>2, <3>3 DEF ListPeer
  <2> QED BY <1>5, <2>1 DEF ListPeer, ToldType, TypeOK, Pcs
<1>6. CASE ListSelf(c)
  <2>1. ToldType
    <3>1. CASE Arrives(c) /\ buddies' = [buddies EXCEPT ![c] = @ \cup {Peer(c)}] /\ UNCHANGED heard
      BY <1>6, <3>1, PeerType DEF ListSelf, Arrives, ToldType, TypeOK
    <3> QED BY <1>6, <3>1, LostType DEF ListSelf
  <2> QED BY <1>6, <2>1, ReturnType DEF ListSelf, ToldType, TypeOK
<1> QED BY <1>1, <1>2, <1>3, <1>4, <1>5, <1>6

LEMMA TypeStep == TypeOK /\ WorkInv /\ [Next]_vars => TypeOK'
<1> SUFFICES ASSUME TypeOK, WorkInv, [Next]_vars PROVE TypeOK'
  OBVIOUS
<1>1. CASE UNCHANGED vars
  BY <1>1 DEF vars, TypeOK
<1>2. ASSUME NEW c \in Clients, ClientNext(c) PROVE TypeOK'
  BY <1>2, LoginType, HandlerType, NoticeType DEF ClientNext
<1> QED BY <1>1, <1>2, ThreadType DEF Next

\* A step of one handler leaves the others where they are, unless the process dies.
LEMMA OthersKeep ==
  ASSUME TypeOK, NEW c \in Clients, ClientNext(c)
  PROVE  \/ Die
         \/ \A d \in Clients \ {c} : /\ pc'[d] = pc[d] /\ req'[d] = req[d]
                                     /\ got'[d] = got[d] /\ got_friends'[d] = got_friends[d]
<1> DEFINE Keep == \A d \in Clients \ {c} : /\ pc'[d] = pc[d] /\ req'[d] = req[d]
                                           /\ got'[d] = got[d] /\ got_friends'[d] = got_friends[d]
<1>1. CASE \/ do_login(c) \/ get_addfriend_ask(c) \/ SendAskList(c) \/ AskListSent(c)
           \/ get_friendlist(c) \/ SendFriendList(c) \/ ListFails(c) \/ Disconnect(c) \/ Interrupt(c)
  BY <1>1 DEF do_login, get_addfriend_ask, SendAskList, AskListSent, get_friendlist,
              SendFriendList, ListFails, Disconnect, Interrupt, TypeOK
<1>2. CASE FriendListSent(c) \/ StatementFails(c) \/ ListSelf(c)
  BY <1>2, ReturnType DEF FriendListSent, StatementFails, ListSelf
<1>3. CASE FindOwn(c) \/ FindReverse(c) \/ TellPeer(c)
  <2>1. CASE Return(c)
    BY <2>1, ReturnType
  <2>2. CASE UNCHANGED <<req, gotVars>> /\ \E label \in Pcs : Goto(c, label)
    BY <2>2 DEF TypeOK
  <2> QED BY <1>3, <2>1, <2>2 DEF FindOwn, FindReverse, TellPeer, Pcs
<1>4. CASE (\E f \in Accounts : Ask(c, f)) \/ InsertAsk(c)
           \/ (\E u \in Accounts, kind \in {"accept", "reject"} : Answer(c, u, kind))
           \/ updata_friend_data_handle(c)
  BY <1>4 DEF Ask, InsertAsk, Answer, updata_friend_data_handle, TypeOK
<1>5. CASE UpdateFails(c)
  BY <1>5 DEF UpdateFails
<1>6. CASE consutrct_friend_ask_notice_msg(c) \/ TellSelf(c) \/ ListPeer(c)
  BY <1>6 DEF consutrct_friend_ask_notice_msg, TellSelf, ListPeer, TypeOK
<1>7. CASE NoRowToTell(c)
  BY <1>7 DEF NoRowToTell, TypeOK
<1> QED BY <1>1, <1>2, <1>3, <1>4, <1>5, <1>6, <1>7 DEF ClientNext

-----------------------------------------------------------------------------
(* What handlers know of their messages *)

LEMMA WorkStep == TypeOK /\ WorkInv /\ [Next]_vars => WorkInv'
<1> SUFFICES ASSUME TypeOK, WorkInv, [Next]_vars PROVE WorkInv'
  OBVIOUS
<1>1. CASE UNCHANGED <<pc, req>>
  BY <1>1 DEF WorkInv, Work, Checking
<1>2. CASE Tick \/ Begin \/ Rollback \/ UNCHANGED vars
  BY <1>1, <1>2 DEF Tick, Begin, Rollback, vars
<1>3. ASSUME NEW c \in Clients, ClientNext(c) PROVE WorkInv'
  <2>1. CASE Die
    BY <2>1 DEF Die, WorkInv
  <2>2. SUFFICES ASSUME \A d \in Clients \ {c} : pc'[d] = pc[d] /\ req'[d] = req[d]
                 PROVE  WorkInv'
    BY <1>3, <2>1, OthersKeep
  <2>3. \A d \in Clients \ {c} : Checking(d)' <=> Checking(d)
    BY <2>2 DEF Checking
  <2>4. SUFFICES ASSUME pc'[c] \in Working, ~Die PROVE Work(c)'
    BY <2>1, <2>2, <2>3 DEF WorkInv, Work
  <2>6. CASE \/ do_login(c) \/ get_addfriend_ask(c) \/ SendAskList(c) \/ AskListSent(c)
             \/ get_friendlist(c) \/ SendFriendList(c) \/ ListFails(c) \/ Disconnect(c)
    BY <2>4, <2>6 DEF do_login, get_addfriend_ask, SendAskList, AskListSent,
                      get_friendlist, SendFriendList, ListFails, Disconnect, TypeOK
  <2>7. CASE FriendListSent(c) \/ StatementFails(c) \/ ListSelf(c) \/ Return(c)
    BY <2>4, <2>7, ReturnType DEF FriendListSent, StatementFails, ListSelf
  <2>8. CASE Interrupt(c)
    BY <2>4, <2>8 DEF Interrupt, WorkInv, Work, Checking
  <2>9. CASE (FindOwn(c) \/ FindReverse(c) \/ TellPeer(c)) /\ ~Return(c)
    BY <2>9 DEF FindOwn, FindReverse, TellPeer, WorkInv, Work, Checking, TypeOK
  <2>10. ASSUME NEW f \in Accounts, Ask(c, f) PROVE Work(c)'
    <3>1. asks + 1 \in 0..MaxAsks
      BY <2>10, FriendsAssumption DEF Ask, TypeOK
    <3>2. [kind |-> "ask", user |-> AccountOf[c], friend |-> f, id |-> asks + 1] \in Request
      BY <3>1, FriendsAssumption DEF Request
    <3> QED BY <2>10, <3>2 DEF Ask, TypeOK, Checking, Work, Request
  <2>11. ASSUME NEW u \in Accounts, NEW kind \in {"accept", "reject"}, Answer(c, u, kind) PROVE Work(c)'
    <3>1. [kind |-> kind, user |-> u, friend |-> AccountOf[c], id |-> 0] \in Request
      BY FriendsAssumption DEF Request
    <3> QED BY <2>11, <3>1 DEF Answer, TypeOK, Checking, Work, Request
  <2>12. CASE InsertAsk(c) \/ updata_friend_data_handle(c) \/ consutrct_friend_ask_notice_msg(c)
              \/ NoRowToTell(c) \/ TellSelf(c) \/ ListPeer(c)
    BY <2>4, <2>12 DEF InsertAsk, updata_friend_data_handle, consutrct_friend_ask_notice_msg,
                NoRowToTell, TellSelf, ListPeer, WorkInv, Work, Checking, TypeOK
  <2>13. CASE UpdateFails(c)
    BY <2>4, <2>13 DEF UpdateFails
  <2> QED BY <1>3, <2>4, <2>6, <2>7, <2>8, <2>9, <2>10, <2>11, <2>12, <2>13 DEF ClientNext
<1> QED BY <1>2, <1>3 DEF Next

-----------------------------------------------------------------------------
(* The table: a request inserts at a free place, an answer changes a status *)

\* A step that writes the table does one of these.
Inserts(c) ==
  /\ pc[c] = "insert" /\ pc'[c] = "fetch" /\ req'[c] = req[c]
  /\ friend_info' = [friend_info EXCEPT ![req[c].id] =
       [user |-> req[c].user, friend |-> req[c].friend, status |-> 0, add_time |-> clock]]
  /\ UNCHANGED saved
Updates(c) ==
  /\ pc[c] = "update" /\ pc'[c] = "fetch" /\ req'[c] = req[c]
  /\ \A i \in RowIds : \/ friend_info'[i] = friend_info[i]
                       \/ /\ i \in Rows(req[c].user, req[c].friend) /\ friend_info[i].status = 0
                          /\ \E s \in {-1, 1} : /\ friend_info'[i] = [friend_info[i] EXCEPT !.status = s]
                                                /\ s = 1 => req[c].kind = "accept"
  /\ UNCHANGED saved

LEMMA TableWrites ==
  ASSUME TypeOK, NEW c \in Clients, ClientNext(c)
  PROVE  Inserts(c) \/ Updates(c) \/ Die \/ UNCHANGED dbVars
<1>1. CASE \/ do_login(c) \/ get_addfriend_ask(c) \/ SendAskList(c) \/ AskListSent(c)
           \/ get_friendlist(c) \/ SendFriendList(c) \/ FriendListSent(c) \/ ListFails(c)
           \/ Disconnect(c) \/ Interrupt(c)
  BY <1>1 DEF do_login, get_addfriend_ask, SendAskList, AskListSent, get_friendlist,
              SendFriendList, FriendListSent, ListFails, Disconnect, Interrupt
<1>2. CASE \/ (\E f \in Accounts : Ask(c, f)) \/ FindOwn(c) \/ FindReverse(c) \/ StatementFails(c)
           \/ (\E u \in Accounts, kind \in {"accept", "reject"} : Answer(c, u, kind))
           \/ consutrct_friend_ask_notice_msg(c) \/ NoRowToTell(c)
           \/ TellSelf(c) \/ TellPeer(c) \/ ListPeer(c) \/ ListSelf(c)
  BY <1>2 DEF Ask, FindOwn, FindReverse, StatementFails, Answer, consutrct_friend_ask_notice_msg,
              NoRowToTell, TellSelf, TellPeer, ListPeer, ListSelf
<1>3. CASE InsertAsk(c)
  BY <1>3 DEF InsertAsk, Inserts, TypeOK
<1>4. CASE updata_friend_data_handle(c)
  BY <1>4 DEF updata_friend_data_handle, Updates, TypeOK
<1>5. CASE UpdateFails(c)
  BY <1>5 DEF UpdateFails
<1> QED BY <1>1, <1>2, <1>3, <1>4, <1>5 DEF ClientNext

\* A check goes on, or begins with a new request.
LEMMA Checks ==
  ASSUME TypeOK, NEW c \in Clients, ClientNext(c), Checking(c)'
  PROVE  \/ /\ Checking(c) /\ req'[c] = req[c] /\ asks' = asks
            /\ ~Inserts(c) /\ ~Updates(c) /\ UNCHANGED dbVars
            /\ \/ pc'[c] = pc[c] 
               \/ pc[c] = "own" /\ pc'[c] = "reverse" /\ Active(req[c].user, req[c].friend) = {}
               \/ pc[c] = "reverse" /\ pc'[c] = "insert" /\ Active(req[c].friend, req[c].user) = {}
         \/ \E f \in Accounts : Ask(c, f)
<1>1. CASE Die
  BY <1>1 DEF Die, Checking
<1>2. CASE \/ do_login(c) \/ get_addfriend_ask(c) \/ SendAskList(c) \/ AskListSent(c)
           \/ get_friendlist(c) \/ SendFriendList(c) \/ ListFails(c) \/ Disconnect(c)
  BY <1>2 DEF do_login, get_addfriend_ask, SendAskList, AskListSent,
              get_friendlist, SendFriendList, ListFails, Disconnect, TypeOK, Checking
<1>3. CASE FriendListSent(c) \/ StatementFails(c) \/ ListSelf(c) \/ Return(c)
  BY <1>3, ReturnType DEF FriendListSent, StatementFails, ListSelf, Checking
<1>4. CASE Interrupt(c)
  BY <1>4 DEF Interrupt, Listing, Checking
<1>5. CASE (FindOwn(c) \/ FindReverse(c)) /\ ~Return(c)
  BY <1>5 DEF FindOwn, FindReverse, Checking, TypeOK, Inserts, Updates
<1>6. CASE TellPeer(c) /\ ~Return(c)
  BY <1>6 DEF TellPeer, Checking, TypeOK
<1>7. CASE (\E u \in Accounts, kind \in {"accept", "reject"} : Answer(c, u, kind)) \/ InsertAsk(c)
           \/ updata_friend_data_handle(c) \/ consutrct_friend_ask_notice_msg(c)
           \/ (NoRowToTell(c) /\ ~Die) \/ TellSelf(c) \/ ListPeer(c)
  BY <1>7 DEF Answer, InsertAsk, updata_friend_data_handle, consutrct_friend_ask_notice_msg,
              NoRowToTell, TellSelf, ListPeer, Checking, TypeOK
<1>8. CASE UpdateFails(c)
  BY <1>1, <1>8 DEF UpdateFails
<1> QED BY <1>1, <1>2, <1>3, <1>4, <1>5, <1>6, <1>7, <1>8 DEF ClientNext

\* Only a request counts as one, and only a request, or a ROLLBACK, makes others contested.
LEMMA Unasked ==
  ASSUME TypeOK, NEW c \in Clients, ClientNext(c)
  PROVE  UNCHANGED <<asks, contested>> \/ \E f \in Accounts : Ask(c, f)
<1>1. CASE \/ do_login(c) \/ get_addfriend_ask(c) \/ SendAskList(c) \/ AskListSent(c)
           \/ get_friendlist(c) \/ SendFriendList(c) \/ FriendListSent(c) \/ ListFails(c)
           \/ Disconnect(c) \/ Interrupt(c)
  BY <1>1 DEF do_login, get_addfriend_ask, SendAskList, AskListSent, get_friendlist,
              SendFriendList, FriendListSent, ListFails, Disconnect, Interrupt, Mishap
<1>2. CASE \/ FindOwn(c) \/ FindReverse(c) \/ InsertAsk(c) \/ StatementFails(c)
           \/ (\E u \in Accounts, kind \in {"accept", "reject"} : Answer(c, u, kind))
           \/ updata_friend_data_handle(c) \/ UpdateFails(c)
           \/ consutrct_friend_ask_notice_msg(c) \/ NoRowToTell(c)
  BY <1>2 DEF FindOwn, FindReverse, InsertAsk, StatementFails, Answer, updata_friend_data_handle,
              UpdateFails, consutrct_friend_ask_notice_msg, NoRowToTell, Mishap, Die
<1>3. CASE TellSelf(c) \/ TellPeer(c) \/ ListPeer(c) \/ ListSelf(c)
  BY <1>3 DEF TellSelf, TellPeer, ListPeer, ListSelf, Arrives, IsLost, Mishap
<1> QED BY <1>1, <1>2, <1>3 DEF ClientNext

LEMMA ContestedGrows ==
  ASSUME TypeOK, [Next]_vars
  PROVE  contested \subseteq contested'
<1>1. CASE Tick \/ Begin \/ Rollback \/ UNCHANGED vars
  BY <1>1 DEF Tick, Begin, Rollback, vars
<1>2. ASSUME NEW c \in Clients, ClientNext(c) PROVE contested \subseteq contested'
  BY <1>2, Unasked DEF Ask
<1> QED BY <1>1, <1>2 DEF Next

LEMMA SlotStep == TypeOK /\ WorkInv /\ SlotInv /\ SavedInv /\ [Next]_vars => SlotInv'
<1> SUFFICES ASSUME TypeOK, WorkInv, SlotInv, SavedInv, [Next]_vars PROVE SlotInv'
  OBVIOUS
<1>1. CASE Tick \/ Begin \/ UNCHANGED vars
  BY <1>1 DEF Tick, Begin, vars, SlotInv, Checking, Mishap
<1>2. CASE Rollback
  <2>1. \A i \in RowIds : friend_info[i] = None => friend_info'[i] = None
    BY <1>2 DEF Rollback, SavedInv
  <2>2. UNCHANGED <<pc, req, asks>>
    BY <1>2 DEF Rollback
  <2>3. \A d \in Clients : Checking(d) => req[d].id \in RowIds
    BY FriendsAssumption DEF SlotInv, TypeOK, RowIds
  <2> QED BY <2>1, <2>2, <2>3 DEF SlotInv, Checking
<1>3. ASSUME NEW c \in Clients, ClientNext(c) PROVE SlotInv'
  <2>1. CASE Die
    <3>1. \A i \in RowIds : friend_info[i] = None => friend_info'[i] = None
      BY <2>1 DEF Die, SavedInv
    <3>2. UNCHANGED asks
      BY <1>3, <2>1, Unasked DEF Die, Ask, TypeOK
    <3> QED BY <2>1, <3>1, <3>2 DEF Die, SlotInv, Checking
  <2>2. SUFFICES ASSUME ~Die, \A d \in Clients \ {c} : pc'[d] = pc[d] /\ req'[d] = req[d]
                 PROVE  SlotInv'
    BY <1>3, <2>1, OthersKeep
  <2>3. \A i \in RowIds : friend_info[i] = None =>
          friend_info'[i] = None \/ (Inserts(c) /\ i = req[c].id)
    BY <1>3, <2>2, TableWrites DEF Inserts, Updates, Rows, RowsIn, TypeOK, Table
  <2>4. \A d \in Clients \ {c} : Checking(d)' <=> Checking(d)
    BY <2>2 DEF Checking
  <2>5. CASE \E f \in Accounts : Ask(c, f)
    <3>1. /\ asks' = asks + 1 /\ asks + 1 \in RowIds /\ req'[c].id = asks + 1
          /\ UNCHANGED friend_info /\ asks \in Nat
      BY <2>5, FriendsAssumption DEF Ask, TypeOK, RowIds
    <3> QED BY <2>2, <2>4, <3>1 DEF SlotInv, RowIds
  <2>6. CASE UNCHANGED asks /\ ~\E f \in Accounts : Ask(c, f)
    <3>1. Checking(c)' => Checking(c) /\ req'[c] = req[c] /\ ~Inserts(c)
      BY <1>3, <2>6, Checks
    <3>2. Inserts(c) => Checking(c) /\ ~Checking(c)'
      BY DEF Inserts, Checking
    <3>3. \A d \in Clients : Checking(d)' => Checking(d) /\ req'[d] = req[d]
      BY <2>2, <2>4, <3>1
    <3>4. \A i \in RowIds : i > asks => friend_info'[i] = None
      BY <2>3, <3>2 DEF SlotInv, TypeOK
    <3>5. \A d \in Clients : Checking(d)' => friend_info'[req[d].id] = None
      BY <2>3, <3>2, <3>3, FriendsAssumption DEF SlotInv, RowIds, TypeOK
    <3> QED BY <2>6, <3>3, <3>4, <3>5 DEF SlotInv
  <2> QED BY <1>3, <2>5, <2>6, Unasked DEF Ask
<1> QED BY <1>1, <1>2, <1>3 DEF Next

LEMMA SavedStep == TypeOK /\ WorkInv /\ SlotInv /\ SavedInv /\ [Next]_vars => SavedInv'
<1> SUFFICES ASSUME TypeOK, WorkInv, SlotInv, SavedInv, [Next]_vars PROVE SavedInv'
  OBVIOUS
<1>1. CASE UNCHANGED dbVars \/ saved' = None
  BY <1>1 DEF SavedInv
<1>2. CASE Tick \/ Rollback \/ UNCHANGED vars
  BY <1>1, <1>2 DEF Tick, Rollback, vars
<1>3. CASE Begin
  BY <1>3 DEF Begin, SavedInv
<1>4. ASSUME NEW c \in Clients, ClientNext(c) PROVE SavedInv'
  <2>1. CASE Inserts(c)
    <3>1. friend_info[req[c].id] = None /\ req[c].id \in RowIds
      BY <2>1, FriendsAssumption DEF Inserts, SlotInv, Checking, TypeOK, RowIds
    <3> QED BY <2>1, <3>1 DEF Inserts, SavedInv, TypeOK, Table
  <2>2. CASE Updates(c)
    <3>1. ASSUME NEW i \in RowIds, friend_info[i] # None
          PROVE  /\ friend_info'[i] # None
                 /\ friend_info'[i].user = friend_info[i].user
                 /\ friend_info'[i].friend = friend_info[i].friend
                 /\ friend_info[i].status = 1 => friend_info'[i].status = 1
      <4>1. friend_info[i] \in Row
        BY <3>1 DEF TypeOK, Table
      <4>2. \A s \in {-1, 1} : [friend_info[i] EXCEPT !.status = s] \in Row
        BY <4>1 DEF Row
      <4> QED BY <2>2, <3>1, <4>1, <4>2, FriendsAssumption DEF Updates, Row
    <3> QED BY <2>2, <3>1 DEF Updates, SavedInv
  <2> QED BY <1>1, <1>4, <2>1, <2>2, TableWrites DEF Die
<1> QED BY <1>1, <1>2, <1>3, <1>4 DEF Next

-----------------------------------------------------------------------------
(* One live request per direction, and per pair *)

\* An answer makes no request live that was not.
LEMMA UpdateActive ==
  ASSUME TypeOK, NEW c \in Clients, Updates(c), NEW u, NEW f
  PROVE  ActiveIn(friend_info', u, f) \subseteq Active(u, f)
<1> SUFFICES ASSUME NEW i \in ActiveIn(friend_info', u, f) PROVE i \in Active(u, f)
  OBVIOUS
<1>1. i \in RowIds /\ friend_info'[i] # None /\ friend_info'[i].user = u
      /\ friend_info'[i].friend = f /\ friend_info'[i].status # -1
  BY DEF ActiveIn, RowsIn
<1>2. CASE friend_info'[i] = friend_info[i]
  BY <1>1, <1>2 DEF Active, ActiveIn, RowsIn
<1>3. CASE i \in Rows(req[c].user, req[c].friend) /\ friend_info[i].status = 0
           /\ \E s \in {-1, 1} : friend_info'[i] = [friend_info[i] EXCEPT !.status = s]
  <2>1. friend_info[i] \in Row /\ friend_info[i] # None
    BY <1>1, <1>3 DEF Rows, RowsIn, TypeOK, Table
  <2>2. friend_info'[i].user = friend_info[i].user /\ friend_info'[i].friend = friend_info[i].friend
    BY <1>3, <2>1 DEF Row
  <2> QED BY <1>1, <1>3, <2>1, <2>2 DEF Active, ActiveIn, RowsIn
<1> QED BY <1>1, <1>2, <1>3 DEF Updates

\* A request adds its row to its direction, and to no other.
LEMMA InsertActive ==
  ASSUME TypeOK, WorkInv, SlotInv, NEW c \in Clients, Inserts(c), NEW u, NEW f
  PROVE  /\ req[c].id \in RowIds
         /\ ActiveIn(friend_info', u, f) =
              IF Direction(c) = <<u, f>> THEN Active(u, f) \cup {req[c].id} ELSE Active(u, f)
<1> DEFINE row == [user |-> req[c].user, friend |-> req[c].friend, status |-> 0, add_time |-> clock]
<1>1. req[c].id \in RowIds /\ friend_info[req[c].id] = None
  BY FriendsAssumption DEF Inserts, SlotInv, Checking, TypeOK, RowIds
<1>2. row # None /\ row.status # -1 /\ row.user = req[c].user /\ row.friend = req[c].friend
  <2>1. req[c].user \in Accounts /\ req[c].friend \in Accounts /\ clock \in Nat
    BY FriendsAssumption DEF Inserts, WorkInv, Work, Request, TypeOK
  <2> QED BY <2>1, FriendsAssumption
<1>3. friend_info' = [friend_info EXCEPT ![req[c].id] = row] /\ friend_info \in [RowIds -> Row \cup {None}]
  BY DEF Inserts, TypeOK, Table
<1> HIDE DEF row
<1> QED BY <1>1, <1>2, <1>3 DEF Active, ActiveIn, RowsIn, Direction

LEMMA CheckStep == IInv /\ [Next]_vars => CheckInv'
<1> SUFFICES ASSUME IInv, [Next]_vars PROVE CheckInv'
  OBVIOUS
<1>0. TypeOK /\ WorkInv /\ SlotInv /\ CheckInv /\ contested \subseteq contested'
  BY ContestedGrows DEF IInv, BasicInv
<1>1. CASE Tick \/ Begin \/ UNCHANGED vars
  <2>1. UNCHANGED <<friend_info, pc, req, contested>>
    BY <1>1 DEF Tick, Begin, vars
  <2> QED BY <1>0, <2>1 DEF CheckInv, Checking, Direction, Opposite, Active, ActiveIn, RowsIn
<1>2. CASE Rollback
  <2>1. \A d \in Clients : Checking(d) => {Direction(d)} \in contested'
                                         /\ {Direction(d), Opposite(Direction(d))} \in contested'
    BY <1>2 DEF Rollback
  <2>2. \A d \in Clients : (Checking(d)' <=> Checking(d)) /\ Direction(d)' = Direction(d)
    BY <1>2 DEF Rollback, Checking, Direction
  <2>3. \A d, e \in Clients : Checking(d) /\ Checking(e) /\ Direction(e) \in {Direction(d), Opposite(Direction(d))}
           => {Direction(d), Direction(e)} \in contested'
    <3>1. \A d, e \in Clients : Direction(e) = Direction(d) => {Direction(d), Direction(e)} = {Direction(d)}
      OBVIOUS
    <3> QED BY <2>1, <3>1
  <2> QED BY <2>1, <2>2, <2>3 DEF CheckInv
<1>3. ASSUME NEW c \in Clients, ClientNext(c) PROVE CheckInv'
  <2>1. CASE Die
    BY <2>1 DEF Die, CheckInv, Checking
  <2>2. SUFFICES ASSUME ~Die, \A d \in Clients \ {c} : pc'[d] = pc[d] /\ req'[d] = req[d]
                 PROVE  CheckInv'
    BY <1>0, <1>3, <2>1, OthersKeep
  <2>3. \A d \in Clients \ {c} : (Checking(d)' <=> Checking(d)) /\ Direction(d)' = Direction(d)
    BY <2>2 DEF Checking, Direction
  <2>4. SUFFICES ASSUME NEW e \in Clients, Checking(e)'
        PROVE  /\ \A d \in Clients \ {e} :
                    Checking(d)' /\ Direction(d)' \in {Direction(e)', Opposite(Direction(e)')} =>
                      {Direction(e)', Direction(d)'} \in contested'
               /\ pc'[e] \in {"reverse", "insert"} /\ {Direction(e)'} \notin contested' =>
                    ActiveIn(friend_info', req'[e].user, req'[e].friend) = {}
               /\ pc'[e] = "insert" /\ {Direction(e)', Opposite(Direction(e)')} \notin contested' =>
                    ActiveIn(friend_info', req'[e].friend, req'[e].user) = {}
    BY DEF CheckInv, Active, Opposite, Direction, ActiveIn, RowsIn
  <2>5. ASSUME NEW f \in Accounts, Ask(c, f)
        PROVE  /\ Checking(c)' /\ pc'[c] = "own" /\ Direction(c)' = <<AccountOf[c], f>>
               /\ \A d \in Clients : Checking(d) /\ Direction(d) \in {Direction(c)', Opposite(Direction(c)')} =>
                    {Direction(c)', Direction(d)} \in contested'
    <3>1. Checking(c)' /\ pc'[c] = "own" /\ Direction(c)' = <<AccountOf[c], f>>
      BY <1>0, <2>5 DEF Ask, TypeOK, Checking, Direction
    <3> QED BY <2>5, <3>1 DEF Ask
  <2>6. \A d \in Clients \ {e} :
           Checking(d)' /\ Direction(d)' \in {Direction(e)', Opposite(Direction(e)')} =>
             {Direction(e)', Direction(d)'} \in contested'
    <3> SUFFICES ASSUME NEW d \in Clients \ {e}, Checking(d)',
                        Direction(d)' \in {Direction(e)', Opposite(Direction(e)')}
                 PROVE  {Direction(e)', Direction(d)'} \in contested'
      OBVIOUS
    <3>1. ASSUME NEW f \in Accounts, Ask(c, f) PROVE {Direction(e)', Direction(d)'} \in contested'
      <4>1. CASE e = c
        BY <2>3, <2>5, <3>1, <4>1
      <4>2. CASE d = c
        <5>1. Direction(e) \in {Direction(c)', Opposite(Direction(c)')}
          BY <2>3, <4>2 DEF Direction, Opposite
        <5>2. {Direction(c)', Direction(e)} \in contested'
          BY <2>3, <2>4, <2>5, <3>1, <4>2, <5>1
        <5>3. {Direction(c)', Direction(e)} = {Direction(e)', Direction(d)'}
          BY <2>3, <4>2
        <5> QED BY <5>2, <5>3
      <4> QED BY <1>0, <2>3, <2>4, <4>1, <4>2 DEF CheckInv
    <3>2. CASE ~\E f \in Accounts : Ask(c, f)
      <4>1. Checking(c)' => Checking(c) /\ Direction(c)' = Direction(c)
        BY <1>0, <1>3, <3>2, Checks DEF Direction
      <4> QED BY <1>0, <2>3, <2>4, <4>1 DEF CheckInv
    <3> QED BY <3>1, <3>2
  <2>7. /\ pc'[e] \in {"reverse", "insert"} /\ {Direction(e)'} \notin contested' =>
             ActiveIn(friend_info', req'[e].user, req'[e].friend) = {}
        /\ pc'[e] = "insert" /\ {Direction(e)', Opposite(Direction(e)')} \notin contested' =>
             ActiveIn(friend_info', req'[e].friend, req'[e].user) = {}
    <3>1. CASE e = c
      <4>1. CASE \E f \in Accounts : Ask(c, f)
        BY <2>5, <3>1, <4>1
      <4>2. CASE ~\E f \in Accounts : Ask(c, f)
        <5>1. /\ Checking(c) /\ req'[c] = req[c] /\ UNCHANGED dbVars
              /\ \/ pc'[c] = pc[c]
                 \/ pc[c] = "own" /\ pc'[c] = "reverse" /\ Active(req[c].user, req[c].friend) = {}
                 \/ pc[c] = "reverse" /\ pc'[c] = "insert" /\ Active(req[c].friend, req[c].user) = {}
          BY <1>0, <1>3, <2>4, <3>1, <4>2, Checks
        <5>2. Direction(c)' = Direction(c)
          BY <5>1 DEF Direction
        <5> QED BY <1>0, <3>1, <5>1, <5>2 DEF CheckInv, Active
      <4> QED BY <4>1, <4>2
    <3>2. CASE e # c
      <4>1. /\ Checking(e) /\ pc'[e] = pc[e] /\ req'[e] = req[e] /\ Direction(e)' = Direction(e)
        BY <2>2, <2>3, <2>4, <3>2
      <4>2. /\ pc[e] \in {"reverse", "insert"} /\ {Direction(e)} \notin contested' =>
                 Active(req[e].user, req[e].friend) = {}
            /\ pc[e] = "insert" /\ {Direction(e), Opposite(Direction(e))} \notin contested' =>
                 Active(req[e].friend, req[e].user) = {}
        BY <1>0, <4>1 DEF CheckInv
      <4>3. CASE Inserts(c)
        <5>1. Checking(c)
          BY <4>3 DEF Inserts, Checking
        <5>2. Direction(c) = <<req[e].user, req[e].friend>> => {Direction(e)} \in contested'
          BY <1>0, <3>2, <4>1, <5>1 DEF CheckInv, Direction
        <5>3. Direction(c) = <<req[e].friend, req[e].user>> =>
                {Direction(e), Opposite(Direction(e))} \in contested'
          BY <1>0, <3>2, <4>1, <5>1 DEF CheckInv, Direction, Opposite
        <5> QED BY <1>0, <4>1, <4>2, <4>3, <5>2, <5>3, InsertActive
      <4>4. CASE Updates(c)
        BY <1>0, <4>1, <4>2, <4>4, UpdateActive
      <4>5. CASE UNCHANGED dbVars
        BY <4>1, <4>2, <4>5 DEF Active
      <4> QED BY <1>0, <1>3, <2>2, <4>3, <4>4, <4>5, TableWrites
    <3> QED BY <3>1, <3>2
  <2> QED BY <2>6, <2>7
<1> QED BY <1>1, <1>2, <1>3 DEF Next

LEMMA TableStep == IInv /\ [Next]_vars => TableInv'
<1> SUFFICES ASSUME IInv, [Next]_vars PROVE TableInv'
  OBVIOUS
<1>0. TypeOK /\ WorkInv /\ SlotInv /\ CheckInv /\ TableInv /\ contested \subseteq contested'
  BY ContestedGrows DEF IInv, BasicInv
<1>1. \A t \in {friend_info, saved} :
        OneOf(t) => \A u, f \in Accounts :
          /\ {<<u, f>>} \notin contested' => \A i, j \in ActiveIn(t, u, f) : i = j
          /\ {<<u, f>>, <<f, u>>} \notin contested' =>
               ActiveIn(t, u, f) = {} \/ ActiveIn(t, f, u) = {}
  BY <1>0 DEF OneOf
<1>2. CASE UNCHANGED dbVars
  BY <1>0, <1>1, <1>2 DEF TableInv, OneOf
<1>3. CASE Tick \/ UNCHANGED vars
  BY <1>2, <1>3 DEF Tick, vars
<1>4. CASE Begin
  BY <1>0, <1>4 DEF Begin, TableInv, OneOf
<1>5. CASE Rollback \/ Die
  <2>1. saved' = None /\ (friend_info' = friend_info \/ (saved # None /\ friend_info' = saved))
    BY <1>5 DEF Rollback, Die
  <2>2. CASE friend_info' = friend_info
    BY <1>0, <1>1, <2>1, <2>2 DEF TableInv, OneOf
  <2>3. CASE saved # None /\ friend_info' = saved
    BY <1>0, <1>1, <2>1, <2>3 DEF TableInv, OneOf
  <2> QED BY <2>1, <2>2, <2>3
<1>6. ASSUME NEW c \in Clients, ClientNext(c) PROVE TableInv'
  <2>1. CASE Inserts(c)
    <3>1. /\ {Direction(c)} \notin contested' => Active(req[c].user, req[c].friend) = {}
          /\ {Direction(c), Opposite(Direction(c))} \notin contested' =>
               Active(req[c].friend, req[c].user) = {}
      BY <1>0, <2>1 DEF CheckInv, Checking, Inserts
    <3>2. req[c].user # req[c].friend
      BY <1>0, <2>1 DEF WorkInv, Work, Inserts
    <3>3. ASSUME NEW u \in Accounts, NEW f \in Accounts
          PROVE  /\ {<<u, f>>} \notin contested' => \A i, j \in ActiveIn(friend_info', u, f) : i = j
                 /\ {<<u, f>>, <<f, u>>} \notin contested' =>
                      ActiveIn(friend_info', u, f) = {} \/ ActiveIn(friend_info', f, u) = {}
      <4>1. /\ {<<u, f>>} \notin contested' => \A i, j \in Active(u, f) : i = j
            /\ {<<u, f>>, <<f, u>>} \notin contested' => Active(u, f) = {} \/ Active(f, u) = {}
        BY <1>0, <1>1 DEF TableInv, Active
      <4>2. CASE Direction(c) = <<u, f>>
        <5>1. req[c].user = u /\ req[c].friend = f /\ Opposite(Direction(c)) = <<f, u>> /\ u # f
          BY <3>2, <4>2 DEF Direction, Opposite
        <5>2. ActiveIn(friend_info', f, u) = Active(f, u)
          BY <1>0, <2>1, <4>2, <5>1, InsertActive
        <5>3. ActiveIn(friend_info', u, f) = Active(u, f) \cup {req[c].id}
          BY <1>0, <2>1, <4>2, InsertActive
        <5> QED BY <3>1, <4>2, <5>1, <5>2, <5>3
      <4>3. CASE Direction(c) = <<f, u>>
        <5>1. req[c].user = f /\ req[c].friend = u /\ Opposite(Direction(c)) = <<u, f>> /\ u # f
          BY <3>2, <4>3 DEF Direction, Opposite
        <5>2. ActiveIn(friend_info', u, f) = Active(u, f)
          BY <1>0, <2>1, <4>3, <5>1, InsertActive
        <5>3. {<<u, f>>, <<f, u>>} \notin contested' => Active(u, f) = {}
          <6>1. {<<u, f>>, <<f, u>>} = {Direction(c), Opposite(Direction(c))}
            BY <4>3, <5>1
          <6> QED BY <3>1, <5>1, <6>1
        <5> QED BY <4>1, <5>2, <5>3
      <4>4. CASE Direction(c) # <<u, f>> /\ Direction(c) # <<f, u>>
        BY <1>0, <2>1, <4>1, <4>4, InsertActive
      <4> QED BY <4>2, <4>3, <4>4
    <3>4. OneOf(friend_info)'
      BY <3>3 DEF OneOf
    <3> QED BY <1>0, <1>1, <2>1, <3>4 DEF Inserts, TableInv, OneOf
  <2>2. CASE Updates(c)
    <3>1. \A u, f \in Accounts : ActiveIn(friend_info', u, f) \subseteq ActiveIn(friend_info, u, f)
      BY <1>0, <2>2, UpdateActive DEF Active
    <3>2. UNCHANGED saved
      BY <2>2 DEF Updates
    <3>3. ASSUME NEW u \in Accounts, NEW f \in Accounts
          PROVE  /\ {<<u, f>>} \notin contested' => \A i, j \in ActiveIn(friend_info', u, f) : i = j
                 /\ {<<u, f>>, <<f, u>>} \notin contested' =>
                      ActiveIn(friend_info', u, f) = {} \/ ActiveIn(friend_info', f, u) = {}
      <4>1. /\ {<<u, f>>} \notin contested' => \A i, j \in ActiveIn(friend_info, u, f) : i = j
            /\ {<<u, f>>, <<f, u>>} \notin contested' =>
                 ActiveIn(friend_info, u, f) = {} \/ ActiveIn(friend_info, f, u) = {}
        BY <1>0, <1>1 DEF TableInv
      <4> QED BY <3>1, <4>1
    <3>4. OneOf(friend_info)'
      BY <3>3 DEF OneOf
    <3>5. saved' # None => OneOf(saved)'
      <4> SUFFICES ASSUME saved # None PROVE OneOf(saved)'
        BY <3>2
      <4>1. \A u, f \in Accounts :
              /\ {<<u, f>>} \notin contested' => \A i, j \in ActiveIn(saved, u, f) : i = j
              /\ {<<u, f>>, <<f, u>>} \notin contested' =>
                   ActiveIn(saved, u, f) = {} \/ ActiveIn(saved, f, u) = {}
        BY <1>0, <1>1 DEF TableInv
      <4> QED BY <3>2, <4>1 DEF OneOf
    <3> QED BY <3>4, <3>5 DEF TableInv
  <2> QED BY <1>0, <1>2, <1>5, <1>6, <2>1, <2>2, TableWrites
<1> QED BY <1>3, <1>4, <1>5, <1>6 DEF Next

LEMMA InitIInv == Init => IInv
<1> SUFFICES ASSUME Init PROVE IInv
  OBVIOUS
<1>1. TypeOK
  BY InitType
<1>2. \A c \in Clients : pc[c] \notin Working /\ ~Checking(c)
  BY DEF Init, Checking
<1>3. \A u, f : ActiveIn(friend_info, u, f) = {}
  BY DEF Init, ActiveIn, RowsIn
<1>4. SlotInv /\ saved = None
  BY <1>2 DEF Init, SlotInv
<1> QED BY <1>1, <1>2, <1>3, <1>4 DEF IInv, BasicInv, WorkInv, SavedInv, CheckInv, TableInv, OneOf

LEMMA IInvStep == IInv /\ [Next]_vars => IInv'
BY TypeStep, WorkStep, SlotStep, SavedStep, CheckStep, TableStep DEF IInv, BasicInv

\* Every variable keeps its type, whatever fails and whenever the process dies.
THEOREM TypeCorrect == Spec => []TypeOK
<1>1. Init => BasicInv
  BY InitIInv DEF IInv
<1>2. BasicInv /\ [Next]_vars => BasicInv'
  BY TypeStep, WorkStep DEF BasicInv
<1>3. BasicInv => TypeOK
  BY DEF BasicInv
<1> QED BY <1>1, <1>2, <1>3, PTL DEF Spec

\* The inductive invariant: places, transactions, checks in progress and rows together.
THEOREM Invariant == Spec => []IInv
BY InitIInv, IInvStep, PTL DEF Spec

\* One live request per direction, whoever is logged in how often, unless two requests of
\* that direction were checked together or a ROLLBACK fell between check and insert.
THEOREM OneActive == Spec => []OneActivePerDirection
<1>1. IInv => OneActivePerDirection
  BY DEF IInv, TableInv, OneOf, OneActivePerDirection, Active
<1> QED BY <1>1, Invariant, PTL

\* One of two users holds a live request of the other, under the same conditions.
THEOREM OneWay == Spec => []OneWayPerPair
<1>1. IInv => OneWayPerPair
  BY DEF IInv, TableInv, OneOf, OneWayPerPair, Active
<1> QED BY <1>1, Invariant, PTL

-----------------------------------------------------------------------------
(* Who is told *)

\* Apart from a login, a disconnect and a crash, the same connections stay, and keep what
\* they were told unless something is lost.
Stays(c) ==
  /\ UNCHANGED <<user_client, doubled, undone>>
  /\ pc[c] # "out" /\ pc'[c] # "out"
  /\ cut \subseteq cut'
  /\ cut' \subseteq cut \cup {c} \cup (IF pc[c] \in Working THEN {PeerClient(c)} \ {None} ELSE {})
  /\ \A d \in Clients : d \notin cut' => heard[d] \subseteq heard'[d] /\ buddies[d] \subseteq buddies'[d]

LEMMA CutStays ==
  ASSUME TypeOK, NEW S \in SUBSET Clients, Cut(S), NEW d \in Clients, d \notin cut'
  PROVE  d \notin S /\ heard'[d] = heard[d] /\ buddies'[d] = buddies[d]
BY DEF Cut, TypeOK

\* A send to d adds to what d was told, or is lost.
LEMMA SendStays ==
  ASSUME TypeOK, NEW d \in Clients, NEW told \in SUBSET RowIds, NEW friends \in SUBSET Accounts,
         \/ /\ Arrives(d) /\ heard' = [heard EXCEPT ![d] = @ \cup told]
            /\ buddies' = [buddies EXCEPT ![d] = @ \cup friends]
         \/ IsLost(d)
  PROVE  /\ cut \subseteq cut' /\ cut' \subseteq cut \cup {d}
         /\ \A e \in Clients : e \notin cut' => heard[e] \subseteq heard'[e] /\ buddies[e] \subseteq buddies'[e]
         /\ d \notin cut' => told \subseteq heard'[d] /\ friends \subseteq buddies'[d]
<1>1. CASE IsLost(d)
  BY <1>1, CutStays DEF IsLost, Cut
<1>2. CASE /\ Arrives(d) /\ heard' = [heard EXCEPT ![d] = @ \cup told]
           /\ buddies' = [buddies EXCEPT ![d] = @ \cup friends]
  BY <1>2 DEF Arrives, TypeOK
<1> QED BY <1>1, <1>2

\* The same for the notices of the code, each of which adds to one of the two.
LEMMA NoticeArrives ==
  ASSUME TypeOK, WorkInv, NEW c \in Clients,
         TellSelf(c) \/ TellPeer(c) \/ ListPeer(c) \/ ListSelf(c)
  PROVE  /\ Stays(c)
         /\ TellSelf(c) /\ c \notin cut' => got[c] \subseteq heard'[c]
         /\ \A d \in Clients : TellPeer(c) /\ d = PeerClient(c) /\ d \notin cut' => got[c] \subseteq heard'[d]
         /\ \A d \in Clients : ListPeer(c) /\ d = PeerClient(c) /\ d \notin cut' => AccountOf[c] \in buddies'[d]
         /\ ListSelf(c) /\ c \notin cut' => Peer(c) \in buddies'[c]
<1>0. /\ PeerClient(c) \in Clients \cup {None} /\ Peer(c) \in Accounts
      /\ got[c] \in SUBSET RowIds /\ AccountOf[c] \in Accounts
  BY PeerType, FriendsAssumption DEF TellSelf, TellPeer, ListPeer, ListSelf, TypeOK
<1>1. /\ UNCHANGED <<user_client, doubled, undone>> /\ pc[c] \in Working
      /\ pc'[c] # "out"
  <2>1. CASE TellSelf(c) \/ ListPeer(c)
    BY <2>1 DEF TellSelf, ListPeer, TypeOK
  <2>2. CASE TellPeer(c) \/ ListSelf(c)
    BY <2>2, ReturnType DEF TellPeer, ListSelf, TypeOK
  <2> QED BY <2>1, <2>2
<1>2. /\ buddies = [buddies EXCEPT ![c] = @ \cup {}] /\ heard = [heard EXCEPT ![c] = @ \cup {}]
      /\ \A d \in Clients : buddies = [buddies EXCEPT ![d] = @ \cup {}] /\ heard = [heard EXCEPT ![d] = @ \cup {}]
  BY DEF TypeOK
<1>3. pc[c] # "out"
  BY <1>1
<1>4. CASE TellSelf(c)
  <2>1. /\ cut \subseteq cut' /\ cut' \subseteq cut \cup {c}
        /\ \A e \in Clients : e \notin cut' => heard[e] \subseteq heard'[e] /\ buddies[e] \subseteq buddies'[e]
        /\ c \notin cut' => got[c] \subseteq heard'[c]
    <3>1. \/ /\ Arrives(c) /\ heard' = [heard EXCEPT ![c] = @ \cup got[c]]
             /\ buddies' = [buddies EXCEPT ![c] = @ \cup {}]
          \/ IsLost(c)
      BY <1>2, <1>4, FriendsAssumption DEF TellSelf
    <3>2. got[c] \in SUBSET RowIds /\ {} \in SUBSET Accounts
      BY <1>0
    <3> QED BY <1>0, <1>4, <3>1, <3>2, SendStays
  <2> QED BY <1>1, <1>3, <1>4, <2>1 DEF Stays, TellSelf, TellPeer, ListPeer, ListSelf
<1>5. CASE ListSelf(c)
  <2>1. /\ cut \subseteq cut' /\ cut' \subseteq cut \cup {c}
        /\ \A e \in Clients : e \notin cut' => heard[e] \subseteq heard'[e] /\ buddies[e] \subseteq buddies'[e]
        /\ c \notin cut' => Peer(c) \in buddies'[c]
    <3>1. \/ /\ Arrives(c) /\ heard' = [heard EXCEPT ![c] = @ \cup {}]
             /\ buddies' = [buddies EXCEPT ![c] = @ \cup {Peer(c)}]
          \/ IsLost(c)
      BY <1>2, <1>5, FriendsAssumption DEF ListSelf
    <3>2. {} \in SUBSET RowIds /\ {Peer(c)} \in SUBSET Accounts
      BY <1>0
    <3> QED BY <1>0, <1>5, <3>1, <3>2, SendStays
  <2> QED BY <1>1, <1>3, <1>5, <2>1 DEF Stays, TellSelf, TellPeer, ListPeer, ListSelf
<1>6. CASE (TellPeer(c) \/ ListPeer(c)) /\ PeerClient(c) = None
  BY <1>0, <1>1, <1>3, <1>6, FriendsAssumption DEF TellPeer, ListPeer, Stays, TellSelf, ListSelf
<1>7. CASE TellPeer(c) /\ PeerClient(c) \in Clients
  <2>1. /\ cut \subseteq cut' /\ cut' \subseteq cut \cup {PeerClient(c)}
        /\ \A e \in Clients : e \notin cut' => heard[e] \subseteq heard'[e] /\ buddies[e] \subseteq buddies'[e]
        /\ PeerClient(c) \notin cut' => got[c] \subseteq heard'[PeerClient(c)]
    <3>1. \/ /\ Arrives(PeerClient(c)) /\ heard' = [heard EXCEPT ![PeerClient(c)] = @ \cup got[c]]
             /\ buddies' = [buddies EXCEPT ![PeerClient(c)] = @ \cup {}]
          \/ IsLost(PeerClient(c))
      BY <1>2, <1>7, FriendsAssumption DEF TellPeer
    <3>2. got[c] \in SUBSET RowIds /\ {} \in SUBSET Accounts
      BY <1>0
    <3> QED BY <1>0, <1>7, <3>1, <3>2, SendStays
  <2> QED BY <1>1, <1>3, <1>7, <2>1, FriendsAssumption DEF Stays, TellSelf, TellPeer, ListPeer, ListSelf
<1>8. CASE ListPeer(c) /\ PeerClient(c) \in Clients
  <2>1. /\ cut \subseteq cut' /\ cut' \subseteq cut \cup {PeerClient(c)}
        /\ \A e \in Clients : e \notin cut' => heard[e] \subseteq heard'[e] /\ buddies[e] \subseteq buddies'[e]
        /\ PeerClient(c) \notin cut' => AccountOf[c] \in buddies'[PeerClient(c)]
    <3>1. \/ /\ Arrives(PeerClient(c)) /\ heard' = [heard EXCEPT ![PeerClient(c)] = @ \cup {}]
             /\ buddies' = [buddies EXCEPT ![PeerClient(c)] = @ \cup {AccountOf[c]}]
          \/ IsLost(PeerClient(c))
      BY <1>2, <1>8, FriendsAssumption DEF ListPeer
    <3>2. {} \in SUBSET RowIds /\ {AccountOf[c]} \in SUBSET Accounts
      BY <1>0
    <3>3. PeerClient(c) \in Clients
      BY <1>8
    <3>4. /\ cut \subseteq cut' /\ cut' \subseteq cut \cup {PeerClient(c)}
          /\ \A e \in Clients : e \notin cut' => heard[e] \subseteq heard'[e] /\ buddies[e] \subseteq buddies'[e]
          /\ PeerClient(c) \notin cut' => {AccountOf[c]} \subseteq buddies'[PeerClient(c)]
      BY <3>1, <3>2, <3>3, SendStays
    <3> QED BY <3>4
  <2> QED BY <1>1, <1>3, <1>8, <2>1, FriendsAssumption DEF Stays, TellSelf, TellPeer, ListPeer, ListSelf
<1> QED BY <1>0, <1>4, <1>5, <1>6, <1>7, <1>8

LEMMA ClientsStay ==
  ASSUME TypeOK, WorkInv, NEW c \in Clients, ClientNext(c)
  PROVE  Die \/ do_login(c) \/ Disconnect(c) \/ Stays(c)
<1>1. CASE \/ get_addfriend_ask(c) \/ SendAskList(c) \/ AskListSent(c)
           \/ get_friendlist(c) \/ SendFriendList(c)
  BY <1>1 DEF get_addfriend_ask, SendAskList, AskListSent, get_friendlist, SendFriendList, Stays, TypeOK
<1>2. CASE FriendListSent(c)
  BY <1>2, ReturnType DEF FriendListSent, Stays, TypeOK
<1>3. CASE ListFails(c) \/ Interrupt(c)
  <2>1. Cut({c}) /\ UNCHANGED <<user_client, doubled, undone>> /\ pc[c] # "out" /\ pc'[c] # "out"
    BY <1>3 DEF ListFails, Interrupt, Listing, TypeOK
  <2>2. \A d \in Clients : d \notin cut' => heard'[d] = heard[d] /\ buddies'[d] = buddies[d]
    BY <2>1, CutStays
  <2>3. cut' = cut \cup {c}
    BY <2>1 DEF Cut
  <2> QED BY <2>1, <2>2, <2>3 DEF Stays
<1>4. CASE StatementFails(c)
  <2>1. UNCHANGED <<user_client, doubled, undone>> /\ pc[c] # "out" /\ pc'[c] # "out"
    BY <1>4, ReturnType DEF StatementFails, Checking
  <2>2. CASE UNCHANGED clientVars
    BY <2>1, <2>2 DEF Stays
  <2>3. ASSUME NEW S \in SUBSET Clients, Cut(S),
               S \subseteq {c} \cup (IF pc[c] \in Working THEN {PeerClient(c)} \ {None} ELSE {})
        PROVE  Stays(c)
    <3>1. \A d \in Clients : d \notin cut' => heard'[d] = heard[d] /\ buddies'[d] = buddies[d]
      BY <2>3, CutStays
    <3>2. cut' = cut \cup S
      BY <2>3 DEF Cut
    <3> QED BY <2>1, <2>3, <3>1, <3>2 DEF Stays
  <2>4. CASE pc[c] = "fetch" /\ Cut({c, PeerClient(c)} \ {None})
    <3>1. {c, PeerClient(c)} \ {None} \in SUBSET Clients
      BY <2>4, PeerType
    <3> QED BY <2>3, <2>4, <3>1, FriendsAssumption
  <2>5. CASE Cut({c})
    BY <2>3, <2>5
  <2> QED BY <1>4, <2>2, <2>4, <2>5 DEF StatementFails
<1>5. CASE (FindOwn(c) \/ FindReverse(c)) 
  <2>1. CASE Return(c)
    BY <1>5, <2>1, ReturnType DEF FindOwn, FindReverse, Stays, TypeOK
  <2>2. CASE ~Return(c)
    BY <1>5, <2>2 DEF FindOwn, FindReverse, Stays, TypeOK
  <2> QED BY <2>1, <2>2
<1>6. CASE (\E f \in Accounts : Ask(c, f)) \/ InsertAsk(c)
           \/ (\E u \in Accounts, kind \in {"accept", "reject"} : Answer(c, u, kind))
           \/ updata_friend_data_handle(c) \/ consutrct_friend_ask_notice_msg(c)
           \/ (NoRowToTell(c) /\ ~Die)
  BY <1>6 DEF Ask, InsertAsk, Answer, updata_friend_data_handle, consutrct_friend_ask_notice_msg,
              NoRowToTell, Stays, TypeOK
<1>7. CASE UpdateFails(c)
  BY <1>7 DEF UpdateFails
<1>8. CASE TellSelf(c) \/ TellPeer(c) \/ ListPeer(c) \/ ListSelf(c)
  BY <1>8, NoticeArrives
<1> QED BY <1>1, <1>2, <1>3, <1>4, <1>5, <1>6, <1>7, <1>8 DEF ClientNext

LEMMA ClientStep == TypeOK /\ WorkInv /\ ClientInv /\ [Next]_vars => ClientInv'
<1> SUFFICES ASSUME TypeOK, WorkInv, ClientInv, [Next]_vars PROVE ClientInv'
  OBVIOUS
<1>1. CASE Tick \/ Begin \/ Rollback \/ UNCHANGED vars
  <2>1. UNCHANGED <<user_client, pc, cut, doubled>>
    BY <1>1 DEF Tick, Begin, Rollback, vars
  <2> QED BY <2>1 DEF ClientInv
<1>2. ASSUME NEW c \in Clients, ClientNext(c) PROVE ClientInv'
  <2>1. CASE Die
    BY <2>1 DEF Die, ClientInv
  <2>2. CASE do_login(c)
    <3>1. AccountOf[c] \in Accounts
      BY FriendsAssumption
    <3> QED BY <2>2, <3>1, FriendsAssumption DEF do_login, ClientInv, TypeOK
  <2>3. CASE Disconnect(c)
    BY <2>3, FriendsAssumption DEF Disconnect, ClientInv, TypeOK
  <2>4. CASE Stays(c) /\ ~Die
    <3>1. \A d \in Clients : pc'[d] = "out" <=> pc[d] = "out"
      BY <1>2, <2>4, OthersKeep DEF Stays
    <3>2. pc[c] \in Working /\ PeerClient(c) # None => PeerClient(c) \in Clients /\ pc[PeerClient(c)] # "out"
      BY PeerType DEF PeerClient, ClientInv
    <3>3. \A d \in Clients : pc[d] = "out" => d \notin cut'
      BY <2>4, <3>2 DEF Stays, ClientInv
    <3>4. \A a \in Accounts : user_client[a] # None => user_client[a] \in Clients
      BY DEF TypeOK
    <3> QED BY <2>4, <3>1, <3>3, <3>4 DEF Stays, ClientInv
  <2> QED BY <1>2, <2>1, <2>2, <2>3, <2>4, ClientsStay
<1> QED BY <1>1, <1>2 DEF Next

-----------------------------------------------------------------------------
(* No request and no friend is forgotten *)

\* A row stays what it is but for its status, which only an acceptance turns to 1.
LEMMA RowsKeep ==
  ASSUME TypeOK, WorkInv, SlotInv, NEW c \in Clients, ClientNext(c), ~Die
  PROVE  /\ \A i \in Ids : /\ friend_info'[i] # None
                           /\ friend_info'[i].user = friend_info[i].user
                           /\ friend_info'[i].friend = friend_info[i].friend
                           /\ friend_info'[i].add_time = friend_info[i].add_time
                           /\ friend_info'[i].status = 1 =>
                                \/ friend_info[i].status = 1
                                \/ Updates(c) /\ req[c].kind = "accept" /\ Concerns(c, i)
         /\ \A i \in RowIds : friend_info'[i] # None => i \in Ids \/ (Inserts(c) /\ i = req[c].id)
<1>1. CASE UNCHANGED dbVars
  BY <1>1 DEF Ids
<1>2. CASE Inserts(c)
  <2>1. friend_info[req[c].id] = None /\ req[c].id \in RowIds
    BY <1>2, FriendsAssumption DEF Inserts, SlotInv, Checking, TypeOK, RowIds
  <2> QED BY <1>2, <2>1 DEF Inserts, TypeOK, Table, Ids
<1>3. CASE Updates(c)
  <2>1. \A i \in RowIds : friend_info'[i] # None => i \in Ids
    BY <1>3 DEF Updates, Ids, Rows, RowsIn
  <2>2. ~Inserts(c)
    BY <1>3 DEF Updates, Inserts
  <2>3. SUFFICES ASSUME NEW i \in Ids
        PROVE  /\ friend_info'[i] # None
               /\ friend_info'[i].user = friend_info[i].user
               /\ friend_info'[i].friend = friend_info[i].friend
               /\ friend_info'[i].add_time = friend_info[i].add_time
               /\ friend_info'[i].status = 1 =>
                    \/ friend_info[i].status = 1
                    \/ Updates(c) /\ req[c].kind = "accept" /\ Concerns(c, i)
    BY <2>1
  <2>4. i \in RowIds /\ friend_info[i] # None /\ friend_info[i] \in Row
    BY PairType DEF Ids
  <2>5. CASE friend_info'[i] = friend_info[i]
    BY <2>4, <2>5
  <2>6. ASSUME i \in Rows(req[c].user, req[c].friend), NEW s \in {-1, 1},
               friend_info'[i] = [friend_info[i] EXCEPT !.status = s], s = 1 => req[c].kind = "accept"
        PROVE  /\ friend_info'[i] # None
               /\ friend_info'[i].user = friend_info[i].user
               /\ friend_info'[i].friend = friend_info[i].friend
               /\ friend_info'[i].add_time = friend_info[i].add_time
               /\ friend_info'[i].status = 1 =>
                    \/ friend_info[i].status = 1
                    \/ Updates(c) /\ req[c].kind = "accept" /\ Concerns(c, i)
    <3>1. friend_info'[i] \in Row /\ friend_info'[i].status = s
      BY <2>4, <2>6 DEF Row
    <3>2. Concerns(c, i)
      BY <2>6 DEF Rows, RowsIn, Concerns
    <3> QED BY <1>3, <2>4, <2>6, <3>1, <3>2, FriendsAssumption DEF Row
  <2> QED BY <1>3, <2>4, <2>5, <2>6 DEF Updates
<1> QED BY <1>1, <1>2, <1>3, TableWrites

\* The newest row of a direction was so before another was added.
LEMMA NewestKeeps ==
  ASSUME TypeOK, WorkInv, SlotInv, NEW c \in Clients, ClientNext(c), ~Die, NEW i \in Ids, Newest(i)'
  PROVE  Newest(i)
<1> SUFFICES ASSUME NEW j \in Rows(friend_info[i].user, friend_info[i].friend) \ {i}
             PROVE  friend_info[j].add_time < friend_info[i].add_time
  BY DEF Newest
<1>1. j \in Ids /\ friend_info[j].user = friend_info[i].user /\ friend_info[j].friend = friend_info[i].friend
  BY DEF Rows, RowsIn, Ids
<1>2. j \in RowsIn(friend_info', friend_info'[i].user, friend_info'[i].friend)
  BY <1>1, RowsKeep DEF RowsIn, Ids
<1>3. friend_info'[j].add_time < friend_info'[i].add_time
  BY <1>2 DEF Newest, Rows, RowsIn
<1> QED BY <1>1, <1>3, RowsKeep

\* A connection that is served was so before, unless it logs in.
LEMMA ServedBefore ==
  ASSUME TypeOK, WorkInv, NEW c \in Clients, ClientNext(c), ~Die, NEW e \in Clients, Served(e)'
  PROVE  \/ do_login(c) /\ e = c /\ pc'[e] = "logged_in"
         \/ Served(e) /\ (Stays(c) \/ (e # c /\ UNCHANGED <<clientVars>> /\ do_login(c))
                                   \/ (e # c /\ heard'[e] = heard[e] /\ buddies'[e] = buddies[e]
                                             /\ Disconnect(c)))
<1>1. CASE Stays(c)
  <2>1. pc[e] # "out"
    BY <1>1, OthersKeep DEF Stays, Served
  <2> QED BY <1>1, <2>1 DEF Stays, Served
<1>2. CASE do_login(c)
  BY <1>2, FriendsAssumption DEF do_login, Served, TypeOK
<1>3. CASE Disconnect(c)
  BY <1>3, FriendsAssumption DEF Disconnect, Served, TypeOK
<1> QED BY <1>1, <1>2, <1>3, ClientsStay

\* The connection that a row's handler talks to: itself or its peer's.
LEMMA Whose ==
  ASSUME TypeOK, WorkInv, ClientInv, NEW c \in Clients, pc[c] \in Working, NEW i \in Ids, Concerns(c, i),
         NEW e \in Clients, Served(e), i \in Involving(AccountOf[e]),
         \/ req[c].kind = "ask" /\ (friend_info[i].friend = AccountOf[e] \/ AccountOf[e] \notin doubled)
         \/ req[c].kind = "accept" /\ (friend_info[i].user = AccountOf[e] \/ AccountOf[e] \notin doubled)
  PROVE  /\ Work(c)
         /\ e = c \/ (e = PeerClient(c) /\ Peer(c) = AccountOf[e] /\ Peer(c) # AccountOf[c])
<1>1. Work(c)
  BY DEF WorkInv
<1>2. AccountOf[e] \in {req[c].user, req[c].friend} /\ AccountOf[c] \in {req[c].user, req[c].friend}
  BY <1>1 DEF Involving, Concerns, Work, Request
<1>3. pc[c] # "out"
  OBVIOUS
<1>4. CASE AccountOf[e] = AccountOf[c]
  <2>1. AccountOf[c] \notin doubled
    BY <1>1, <1>4 DEF Work, Concerns, Request
  <2> QED BY <1>1, <1>3, <1>4, <2>1 DEF Served, ClientInv
<1>5. CASE AccountOf[e] # AccountOf[c]
  <2>1. Peer(c) = AccountOf[e]
    BY <1>1, <1>2, <1>5 DEF Work, Peer, Request
  <2> QED BY <1>1, <1>5, <2>1 DEF PeerClient, Served
<1> QED BY <1>4, <1>5

\* Where the requests that c should know of are, after a step of handler c itself.
AskKnown(c, i) == i \in heard[c] \/ InAskList(c, i) \/ \E d \in Clients : AskComing(d, i, c)

\* The login sends its list.
LEMMA AskListStep ==
  ASSUME TypeOK, WorkInv, NEW c \in Clients, ClientNext(c), NEW i \in RowIds,
         InAskList(c, i), Stays(c), c \notin cut'
  PROVE  i \in heard'[c] \/ InAskList(c, i)'
<1>1. CASE SendAskList(c)
  BY <1>1 DEF SendAskList, InAskList, TypeOK
<1>2. CASE AskListSent(c)
  BY <1>2 DEF AskListSent, InAskList, TypeOK
<1>3. CASE ListFails(c) \/ Interrupt(c)
  BY <1>3 DEF ListFails, Interrupt, Cut
<1>4. CASE do_login(c) \/ get_addfriend_ask(c) \/ get_friendlist(c) \/ SendFriendList(c)
           \/ FriendListSent(c) \/ Disconnect(c)
  BY <1>4 DEF do_login, get_addfriend_ask, get_friendlist, SendFriendList, FriendListSent,
              Disconnect, InAskList
<1>5. CASE \/ (\E f \in Accounts : Ask(c, f)) \/ FindOwn(c) \/ FindReverse(c) \/ InsertAsk(c)
           \/ StatementFails(c)
           \/ (\E u \in Accounts, kind \in {"accept", "reject"} : Answer(c, u, kind))
           \/ updata_friend_data_handle(c) \/ UpdateFails(c)
           \/ consutrct_friend_ask_notice_msg(c) \/ NoRowToTell(c)
           \/ TellSelf(c) \/ TellPeer(c) \/ ListPeer(c) \/ ListSelf(c)
  BY <1>5 DEF Ask, FindOwn, FindReverse, InsertAsk, StatementFails, Checking, Answer,
              updata_friend_data_handle, UpdateFails, consutrct_friend_ask_notice_msg,
              NoRowToTell, TellSelf, TellPeer, ListPeer, ListSelf, InAskList
<1> QED BY <1>1, <1>2, <1>3, <1>4, <1>5 DEF ClientNext

\* After a login nothing but the list of requests is read.
LEMMA OnlyAskList ==
  ASSUME NEW c \in Clients, ClientNext(c), pc[c] = "logged_in", c \notin cut'
  PROVE  get_addfriend_ask(c)
<1>1. CASE \/ do_login(c) \/ SendAskList(c) \/ AskListSent(c)
           \/ get_friendlist(c) \/ SendFriendList(c) \/ FriendListSent(c) \/ ListFails(c)
           \/ Disconnect(c) \/ Interrupt(c)
  BY <1>1 DEF do_login, SendAskList, AskListSent, get_friendlist,
              SendFriendList, FriendListSent, ListFails, Disconnect, Interrupt, Listing
<1>2. CASE StatementFails(c)
  BY <1>2 DEF StatementFails, Checking, Cut
<1>3. CASE \/ (\E f \in Accounts : Ask(c, f)) \/ FindOwn(c) \/ FindReverse(c) \/ InsertAsk(c)
           \/ (\E u \in Accounts, kind \in {"accept", "reject"} : Answer(c, u, kind))
           \/ updata_friend_data_handle(c) \/ UpdateFails(c)
           \/ consutrct_friend_ask_notice_msg(c) \/ NoRowToTell(c)
           \/ TellSelf(c) \/ TellPeer(c) \/ ListPeer(c) \/ ListSelf(c)
  BY <1>3 DEF Ask, FindOwn, FindReverse, InsertAsk, Answer, updata_friend_data_handle, UpdateFails,
              consutrct_friend_ask_notice_msg, NoRowToTell, TellSelf, TellPeer, ListPeer, ListSelf
<1> QED BY <1>1, <1>2, <1>3 DEF ClientNext

\* A handler that is going to tell e tells it, or still is going to.
LEMMA AskComingStep ==
  ASSUME TypeOK, WorkInv, ClientInv, NEW c \in Clients, ClientNext(c), ~Die, Stays(c),
         NEW i \in Ids, NEW e \in Clients, AskComing(c, i, e), AskDue(e, i), e \notin cut',
         UNCHANGED friend_info
  PROVE  i \in heard'[e] \/ AskComing(c, i, e)'
<1>0. /\ Work(c) /\ req[c].kind = "ask" /\ Concerns(c, i) /\ i \in RowIds
      /\ e = c \/ (e = PeerClient(c) /\ Peer(c) = AccountOf[e] /\ Peer(c) # AccountOf[c])
  BY Whose DEF AskDue, AskComing, Ids
<1>1. e # c => friend_info[i].friend = AccountOf[e]
  BY <1>0 DEF Peer, Concerns
<1>2. i \in Rows(req[c].user, req[c].friend)
  BY DEF Ids, Rows, RowsIn, AskComing, Concerns
<1>3. CASE consutrct_friend_ask_notice_msg(c)
  <2>1. \A j \in Latest(req[c].user, req[c].friend) : j = i
    <3> SUFFICES ASSUME NEW j \in Latest(req[c].user, req[c].friend), j # i PROVE FALSE
      OBVIOUS
    <3>1. j \in Ids /\ friend_info[i].add_time <= friend_info[j].add_time
      BY <1>2 DEF Latest, Rows, RowsIn, Ids
    <3>2. friend_info[j].add_time < friend_info[i].add_time
      BY <1>0 DEF AskDue, Newest, Latest, Concerns
    <3>3. friend_info[i].add_time \in Nat /\ friend_info[j].add_time \in Nat
      BY <3>1, PairType DEF Row
    <3> QED BY <3>1, <3>2, <3>3
  <2>2. got'[c] = {i}
    BY <1>3, <2>1 DEF consutrct_friend_ask_notice_msg, TypeOK
  <2> QED BY <1>0, <1>3, <2>2 DEF consutrct_friend_ask_notice_msg, AskComing, Concerns, TypeOK
<1>4. CASE NoRowToTell(c)
  BY <1>2, <1>4 DEF NoRowToTell
<1>5. CASE TellSelf(c)
  <2>1. i \in got[c]
    BY <1>5 DEF TellSelf, AskComing
  <2>2. CASE e = c
    BY <1>5, <2>1, <2>2, NoticeArrives
  <2>3. CASE e # c
    BY <1>0, <1>1, <1>5, <2>1, <2>3 DEF TellSelf, AskComing, Concerns, TypeOK
  <2> QED BY <2>2, <2>3
<1>6. CASE TellPeer(c)
  <2>1. i \in got[c] /\ friend_info[i].friend = AccountOf[e]
    BY <1>6 DEF TellPeer, AskComing
  <2>2. e = PeerClient(c)
    <3>1. AccountOf[c] # AccountOf[e]
      BY <1>0, <2>1 DEF Work, Concerns, Request
    <3> QED BY <1>0, <3>1
  <2> QED BY <1>6, <2>1, <2>2, NoticeArrives
<1>7. CASE StatementFails(c)
  <2>1. pc[c] = "fetch" /\ Cut({c, PeerClient(c)} \ {None})
    BY <1>7 DEF StatementFails, AskComing, Checking
  <2> QED BY <1>0, <2>1, FriendsAssumption DEF Cut
<1>8. CASE \/ do_login(c) \/ get_addfriend_ask(c) \/ SendAskList(c) \/ AskListSent(c)
           \/ get_friendlist(c) \/ SendFriendList(c) \/ FriendListSent(c) \/ ListFails(c)
           \/ Disconnect(c) \/ Interrupt(c)
  BY <1>8 DEF do_login, get_addfriend_ask, SendAskList, AskListSent, get_friendlist,
              SendFriendList, FriendListSent, ListFails, Disconnect, Interrupt, Listing, AskComing
<1>9. CASE \/ (\E f \in Accounts : Ask(c, f)) \/ FindOwn(c) \/ FindReverse(c) \/ InsertAsk(c)
           \/ (\E u \in Accounts, kind \in {"accept", "reject"} : Answer(c, u, kind))
           \/ updata_friend_data_handle(c) \/ UpdateFails(c) \/ ListPeer(c) \/ ListSelf(c)
  BY <1>9 DEF Ask, FindOwn, FindReverse, InsertAsk, Answer, updata_friend_data_handle, UpdateFails,
              ListPeer, ListSelf, AskComing
<1> QED BY <1>3, <1>4, <1>5, <1>6, <1>7, <1>8, <1>9 DEF ClientNext

\* A row that a ROLLBACK left alone was the newest before it, too.
LEMMA AskRollback ==
  ASSUME TypeOK, SavedInv, Rollback, NEW i \in RowIds, NEW c \in Clients, AskDue(c, i)'
  PROVE  AskDue(c, i) /\ Concerns(c, i)' = Concerns(c, i)
         /\ friend_info'[i] = friend_info[i]
<1>1. saved # None /\ friend_info' = saved /\ saved[i] # None
  BY DEF Rollback, AskDue, Involving, Ids
<1>2. i \in Ids /\ friend_info[i].user = saved[i].user /\ friend_info[i].friend = saved[i].friend
  BY <1>1 DEF SavedInv, Ids
<1>3. \A j \in Rows(friend_info[i].user, friend_info[i].friend) : friend_info[j] = saved[j] /\ j \in Ids
  <2> SUFFICES ASSUME NEW j \in Rows(friend_info[i].user, friend_info[i].friend), friend_info[j] # saved[j]
               PROVE FALSE
    BY DEF Rows, RowsIn, Ids
  <2>1. j \in Changed
    BY DEF Changed, Rows, RowsIn, Ids
  <2>2. <<friend_info[j].user, friend_info[j].friend>> = <<friend_info'[i].user, friend_info'[i].friend>>
    BY <1>1, <1>2 DEF Rows, RowsIn
  <2>3. <<friend_info'[i].user, friend_info'[i].friend>> \in undone'
    BY <2>1, <2>2 DEF Rollback
  <2> QED BY <2>3 DEF AskDue
<1>4. friend_info'[i] = friend_info[i]
  BY <1>1, <1>2, <1>3 DEF Rows, RowsIn, Ids
<1>5. Newest(i)
  <2> SUFFICES ASSUME NEW j \in Rows(friend_info[i].user, friend_info[i].friend) \ {i}
               PROVE  friend_info[j].add_time < friend_info[i].add_time
    BY DEF Newest
  <2>1. friend_info'[j] = friend_info[j] /\ friend_info[j] # None /\ j \in RowIds
    BY <1>1, <1>3 DEF Ids
  <2>2. j \in RowsIn(friend_info', friend_info'[i].user, friend_info'[i].friend)
    BY <1>4, <2>1 DEF Rows, RowsIn
  <2>3. friend_info'[j].add_time < friend_info'[i].add_time
    BY <2>2 DEF AskDue, Newest, Rows, RowsIn
  <2> QED BY <1>4, <2>1, <2>3
<1>6. UNCHANGED <<user_client, pc, req, clientVars, doubled>> /\ undone \subseteq undone'
  BY DEF Rollback
<1> QED BY <1>2, <1>4, <1>5, <1>6 DEF AskDue, Served, Involving, Ids, Concerns

LEMMA AskStep ==
  ASSUME IInv, ClientInv, AskInv, [Next]_vars
  PROVE  AskInv'
<1>0. TypeOK /\ WorkInv /\ SlotInv /\ SavedInv
  BY DEF IInv, BasicInv
<1> SUFFICES ASSUME NEW e \in Clients, NEW i \in RowIds, AskDue(e, i)' PROVE AskKnown(e, i)'
  BY DEF AskInv, AskKnown
<1>1. CASE Rollback
  <2>1. AskDue(e, i) /\ friend_info'[i] = friend_info[i] /\ UNCHANGED <<pc, req, got, heard>>
    BY <1>0, <1>1, AskRollback DEF Rollback
  <2>2. AskKnown(e, i)
    BY <2>1 DEF AskInv, AskKnown
  <2> QED BY <2>1, <2>2 DEF AskKnown, InAskList, AskComing, Concerns
<1>2. CASE Tick \/ Begin \/ UNCHANGED vars
  <2>1. UNCHANGED <<friend_info, user_client, pc, req, got, heard, cut, undone, doubled>>
    BY <1>2 DEF Tick, Begin, vars
  <2>2. AskDue(e, i)
    BY <2>1 DEF AskDue, Served, Involving, Ids, Newest, Rows, RowsIn
  <2>3. AskKnown(e, i)
    BY <2>2 DEF AskInv, AskKnown
  <2> QED BY <2>1, <2>3 DEF AskKnown, InAskList, AskComing, Concerns
<1>3. ASSUME NEW c \in Clients, ClientNext(c) PROVE AskKnown(e, i)'
  <2>1. ~Die
    BY DEF Die, AskDue, Served
  <2>2. /\ \A d \in Clients \ {c} : pc'[d] = pc[d] /\ req'[d] = req[d] /\ got'[d] = got[d]
        /\ Served(e)' /\ pc'[e] # "logged_in" /\ friend_info'[i] # None
    BY <1>0, <1>3, <2>1, OthersKeep DEF AskDue, Involving, Ids
  <2>3. /\ Served(e) /\ e \notin cut' /\ heard[e] \subseteq heard'[e]
        /\ Stays(c) \/ e # c
        /\ doubled \subseteq doubled' /\ undone \subseteq undone'
    <3>1. e \notin cut'
      BY <2>2 DEF Served
    <3>2. do_login(c) => doubled \subseteq doubled' /\ UNCHANGED undone
      BY DEF do_login
    <3>3. Disconnect(c) => UNCHANGED <<doubled, undone>>
      BY DEF Disconnect
    <3> QED BY <1>0, <1>3, <2>1, <2>2, <3>1, <3>2, <3>3, ServedBefore DEF Stays
  <2>4. CASE Inserts(c) /\ i = req[c].id
    <3>1. Work(c) /\ req[c].kind = "ask" /\ req'[c] = req[c] /\ pc'[c] = "fetch"
      BY <1>0, <2>4 DEF WorkInv, Work, Inserts, Checking
    <3>2. friend_info'[i].user = req[c].user /\ friend_info'[i].friend = req[c].friend
      BY <1>0, <2>4 DEF Inserts, TypeOK, Table
    <3> QED BY <3>1, <3>2 DEF AskKnown, AskComing, Concerns
  <2>5. CASE ~(Inserts(c) /\ i = req[c].id)
    <3>1. /\ i \in Ids /\ friend_info'[i].user = friend_info[i].user
          /\ friend_info'[i].friend = friend_info[i].friend
      BY <1>0, <1>3, <2>1, <2>2, <2>5, RowsKeep
    <3>2. Newest(i)
      BY <1>0, <1>3, <2>1, <3>1, NewestKeeps DEF AskDue
    <3>3. i \in Involving(AccountOf[e])
      BY <3>1 DEF AskDue, Involving
    <3>4. CASE pc[e] = "logged_in"
      <4>1. e = c
        BY <2>2, <3>4
      <4>2. get_addfriend_ask(c)
        BY <1>3, <2>1, <2>2, <2>3, <3>4, <4>1, OnlyAskList
      <4> QED BY <1>0, <3>3, <4>1, <4>2 DEF get_addfriend_ask, AskKnown, InAskList, TypeOK
    <3>5. CASE pc[e] # "logged_in"
      <4>1. AskDue(e, i)
        BY <2>3, <3>1, <3>2, <3>3, <3>5 DEF AskDue
      <4>2. AskKnown(e, i)
        BY <4>1 DEF AskInv, AskKnown
      <4>3. CASE i \in heard[e]
        BY <2>3, <4>3 DEF AskKnown
      <4>4. CASE InAskList(e, i)
        <5>1. CASE e = c
          BY <1>0, <1>3, <2>3, <4>4, <5>1, AskListStep DEF AskKnown
        <5>2. CASE e # c
          BY <2>2, <4>4, <5>2 DEF AskKnown, InAskList
        <5> QED BY <5>1, <5>2
      <4>5. ASSUME NEW d \in Clients, AskComing(d, i, e) PROVE AskKnown(e, i)'
        <5>1. CASE d # c
          BY <2>2, <3>1, <4>5, <5>1 DEF AskKnown, AskComing, Concerns
        <5>2. CASE d = c
          <6>1. Stays(c) /\ UNCHANGED friend_info
            BY <1>0, <1>3, <2>1, <4>5, <5>2, ClientsStay, TableWrites
               DEF AskComing, do_login, Disconnect, Inserts, Updates
          <6> QED BY <1>0, <1>3, <2>1, <2>3, <3>1, <4>1, <4>5, <5>2, <6>1, AskComingStep DEF AskKnown
        <5> QED BY <5>1, <5>2
      <4> QED BY <4>2, <4>3, <4>4, <4>5 DEF AskKnown
    <3> QED BY <3>4, <3>5
  <2> QED BY <2>4, <2>5
<1> QED BY <1>1, <1>2, <1>3 DEF Next

\* Where the friendship of row i is, that c should see.
FriendKnown(c, i) ==
  Other(i, c) \subseteq buddies[c] \/ InFriendList(c, i) \/ \E d \in Clients : FriendComing(d, i, c)

\* The login sends its list of friends.
LEMMA FriendListStep ==
  ASSUME TypeOK, WorkInv, NEW c \in Clients, ClientNext(c), NEW i \in RowIds,
         InFriendList(c, i), Stays(c), c \notin cut', Other(i, c)' = Other(i, c)
  PROVE  Other(i, c) \subseteq buddies'[c] \/ InFriendList(c, i)'
<1>1. CASE SendFriendList(c)
  BY <1>1 DEF SendFriendList, InFriendList, TypeOK
<1>2. CASE FriendListSent(c)
  BY <1>2 DEF FriendListSent, InFriendList, TypeOK
<1>3. CASE ListFails(c) \/ Interrupt(c)
  BY <1>3 DEF ListFails, Interrupt, Cut
<1>4. CASE do_login(c) \/ get_addfriend_ask(c) \/ get_friendlist(c) \/ SendAskList(c)
           \/ AskListSent(c) \/ Disconnect(c)
  BY <1>4 DEF do_login, get_addfriend_ask, get_friendlist, SendAskList, AskListSent,
              Disconnect, InFriendList
<1>5. CASE \/ (\E f \in Accounts : Ask(c, f)) \/ FindOwn(c) \/ FindReverse(c) \/ InsertAsk(c)
           \/ StatementFails(c)
           \/ (\E u \in Accounts, kind \in {"accept", "reject"} : Answer(c, u, kind))
           \/ updata_friend_data_handle(c) \/ UpdateFails(c)
           \/ consutrct_friend_ask_notice_msg(c) \/ NoRowToTell(c)
           \/ TellSelf(c) \/ TellPeer(c) \/ ListPeer(c) \/ ListSelf(c)
  BY <1>5 DEF Ask, FindOwn, FindReverse, InsertAsk, StatementFails, Checking, Answer,
              updata_friend_data_handle, UpdateFails, consutrct_friend_ask_notice_msg,
              NoRowToTell, TellSelf, TellPeer, ListPeer, ListSelf, InFriendList
<1> QED BY <1>1, <1>2, <1>3, <1>4, <1>5 DEF ClientNext

\* From the states before it, only reading the list of friends leads to a client that
\* should know its friends.
LEMMA OnlyFriendList ==
  ASSUME TypeOK, NEW c \in Clients, ClientNext(c), ~Die, c \notin cut', pc'[c] # "out",
         pc[c] \in {"logged_in", "ask_list", "sending_asks", "listed"},
         pc'[c] \notin {"logged_in", "ask_list", "sending_asks", "listed"}
  PROVE  get_friendlist(c)
<1>1. CASE \/ do_login(c) \/ get_addfriend_ask(c) \/ SendAskList(c) \/ AskListSent(c)
           \/ SendFriendList(c) \/ FriendListSent(c) \/ Disconnect(c)
  BY <1>1 DEF do_login, get_addfriend_ask, SendAskList, AskListSent, SendFriendList,
              FriendListSent, Disconnect, TypeOK
<1>2. CASE ListFails(c) \/ Interrupt(c)
  BY <1>2 DEF ListFails, Interrupt, Cut
<1>3. CASE StatementFails(c)
  BY <1>3 DEF StatementFails, Checking, Cut
<1>4. CASE \/ (\E f \in Accounts : Ask(c, f)) \/ FindOwn(c) \/ FindReverse(c) \/ InsertAsk(c)
           \/ (\E u \in Accounts, kind \in {"accept", "reject"} : Answer(c, u, kind))
           \/ updata_friend_data_handle(c) \/ UpdateFails(c)
           \/ consutrct_friend_ask_notice_msg(c) \/ NoRowToTell(c)
           \/ TellSelf(c) \/ TellPeer(c) \/ ListPeer(c) \/ ListSelf(c)
  BY <1>4 DEF Ask, FindOwn, FindReverse, InsertAsk, Answer, updata_friend_data_handle, UpdateFails,
              consutrct_friend_ask_notice_msg, NoRowToTell, TellSelf, TellPeer, ListPeer, ListSelf
<1> QED BY <1>1, <1>2, <1>3, <1>4 DEF ClientNext

\* A handler that is going to show the friend shows it, or still is going to.
LEMMA FriendComingStep ==
  ASSUME TypeOK, WorkInv, ClientInv, NEW c \in Clients, ClientNext(c), ~Die, Stays(c),
         NEW i \in Ids, NEW e \in Clients, FriendComing(c, i, e), FriendDue(e, i), e \notin cut',
         UNCHANGED friend_info
  PROVE  Other(i, e) \subseteq buddies'[e] \/ FriendComing(c, i, e)'
<1>0. /\ Work(c) /\ req[c].kind = "accept" /\ Concerns(c, i) /\ i \in RowIds
      /\ e = c \/ (e = PeerClient(c) /\ Peer(c) = AccountOf[e] /\ Peer(c) # AccountOf[c])
  <2>1. /\ pc[c] \in Working /\ req[c].kind = "accept" /\ Concerns(c, i) /\ i \in RowIds
    BY DEF FriendComing, Ids
  <2>2. /\ Served(e) /\ i \in Involving(AccountOf[e])
        /\ friend_info[i].user = AccountOf[e] \/ AccountOf[e] \notin doubled
    BY DEF FriendDue
  <2> QED BY <2>1, <2>2, Whose
<1>1. CASE \/ consutrct_friend_ask_notice_msg(c) \/ NoRowToTell(c) \/ TellSelf(c)
  BY <1>0, <1>1 DEF consutrct_friend_ask_notice_msg, NoRowToTell, TellSelf, FriendComing, Concerns, TypeOK
<1>2. CASE TellPeer(c)
  BY <1>0, <1>2 DEF TellPeer, FriendComing, Concerns, TypeOK
<1>3. CASE ListPeer(c)
  <2>1. CASE e = c
    BY <1>0, <1>3, <2>1 DEF ListPeer, FriendComing, Concerns, TypeOK
  <2>2. CASE e # c
    <3>1. AccountOf[c] \in buddies'[e]
      BY <1>0, <1>3, <2>2, NoticeArrives
    <3>2. Other(i, e) \subseteq {AccountOf[c]}
      BY <1>0, <2>2 DEF Other, Concerns, Work, Peer
    <3> QED BY <3>1, <3>2
  <2> QED BY <2>1, <2>2
<1>4. CASE ListSelf(c)
  <2>1. e = c
    BY <1>4 DEF ListSelf, FriendComing
  <2>2. Peer(c) \in buddies'[c]
    BY <1>4, <2>1, NoticeArrives
  <2>3. Other(i, c) \subseteq {Peer(c)}
    BY <1>0 DEF Other, Concerns, Work, Peer
  <2> QED BY <2>1, <2>2, <2>3
<1>5. CASE StatementFails(c)
  <2>1. pc[c] = "fetch" /\ Cut({c, PeerClient(c)} \ {None})
    BY <1>5 DEF StatementFails, FriendComing, Checking
  <2> QED BY <1>0, <2>1, FriendsAssumption DEF Cut
<1>6. CASE \/ do_login(c) \/ get_addfriend_ask(c) \/ SendAskList(c) \/ AskListSent(c)
           \/ get_friendlist(c) \/ SendFriendList(c) \/ FriendListSent(c) \/ ListFails(c)
           \/ Disconnect(c) \/ Interrupt(c)
  BY <1>6 DEF do_login, get_addfriend_ask, SendAskList, AskListSent, get_friendlist,
              SendFriendList, FriendListSent, ListFails, Disconnect, Interrupt, Listing, FriendComing
<1>7. CASE \/ (\E f \in Accounts : Ask(c, f)) \/ FindOwn(c) \/ FindReverse(c) \/ InsertAsk(c)
           \/ (\E u \in Accounts, kind \in {"accept", "reject"} : Answer(c, u, kind))
           \/ updata_friend_data_handle(c) \/ UpdateFails(c)
  BY <1>7 DEF Ask, FindOwn, FindReverse, InsertAsk, Answer, updata_friend_data_handle, UpdateFails,
              FriendComing
<1> QED BY <1>1, <1>2, <1>3, <1>4, <1>5, <1>6, <1>7 DEF ClientNext

\* A list of friends has both sides of a friendship but its own.
LEMMA FriendsAreOthers ==
  ASSUME TypeOK, NEW c \in Clients, NEW i \in Involving(AccountOf[c]), friend_info[i].status = 1
  PROVE  Other(i, c) \subseteq FriendsOf(AccountOf[c])
<1>1. friend_info[i].user \in Accounts /\ friend_info[i].friend \in Accounts
  BY PairType DEF Involving, Row
<1> QED BY <1>1 DEF Other, FriendsOf

LEMMA FriendStep ==
  ASSUME IInv, ClientInv, FriendInv, [Next]_vars
  PROVE  FriendInv'
<1>0. TypeOK /\ WorkInv /\ SlotInv /\ SavedInv
  BY DEF IInv, BasicInv
<1> SUFFICES ASSUME NEW e \in Clients, NEW i \in RowIds, FriendDue(e, i)' PROVE FriendKnown(e, i)'
  BY DEF FriendInv, FriendKnown
<1>1. CASE Tick \/ Begin \/ Rollback \/ UNCHANGED vars
  <2>1. UNCHANGED <<user_client, pc, req, got_friends, buddies, cut, doubled>>
    BY <1>1 DEF Tick, Begin, Rollback, vars
  <2>2. friend_info' = friend_info \/ (Rollback /\ saved # None /\ friend_info' = saved)
    BY <1>1 DEF Tick, Begin, Rollback, vars
  <2>3. /\ i \in Ids /\ friend_info'[i].user = friend_info[i].user
        /\ friend_info'[i].friend = friend_info[i].friend /\ friend_info[i].status = 1
    BY <1>0, <2>2 DEF FriendDue, Involving, Ids, SavedInv
  <2>4. FriendDue(e, i)
    BY <2>1, <2>3 DEF FriendDue, Served, Involving
  <2>5. FriendKnown(e, i)
    BY <2>4 DEF FriendInv, FriendKnown
  <2> QED BY <2>1, <2>3, <2>5 DEF FriendKnown, InFriendList, FriendComing, Concerns, Other
<1>2. ASSUME NEW c \in Clients, ClientNext(c) PROVE FriendKnown(e, i)'
  <2>1. ~Die
    BY DEF Die, FriendDue, Served
  <2>2. /\ \A d \in Clients \ {c} : /\ pc'[d] = pc[d] /\ req'[d] = req[d]
                                    /\ got_friends'[d] = got_friends[d]
        /\ Served(e)' /\ friend_info'[i] # None /\ friend_info'[i].status = 1
        /\ pc'[e] \notin {"logged_in", "ask_list", "sending_asks", "listed"}
    BY <1>0, <1>2, <2>1, OthersKeep DEF FriendDue, Involving, Ids
  <2>3. /\ Served(e) /\ e \notin cut' /\ buddies[e] \subseteq buddies'[e]
        /\ Stays(c) \/ e # c
        /\ doubled \subseteq doubled'
    <3>1. e \notin cut'
      BY <2>2 DEF Served
    <3>2. do_login(c) => doubled \subseteq doubled'
      BY DEF do_login
    <3>3. Disconnect(c) => UNCHANGED doubled
      BY DEF Disconnect
    <3> QED BY <1>0, <1>2, <2>1, <2>2, <3>1, <3>2, <3>3, ServedBefore DEF Stays
  <2>4. i \in Ids
    <3>1. CASE Inserts(c) /\ i = req[c].id
      <4>1. friend_info'[i].status = 0
        BY <1>0, <3>1 DEF Inserts, TypeOK, Table
      <4> QED BY <2>2, <4>1
    <3> QED BY <1>0, <1>2, <2>1, <2>2, <3>1, RowsKeep
  <2>5. /\ friend_info'[i].user = friend_info[i].user
        /\ friend_info'[i].friend = friend_info[i].friend
        /\ \/ friend_info[i].status = 1
           \/ Updates(c) /\ req[c].kind = "accept" /\ Concerns(c, i)
    BY <1>0, <1>2, <2>1, <2>2, <2>4, RowsKeep
  <2>6. /\ i \in Involving(AccountOf[e]) /\ Other(i, e)' = Other(i, e)
        /\ friend_info[i].user = AccountOf[e] \/ AccountOf[e] \notin doubled
    BY <2>3, <2>4, <2>5 DEF FriendDue, Involving, Other
  <2>7. CASE Updates(c) /\ req[c].kind = "accept" /\ Concerns(c, i)
    BY <2>5, <2>7 DEF Updates, FriendKnown, FriendComing, Concerns
  <2>8. CASE friend_info[i].status = 1
    <3>1. CASE pc[e] \in {"logged_in", "ask_list", "sending_asks", "listed"}
      <4>1. e = c
        BY <2>2, <3>1
      <4>2. get_friendlist(c)
        BY <1>0, <1>2, <2>1, <2>2, <2>3, <3>1, <4>1, OnlyFriendList DEF Served
      <4>3. Other(i, c) \subseteq FriendsOf(AccountOf[c])
        BY <1>0, <2>6, <2>8, <4>1, FriendsAreOthers
      <4>4. Other(i, c) \subseteq got_friends'[c]
        BY <1>0, <4>2, <4>3 DEF get_friendlist, TypeOK
      <4>5. pc'[e] = "friend_list" /\ Other(i, e)' \subseteq got_friends'[e]
        BY <1>0, <2>6, <4>1, <4>2, <4>4 DEF get_friendlist, TypeOK
      <4> QED BY <4>5 DEF FriendKnown, InFriendList
    <3>2. CASE pc[e] \notin {"logged_in", "ask_list", "sending_asks", "listed"}
      <4>1. FriendDue(e, i)
        BY <2>3, <2>6, <2>8, <3>2 DEF FriendDue
      <4>2. FriendKnown(e, i)
        BY <4>1 DEF FriendInv, FriendKnown
      <4>3. CASE Other(i, e) \subseteq buddies[e]
        BY <2>3, <2>6, <4>3 DEF FriendKnown
      <4>4. CASE InFriendList(e, i)
        <5>1. CASE e = c
          BY <1>0, <1>2, <2>3, <2>6, <4>4, <5>1, FriendListStep DEF FriendKnown
        <5>2. CASE e # c
          BY <2>2, <2>6, <4>4, <5>2 DEF FriendKnown, InFriendList
        <5> QED BY <5>1, <5>2
      <4>5. ASSUME NEW d \in Clients, FriendComing(d, i, e) PROVE FriendKnown(e, i)'
        <5>1. CASE d # c
          BY <2>2, <2>5, <4>5, <5>1 DEF FriendKnown, FriendComing, Concerns
        <5>2. CASE d = c
          <6>1. Stays(c) /\ UNCHANGED friend_info
            BY <1>0, <1>2, <2>1, <4>5, <5>2, ClientsStay, TableWrites
               DEF FriendComing, do_login, Disconnect, Inserts, Updates
          <6> QED BY <1>0, <1>2, <2>1, <2>3, <2>4, <2>6, <4>1, <4>5, <5>2, <6>1, FriendComingStep DEF FriendKnown
        <5> QED BY <5>1, <5>2
      <4> QED BY <4>2, <4>3, <4>4, <4>5 DEF FriendKnown
    <3> QED BY <3>1, <3>2
  <2> QED BY <2>5, <2>7, <2>8
<1> QED BY <1>1, <1>2 DEF Next

LEMMA InitTell == Init => TellInv
<1> SUFFICES ASSUME Init PROVE TellInv
  OBVIOUS
<1>1. \A i \in RowIds : \A a : i \notin Involving(a)
  BY DEF Init, Involving, Ids
<1>2. ClientInv
  <2>1. \A c \in Clients : pc[c] # "out" <=> c \in OnlineAtStart
    BY DEF Init
  <2>2. \A c \in OnlineAtStart : FirstClient(AccountOf[c]) = c
    BY FriendsAssumption DEF FirstClient
  <2>3. \A a \in Accounts : FirstClient(a) # None =>
          AccountOf[FirstClient(a)] = a /\ FirstClient(a) \in OnlineAtStart
    BY FriendsAssumption DEF FirstClient
  <2>4. \A c \in Clients : AccountOf[c] \in Accounts
    BY FriendsAssumption
  <2>5. \A a \in Accounts : user_client[a] = FirstClient(a)
    BY DEF Init
  <2> QED BY <2>1, <2>2, <2>3, <2>4, <2>5, FriendsAssumption DEF Init, ClientInv
<1> QED BY <1>1, <1>2 DEF TellInv, AskInv, AskDue, FriendInv, FriendDue

\* Whoever is served, and whatever else fails: each request and each friend is in what a
\* connection was sent, in the list its login is about to send, or with a handler that is
\* about to send it.
THEOREM NothingForgotten == Spec => [](IInv /\ TellInv)
<1>1. Init => IInv /\ TellInv
  BY InitIInv, InitTell
<1>2. IInv /\ TellInv /\ [Next]_vars => (IInv /\ TellInv)'
  BY IInvStep, ClientStep, AskStep, FriendStep DEF TellInv, IInv, BasicInv
<1> QED BY <1>1, <1>2, PTL DEF Spec

\* When no handler is at work, whoever was sent all that was meant for it knows of every
\* request that involves it.
THEOREM AsksHeard == Spec => []NoMissedAsk
<1>1. IInv /\ TellInv => NoMissedAsk
  <2> SUFFICES ASSUME IInv, TellInv, Quiet, NEW c \in Clients, Reached(c),
                      NEW i \in Involving(AccountOf[c]), Newest(i),
                      <<friend_info[i].user, friend_info[i].friend>> \notin undone,
                      friend_info[i].friend = AccountOf[c] \/ AccountOf[c] \notin doubled
               PROVE  i \in heard[c]
    BY DEF NoMissedAsk
  <2>1. AskDue(c, i) /\ i \in RowIds
    BY DEF AskDue, Served, Reached, Involving, Ids
  <2>2. \A d \in Clients : ~AskComing(d, i, c)
    BY DEF Quiet, AskComing
  <2> QED BY <2>1, <2>2 DEF TellInv, AskInv, InAskList, Quiet
<1> QED BY <1>1, NothingForgotten, PTL

\* ... and sees every friend.
THEOREM FriendsShown == Spec => []NoMissedFriend
<1>1. IInv /\ TellInv => NoMissedFriend
  <2> SUFFICES ASSUME IInv, TellInv, Quiet, NEW c \in Clients, Reached(c),
                      NEW i \in Involving(AccountOf[c]), friend_info[i].status = 1,
                      friend_info[i].user = AccountOf[c] \/ AccountOf[c] \notin doubled
               PROVE  Other(i, c) \subseteq buddies[c]
    BY DEF NoMissedFriend, Other
  <2>1. FriendDue(c, i) /\ i \in RowIds
    BY DEF FriendDue, Served, Reached, Involving, Ids
  <2>2. \A d \in Clients : ~FriendComing(d, i, c)
    BY DEF Quiet, FriendComing
  <2> QED BY <2>1, <2>2 DEF TellInv, FriendInv, InFriendList, Quiet
<1> QED BY <1>1, NothingForgotten, PTL
=============================================================================
