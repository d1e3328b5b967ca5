------------------------------- MODULE Accounts -------------------------------
(***************************************************************************)
(* Accounts: registration with its picture, the login check, the query for *)
(* a user, and user_client, the map from an account to the descriptor it   *)
(* is logged in on, with the notices to friends that are sent by it        *)
(* (business.cpp, data_handler.cpp).                                       *)
(*                                                                         *)
(* Connections come and go on few descriptor numbers.  A handler knows its *)
(* client by the number.  The thread of a connection that has ended cleans *)
(* up while the kernel may give its number to the next one; the next one   *)
(* is served when that is over (Dispatch!OneWorkerPerClient).  SQL         *)
(* statements, operations of the map and reads of a file are atomic.       *)
(***************************************************************************)
EXTENDS Naturals, FiniteSets

CONSTANTS
  Conns,            \* connections, each one life of a descriptor
  Fds,              \* the numbers the kernel gives them
  Accounts,         \* user_account, in the map's order
  Passwords,        \* what a registration brings: a password and a picture to tell it by
  Friends,          \* the pairs of friend_info with friend_status=1, which every SELECT
                    \* takes in both directions
  RegisteredAtStart,
  FirstPassword,    \* their password
  None,
  MaxRequests,      \* bound: messages the clients send
  MaxCloses         \* bound: connections that end

Row == [password : Passwords, avatar : BOOLEAN]

ASSUME AccountsAssumption ==
  /\ Accounts \subseteq Nat /\ RegisteredAtStart \subseteq Accounts
  /\ Friends \subseteq Accounts \X Accounts /\ FirstPassword \in Passwords
  /\ None \notin Conns \cup Fds \cup Passwords /\ None \notin Accounts /\ None \notin Row
  /\ MaxRequests \in Nat /\ MaxCloses \in Nat

\* A row makes both its accounts friends of each other: the SELECT takes it in both directions.
ASSUME FriendsAreMutual == \A a, b \in Accounts : <<a, b>> \in Friends => <<b, a>> \in Friends

VARIABLES
  user_info,        \* user_info[a]: the row of account a, or None
  avatars,          \* avatars[a]: what avatars/<a>.jpg holds, or None
  user_client,      \* user_client[a]: a descriptor, or None
  open,             \* connections that are open
  clientfd,         \* clientfd[c]: the number c's thread works with, or None
  pc, req,          \* where the handler of c is, and the message it handles
  linked,           \* linked[c]: the file c writes is still the one of that name
  path,             \* path[c]: avatar_path is not empty
  picture,          \* picture[c]: the picture a query loaded
  user,             \* user[c]: the account whose friends are told
  to_tell,          \* to_tell[c]: its friends still to be looked up
  friend, found,    \* friend[c]: the one looked up, found[c]: the descriptor it has
  online,           \* online[c]: the friends with status 1 in the list
  view,             \* view[c][a]: what the client shows of a
  logins,           \* logins[c]: accounts that have logged in on c
  owner,            \* history: owner[a] is the connection of a's latest login
  acked,            \* registrations answered with success
  checked,          \* history: checked[a] registrations of a found no row
  requests, closes

regVars   == <<user_info, avatars, linked, path, acked, checked>>
sockVars  == <<open, clientfd>>
tellVars  == <<user, to_tell, friend, found, online>>
loginVars == <<user_client, logins, owner>>
bounds    == <<requests, closes>>
vars == <<regVars, sockVars, loginVars, pc, req, picture, tellVars, view, bounds>>

Request == [account : Accounts, password : Passwords, picture : BOOLEAN]
Contents == Passwords \cup {"partial", "mixed", None}
Shown == {"unknown", "online", "offline"}

Init ==
  /\ user_info = [a \in Accounts |-> IF a \in RegisteredAtStart
                    THEN [password |-> FirstPassword, avatar |-> TRUE] ELSE None]
  /\ avatars = [a \in Accounts |-> IF a \in RegisteredAtStart THEN FirstPassword ELSE None]
  /\ user_client = [a \in Accounts |-> None]
  /\ open = {} /\ clientfd = [c \in Conns |-> None]
  /\ pc = [c \in Conns |-> "new"] /\ req = [c \in Conns |-> None]
  /\ linked = [c \in Conns |-> FALSE] /\ path = [c \in Conns |-> FALSE]
  /\ picture = [c \in Conns |-> None]
  /\ user = [c \in Conns |-> None] /\ to_tell = [c \in Conns |-> {}]
  /\ friend = [c \in Conns |-> None] /\ found = [c \in Conns |-> None]
  /\ online = [c \in Conns |-> {}]
  /\ view = [c \in Conns |-> [a \in Accounts |-> "unknown"]]
  /\ logins = [c \in Conns |-> {}] /\ owner = [a \in Accounts |-> None]
  /\ acked = {} /\ checked = [a \in Accounts |-> 0]
  /\ requests = 0 /\ closes = 0

Goto(c, label) == pc' = [pc EXCEPT ![c] = label]

\* accept: a number that no open connection has.
Accept(c, n) ==
  /\ pc[c] = "new" /\ \A d \in open : clientfd[d] # n
  /\ open' = open \cup {c}
  /\ clientfd' = [clientfd EXCEPT ![c] = n]
  /\ Goto(c, "idle")
  /\ UNCHANGED <<regVars, loginVars, req, picture, tellVars, view, bounds>>

\* No thread is at work for the number: not for c, nor for one that had it before.
Free(c) == pc[c] = "idle" /\ \A d \in Conns \ {c} : clientfd[d] # clientfd[c]

Receive(c, a, p, pic, label) ==
  /\ Free(c) /\ requests < MaxRequests
  /\ requests' = requests + 1
  /\ req' = [req EXCEPT ![c] = [account |-> a, password |-> p, picture |-> pic]]
  /\ Goto(c, label)
  /\ UNCHANGED <<regVars, sockVars, loginVars, picture, tellVars, view, closes>>

\* The handler returns; its locals end.
Done(c) == Goto(c, "idle") /\ req' = [req EXCEPT ![c] = None]

-----------------------------------------------------------------------------
(* handle_register_message *)

Register(c, a, p, pic) == Receive(c, a, p, pic, "check")

\* Variant: the picture is saved before the row is looked for.
FindUserLate(c) ==
  LET a == req[c].account IN
  /\ pc[c] = "check"
  /\ IF user_info[a] # None /\ ~req[c].picture
     THEN Done(c) /\ UNCHANGED checked
     ELSE /\ Goto(c, IF req[c].picture THEN "open" ELSE "insert")
          /\ checked' = IF user_info[a] = None
                        THEN [checked EXCEPT ![a] = @ + 1] ELSE checked
          /\ UNCHANGED req
  /\ UNCHANGED <<user_info, avatars, linked, path, acked, sockVars, loginVars, picture,
                 tellVars, view, bounds>>

FindUser(c) ==
  LET a == req[c].account IN
  /\ pc[c] = "check"
  /\ IF user_info[a] # None
     THEN Done(c) /\ UNCHANGED checked
     ELSE /\ Goto(c, IF req[c].picture THEN "open" ELSE "insert")
          /\ checked' = [checked EXCEPT ![a] = @ + 1]
          /\ UNCHANGED req
  /\ UNCHANGED <<user_info, avatars, linked, path, acked, sockVars, loginVars, picture,
                 tellVars, view, bounds>>

\* fopen with "wb" empties the file; when it fails the registration goes on.
OpenAvatar(c) ==
  /\ pc[c] = "open"
  /\ \/ /\ avatars' = [avatars EXCEPT ![req[c].account] = "partial"]
        /\ linked' = [linked EXCEPT ![c] = TRUE]
        /\ Goto(c, "write")
     \/ Goto(c, "insert") /\ UNCHANGED <<avatars, linked>>
  /\ UNCHANGED <<user_info, path, acked, checked, sockVars, loginVars, req, picture,
                 tellVars, view, bounds>>

\* Over the picture of another registration a shorter one leaves its rest.
WriteAvatar(c) ==
  LET a == req[c].account IN
  /\ pc[c] = "write"
  /\ IF linked[c]
     THEN \E content \in {req[c].password} \cup
                         (IF avatars[a] = "partial" THEN {} ELSE {"mixed"}) :
            avatars' = [avatars EXCEPT ![a] = content]
     ELSE UNCHANGED avatars
  /\ path' = [path EXCEPT ![c] = TRUE]
  /\ Goto(c, "insert")
  /\ UNCHANGED <<user_info, linked, acked, checked, sockVars, loginVars, req, picture,
                 tellVars, view, bounds>>

\* A short write: the file of that name is removed, whoever wrote it.
RemoveAvatar(c) ==
  LET a == req[c].account IN
  /\ pc[c] = "write"
  /\ avatars' = [avatars EXCEPT ![a] = None]
  /\ linked' = [d \in Conns |-> linked[d] /\ (pc[d] = "write" => req[d].account # a)]
  /\ Goto(c, "insert")
  /\ UNCHANGED <<user_info, path, acked, checked, sockVars, loginVars, req, picture,
                 tellVars, view, bounds>>

\* Variant: the path is stored as it is.
InsertUserPath(c) ==
  LET a == req[c].account IN
  /\ pc[c] = "insert"
  /\ IF user_info[a] = None
     THEN /\ user_info' = [user_info EXCEPT ![a] =
               [password |-> req[c].password, avatar |-> IF path[c] THEN a ELSE None]]
          /\ acked' = acked \cup {<<a, req[c].password>>}
     ELSE UNCHANGED <<user_info, acked>>
  /\ path' = [path EXCEPT ![c] = FALSE] /\ linked' = [linked EXCEPT ![c] = FALSE]
  /\ Done(c)
  /\ UNCHANGED <<avatars, checked, sockVars, loginVars, picture, tellVars, view, bounds>>

\* Variant: INSERT OR REPLACE.
InsertUserReplaces(c) ==
  LET a == req[c].account IN
  /\ pc[c] = "insert"
  /\ user_info' = [user_info EXCEPT ![a] =
                     [password |-> req[c].password, avatar |-> path[c]]]
  /\ acked' = acked \cup {<<a, req[c].password>>}
  /\ path' = [path EXCEPT ![c] = FALSE] /\ linked' = [linked EXCEPT ![c] = FALSE]
  /\ Done(c)
  /\ UNCHANGED <<avatars, checked, sockVars, loginVars, picture, tellVars, view, bounds>>

\* user_account is the primary key: the INSERT fails when there is a row, and the response
\* says so.
InsertUser(c) ==
  LET a == req[c].account IN
  /\ pc[c] = "insert"
  /\ IF user_info[a] = None
     THEN /\ user_info' = [user_info EXCEPT ![a] =
               [password |-> req[c].password, avatar |-> path[c]]]
          /\ acked' = acked \cup {<<a, req[c].password>>}
     ELSE UNCHANGED <<user_info, acked>>
  /\ path' = [path EXCEPT ![c] = FALSE] /\ linked' = [linked EXCEPT ![c] = FALSE]
  /\ Done(c)
  /\ UNCHANGED <<avatars, checked, sockVars, loginVars, picture, tellVars, view, bounds>>

-----------------------------------------------------------------------------
(* handle_AccountQuery_message *)

Query(c, a) == Receive(c, a, FirstPassword, FALSE, "query")

query_user(c) ==
  /\ pc[c] = "query"
  /\ IF user_info[req[c].account] = None
     THEN Done(c)
     ELSE /\ Goto(c, IF user_info[req[c].account].avatar THEN "load" ELSE "status")
          /\ UNCHANGED req
  /\ UNCHANGED <<regVars, sockVars, loginVars, picture, tellVars, view, bounds>>

load_avatar_data(c) ==
  /\ pc[c] = "load"
  /\ picture' = [picture EXCEPT ![c] = avatars[req[c].account]]
  /\ Goto(c, "status")
  /\ UNCHANGED <<regVars, sockVars, loginVars, req, tellVars, view, bounds>>

\* Whether user_client has it, and the response.
do_query(c) ==
  LET a == req[c].account IN
  /\ pc[c] = "status"
  /\ view' = [view EXCEPT ![c][a] = IF user_client[a] # None THEN "online" ELSE "offline"]
  /\ picture' = [picture EXCEPT ![c] = None]
  /\ Done(c)
  /\ UNCHANGED <<regVars, sockVars, loginVars, tellVars, bounds>>

-----------------------------------------------------------------------------
(* handle_login_message *)

Login(c, a, p) == Receive(c, a, p, FALSE, "login")

login_check(c) ==
  LET row == user_info[req[c].account] IN
  /\ pc[c] = "login"
  /\ IF row # None /\ row.password = req[c].password
     THEN Goto(c, "enter") /\ UNCHANGED req
     ELSE Done(c)
  /\ UNCHANGED <<regVars, sockVars, loginVars, picture, tellVars, view, bounds>>

do_login(c) ==
  LET a == req[c].account IN
  /\ pc[c] = "enter"
  /\ user_client' = [user_client EXCEPT ![a] = clientfd[c]]
  /\ owner' = [owner EXCEPT ![a] = c]
  /\ logins' = [logins EXCEPT ![c] = @ \cup {a}]
  /\ user' = [user EXCEPT ![c] = a]
  /\ Goto(c, "friends")
  /\ UNCHANGED <<regVars, sockVars, req, picture, to_tell, friend, found, online, view,
                 bounds>>

-----------------------------------------------------------------------------
(* The end of a connection, in receive_message_header *)

RecvEof(c) ==
  /\ Free(c) /\ closes < MaxCloses
  /\ open' = open \ {c}
  /\ closes' = closes + 1
  /\ Goto(c, "scan")
  /\ UNCHANGED <<regVars, clientfd, loginVars, req, picture, tellVars, view, requests>>

\* The entry of the loop that finds c's number: the first in the map's order.
IsFirst(a, n) == /\ user_client[a] = n
                 /\ \A b \in Accounts : user_client[b] = n => a <= b

\* Variant: the entries of whoever logged in on c are erased.
EraseLogins(c) ==
  /\ pc[c] = "scan"
  /\ user_client' = [a \in Accounts |-> IF a \in logins[c] THEN None ELSE user_client[a]]
  /\ \E u \in Accounts \cup {None} : user' = [user EXCEPT ![c] = u]
  /\ Goto(c, "friends")
  /\ UNCHANGED <<regVars, sockVars, req, logins, owner, picture, to_tell, friend, found,
                 online, view, bounds>>

\* One entry is erased, and its key is read for user_info after that; when there is none
\* user_info is not written at all.  Either way it may hold any account, or no account.
EraseEntry(c) ==
  /\ pc[c] = "scan"
  /\ user_client' = [a \in Accounts |-> IF IsFirst(a, clientfd[c]) THEN None
                                         ELSE user_client[a]]
  /\ \E u \in Accounts \cup {None} : user' = [user EXCEPT ![c] = u]
  /\ Goto(c, "friends")
  /\ UNCHANGED <<regVars, sockVars, req, logins, owner, picture, to_tell, friend, found,
                 online, view, bounds>>

\* An error other than EAGAIN: the descriptor is closed and nothing is erased.
RecvError(c) ==
  /\ Free(c) /\ closes < MaxCloses
  /\ open' = open \ {c}
  /\ clientfd' = [clientfd EXCEPT ![c] = None]
  /\ closes' = closes + 1
  /\ Goto(c, "closed")
  /\ UNCHANGED <<regVars, loginVars, req, picture, tellVars, view, requests>>

-----------------------------------------------------------------------------
(* The notices to friends of a login or a disconnect *)

get_friendlist(c) ==
  /\ pc[c] = "friends"
  /\ to_tell' = [to_tell EXCEPT ![c] = {b \in Accounts : <<user[c], b>> \in Friends}]
  /\ Goto(c, "find")
  /\ UNCHANGED <<regVars, sockVars, loginVars, req, picture, user, friend, found, online,
                 view, bounds>>

\* Variant: the status of the friend is not set.
FindFriendNoStatus(c, b) ==
  /\ pc[c] = "find" /\ b \in to_tell[c]
  /\ to_tell' = [to_tell EXCEPT ![c] = @ \ {b}]
  /\ IF user_client[b] = None
     THEN UNCHANGED <<pc, friend, found>>
     ELSE /\ friend' = [friend EXCEPT ![c] = b]
          /\ found' = [found EXCEPT ![c] = user_client[b]]
          /\ Goto(c, "send")
  /\ UNCHANGED <<regVars, sockVars, loginVars, req, picture, user, online, view, bounds>>

FindFriend(c, b) ==
  /\ pc[c] = "find" /\ b \in to_tell[c]
  /\ to_tell' = [to_tell EXCEPT ![c] = @ \ {b}]
  /\ IF user_client[b] = None
     THEN UNCHANGED <<pc, friend, found, online>>
     ELSE /\ online' = [online EXCEPT ![c] = @ \cup {b}]
          /\ friend' = [friend EXCEPT ![c] = b]
          /\ found' = [found EXCEPT ![c] = user_client[b]]
          /\ Goto(c, "send")
  /\ UNCHANGED <<regVars, sockVars, loginVars, req, picture, user, view, bounds>>

\* The notice goes to the connection that has the number when send is called.
NotifyFriend(c) ==
  /\ pc[c] = "send"
  /\ view' = [d \in Conns |->
       IF d \in open /\ clientfd[d] = found[c]
       THEN [view[d] EXCEPT ![user[c]] = IF c \in open THEN "online" ELSE "offline"]
       ELSE view[d]]
  /\ friend' = [friend EXCEPT ![c] = None] /\ found' = [found EXCEPT ![c] = None]
  /\ Goto(c, "find")
  /\ UNCHANGED <<regVars, sockVars, loginVars, req, picture, user, to_tell, online, bounds>>

EndTelling(c) == /\ user' = [user EXCEPT ![c] = None]
                 /\ online' = [online EXCEPT ![c] = {}]

\* The list goes out after the loop, with the status each friend had in it.
SendFriendList(c) ==
  /\ pc[c] = "find" /\ to_tell[c] = {} /\ c \in open
  /\ view' = [view EXCEPT ![c] = [b \in Accounts |->
       IF <<user[c], b>> \notin Friends THEN "unknown"
       ELSE IF b \in online[c] THEN "online" ELSE "offline"]]
  /\ EndTelling(c) /\ Done(c)
  /\ UNCHANGED <<regVars, sockVars, loginVars, picture, to_tell, friend, found, bounds>>

EndConnection(c) ==
  /\ pc[c] = "find" /\ to_tell[c] = {} /\ c \notin open
  /\ clientfd' = [clientfd EXCEPT ![c] = None]
  /\ EndTelling(c) /\ Goto(c, "closed")
  /\ UNCHANGED <<regVars, open, loginVars, req, picture, to_tell, friend, found, view, bounds>>

-----------------------------------------------------------------------------
ConnNext(c) ==
  \/ \E n \in Fds : Accept(c, n)
  \/ \E a \in Accounts, p \in Passwords, pic \in BOOLEAN : Register(c, a, p, pic)
  \/ FindUser(c) \/ OpenAvatar(c) \/ WriteAvatar(c) \/ RemoveAvatar(c) \/ InsertUser(c)
  \/ (\E a \in Accounts : Query(c, a))
  \/ query_user(c) \/ load_avatar_data(c) \/ do_query(c)
  \/ (\E a \in Accounts, p \in Passwords : Login(c, a, p))
  \/ login_check(c) \/ do_login(c)
  \/ RecvEof(c) \/ EraseEntry(c) \/ RecvError(c)
  \/ get_friendlist(c) \/ (\E b \in Accounts : FindFriend(c, b)) \/ NotifyFriend(c)
  \/ SendFriendList(c) \/ EndConnection(c)

Next == \E c \in Conns : ConnNext(c)
Spec == Init /\ [][Next]_vars

-----------------------------------------------------------------------------
(* Properties *)

Pcs == {"new", "idle", "check", "open", "write", "insert", "query", "load", "status",
        "login", "enter", "scan", "friends", "find", "send", "closed"}

\* The values that every variable keeps.
TypeOK ==
  /\ user_info \in [Accounts -> Row \cup {None}]
  /\ avatars \in [Accounts -> Contents]
  /\ user_client \in [Accounts -> Fds \cup {None}]
  /\ open \subseteq Conns /\ clientfd \in [Conns -> Fds \cup {None}]
  /\ pc \in [Conns -> Pcs] /\ req \in [Conns -> Request \cup {None}]
  /\ linked \in [Conns -> BOOLEAN] /\ path \in [Conns -> BOOLEAN]
  /\ picture \in [Conns -> Contents]
  /\ user \in [Conns -> Accounts \cup {None}] /\ to_tell \in [Conns -> SUBSET Accounts]
  /\ friend \in [Conns -> Accounts \cup {None}] /\ found \in [Conns -> Fds \cup {None}]
  /\ online \in [Conns -> SUBSET Accounts]
  /\ view \in [Conns -> [Accounts -> Shown]]
  /\ logins \in [Conns -> SUBSET Accounts] /\ owner \in [Accounts -> Conns \cup {None}]
  /\ acked \subseteq Accounts \X Passwords /\ checked \in [Accounts -> Nat]
  /\ requests \in 0..MaxRequests /\ closes \in 0..MaxCloses

\* A client that is told of success can log in: two registrations of one account may both
\* pass the SELECT, but only the one whose row it is is answered so.
AckedRegistration ==
  \A r \in acked : user_info[r[1]] # None /\ user_info[r[1]].password = r[2]

\* At most one registration of the account got past the SELECT.
Uncontested(a) == checked[a] <= 1

\* The row is there only when its picture is: a query shows the picture the registration
\* brought, unless two registrations of the account overlapped.
PictureWithRow ==
  \A a \in Accounts : user_info[a] # None /\ user_info[a].avatar /\ Uncontested(a) =>
    /\ avatars[a] = user_info[a].password
    /\ \A c \in Conns : pc[c] = "status" /\ req[c].account = a =>
         picture[c] = user_info[a].password

\* While the connection of an account's latest login is open, user_client leads to it:
\* whatever second logins, lost connections and reused numbers there are meanwhile.
LiveEntryKept ==
  \A a \in Accounts : owner[a] \in open => user_client[a] = clientfd[owner[a]]

\* user_client is set before the friends are looked up: of two friends that log in at the
\* same time, one at least is shown the other.  (While no connection has ended.)
SeenByOne ==
  closes = 0 /\ (\A c \in open : pc[c] = "idle") =>
    \A a, b \in Accounts :
      LET c == owner[a]  d == owner[b] IN
      /\ <<a, b>> \in Friends /\ c \in open /\ d \in open
      /\ logins[c] = {a} /\ logins[d] = {b}
      => view[c][b] = "online" \/ view[d][a] = "online"

\* "向在线好友发送上线通知" (business.cpp:411), notices go to friends that are online: to a
\* connection that logged in as the friend.
NoticeToFriend ==
  \A c \in Conns, d \in open :
    pc[c] = "send" /\ clientfd[d] = found[c] => friend[c] \in logins[d]
=============================================================================
