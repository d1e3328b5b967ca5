---------------------------- MODULE AccountsProofs ----------------------------
(***************************************************************************)
(* Proofs about Accounts, for any connections, descriptor numbers,         *)
(* accounts, friends and bounds.                                           *)
(***************************************************************************)
EXTENDS Accounts, TLAPS

\* A handler that is at one of these places has a request.
Serving == {"check", "open", "write", "insert", "query", "load", "status", "login", "enter"}
RequestInv == \A c \in Conns : pc[c] \in Serving => req[c] \in Request

\* Only a connection that was accepted has logins.
OwnerInv == \A c \in Conns : pc[c] = "new" => \A a \in Accounts : owner[a] # c

\* The entries are looked through after the descriptor is closed.
ScanInv == \A c \in Conns : pc[c] = "scan" => c \notin open

\* An open connection whose number another thread still works with has done nothing yet,
\* and the other one is not open.
NumberInv ==
  \A c, d \in Conns :
    c # d /\ c \in open /\ clientfd[c] # None /\ clientfd[c] = clientfd[d] =>
      /\ d \notin open
      /\ pc[c] = "idle"
      /\ \A a \in Accounts : owner[a] # c

\* The registrations of an account that got past the SELECT are counted.
Saving(c) == pc[c] \in {"open", "write", "insert"}
CountInv ==
  /\ \A c \in Conns : Saving(c) => checked[req[c].account] >= 1
  /\ \A c, d \in Conns : c # d /\ Saving(c) /\ Saving(d) /\ req[c].account = req[d].account
       => checked[req[c].account] >= 2
  /\ \A c \in Conns : Saving(c) /\ user_info[req[c].account] # None
       => checked[req[c].account] >= 2

\* What the only registration of an account knows of its picture.
PathInv ==
  \A c \in Conns :
    /\ pc[c] # "insert" => ~path[c]
    /\ pc[c] = "write" /\ Uncontested(req[c].account)
         => linked[c] /\ avatars[req[c].account] = "partial"
    /\ pc[c] = "insert" /\ path[c] /\ Uncontested(req[c].account)
         => avatars[req[c].account] = req[c].password

\* A query that loads a picture does so for a row that has one.
QueryInv ==
  \A c \in Conns :
    /\ pc[c] \in {"load", "status"} => user_info[req[c].account] # None
    /\ pc[c] = "load" => user_info[req[c].account].avatar

SockInv == OwnerInv /\ ScanInv /\ NumberInv /\ LiveEntryKept
RegInv  == CountInv /\ PathInv /\ QueryInv /\ AckedRegistration /\ PictureWithRow
IInv    == TypeOK /\ RequestInv /\ SockInv /\ RegInv

USE DEF Goto, Done, regVars, sockVars, tellVars, loginVars, bounds
USE AccountsAssumption

-----------------------------------------------------------------------------
(* Type correctness *)

\* The initial states are well typed.
LEMMA InitType == Init => TypeOK
<1> SUFFICES ASSUME Init PROVE TypeOK
  OBVIOUS
<1>1. user_info \in [Accounts -> Row \cup {None}] /\ avatars \in [Accounts -> Contents]
  BY DEF Init, Row, Contents
<1>2. pc \in [Conns -> Pcs] /\ req \in [Conns -> Request \cup {None}]
  BY DEF Init, Pcs
<1>3. picture \in [Conns -> Contents] /\ view \in [Conns -> [Accounts -> Shown]]
  BY DEF Init, Contents, Shown
<1>4. /\ user_client \in [Accounts -> Fds \cup {None}]
      /\ open \subseteq Conns /\ clientfd \in [Conns -> Fds \cup {None}]
      /\ linked \in [Conns -> BOOLEAN] /\ path \in [Conns -> BOOLEAN]
  BY DEF Init
<1>5. /\ user \in [Conns -> Accounts \cup {None}] /\ to_tell \in [Conns -> SUBSET Accounts]
      /\ friend \in [Conns -> Accounts \cup {None}] /\ found \in [Conns -> Fds \cup {None}]
      /\ online \in [Conns -> SUBSET Accounts]
  BY DEF Init
<1>6. /\ logins \in [Conns -> SUBSET Accounts] /\ owner \in [Accounts -> Conns \cup {None}]
      /\ acked \subseteq Accounts \X Passwords /\ checked \in [Accounts -> Nat]
      /\ requests \in 0..MaxRequests /\ closes \in 0..MaxCloses
  BY DEF Init
<1> QED BY <1>1, <1>2, <1>3, <1>4, <1>5, <1>6 DEF TypeOK

\* What a client sends is a request.
LEMMA ReceiveType ==
  ASSUME TypeOK, RequestInv, NEW c \in Conns, NEW a \in Accounts, NEW p \in Passwords,
         NEW pic \in BOOLEAN, NEW label \in Serving, Receive(c, a, p, pic, label)
  PROVE  TypeOK' /\ RequestInv'
<1>1. [account |-> a, password |-> p, picture |-> pic] \in Request
  BY DEF Request
<1>2. label \in Pcs
  BY DEF Serving, Pcs
<1>3. /\ pc' = [pc EXCEPT ![c] = label]
      /\ req' = [req EXCEPT ![c] = [account |-> a, password |-> p, picture |-> pic]]
      /\ requests < MaxRequests /\ requests' = requests + 1
      /\ UNCHANGED <<regVars, sockVars, loginVars, picture, tellVars, view, closes>>
  BY DEF Receive
<1>4. pc' \in [Conns -> Pcs] /\ req' \in [Conns -> Request \cup {None}]
  BY <1>1, <1>2, <1>3 DEF TypeOK
<1>5. requests' \in 0..MaxRequests
  BY <1>3 DEF TypeOK
<1>6. TypeOK'
  BY <1>3, <1>4, <1>5 DEF TypeOK
<1>7. RequestInv'
  BY <1>1, <1>3 DEF RequestInv, TypeOK
<1> QED BY <1>6, <1>7

\* Every step of a connection keeps the types and the requests of the handlers.
LEMMA TypeStep == TypeOK /\ RequestInv /\ [Next]_vars => TypeOK' /\ RequestInv'
<1> SUFFICES ASSUME TypeOK, RequestInv, [Next]_vars PROVE TypeOK' /\ RequestInv'
  OBVIOUS
<1>1. ASSUME NEW c \in Conns, ConnNext(c) PROVE TypeOK' /\ RequestInv'
  <2>1. ASSUME NEW n \in Fds, Accept(c, n) PROVE TypeOK' /\ RequestInv'
    BY <2>1 DEF Accept, TypeOK, Pcs, RequestInv, Serving
  <2>2. ASSUME NEW a \in Accounts, NEW p \in Passwords, NEW pic \in BOOLEAN,
               Register(c, a, p, pic)
        PROVE  TypeOK' /\ RequestInv'
    BY <2>2, ReceiveType, "check" \in Serving DEF Register, Serving
  <2>3. CASE FindUser(c)
    <3>1. req[c].account \in Accounts
      BY <2>3 DEF FindUser, RequestInv, Serving, Request
    <3>2. CASE user_info[req[c].account] # None
      <4>1. Done(c) /\ UNCHANGED checked
        BY <2>3, <3>2 DEF FindUser
      <4> QED BY <2>3, <4>1 DEF FindUser, TypeOK, Pcs, RequestInv, Serving
    <3>3. CASE user_info[req[c].account] = None
      <4>1. PICK label \in {"open", "insert"} :
              /\ pc' = [pc EXCEPT ![c] = label]
              /\ checked' = [checked EXCEPT ![req[c].account] = @ + 1] /\ req' = req
        BY <2>3, <3>3 DEF FindUser
      <4>2. pc' \in [Conns -> Pcs]
        BY <4>1 DEF TypeOK, Pcs
      <4>3. checked' \in [Accounts -> Nat]
        <5>1. checked \in [Accounts -> Nat]
          BY DEF TypeOK
        <5>2. checked[req[c].account] \in Nat
          BY <3>1, <5>1
        <5>3. checked[req[c].account] + 1 \in Nat
          BY <5>2
        <5> QED BY <4>1, <5>1, <5>3
      <4>4. RequestInv'
        BY <2>3, <4>1 DEF FindUser, TypeOK, RequestInv, Serving
      <4> QED BY <2>3, <4>1, <4>2, <4>3, <4>4 DEF FindUser, TypeOK
    <3> QED BY <3>2, <3>3
  <2>4. CASE OpenAvatar(c)
    <3>1. "partial" \in Contents
      BY DEF Contents
    <3>2. PICK label \in {"write", "insert"} :
            pc' = [pc EXCEPT ![c] = label] /\ req' = req /\ pc[c] = "open"
      BY <2>4 DEF OpenAvatar
    <3>3. \/ /\ avatars' = [avatars EXCEPT ![req[c].account] = "partial"]
             /\ linked' = [linked EXCEPT ![c] = TRUE]
          \/ UNCHANGED <<avatars, linked>>
      BY <2>4 DEF OpenAvatar
    <3>4. avatars' \in [Accounts -> Contents] /\ linked' \in [Conns -> BOOLEAN]
      <4>1. CASE UNCHANGED <<avatars, linked>>
        BY <4>1 DEF TypeOK
      <4>2. CASE /\ avatars' = [avatars EXCEPT ![req[c].account] = "partial"]
                 /\ linked' = [linked EXCEPT ![c] = TRUE]
        BY <3>1, <4>2 DEF TypeOK
      <4> QED BY <3>3, <4>1, <4>2
    <3>5. pc' \in [Conns -> Pcs] /\ RequestInv'
      BY <3>2 DEF TypeOK, RequestInv, Pcs, Serving
    <3> QED BY <2>4, <3>2, <3>4, <3>5 DEF OpenAvatar, TypeOK
  <2>5. CASE WriteAvatar(c)
    <3>1. req[c].password \in Contents /\ "mixed" \in Contents
      BY <2>5 DEF WriteAvatar, Contents, RequestInv, Serving, Request
    <3>2. avatars' \in [Accounts -> Contents]
      BY <2>5, <3>1 DEF WriteAvatar, TypeOK
    <3> QED BY <2>5, <3>2 DEF WriteAvatar, TypeOK, Pcs, RequestInv, Serving
  <2>6. CASE RemoveAvatar(c)
    <3>1. None \in Contents
      BY DEF Contents
    <3>2. linked' \in [Conns -> BOOLEAN]
      BY <2>6 DEF RemoveAvatar
    <3> QED BY <2>6, <3>1, <3>2 DEF RemoveAvatar, TypeOK, Pcs, RequestInv, Serving
  <2>7. CASE InsertUser(c)
    <3>1. req[c] \in Request /\ path[c] \in BOOLEAN
      BY <2>7 DEF InsertUser, RequestInv, Serving, TypeOK
    <3>2. /\ req[c].account \in Accounts /\ req[c].password \in Passwords
          /\ [password |-> req[c].password, avatar |-> path[c]] \in Row
      BY <3>1 DEF Request, Row
    <3>3. user_info' \in [Accounts -> Row \cup {None}]
      <4>1. \/ user_info' = user_info
            \/ user_info' = [user_info EXCEPT ![req[c].account] =
                               [password |-> req[c].password, avatar |-> path[c]]]
        BY <2>7 DEF InsertUser
      <4> QED BY <3>2, <4>1 DEF TypeOK
    <3>4. acked' \subseteq Accounts \X Passwords
      <4>1. acked' \subseteq acked \cup {<<req[c].account, req[c].password>>}
        BY <2>7 DEF InsertUser
      <4> QED BY <3>2, <4>1 DEF TypeOK
    <3> QED BY <2>7, <3>3, <3>4 DEF InsertUser, TypeOK, Pcs, RequestInv, Serving
  <2>8. ASSUME NEW a \in Accounts, Query(c, a) PROVE TypeOK' /\ RequestInv'
    BY <2>8, ReceiveType, "query" \in Serving DEF Query, Serving
  <2>9. CASE query_user(c)
    <3>1. CASE user_info[req[c].account] = None
      <4>1. Done(c)
        BY <2>9, <3>1 DEF query_user
      <4> QED BY <2>9, <4>1 DEF query_user, TypeOK, Pcs, RequestInv, Serving
    <3>2. CASE user_info[req[c].account] # None
      <4>1. PICK label \in {"load", "status"} :
              pc' = [pc EXCEPT ![c] = label] /\ req' = req /\ pc[c] = "query"
        BY <2>9, <3>2 DEF query_user
      <4>2. pc' \in [Conns -> Pcs] /\ RequestInv'
        BY <4>1 DEF TypeOK, RequestInv, Pcs, Serving
      <4> QED BY <2>9, <4>1, <4>2 DEF query_user, TypeOK
    <3> QED BY <3>1, <3>2
  <2>10. CASE load_avatar_data(c)
    <3>1. avatars[req[c].account] \in Contents
      BY <2>10 DEF load_avatar_data, RequestInv, Serving, Request, TypeOK
    <3> QED BY <2>10, <3>1 DEF load_avatar_data, TypeOK, Pcs, RequestInv, Serving
  <2>11. CASE do_query(c)
    <3>1. view' \in [Conns -> [Accounts -> Shown]]
      BY <2>11 DEF do_query, TypeOK, Shown
    <3>2. None \in Contents
      BY DEF Contents
    <3> QED BY <2>11, <3>1, <3>2 DEF do_query, TypeOK, Pcs, RequestInv, Serving
  <2>12. ASSUME NEW a \in Accounts, NEW p \in Passwords, Login(c, a, p)
         PROVE  TypeOK' /\ RequestInv'
    BY <2>12, ReceiveType, "login" \in Serving DEF Login, Serving
  <2>13. CASE login_check(c)
    <3>1. pc' \in [Conns -> Pcs] /\ req' \in [Conns -> Request \cup {None}]
      BY <2>13 DEF login_check, TypeOK, Pcs
    <3>2. RequestInv'
      BY <2>13 DEF login_check, TypeOK, RequestInv, Serving
    <3> QED BY <2>13, <3>1, <3>2 DEF login_check, TypeOK
  <2>14. CASE do_login(c)
    <3>1. req[c].account \in Accounts
      BY <2>14 DEF do_login, RequestInv, Serving, Request
    <3>2. logins' \in [Conns -> SUBSET Accounts]
      BY <2>14, <3>1 DEF do_login, TypeOK
    <3> QED BY <2>14, <3>1, <3>2 DEF do_login, TypeOK, Pcs, RequestInv, Serving
  <2>15. CASE RecvEof(c)
    BY <2>15 DEF RecvEof, TypeOK, Pcs, RequestInv, Serving
  <2>16. CASE EraseEntry(c)
    BY <2>16 DEF EraseEntry, TypeOK, Pcs, RequestInv, Serving
  <2>17. CASE RecvError(c)
    BY <2>17 DEF RecvError, TypeOK, Pcs, RequestInv, Serving
  <2>18. CASE get_friendlist(c)
    <3>1. to_tell' \in [Conns -> SUBSET Accounts]
      BY <2>18 DEF get_friendlist, TypeOK
    <3> QED BY <2>18, <3>1 DEF get_friendlist, TypeOK, Pcs, RequestInv, Serving
  <2>19. ASSUME NEW b \in Accounts, FindFriend(c, b) PROVE TypeOK' /\ RequestInv'
    <3>1. to_tell' \in [Conns -> SUBSET Accounts] /\ online' \in [Conns -> SUBSET Accounts]
      BY <2>19 DEF FindFriend, TypeOK
    <3>2. CASE user_client[b] = None
      BY <2>19, <3>1, <3>2 DEF FindFriend, TypeOK, RequestInv
    <3>3. CASE user_client[b] # None
      <4>1. /\ pc' = [pc EXCEPT ![c] = "send"]
            /\ friend' = [friend EXCEPT ![c] = b] /\ found' = [found EXCEPT ![c] = user_client[b]]
        BY <2>19, <3>3 DEF FindFriend
      <4>2. /\ pc' \in [Conns -> Pcs] /\ friend' \in [Conns -> Accounts \cup {None}]
            /\ found' \in [Conns -> Fds \cup {None}]
        BY <4>1 DEF TypeOK, Pcs
      <4>3. RequestInv'
        BY <2>19, <4>1 DEF FindFriend, TypeOK, RequestInv, Serving
      <4> QED BY <2>19, <3>1, <4>2, <4>3 DEF FindFriend, TypeOK
    <3> QED BY <3>2, <3>3
  <2>20. CASE NotifyFriend(c)
    <3>1. view' \in [Conns -> [Accounts -> Shown]]
      BY <2>20 DEF NotifyFriend, TypeOK, Shown
    <3> QED BY <2>20, <3>1 DEF NotifyFriend, TypeOK, Pcs, RequestInv, Serving
  <2>21. CASE SendFriendList(c)
    <3>1. view' \in [Conns -> [Accounts -> Shown]]
      BY <2>21 DEF SendFriendList, TypeOK, Shown
    <3> QED BY <2>21, <3>1 DEF SendFriendList, EndTelling, TypeOK, Pcs, RequestInv, Serving
  <2>22. CASE EndConnection(c)
    BY <2>22 DEF EndConnection, EndTelling, TypeOK, Pcs, RequestInv, Serving
  <2> QED BY <1>1, <2>1, <2>2, <2>3, <2>4, <2>5, <2>6, <2>7, <2>8, <2>9, <2>10, <2>11, <2>12,
             <2>13, <2>14, <2>15, <2>16, <2>17, <2>18, <2>19, <2>20, <2>21, <2>22 DEF ConnNext
<1>2. CASE UNCHANGED vars
  BY <1>2 DEF vars, TypeOK, RequestInv
<1> QED BY <1>1, <1>2 DEF Next

-----------------------------------------------------------------------------
(* user_client leads to the latest login *)

\* A step of a handler that opens, closes and logs in nobody.
LEMMA SockFrame ==
  ASSUME TypeOK, SockInv, NEW c \in Conns, NEW label \in Pcs \ {"new", "scan"},
         UNCHANGED <<sockVars, loginVars>>, pc' = [pc EXCEPT ![c] = label],
         pc[c] # "idle" \/ Free(c)
  PROVE  SockInv'
<1>1. OwnerInv' /\ ScanInv'
  BY DEF SockInv, OwnerInv, ScanInv, TypeOK
<1>2. NumberInv'
  BY DEF SockInv, NumberInv, Free, TypeOK
<1>3. LiveEntryKept'
  BY DEF SockInv, LiveEntryKept
<1> QED BY <1>1, <1>2, <1>3 DEF SockInv

\* accept gives no number that an open connection has.
LEMMA SockAccept ==
  ASSUME TypeOK, SockInv, NEW c \in Conns, NEW n \in Fds, Accept(c, n) PROVE SockInv'
<1>1. /\ pc[c] = "new" /\ pc' = [pc EXCEPT ![c] = "idle"] /\ open' = open \cup {c}
      /\ clientfd' = [clientfd EXCEPT ![c] = n] /\ \A d \in open : clientfd[d] # n
      /\ UNCHANGED loginVars
  BY DEF Accept
<1>2. \A a \in Accounts : owner[a] # c
  BY <1>1 DEF SockInv, OwnerInv
<1>3. OwnerInv' /\ ScanInv'
  BY <1>1 DEF SockInv, OwnerInv, ScanInv, TypeOK
<1>4. NumberInv'
  BY <1>1, <1>2 DEF SockInv, NumberInv, TypeOK
<1>5. LiveEntryKept'
  BY <1>1, <1>2 DEF SockInv, LiveEntryKept, TypeOK
<1> QED BY <1>3, <1>4, <1>5 DEF SockInv

\* A login points its account to its connection, which no other thread works for.
LEMMA SockLogin ==
  ASSUME TypeOK, RequestInv, SockInv, NEW c \in Conns, do_login(c) PROVE SockInv'
<1> DEFINE a == req[c].account
<1>1. /\ pc[c] = "enter" /\ pc' = [pc EXCEPT ![c] = "friends"]
      /\ user_client' = [user_client EXCEPT ![a] = clientfd[c]]
      /\ owner' = [owner EXCEPT ![a] = c] /\ UNCHANGED sockVars
  BY DEF do_login
<1>2. a \in Accounts
  BY <1>1 DEF RequestInv, Serving, Request
<1>3. \A b \in Accounts : owner'[b] = IF b = a THEN c ELSE owner[b]
  BY <1>1, <1>2 DEF TypeOK
<1>4. \A b \in Accounts : user_client'[b] = IF b = a THEN clientfd[c] ELSE user_client[b]
  BY <1>1, <1>2 DEF TypeOK
<1> HIDE DEF a
<1>5. OwnerInv' /\ ScanInv'
  BY <1>1, <1>3 DEF SockInv, OwnerInv, ScanInv, TypeOK
<1>6. NumberInv'
  BY <1>1, <1>3 DEF SockInv, NumberInv, TypeOK
<1>7. LiveEntryKept'
  BY <1>1, <1>3, <1>4 DEF SockInv, LiveEntryKept, TypeOK
<1> QED BY <1>5, <1>6, <1>7 DEF SockInv

\* A connection that ends is not open any more.
LEMMA SockClose ==
  ASSUME TypeOK, SockInv, NEW c \in Conns, RecvEof(c) \/ RecvError(c) PROVE SockInv'
<1>1. PICK label \in {"scan", "closed"} : pc' = [pc EXCEPT ![c] = label]
  BY DEF RecvEof, RecvError
<1>2. open' = open \ {c} /\ UNCHANGED loginVars
  BY DEF RecvEof, RecvError
<1>3. clientfd' = clientfd \/ clientfd' = [clientfd EXCEPT ![c] = None]
  BY DEF RecvEof, RecvError
<1>4. \A d \in Conns : d # c => clientfd'[d] = clientfd[d] /\ pc'[d] = pc[d]
  BY <1>1, <1>3 DEF TypeOK
<1>5. clientfd'[c] = clientfd[c] \/ clientfd'[c] = None
  BY <1>3 DEF TypeOK
<1>6. OwnerInv' /\ ScanInv'
  BY <1>1, <1>2 DEF SockInv, OwnerInv, ScanInv, TypeOK
<1>7. NumberInv'
  BY <1>2, <1>4, <1>5 DEF SockInv, NumberInv, TypeOK
<1>8. LiveEntryKept'
  BY <1>2, <1>4 DEF SockInv, LiveEntryKept, TypeOK
<1> QED BY <1>6, <1>7, <1>8 DEF SockInv

\* The entry that is erased is not that of an open connection.
LEMMA SockErase ==
  ASSUME TypeOK, SockInv, NEW c \in Conns, EraseEntry(c) PROVE SockInv'
<1>1. /\ pc[c] = "scan" /\ pc' = [pc EXCEPT ![c] = "friends"]
      /\ UNCHANGED <<sockVars, owner>>
  BY DEF EraseEntry
<1>2. \A a \in Accounts : user_client'[a] # user_client[a] =>
        user_client[a] = clientfd[c] /\ user_client'[a] = None
  BY DEF EraseEntry, IsFirst
<1>3. c \notin open
  BY <1>1 DEF SockInv, ScanInv
<1>4. OwnerInv' /\ ScanInv' /\ NumberInv'
  BY <1>1 DEF SockInv, OwnerInv, ScanInv, NumberInv, TypeOK
<1>5. ASSUME NEW a \in Accounts, owner[a] \in open PROVE user_client'[a] = clientfd[owner[a]]
  <2>1. owner[a] \in Conns /\ owner[a] # c /\ user_client[a] = clientfd[owner[a]]
    BY <1>3, <1>5 DEF SockInv, LiveEntryKept, TypeOK
  <2>2. CASE user_client[a] = None
    BY <1>2, <2>1, <2>2
  <2>3. CASE user_client[a] # None
    <3>1. clientfd[owner[a]] # clientfd[c]
      BY <1>5, <2>1, <2>3 DEF SockInv, NumberInv
    <3> QED BY <1>2, <2>1, <3>1
  <2> QED BY <2>2, <2>3
<1>6. LiveEntryKept'
  BY <1>1, <1>5 DEF LiveEntryKept
<1> QED BY <1>4, <1>6 DEF SockInv

\* A connection that is over gives its number back.
LEMMA SockEnd ==
  ASSUME TypeOK, SockInv, NEW c \in Conns, EndConnection(c) PROVE SockInv'
<1>1. /\ pc' = [pc EXCEPT ![c] = "closed"] /\ c \notin open
      /\ clientfd' = [clientfd EXCEPT ![c] = None] /\ UNCHANGED <<open, loginVars>>
  BY DEF EndConnection
<1>2. OwnerInv' /\ ScanInv'
  BY <1>1 DEF SockInv, OwnerInv, ScanInv, TypeOK
<1>3. NumberInv'
  BY <1>1 DEF SockInv, NumberInv, TypeOK
<1>4. LiveEntryKept'
  BY <1>1 DEF SockInv, LiveEntryKept, TypeOK
<1> QED BY <1>2, <1>3, <1>4 DEF SockInv

\* Every step keeps the entries of the open connections.
LEMMA SockStep == TypeOK /\ RequestInv /\ SockInv /\ [Next]_vars => SockInv'
<1> SUFFICES ASSUME TypeOK, RequestInv, SockInv, [Next]_vars PROVE SockInv'
  OBVIOUS
<1>1. ASSUME NEW c \in Conns, ConnNext(c) PROVE SockInv'
  <2>1. ASSUME NEW a \in Accounts, NEW p \in Passwords, NEW pic \in BOOLEAN,
               NEW label \in {"check", "query", "login"}, Receive(c, a, p, pic, label)
        PROVE  SockInv'
    BY <2>1, SockFrame DEF Receive, Pcs
  <2>2. ASSUME NEW a \in Accounts, NEW p \in Passwords, NEW pic \in BOOLEAN,
               \/ Register(c, a, p, pic) \/ Query(c, a) \/ Login(c, a, p)
        PROVE  SockInv'
    BY <2>1, <2>2 DEF Register, Query, Login
  <2>3. CASE \/ FindUser(c) \/ OpenAvatar(c) \/ WriteAvatar(c) \/ RemoveAvatar(c)
             \/ InsertUser(c)
    <3>1. PICK label \in {"idle", "open", "insert", "write"} : pc' = [pc EXCEPT ![c] = label]
      BY <2>3 DEF FindUser, OpenAvatar, WriteAvatar, RemoveAvatar, InsertUser
    <3>2. pc[c] # "idle" /\ UNCHANGED <<sockVars, loginVars>>
      BY <2>3 DEF FindUser, OpenAvatar, WriteAvatar, RemoveAvatar, InsertUser
    <3> QED BY <3>1, <3>2, SockFrame DEF Pcs
  <2>4. CASE query_user(c) \/ load_avatar_data(c) \/ do_query(c) \/ login_check(c)
    <3>1. PICK label \in {"idle", "load", "status", "enter"} : pc' = [pc EXCEPT ![c] = label]
      BY <2>4 DEF query_user, load_avatar_data, do_query, login_check
    <3>2. pc[c] # "idle" /\ UNCHANGED <<sockVars, loginVars>>
      BY <2>4 DEF query_user, load_avatar_data, do_query, login_check
    <3> QED BY <3>1, <3>2, SockFrame DEF Pcs
  <2>5. CASE get_friendlist(c) \/ NotifyFriend(c) \/ SendFriendList(c)
    <3>1. PICK label \in {"idle", "find"} : pc' = [pc EXCEPT ![c] = label]
      BY <2>5 DEF get_friendlist, NotifyFriend, SendFriendList
    <3>2. pc[c] # "idle" /\ UNCHANGED <<sockVars, loginVars>>
      BY <2>5 DEF get_friendlist, NotifyFriend, SendFriendList
    <3> QED BY <3>1, <3>2, SockFrame DEF Pcs
  <2>6. ASSUME NEW b \in Accounts, FindFriend(c, b) PROVE SockInv'
    <3>1. pc[c] = "find" /\ UNCHANGED <<sockVars, loginVars>>
      BY <2>6 DEF FindFriend
    <3>2. pc' = pc \/ pc' = [pc EXCEPT ![c] = "send"]
      BY <2>6 DEF FindFriend
    <3>3. PICK label \in {"find", "send"} : pc' = [pc EXCEPT ![c] = label]
      BY <3>1, <3>2 DEF TypeOK
    <3> QED BY <3>1, <3>3, SockFrame DEF Pcs
  <2> QED BY <1>1, <2>2, <2>3, <2>4, <2>5, <2>6, SockAccept, SockLogin, SockClose, SockErase,
             SockEnd, AccountsAssumption DEF ConnNext
<1>2. CASE UNCHANGED vars
  BY <1>2 DEF vars, SockInv, OwnerInv, ScanInv, NumberInv, LiveEntryKept
<1> QED BY <1>1, <1>2 DEF Next

-----------------------------------------------------------------------------
(* Registrations and pictures *)

\* c alone has moved.
Others(c) == \A d \in Conns : d # c =>
               pc'[d] = pc[d] /\ req'[d] = req[d] /\ picture'[d] = picture[d]

\* A step that leaves the table and the files alone, to a place where nothing is saved
\* or loaded.
LEMMA RegFrame ==
  ASSUME TypeOK, RegInv, NEW c \in Conns, Others(c), UNCHANGED regVars, pc[c] # "insert",
         pc'[c] \notin {"open", "write", "insert", "load", "status"}
  PROVE  RegInv'
<1>1. CountInv'
  BY DEF Others, RegInv, CountInv, Saving
<1>2. PathInv'
  BY DEF Others, RegInv, PathInv, Uncontested
<1>3. QueryInv' /\ AckedRegistration'
  BY DEF Others, RegInv, QueryInv, AckedRegistration
<1>4. PictureWithRow'
  BY DEF Others, RegInv, PictureWithRow, Uncontested
<1> QED BY <1>1, <1>2, <1>3, <1>4 DEF RegInv

\* The account a registration is for.
LEMMA SavingRequest ==
  ASSUME TypeOK, RequestInv, NEW c \in Conns, Saving(c) \/ pc[c] \in {"check", "load", "status", "query"}
  PROVE  /\ req[c] \in Request /\ req[c].account \in Accounts /\ req[c].password \in Passwords
         /\ checked[req[c].account] \in Nat
<1>1. req[c] \in Request
  BY DEF Saving, RequestInv, Serving
<1>2. req[c].account \in Accounts /\ req[c].password \in Passwords
  BY <1>1 DEF Request
<1>3. checked \in [Accounts -> Nat]
  BY DEF TypeOK
<1> QED BY <1>1, <1>2, <1>3

\* A registration that finds no row is counted.
LEMMA RegCheck ==
  ASSUME TypeOK, RequestInv, RegInv, NEW c \in Conns, FindUser(c),
         user_info[req[c].account] = None
  PROVE  RegInv'
<1> DEFINE a == req[c].account
<1>1. PICK label \in {"open", "insert"} :
        /\ pc[c] = "check" /\ pc' = [pc EXCEPT ![c] = label]
        /\ checked' = [checked EXCEPT ![a] = @ + 1]
        /\ UNCHANGED <<user_info, avatars, linked, path, acked, req, picture>>
  BY DEF FindUser
<1>2. a \in Accounts /\ user_info[a] = None
  BY <1>1, SavingRequest
<1>3. \A b \in Accounts : /\ checked[b] >= 1 => checked'[b] >= 1
                          /\ checked[b] >= 2 => checked'[b] >= 2
                          /\ b = a => checked'[b] >= 1
                          /\ b = a /\ checked[b] >= 1 => checked'[b] >= 2
                          /\ checked'[b] <= 1 => checked[b] <= 1
  <2>1. checked \in [Accounts -> Nat]
    BY DEF TypeOK
  <2>2. \A b \in Accounts : checked'[b] = IF b = a THEN checked[b] + 1 ELSE checked[b]
    BY <1>1, <1>2, <2>1
  <2>3. ASSUME NEW b \in Accounts
        PROVE  /\ checked[b] >= 1 => checked'[b] >= 1
               /\ checked[b] >= 2 => checked'[b] >= 2
               /\ b = a => checked'[b] >= 1
               /\ b = a /\ checked[b] >= 1 => checked'[b] >= 2
               /\ checked'[b] <= 1 => checked[b] <= 1
    <3>1. checked[b] \in Nat
      BY <2>1
    <3>2. checked'[b] = IF b = a THEN checked[b] + 1 ELSE checked[b]
      BY <2>2
    <3> HIDE DEF a
    <3> QED BY <3>1, <3>2
  <2> QED BY <2>3
<1>4. \A d \in Conns : pc'[d] = IF d = c THEN label ELSE pc[d]
  BY <1>1 DEF TypeOK
<1>5. \A d \in Conns : Saving(d) => req[d].account \in Accounts
  BY SavingRequest
<1>6. ~path[c] /\ ~Saving(c)
  BY <1>1 DEF RegInv, PathInv, Saving
<1>7. \A b \in Accounts : Uncontested(b)' => Uncontested(b)
  BY <1>3 DEF Uncontested
<1> HIDE DEF a
<1>8. CountInv'
  <2>1. ASSUME NEW d \in Conns, Saving(d)'
        PROVE  /\ req[d].account \in Accounts
               /\ d # c => Saving(d)
               /\ d = c => req[d].account = a
    BY <1>1, <1>2, <1>4, <1>5, <2>1 DEF Saving, a
  <2>2. ASSUME NEW d \in Conns, Saving(d)' PROVE checked'[req[d].account] >= 1
    <3>1. d # c => checked[req[d].account] >= 1
      BY <2>1, <2>2 DEF RegInv, CountInv
    <3>2. CASE d = c
      BY <1>2, <1>3, <2>1, <2>2, <3>2
    <3>3. CASE d # c
      BY <1>3, <2>1, <2>2, <3>1, <3>3
    <3> QED BY <3>2, <3>3
  <2>3. ASSUME NEW d \in Conns, NEW e \in Conns, d # e, Saving(d)', Saving(e)',
               req[d].account = req[e].account
        PROVE  checked'[req[d].account] >= 2
    <3>1. CASE d # c /\ e # c
      <4>1. checked[req[d].account] >= 2
        BY <2>1, <2>3, <3>1 DEF RegInv, CountInv
      <4> QED BY <1>3, <2>1, <2>3, <4>1
    <3>2. CASE d = c \/ e = c
      <4>1. req[d].account = a
        BY <2>1, <2>3, <3>2
      <4>2. checked[a] >= 1
        BY <2>1, <2>3, <3>2, <4>1 DEF RegInv, CountInv
      <4> QED BY <1>2, <1>3, <4>1, <4>2
    <3> QED BY <3>1, <3>2
  <2>4. ASSUME NEW d \in Conns, Saving(d)', user_info[req[d].account] # None
        PROVE  checked'[req[d].account] >= 2
    <3>1. d # c /\ checked[req[d].account] >= 2
      BY <1>2, <2>1, <2>4 DEF RegInv, CountInv
    <3> QED BY <1>3, <2>1, <2>4, <3>1
  <2> QED BY <1>1, <2>2, <2>3, <2>4 DEF CountInv
<1>9. PathInv'
  <2>1. ASSUME NEW d \in Conns
        PROVE  /\ pc'[d] # "insert" => ~path[d]
               /\ pc'[d] = "write" /\ Uncontested(req[d].account)'
                    => linked[d] /\ avatars[req[d].account] = "partial"
               /\ pc'[d] = "insert" /\ path[d] /\ Uncontested(req[d].account)'
                    => avatars[req[d].account] = req[d].password
    <3>1. CASE d = c
      BY <1>4, <1>6, <3>1
    <3>2. CASE d # c
      <4>1. Uncontested(req[d].account)' /\ Saving(d) => Uncontested(req[d].account)
        BY <1>1, <1>5, <1>7 DEF Uncontested
      <4> QED BY <1>4, <3>2, <4>1 DEF RegInv, PathInv, Saving
    <3> QED BY <3>1, <3>2
  <2> QED BY <1>1, <2>1 DEF PathInv, Uncontested
<1>10. QueryInv' /\ AckedRegistration'
  BY <1>1, <1>4 DEF RegInv, QueryInv, AckedRegistration
<1>11. PictureWithRow'
  BY <1>1, <1>4, <1>7 DEF RegInv, PictureWithRow, Uncontested
<1> QED BY <1>8, <1>9, <1>10, <1>11 DEF RegInv

\* Two registrations of one account contest it, and so does one beside a row.
LEMMA Contested ==
  ASSUME TypeOK, RequestInv, RegInv, NEW c \in Conns, Saving(c)
  PROVE  /\ user_info[req[c].account] # None => ~Uncontested(req[c].account)
         /\ \A d \in Conns : d # c /\ Saving(d) /\ req[d].account = req[c].account
              => ~Uncontested(req[c].account)
<1>1. checked[req[c].account] \in Nat
  BY SavingRequest
<1>2. user_info[req[c].account] # None => checked[req[c].account] >= 2
  BY DEF RegInv, CountInv
<1>3. \A d \in Conns : d # c /\ Saving(d) /\ req[d].account = req[c].account
        => checked[req[c].account] >= 2
  BY DEF RegInv, CountInv
<1> QED BY <1>1, <1>2, <1>3 DEF Uncontested

\* A registration goes on and may change the file of its account, its link and its path.
LEMMA RegFile ==
  ASSUME TypeOK, RequestInv, RegInv, NEW c \in Conns, NEW label \in {"write", "insert"},
         pc[c] \in {"open", "write"}, pc' = [pc EXCEPT ![c] = label],
         UNCHANGED <<user_info, acked, checked, req, picture>>,
         \A a \in Accounts : a # req[c].account => avatars'[a] = avatars[a],
         \A d \in Conns : /\ d # c => path'[d] = path[d]
                          /\ d # c /\ linked'[d] # linked[d] => req[d].account = req[c].account,
         label = "write" => /\ ~path'[c] /\ linked'[c]
                            /\ avatars'[req[c].account] = "partial",
         label = "insert" /\ path'[c] /\ Uncontested(req[c].account)
           => avatars'[req[c].account] = req[c].password
  PROVE  RegInv'
<1>1. Saving(c) /\ req[c].account \in Accounts
  BY SavingRequest DEF Saving
<1>2. \A d \in Conns : pc'[d] = IF d = c THEN label ELSE pc[d]
  BY DEF TypeOK
<1>3. \A d \in Conns : Saving(d)' <=> Saving(d)
  BY <1>1, <1>2 DEF Saving
<1>4. \A a \in Accounts : Uncontested(a)' <=> Uncontested(a)
  BY DEF Uncontested
<1>5. CountInv'
  BY <1>3 DEF RegInv, CountInv
<1>6. PathInv'
  <2>1. ASSUME NEW d \in Conns
        PROVE  /\ pc'[d] # "insert" => ~path'[d]
               /\ pc'[d] = "write" /\ Uncontested(req[d].account)
                    => linked'[d] /\ avatars'[req[d].account] = "partial"
               /\ pc'[d] = "insert" /\ path'[d] /\ Uncontested(req[d].account)
                    => avatars'[req[d].account] = req[d].password
    <3>1. CASE d = c
      BY <1>2, <3>1
    <3>2. CASE d # c
      <4>1. pc'[d] = pc[d] /\ path'[d] = path[d]
        BY <1>2, <3>2
      <4>2. CASE Saving(d) /\ req[d].account = req[c].account
        <5>1. ~Uncontested(req[d].account)
          BY <1>1, <3>2, <4>2, Contested
        <5> QED BY <4>1, <5>1 DEF RegInv, PathInv
      <4>3. CASE Saving(d) /\ req[d].account # req[c].account
        <5>1. linked'[d] = linked[d] /\ avatars'[req[d].account] = avatars[req[d].account]
          BY <3>2, <4>3, SavingRequest
        <5> QED BY <4>1, <5>1 DEF RegInv, PathInv
      <4>4. CASE ~Saving(d)
        BY <4>1, <4>4 DEF RegInv, PathInv, Saving
      <4> QED BY <4>2, <4>3, <4>4
    <3> QED BY <3>1, <3>2
  <2>2. \A d \in Conns : Uncontested(req[d].account)' <=> Uncontested(req[d].account)
    BY DEF Uncontested
  <2> QED BY <2>1, <2>2 DEF PathInv
<1>7. QueryInv' /\ AckedRegistration'
  BY <1>2 DEF RegInv, QueryInv, AckedRegistration
<1>8. PictureWithRow'
  <2>1. ASSUME NEW a \in Accounts, user_info[a] # None, user_info[a].avatar, Uncontested(a)
        PROVE  /\ avatars'[a] = user_info[a].password
               /\ \A d \in Conns : pc'[d] = "status" /\ req[d].account = a =>
                    picture[d] = user_info[a].password
    <3>1. a # req[c].account
      BY <1>1, <2>1, Contested
    <3> QED BY <1>2, <2>1, <3>1 DEF RegInv, PictureWithRow
  <2> QED BY <1>4, <2>1 DEF PictureWithRow
<1> QED BY <1>5, <1>6, <1>7, <1>8 DEF RegInv

\* The three steps on the file of the picture.
LEMMA RegAvatar ==
  ASSUME TypeOK, RequestInv, RegInv, NEW c \in Conns,
         OpenAvatar(c) \/ WriteAvatar(c) \/ RemoveAvatar(c)
  PROVE  RegInv'
<1> DEFINE a == req[c].account
<1>1. CASE OpenAvatar(c)
  <2>1. /\ pc[c] = "open" /\ UNCHANGED <<user_info, path, acked, checked, req, picture>>
        /\ \/ /\ avatars' = [avatars EXCEPT ![a] = "partial"]
              /\ linked' = [linked EXCEPT ![c] = TRUE]
              /\ pc' = [pc EXCEPT ![c] = "write"]
           \/ pc' = [pc EXCEPT ![c] = "insert"] /\ UNCHANGED <<avatars, linked>>
    BY <1>1 DEF OpenAvatar
  <2>2. a \in Accounts /\ ~path[c]
    BY <2>1, SavingRequest DEF Saving, RegInv, PathInv
  <2>3. CASE /\ avatars' = [avatars EXCEPT ![a] = "partial"]
             /\ linked' = [linked EXCEPT ![c] = TRUE]
             /\ pc' = [pc EXCEPT ![c] = "write"]
    <3>1. /\ avatars'[a] = "partial" /\ linked'[c]
          /\ \A b \in Accounts : b # a => avatars'[b] = avatars[b]
          /\ \A d \in Conns : d # c => linked'[d] = linked[d]
      BY <2>2, <2>3 DEF TypeOK
    <3> QED BY <2>1, <2>2, <2>3, <3>1, RegFile
  <2>4. CASE pc' = [pc EXCEPT ![c] = "insert"] /\ UNCHANGED <<avatars, linked>>
    BY <2>1, <2>2, <2>4, RegFile
  <2> QED BY <2>1, <2>3, <2>4
<1>2. CASE WriteAvatar(c)
  <2>1. /\ pc[c] = "write" /\ UNCHANGED <<user_info, linked, acked, checked, req, picture>>
        /\ path' = [path EXCEPT ![c] = TRUE] /\ pc' = [pc EXCEPT ![c] = "insert"]
    BY <1>2 DEF WriteAvatar
  <2>2. \A d \in Conns : d # c => path'[d] = path[d]
    BY <2>1 DEF TypeOK
  <2>3. a \in Accounts
    BY <2>1, SavingRequest DEF Saving
  <2>4. \A b \in Accounts : b # a => avatars'[b] = avatars[b]
    BY <1>2, <2>3 DEF WriteAvatar, TypeOK
  <2>5. Uncontested(a) => avatars'[a] = req[c].password
    <3>1. SUFFICES ASSUME Uncontested(a) PROVE avatars'[a] = req[c].password
      OBVIOUS
    <3>2. linked[c] /\ avatars[a] = "partial"
      BY <2>1, <3>1 DEF RegInv, PathInv
    <3>3. avatars' = [avatars EXCEPT ![a] = req[c].password]
      BY <1>2, <3>2 DEF WriteAvatar
    <3> QED BY <2>3, <3>3 DEF TypeOK
  <2> QED BY <2>1, <2>2, <2>4, <2>5, RegFile
<1>3. CASE RemoveAvatar(c)
  <2>1. /\ pc[c] = "write" /\ UNCHANGED <<user_info, path, acked, checked, req, picture>>
        /\ avatars' = [avatars EXCEPT ![a] = None] /\ pc' = [pc EXCEPT ![c] = "insert"]
        /\ linked' = [d \in Conns |-> linked[d] /\ (pc[d] = "write" => req[d].account # a)]
    BY <1>3 DEF RemoveAvatar
  <2>2. a \in Accounts /\ ~path[c]
    BY <2>1, SavingRequest DEF Saving, RegInv, PathInv
  <2>3. \A b \in Accounts : b # a => avatars'[b] = avatars[b]
    BY <2>1, <2>2 DEF TypeOK
  <2>4. \A d \in Conns : linked'[d] # linked[d] => req[d].account = a
    BY <2>1 DEF TypeOK
  <2> QED BY <2>1, <2>2, <2>3, <2>4, RegFile
<1> QED BY <1>1, <1>2, <1>3

\* The row is there: with the picture the registration brought, or not at all.
LEMMA RegInsert ==
  ASSUME TypeOK, RequestInv, RegInv, NEW c \in Conns, InsertUser(c) PROVE RegInv'
<1> DEFINE a == req[c].account
           row == [password |-> req[c].password, avatar |-> path[c]]
<1>1. /\ pc[c] = "insert" /\ pc' = [pc EXCEPT ![c] = "idle"] /\ req' = [req EXCEPT ![c] = None]
      /\ path' = [path EXCEPT ![c] = FALSE] /\ linked' = [linked EXCEPT ![c] = FALSE]
      /\ UNCHANGED <<avatars, checked, picture>>
  BY DEF InsertUser
<1>2. \/ user_info[a] = None /\ user_info' = [user_info EXCEPT ![a] = row]
                             /\ acked' = acked \cup {<<a, req[c].password>>}
      \/ user_info[a] # None /\ UNCHANGED <<user_info, acked>>
  BY DEF InsertUser
<1>3. Saving(c) /\ a \in Accounts /\ row \in Row
  BY <1>1, SavingRequest DEF Saving, Row, TypeOK
<1>4. /\ \A d \in Conns : d # c => /\ pc'[d] = pc[d] /\ req'[d] = req[d]
                                   /\ path'[d] = path[d] /\ linked'[d] = linked[d]
      /\ pc'[c] = "idle" /\ ~path'[c]
  BY <1>1 DEF TypeOK
<1>5. \A d \in Conns : Saving(d)' => d # c /\ Saving(d)
  BY <1>4 DEF Saving
<1>6. \A b \in Accounts : user_info'[b] = IF b = a /\ user_info[a] = None THEN row
                                          ELSE user_info[b]
  BY <1>2, <1>3 DEF TypeOK
<1>7. \A b \in Accounts : user_info[b] # None => user_info'[b] = user_info[b]
  BY <1>6
<1>8. row # None /\ row.password = req[c].password /\ row.avatar = path[c]
  BY <1>3
<1>9. \A b \in Accounts : Uncontested(b)' <=> Uncontested(b)
  BY <1>1 DEF Uncontested
<1> HIDE DEF a, row
<1>10. CountInv'
  <2>1. ASSUME NEW d \in Conns, Saving(d)', user_info'[req'[d].account] # None
        PROVE  checked[req'[d].account] >= 2
    <3>1. d # c /\ Saving(d) /\ req'[d] = req[d] /\ req[d].account \in Accounts
      BY <1>4, <1>5, <2>1, SavingRequest
    <3>2. CASE req[d].account = a
      BY <1>3, <3>1, <3>2 DEF RegInv, CountInv, a
    <3>3. CASE req[d].account # a
      BY <1>6, <2>1, <3>1, <3>3 DEF RegInv, CountInv
    <3> QED BY <3>2, <3>3
  <2>2. ASSUME NEW d \in Conns, NEW e \in Conns, d # e, Saving(d)', Saving(e)',
               req'[d].account = req'[e].account
        PROVE  checked[req'[d].account] >= 2
    BY <1>4, <1>5, <2>2 DEF RegInv, CountInv
  <2>3. ASSUME NEW d \in Conns, Saving(d)' PROVE checked[req'[d].account] >= 1
    BY <1>4, <1>5, <2>3 DEF RegInv, CountInv
  <2> QED BY <1>1, <2>1, <2>2, <2>3 DEF CountInv
<1>11. PathInv'
  <2>1. ASSUME NEW d \in Conns
        PROVE  /\ pc'[d] # "insert" => ~path'[d]
               /\ pc'[d] = "write" /\ Uncontested(req'[d].account)
                    => linked'[d] /\ avatars'[req'[d].account] = "partial"
               /\ pc'[d] = "insert" /\ path'[d] /\ Uncontested(req'[d].account)
                    => avatars'[req'[d].account] = req'[d].password
    BY <1>1, <1>4 DEF RegInv, PathInv
  <2>2. \A d \in Conns : Uncontested(req[d].account)' <=> Uncontested(req'[d].account)
    BY <1>1 DEF Uncontested
  <2> QED BY <2>1, <2>2 DEF PathInv
<1>12. QueryInv'
  <2>1. ASSUME NEW d \in Conns, pc'[d] \in {"load", "status"}
        PROVE  /\ user_info'[req'[d].account] # None
               /\ pc'[d] = "load" => user_info'[req'[d].account].avatar
    <3>1. d # c /\ pc'[d] = pc[d] /\ req'[d] = req[d]
      BY <1>4, <2>1
    <3>2. req[d].account \in Accounts
      BY <2>1, <3>1, SavingRequest
    <3>3. user_info[req[d].account] # None
      BY <2>1, <3>1 DEF RegInv, QueryInv
    <3> QED BY <1>7, <3>1, <3>2, <3>3 DEF RegInv, QueryInv
  <2> QED BY <2>1 DEF QueryInv
<1>13. AckedRegistration'
  <2>1. ASSUME NEW r \in acked'
        PROVE  user_info'[r[1]] # None /\ user_info'[r[1]].password = r[2]
    <3>1. CASE r \in acked
      <4>1. r[1] \in Accounts
        BY <3>1 DEF TypeOK
      <4> QED BY <1>7, <3>1, <4>1 DEF RegInv, AckedRegistration
    <3>2. CASE r \notin acked
      <4>1. user_info[a] = None /\ r = <<a, req[c].password>>
        BY <1>2, <2>1, <3>2
      <4> QED BY <1>3, <1>6, <1>8, <4>1
    <3> QED BY <3>1, <3>2
  <2> QED BY <2>1 DEF AckedRegistration
<1>14. PictureWithRow'
  <2>1. ASSUME NEW b \in Accounts, user_info'[b] # None, user_info'[b].avatar, Uncontested(b)
        PROVE  /\ avatars[b] = user_info'[b].password
               /\ \A d \in Conns : pc'[d] = "status" /\ req'[d].account = b =>
                    picture[d] = user_info'[b].password
    <3>1. CASE b = a /\ user_info[a] = None
      <4>1. user_info'[b] = row /\ path[c]
        BY <1>6, <1>8, <2>1, <3>1
      <4>2. avatars[b] = req[c].password
        BY <1>1, <2>1, <3>1, <4>1 DEF RegInv, PathInv, a
      <4>3. ASSUME NEW d \in Conns, pc'[d] = "status", req'[d].account = b PROVE FALSE
        <5>1. pc[d] = "status" /\ req[d].account = b
          BY <1>4, <4>3
        <5> QED BY <3>1, <5>1 DEF RegInv, QueryInv
      <4> QED BY <1>8, <4>1, <4>2, <4>3
    <3>2. CASE ~(b = a /\ user_info[a] = None)
      <4>1. user_info'[b] = user_info[b]
        BY <1>6, <3>2
      <4>2. \A d \in Conns : pc'[d] = "status" => pc[d] = "status" /\ req'[d] = req[d]
        BY <1>4
      <4> QED BY <2>1, <4>1, <4>2 DEF RegInv, PictureWithRow
    <3> QED BY <3>1, <3>2
  <2> QED BY <1>1, <1>9, <2>1 DEF PictureWithRow
<1> QED BY <1>10, <1>11, <1>12, <1>13, <1>14 DEF RegInv

\* A query goes on with the picture of the row it found, or without one.
LEMMA RegLook ==
  ASSUME TypeOK, RequestInv, RegInv, NEW c \in Conns, Others(c), UNCHANGED regVars,
         req'[c] = req[c], pc[c] \in {"query", "load"}, pc'[c] \in {"load", "status"},
         user_info[req[c].account] # None,
         pc'[c] = "load" => user_info[req[c].account].avatar,
         pc'[c] = "status" /\ user_info[req[c].account].avatar
           => picture'[c] = avatars[req[c].account]
  PROVE  RegInv'
<1>1. CountInv'
  BY DEF Others, RegInv, CountInv, Saving
<1>2. PathInv'
  BY DEF Others, RegInv, PathInv, Uncontested
<1>3. QueryInv' /\ AckedRegistration'
  BY DEF Others, RegInv, QueryInv, AckedRegistration
<1>4. PictureWithRow'
  <2>1. ASSUME NEW a \in Accounts, user_info[a] # None, user_info[a].avatar, Uncontested(a)
        PROVE  /\ avatars[a] = user_info[a].password
               /\ \A d \in Conns : pc'[d] = "status" /\ req'[d].account = a =>
                    picture'[d] = user_info[a].password
    BY <2>1 DEF Others, RegInv, PictureWithRow
  <2> QED BY <2>1 DEF PictureWithRow, Uncontested
<1> QED BY <1>1, <1>2, <1>3, <1>4 DEF RegInv

\* Every step keeps what is known of registrations and pictures.
LEMMA RegStep == TypeOK /\ RequestInv /\ RegInv /\ [Next]_vars => RegInv'
<1> SUFFICES ASSUME TypeOK, RequestInv, RegInv, [Next]_vars PROVE RegInv'
  OBVIOUS
<1>1. ASSUME NEW c \in Conns, ConnNext(c) PROVE RegInv'
  <2>1. ASSUME NEW n \in Fds, Accept(c, n) PROVE RegInv'
    <3>1. Others(c) /\ pc[c] = "new" /\ pc'[c] = "idle" /\ UNCHANGED regVars
      BY <2>1 DEF Accept, Others, TypeOK
    <3> QED BY <3>1, RegFrame
  <2>2. ASSUME NEW a \in Accounts, NEW p \in Passwords, NEW pic \in BOOLEAN,
               NEW label \in {"check", "query", "login"}, Receive(c, a, p, pic, label)
        PROVE  RegInv'
    <3>1. Others(c) /\ pc[c] = "idle" /\ pc'[c] = label /\ UNCHANGED regVars
      BY <2>2 DEF Receive, Free, Others, TypeOK
    <3> QED BY <3>1, RegFrame
  <2>3. ASSUME NEW a \in Accounts, NEW p \in Passwords, NEW pic \in BOOLEAN,
               \/ Register(c, a, p, pic) \/ Query(c, a) \/ Login(c, a, p)
        PROVE  RegInv'
    BY <2>2, <2>3 DEF Register, Query, Login
  <2>4. CASE FindUser(c)
    <3>1. CASE user_info[req[c].account] # None
      <4>1. Done(c) /\ pc[c] = "check" /\ UNCHANGED <<regVars, picture>>
        BY <2>4, <3>1 DEF FindUser
      <4>2. Others(c) /\ pc'[c] = "idle"
        BY <4>1 DEF Others, TypeOK
      <4> QED BY <4>1, <4>2, RegFrame
    <3> QED BY <2>4, <3>1, RegCheck
  <2>5. CASE query_user(c)
    <3>1. pc[c] = "query" /\ UNCHANGED <<regVars, picture>>
      BY <2>5 DEF query_user
    <3>2. CASE user_info[req[c].account] = None
      <4>1. Done(c)
        BY <2>5, <3>2 DEF query_user
      <4>2. Others(c) /\ pc'[c] = "idle"
        BY <3>1, <4>1 DEF Others, TypeOK
      <4> QED BY <3>1, <4>2, RegFrame
    <3>3. CASE user_info[req[c].account] # None
      <4>1. PICK label \in {"load", "status"} :
              /\ pc' = [pc EXCEPT ![c] = label] /\ req' = req
              /\ label = "load" <=> user_info[req[c].account].avatar
        BY <2>5, <3>3 DEF query_user
      <4>2. Others(c) /\ pc'[c] = label
        BY <3>1, <4>1 DEF Others, TypeOK
      <4> QED BY <3>1, <3>3, <4>1, <4>2, RegLook
    <3> QED BY <3>2, <3>3
  <2>6. CASE load_avatar_data(c)
    <3>1. /\ pc[c] = "load" /\ pc' = [pc EXCEPT ![c] = "status"] /\ req' = req
          /\ picture' = [picture EXCEPT ![c] = avatars[req[c].account]] /\ UNCHANGED regVars
      BY <2>6 DEF load_avatar_data
    <3>2. Others(c) /\ pc'[c] = "status" /\ picture'[c] = avatars[req[c].account]
      BY <3>1 DEF Others, TypeOK
    <3>3. user_info[req[c].account] # None
      BY <3>1 DEF RegInv, QueryInv
    <3> QED BY <3>1, <3>2, <3>3, RegLook
  <2>7. CASE do_query(c) \/ SendFriendList(c)
    <3>1. /\ pc[c] # "insert" /\ Done(c) /\ UNCHANGED regVars
          /\ picture' = picture \/ picture' = [picture EXCEPT ![c] = None]
      BY <2>7 DEF do_query, SendFriendList
    <3>2. Others(c) /\ pc'[c] = "idle"
      BY <3>1 DEF Others, TypeOK
    <3> QED BY <3>1, <3>2, RegFrame
  <2>8. CASE login_check(c)
    <3>1. /\ pc[c] = "login" /\ UNCHANGED <<regVars, picture>>
          /\ \/ pc' = [pc EXCEPT ![c] = "enter"] /\ req' = req
             \/ Done(c)
      BY <2>8 DEF login_check
    <3>2. Others(c) /\ pc'[c] \in {"enter", "idle"}
      BY <3>1 DEF Others, TypeOK
    <3> QED BY <3>1, <3>2, RegFrame
  <2>9. CASE \/ do_login(c) \/ RecvEof(c) \/ EraseEntry(c) \/ RecvError(c)
             \/ get_friendlist(c) \/ NotifyFriend(c) \/ EndConnection(c)
    <3>1. PICK label \in {"friends", "scan", "closed", "find"} :
            pc' = [pc EXCEPT ![c] = label]
      BY <2>9 DEF do_login, RecvEof, EraseEntry, RecvError, get_friendlist, NotifyFriend,
                  EndConnection
    <3>2. pc[c] # "insert" /\ UNCHANGED <<regVars, req, picture>>
      BY <2>9 DEF do_login, RecvEof, EraseEntry, RecvError, get_friendlist, NotifyFriend,
                  EndConnection, Free
    <3>3. Others(c) /\ pc'[c] = label
      BY <3>1, <3>2 DEF Others, TypeOK
    <3> QED BY <3>2, <3>3, RegFrame
  <2>10. ASSUME NEW b \in Accounts, FindFriend(c, b) PROVE RegInv'
    <3>1. /\ pc[c] = "find" /\ UNCHANGED <<regVars, req, picture>>
          /\ pc' = pc \/ pc' = [pc EXCEPT ![c] = "send"]
      BY <2>10 DEF FindFriend
    <3>2. Others(c) /\ pc'[c] \in {"find", "send"}
      BY <3>1 DEF Others, TypeOK
    <3> QED BY <3>1, <3>2, RegFrame
  <2> QED BY <1>1, <2>1, <2>3, <2>4, <2>5, <2>6, <2>7, <2>8, <2>9, <2>10, RegAvatar, RegInsert
          DEF ConnNext
<1>2. CASE UNCHANGED vars
  BY <1>2 DEF vars, RegInv, CountInv, Saving, PathInv, Uncontested, QueryInv,
              AckedRegistration, PictureWithRow
<1> QED BY <1>1, <1>2 DEF Next

-----------------------------------------------------------------------------
(* Of two friends one is shown the other *)

\* While no connection has ended, whoever has been accepted is open and has a number, a
\* handler that tells friends tells those of a login on its connection, and who has logged
\* in has an entry.
Telling == {"friends", "find", "send"}
AliveInv ==
  closes = 0 =>
    /\ \A c \in Conns : pc[c] # "new" => c \in open /\ clientfd[c] # None
    /\ \A c \in Conns : pc[c] \in Telling => user[c] \in logins[c]
    /\ \A a \in Accounts : owner[a] # None => owner[a] \in open /\ user_client[a] # None

\* The client of c shows that b is online, or is about to: b is to be looked up, or has
\* been found for the list that goes out when every friend was.
Shows(c, b) ==
  /\ pc[c] \in {"find", "send"} => b \in to_tell[c] \/ b \in online[c]
  /\ pc[c] \notin Telling => view[c][b] = "online"

\* c is the connection of a's latest login and of no other account, b is a friend of a and
\* has logged in.
Expects(c, a, b) ==
  <<a, b>> \in Friends /\ owner[a] = c /\ logins[c] = {a} /\ owner[b] # None

\* The friend that logged in last shows the other one.
SeenInv ==
  closes = 0 =>
    \A a, b \in Accounts, c, d \in Conns :
      Expects(c, a, b) /\ Expects(d, b, a) => Shows(c, b) \/ Shows(d, a)

\* A step of c that leaves the handlers of the other connections where they are.
Alone(c) == \A d \in Conns : d # c =>
              /\ pc'[d] = pc[d] /\ user'[d] = user[d]
              /\ to_tell'[d] = to_tell[d] /\ online'[d] = online[d]

\* A step that ends no connection and logs in nobody.
LEMMA AliveFrame ==
  ASSUME AliveInv, NEW c \in Conns, Alone(c), UNCHANGED <<sockVars, loginVars, closes>>,
         pc[c] # "new",
         pc'[c] \in Telling => pc[c] \in Telling /\ user'[c] = user[c]
  PROVE  AliveInv'
<1> SUFFICES ASSUME closes = 0
             PROVE  /\ \A d \in Conns : pc'[d] # "new" => d \in open /\ clientfd[d] # None
                    /\ \A d \in Conns : pc'[d] \in Telling => user'[d] \in logins[d]
                    /\ \A a \in Accounts : owner[a] # None =>
                         owner[a] \in open /\ user_client[a] # None
  BY DEF AliveInv
<1>1. ASSUME NEW d \in Conns, pc'[d] # "new" PROVE d \in open /\ clientfd[d] # None
  BY <1>1 DEF AliveInv, Alone
<1>2. ASSUME NEW d \in Conns, pc'[d] \in Telling PROVE user'[d] \in logins[d]
  BY <1>2 DEF AliveInv, Alone
<1> QED BY <1>1, <1>2 DEF AliveInv

\* The accounts expected stay the same, and what a client shows of them is not taken back.
LEMMA SeenFrame ==
  ASSUME SeenInv, UNCHANGED <<owner, logins, closes>>,
         closes = 0 => \A a, b \in Accounts, c \in Conns :
                         Expects(c, a, b) /\ Shows(c, b) => Shows(c, b)'
  PROVE  SeenInv'
<1>1. \A a, b \in Accounts, c \in Conns : Expects(c, a, b)' <=> Expects(c, a, b)
  BY DEF Expects
<1> QED BY <1>1 DEF SeenInv

\* The same for a step of c's handler that leaves the views of the others alone.
LEMMA SeenOwn ==
  ASSUME SeenInv, NEW c \in Conns, Alone(c), UNCHANGED <<owner, logins, closes>>,
         \A d \in Conns : d # c => view'[d] = view[d],
         closes = 0 => \A a, b \in Accounts : Expects(c, a, b) /\ Shows(c, b) => Shows(c, b)'
  PROVE  SeenInv'
<1>1. ASSUME NEW a \in Accounts, NEW b \in Accounts, NEW d \in Conns, closes = 0,
             Expects(d, a, b), Shows(d, b)
      PROVE  Shows(d, b)'
  <2>1. CASE d = c
    BY <1>1, <2>1
  <2>2. CASE d # c
    BY <1>1, <2>2 DEF Shows, Alone
  <2> QED BY <2>1, <2>2
<1> QED BY <1>1, SeenFrame

\* A step of a handler that tells nobody and of which the client sees nothing.
LEMMA SeenQuiet ==
  ASSUME AliveInv, SeenInv, NEW c \in Conns, Alone(c),
         UNCHANGED <<sockVars, loginVars, view, closes>>,
         pc[c] \notin Telling \cup {"new"}, pc'[c] \notin Telling
  PROVE  AliveInv' /\ SeenInv'
<1>1. AliveInv'
  BY AliveFrame
<1>2. SeenInv'
  BY SeenOwn DEF Shows, Telling
<1> QED BY <1>1, <1>2

\* accept: the connection is open and has its number.
LEMMA SeenAccept ==
  ASSUME TypeOK, AliveInv, SeenInv, NEW c \in Conns, NEW n \in Fds, Accept(c, n)
  PROVE  AliveInv' /\ SeenInv'
<1>1. /\ pc[c] = "new" /\ pc' = [pc EXCEPT ![c] = "idle"] /\ open' = open \cup {c}
      /\ clientfd' = [clientfd EXCEPT ![c] = n]
      /\ UNCHANGED <<loginVars, tellVars, view, closes>>
  BY DEF Accept
<1>2. Alone(c) /\ pc'[c] = "idle"
  BY <1>1 DEF Alone, TypeOK
<1>3. \A d \in Conns : clientfd'[d] = IF d = c THEN n ELSE clientfd[d]
  BY <1>1 DEF TypeOK
<1>4. AliveInv'
  BY <1>1, <1>2, <1>3 DEF AliveInv, Alone, Telling
<1>5. SeenInv'
  BY <1>1, <1>2, SeenOwn DEF Shows, Telling
<1> QED BY <1>4, <1>5

\* A login enters its account and is about to tell its friends: it shows them all.
LEMMA SeenLogin ==
  ASSUME TypeOK, RequestInv, AliveInv, SeenInv, NEW c \in Conns, do_login(c)
  PROVE  AliveInv' /\ SeenInv'
<1> DEFINE e == req[c].account
<1>1. /\ pc[c] = "enter" /\ pc' = [pc EXCEPT ![c] = "friends"]
      /\ user_client' = [user_client EXCEPT ![e] = clientfd[c]]
      /\ owner' = [owner EXCEPT ![e] = c] /\ logins' = [logins EXCEPT ![c] = @ \cup {e}]
      /\ user' = [user EXCEPT ![c] = e]
      /\ UNCHANGED <<sockVars, to_tell, online, view, closes>>
  BY DEF do_login
<1>2. e \in Accounts
  BY <1>1 DEF RequestInv, Serving, Request
<1>3. \A a \in Accounts : /\ owner'[a] = IF a = e THEN c ELSE owner[a]
                          /\ user_client'[a] = IF a = e THEN clientfd[c] ELSE user_client[a]
  BY <1>1, <1>2 DEF TypeOK
<1>4. Alone(c) /\ pc'[c] = "friends" /\ user'[c] = e
  BY <1>1 DEF Alone, TypeOK
<1>5. \A d \in Conns : logins'[d] = IF d = c THEN logins[c] \cup {e} ELSE logins[d]
  BY <1>1 DEF TypeOK
<1> HIDE DEF e
<1>6. AliveInv'
  <2> SUFFICES ASSUME closes = 0
               PROVE  /\ \A d \in Conns : pc'[d] # "new" => d \in open /\ clientfd[d] # None
                      /\ \A d \in Conns : pc'[d] \in Telling => user'[d] \in logins'[d]
                      /\ \A a \in Accounts : owner'[a] # None =>
                           owner'[a] \in open /\ user_client'[a] # None
    BY <1>1 DEF AliveInv
  <2>1. c \in open /\ clientfd[c] # None
    BY <1>1 DEF AliveInv
  <2>2. \A d \in Conns : pc'[d] # "new" => d \in open /\ clientfd[d] # None
    BY <1>4, <2>1 DEF AliveInv, Alone
  <2>3. \A d \in Conns : pc'[d] \in Telling => user'[d] \in logins'[d]
    BY <1>4, <1>5 DEF AliveInv, Alone
  <2>4. \A a \in Accounts : owner'[a] # None => owner'[a] \in open /\ user_client'[a] # None
    BY <1>3, <2>1 DEF AliveInv
  <2> QED BY <2>2, <2>3, <2>4
<1>7. SeenInv'
  <2> SUFFICES ASSUME closes = 0, NEW a \in Accounts, NEW b \in Accounts,
                      NEW d \in Conns, NEW f \in Conns,
                      Expects(d, a, b)', Expects(f, b, a)'
               PROVE  Shows(d, b)' \/ Shows(f, a)'
    BY <1>1 DEF SeenInv
  <2>1. CASE d = c \/ f = c
    BY <1>4, <2>1 DEF Shows, Telling
  <2>2. CASE d # c /\ f # c
    <3>1. owner[a] = d /\ owner[b] = f /\ logins[d] = {a} /\ logins[f] = {b}
      BY <1>3, <1>5, <2>2 DEF Expects
    <3>2. Expects(d, a, b) /\ Expects(f, b, a)
      BY <3>1 DEF Expects
    <3>3. Shows(d, b) \/ Shows(f, a)
      BY <3>2 DEF SeenInv
    <3> QED BY <1>1, <1>4, <2>2, <3>3 DEF Shows, Alone
  <2> QED BY <2>1, <2>2
<1> QED BY <1>6, <1>7

\* The user of a handler that tells the friends of an expected account is that account.
LEMMA TellsOwn ==
  ASSUME AliveInv, closes = 0, NEW c \in Conns, pc[c] \in Telling,
         NEW a \in Accounts, NEW b \in Accounts, Expects(c, a, b)
  PROVE  user[c] = a /\ <<user[c], b>> \in Friends /\ user_client[b] # None
BY DEF AliveInv, Expects

\* The loop over the friends: each is looked up, and told, and the list has what was found.
LEMMA SeenTell ==
  ASSUME TypeOK, AliveInv, SeenInv, NEW c \in Conns,
         \/ get_friendlist(c) \/ (\E b \in Accounts : FindFriend(c, b)) \/ NotifyFriend(c)
         \/ SendFriendList(c)
  PROVE  AliveInv' /\ SeenInv'
<1>1. CASE get_friendlist(c)
  <2>1. /\ pc[c] = "friends" /\ pc' = [pc EXCEPT ![c] = "find"]
        /\ to_tell' = [to_tell EXCEPT ![c] = {b \in Accounts : <<user[c], b>> \in Friends}]
        /\ UNCHANGED <<sockVars, loginVars, user, online, view, closes>>
    BY <1>1 DEF get_friendlist
  <2>2. /\ Alone(c) /\ pc'[c] = "find"
        /\ to_tell'[c] = {b \in Accounts : <<user[c], b>> \in Friends}
    BY <2>1 DEF Alone, TypeOK
  <2>3. AliveInv'
    BY <2>1, <2>2, AliveFrame DEF Telling
  <2>4. ASSUME NEW a \in Accounts, NEW b \in Accounts, closes = 0, Expects(c, a, b)
        PROVE  Shows(c, b)'
    <3>1. <<user[c], b>> \in Friends
      BY <2>1, <2>4, TellsOwn DEF Telling
    <3> QED BY <2>2, <3>1 DEF Shows, Telling
  <2> QED BY <2>1, <2>2, <2>3, <2>4, SeenOwn
<1>2. ASSUME NEW e \in Accounts, FindFriend(c, e) PROVE AliveInv' /\ SeenInv'
  <2>1. /\ pc[c] = "find" /\ to_tell' = [to_tell EXCEPT ![c] = @ \ {e}]
        /\ UNCHANGED <<sockVars, loginVars, user, view, closes>>
        /\ user_client[e] = None => pc' = pc /\ online' = online
        /\ user_client[e] # None => /\ pc' = [pc EXCEPT ![c] = "send"]
                                    /\ online' = [online EXCEPT ![c] = @ \cup {e}]
    BY <1>2 DEF FindFriend
  <2>2. /\ Alone(c) /\ pc'[c] \in {"find", "send"} /\ to_tell'[c] = to_tell[c] \ {e}
        /\ online[c] \subseteq online'[c]
        /\ user_client[e] # None => e \in online'[c]
    BY <2>1 DEF Alone, TypeOK
  <2>3. AliveInv'
    BY <2>1, <2>2, AliveFrame DEF Telling
  <2>4. ASSUME NEW a \in Accounts, NEW b \in Accounts, closes = 0, Expects(c, a, b),
               Shows(c, b)
        PROVE  Shows(c, b)'
    <3>1. user_client[b] # None
      BY <2>1, <2>4, TellsOwn DEF Telling
    <3>2. b \in to_tell[c] \/ b \in online[c]
      BY <2>1, <2>4 DEF Shows
    <3> QED BY <2>2, <3>1, <3>2 DEF Shows, Telling
  <2> QED BY <2>1, <2>2, <2>3, <2>4, SeenOwn
<1>3. CASE NotifyFriend(c)
  <2>1. /\ pc[c] = "send" /\ pc' = [pc EXCEPT ![c] = "find"]
        /\ UNCHANGED <<sockVars, loginVars, user, to_tell, online, closes>>
        /\ view' = [d \in Conns |->
             IF d \in open /\ clientfd[d] = found[c]
             THEN [view[d] EXCEPT ![user[c]] = IF c \in open THEN "online" ELSE "offline"]
             ELSE view[d]]
    BY <1>3 DEF NotifyFriend
  <2>2. Alone(c) /\ pc'[c] = "find"
    BY <2>1 DEF Alone, TypeOK
  <2>3. AliveInv'
    BY <2>1, <2>2, AliveFrame DEF Telling
  <2>4. ASSUME NEW a \in Accounts, NEW b \in Accounts, NEW d \in Conns, closes = 0,
               Expects(d, a, b), Shows(d, b)
        PROVE  Shows(d, b)'
    <3>1. c \in open
      BY <2>1, <2>4 DEF AliveInv
    <3>2. view[d][b] = "online" => view'[d][b] = "online"
      BY <2>1, <3>1 DEF TypeOK
    <3>3. CASE d = c
      BY <2>1, <2>2, <2>4, <3>3 DEF Shows, Telling
    <3>4. CASE d # c
      BY <2>1, <2>2, <2>4, <3>2, <3>4 DEF Shows, Alone
    <3> QED BY <3>3, <3>4
  <2> QED BY <2>1, <2>3, <2>4, SeenFrame
<1>4. CASE SendFriendList(c)
  <2>1. /\ pc[c] = "find" /\ to_tell[c] = {} /\ pc' = [pc EXCEPT ![c] = "idle"]
        /\ view' = [view EXCEPT ![c] = [b \in Accounts |->
             IF <<user[c], b>> \notin Friends THEN "unknown"
             ELSE IF b \in online[c] THEN "online" ELSE "offline"]]
        /\ user' = [user EXCEPT ![c] = None] /\ online' = [online EXCEPT ![c] = {}]
        /\ UNCHANGED <<sockVars, loginVars, to_tell, closes>>
    BY <1>4 DEF SendFriendList, EndTelling
  <2>2. /\ Alone(c) /\ pc'[c] = "idle" /\ \A d \in Conns : d # c => view'[d] = view[d]
        /\ \A b \in Accounts : <<user[c], b>> \in Friends /\ b \in online[c]
             => view'[c][b] = "online"
    BY <2>1 DEF Alone, TypeOK
  <2>3. AliveInv'
    BY <2>1, <2>2, AliveFrame DEF Telling
  <2>4. ASSUME NEW a \in Accounts, NEW b \in Accounts, closes = 0, Expects(c, a, b),
               Shows(c, b)
        PROVE  Shows(c, b)'
    <3>1. <<user[c], b>> \in Friends
      BY <2>1, <2>4, TellsOwn DEF Telling
    <3>2. b \in online[c]
      BY <2>1, <2>4 DEF Shows
    <3> QED BY <2>2, <3>1, <3>2 DEF Shows, Telling
  <2> QED BY <2>1, <2>2, <2>3, <2>4, SeenOwn
<1> QED BY <1>1, <1>2, <1>3, <1>4

\* Every step keeps what the friends are shown, as long as no connection ends.
LEMMA SeenStep == IInv /\ AliveInv /\ SeenInv /\ [Next]_vars => AliveInv' /\ SeenInv'
<1> SUFFICES ASSUME IInv, AliveInv, SeenInv, [Next]_vars PROVE AliveInv' /\ SeenInv'
  OBVIOUS
<1> USE DEF IInv
<1>1. ASSUME NEW c \in Conns, ConnNext(c) PROVE AliveInv' /\ SeenInv'
  <2>1. ASSUME NEW n \in Fds, Accept(c, n) PROVE AliveInv' /\ SeenInv'
    BY <2>1, SeenAccept
  <2>2. ASSUME NEW label \in Pcs \ (Telling \cup {"new"}),
               pc[c] \notin Telling \cup {"new"}, pc' = [pc EXCEPT ![c] = label],
               UNCHANGED <<sockVars, loginVars, tellVars, view, closes>>
        PROVE  AliveInv' /\ SeenInv'
    <3>1. Alone(c) /\ pc'[c] = label
      BY <2>2 DEF Alone, TypeOK
    <3> QED BY <2>2, <3>1, SeenQuiet
  <2>3. ASSUME NEW a \in Accounts, NEW p \in Passwords, NEW pic \in BOOLEAN,
               NEW label \in {"check", "query", "login"}, Receive(c, a, p, pic, label)
        PROVE  AliveInv' /\ SeenInv'
    BY <2>2, <2>3 DEF Receive, Free, Pcs, Telling
  <2>4. ASSUME NEW a \in Accounts, NEW p \in Passwords, NEW pic \in BOOLEAN,
               \/ Register(c, a, p, pic) \/ Query(c, a) \/ Login(c, a, p)
        PROVE  AliveInv' /\ SeenInv'
    BY <2>3, <2>4 DEF Register, Query, Login
  <2>5. CASE \/ FindUser(c) \/ OpenAvatar(c) \/ WriteAvatar(c) \/ RemoveAvatar(c)
             \/ InsertUser(c) \/ query_user(c) \/ load_avatar_data(c) \/ login_check(c)
    <3>1. PICK label \in {"idle", "open", "insert", "write", "load", "status", "enter"} :
            pc' = [pc EXCEPT ![c] = label]
      BY <2>5 DEF FindUser, OpenAvatar, WriteAvatar, RemoveAvatar, InsertUser, query_user,
                  load_avatar_data, login_check
    <3>2. pc[c] \notin Telling \cup {"new"}
      BY <2>5 DEF FindUser, OpenAvatar, WriteAvatar, RemoveAvatar, InsertUser, query_user,
                  load_avatar_data, login_check, Telling
    <3>3. UNCHANGED <<sockVars, loginVars, tellVars, view, closes>>
      BY <2>5 DEF FindUser, OpenAvatar, WriteAvatar, RemoveAvatar, InsertUser, query_user,
                  load_avatar_data, login_check
    <3> QED BY <2>2, <3>1, <3>2, <3>3 DEF Pcs, Telling
  <2>6. CASE do_query(c)
    <3> DEFINE e == req[c].account
    <3>1. /\ pc[c] = "status" /\ pc' = [pc EXCEPT ![c] = "idle"]
          /\ view' = [view EXCEPT ![c][e] = IF user_client[e] # None THEN "online"
                                            ELSE "offline"]
          /\ UNCHANGED <<sockVars, loginVars, tellVars, closes>>
      BY <2>6 DEF do_query
    <3>2. /\ Alone(c) /\ pc'[c] = "idle" /\ \A d \in Conns : d # c => view'[d] = view[d]
      BY <3>1 DEF Alone, TypeOK
    <3>3. e \in Accounts
      BY <3>1 DEF RequestInv, Serving, Request
    <3>4. view[c] \in [Accounts -> Shown]
      BY DEF TypeOK
    <3>5. view'[c] = [view[c] EXCEPT ![e] = IF user_client[e] # None THEN "online"
                                            ELSE "offline"]
      BY <3>1 DEF TypeOK
    <3>6. \A b \in Accounts : \/ view'[c][b] = view[c][b]
                              \/ user_client[b] # None => view'[c][b] = "online"
      BY <3>3, <3>4, <3>5
    <3> HIDE DEF e
    <3>7. AliveInv'
      BY <3>1, <3>2, AliveFrame DEF Telling
    <3>8. ASSUME NEW a \in Accounts, NEW b \in Accounts, closes = 0, Expects(c, a, b),
                 Shows(c, b)
          PROVE  Shows(c, b)'
      <4>1. user_client[b] # None
        BY <3>8 DEF AliveInv, Expects
      <4>2. view[c][b] = "online"
        BY <3>1, <3>8 DEF Shows, Telling
      <4> QED BY <3>2, <3>6, <4>1, <4>2 DEF Shows, Telling
    <3> QED BY <3>1, <3>2, <3>7, <3>8, SeenOwn
  <2>7. CASE do_login(c)
    BY <2>7, SeenLogin
  <2>8. CASE RecvEof(c) \/ RecvError(c)
    <3>1. closes' = closes + 1
      BY <2>8 DEF RecvEof, RecvError
    <3>2. closes' # 0
      BY <3>1 DEF TypeOK
    <3> QED BY <3>2 DEF AliveInv, SeenInv
  <2>9. CASE EraseEntry(c) \/ EndConnection(c)
    <3>1. c \notin open /\ pc[c] # "new" /\ closes' = closes
      BY <2>9 DEF EraseEntry, EndConnection, SockInv, ScanInv
    <3>2. closes # 0
      BY <3>1 DEF AliveInv
    <3> QED BY <3>1, <3>2 DEF AliveInv, SeenInv
  <2> QED BY <1>1, <2>1, <2>4, <2>5, <2>6, <2>7, <2>8, <2>9, SeenTell DEF ConnNext
<1>2. CASE UNCHANGED vars
  BY <1>2 DEF vars, AliveInv, SeenInv, Expects, Shows
<1> QED BY <1>1, <1>2 DEF Next

-----------------------------------------------------------------------------
(* The theorems *)

\* The invariant holds when nobody has connected yet.
LEMMA InitInv == Init => IInv
<1> SUFFICES ASSUME Init PROVE IInv
  OBVIOUS
<1>1. /\ \A c \in Conns : pc[c] = "new" /\ ~path[c]
      /\ open = {} /\ acked = {} /\ \A a \in Accounts : owner[a] = None
  BY DEF Init
<1>2. TypeOK /\ RequestInv
  BY <1>1, InitType DEF RequestInv, Serving
<1>3. SockInv
  BY <1>1 DEF SockInv, OwnerInv, ScanInv, NumberInv, LiveEntryKept
<1>4. CountInv /\ PathInv /\ QueryInv /\ AckedRegistration
  BY <1>1 DEF CountInv, Saving, PathInv, QueryInv, AckedRegistration
<1>5. PictureWithRow
  BY <1>1 DEF Init, PictureWithRow
<1> QED BY <1>2, <1>3, <1>4, <1>5 DEF IInv, RegInv

\* The inductive invariant: the types, the requests, who has which number and entry, and
\* what the registrations know of row and picture.
THEOREM Invariant == Spec => []IInv
<1>1. IInv /\ [Next]_vars => IInv'
  BY TypeStep, SockStep, RegStep DEF IInv
<1> QED BY <1>1, InitInv, PTL DEF Spec

\* Every variable keeps its type, whatever messages, disconnects and reused numbers there are.
THEOREM TypeCorrect == Spec => []TypeOK
<1>1. IInv => TypeOK
  BY DEF IInv
<1> QED BY <1>1, Invariant, PTL

\* handle_register_message answers success only to the registration whose row is in
\* user_info, however many registrations of the account ran through the check together.
THEOREM AckedIsStored == Spec => []AckedRegistration
<1>1. IInv => AckedRegistration
  BY DEF IInv, RegInv
<1> QED BY <1>1, Invariant, PTL

\* handle_AccountQuery_message shows the picture that was registered, when the account was
\* registered by one client at a time.
THEOREM PictureIsRegistered == Spec => []PictureWithRow
<1>1. IInv => PictureWithRow
  BY DEF IInv, RegInv
<1> QED BY <1>1, Invariant, PTL

\* The clean-up of a connection that ended never takes from user_client the entry of an open
\* connection's latest login.
THEOREM EntryKept == Spec => []LiveEntryKept
<1>1. IInv => LiveEntryKept
  BY DEF IInv, SockInv
<1> QED BY <1>1, Invariant, PTL

\* Nobody has logged in at first.
LEMMA InitSeen == Init => AliveInv /\ SeenInv
BY DEF Init, AliveInv, SeenInv, Expects, Telling

\* The inductive invariant of the notices: as long as no connection ends, of two friends
\* that are logged in one shows the other or has it still to look up.
THEOREM FriendsInSight == Spec => [](AliveInv /\ SeenInv)
<1>1. IInv /\ AliveInv /\ SeenInv /\ [Next]_vars => (AliveInv /\ SeenInv)'
  BY SeenStep
<1>2. Init => AliveInv /\ SeenInv
  BY InitSeen
<1> QED BY <1>1, <1>2, Invariant, PTL DEF Spec

\* handle_login_message sets user_client before it looks up the friends: of two friends that
\* log in at the same time one is shown the other, when the notices are out.
THEOREM OneIsShown == Spec => []SeenByOne
<1>1. IInv /\ AliveInv /\ SeenInv => SeenByOne
  <2> SUFFICES ASSUME IInv, AliveInv, SeenInv, closes = 0, \A c \in open : pc[c] = "idle",
                      NEW a \in Accounts, NEW b \in Accounts, <<a, b>> \in Friends,
                      owner[a] \in open, owner[b] \in open,
                      logins[owner[a]] = {a}, logins[owner[b]] = {b}
               PROVE  view[owner[a]][b] = "online" \/ view[owner[b]][a] = "online"
    BY DEF SeenByOne
  <2>1. owner[a] \in Conns /\ owner[b] \in Conns
    BY DEF IInv, TypeOK
  <2>2. Expects(owner[a], a, b) /\ Expects(owner[b], b, a)
    BY <2>1, FriendsAreMutual DEF Expects
  <2>3. Shows(owner[a], b) \/ Shows(owner[b], a)
    BY <2>1, <2>2 DEF SeenInv
  <2> QED BY <2>3 DEF Shows, Telling
<1> QED BY <1>1, Invariant, FriendsInSight, PTL
=============================================================================
