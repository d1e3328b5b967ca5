------------------------------ MODULE Dispatch ------------------------------
(***************************************************************************)
(* The event loop of TcpServer (tcp_server.cpp), the pool threads that run *)
(* Business::thread_handle, and the table of per-client locks they share   *)
(* (business.cpp): client_mutex_map, guarded by map_mutex.                 *)
(*                                                                         *)
(* A message is one unit: its header and body arrive together and one      *)
(* handler call consumes it.  The handlers are other modules; here a       *)
(* handler takes time and returns, but one that sends a list stays in      *)
(* send_large_data until the receiver has room for it, its own client's    *)
(* lock held.                                                              *)
(***************************************************************************)
EXTENDS Naturals, Sequences

CONSTANTS
  Fds,              \* numbers the kernel may hand out for client descriptors
  Workers,          \* the pool's threads (at most 20 in the program)
  Main,             \* the thread of main_loop
  Listen,           \* m_listen_fd
  None,             \* nobody, nothing
  MaxConnects,      \* bound: connections that clients open
  MaxSends,         \* bound: messages that clients send
  MaxCloses,        \* bound: connections that clients close or reset
  MaxStalls,        \* bound: times that clients stop reading
  SetupMayFail,     \* whether socket/bind/listen/epoll_create1 may fail
  EpollAddMayFail   \* whether fcntl or epoll_ctl may fail for a new client

ASSUME DispatchAssumption ==
  /\ None \notin Fds \cup Workers \cup {Main, Listen}
  /\ Main \notin Workers
  /\ Listen \notin Fds
  /\ MaxConnects \in Nat /\ MaxSends \in Nat
  /\ MaxCloses \in Nat /\ MaxStalls \in Nat
  /\ SetupMayFail \in BOOLEAN /\ EpollAddMayFail \in BOOLEAN

VARIABLES
  \* The kernel: connections and the epoll instance
  listening,         \* the listening socket and epollfd exist
  backlog,           \* connections waiting for accept
  open,              \* descriptors of accepted connections
  registered,        \* descriptors in the epoll interest list (EPOLLIN|EPOLLET)
  ready,             \* descriptors whose edge-triggered event is not reported yet
  inbox,             \* inbox[fd]: messages in the socket's receive buffer
  peer,              \* peer[fd]: what recv finds once the buffer is empty
  stalled,           \* descriptors whose client does not read: no room to send
  connects, sends, closes, stalls,   \* how much of each bound is used
  \* The locks
  map_mutex,         \* the thread that holds map_mutex, or None
  client_mutex_map,  \* the descriptors that have an entry
  writer,            \* writer[fd]: the worker that holds the entry exclusively
  phantom,           \* entries whose reader count a stray unlock took to -1
  alias,             \* alias[w]: entry built where w's erased entry was, or None
  \* main_loop
  mpc, mfd,          \* its program counter, and the descriptor it works on
  batch,             \* events of this epoll_wait still to be looked at
  \* The pool
  queue,             \* m_pool's tasks
  wpc, wfd,          \* program counter and clientfd of each worker
  wto                \* wto[w]: where the lists go that w's handler still sends

kernelVars == <<listening, backlog, open, registered, ready, inbox, peer, stalled>>
envVars    == <<connects, sends, closes, stalls>>
lockVars   == <<map_mutex, client_mutex_map, writer, phantom, alias>>
mainVars   == <<mpc, mfd, batch>>
workerVars == <<wpc, wfd, wto>>
vars == <<kernelVars, envVars, lockVars, mainVars, queue, workerVars>>

PeerState  == {"open", "eof", "reset"}
MainPc     == {"setup", "wait", "event", "addlock", "register",
               "rdwait", "push", "exited"}
WorkerPc   == {"idle", "wantmap", "wrwait", "recv", "blocked", "handle",
               "sending", "leaving", "errclose", "cleanup", "remove", "orphan"}

Init ==
  /\ listening = FALSE /\ backlog = 0
  /\ open = {} /\ registered = {} /\ ready = {}
  /\ inbox = [fd \in Fds |-> 0]
  /\ peer = [fd \in Fds |-> "open"]
  /\ stalled = {}
  /\ connects = 0 /\ sends = 0 /\ closes = 0 /\ stalls = 0
  /\ map_mutex = None
  /\ client_mutex_map = {}
  /\ writer = [fd \in Fds |-> None]
  /\ phantom = {}
  /\ alias = [w \in Workers |-> None]
  /\ mpc = "setup" /\ mfd = None /\ batch = {}
  /\ queue = <<>>
  /\ wpc = [w \in Workers |-> "idle"]
  /\ wfd = [w \in Workers |-> None]
  /\ wto = [w \in Workers |-> {}]

HasInput(fd) == inbox[fd] > 0 \/ peer[fd] # "open"

-----------------------------------------------------------------------------
(* Clients and the kernel *)

ClientConnect ==
  /\ listening /\ connects < MaxConnects
  /\ connects' = connects + 1
  /\ backlog' = backlog + 1
  /\ UNCHANGED <<listening, open, registered, ready, inbox, peer, stalled, sends,
                 closes, stalls, lockVars, mainVars, queue, workerVars>>

\* Input on a registered descriptor is an edge: its event becomes pending.
Edge(fd) == ready' = IF fd \in registered THEN ready \cup {fd} ELSE ready

ClientSend(fd) ==
  /\ fd \in open /\ peer[fd] = "open" /\ sends < MaxSends
  /\ sends' = sends + 1
  /\ inbox' = [inbox EXCEPT ![fd] = @ + 1]
  /\ Edge(fd)
  /\ UNCHANGED <<listening, backlog, open, registered, peer, stalled, connects,
                 closes, stalls, lockVars, mainVars, queue, workerVars>>

ClientClose(fd, how) ==
  /\ fd \in open /\ peer[fd] = "open" /\ closes < MaxCloses
  /\ closes' = closes + 1
  /\ peer' = [peer EXCEPT ![fd] = how]
  /\ Edge(fd)
  /\ UNCHANGED <<listening, backlog, open, registered, inbox, stalled, connects,
                 sends, stalls, lockVars, mainVars, queue, workerVars>>

\* A client that does not read fills the socket buffer of its connection.
ClientStalls(fd) ==
  /\ fd \in open \ stalled /\ stalls < MaxStalls
  /\ stalls' = stalls + 1
  /\ stalled' = stalled \cup {fd}
  /\ UNCHANGED <<listening, backlog, open, registered, ready, inbox, peer,
                 connects, sends, closes, lockVars, mainVars, queue, workerVars>>

ClientResumes(fd) ==
  /\ fd \in stalled
  /\ stalled' = stalled \ {fd}
  /\ UNCHANGED <<listening, backlog, open, registered, ready, inbox, peer,
                 envVars, lockVars, mainVars, queue, workerVars>>

\* close(fd): the kernel drops the buffer and takes fd out of the epoll set.
CloseFd(fd) ==
  /\ open' = open \ {fd}
  /\ registered' = registered \ {fd}
  /\ ready' = ready \ {fd}
  /\ inbox' = [inbox EXCEPT ![fd] = 0]
  /\ peer' = [peer EXCEPT ![fd] = "open"]
  /\ stalled' = stalled \ {fd}
  /\ UNCHANGED <<listening, backlog>>

-----------------------------------------------------------------------------
(* TcpServer::start and main_loop *)

\* start() calls main_loop() whatever setup_server() returned.
setup_server ==
  /\ mpc = "setup"
  /\ listening' \in (IF SetupMayFail THEN BOOLEAN ELSE {TRUE})
  /\ mpc' = "wait"
  /\ UNCHANGED <<backlog, open, registered, ready, inbox, peer, stalled, envVars,
                 lockVars, mfd, batch, queue, workerVars>>

EpollWaitFails ==
  /\ mpc = "wait" /\ ~listening
  /\ mpc' = "exited"
  /\ UNCHANGED <<kernelVars, envVars, lockVars, mfd, batch, queue, workerVars>>

EpollWait ==
  /\ mpc = "wait" /\ listening
  /\ ready # {} \/ backlog > 0
  /\ batch' = ready \cup (IF backlog > 0 THEN {Listen} ELSE {})
  /\ ready' = {}
  /\ mpc' = "event"
  /\ UNCHANGED <<listening, backlog, open, registered, inbox, peer, stalled, envVars,
                 lockVars, mfd, queue, workerVars>>

EndOfBatch ==
  /\ mpc = "event" /\ batch = {}
  /\ mpc' = "wait"
  /\ UNCHANGED <<kernelVars, envVars, lockVars, mfd, batch, queue, workerVars>>

Accept(fd) ==
  /\ mpc = "event" /\ Listen \in batch
  /\ backlog > 0 /\ fd \notin open
  /\ open' = open \cup {fd}
  /\ backlog' = backlog - 1
  /\ batch' = batch \ {Listen}
  /\ mfd' = fd
  /\ mpc' = "addlock"
  /\ UNCHANGED <<listening, registered, ready, inbox, peer, stalled, envVars,
                 lockVars, queue, workerVars>>

\* EMFILE.  The listening socket is level-triggered and stays ready.
AcceptFails ==
  /\ mpc = "event" /\ Listen \in batch
  /\ open = Fds
  /\ batch' = batch \ {Listen}
  /\ UNCHANGED <<kernelVars, envVars, lockVars, mpc, mfd, queue, workerVars>>

\* try_emplace does nothing when the key exists.  A new entry may be built in
\* the memory of one that a worker has erased but not unlocked yet.
add_client_lock ==
  /\ mpc = "addlock" /\ map_mutex = None
  /\ client_mutex_map' = client_mutex_map \cup {mfd}
  /\ \/ UNCHANGED alias
     \/ \E w \in Workers : /\ mfd \notin client_mutex_map
                           /\ wpc[w] = "orphan" /\ alias[w] = None
                           /\ alias' = [alias EXCEPT ![w] = mfd]
  /\ mpc' = "register"
  /\ UNCHANGED <<kernelVars, envVars, map_mutex, writer, phantom, mfd, batch,
                 queue, workerVars>>

\* set_nonblocking and epoll_ctl(ADD); input that is already there is an edge.
RegisterClient ==
  /\ mpc = "register" /\ mfd \in open
  /\ registered' = registered \cup {mfd}
  /\ ready' = IF HasInput(mfd) THEN ready \cup {mfd} ELSE ready
  /\ mpc' = "event"
  /\ UNCHANGED <<listening, backlog, open, inbox, peer, stalled, envVars, lockVars,
                 mfd, batch, queue, workerVars>>

\* The descriptor is closed; its entry in client_mutex_map stays.
RegisterFails ==
  /\ mpc = "register"
  /\ EpollAddMayFail \/ mfd \notin open
  /\ CloseFd(mfd)
  /\ mpc' = "event"
  /\ UNCHANGED <<envVars, lockVars, mfd, batch, queue, workerVars>>

\* get_client_read_lock when the descriptor has no entry: an empty lock.
SkipEvent(fd) ==
  /\ mpc = "event" /\ fd \in batch /\ map_mutex = None
  /\ fd \notin client_mutex_map
  /\ batch' = batch \ {fd}
  /\ UNCHANGED <<kernelVars, envVars, lockVars, mpc, mfd, queue, workerVars>>

\* get_client_read_lock up to the shared_lock constructor, which blocks with
\* map_mutex held ...
LockMapForEvent(fd) ==
  /\ mpc = "event" /\ fd \in batch /\ map_mutex = None
  /\ fd \in client_mutex_map
  /\ map_mutex' = Main
  /\ batch' = batch \ {fd}
  /\ mfd' = fd
  /\ mpc' = "rdwait"
  /\ UNCHANGED <<kernelVars, envVars, client_mutex_map, writer, phantom, alias,
                 queue, workerVars>>

\* Variant: try_to_lock, as main_loop's comment has it; a busy client is skipped.
get_client_read_lock_try ==
  /\ mpc = "rdwait"
  /\ map_mutex' = None
  /\ mpc' = IF writer[mfd] = None THEN "push" ELSE "event"
  /\ UNCHANGED <<kernelVars, envVars, client_mutex_map, writer, phantom, alias,
                 mfd, batch, queue, workerVars>>

\* ... until no worker holds the entry.
get_client_read_lock ==
  /\ mpc = "rdwait" /\ writer[mfd] = None
  /\ map_mutex' = None
  /\ mpc' = "push"
  /\ UNCHANGED <<kernelVars, envVars, client_mutex_map, writer, phantom, alias,
                 mfd, batch, queue, workerVars>>

\* The shared lock ends with the scope of the event.
SharedHeld(fd) == mpc = "push" /\ mfd = fd

push_task ==
  /\ mpc = "push"
  /\ queue' = Append(queue, mfd)
  /\ mpc' = "event"
  /\ UNCHANGED <<kernelVars, envVars, lockVars, mfd, batch, workerVars>>

-----------------------------------------------------------------------------
(* Business::thread_handle, run by each thread of the pool *)

TakeTask(w) ==
  /\ wpc[w] = "idle" /\ queue # <<>>
  /\ wfd' = [wfd EXCEPT ![w] = Head(queue)]
  /\ wpc' = [wpc EXCEPT ![w] = "wantmap"]
  /\ queue' = Tail(queue)
  /\ UNCHANGED <<kernelVars, envVars, lockVars, mainVars, wto>>

\* get_client_write_lock when the descriptor has no entry: the task is dropped.
SkipTask(w) ==
  /\ wpc[w] = "wantmap" /\ map_mutex = None
  /\ wfd[w] \notin client_mutex_map
  /\ wpc' = [wpc EXCEPT ![w] = "idle"]
  /\ wfd' = [wfd EXCEPT ![w] = None]
  /\ UNCHANGED <<kernelVars, envVars, lockVars, mainVars, queue, wto>>

\* Variant: map_mutex is released before the entry is locked.
LockMapForTaskEarlyRelease(w) ==
  /\ wpc[w] = "wantmap" /\ map_mutex = None
  /\ wfd[w] \in client_mutex_map
  /\ wpc' = [wpc EXCEPT ![w] = "wrwait"]
  /\ UNCHANGED <<kernelVars, envVars, lockVars, mainVars, queue, wfd, wto>>

\* get_client_write_lock up to the unique_lock constructor, which blocks with
\* map_mutex held ...
LockMapForTask(w) ==
  /\ wpc[w] = "wantmap" /\ map_mutex = None
  /\ wfd[w] \in client_mutex_map
  /\ map_mutex' = w
  /\ wpc' = [wpc EXCEPT ![w] = "wrwait"]
  /\ UNCHANGED <<kernelVars, envVars, client_mutex_map, writer, phantom, alias,
                 mainVars, queue, wfd, wto>>

\* Variant: a shared lock where the code takes a unique one.
get_client_write_lock_shared(w) ==
  /\ wpc[w] = "wrwait"
  /\ map_mutex' = None
  /\ wpc' = [wpc EXCEPT ![w] = "recv"]
  /\ UNCHANGED <<kernelVars, envVars, client_mutex_map, writer, phantom, alias,
                 mainVars, queue, wfd, wto>>

\* ... until no worker holds the entry and its reader count is zero.
get_client_write_lock(w) ==
  /\ wpc[w] = "wrwait"
  /\ writer[wfd[w]] = None
  /\ SharedHeld(wfd[w]) = (wfd[w] \in phantom)
  /\ writer' = [writer EXCEPT ![wfd[w]] = w]
  /\ map_mutex' = None
  /\ wpc' = [wpc EXCEPT ![w] = "recv"]
  /\ UNCHANGED <<kernelVars, envVars, client_mutex_map, phantom, alias,
                 mainVars, queue, wfd, wto>>

\* receive_message_header calls recv, or is asleep in it.
Receiving(w) == wpc[w] \in {"recv", "blocked"}

\* Variants: the result of recv is not looked at; the lock ends before the handler.
RecvHeaderUnchecked(w) ==
  /\ Receiving(w) /\ wfd[w] \in open
  /\ inbox' = [inbox EXCEPT ![wfd[w]] = @ - 1]
  /\ wpc' = [wpc EXCEPT ![w] = "handle"]
  /\ UNCHANGED <<listening, backlog, open, registered, ready, peer, stalled, envVars,
                 lockVars, mainVars, queue, wfd, wto>>

RecvHeaderUnlocks(w) ==
  /\ Receiving(w) /\ wfd[w] \in open /\ inbox[wfd[w]] > 0
  /\ inbox' = [inbox EXCEPT ![wfd[w]] = @ - 1]
  /\ writer' = [writer EXCEPT ![wfd[w]] = None]
  /\ wpc' = [wpc EXCEPT ![w] = "handle"]
  /\ UNCHANGED <<listening, backlog, open, registered, ready, peer, stalled, envVars, map_mutex,
                 client_mutex_map, phantom, alias, mainVars, queue, wfd, wto>>

RecvHeader(w) ==
  /\ Receiving(w) /\ wfd[w] \in open /\ inbox[wfd[w]] > 0
  /\ inbox' = [inbox EXCEPT ![wfd[w]] = @ - 1]
  /\ wpc' = [wpc EXCEPT ![w] = "handle"]
  /\ UNCHANGED <<listening, backlog, open, registered, ready, peer, stalled, envVars,
                 lockVars, mainVars, queue, wfd, wto>>

\* Variant: one message per event, without the loop.
HandleMessageOnce(w) ==
  /\ wpc[w] = "handle"
  /\ wpc' = [wpc EXCEPT ![w] = "leaving"]
  /\ UNCHANGED <<kernelVars, envVars, lockVars, mainVars, queue, wfd, wto>>

\* A handler that sends no list returns: a plain send does not wait.
HandleMessage(w) ==
  /\ wpc[w] = "handle"
  /\ wpc' = [wpc EXCEPT ![w] = "recv"]
  /\ UNCHANGED <<kernelVars, envVars, lockVars, mainVars, queue, wfd, wto>>

\* send_large_data: the lists of a login go to the client itself, those of an
\* accepted request to anyone of whom user_client has a number.
SendLists(w, to) ==
  /\ wpc[w] = "handle" /\ to # {}
  /\ wto' = [wto EXCEPT ![w] = to]
  /\ wpc' = [wpc EXCEPT ![w] = "sending"]
  /\ UNCHANGED <<kernelVars, envVars, lockVars, mainVars, queue, wfd>>

\* EAGAIN is tried again for ever; any other error ends the list (SIGPIPE, which
\* the program does not ignore, even the process: then nothing happens any more).
Drains(fd) == fd \notin stalled \/ peer[fd] # "open"

\* The last list is sent or given up: the handler returns and the loop goes on.
ListSent(w, fd) ==
  /\ wpc[w] = "sending" /\ fd \in wto[w] /\ Drains(fd)
  /\ wto' = [wto EXCEPT ![w] = @ \ {fd}]
  /\ wpc' = [wpc EXCEPT ![w] = IF wto[w] = {fd} THEN "recv" ELSE "sending"]
  /\ UNCHANGED <<kernelVars, envVars, lockVars, mainVars, queue, wfd>>

NothingYet(fd) == fd \in open /\ inbox[fd] = 0 /\ peer[fd] = "open"

\* Accepted, and set_nonblocking has not run.
StillBlocking(fd) == mfd = fd /\ mpc \in {"addlock", "register"}

\* EAGAIN.  The lock is released by a later step.
RecvAgain(w) ==
  /\ wpc[w] = "recv" /\ NothingYet(wfd[w]) /\ ~StillBlocking(wfd[w])
  /\ wpc' = [wpc EXCEPT ![w] = "leaving"]
  /\ UNCHANGED <<kernelVars, envVars, lockVars, mainVars, queue, wfd, wto>>

\* A task that an earlier connection left behind reaches a new connection
\* before it is non-blocking: recv sleeps until something arrives.
RecvBlocks(w) ==
  /\ wpc[w] = "recv" /\ NothingYet(wfd[w]) /\ StillBlocking(wfd[w])
  /\ wpc' = [wpc EXCEPT ![w] = "blocked"]
  /\ UNCHANGED <<kernelVars, envVars, lockVars, mainVars, queue, wfd, wto>>

\* Variant: the exclusive lock is not released.
ReleaseClientForgotten(w) ==
  /\ wpc[w] = "leaving"
  /\ wpc' = [wpc EXCEPT ![w] = "idle"]
  /\ wfd' = [wfd EXCEPT ![w] = None]
  /\ UNCHANGED <<kernelVars, envVars, lockVars, mainVars, queue, wto>>

\* ~unique_lock.
ReleaseClient(w) ==
  /\ wpc[w] = "leaving"
  /\ writer' = [writer EXCEPT ![wfd[w]] = None]
  /\ wpc' = [wpc EXCEPT ![w] = "idle"]
  /\ wfd' = [wfd EXCEPT ![w] = None]
  /\ UNCHANGED <<kernelVars, envVars, map_mutex, client_mutex_map, phantom,
                 alias, mainVars, queue, wto>>

\* recv returns 0: the descriptor is closed first ...
RecvEof(w) ==
  /\ Receiving(w) /\ wfd[w] \in open
  /\ inbox[wfd[w]] = 0 /\ peer[wfd[w]] = "eof"
  /\ CloseFd(wfd[w])
  /\ wpc' = [wpc EXCEPT ![w] = "cleanup"]
  /\ UNCHANGED <<envVars, lockVars, mainVars, queue, wfd, wto>>

\* ... then user_client is searched and the friends are told (Presence).
CleanUp(w) ==
  /\ wpc[w] = "cleanup"
  /\ wpc' = [wpc EXCEPT ![w] = "remove"]
  /\ UNCHANGED <<kernelVars, envVars, lockVars, mainVars, queue, wfd, wto>>

\* ECONNRESET, or EBADF for a descriptor that is closed by now.
RecvError(w) ==
  /\ Receiving(w)
  /\ \/ wfd[w] \notin open
     \/ inbox[wfd[w]] = 0 /\ peer[wfd[w]] = "reset"
  /\ wpc' = [wpc EXCEPT ![w] = "errclose"]
  /\ UNCHANGED <<kernelVars, envVars, lockVars, mainVars, queue, wfd, wto>>

\* Closes the number, whatever connection has it now.
ErrClose(w) ==
  /\ wpc[w] = "errclose"
  /\ CloseFd(wfd[w])
  /\ wpc' = [wpc EXCEPT ![w] = "remove"]
  /\ UNCHANGED <<envVars, lockVars, mainVars, queue, wfd, wto>>

\* The entry is erased, and its mutex destroyed, while w holds it.
remove_client_lock(w) ==
  /\ wpc[w] = "remove" /\ map_mutex = None
  /\ client_mutex_map' = client_mutex_map \ {wfd[w]}
  /\ writer' = [writer EXCEPT ![wfd[w]] = None]
  /\ phantom' = phantom \ {wfd[w]}
  /\ alias' = [v \in Workers |-> IF alias[v] = wfd[w] THEN None ELSE alias[v]]
  /\ wpc' = [wpc EXCEPT ![w] = "orphan"]
  /\ UNCHANGED <<kernelVars, envVars, map_mutex, mainVars, queue, wfd, wto>>

\* ~unique_lock on the destroyed mutex, which is undefined: nothing happens
\* while the memory is free, and glibc counts one reader less on the entry
\* that was built there since.
ReleaseOrphan(w) ==
  /\ wpc[w] = "orphan"
  /\ phantom' = IF alias[w] = None THEN phantom ELSE phantom \cup {alias[w]}
  /\ alias' = [alias EXCEPT ![w] = None]
  /\ wpc' = [wpc EXCEPT ![w] = "idle"]
  /\ wfd' = [wfd EXCEPT ![w] = None]
  /\ UNCHANGED <<kernelVars, envVars, map_mutex, client_mutex_map, writer,
                 mainVars, queue, wto>>

-----------------------------------------------------------------------------
ClientNext ==
  \/ ClientConnect
  \/ \E fd \in Fds : ClientSend(fd) \/ ClientStalls(fd) \/ ClientResumes(fd)
  \/ \E fd \in Fds, how \in {"eof", "reset"} : ClientClose(fd, how)

MainNext ==
  \/ setup_server \/ EpollWaitFails \/ EpollWait \/ EndOfBatch
  \/ AcceptFails \/ (\E fd \in Fds : Accept(fd))
  \/ add_client_lock \/ RegisterClient \/ RegisterFails
  \/ (\E fd \in Fds : SkipEvent(fd) \/ LockMapForEvent(fd))
  \/ get_client_read_lock \/ push_task

WorkerNext(w) ==
  \/ TakeTask(w) \/ SkipTask(w) \/ LockMapForTask(w) \/ get_client_write_lock(w)
  \/ RecvHeader(w) \/ HandleMessage(w) \/ RecvAgain(w) \/ RecvBlocks(w)
  \/ (\E to \in SUBSET Fds : SendLists(w, to)) \/ (\E fd \in Fds : ListSent(w, fd))
  \/ ReleaseClient(w) \/ RecvEof(w) \/ CleanUp(w) \/ RecvError(w) \/ ErrClose(w)
  \/ remove_client_lock(w) \/ ReleaseOrphan(w)

Next == ClientNext \/ MainNext \/ (\E w \in Workers : WorkerNext(w))

\* The scheduler lets every thread of the server run; clients owe nothing.
Fairness ==
  /\ WF_vars(MainNext)
  /\ \A w \in Workers : WF_vars(WorkerNext(w))

Spec == Init /\ [][Next]_vars
FairSpec == Spec /\ Fairness

-----------------------------------------------------------------------------
(* Properties *)

\* The values that every variable keeps; a thread that works on a descriptor has one.
TypeOK ==
  /\ listening \in BOOLEAN /\ backlog \in Nat
  /\ open \subseteq Fds /\ registered \subseteq Fds /\ ready \subseteq Fds
  /\ inbox \in [Fds -> Nat]
  /\ peer \in [Fds -> PeerState]
  /\ stalled \subseteq Fds
  /\ connects \in Nat /\ sends \in Nat /\ closes \in Nat /\ stalls \in Nat
  /\ map_mutex \in Workers \cup {Main, None}
  /\ client_mutex_map \subseteq Fds
  /\ writer \in [Fds -> Workers \cup {None}]
  /\ phantom \subseteq Fds
  /\ alias \in [Workers -> Fds \cup {None}]
  /\ mpc \in MainPc
  /\ mfd \in Fds \cup {None}
  /\ mpc \in {"addlock", "register", "rdwait", "push"} => mfd \in Fds
  /\ batch \subseteq Fds \cup {Listen}
  /\ queue \in Seq(Fds)
  /\ wpc \in [Workers -> WorkerPc]
  /\ wfd \in [Workers -> Fds \cup {None}]
  /\ wto \in [Workers -> SUBSET Fds]
  /\ \A w \in Workers : wpc[w] # "idle" => wfd[w] \in Fds

\* w is between the return of get_client_write_lock and the end of its lock.
Serving(w) == wpc[w] \in {"recv", "blocked", "handle", "sending", "leaving",
                          "errclose", "cleanup", "remove"}

\* "获取写锁，确保同一时间只有一个线程处理这个客户端" (business.cpp:62): two workers never
\* receive from, handle a message of or close one descriptor, whatever happens to
\* its entry in client_mutex_map and however often the number is reused.
OneWorkerPerClient ==
  \A v, w \in Workers :
    Serving(v) /\ Serving(w) /\ wfd[v] = wfd[w] => v = w

\* The mutex a thread blocks on in get_client_read_lock (business.cpp:30) or
\* get_client_write_lock (:41) is not erased by another thread meanwhile.
LockNodeAlive ==
  /\ mpc = "rdwait" => mfd \in client_mutex_map
  /\ \A w \in Workers : wpc[w] = "wrwait" => wfd[w] \in client_mutex_map

\* Someone will still look at this descriptor.
Attended(fd) ==
  \/ fd \in ready \/ fd \in batch
  \/ mfd = fd /\ mpc \in {"rdwait", "push"}
  \/ \E i \in DOMAIN queue : queue[i] = fd
  \/ \E w \in Workers : /\ wfd[w] = fd
                         /\ wpc[w] \in {"wantmap", "wrwait", "recv", "blocked",
                                        "handle", "sending", "errclose"}

\* The epoll set is edge-triggered and a worker stops at EAGAIN, before it
\* unlocks: input on a registered descriptor with a lock is never forgotten.
NoLostWakeup ==
  \A fd \in registered \cap client_mutex_map : HasInput(fd) => Attended(fd)

\* w is in a handler.
Handling(w) == wpc[w] \in {"handle", "sending"}

Service == INSTANCE SerialService
             WITH pending <- inbox,
                  busy <- [fd \in Fds |-> {w \in Workers :
                                           wfd[w] = fd /\ Handling(w)}]

\* Epoll, tasks and locks together serve each descriptor like SerialService: one
\* handler at a time, each started by a message that arrived and was not taken.
ServesSerially == Service!ServiceSpec

\* From some time on every client reads what it is sent.
ClientsRead == <>[](stalled = {})

\* A message on an open connection is taken and handled, or the connection ends,
\* provided that no client stops reading for ever: a handler that sends it a list
\* (business.cpp:349) would never return and keep its own client's lock.
MessagesHandled ==
  ClientsRead => \A fd \in Fds : inbox[fd] > 0 ~> inbox[fd] = 0

\* The event loop always comes back to epoll_wait (or the process ends): what it
\* waits for at business.cpp:30, map_mutex held, is let go.  Same provision.
MainLoopReturns ==
  ClientsRead => (mpc # "wait" ~> mpc \in {"wait", "exited"})

\* "为新客户端添加锁" (tcp_server.cpp:154): a watched connection has its entry, so
\* that its events become tasks.  A number reused before remove_client_lock breaks it.
WatchedHasLock == registered \subseteq client_mutex_map
=============================================================================
