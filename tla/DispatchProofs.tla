--------------------------- MODULE DispatchProofs ---------------------------
(***************************************************************************)
(* Proofs about Dispatch, for any descriptors, any pool and any bounds.    *)
(* IInv is the inductive invariant: what map_mutex protects, what a worker *)
(* that serves a descriptor holds, and where an input that nobody has      *)
(* taken is remembered.                                                    *)
(***************************************************************************)
EXTENDS Dispatch, TLAPS

\* map_mutex is held exactly by the thread that waits for a client's entry.
MapMutexInv ==
  /\ map_mutex = Main <=> mpc = "rdwait"
  /\ \A w \in Workers : map_mutex = w <=> wpc[w] = "wrwait"

\* A worker that serves a descriptor owns its entry, and the entry exists.
HoldsEntry ==
  \A w \in Workers : Serving(w) => /\ writer[wfd[w]] = w
                                   /\ wfd[w] \in client_mutex_map

\* Only accepted descriptors are watched, and a new one not yet; no event is
\* left when epoll_wait overwrites the array.
EpollInv ==
  /\ registered \subseteq open
  /\ mpc \in {"setup", "wait"} => batch = {}
  /\ mpc \in {"addlock", "register"} => mfd \notin registered

LockInv == MapMutexInv /\ HoldsEntry /\ LockNodeAlive

IInv == TypeOK /\ LockInv /\ EpollInv /\ NoLostWakeup

-----------------------------------------------------------------------------
(* Initial states *)

\* The initial states are well typed.
LEMMA InitType == Init => TypeOK
<1> SUFFICES ASSUME Init PROVE TypeOK
  OBVIOUS
<1>1. queue \in Seq(Fds)
  BY DEF Init
<1>2. inbox \in [Fds -> Nat] /\ peer \in [Fds -> PeerState]
  BY DEF Init, PeerState
<1>3. /\ wpc \in [Workers -> WorkerPc] /\ wfd \in [Workers -> Fds \cup {None}]
      /\ \A w \in Workers : wpc[w] = "idle"
  BY DEF Init, WorkerPc
<1>4. /\ writer \in [Fds -> Workers \cup {None}]
      /\ alias \in [Workers -> Fds \cup {None}]
  BY DEF Init
<1> QED BY <1>1, <1>2, <1>3, <1>4 DEF Init, TypeOK, MainPc

\* The inductive invariant holds before the server starts: no lock is held, nothing is queued.
LEMMA InitIInv == Init => IInv
<1> SUFFICES ASSUME Init PROVE IInv
  OBVIOUS
<1>1. TypeOK
  BY InitType
<1>2. LockInv
  BY DispatchAssumption DEF Init, LockInv, MapMutexInv, HoldsEntry, LockNodeAlive, Serving
<1>3. EpollInv /\ NoLostWakeup
  BY DEF Init, EpollInv, NoLostWakeup
<1> QED BY <1>1, <1>2, <1>3 DEF IInv

-----------------------------------------------------------------------------
(* Type correctness *)

\* close(fd), whoever calls it, leaves the kernel variables well typed.
LEMMA CloseFdType ==
  ASSUME TypeOK, NEW fd \in Fds, CloseFd(fd)
  PROVE  /\ open' \subseteq Fds /\ registered' \subseteq Fds /\ ready' \subseteq Fds
         /\ inbox' \in [Fds -> Nat] /\ peer' \in [Fds -> PeerState]
         /\ listening' \in BOOLEAN /\ backlog' \in Nat /\ stalled' \subseteq Fds
  BY DEF TypeOK, CloseFd, PeerState

\* Every step of a client, of main_loop or of a pool thread keeps the types.
LEMMA TypeStep == TypeOK /\ [Next]_vars => TypeOK'
<1> SUFFICES ASSUME TypeOK, [Next]_vars PROVE TypeOK'
  OBVIOUS
<1> USE DispatchAssumption DEF TypeOK, PeerState, MainPc, WorkerPc, kernelVars,
        envVars, lockVars, mainVars, workerVars
<1>1. CASE ClientConnect
  BY <1>1 DEF ClientConnect
<1>2. ASSUME NEW fd \in Fds, ClientSend(fd) PROVE TypeOK'
  BY <1>2 DEF ClientSend, Edge
<1>3. ASSUME NEW fd \in Fds, NEW how \in {"eof", "reset"}, ClientClose(fd, how)
      PROVE  TypeOK'
  BY <1>3 DEF ClientClose, Edge
<1>4. CASE setup_server
  BY <1>4 DEF setup_server
<1>5. CASE EpollWaitFails \/ EndOfBatch \/ AcceptFails
  BY <1>5 DEF EpollWaitFails, EndOfBatch, AcceptFails
<1>6. CASE EpollWait
  BY <1>6 DEF EpollWait
<1>7. ASSUME NEW fd \in Fds, Accept(fd) PROVE TypeOK'
  BY <1>7 DEF Accept
<1>8. CASE add_client_lock
  BY <1>8 DEF add_client_lock
<1>9. CASE RegisterClient
  BY <1>9 DEF RegisterClient
<1>10. CASE RegisterFails
  BY <1>10 DEF RegisterFails, CloseFd
<1>11. ASSUME NEW fd \in Fds, SkipEvent(fd) \/ LockMapForEvent(fd) PROVE TypeOK'
  BY <1>11 DEF SkipEvent, LockMapForEvent
<1>12. CASE get_client_read_lock
  BY <1>12 DEF get_client_read_lock
<1>13. CASE push_task
  BY <1>13 DEF push_task
<1>14. ASSUME NEW w \in Workers, WorkerNext(w) PROVE TypeOK'
  <2>0. ASSUME NEW p \in WorkerPc, wpc[w] # "idle", wpc' = [wpc EXCEPT ![w] = p],
               UNCHANGED <<kernelVars, envVars, lockVars, mainVars, queue, wfd>>,
               wto' \in [Workers -> SUBSET Fds]
        PROVE  TypeOK'
    <3>1. /\ wpc' \in [Workers -> WorkerPc]
          /\ \A v \in Workers : wpc'[v] # "idle" => wfd'[v] \in Fds
      BY <2>0
    <3> QED BY <2>0, <3>1
  <2>1. CASE TakeTask(w)
    <3>1. Head(queue) \in Fds /\ Tail(queue) \in Seq(Fds)
      BY <2>1 DEF TakeTask
    <3> QED BY <2>1, <3>1 DEF TakeTask
  <2>2. CASE SkipTask(w)
    BY <2>2 DEF SkipTask
  <2>3. CASE LockMapForTask(w)
    <3>1. /\ wpc' \in [Workers -> WorkerPc]
          /\ \A v \in Workers : wpc'[v] # "idle" => wfd'[v] \in Fds
      BY <2>3 DEF LockMapForTask
    <3> QED BY <2>3, <3>1 DEF LockMapForTask
  <2>4. CASE get_client_write_lock(w)
    BY <2>4 DEF get_client_write_lock
  <2>5. CASE RecvHeader(w)
    BY <2>5 DEF RecvHeader, Receiving
  <2>6. CASE HandleMessage(w) \/ CleanUp(w) \/ RecvError(w)
    <3>1. \E p \in WorkerPc : wpc' = [wpc EXCEPT ![w] = p]
      BY <2>6 DEF HandleMessage, CleanUp, RecvError
    <3>2. wpc[w] # "idle"
      BY <2>6 DEF HandleMessage, CleanUp, RecvError, Receiving
    <3>3. UNCHANGED <<kernelVars, envVars, lockVars, mainVars, queue, wfd, wto>>
      BY <2>6 DEF HandleMessage, CleanUp, RecvError
    <3> QED BY <2>0, <3>1, <3>2, <3>3
  <2>7. CASE RecvAgain(w) \/ RecvBlocks(w)
    <3>1. \E p \in WorkerPc : wpc' = [wpc EXCEPT ![w] = p]
      BY <2>7 DEF RecvAgain, RecvBlocks
    <3>2. wpc[w] # "idle"
      BY <2>7 DEF RecvAgain, RecvBlocks
    <3>3. UNCHANGED <<kernelVars, envVars, lockVars, mainVars, queue, wfd, wto>>
      BY <2>7 DEF RecvAgain, RecvBlocks
    <3> QED BY <2>0, <3>1, <3>2, <3>3
  <2>8. CASE ReleaseClient(w)
    BY <2>8 DEF ReleaseClient
  <2>9. CASE RecvEof(w) \/ ErrClose(w)
    <3>1. CloseFd(wfd[w]) /\ wfd[w] \in Fds
      BY <2>9 DEF RecvEof, ErrClose, Receiving
    <3>2. wpc' \in [Workers -> WorkerPc] /\ wfd' = wfd /\ wto' = wto
      BY <2>9 DEF RecvEof, ErrClose
    <3>3. \A v \in Workers : wpc'[v] # "idle" => wfd'[v] \in Fds
      BY <2>9, <3>1, <3>2 DEF RecvEof, ErrClose
    <3>4. UNCHANGED <<envVars, lockVars, mainVars, queue>>
      BY <2>9 DEF RecvEof, ErrClose
    <3> QED BY <3>1, <3>2, <3>3, <3>4, CloseFdType
  <2>10. CASE remove_client_lock(w)
    <3>1. alias' \in [Workers -> Fds \cup {None}]
      BY <2>10 DEF remove_client_lock
    <3>2. /\ wpc' \in [Workers -> WorkerPc]
          /\ \A v \in Workers : wpc'[v] # "idle" => wfd'[v] \in Fds
      BY <2>10 DEF remove_client_lock
    <3>3. writer' \in [Fds -> Workers \cup {None}]
      BY <2>10 DEF remove_client_lock
    <3>4. client_mutex_map' \subseteq Fds /\ phantom' \subseteq Fds
      BY <2>10 DEF remove_client_lock
    <3> QED BY <2>10, <3>1, <3>2, <3>3, <3>4 DEF remove_client_lock
  <2>11. CASE ReleaseOrphan(w)
    BY <2>11 DEF ReleaseOrphan
  <2>12. ASSUME NEW to \in SUBSET Fds, SendLists(w, to) PROVE TypeOK'
    <3>1. wpc[w] # "idle" /\ wpc' = [wpc EXCEPT ![w] = "sending"]
      BY <2>12 DEF SendLists
    <3>2. wto' \in [Workers -> SUBSET Fds]
      BY <2>12 DEF SendLists
    <3> QED BY <2>0, <2>12, <3>1, <3>2 DEF SendLists
  <2>13. ASSUME NEW fd \in Fds, ListSent(w, fd) PROVE TypeOK'
    <3>1. \E p \in WorkerPc : wpc' = [wpc EXCEPT ![w] = p]
      BY <2>13 DEF ListSent
    <3>2. wpc[w] # "idle"
      BY <2>13 DEF ListSent
    <3>3. wto' \in [Workers -> SUBSET Fds]
      BY <2>13 DEF ListSent
    <3> QED BY <2>0, <2>13, <3>1, <3>2, <3>3 DEF ListSent
  <2> QED BY <1>14, <2>1, <2>2, <2>3, <2>4, <2>5, <2>6, <2>7, <2>8, <2>9, <2>10, <2>11,
             <2>12, <2>13 DEF WorkerNext
<1>15. CASE UNCHANGED vars
  BY <1>15 DEF vars
<1>16. ASSUME NEW fd \in Fds, ClientStalls(fd) \/ ClientResumes(fd) PROVE TypeOK'
  BY <1>16 DEF ClientStalls, ClientResumes
<1>17. CASE ClientNext
  BY <1>1, <1>2, <1>3, <1>16, <1>17 DEF ClientNext
<1>18. CASE MainNext
  BY <1>4, <1>5, <1>6, <1>7, <1>8, <1>9, <1>10, <1>11, <1>12, <1>13, <1>18 DEF MainNext
<1> QED BY <1>14, <1>15, <1>17, <1>18 DEF Next

\* The declared types, for every set of descriptors, pool and bound.
THEOREM TypeCorrect == Spec => []TypeOK
  BY InitType, TypeStep, PTL DEF Spec

-----------------------------------------------------------------------------
(* map_mutex and the entries *)

\* The actions that touch neither a lock nor a program counter of LockInv.
LEMMA LockFrame ==
  ASSUME LockInv, UNCHANGED <<map_mutex, client_mutex_map, writer, wpc, wfd>>,
         mpc' = "rdwait" <=> mpc = "rdwait", mpc = "rdwait" => mfd' = mfd
  PROVE  LockInv'
  BY DEF LockInv, MapMutexInv, HoldsEntry, LockNodeAlive, Serving

\* A worker that goes from one place to another without touching a lock.
LEMMA WorkerFrame ==
  ASSUME NEW w \in Workers, NEW pc, TypeOK, LockInv,
         UNCHANGED <<map_mutex, client_mutex_map, writer, mpc, mfd, wfd>>,
         wpc' = [wpc EXCEPT ![w] = pc], wpc[w] # "wrwait", pc # "wrwait",
         Serving(w)' => Serving(w)
  PROVE  LockInv'
<1>1. MapMutexInv' /\ LockNodeAlive'
  BY DEF LockInv, MapMutexInv, LockNodeAlive, TypeOK
<1>2. HoldsEntry'
  BY DEF LockInv, HoldsEntry, TypeOK, Serving
<1> QED BY <1>1, <1>2 DEF LockInv

\* Every step keeps LockInv: a thread waits for an entry exactly while it holds map_mutex,
\* and a worker that serves a descriptor owns its entry.
LEMMA LockStep == TypeOK /\ LockInv /\ [Next]_vars => LockInv'
<1> SUFFICES ASSUME TypeOK, LockInv, [Next]_vars PROVE LockInv'
  OBVIOUS
<1> USE DispatchAssumption DEF kernelVars, envVars, lockVars, mainVars, workerVars
<1>1. CASE ClientNext
  BY <1>1, LockFrame DEF ClientNext, ClientConnect, ClientSend, ClientClose, ClientStalls,
                         ClientResumes
<1>2. CASE setup_server \/ EpollWaitFails \/ EpollWait \/ EndOfBatch \/ AcceptFails
  BY <1>2, LockFrame DEF setup_server, EpollWaitFails, EpollWait, EndOfBatch, AcceptFails
<1>3. CASE RegisterClient \/ RegisterFails
  BY <1>3, LockFrame DEF RegisterClient, RegisterFails
<1>4. ASSUME NEW fd \in Fds, Accept(fd) \/ SkipEvent(fd) PROVE LockInv'
  BY <1>4, LockFrame DEF Accept, SkipEvent
<1>5. CASE push_task
  BY <1>5, LockFrame DEF push_task
<1>6. CASE add_client_lock
  BY <1>6 DEF add_client_lock, LockInv, MapMutexInv, HoldsEntry, LockNodeAlive, Serving
<1>7. ASSUME NEW fd \in Fds, LockMapForEvent(fd) PROVE LockInv'
  BY <1>7 DEF LockMapForEvent, LockInv, MapMutexInv, HoldsEntry, LockNodeAlive, Serving
<1>8. CASE get_client_read_lock
  BY <1>8 DEF get_client_read_lock, LockInv, MapMutexInv, HoldsEntry, LockNodeAlive, Serving
<1>9. ASSUME NEW w \in Workers, WorkerNext(w) PROVE LockInv'
  <2>1. CASE TakeTask(w)
    <3>1. MapMutexInv' /\ LockNodeAlive'
      BY <2>1 DEF TakeTask, LockInv, MapMutexInv, LockNodeAlive, TypeOK
    <3>2. HoldsEntry'
      BY <2>1 DEF TakeTask, LockInv, HoldsEntry, Serving, TypeOK
    <3> QED BY <3>1, <3>2 DEF LockInv
  <2>2. CASE SkipTask(w)
    <3>1. MapMutexInv' /\ LockNodeAlive'
      BY <2>2 DEF SkipTask, LockInv, MapMutexInv, LockNodeAlive, TypeOK
    <3>2. HoldsEntry'
      BY <2>2 DEF SkipTask, LockInv, HoldsEntry, Serving, TypeOK
    <3> QED BY <3>1, <3>2 DEF LockInv
  <2>3. CASE LockMapForTask(w)
    <3>1. MapMutexInv' /\ LockNodeAlive'
      BY <2>3 DEF LockMapForTask, LockInv, MapMutexInv, LockNodeAlive, TypeOK
    <3>2. HoldsEntry'
      BY <2>3 DEF LockMapForTask, LockInv, HoldsEntry, Serving, TypeOK
    <3> QED BY <3>1, <3>2 DEF LockInv
  <2>4. CASE get_client_write_lock(w)
    <3>1. MapMutexInv' /\ LockNodeAlive'
      BY <2>4 DEF get_client_write_lock, LockInv, MapMutexInv, LockNodeAlive, TypeOK
    <3>2. ASSUME NEW v \in Workers, Serving(v)'
          PROVE  writer'[wfd'[v]] = v /\ wfd'[v] \in client_mutex_map'
      <4>1. CASE v = w
        BY <2>4, <4>1 DEF get_client_write_lock, LockInv, LockNodeAlive, TypeOK
      <4>2. CASE v # w
        BY <2>4, <3>2, <4>2 DEF get_client_write_lock, LockInv, HoldsEntry, Serving, TypeOK
      <4> QED BY <4>1, <4>2
    <3> QED BY <3>1, <3>2 DEF LockInv, HoldsEntry
  <2>5. CASE RecvHeader(w)
    BY <2>5, WorkerFrame DEF RecvHeader, Receiving, Serving, TypeOK
  <2>6. CASE HandleMessage(w)
    BY <2>6, WorkerFrame DEF HandleMessage, Serving, TypeOK
  <2>7. CASE RecvAgain(w) \/ RecvBlocks(w)
    BY <2>7, WorkerFrame DEF RecvAgain, RecvBlocks, Serving, TypeOK
  <2>8. CASE RecvEof(w)
    BY <2>8, WorkerFrame DEF RecvEof, Receiving, Serving, TypeOK
  <2>9. CASE CleanUp(w) \/ ErrClose(w)
    BY <2>9, WorkerFrame DEF CleanUp, ErrClose, Serving, TypeOK
  <2>10. CASE RecvError(w)
    BY <2>10, WorkerFrame DEF RecvError, Receiving, Serving, TypeOK
  <2>11. CASE ReleaseClient(w)
    <3>1. MapMutexInv' /\ LockNodeAlive'
      BY <2>11 DEF ReleaseClient, LockInv, MapMutexInv, LockNodeAlive, TypeOK
    <3>2. HoldsEntry'
      BY <2>11 DEF ReleaseClient, LockInv, HoldsEntry, Serving, TypeOK
    <3> QED BY <3>1, <3>2 DEF LockInv
  <2>12. CASE remove_client_lock(w)
    <3>1. MapMutexInv' /\ LockNodeAlive'
      BY <2>12 DEF remove_client_lock, LockInv, MapMutexInv, LockNodeAlive, TypeOK
    <3>2. HoldsEntry'
      BY <2>12 DEF remove_client_lock, LockInv, HoldsEntry, Serving, TypeOK
    <3> QED BY <3>1, <3>2 DEF LockInv
  <2>13. CASE ReleaseOrphan(w)
    <3>1. MapMutexInv' /\ LockNodeAlive'
      BY <2>13 DEF ReleaseOrphan, LockInv, MapMutexInv, LockNodeAlive, TypeOK
    <3>2. HoldsEntry'
      BY <2>13 DEF ReleaseOrphan, LockInv, HoldsEntry, Serving, TypeOK
    <3> QED BY <3>1, <3>2 DEF LockInv
  <2>14. ASSUME NEW to \in SUBSET Fds, SendLists(w, to) PROVE LockInv'
    BY <2>14, WorkerFrame DEF SendLists, Serving, TypeOK
  <2>15. ASSUME NEW fd \in Fds, ListSent(w, fd) PROVE LockInv'
    <3>1. PICK pc \in {"recv", "sending"} : wpc' = [wpc EXCEPT ![w] = pc]
      BY <2>15 DEF ListSent
    <3> QED BY <2>15, <3>1, WorkerFrame DEF ListSent, Serving, TypeOK
  <2> QED BY <1>9, <2>1, <2>2, <2>3, <2>4, <2>5, <2>6, <2>7, <2>8, <2>9, <2>10,
             <2>11, <2>12, <2>13, <2>14, <2>15 DEF WorkerNext
<1>10. CASE UNCHANGED vars
  BY <1>10, LockFrame DEF vars
<1> QED BY <1>1, <1>2, <1>3, <1>4, <1>5, <1>6, <1>7, <1>8, <1>9, <1>10
        DEF Next, MainNext

-----------------------------------------------------------------------------
(* The epoll set *)

\* Every step keeps EpollInv: what is watched is open, and the descriptor that main_loop is
\* about to add is not watched yet.
LEMMA EpollStep == TypeOK /\ EpollInv /\ [Next]_vars => EpollInv'
<1> SUFFICES ASSUME TypeOK, EpollInv, [Next]_vars PROVE EpollInv'
  OBVIOUS
<1> USE DispatchAssumption DEF EpollInv, kernelVars, envVars, lockVars, mainVars, workerVars
<1>1. CASE ClientNext
  BY <1>1 DEF ClientNext, ClientConnect, ClientSend, ClientClose, ClientStalls, ClientResumes
<1>2. CASE setup_server \/ EpollWaitFails \/ EpollWait \/ EndOfBatch \/ AcceptFails
  BY <1>2 DEF setup_server, EpollWaitFails, EpollWait, EndOfBatch, AcceptFails
<1>3. CASE add_client_lock \/ RegisterClient
  BY <1>3 DEF add_client_lock, RegisterClient
<1>4. CASE RegisterFails
  BY <1>4 DEF RegisterFails, CloseFd
<1>5. ASSUME NEW fd \in Fds, Accept(fd) \/ SkipEvent(fd) \/ LockMapForEvent(fd)
      PROVE  EpollInv'
  BY <1>5 DEF Accept, SkipEvent, LockMapForEvent
<1>6. CASE get_client_read_lock \/ push_task
  BY <1>6 DEF get_client_read_lock, push_task
<1>7. ASSUME NEW w \in Workers, WorkerNext(w) PROVE EpollInv'
  <2>1. CASE RecvEof(w) \/ ErrClose(w)
    BY <2>1 DEF RecvEof, ErrClose, CloseFd
  <2>2. CASE \/ TakeTask(w) \/ SkipTask(w) \/ LockMapForTask(w)
             \/ get_client_write_lock(w) \/ RecvHeader(w) \/ HandleMessage(w)
             \/ RecvAgain(w) \/ RecvBlocks(w) \/ ReleaseClient(w) \/ CleanUp(w)
             \/ RecvError(w) \/ remove_client_lock(w) \/ ReleaseOrphan(w)
    BY <2>2 DEF TakeTask, SkipTask, LockMapForTask, get_client_write_lock, RecvHeader,
                HandleMessage, RecvAgain, RecvBlocks, ReleaseClient, CleanUp, RecvError,
                remove_client_lock, ReleaseOrphan
  <2>3. ASSUME NEW x, SendLists(w, x) \/ ListSent(w, x) PROVE EpollInv'
    BY <2>3 DEF SendLists, ListSent
  <2> QED BY <1>7, <2>1, <2>2, <2>3 DEF WorkerNext
<1>8. CASE UNCHANGED vars
  BY <1>8 DEF vars
<1> QED BY <1>1, <1>2, <1>3, <1>4, <1>5, <1>6, <1>7, <1>8 DEF Next, MainNext

-----------------------------------------------------------------------------
(* No input is forgotten *)

\* What can attend to fd at a place other than the one an action changes.
InQueue(fd) == \E i \in DOMAIN queue : queue[i] = fd
AtMain(fd) == mfd = fd /\ mpc \in {"rdwait", "push"}
AtWorker(w, fd) == /\ wfd[w] = fd
                   /\ wpc[w] \in {"wantmap", "wrwait", "recv", "blocked",
                                  "handle", "sending", "errclose"}

\* The four places where a descriptor with input waits, apart from one another.
LEMMA AttendedParts ==
  ASSUME NEW fd
  PROVE  Attended(fd) <=> \/ fd \in ready \/ fd \in batch \/ AtMain(fd) \/ InQueue(fd)
                          \/ \E w \in Workers : AtWorker(w, fd)
  BY DEF Attended, AtMain, InQueue, AtWorker

\* push_task keeps what is queued and adds the descriptor.
LEMMA QueuePush ==
  ASSUME TypeOK, mfd \in Fds, queue' = Append(queue, mfd), NEW fd
  PROVE  /\ InQueue(fd) => InQueue(fd)'
         /\ \E i \in DOMAIN queue' : queue'[i] = mfd
<1>1. ASSUME NEW i \in DOMAIN queue, queue[i] = fd PROVE InQueue(fd)'
  <2>1. i \in DOMAIN queue' /\ queue'[i] = queue[i]
    BY <1>1 DEF TypeOK
  <2> QED BY <1>1, <2>1 DEF InQueue
<1>2. Len(queue) + 1 \in DOMAIN queue' /\ queue'[Len(queue) + 1] = mfd
  BY DEF TypeOK
<1>3. \E i \in DOMAIN queue' : queue'[i] = mfd
  BY <1>2
<1>4. InQueue(fd) => InQueue(fd)'
  BY <1>1 DEF InQueue
<1> QED BY <1>3, <1>4

\* TakeTask takes the head of the queue and leaves the rest in it.
LEMMA QueuePop ==
  ASSUME TypeOK, queue # <<>>, queue' = Tail(queue), NEW fd, InQueue(fd)
  PROVE  fd = Head(queue) \/ InQueue(fd)'
<1>1. PICK i \in DOMAIN queue : queue[i] = fd
  BY DEF InQueue
<1>2. CASE i = 1
  BY <1>1, <1>2 DEF TypeOK
<1>3. CASE i # 1
  <2>1. i \in 2..Len(queue)
    BY <1>1, <1>3 DEF TypeOK
  <2>2. Len(queue') = Len(queue) - 1 /\ queue' \in Seq(Fds)
    BY DEF TypeOK
  <2>3. i - 1 \in DOMAIN queue' /\ queue'[i - 1] = queue[i]
    BY <2>1, <2>2 DEF TypeOK
  <2> QED BY <1>1, <2>3 DEF InQueue
<1> QED BY <1>2, <1>3

\* Every step keeps NoLostWakeup; the worker that finds EAGAIN leaves a descriptor without
\* input, and any later input is a new edge.
LEMMA WakeupStep ==
  TypeOK /\ EpollInv /\ NoLostWakeup /\ [Next]_vars => NoLostWakeup'
<1> SUFFICES ASSUME TypeOK, EpollInv, NoLostWakeup, [Next]_vars,
                    NEW fd \in Fds, fd \in registered', fd \in client_mutex_map',
                    HasInput(fd)'
             PROVE  Attended(fd)'
  BY TypeStep DEF NoLostWakeup, TypeOK
<1>0. ASSUME fd \in registered, fd \in client_mutex_map, HasInput(fd)
      PROVE  \/ fd \in ready \/ fd \in batch \/ AtMain(fd) \/ InQueue(fd)
             \/ \E w \in Workers : AtWorker(w, fd)
  BY <1>0, AttendedParts DEF NoLostWakeup
<1> USE DispatchAssumption DEF kernelVars, envVars, lockVars, mainVars, workerVars
<1>a. ASSUME UNCHANGED <<registered, client_mutex_map, inbox, peer>>
      PROVE  \/ fd \in ready \/ fd \in batch \/ AtMain(fd) \/ InQueue(fd)
             \/ \E w \in Workers : AtWorker(w, fd)
  BY <1>a, <1>0 DEF HasInput
\* Each action: what attended to fd before it still does, or hands it on.
<1>1. CASE ClientConnect
  BY <1>1, <1>a DEF ClientConnect, Attended, AtMain, InQueue, AtWorker
<1>2. ASSUME NEW g \in Fds, ClientSend(g) PROVE Attended(fd)'
  <2>1. CASE g = fd
    BY <1>2, <2>1 DEF ClientSend, Edge, Attended
  <2>2. CASE g # fd
    <3>1. HasInput(fd) /\ fd \in registered /\ fd \in client_mutex_map
      BY <1>2, <2>2 DEF ClientSend, HasInput, TypeOK
    <3> QED BY <1>0, <1>2, <3>1 DEF ClientSend, Edge, Attended, AtMain, InQueue, AtWorker
  <2> QED BY <2>1, <2>2
<1>3. ASSUME NEW g \in Fds, NEW how \in {"eof", "reset"}, ClientClose(g, how)
      PROVE  Attended(fd)'
  <2>1. CASE g = fd
    BY <1>3, <2>1 DEF ClientClose, Edge, Attended
  <2>2. CASE g # fd
    <3>1. HasInput(fd) /\ fd \in registered /\ fd \in client_mutex_map
      BY <1>3, <2>2 DEF ClientClose, HasInput, TypeOK
    <3> QED BY <1>0, <1>3, <3>1 DEF ClientClose, Edge, Attended, AtMain, InQueue, AtWorker
  <2> QED BY <2>1, <2>2
<1>4. CASE setup_server \/ EpollWaitFails \/ EndOfBatch
  BY <1>4, <1>a DEF setup_server, EpollWaitFails, EndOfBatch, Attended, AtMain, InQueue, AtWorker
<1>5. CASE EpollWait
  <2>1. /\ fd \in ready => fd \in batch'
        /\ batch = {} => (fd \in batch => fd \in batch')
        /\ ~AtMain(fd) /\ UNCHANGED <<queue, wpc, wfd>>
    BY <1>5 DEF EpollWait, AtMain
  <2>2. batch = {}
    BY <1>5 DEF EpollWait, EpollInv
  <2>3. \/ fd \in ready \/ fd \in batch \/ AtMain(fd) \/ InQueue(fd)
        \/ \E w \in Workers : AtWorker(w, fd)
    BY <1>5, <1>a DEF EpollWait
  <2> QED BY <2>1, <2>2, <2>3 DEF Attended, InQueue, AtWorker
<1>6. CASE AcceptFails
  BY <1>6, <1>a DEF AcceptFails, Attended, AtMain, InQueue, AtWorker
<1>7. ASSUME NEW g \in Fds, Accept(g) PROVE Attended(fd)'
  BY <1>7, <1>a DEF Accept, Attended, AtMain, InQueue, AtWorker
<1>8. CASE add_client_lock
  <2>1. fd \in client_mutex_map /\ fd \in registered /\ HasInput(fd)
    BY <1>8 DEF add_client_lock, EpollInv, HasInput
  <2> QED BY <1>8, <1>0, <2>1 DEF add_client_lock, Attended, AtMain, InQueue, AtWorker
<1>9. CASE RegisterClient
  <2>1. CASE fd = mfd
    BY <1>9, <2>1 DEF RegisterClient, HasInput, Attended
  <2>2. CASE fd # mfd
    <3>1. fd \in client_mutex_map /\ fd \in registered /\ HasInput(fd)
      BY <1>9, <2>2 DEF RegisterClient, HasInput
    <3> QED BY <1>9, <1>0, <3>1 DEF RegisterClient, Attended, AtMain, InQueue, AtWorker
  <2> QED BY <2>1, <2>2
<1>10. CASE RegisterFails
  <2>1. fd # mfd
    BY <1>10 DEF RegisterFails, CloseFd
  <2>2. fd \in client_mutex_map /\ fd \in registered /\ HasInput(fd)
    BY <1>10, <2>1 DEF RegisterFails, CloseFd, HasInput, TypeOK
  <2> QED BY <1>10, <1>0, <2>1, <2>2
          DEF RegisterFails, CloseFd, Attended, AtMain, InQueue, AtWorker
<1>11. ASSUME NEW g \in Fds, SkipEvent(g) \/ LockMapForEvent(g) PROVE Attended(fd)'
  <2>1. CASE SkipEvent(g)
    <3>1. g # fd
      BY <2>1 DEF SkipEvent
    <3> QED BY <2>1, <1>a, <3>1 DEF SkipEvent, Attended, AtMain, InQueue, AtWorker
  <2>2. CASE LockMapForEvent(g)
    BY <2>2, <1>a DEF LockMapForEvent, Attended, AtMain, InQueue, AtWorker
  <2> QED BY <1>11, <2>1, <2>2
<1>12. CASE get_client_read_lock
  BY <1>12, <1>a DEF get_client_read_lock, Attended, AtMain, InQueue, AtWorker
<1>13. CASE push_task
  <2>1. UNCHANGED <<ready, batch, wpc, wfd>> /\ mfd \in Fds /\ queue' = Append(queue, mfd)
    BY <1>13 DEF push_task, TypeOK
  <2>2. InQueue(fd) \/ AtMain(fd) => InQueue(fd)'
    BY <2>1, QueuePush DEF InQueue, AtMain
  <2>3. fd \in ready \/ fd \in batch \/ AtMain(fd) \/ InQueue(fd)
        \/ \E w \in Workers : AtWorker(w, fd)
    BY <1>13, <1>a DEF push_task
  <2> QED BY <2>1, <2>2, <2>3 DEF Attended, InQueue, AtWorker
<1>14. ASSUME NEW w \in Workers, WorkerNext(w) PROVE Attended(fd)'
  <2>1. CASE TakeTask(w)
    <3>1. UNCHANGED <<ready, batch, mpc, mfd>> /\ queue # <<>> /\ queue' = Tail(queue)
      BY <2>1 DEF TakeTask
    <3>2. wfd'[w] = Head(queue) /\ wpc'[w] = "wantmap"
      BY <2>1 DEF TakeTask, TypeOK
    <3>3. InQueue(fd) => Attended(fd)'
      BY <3>1, <3>2, QueuePop DEF Attended, InQueue
    <3>4. \A v \in Workers : AtWorker(v, fd) => AtWorker(v, fd)'
      BY <2>1 DEF TakeTask, AtWorker, TypeOK
    <3>5. fd \in ready \/ fd \in batch \/ AtMain(fd) \/ InQueue(fd)
          \/ \E v \in Workers : AtWorker(v, fd)
      BY <2>1, <1>a DEF TakeTask
    <3> QED BY <3>1, <3>3, <3>4, <3>5 DEF Attended, AtMain, AtWorker
  <2>2. CASE SkipTask(w)
    <3>1. \A v \in Workers : AtWorker(v, fd) => AtWorker(v, fd)'
      BY <2>2 DEF SkipTask, AtWorker, TypeOK
    <3> QED BY <2>2, <1>a, <3>1 DEF SkipTask, Attended, AtMain, InQueue, AtWorker
  <2>3. CASE LockMapForTask(w) \/ get_client_write_lock(w) \/ HandleMessage(w) \/ RecvBlocks(w)
    <3>1. \A v \in Workers : AtWorker(v, fd) => AtWorker(v, fd)'
      BY <2>3 DEF LockMapForTask, get_client_write_lock, HandleMessage, RecvBlocks, AtWorker, TypeOK
    <3> QED BY <2>3, <1>a, <3>1
            DEF LockMapForTask, get_client_write_lock, HandleMessage, RecvBlocks,
                Attended, AtMain, InQueue, AtWorker
  <2>4. CASE RecvHeader(w)
    <3>1. \A v \in Workers : AtWorker(v, fd) => AtWorker(v, fd)'
      BY <2>4 DEF RecvHeader, Receiving, AtWorker, TypeOK
    <3>2. HasInput(fd) /\ fd \in registered /\ fd \in client_mutex_map
      BY <2>4 DEF RecvHeader, HasInput, TypeOK
    <3> QED BY <2>4, <1>0, <3>1, <3>2 DEF RecvHeader, Attended, AtMain, InQueue, AtWorker
  <2>5. CASE RecvAgain(w)
    <3>1. wfd[w] # fd
      BY <2>5 DEF RecvAgain, NothingYet, HasInput, TypeOK
    <3>2. \A v \in Workers : AtWorker(v, fd) => AtWorker(v, fd)'
      BY <2>5, <3>1 DEF RecvAgain, AtWorker, TypeOK
    <3> QED BY <2>5, <1>a, <3>2 DEF RecvAgain, Attended, AtMain, InQueue, AtWorker
  <2>6. CASE ReleaseClient(w) \/ CleanUp(w) \/ ReleaseOrphan(w)
    <3>1. \A v \in Workers : AtWorker(v, fd) => AtWorker(v, fd)'
      BY <2>6 DEF ReleaseClient, CleanUp, ReleaseOrphan, AtWorker, TypeOK
    <3> QED BY <2>6, <1>a, <3>1
            DEF ReleaseClient, CleanUp, ReleaseOrphan, Attended, AtMain, InQueue, AtWorker
  <2>7. CASE RecvEof(w) \/ ErrClose(w)
    <3>1. wfd[w] # fd
      BY <2>7 DEF RecvEof, ErrClose, CloseFd
    <3>2. \A v \in Workers : AtWorker(v, fd) => AtWorker(v, fd)'
      BY <2>7, <3>1 DEF RecvEof, ErrClose, AtWorker, TypeOK
    <3>3. HasInput(fd) /\ fd \in registered /\ fd \in client_mutex_map
      BY <2>7, <3>1 DEF RecvEof, ErrClose, CloseFd, HasInput, TypeOK
    <3> QED BY <2>7, <1>0, <3>1, <3>2, <3>3
            DEF RecvEof, ErrClose, CloseFd, Attended, AtMain, InQueue, AtWorker
  <2>8. CASE RecvError(w)
    <3>1. \A v \in Workers : AtWorker(v, fd) => AtWorker(v, fd)'
      BY <2>8 DEF RecvError, Receiving, AtWorker, TypeOK
    <3> QED BY <2>8, <1>a, <3>1 DEF RecvError, Attended, AtMain, InQueue, AtWorker
  <2>9. CASE remove_client_lock(w)
    <3>1. \A v \in Workers : AtWorker(v, fd) => AtWorker(v, fd)'
      BY <2>9 DEF remove_client_lock, AtWorker, TypeOK
    <3>2. HasInput(fd) /\ fd \in registered /\ fd \in client_mutex_map
      BY <2>9 DEF remove_client_lock, HasInput
    <3> QED BY <2>9, <1>0, <3>1, <3>2
            DEF remove_client_lock, Attended, AtMain, InQueue, AtWorker
  <2>10. ASSUME NEW g \in Fds, NEW to, SendLists(w, to) \/ ListSent(w, g)
         PROVE  Attended(fd)'
    <3>1. \A v \in Workers : AtWorker(v, fd) => AtWorker(v, fd)'
      BY <2>10 DEF SendLists, ListSent, AtWorker, TypeOK
    <3> QED BY <2>10, <1>a, <3>1 DEF SendLists, ListSent, Attended, AtMain, InQueue, AtWorker
  <2> QED BY <1>14, <2>1, <2>2, <2>3, <2>4, <2>5, <2>6, <2>7, <2>8, <2>9, <2>10 DEF WorkerNext
<1>15. CASE UNCHANGED vars
  BY <1>15, <1>a DEF vars, Attended, AtMain, InQueue, AtWorker
<1>16. ASSUME NEW g \in Fds, ClientStalls(g) \/ ClientResumes(g) PROVE Attended(fd)'
  BY <1>16, <1>a DEF ClientStalls, ClientResumes, Attended, AtMain, InQueue, AtWorker
<1> QED BY <1>1, <1>2, <1>3, <1>4, <1>5, <1>6, <1>7, <1>8, <1>9, <1>10, <1>11, <1>12,
           <1>13, <1>14, <1>15, <1>16 DEF Next, ClientNext, MainNext

-----------------------------------------------------------------------------
(* The theorems *)

\* The inductive invariant of event loop, pool and locks holds in every reachable state.
THEOREM Invariant == Spec => []IInv
<1>1. IInv /\ [Next]_vars => IInv'
  BY TypeStep, LockStep, EpollStep, WakeupStep DEF IInv
<1> QED BY InitIInv, <1>1, PTL DEF Spec

\* The lock of business.cpp:62 does keep a client to one thread, for any pool,
\* although the entry is erased while it is held and numbers are reused.
THEOREM OneWorker == Spec => []OneWorkerPerClient
<1>1. IInv => OneWorkerPerClient
  BY DEF IInv, LockInv, HoldsEntry, OneWorkerPerClient
<1> QED BY Invariant, <1>1, PTL

\* No thread blocks on an entry that is erased under it.
THEOREM NodeAlive == Spec => []LockNodeAlive
<1>1. IInv => LockNodeAlive
  BY DEF IInv, LockInv
<1> QED BY Invariant, <1>1, PTL

\* An edge-triggered event is never lost while the descriptor has its lock.
THEOREM WakeupKept == Spec => []NoLostWakeup
<1>1. IInv => NoLostWakeup
  BY DEF IInv
<1> QED BY Invariant, <1>1, PTL

-----------------------------------------------------------------------------
(* Dispatch implements SerialService *)

Busy == [fd \in Fds |-> {w \in Workers : wfd[w] = fd /\ Handling(w)}]

\* Every step takes, finishes or discards what SerialService says, or nothing.
LEMMA ServiceStep == IInv /\ [Next]_vars => [Service!ServiceNext]_<<inbox, Busy>>
<1> SUFFICES ASSUME IInv, [Next]_vars
             PROVE  Service!ServiceNext \/ (inbox' = inbox /\ Busy' = Busy)
  OBVIOUS
<1> USE DEF kernelVars, envVars, lockVars, mainVars, workerVars
<1>t. TypeOK /\ OneWorkerPerClient
  BY DEF IInv, LockInv, HoldsEntry, OneWorkerPerClient
<1>1. ASSUME inbox' = inbox, UNCHANGED <<wpc, wfd>> PROVE inbox' = inbox /\ Busy' = Busy
  BY <1>1 DEF Busy, Handling
<1>2. CASE ClientConnect
  BY <1>1, <1>2 DEF ClientConnect
<1>3. ASSUME NEW g \in Fds, ClientSend(g) PROVE Service!Arrive(g)
  BY <1>3 DEF ClientSend, Service!Arrive, Busy, Handling
<1>4. ASSUME NEW g \in Fds, NEW how \in {"eof", "reset"}, ClientClose(g, how)
      PROVE  inbox' = inbox /\ Busy' = Busy
  BY <1>1, <1>4 DEF ClientClose
<1>5. CASE MainNext /\ ~RegisterFails
  BY <1>1, <1>5 DEF MainNext, setup_server, EpollWaitFails, EpollWait, EndOfBatch, AcceptFails,
     Accept, add_client_lock, RegisterClient, SkipEvent, LockMapForEvent,
     get_client_read_lock, push_task
<1>6. CASE RegisterFails
  <2>1. PICK g \in Fds : g = mfd
    BY <1>6, <1>t DEF RegisterFails, TypeOK
  <2>2. Service!Discard(g)
    BY <1>6, <2>1 DEF RegisterFails, CloseFd, Service!Discard, Handling
  <2> QED BY <2>2 DEF Service!ServiceNext
<1>7. ASSUME NEW w \in Workers, WorkerNext(w)
      PROVE  Service!ServiceNext \/ (inbox' = inbox /\ Busy' = Busy)
  <2>1. ASSUME ~Handling(w), ~Handling(w)',
               \A v \in Workers \ {w} : wpc'[v] = wpc[v] /\ wfd'[v] = wfd[v]
        PROVE  Busy' = Busy
    BY <2>1 DEF Busy, Handling
  <2>2. CASE RecvHeader(w)
    <3>1. PICK g \in Fds : g = wfd[w]
      BY <2>2, <1>t DEF RecvHeader, Receiving, TypeOK
    <3>2. inbox[g] > 0 /\ inbox' = [inbox EXCEPT ![g] = @ - 1]
      BY <2>2, <3>1 DEF RecvHeader
    <3>3. Busy[g] = {}
      BY <2>2, <3>1, <1>t DEF RecvHeader, Receiving, Busy, Handling, OneWorkerPerClient, Serving
    <3>4. Busy' = [Busy EXCEPT ![g] = {w}]
      <4>1. /\ wfd' = wfd /\ wpc'[w] = "handle"
            /\ \A v \in Workers \ {w} : wpc'[v] = wpc[v]
        BY <2>2, <1>t DEF RecvHeader, TypeOK
      <4>2. ~Handling(w)
        BY <2>2 DEF RecvHeader, Receiving, Handling
      <4>3. \A h \in Fds : Busy'[h] = IF h = g THEN {w} ELSE Busy[h]
        BY <3>1, <3>3, <4>1, <4>2 DEF Busy, Handling
      <4> QED BY <4>3 DEF Busy
    <3>5. Service!Start(g, w)
      BY <3>2, <3>3, <3>4 DEF Service!Start, Busy
    <3> QED BY <3>5 DEF Service!ServiceNext
  <2>3. ASSUME wfd' = wfd, inbox' = inbox, wpc' = [wpc EXCEPT ![w] = "recv"], Handling(w)
        PROVE  Service!ServiceNext
    <3>1. PICK g \in Fds : g = wfd[w]
      BY <2>3, <1>t DEF Handling, TypeOK
    <3>2. Busy[g] = {w}
      BY <2>3, <3>1, <1>t DEF Handling, Busy, OneWorkerPerClient, Serving
    <3>3. Busy' = [Busy EXCEPT ![g] = {}]
      <4>1. ~Handling(w)' /\ \A v \in Workers \ {w} : Handling(v)' = Handling(v)
        BY <2>3, <1>t DEF Handling, TypeOK
      <4>2. \A h \in Fds : Busy'[h] = IF h = g THEN {} ELSE Busy[h]
        <5>1. ASSUME NEW h \in Fds, NEW v \in Workers
              PROVE  v \in Busy'[h] <=> v \in Busy[h] /\ v # w
          BY <2>3, <4>1 DEF Busy
        <5>2. ASSUME NEW h \in Fds, h # g PROVE w \notin Busy[h]
          BY <3>1, <5>2 DEF Busy
        <5>3. \A h \in Fds : Busy[h] \subseteq Workers /\ Busy'[h] \subseteq Workers
          BY DEF Busy
        <5> QED BY <3>2, <5>1, <5>2, <5>3
      <4> QED BY <4>2 DEF Busy
    <3>4. Service!Finish(g, w)
      BY <2>3, <3>2, <3>3 DEF Service!Finish, Busy
    <3> QED BY <3>4 DEF Service!ServiceNext
  <2>4. CASE RecvEof(w) \/ ErrClose(w)
    <3>1. PICK g \in Fds : g = wfd[w]
      BY <2>4, <1>t DEF RecvEof, ErrClose, Receiving, TypeOK
    <3>2. inbox' = [inbox EXCEPT ![g] = 0]
      BY <2>4, <3>1 DEF RecvEof, ErrClose, CloseFd
    <3>3. Busy' = Busy
      BY <2>1, <2>4, <1>t DEF RecvEof, ErrClose, Receiving, Handling, TypeOK
    <3>4. Service!Discard(g)
      BY <3>2, <3>3 DEF Service!Discard, Busy
    <3> QED BY <3>4 DEF Service!ServiceNext
  <2>5. CASE TakeTask(w) \/ SkipTask(w) \/ LockMapForTask(w) \/ get_client_write_lock(w)
    BY <2>1, <2>5, <1>t DEF TakeTask, SkipTask, LockMapForTask, get_client_write_lock, Handling, TypeOK
  <2>6. CASE RecvAgain(w) \/ RecvBlocks(w) \/ ReleaseClient(w) \/ CleanUp(w)
    BY <2>1, <2>6, <1>t DEF RecvAgain, RecvBlocks, ReleaseClient, CleanUp, Handling, TypeOK
  <2>7. CASE RecvError(w) \/ remove_client_lock(w) \/ ReleaseOrphan(w)
    BY <2>1, <2>7, <1>t DEF RecvError, Receiving, remove_client_lock, ReleaseOrphan, Handling,
                             TypeOK
  <2>8. CASE HandleMessage(w)
    BY <2>3, <2>8 DEF HandleMessage, Handling
  <2>9. ASSUME NEW to, SendLists(w, to) PROVE inbox' = inbox /\ Busy' = Busy
    <3>1. \A v \in Workers : Handling(v)' = Handling(v)
      BY <2>9, <1>t DEF SendLists, Handling, TypeOK
    <3> QED BY <2>9, <3>1 DEF SendLists, Busy
  <2>10. ASSUME NEW fd \in Fds, ListSent(w, fd)
         PROVE  Service!ServiceNext \/ (inbox' = inbox /\ Busy' = Busy)
    <3>1. CASE wto[w] = {fd}
      BY <2>3, <2>10, <3>1 DEF ListSent, Handling
    <3>2. CASE wto[w] # {fd}
      <4>1. \A v \in Workers : Handling(v)' = Handling(v)
        BY <2>10, <3>2, <1>t DEF ListSent, Handling, TypeOK
      <4> QED BY <2>10, <4>1 DEF ListSent, Busy
    <3> QED BY <3>1, <3>2
  <2> QED BY <1>7, <2>2, <2>4, <2>5, <2>6, <2>7, <2>8, <2>9, <2>10 DEF WorkerNext
<1>8. CASE UNCHANGED vars
  BY <1>1, <1>8 DEF vars
<1>9. ASSUME NEW g \in Fds, ClientStalls(g) \/ ClientResumes(g)
      PROVE  inbox' = inbox /\ Busy' = Busy
  BY <1>1, <1>9 DEF ClientStalls, ClientResumes
<1> QED BY <1>2, <1>3, <1>4, <1>5, <1>6, <1>7, <1>8, <1>9
        DEF Next, ClientNext, Service!ServiceNext

\* For every pool, every number of descriptors and every bound: one handler at a
\* time per client, one message each.
THEOREM Implements == Spec => ServesSerially
<1>1. Init => Service!ServiceInit
  BY DEF Init, Service!ServiceInit, Handling
<1>2. [Service!ServiceNext]_<<inbox, Busy>> => [Service!ServiceNext]_Service!serviceVars
  BY DEF Service!serviceVars, Busy, Handling
<1>3. IInv /\ [Next]_vars => [Service!ServiceNext]_Service!serviceVars
  BY ServiceStep, <1>2
<1> QED BY Invariant, <1>1, <1>3, PTL DEF Spec, ServesSerially, Service!ServiceSpec
=============================================================================
