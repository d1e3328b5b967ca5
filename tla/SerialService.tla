---------------------------- MODULE SerialService ----------------------------
(***************************************************************************)
(* What the event loop and the thread pool together promise each client    *)
(* descriptor, without locks, tasks or epoll: the messages that arrive     *)
(* on it are taken one at a time, and the next one is taken only when the  *)
(* handler of the previous one has returned.  Dispatch implements it.      *)
(***************************************************************************)
EXTENDS Naturals

CONSTANTS
  Fds,            \* client descriptors
  Workers         \* who may run a handler

VARIABLES
  pending,        \* pending[fd]: messages that arrived and were not taken yet
  busy            \* busy[fd]: the workers that run a handler for this descriptor

serviceVars == <<pending, busy>>

ServiceInit ==
  /\ pending = [fd \in Fds |-> 0]
  /\ busy = [fd \in Fds |-> {}]

Arrive(fd) ==
  /\ pending' = [pending EXCEPT ![fd] = @ + 1]
  /\ UNCHANGED busy

Start(fd, w) ==
  /\ pending[fd] > 0
  /\ busy[fd] = {}
  /\ pending' = [pending EXCEPT ![fd] = @ - 1]
  /\ busy' = [busy EXCEPT ![fd] = {w}]

Finish(fd, w) ==
  /\ busy[fd] = {w}
  /\ busy' = [busy EXCEPT ![fd] = {}]
  /\ UNCHANGED pending

\* The connection is closed: what was not taken is gone.
Discard(fd) ==
  /\ pending' = [pending EXCEPT ![fd] = 0]
  /\ UNCHANGED busy

ServiceNext ==
  \E fd \in Fds :
    \/ Arrive(fd) \/ Discard(fd)
    \/ \E w \in Workers : Start(fd, w) \/ Finish(fd, w)

ServiceSpec == ServiceInit /\ [][ServiceNext]_serviceVars
=============================================================================
