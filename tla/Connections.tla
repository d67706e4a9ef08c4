---------------------------- MODULE Connections ----------------------------
(* What the reactor promises for its clients: each connection has one holder *)
(* at a time, epoll, the event loop, the task queue or one worker, and goes   *)
(* round between them until its holder closes it.  Nobody holds a descriptor *)
(* that is closed, and no more than MaxUsers are open.                       *)
EXTENDS Integers, FiniteSets

CONSTANTS Fds, Workers, MaxUsers

VARIABLES conn,      \* the connection a descriptor stands for, 0 for none
          opened,    \* connections so far
          holders    \* who may touch users_[fd] next: never more than one

connVars == <<conn, opened, holders>>

Init ==
  /\ conn = [fd \in Fds |-> 0] /\ opened = 0
  /\ holders = [fd \in Fds |-> {}]

Open(fd) ==
  /\ conn[fd] = 0 /\ holders[fd] = {}
  /\ Cardinality({x \in Fds : conn[x] # 0}) < MaxUsers
  /\ opened' = opened + 1
  /\ conn' = [conn EXCEPT ![fd] = opened']
  /\ holders' = [holders EXCEPT ![fd] = {"epoll"}]

\* Events of several clients at once: epoll keeps none of them.
Report(S) ==
  /\ \A fd \in S : conn[fd] # 0 /\ holders[fd] = {"epoll"}
  /\ holders' = [fd \in Fds |-> IF fd \in S THEN {"loop"} ELSE holders[fd]]
  /\ UNCHANGED <<conn, opened>>

Pass(fd, from, to) ==
  /\ conn[fd] # 0 /\ holders[fd] = from
  /\ holders' = [holders EXCEPT ![fd] = to]
  /\ UNCHANGED <<conn, opened>>

Queue(fd) == Pass(fd, {"loop"}, {"queue"})

Take(fd, w) == Pass(fd, {"queue"}, {w})

Rearm(fd, w) == Pass(fd, {w}, {"epoll"})

\* OnWrite_ returns after a write that failed, or, level-triggered, one that is
\* not finished: only the timer takes the client from there.
GiveUp(fd, w) == Pass(fd, {w}, {})

\* The timer takes a client from epoll, or one that was given up.
Expire(fd) == Pass(fd, {"epoll"}, {"loop"}) \/ Pass(fd, {}, {"loop"})

Close(fd) ==
  /\ conn[fd] # 0 /\ \E p \in {"loop"} \union Workers : holders[fd] = {p}
  /\ conn' = [conn EXCEPT ![fd] = 0]
  /\ holders' = [holders EXCEPT ![fd] = {}]
  /\ UNCHANGED opened

Next ==
  \/ \E S \in SUBSET Fds : Report(S)
  \/ \E fd \in Fds :
       \/ Open(fd) \/ Queue(fd) \/ Expire(fd) \/ Close(fd)
       \/ \E w \in Workers : Take(fd, w) \/ Rearm(fd, w) \/ GiveUp(fd, w)

Spec == Init /\ [][Next]_connVars
=============================================================================
