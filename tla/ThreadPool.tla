----------------------------- MODULE ThreadPool -----------------------------
(***************************************************************************)
(* pool/threadpool.h: detached workers that share a queue, a mutex and a   *)
(* condition variable with the threads that add tasks.  One step is one    *)
(* critical section or one notification; the mutex is free between steps.  *)
(***************************************************************************)
EXTENDS Integers, Sequences, FiniteSets

CONSTANTS
  Workers,     \* the pool's threads
  Producers,   \* threads that call AddTask
  Tasks,       \* every task, added at most once
  None

ASSUME PoolAssumption ==
  /\ IsFiniteSet(Workers) /\ IsFiniteSet(Producers) /\ Workers # {}
  /\ None \notin Tasks

VARIABLES
  tasks, isClosed,  \* pool_->tasks, pool_->isClosed
  worker,           \* "lock": wants the mutex, "wait": in cond.wait, "run", "exit"
  notify,           \* producers between the push and notify_one
  closing,          \* ~ThreadPool is between the flag and notify_all
  running,          \* the task of each worker
  added, started    \* history: every task added, and how many were started

vars == <<tasks, isClosed, worker, notify, closing, running, added, started>>

Waiting == {w \in Workers : worker[w] = "wait"}
Locking == {w \in Workers : worker[w] = "lock"}

Init ==
  /\ tasks = << >> /\ isClosed = FALSE
  /\ worker = [w \in Workers |-> "lock"]
  /\ notify = {} /\ closing = FALSE
  /\ running = [w \in Workers |-> None]
  /\ added = << >> /\ started = 0

\* The owner of the pool does not add tasks to it after it began to destroy it.
Push(p, t) ==
  /\ ~isClosed /\ p \notin notify
  /\ \A k \in 1..Len(added) : added[k] # t
  /\ tasks' = Append(tasks, t) /\ added' = Append(added, t)
  /\ notify' = notify \union {p}
  /\ UNCHANGED <<isClosed, worker, closing, running, started>>

\* Mutant: nobody is notified.
WakeNobody == UNCHANGED worker

WakeOne ==
  IF Waiting = {} THEN UNCHANGED worker
  ELSE \E w \in Waiting : worker' = [worker EXCEPT ![w] = "lock"]

NotifyOne(p) ==
  /\ p \in notify /\ notify' = notify \ {p}
  /\ WakeOne
  /\ UNCHANGED <<tasks, isClosed, closing, running, added, started>>

AddTask(p) == (\E t \in Tasks : Push(p, t)) \/ NotifyOne(p)

SetClosed ==
  /\ ~isClosed /\ notify = {}
  /\ isClosed' = TRUE /\ closing' = TRUE
  /\ UNCHANGED <<tasks, worker, notify, running, added, started>>

\* Mutant: notify_one in the destructor.
WakeOneOnly == WakeOne

WakeAll == worker' = [w \in Workers |-> IF worker[w] = "wait" THEN "lock" ELSE worker[w]]

NotifyAll ==
  /\ closing /\ closing' = FALSE
  /\ WakeAll
  /\ UNCHANGED <<tasks, isClosed, notify, running, added, started>>

Destroy == SetClosed \/ NotifyAll

\* Mutant: the task is not popped.
TakeTaskKeeps(w) ==
  /\ worker[w] = "lock" /\ tasks # << >>
  /\ started' = started + 1
  /\ worker' = [worker EXCEPT ![w] = "run"]
  /\ running' = [running EXCEPT ![w] = Head(tasks)]
  /\ UNCHANGED <<tasks, isClosed, notify, closing, added>>

TakeTask(w) ==
  /\ worker[w] = "lock" /\ tasks # << >>
  /\ tasks' = Tail(tasks) /\ started' = started + 1
  /\ worker' = [worker EXCEPT ![w] = "run"]
  /\ running' = [running EXCEPT ![w] = Head(tasks)]
  /\ UNCHANGED <<isClosed, notify, closing, added>>

\* Mutant: a closed pool stops with tasks in its queue.
FinishedClosed == isClosed
Finished == tasks = << >> /\ isClosed
Break(w) ==
  /\ worker[w] = "lock" /\ Finished
  /\ worker' = [worker EXCEPT ![w] = "exit"]
  /\ UNCHANGED <<tasks, isClosed, notify, closing, running, added, started>>

CondWait(w) ==
  /\ worker[w] = "lock" /\ tasks = << >> /\ ~isClosed
  /\ worker' = [worker EXCEPT ![w] = "wait"]
  /\ UNCHANGED <<tasks, isClosed, notify, closing, running, added, started>>

TaskReturns(w) ==
  /\ worker[w] = "run"
  /\ worker' = [worker EXCEPT ![w] = "lock"]
  /\ running' = [running EXCEPT ![w] = None]
  /\ UNCHANGED <<tasks, isClosed, notify, closing, added, started>>

SpuriousWakeup(w) ==
  /\ worker[w] = "wait"
  /\ worker' = [worker EXCEPT ![w] = "lock"]
  /\ UNCHANGED <<tasks, isClosed, notify, closing, running, added, started>>

WorkerStep(w) == TakeTask(w) \/ Break(w) \/ CondWait(w) \/ TaskReturns(w)

Next ==
  \/ \E p \in Producers : AddTask(p)
  \/ Destroy
  \/ \E w \in Workers : WorkerStep(w) \/ SpuriousWakeup(w)

Spec == Init /\ [][Next]_vars

\* Threads are scheduled, a call that has begun is completed, tasks return.
FairSpec ==
  /\ Spec
  /\ \A w \in Workers : WF_vars(WorkerStep(w))
  /\ \A p \in Producers : WF_vars(NotifyOne(p))
  /\ WF_vars(NotifyAll)
-----------------------------------------------------------------------------
(* Properties. *)

\* Types, and what each variable says about the others.
TypeOK ==
  /\ tasks \in Seq(Tasks) /\ isClosed \in BOOLEAN
  /\ worker \in [Workers -> {"lock", "wait", "run", "exit"}]
  /\ notify \subseteq Producers /\ closing \in BOOLEAN
  /\ running \in [Workers -> Tasks \union {None}]
  /\ \A w \in Workers : worker[w] = "run" <=> running[w] # None
  /\ added \in Seq(Tasks) /\ started \in Nat

\* No wakeup is lost although notify_one comes after the unlock: unless no
\* worker sleeps, every queued task has a worker that is about to look at the
\* queue or a notification on its way.
NoTaskSleeps ==
  Waiting = {} \/ Len(tasks) <= Cardinality(Locking) + Cardinality(notify)

\* A closed pool is drained before any worker leaves, and once notify_all has
\* been sent nobody sleeps: no task is dropped, no worker is left behind.
DrainedOnExit ==
  /\ (\E w \in Workers : worker[w] = "exit") => isClosed /\ tasks = << >>
  /\ isClosed /\ ~closing => Waiting = {}

\* The pool starts the tasks in order and each one once.
Queue == INSTANCE TaskQueue
QueueSpec == Queue!Spec

\* Every task that was added is started.
EveryTaskStarts == \A n \in 1..Cardinality(Tasks) : (Len(added) >= n) ~> (started >= n)

\* Every worker leaves once the pool is destroyed.
WorkersLeave == \A w \in Workers : isClosed ~> (worker[w] = "exit")
=============================================================================
