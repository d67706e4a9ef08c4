------------------------- MODULE ThreadPool_proofs -------------------------
(* Proofs about ThreadPool, for any finite set of workers and producers and *)
(* any set of tasks: no wakeup is lost, a closed pool is drained, and the   *)
(* pool implements TaskQueue.                                               *)
EXTENDS ThreadPool, FiniteSetTheorems, TLAPS

\* The initial state is well typed.
LEMMA InitType == Init => TypeOK
  <1> SUFFICES ASSUME Init PROVE TypeOK
    OBVIOUS
  <1>1. << >> \in Seq(Tasks)
    OBVIOUS
  <1> QED BY <1>1, PoolAssumption DEF Init, TypeOK

\* The critical section of AddTask keeps the types.
LEMMA PushType == ASSUME TypeOK, NEW p \in Producers, NEW t \in Tasks, Push(p, t) PROVE TypeOK'
  BY DEF TypeOK, Push

\* notify_one keeps the types.
LEMMA NotifyType == ASSUME TypeOK, NEW p \in Producers, NotifyOne(p) PROVE TypeOK'
  BY DEF TypeOK, NotifyOne, WakeOne, Waiting

\* Every step of a worker keeps the types.
LEMMA WorkerType ==
  ASSUME TypeOK, NEW w \in Workers, WorkerStep(w) \/ SpuriousWakeup(w) PROVE TypeOK'
  <1>1. CASE TakeTask(w)
    <2>1. Head(tasks) \in Tasks /\ Tail(tasks) \in Seq(Tasks)
      BY <1>1 DEF TakeTask, TypeOK
    <2> QED BY <1>1, <2>1, PoolAssumption DEF TakeTask, TypeOK
  <1>2. CASE Break(w)
    BY <1>2 DEF Break, TypeOK
  <1>3. CASE CondWait(w)
    BY <1>3 DEF CondWait, TypeOK
  <1>4. CASE TaskReturns(w)
    BY <1>4 DEF TaskReturns, TypeOK
  <1>5. CASE SpuriousWakeup(w)
    BY <1>5 DEF SpuriousWakeup, TypeOK
  <1> QED BY <1>1, <1>2, <1>3, <1>4, <1>5 DEF WorkerStep

\* Every step keeps the types.
LEMMA NextType == TypeOK /\ [Next]_vars => TypeOK'
  <1> SUFFICES ASSUME TypeOK, [Next]_vars PROVE TypeOK'
    OBVIOUS
  <1>1. CASE Destroy
    BY <1>1 DEF Destroy, SetClosed, NotifyAll, WakeAll, TypeOK
  <1>2. CASE UNCHANGED vars
    BY <1>2 DEF vars, TypeOK
  <1> QED BY <1>1, <1>2, PushType, NotifyType, WorkerType DEF Next, AddTask

\* Every variable keeps its type, and a worker that runs has a task.
THEOREM TypeCorrect == Spec => []TypeOK
  <1> QED BY InitType, NextType, PTL DEF Spec
-----------------------------------------------------------------------------
(* No task sleeps. *)

\* The sets that NoTaskSleeps counts have cardinalities.
LEMMA Finite ==
  ASSUME TypeOK
  PROVE  /\ IsFiniteSet(Locking) /\ IsFiniteSet(notify)
         /\ Cardinality(Locking) \in Nat /\ Cardinality(notify) \in Nat
  <1>1. Locking \subseteq Workers /\ notify \subseteq Producers
    BY DEF TypeOK, Locking
  <1>2. IsFiniteSet(Locking) /\ IsFiniteSet(notify)
    BY <1>1, PoolAssumption, FS_Subset
  <1> QED BY <1>2, FS_CardinalityType

\* A worker that comes back to the mutex is one more that will look.
LEMMA LockMore ==
  ASSUME TypeOK, NEW w \in Workers, worker[w] # "lock",
         worker' = [worker EXCEPT ![w] = "lock"]
  PROVE  /\ Cardinality(Locking') = Cardinality(Locking) + 1
         /\ Waiting' \subseteq Waiting
  <1>1. Locking' = Locking \union {w} /\ w \notin Locking /\ Waiting' \subseteq Waiting
    BY DEF TypeOK, Locking, Waiting
  <1> QED BY <1>1, Finite, FS_AddElement

\* A worker that takes a task is one less, and there is one task less.
LEMMA LockLess ==
  ASSUME TypeOK, NEW w \in Workers, worker[w] = "lock", NEW s \in {"run"},
         worker' = [worker EXCEPT ![w] = s]
  PROVE  /\ Cardinality(Locking') = Cardinality(Locking) - 1
         /\ Waiting' = Waiting
  <1>1. Locking' = Locking \ {w} /\ w \in Locking /\ Waiting' = Waiting
    BY DEF TypeOK, Locking, Waiting
  <1> QED BY <1>1, Finite, FS_RemoveElement

\* A pushed task brings its notification.
LEMMA PushWakes ==
  ASSUME TypeOK, NoTaskSleeps, NEW p \in Producers, NEW t \in Tasks, Push(p, t)
  PROVE  NoTaskSleeps'
  <1>1. Locking' = Locking /\ Waiting' = Waiting
    BY DEF Push, Locking, Waiting
  <1>2. Cardinality(notify') = Cardinality(notify) + 1
    BY Finite, FS_AddElement DEF Push
  <1>3. Len(tasks') = Len(tasks) + 1
    BY DEF Push, TypeOK
  <1> QED BY <1>1, <1>2, <1>3, Finite DEF NoTaskSleeps, TypeOK

\* A notification wakes a worker, or nobody sleeps.
LEMMA NotifyWakes ==
  ASSUME TypeOK, NoTaskSleeps, NEW p \in Producers, NotifyOne(p)
  PROVE  NoTaskSleeps'
  <1>1. Cardinality(notify') = Cardinality(notify) - 1
    BY Finite, FS_RemoveElement DEF NotifyOne
  <1>2. CASE Waiting = {}
    BY <1>2 DEF NotifyOne, WakeOne, NoTaskSleeps, Waiting
  <1>3. CASE Waiting # {}
    <2>1. PICK w \in Waiting : worker' = [worker EXCEPT ![w] = "lock"]
      BY <1>3 DEF NotifyOne, WakeOne
    <2>2. w \in Workers /\ worker[w] # "lock"
      BY <2>1 DEF Waiting
    <2>3. Cardinality(Locking') = Cardinality(Locking) + 1
      BY <2>1, <2>2, LockMore
    <2> QED BY <1>1, <1>3, <2>3, Finite DEF NotifyOne, NoTaskSleeps, TypeOK
  <1> QED BY <1>2, <1>3

\* A worker that takes a task or goes to sleep leaves enough others awake.
LEMMA WorkerWakes ==
  ASSUME TypeOK, NoTaskSleeps, NEW w \in Workers, WorkerStep(w) \/ SpuriousWakeup(w)
  PROVE  NoTaskSleeps'
  <1>1. CASE TakeTask(w)
    <2>1. Len(tasks') = Len(tasks) - 1 /\ notify' = notify
      BY <1>1 DEF TakeTask, TypeOK
    <2>2. Cardinality(Locking') = Cardinality(Locking) - 1 /\ Waiting' = Waiting
      BY <1>1, LockLess DEF TakeTask
    <2> QED BY <2>1, <2>2, Finite DEF NoTaskSleeps, TypeOK
  <1>2. CASE Break(w) \/ CondWait(w)
    <2>1. Len(tasks') = 0
      BY <1>2 DEF Break, CondWait, Finished
    <2>2. TypeOK'
      BY <1>2, WorkerType DEF WorkerStep
    <2>3. Cardinality(Locking') \in Nat /\ Cardinality(notify') \in Nat
      <3>1. (Locking \subseteq Workers /\ notify \subseteq Producers)'
        BY <2>2 DEF TypeOK, Locking
      <3>2. IsFiniteSet(Locking') /\ IsFiniteSet(notify')
        BY <3>1, PoolAssumption, FS_Subset
      <3> QED BY <3>2, FS_CardinalityType
    <2> QED BY <2>1, <2>3 DEF NoTaskSleeps
  <1>3. CASE TaskReturns(w) \/ SpuriousWakeup(w)
    <2>1. /\ Cardinality(Locking') = Cardinality(Locking) + 1
          /\ Waiting' \subseteq Waiting
      BY <1>3, LockMore DEF TaskReturns, SpuriousWakeup
    <2>2. tasks' = tasks /\ notify' = notify
      BY <1>3 DEF TaskReturns, SpuriousWakeup
    <2> QED BY <2>1, <2>2, Finite DEF NoTaskSleeps, TypeOK
  <1> QED BY <1>1, <1>2, <1>3 DEF WorkerStep

\* NoTaskSleeps is inductive with the types.
LEMMA NextWakes == TypeOK /\ NoTaskSleeps /\ [Next]_vars => NoTaskSleeps'
  <1> SUFFICES ASSUME TypeOK, NoTaskSleeps, [Next]_vars PROVE NoTaskSleeps'
    OBVIOUS
  <1>1. CASE SetClosed \/ UNCHANGED vars
    BY <1>1 DEF SetClosed, vars, NoTaskSleeps, Waiting, Locking
  <1>2. CASE NotifyAll
    BY <1>2 DEF NotifyAll, WakeAll, NoTaskSleeps, Waiting, TypeOK
  <1> QED BY <1>1, <1>2, PushWakes, NotifyWakes, WorkerWakes DEF Next, AddTask, Destroy

\* The notification that follows the unlock is never lost: a queued task never
\* waits for a worker while every worker sleeps (threadpool.h:22-32,52-59).
THEOREM NoTaskSleepsCorrect == Spec => []NoTaskSleeps
  <1>1. Init => NoTaskSleeps
    BY DEF Init, NoTaskSleeps, Waiting
  <1> QED BY <1>1, TypeCorrect, NextWakes, PTL DEF Spec

\* DrainedOnExit is inductive with the types.
LEMMA NextDrained == TypeOK /\ DrainedOnExit /\ [Next]_vars => DrainedOnExit'
  <1> SUFFICES ASSUME TypeOK, DrainedOnExit, [Next]_vars PROVE DrainedOnExit'
    OBVIOUS
  <1> USE DEF DrainedOnExit, Waiting, TypeOK
  <1>1. CASE \E p \in Producers : AddTask(p)
    BY <1>1 DEF AddTask, Push, NotifyOne, WakeOne
  <1>2. CASE Destroy
    BY <1>2 DEF Destroy, SetClosed, NotifyAll, WakeAll
  <1>3. ASSUME NEW w \in Workers, WorkerStep(w) \/ SpuriousWakeup(w)
        PROVE  DrainedOnExit'
    BY <1>3 DEF WorkerStep, SpuriousWakeup, TakeTask, Break, Finished, CondWait, TaskReturns
  <1>4. CASE UNCHANGED vars
    BY <1>4 DEF vars
  <1> QED BY <1>1, <1>2, <1>3, <1>4 DEF Next

\* No task is dropped when the pool is destroyed, and nobody is left asleep
\* (threadpool.h:23-31,41-49).
THEOREM DrainedCorrect == Spec => []DrainedOnExit
  <1>1. Init => DrainedOnExit
    BY DEF Init, DrainedOnExit
  <1> QED BY <1>1, TypeCorrect, NextDrained, PTL DEF Spec
-----------------------------------------------------------------------------
(* The pool implements TaskQueue. *)

\* The queue holds what was added and not yet started, in that order.
QueueInv ==
  /\ Len(tasks) + started = Len(added)
  /\ \A k \in 1..Len(tasks) : tasks[k] = added[started + k]

\* The queue always holds the tasks that were added and not started, in order.
LEMMA QueueInvStep == TypeOK /\ QueueInv /\ [Next]_vars => QueueInv'
  <1> SUFFICES ASSUME TypeOK, QueueInv, [Next]_vars PROVE QueueInv'
    OBVIOUS
  <1>1. ASSUME NEW p \in Producers, NEW t \in Tasks, Push(p, t) PROVE QueueInv'
    BY <1>1 DEF Push, TypeOK, QueueInv
  <1>2. ASSUME NEW w \in Workers, TakeTask(w) PROVE QueueInv'
    <2>1. /\ tasks \in Seq(Tasks) /\ tasks # << >> /\ tasks' = Tail(tasks)
          /\ started' = started + 1 /\ added' = added /\ started \in Nat
      BY <1>2 DEF TakeTask, TypeOK
    <2>2. Len(tasks') = Len(tasks) - 1
      BY <2>1
    <2>3. \A k \in 1..Len(tasks') : tasks'[k] = tasks[k + 1]
      BY <2>1
    <2> QED BY <2>1, <2>2, <2>3 DEF QueueInv
  <1>3. CASE UNCHANGED <<tasks, added, started>>
    BY <1>3 DEF QueueInv
  <1>4. ASSUME NEW w \in Workers,
               Break(w) \/ CondWait(w) \/ TaskReturns(w) \/ SpuriousWakeup(w)
        PROVE  QueueInv'
    BY <1>3, <1>4 DEF Break, CondWait, TaskReturns, SpuriousWakeup
  <1> QED BY <1>1, <1>2, <1>3, <1>4
      DEF Next, AddTask, NotifyOne, Destroy, SetClosed, NotifyAll, WorkerStep, vars

\* Every step of the pool is a step of TaskQueue or leaves its variables alone.
LEMMA QueueStep == TypeOK /\ QueueInv /\ [Next]_vars => [Queue!Next]_Queue!queueVars
  <1> SUFFICES ASSUME TypeOK, QueueInv, [Next]_vars
               PROVE  Queue!Next \/ UNCHANGED <<added, started, running>>
    BY DEF Queue!queueVars
  <1>1. ASSUME NEW p \in Producers, NEW t \in Tasks, Push(p, t) PROVE Queue!Next
    BY <1>1 DEF Push, Queue!Next, Queue!Add
  <1>2. ASSUME NEW w \in Workers, TakeTask(w) PROVE Queue!Next
    <2>1. tasks \in Seq(Tasks) /\ tasks # << >> /\ Len(tasks) > 0
      BY <1>2 DEF TakeTask, TypeOK
    <2>2. Head(tasks) = added[started + 1] /\ started < Len(added)
      BY <2>1 DEF QueueInv, TypeOK
    <2>3. running[w] = None
      BY <1>2 DEF TakeTask, TypeOK
    <2> QED BY <1>2, <2>2, <2>3 DEF TakeTask, Queue!Next, Queue!Start
  <1>3. ASSUME NEW w \in Workers, TaskReturns(w) PROVE Queue!Next
    BY <1>3 DEF TaskReturns, TypeOK, Queue!Next, Queue!End
  <1>4. ASSUME NEW w \in Workers, Break(w) \/ CondWait(w) \/ SpuriousWakeup(w)
        PROVE  UNCHANGED <<added, started, running>>
    BY <1>4 DEF Break, CondWait, SpuriousWakeup
  <1> QED BY <1>1, <1>2, <1>3, <1>4
      DEF Next, AddTask, NotifyOne, Destroy, SetClosed, NotifyAll, WorkerStep, vars

\* The pool starts the tasks in the order they were added and each one once,
\* whatever the interleaving of its threads (threadpool.h:22-32).
THEOREM QueueCorrect == Spec => QueueSpec
  <1>1. Init => QueueInv /\ Queue!Init
    BY DEF Init, QueueInv, Queue!Init
  <1> QED BY <1>1, TypeCorrect, QueueInvStep, QueueStep, PTL DEF Spec, QueueSpec, Queue!Spec
=============================================================================
