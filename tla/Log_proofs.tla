----------------------------- MODULE Log_proofs -----------------------------
(* Proofs about Log, for any threads, capacities and number of lines: a      *)
(* thread that holds Log::mtx_ never waits for room in the queue, so the     *)
(* two mutexes and the condition variable cannot block each other; every     *)
(* line is written once, queued lines in order; and the write thread is      *)
(* awake while lines wait, and comes nearer to their end with each step.     *)
EXTENDS Log, SequenceTheorems, FunctionTheorems, FiniteSetTheorems, TLAPS

IInv == TypeOK /\ PushNeverBlocks

\* The state after Log::init satisfies the invariant.
LEMMA InitInv == Init => IInv
  <1> SUFFICES ASSUME Init PROVE IInv
    OBVIOUS
  <1>1. << >> \in Seq(Line)
    OBVIOUS
  <1>2. TypeOK
    BY <1>1, LogAssumption DEF Init, TypeOK, isAsync
  <1>3. PushNeverBlocks
    BY DEF Init, PushNeverBlocks
  <1> QED BY <1>2, <1>3 DEF IInv

\* A notification leaves the write thread in one of its states.
LEMMA NotifyType ==
  ASSUME TypeOK, NotifyConsumer
  PROVE  reader' \in {"pop", "wait", "woken", "print", "done"}
  BY DEF TypeOK, NotifyConsumer

\* Nobody is blocked, so waking producers changes nothing.
LEMMA NoProducer ==
  ASSUME IInv, NotifyProducer \/ WakeProducers PROVE pc' = pc
  <1>1. \A w \in Writers : pc[w] # "blocked"
    BY DEF IInv, PushNeverBlocks
  <1>2. CASE NotifyProducer
    BY <1>1, <1>2 DEF NotifyProducer
  <1>3. CASE WakeProducers
    BY <1>1, <1>3 DEF WakeProducers, IInv, TypeOK
  <1> QED BY <1>2, <1>3

\* A step of the writers that leaves the queue alone and brings nobody to it.
LEMMA PushKept ==
  ASSUME IInv, Len(deq') <= Len(deq), Len(deq') \in Nat,
         \A w \in Writers : pc'[w] \in {"push", "blocked"} => pc'[w] = pc[w]
  PROVE  PushNeverBlocks'
  BY LogAssumption DEF IInv, TypeOK, PushNeverBlocks

\* Every step of write and flush.
LEMMA WriterInv ==
  ASSUME IInv, NEW w \in Writers, write(w) \/ flush(w) PROVE IInv'
  <1> USE DEF Goto, dateVars
  <1>0. w # None /\ Len(deq) \in Nat
    BY LogAssumption DEF IInv, TypeOK
  <1>1. CASE Begin(w)
    <2>1. TypeOK'
      BY <1>0, <1>1 DEF Begin, IInv, TypeOK, dequeVars, fileVars
    <2>2. PushNeverBlocks'
      BY <1>0, <1>1, PushKept DEF Begin, IInv, TypeOK, dequeVars
    <2> QED BY <2>1, <2>2 DEF IInv
  <1>2. CASE CloseFile(w)
    <2>1. TypeOK'
      BY <1>0, <1>2, NotifyType, LogAssumption DEF CloseFile, IInv, TypeOK, dequeVars
    <2>2. PushNeverBlocks'
      BY <1>0, <1>2, PushKept DEF CloseFile, IInv, TypeOK, dequeVars
    <2> QED BY <2>1, <2>2 DEF IInv
  <1>3. CASE OpenFile(w)
    <2>1. TypeOK'
      BY <1>0, <1>3, LogAssumption DEF OpenFile, IInv, TypeOK, dequeVars
    <2>2. PushNeverBlocks'
      BY <1>0, <1>3, PushKept DEF OpenFile, IInv, TypeOK, dequeVars
    <2> QED BY <2>1, <2>2 DEF IInv
  <1>4. CASE Format(w)
    <2>1. TypeOK'
      BY <1>0, <1>4, LogAssumption DEF Format, IInv, TypeOK, dequeVars, fileVars
    <2>2. PushNeverBlocks'
      BY <1>0, <1>4, PushKept DEF Format, IInv, TypeOK, dequeVars
    <2> QED BY <2>1, <2>2 DEF IInv
  <1>5. CASE CheckFull(w)
    <2>1. CASE HasRoom
      <3>1. TypeOK'
        BY <1>0, <1>5, <2>1 DEF CheckFull, IInv, TypeOK, dequeVars
      <3>2. PushNeverBlocks'
        <4>1. deq' = deq /\ pc' = [pc EXCEPT ![w] = "push"] /\ Len(deq) < DefaultCapacity
          BY <1>5, <2>1 DEF CheckFull, HasRoom, dequeVars
        <4>2. \A v \in Writers : pc'[v] = IF v = w THEN "push" ELSE pc[v]
          BY <4>1 DEF IInv, TypeOK
        <4>3. \A v \in Writers : pc[v] # "blocked"
          BY DEF IInv, PushNeverBlocks
        <4>4. \A v \in Writers : pc'[v] # "blocked" /\ Len(deq') < DefaultCapacity
          BY <4>1, <4>2, <4>3
        <4> QED BY <4>4 DEF PushNeverBlocks
      <3> QED BY <3>1, <3>2 DEF IInv
    <2>2. CASE ~HasRoom
      <3>1. [no |-> line[w], async |-> FALSE] \in Line
        BY DEF Line, IInv, TypeOK
      <3>2. file' \in Seq(Line)
        <4>1. file' = Append(file, [no |-> line[w], async |-> FALSE])
          BY <1>5, <2>2 DEF CheckFull
        <4> QED BY <3>1, <4>1 DEF IInv, TypeOK
      <3>3. TypeOK'
        BY <1>0, <1>5, <2>2, <3>2, LogAssumption DEF CheckFull, IInv, TypeOK, dequeVars
      <3>4. PushNeverBlocks'
        BY <1>0, <1>5, <2>2, PushKept DEF CheckFull, IInv, TypeOK, dequeVars
      <3> QED BY <3>3, <3>4 DEF IInv
    <2> QED BY <2>1, <2>2
  <1>6. CASE PushBack(w)
    <2>1. Len(deq) < DefaultCapacity /\ ~(Len(deq) >= DefaultCapacity)
      <3>1. Len(deq) < DefaultCapacity
        BY <1>6 DEF PushBack, IInv, PushNeverBlocks
      <3> QED BY <1>0, <3>1, LogAssumption
    <2>2. [no |-> line[w], async |-> TRUE] \in Line
      BY DEF Line, IInv, TypeOK
    <2>3. deq' \in Seq(Line)
      <3>1. deq' = Append(deq, [no |-> line[w], async |-> TRUE])
        BY <1>6, <2>1 DEF PushBack
      <3> QED BY <2>2, <3>1 DEF IInv, TypeOK
    <2>4. \A v \in Writers : pc'[v] \notin {"push", "blocked"}
      <3>1. \A v \in Writers \ {w} : mtx # v
        BY <1>6 DEF PushBack, IInv, TypeOK
      <3> QED BY <1>6, <2>1, <3>1 DEF PushBack, IInv, TypeOK
    <2>5. PushNeverBlocks'
      BY <2>4 DEF PushNeverBlocks
    <2>6. TypeOK'
      BY <1>0, <1>6, <2>1, <2>3, NotifyType, LogAssumption DEF PushBack, IInv, TypeOK, fileVars
    <2> QED BY <2>5, <2>6 DEF IInv
  <1>7. CASE flush(w)
    <2>1. TypeOK'
      BY <1>0, <1>7, NotifyType DEF flush, IInv, TypeOK, dequeVars, fileVars
    <2>2. PushNeverBlocks'
      BY <1>0, <1>7, PushKept DEF flush, IInv, TypeOK, dequeVars
    <2> QED BY <2>1, <2>2 DEF IInv
  <1>8. CASE NewName(w)
    <2>1. TypeOK'
      BY <1>0, <1>8 DEF NewName, IInv, TypeOK, dequeVars, fileVars
    <2>2. PushNeverBlocks'
      BY <1>0, <1>8, PushKept DEF NewName, IInv, TypeOK, dequeVars
    <2> QED BY <2>1, <2>2 DEF IInv
  <1> QED BY <1>1, <1>2, <1>3, <1>4, <1>5, <1>6, <1>7, <1>8 DEF write

\* Every step of the write thread.
LEMMA ReaderInv ==
  ASSUME IInv, AsyncWrite_ \/ SpuriousWakeup PROVE IInv'
  <1>0. Len(deq) \in Nat
    BY DEF IInv, TypeOK
  <1>1. CASE Pop
    <2>1. Head(deq) \in Line /\ Tail(deq) \in Seq(Line) /\ Len(Tail(deq)) = Len(deq) - 1
      BY <1>1 DEF Pop, IInv, TypeOK
    <2>2. pc' = pc
      BY <1>1, NoProducer DEF Pop
    <2>3. deq' = Tail(deq) /\ hand' \in Seq(Line)
      BY <1>1, <2>1 DEF Pop
    <2>4. PushNeverBlocks'
      BY <1>0, <2>1, <2>2, <2>3, PushKept
    <2>5. TypeOK'
      BY <1>1, <2>1, <2>2, <2>3 DEF Pop, IInv, TypeOK, dateVars, fileVars
    <2> QED BY <2>4, <2>5 DEF IInv
  <1>2. CASE PopWaits \/ PopClosed \/ SpuriousWakeup
    <2>1. reader' \in {"wait", "done", "woken"}
      BY <1>2 DEF PopWaits, PopClosed, SpuriousWakeup
    <2>2. UNCHANGED <<dequeVars, mtx, lineCount, dateVars, fileVars, writerVars, hand, dtor>>
      BY <1>2 DEF PopWaits, PopClosed, SpuriousWakeup
    <2> QED BY <2>1, <2>2
        DEF IInv, TypeOK, PushNeverBlocks, dequeVars, dateVars, fileVars, writerVars
  <1>3. CASE Fputs
    <2>1. file' \in Seq(Line) /\ hand' \in Seq(Line)
      BY <1>3 DEF Fputs, IInv, TypeOK
    <2> QED BY <1>3, <2>1
        DEF Fputs, IInv, TypeOK, PushNeverBlocks, dequeVars, dateVars, writerVars
  <1> QED BY <1>1, <1>2, <1>3 DEF AsyncWrite_

\* Every step of ~Log.
LEMMA DestructorInv ==
  ASSUME IInv, Exit \/ Destructor PROVE IInv'
  <1> USE DEF dequeVars, dateVars, fileVars, writerVars
  <1>1. CASE Exit \/ Join
    BY <1>1 DEF Exit, Join, IInv, TypeOK, PushNeverBlocks
  <1>2. CASE Drain
    BY <1>2, NotifyType DEF Drain, IInv, TypeOK, PushNeverBlocks
  <1>3. CASE CloseDeque
    <2>1. deq' \in Seq(Line) /\ Len(deq') = 0
      BY <1>3 DEF CloseDeque
    <2> QED BY <1>3, <2>1, LogAssumption DEF CloseDeque, IInv, TypeOK, PushNeverBlocks
  <1>4. CASE CloseNotify
    <2>1. pc' = pc
      BY <1>4, NoProducer DEF CloseNotify
    <2> QED BY <1>4, <2>1, NotifyType DEF CloseNotify, IInv, TypeOK, PushNeverBlocks
  <1>5. CASE Fclose
    BY <1>5 DEF Fclose, IInv, TypeOK, PushNeverBlocks
  <1> QED BY <1>1, <1>2, <1>3, <1>4, <1>5 DEF Destructor

\* The invariant is inductive.
LEMMA NextInv == IInv /\ [Next]_vars => IInv'
  <1> SUFFICES ASSUME IInv, [Next]_vars PROVE IInv'
    OBVIOUS
  <1>1. CASE UNCHANGED vars
    BY <1>1 DEF vars, dequeVars, dateVars, fileVars, writerVars, IInv, TypeOK, PushNeverBlocks
  <1>2. CASE Midnight
    BY <1>2 DEF Midnight, dequeVars, fileVars, writerVars, IInv, TypeOK, PushNeverBlocks
  <1> QED BY <1>1, <1>2, WriterInv, ReaderInv, DestructorInv DEF Next

\* The inductive invariant: who holds Log::mtx_, and the holder never waits for
\* room (log.cpp:145-146).
THEOREM Invariance == Spec => []IInv
  <1> QED BY InitInv, NextInv, PTL DEF Spec

\* Every variable keeps its type, and whoever is inside a critical section of
\* Log::mtx_ is the thread that holds it.
THEOREM TypeCorrect == Spec => []TypeOK
  <1>1. IInv => TypeOK
    BY DEF IInv
  <1> QED BY <1>1, Invariance, PTL

\* push_back never waits while Log::mtx_ is locked, for any number of threads
\* and any capacity (log.cpp:145-146).
THEOREM PushCorrect == Spec => []PushNeverBlocks
  <1>1. IInv => PushNeverBlocks
    BY DEF IInv
  <1> QED BY <1>1, Invariance, PTL
-----------------------------------------------------------------------------
(* Every line is written once, and the queued ones in their order.          *)

\* The numbers of a sequence are distinct.
Distinct(s) == \A j, k \in 1..Len(s) : s[j].no = s[k].no => j = k
\* The lines of a sequence that went through the queue are in order.
Ordered(s) ==
  \A j, k \in 1..Len(s) : j < k /\ s[j].async /\ s[k].async => s[j].no < s[k].no

\* b is a with one more line, at place p.
Inserted(a, b, l, p) ==
  /\ Len(b) = Len(a) + 1 /\ p \in 1..Len(b) /\ b[p] = l
  /\ \A k \in 1..(p - 1) : b[k] = a[k]
  /\ \A k \in p..Len(a) : b[k + 1] = a[k]

\* What inserting a line does to the numbers, and to the order.
LEMMA InsertLine ==
  ASSUME NEW a \in Seq(Line), NEW b \in Seq(Line), NEW l \in Line, NEW p \in Nat,
         Inserted(a, b, l, p), Distinct(a), Ordered(a), l.no \notin Numbers(a),
         ~l.async \/ (p = Len(a) + 1 /\ \A n \in Numbers(a) : n < l.no)
  PROVE  Distinct(b) /\ Ordered(b) /\ Numbers(b) = Numbers(a) \union {l.no}
  <1>0. Len(a) \in Nat /\ Len(b) = Len(a) + 1 /\ p \in 1..Len(b) /\ b[p] = l
    BY DEF Inserted
  <1>1. ASSUME NEW k \in 1..Len(b), k # p
        PROVE  \E i \in 1..Len(a) : /\ b[k] = a[i]
                                    /\ i = IF k < p THEN k ELSE k - 1
    <2>1. CASE k < p
      BY <1>0, <2>1 DEF Inserted
    <2>2. CASE k > p
      <3>1. k - 1 \in p..Len(a)
        BY <1>0, <2>2
      <3>2. b[(k - 1) + 1] = a[k - 1]
        BY <3>1 DEF Inserted
      <3> QED BY <1>0, <2>2, <3>1, <3>2
    <2> QED BY <1>0, <1>1, <2>1, <2>2
  <1>2. \A k \in 1..Len(b) : k # p => b[k].no \in Numbers(a)
    BY <1>1 DEF Numbers
  <1>3. Distinct(b)
    <2> SUFFICES ASSUME NEW j \in 1..Len(b), NEW k \in 1..Len(b), b[j].no = b[k].no
                 PROVE  j = k
      BY DEF Distinct
    <2>1. CASE j = p \/ k = p
      BY <1>0, <1>2, <2>1
    <2>2. CASE j # p /\ k # p
      <3>1. PICK i \in 1..Len(a) : b[j] = a[i] /\ i = IF j < p THEN j ELSE j - 1
        BY <1>1, <2>2
      <3>2. PICK m \in 1..Len(a) : b[k] = a[m] /\ m = IF k < p THEN k ELSE k - 1
        BY <1>1, <2>2
      <3>3. i = m
        BY <3>1, <3>2 DEF Distinct
      <3> QED BY <1>0, <2>2, <3>1, <3>2, <3>3
    <2> QED BY <2>1, <2>2
  <1>4. Ordered(b)
    <2> SUFFICES ASSUME NEW j \in 1..Len(b), NEW k \in 1..Len(b), j < k, b[j].async, b[k].async
                 PROVE  b[j].no < b[k].no
      BY DEF Ordered
    <2>1. CASE j # p /\ k # p
      <3>1. PICK i \in 1..Len(a) : b[j] = a[i] /\ i = IF j < p THEN j ELSE j - 1
        BY <1>1, <2>1
      <3>2. PICK m \in 1..Len(a) : b[k] = a[m] /\ m = IF k < p THEN k ELSE k - 1
        BY <1>1, <2>1
      <3>3. i < m
        BY <1>0, <2>1, <3>1, <3>2
      <3>4. a[i].async /\ a[m].async
        BY <3>1, <3>2
      <3>5. a[i].no < a[m].no
        BY <3>3, <3>4 DEF Ordered
      <3> QED BY <3>1, <3>2, <3>5
    <2>2. CASE j = p \/ k = p
      <3>1. l.async
        BY <1>0, <2>2
      <3>2. p = Len(b) /\ \A n \in Numbers(a) : n < l.no
        BY <1>0, <3>1
      <3>3. k = p /\ j # p
        BY <1>0, <2>2, <3>2
      <3> QED BY <1>0, <1>2, <3>2, <3>3
    <2> QED BY <2>1, <2>2
  <1>5. Numbers(b) = Numbers(a) \union {l.no}
    <2>1. Numbers(b) \subseteq Numbers(a) \union {l.no}
      <3> SUFFICES ASSUME NEW k \in 1..Len(b) PROVE b[k].no \in Numbers(a) \union {l.no}
        BY DEF Numbers
      <3> QED BY <1>0, <1>2
    <2>2. l.no \in Numbers(b)
      BY <1>0 DEF Numbers
    <2>3. ASSUME NEW i \in 1..Len(a) PROVE a[i].no \in Numbers(b)
      <3>1. CASE i < p
        <4>1. b[i] = a[i] /\ i \in 1..Len(b)
          BY <1>0, <3>1 DEF Inserted
        <4> QED BY <4>1 DEF Numbers
      <3>2. CASE i >= p
        <4>1. b[i + 1] = a[i] /\ i + 1 \in 1..Len(b)
          BY <1>0, <3>2 DEF Inserted
        <4> QED BY <4>1 DEF Numbers
      <3> QED BY <1>0, <3>1, <3>2
    <2>4. Numbers(a) \subseteq Numbers(b)
      BY <2>3 DEF Numbers
    <2> QED BY <2>1, <2>2, <2>4
  <1> QED BY <1>3, <1>4, <1>5

\* A sequence with distinct numbers has as many lines as numbers.
LEMMA CountLines ==
  ASSUME NEW s \in Seq(Line), Distinct(s)
  PROVE  Len(s) = Cardinality(Numbers(s))
  <1> DEFINE f == [k \in 1..Len(s) |-> s[k].no]
  <1>1. f \in Bijection(1..Len(s), Numbers(s))
    BY DEF Distinct, Numbers, Bijection, Injection, Surjection, IsInjective
  <1>2. ExistsBijection(1..Len(s), Numbers(s))
    BY <1>1 DEF ExistsBijection
  <1>3. Len(s) \in Nat
    OBVIOUS
  <1> QED BY <1>2, <1>3, FS_CountingElements

All == file \o hand \o deq

\* Where the lines are: each number logged so far, but the one its writer still
\* holds, is in one place; and what the threads may still do to them.
LineInv ==
  /\ Distinct(All) /\ Ordered(All)
  /\ Numbers(All) = (1..logged) \ Pending
  /\ \A w \in Writers : pc[w] \in {"full", "push"} => logged > 0 /\ line[w] = logged
  /\ \A w \in Writers : pc[w] = "push" => isAsync
  /\ reader # "print" => hand = << >>
  /\ dtor # "alive" => \A w \in Writers : pc[w] = "idle"
  /\ dtor \notin {"alive", "drain"} => deq = << >>
  /\ dtor \in {"fclose", "end"} => reader = "done"
  /\ ~isAsync => deq = << >> /\ reader = "done"

\* At most the holder of Log::mtx_ has a line that is nowhere yet: the last one.
LEMMA PendingLine ==
  ASSUME IInv, LineInv
  PROVE  /\ \A w \in Writers : pc[w] \in {"full", "push"} => Pending = {logged}
         /\ (\A w \in Writers : pc[w] \notin {"full", "push"}) => Pending = {}
  <1>1. \A v, w \in Writers :
          pc[v] \in {"full", "push"} /\ pc[w] \in {"full", "push"} => v = w
    BY DEF IInv, TypeOK
  <1>2. \A w \in Writers : pc[w] # "blocked"
    BY DEF IInv, PushNeverBlocks
  <1>3. logged \in Nat
    BY DEF IInv, TypeOK
  <1>4. ASSUME NEW w \in Writers, pc[w] \in {"full", "push"} PROVE Pending = {logged}
    <2>1. logged \in 1..logged /\ line[w] = logged
      BY <1>3, <1>4 DEF LineInv
    <2>2. \A v \in Writers : pc[v] \in {"full", "push", "blocked"} => line[v] = logged
      BY <1>2, <2>1 DEF LineInv
    <2> QED BY <1>4, <2>1, <2>2 DEF Pending
  <1>5. (\A w \in Writers : pc[w] \notin {"full", "push"}) => Pending = {}
    BY <1>2 DEF Pending
  <1> QED BY <1>4, <1>5

\* A step that moves no line, and numbers none.
LEMMA LineFrame ==
  ASSUME IInv, LineInv, All' = All, UNCHANGED <<logged, line>>,
         \A w \in Writers : pc'[w] \in {"full", "push", "blocked"} <=>
                              pc[w] \in {"full", "push", "blocked"},
         \A w \in Writers : pc'[w] # "blocked",
         \A w \in Writers : pc'[w] = "push" => isAsync,
         reader' # "print" => hand' = << >>,
         dtor' # "alive" => \A w \in Writers : pc'[w] = "idle",
         dtor' \notin {"alive", "drain"} => deq' = << >>,
         dtor' \in {"fclose", "end"} => reader' = "done",
         ~isAsync => deq' = << >> /\ reader' = "done"
  PROVE  LineInv'
  <1>1. Pending' = Pending
    BY DEF Pending
  <1>2. Distinct(All)' /\ Ordered(All)' /\ Numbers(All)' = (1..logged') \ Pending'
    BY <1>1 DEF LineInv, Distinct, Ordered, Numbers
  <1>3. \A w \in Writers : pc'[w] \in {"full", "push"} => logged' > 0 /\ line'[w] = logged'
    <2>1. \A w \in Writers : pc[w] # "blocked"
      BY DEF IInv, PushNeverBlocks
    <2> QED BY <2>1 DEF LineInv
  <1>4. isAsync' <=> isAsync
    BY DEF isAsync
  <1> QED BY <1>2, <1>3, <1>4 DEF LineInv

\* A notification leaves the reader done when it is done, and starts no print.
LEMMA NotifyLine ==
  ASSUME NotifyConsumer \/ UNCHANGED reader
  PROVE  (reader' = "print" <=> reader = "print") /\ (reader' = "done" <=> reader = "done")
  BY DEF NotifyConsumer

\* The lines of a file, of the write thread's hand and of the queue, in two parts.
LEMMA ThreeParts ==
  ASSUME NEW f \in Seq(Line), NEW h \in Seq(Line), NEW d \in Seq(Line)
  PROVE  /\ (f \o h) \o d = f \o (h \o d)
         /\ h \o d \in Seq(Line) /\ f \o (h \o d) \in Seq(Line)
         /\ Len(f \o (h \o d)) = Len(f) + Len(h \o d)
  <1>1. (f \o h) \o d = f \o (h \o d)
    BY ConcatAssociative
  <1>2. h \o d \in Seq(Line)
    BY ConcatProperties
  <1>3. f \o (h \o d) \in Seq(Line) /\ Len(f \o (h \o d)) = Len(f) + Len(h \o d)
    BY <1>2, ConcatProperties
  <1> QED BY <1>1, <1>2, <1>3

\* The steps of write and flush.
LEMMA WriterLine ==
  ASSUME IInv, IInv', LineInv, NEW w \in Writers, write(w) \/ flush(w)
  PROVE  LineInv'
  <1> USE DEF Goto
  <1>0. /\ pc \in [Writers -> {"idle", "name", "rotate", "reopen", "lock", "full", "push",
                               "blocked", "flush"}]
        /\ \A v \in Writers : pc[v] # "blocked" /\ pc'[v] # "blocked"
        /\ logged \in Nat /\ line \in [Writers -> Nat]
        /\ \A v \in Writers : pc[v] \in {"full", "push"} => mtx = v
        /\ file \in Seq(Line) /\ hand \in Seq(Line) /\ deq \in Seq(Line)
    BY DEF IInv, TypeOK, PushNeverBlocks
  <1>a. hand \o deq \in Seq(Line) /\ All \in Seq(Line) /\ All = file \o (hand \o deq)
        /\ Len(All) = Len(file) + Len(hand \o deq)
    <2>1. file \in Seq(Line) /\ hand \in Seq(Line) /\ deq \in Seq(Line)
      BY <1>0
    <2> QED BY ONLY <2>1, ThreeParts DEF All
  <1>1. CASE Begin(w) \/ NewName(w) \/ CloseFile(w) \/ OpenFile(w) \/ flush(w)
    <2>1. /\ UNCHANGED <<file, hand, deq, logged, line, dtor>>
          /\ pc[w] # "idle" \/ dtor = "alive"
          /\ pc[w] \notin {"full", "push", "blocked"}
          /\ pc' = [pc EXCEPT ![w] = pc'[w]] /\ pc'[w] \notin {"full", "push", "blocked"}
          /\ NotifyConsumer \/ UNCHANGED reader
      BY <1>0, <1>1 DEF Begin, NewName, CloseFile, OpenFile, flush, dequeVars, fileVars
    <2>2. dtor = "alive"
      BY <2>1 DEF LineInv
    <2>3. All' = All
      BY <2>1 DEF All
    <2> QED BY <1>0, <2>1, <2>2, <2>3, NotifyLine, LineFrame DEF LineInv
  <1>2. CASE Format(w)
    <2>1. /\ UNCHANGED <<file, hand, deq, reader, dtor>> /\ pc[w] = "lock" /\ mtx = None
          /\ pc' = [pc EXCEPT ![w] = "full"] /\ logged' = logged + 1
          /\ line' = [line EXCEPT ![w] = logged + 1]
      BY <1>2 DEF Format, dequeVars, fileVars
    <2>2. \A v \in Writers : pc[v] \notin {"full", "push"}
      BY <1>0, <2>1, LogAssumption
    <2>3. Pending = {}
      BY <2>2, PendingLine
    <2>4. Pending' = {logged + 1}
      BY <1>0, <2>1, <2>2 DEF Pending
    <2>5. All' = All
      BY <2>1 DEF All
    <2>6. Numbers(All)' = (1..logged') \ Pending'
      <3>1. Numbers(All)' = Numbers(All)
        BY <2>5 DEF Numbers
      <3>2. Numbers(All) = 1..logged
        BY <2>3 DEF LineInv
      <3>3. (1..(logged + 1)) \ {logged + 1} = 1..logged
        BY <1>0
      <3> QED BY <2>1, <2>4, <3>1, <3>2, <3>3
    <2>7. dtor = "alive"
      BY <2>1 DEF LineInv
    <2> QED BY <1>0, <2>1, <2>2, <2>5, <2>6, <2>7 DEF LineInv, Distinct, Ordered, isAsync
  <1>3. ASSUME NEW l \in Line, NEW p \in Nat, All' \in Seq(Line), Inserted(All, All', l, p),
               pc[w] \in {"full", "push"}, l.no = line[w],
               ~l.async \/ p = Len(All) + 1,
               pc' = [pc EXCEPT ![w] = "flush"], UNCHANGED <<logged, line, hand, dtor>>,
               NotifyConsumer \/ UNCHANGED reader,
               deq' = deq \/ isAsync
        PROVE  LineInv'
    <2>1. Pending = {logged} /\ line[w] = logged /\ logged \in 1..logged
      BY <1>0, <1>3, PendingLine DEF LineInv
    <2>2. /\ logged \notin Numbers(All)
          /\ \A n \in Numbers(All) : n < logged
      BY <1>0, <2>1 DEF LineInv
    <2>3. Distinct(All') /\ Ordered(All') /\ Numbers(All') = Numbers(All) \union {logged}
      <3>1. Distinct(All) /\ Ordered(All) /\ l.no = logged
        BY <1>3, <2>1 DEF LineInv
      <3>2. ~l.async \/ (p = Len(All) + 1 /\ \A n \in Numbers(All) : n < l.no)
        BY <1>3, <2>2, <3>1
      <3>3. Inserted(All, All', l, p) /\ All \in Seq(Line) /\ All' \in Seq(Line)
        BY <1>3, <1>a
      <3> HIDE DEF All
      <3> QED BY <2>2, <3>1, <3>2, <3>3, InsertLine
    <2>4. \A v \in Writers : pc'[v] \notin {"full", "push", "blocked"}
      BY <1>0, <1>3
    <2>5. Pending' = {}
      BY <2>4 DEF Pending
    <2>6. Numbers(All') = (1..logged') \ Pending'
      BY <1>3, <2>1, <2>3, <2>5 DEF LineInv
    <2>7. Distinct(All)' /\ Ordered(All)' /\ Numbers(All)' = (1..logged') \ Pending'
      BY <2>3, <2>6 DEF Distinct, Ordered, Numbers
    <2>8. dtor = "alive"
      BY <1>3 DEF LineInv
    <2> QED BY <1>3, <2>4, <2>7, <2>8, NotifyLine DEF LineInv, isAsync
  <1>4. CASE CheckFull(w)
    <2>1. CASE HasRoom
      <3>1. /\ UNCHANGED <<file, hand, deq, logged, line, reader, dtor>>
            /\ pc' = [pc EXCEPT ![w] = "push"] /\ pc[w] = "full" /\ isAsync
        BY <1>4, <2>1 DEF CheckFull, HasRoom, dequeVars
      <3>2. All' = All /\ dtor = "alive"
        BY <3>1 DEF All, LineInv
      <3> QED BY <1>0, <3>1, <3>2, LineFrame DEF LineInv
    <2>2. CASE ~HasRoom
      <3> DEFINE l == [no |-> line[w], async |-> FALSE]
      <3>1. /\ file' = Append(file, l) /\ UNCHANGED <<hand, deq, logged, line, reader, dtor>>
            /\ pc' = [pc EXCEPT ![w] = "flush"] /\ pc[w] = "full"
        BY <1>4, <2>2 DEF CheckFull, dequeVars
      <3>2. l \in Line /\ l.no = line[w] /\ ~l.async
        BY <1>0 DEF Line
      <3> HIDE DEF l
      <3> DEFINE r == hand \o deq
      <3>3. /\ All' = Append(file, l) \o r /\ Append(file, l) \in Seq(Line)
            /\ Len(Append(file, l)) = Len(file) + 1 /\ r \in Seq(Line)
        <4>1. file \in Seq(Line) /\ hand \in Seq(Line) /\ deq \in Seq(Line)
          BY <1>0, <1>a
        <4> DEFINE ff == Append(file, l)
        <4>2. ff \in Seq(Line) /\ Len(ff) = Len(file) + 1
          BY <3>2, <4>1
        <4>4. All' = (ff \o hand) \o deq
          BY <3>1 DEF All
        <4>5. r \in Seq(Line)
          BY <4>1
        <4> HIDE DEF ff
        <4>3. (ff \o hand) \o deq = ff \o (hand \o deq)
          BY ONLY <4>1, <4>2, ThreeParts
        <4> QED BY <4>2, <4>3, <4>4, <4>5 DEF ff
      <3> HIDE DEF r
      <3>4. /\ All' \in Seq(Line) /\ Len(All') = Len(file) + 1 + Len(r)
            /\ \A k \in 1..Len(All') :
                 All'[k] = IF k <= Len(file) + 1 THEN Append(file, l)[k] ELSE r[k - (Len(file) + 1)]
        BY <3>3, ConcatProperties
      <3>5. /\ Len(All) = Len(file) + Len(r)
            /\ \A k \in 1..Len(All) : All[k] = IF k <= Len(file) THEN file[k] ELSE r[k - Len(file)]
        BY <1>0, <1>a, <3>3, ConcatProperties DEF r
      <3>6. Inserted(All, All', l, Len(file) + 1)
        <4>1. Len(file) \in Nat /\ Len(r) \in Nat
          BY <1>0, <3>3
        <4>2. All'[Len(file) + 1] = l
          BY <1>0, <3>4, <4>1
        <4>3. ASSUME NEW k \in 1..Len(file) PROVE All'[k] = All[k]
          <5>1. All'[k] = Append(file, l)[k]
            BY <3>4, <4>1
          <5>2. All[k] = file[k]
            BY <3>5, <4>1
          <5>3. Append(file, l)[k] = file[k]
            BY <1>0, <3>2
          <5> QED BY <5>1, <5>2, <5>3
        <4>4. ASSUME NEW k \in (Len(file) + 1)..Len(All) PROVE All'[k + 1] = All[k]
          <5>1. (k + 1) - (Len(file) + 1) = k - Len(file)
            BY <4>1, <3>5
          <5>2. All'[k + 1] = r[(k + 1) - (Len(file) + 1)]
            BY <3>4, <3>5, <4>1
          <5>3. All[k] = r[k - Len(file)]
            BY <3>5, <4>1
          <5> QED BY <5>1, <5>2, <5>3
        <4> QED BY <3>4, <3>5, <4>1, <4>2, <4>3, <4>4 DEF Inserted
      <3> DEFINE p == Len(file) + 1
      <3>7. p \in Nat /\ Inserted(All, All', l, p) /\ (~l.async \/ p = Len(All) + 1)
        BY <1>0, <3>2, <3>6
      <3>8. /\ pc[w] \in {"full", "push"} /\ pc' = [pc EXCEPT ![w] = "flush"]
            /\ UNCHANGED <<logged, line, hand, dtor>>
        BY <3>1
      <3>9. (deq' = deq \/ isAsync) /\ (NotifyConsumer \/ UNCHANGED reader)
        BY <3>1
      <3> HIDE DEF All, p
      <3> QED BY <1>3, <3>2, <3>4, <3>7, <3>8, <3>9
    <2> QED BY <2>1, <2>2
  <1>5. CASE PushBack(w)
    <2> DEFINE l == [no |-> line[w], async |-> TRUE]
    <2>1. /\ deq' = Append(deq, l) /\ UNCHANGED <<file, hand, logged, line, dtor>>
          /\ pc' = [pc EXCEPT ![w] = "flush"] /\ pc[w] = "push" /\ NotifyConsumer
      BY <1>0, <1>5 DEF PushBack, fileVars
    <2>2. l \in Line /\ l.no = line[w]
      BY <1>0 DEF Line
    <2> HIDE DEF l
    <2>3. All' = Append(All, l)
      <3>1. All' = (file \o hand) \o Append(deq, l) /\ file \o hand \in Seq(Line)
        BY <1>0, <2>1, ConcatProperties DEF All
      <3> QED BY <1>0, <2>2, <3>1 DEF All
    <2>4. All' \in Seq(Line) /\ Inserted(All, All', l, Len(All) + 1)
      BY <1>a, <2>2, <2>3 DEF Inserted
    <2> DEFINE p == Len(All) + 1
    <2>5. p \in Nat /\ isAsync
      BY <1>a, <2>1 DEF LineInv
    <2>6. Inserted(All, All', l, p) /\ (~l.async \/ p = Len(All) + 1)
      BY <2>4
    <2>8. deq' = deq \/ isAsync
      BY <2>5
    <2>9. NotifyConsumer \/ UNCHANGED reader
      BY <2>1
    <2>7. pc[w] \in {"full", "push"} /\ pc' = [pc EXCEPT ![w] = "flush"]
          /\ UNCHANGED <<logged, line, hand, dtor>> /\ NotifyConsumer
      BY <2>1
    <2> HIDE DEF p
    <2> HIDE DEF All
    <2> QED BY <1>3, <2>2, <2>4, <2>5, <2>6, <2>7, <2>8, <2>9
  <1> QED BY <1>1, <1>2, <1>4, <1>5 DEF write

\* The steps of the write thread: a line moves from the queue to the hand, and
\* from there to the file, and keeps its place among all the lines.
LEMMA ReaderLine ==
  ASSUME IInv, LineInv, AsyncWrite_ \/ SpuriousWakeup
  PROVE  LineInv'
  <1>0. /\ \A v \in Writers : pc[v] # "blocked"
        /\ file \in Seq(Line) /\ hand \in Seq(Line) /\ deq \in Seq(Line)
    BY DEF IInv, TypeOK, PushNeverBlocks
  <1>1. CASE Pop
    <2>1. /\ hand' = <<Head(deq)>> /\ deq' = Tail(deq) /\ deq # << >> /\ hand = << >>
          /\ UNCHANGED <<file, line, logged, dtor>> /\ pc' = pc
          /\ reader' = "print" /\ reader # "done"
      BY <1>1, NoProducer DEF Pop, LineInv, fileVars
    <2>2. All' = All
      BY <1>0, <2>1 DEF All
    <2> QED BY <1>0, <2>1, <2>2, LineFrame DEF LineInv
  <1>2. CASE Fputs
    <2>1. /\ file' = file \o hand /\ hand' = << >> /\ reader = "print" /\ reader' = "pop"
          /\ UNCHANGED <<deq, pc, line, logged, dtor>>
      BY <1>2 DEF Fputs, dequeVars, writerVars
    <2>2. (file \o hand) \o << >> = file \o hand
      BY <1>0, ConcatProperties, ConcatEmptySeq
    <2>3. All' = All
      BY <2>1, <2>2 DEF All
    <2> QED BY <1>0, <2>1, <2>3, LineFrame DEF LineInv
  <1>3. CASE PopWaits \/ PopClosed \/ SpuriousWakeup
    <2>1. /\ UNCHANGED <<file, hand, deq, pc, line, logged, dtor>>
          /\ reader \notin {"print", "done"} /\ reader' # "print"
      BY <1>3 DEF PopWaits, PopClosed, SpuriousWakeup, dequeVars, fileVars, writerVars
    <2>2. All' = All
      BY <2>1 DEF All
    <2> QED BY <1>0, <2>1, <2>2, LineFrame DEF LineInv
  <1> QED BY <1>1, <1>2, <1>3 DEF AsyncWrite_

\* The steps of ~Log: the queue it closes is empty.
LEMMA DestructorLine ==
  ASSUME IInv, LineInv, Exit \/ Destructor
  PROVE  LineInv'
  <1>1. /\ UNCHANGED <<file, hand, line, logged>> /\ pc' = pc /\ deq' = deq
        /\ NotifyConsumer \/ UNCHANGED reader
    <2>1. CASE CloseDeque
      BY <2>1 DEF CloseDeque, fileVars, writerVars, LineInv
    <2>2. CASE CloseNotify
      BY <2>2, NoProducer DEF CloseNotify, fileVars, dequeVars
    <2>3. CASE Exit \/ Drain \/ Join \/ Fclose
      BY <2>3 DEF Exit, Drain, Join, Fclose, dequeVars, fileVars, writerVars
    <2> QED BY <2>1, <2>2, <2>3 DEF Destructor
  <1>2. \A v \in Writers : pc[v] = "idle"
    BY DEF Exit, Destructor, Drain, CloseDeque, CloseNotify, Join, Fclose, LineInv
  <1>3. /\ dtor' \notin {"alive", "drain"} => deq = << >>
        /\ dtor' \in {"fclose", "end"} => reader = "done"
    BY DEF Exit, Destructor, Drain, CloseDeque, CloseNotify, Join, Fclose, LineInv
  <1>4. All' = All
    BY <1>1 DEF All
  <1> QED BY <1>1, <1>2, <1>3, <1>4, NotifyLine, LineFrame DEF LineInv

\* LineInv holds at the start and is kept by every step.
LEMMA InitLine == Init => LineInv
  <1> SUFFICES ASSUME Init PROVE LineInv
    OBVIOUS
  <1>1. All = << >> /\ logged = 0
    BY DEF Init, All
  <1>2. Distinct(All) /\ Ordered(All) /\ Numbers(All) = {} /\ 1..logged = {}
    BY <1>1 DEF Distinct, Ordered, Numbers
  <1> QED BY <1>2 DEF Init, LineInv

LEMMA NextLine == IInv /\ IInv' /\ LineInv /\ [Next]_vars => LineInv'
  <1> SUFFICES ASSUME IInv, IInv', LineInv, [Next]_vars PROVE LineInv'
    OBVIOUS
  <1>1. CASE Midnight \/ UNCHANGED vars
    <2>1. UNCHANGED <<file, hand, deq, pc, line, logged, reader, dtor>>
      BY <1>1 DEF Midnight, vars, dequeVars, fileVars, writerVars
    <2>2. All' = All /\ \A v \in Writers : pc[v] # "blocked"
      BY <2>1 DEF All, IInv, PushNeverBlocks
    <2> QED BY <2>1, <2>2, LineFrame DEF LineInv
  <1> QED BY <1>1, WriterLine, ReaderLine, DestructorLine DEF Next

\* No line is lost and none is written twice, for any number of threads, any
\* capacity and any number of lines; ~Log closes the file with all of them in
\* it (log.cpp:145-153, 180-191, and ~Log).
THEOREM LinesOnceCorrect == Spec => []LinesOnce
  <1>1. Spec => [](IInv /\ LineInv)
    <2>1. IInv /\ LineInv /\ [Next]_vars => IInv' /\ LineInv'
      BY NextInv, NextLine
    <2> QED BY <2>1, InitInv, InitLine, PTL DEF Spec
  <1>2. IInv /\ LineInv => LinesOnce
    <2> SUFFICES ASSUME IInv, LineInv PROVE LinesOnce
      OBVIOUS
    <2>0. file \in Seq(Line) /\ hand \in Seq(Line) /\ deq \in Seq(Line) /\ logged \in Nat
      BY DEF IInv, TypeOK
    <2>1. All \in Seq(Line)
      BY <2>0, ConcatProperties DEF All
    <2>2. Len(All) = Cardinality(Numbers(All))
      BY <2>1, CountLines DEF LineInv
    <2>3. ASSUME dtor \in {"fclose", "end"} PROVE Len(file) = logged
      <3>1. deq = << >> /\ hand = << >> /\ \A w \in Writers : pc[w] = "idle"
        BY <2>3 DEF LineInv
      <3>2. All = file
        BY <2>0, <3>1 DEF All
      <3>3. Numbers(All) = 1..logged
        BY <3>1 DEF LineInv, Pending
      <3>4. Cardinality(1..logged) = logged
        BY <2>0, FS_Interval
      <3> QED BY <2>2, <3>2, <3>3, <3>4
    <2> QED BY <2>2, <2>3 DEF LineInv, LinesOnce, All
  <1> QED BY <1>1, <1>2, PTL

\* The lines that went through the queue reach the file in the order in which
\* they were logged, whoever overtakes them when the queue is full.
THEOREM AsyncInOrderCorrect == Spec => []AsyncInOrder
  <1>1. IInv /\ LineInv /\ [Next]_vars => IInv' /\ LineInv'
    BY NextInv, NextLine
  <1>2. LineInv => AsyncInOrder
    BY DEF LineInv, Ordered, AsyncInOrder, All
  <1> QED BY <1>1, <1>2, InitInv, InitLine, PTL DEF Spec
-----------------------------------------------------------------------------
(* What LinesWritten rests on, whatever the fairness: the write thread is    *)
(* awake while lines wait for it, and each of its steps brings them nearer.  *)

\* The lines that were queued and are not in the file.
Waiting == hand \o deq

\* The write thread never waits, and has not returned, while a line is queued or
\* in its hand (log.cpp:183-191): every push finds it awake or wakes it, since it
\* notifies before it unlocks the deque (blockqueue.h:121-126), and ~Log closes
\* the queue when it is empty (log.cpp:21-24).
NoLineSleeps ==
  /\ Waiting # << >> => isAsync /\ reader \in {"pop", "woken", "print"}
  /\ deq # << >> => ~isClose
  /\ hand # << >> <=> reader = "print"

\* The lines that wait are a FIFO queue that nothing else reorders, shortens or
\* drops: a step appends the last line logged to it, or to the file when the
\* queue is full, or moves the first of them to the end of the file.
LinesMove ==
  \/ Waiting' = Waiting /\ file' = file
  \/ Waiting' = Append(Waiting, [no |-> logged, async |-> TRUE]) /\ file' = file
  \/ Waiting' = Waiting /\ file' = Append(file, [no |-> logged, async |-> FALSE])
  \/ Waiting # << >> /\ Waiting' = Tail(Waiting) /\ file' = Append(file, Head(Waiting))

\* What is left to do before the lines that wait are in the file: a pop for each
\* that is queued, and an fputs for each.
Left == 2 * Len(deq) + Len(hand)

\* With LineInv, what makes NoLineSleeps inductive.
AwakeInv ==
  /\ deq # << >> => reader \in {"pop", "woken", "print"}
  /\ reader = "print" => Len(hand) = 1
  /\ reader = "done" => ~isAsync \/ isClose
  /\ isClose => dtor \notin {"alive", "drain", "close"}

\* A step that queues no line, keeps the hand and at most notifies the reader.
LEMMA AwakeFrame ==
  ASSUME LineInv, AwakeInv, NotifyConsumer \/ UNCHANGED reader,
         UNCHANGED <<deq, hand, isClose>>,
         isClose => dtor' \notin {"alive", "drain", "close"}
  PROVE  AwakeInv'
  <1>1. isAsync' <=> isAsync
    BY DEF isAsync
  <1> QED BY <1>1 DEF AwakeInv, NotifyConsumer

\* AwakeInv is kept by every step of a thread that logs.
LEMMA WriterAwake ==
  ASSUME IInv, IInv', LineInv, AwakeInv, NEW w \in Writers, write(w) \/ flush(w)
  PROVE  AwakeInv'
  <1> USE DEF Goto
  <1>1. pc[w] = "idle" \/ dtor = "alive"
    BY DEF LineInv
  <1>2. CASE PushBack(w)
    <2>0. pc[w] = "push" /\ ~(Len(deq) >= DefaultCapacity)
      BY <1>2, LogAssumption DEF PushBack, IInv, PushNeverBlocks, TypeOK
    <2>1. UNCHANGED <<hand, isClose, dtor>> /\ NotifyConsumer
      BY <1>2, <2>0 DEF PushBack
    <2>2. isAsync /\ ~isClose /\ reader # "done"
      BY <1>1, <2>0 DEF LineInv, AwakeInv
    <2>3. reader' \in {"pop", "woken", "print"} /\ (reader' = "print" <=> reader = "print")
      BY <2>1, <2>2 DEF NotifyConsumer, IInv, TypeOK
    <2> QED BY <1>1, <2>1, <2>2, <2>3 DEF AwakeInv
  <1>3. CASE \/ Begin(w) \/ NewName(w) \/ CloseFile(w) \/ OpenFile(w)
             \/ Format(w) \/ CheckFull(w) \/ flush(w)
    <2>1. UNCHANGED <<deq, hand, isClose, dtor>> /\ (NotifyConsumer \/ UNCHANGED reader)
      BY <1>3 DEF Begin, NewName, CloseFile, OpenFile, Format, CheckFull, flush, dequeVars
    <2> QED BY <2>1, AwakeFrame DEF AwakeInv
  <1> QED BY <1>2, <1>3 DEF write

\* AwakeInv is kept by every step of the write thread.
LEMMA ReaderAwake ==
  ASSUME IInv, LineInv, AwakeInv, AsyncWrite_ \/ SpuriousWakeup
  PROVE  AwakeInv'
  <1>1. CASE Pop
    <2>1. Len(<<Head(deq)>>) = 1
      OBVIOUS
    <2> QED BY <1>1, <2>1 DEF Pop, AwakeInv
  <1>2. CASE PopWaits \/ SpuriousWakeup
    BY <1>2 DEF PopWaits, SpuriousWakeup, AwakeInv, dequeVars
  <1>3. CASE PopClosed
    <2>1. deq = << >>
      BY <1>3 DEF PopClosed, AwakeInv, LineInv
    <2> QED BY <1>3, <2>1 DEF PopClosed, AwakeInv, dequeVars
  <1>4. CASE Fputs
    BY <1>4 DEF Fputs, AwakeInv, dequeVars
  <1> QED BY <1>1, <1>2, <1>3, <1>4 DEF AsyncWrite_

\* AwakeInv is kept by every step.
LEMMA NextAwake == IInv /\ IInv' /\ LineInv /\ AwakeInv /\ [Next]_vars => AwakeInv'
  <1> SUFFICES ASSUME IInv, IInv', LineInv, AwakeInv, [Next]_vars PROVE AwakeInv'
    OBVIOUS
  <1>1. CASE CloseDeque
    BY <1>1 DEF CloseDeque, AwakeInv
  <1>2. CASE Midnight \/ Exit \/ Drain \/ CloseNotify \/ Join \/ Fclose \/ UNCHANGED vars
    <2>1. /\ UNCHANGED <<deq, hand, isClose>> /\ (NotifyConsumer \/ UNCHANGED reader)
          /\ isClose => dtor' \notin {"alive", "drain", "close"}
      BY <1>2 DEF Midnight, Exit, Drain, CloseNotify, Join, Fclose, vars, dequeVars, AwakeInv
    <2> QED BY <2>1, AwakeFrame
  <1> QED BY <1>1, <1>2, WriterAwake, ReaderAwake DEF Next, Destructor

\* The invariants of Log together.
LEMMA LogInvariants == Spec => [](IInv /\ LineInv /\ AwakeInv)
  <1>1. Init => AwakeInv
    BY DEF Init, AwakeInv
  <1>2. IInv /\ LineInv /\ AwakeInv /\ [Next]_vars => IInv' /\ LineInv' /\ AwakeInv'
    BY NextInv, NextLine, NextAwake
  <1> QED BY <1>1, <1>2, InitInv, InitLine, PTL DEF Spec

\* No line sleeps in the queue, for any number of threads, any capacity and any
\* number of lines.
THEOREM NoLineSleepsCorrect == Spec => []NoLineSleeps
  <1>1. IInv /\ LineInv /\ AwakeInv => NoLineSleeps
    <2> SUFFICES ASSUME IInv, LineInv, AwakeInv PROVE NoLineSleeps
      OBVIOUS
    <2>0. hand \in Seq(Line) /\ deq \in Seq(Line)
      BY DEF IInv, TypeOK
    <2>1. hand # << >> <=> reader = "print"
      BY <2>0 DEF LineInv, AwakeInv
    <2>2. Waiting # << >> => hand # << >> \/ deq # << >>
      BY <2>0 DEF Waiting
    <2>3. deq # << >> => ~isClose
      BY DEF LineInv, AwakeInv
    <2> QED BY <2>1, <2>2, <2>3 DEF NoLineSleeps, LineInv, AwakeInv
  <1> QED BY <1>1, LogInvariants, PTL

\* Where the step of each thread leaves the lines that wait.
LEMMA StepMoves == IInv /\ IInv' /\ LineInv /\ AwakeInv /\ [Next]_vars => LinesMove
  <1> SUFFICES ASSUME IInv, IInv', LineInv, AwakeInv, [Next]_vars PROVE LinesMove
    OBVIOUS
  <1>0. hand \in Seq(Line) /\ deq \in Seq(Line) /\ file \in Seq(Line)
    BY DEF IInv, TypeOK
  <1>1. ASSUME UNCHANGED <<file, hand, deq>> PROVE LinesMove
    BY <1>1 DEF LinesMove, Waiting
  <1>2. ASSUME NEW w \in Writers, PushBack(w) PROVE LinesMove
    <2>0. pc[w] = "push" /\ ~(Len(deq) >= DefaultCapacity)
      BY <1>2, LogAssumption DEF PushBack, IInv, PushNeverBlocks, TypeOK
    <2>1. /\ line[w] = logged /\ UNCHANGED <<hand, file>>
          /\ deq' = Append(deq, [no |-> line[w], async |-> TRUE])
      BY <1>2, <2>0 DEF PushBack, LineInv, fileVars
    <2>2. [no |-> line[w], async |-> TRUE] \in Line
      BY DEF IInv, TypeOK, Line
    <2>3. hand \o Append(deq, [no |-> line[w], async |-> TRUE]) =
            Append(hand \o deq, [no |-> line[w], async |-> TRUE])
      BY <1>0, <2>2
    <2> QED BY <2>1, <2>3 DEF LinesMove, Waiting
  <1>3. ASSUME NEW w \in Writers, CheckFull(w) PROVE LinesMove
    <2>1. line[w] = logged /\ UNCHANGED <<hand, deq>>
          /\ (file' = file \/ file' = Append(file, [no |-> line[w], async |-> FALSE]))
      BY <1>3 DEF CheckFull, LineInv, dequeVars
    <2> QED BY <2>1 DEF LinesMove, Waiting
  <1>4. CASE Pop
    <2>1. /\ hand = << >> /\ deq # << >> /\ UNCHANGED file
          /\ hand' = <<Head(deq)>> /\ deq' = Tail(deq)
      BY <1>4 DEF Pop, LineInv, fileVars
    <2>2. <<Head(deq)>> \o Tail(deq) = << >> \o deq
      BY <1>0, <2>1
    <2> QED BY <2>1, <2>2 DEF LinesMove, Waiting
  <1>5. CASE Fputs
    <2>1. /\ Len(hand) = 1 /\ UNCHANGED deq
          /\ file' = file \o hand /\ hand' = << >>
      BY <1>5 DEF Fputs, AwakeInv, dequeVars
    <2>2. hand = <<hand[1]>> /\ hand[1] \in Line
      <3>0. 1 \in 1..Len(hand)
        BY <2>1
      <3>1. hand[1] \in Line
        BY <1>0, <3>0, ElementOfSeq
      <3>2. ASSUME NEW x \in Line
            PROVE  <<x>> \in Seq(Line) /\ Len(<<x>>) = 1 /\ <<x>>[1] = x
        OBVIOUS
      <3>3. \A k \in 1..Len(hand) : hand[k] = <<hand[1]>>[k]
        BY <2>1, <3>1, <3>2
      <3> QED BY <1>0, <2>1, <3>1, <3>2, <3>3, SeqEqual
    <2>3. ASSUME NEW x \in Line
          PROVE  /\ <<x>> \o deq # << >> /\ Tail(<<x>> \o deq) = << >> \o deq
                 /\ Head(<<x>> \o deq) = x /\ file \o <<x>> = Append(file, x)
      <3>1. /\ Len(<<x>> \o deq) = Len(deq) + 1 /\ (<<x>> \o deq)[1] = x
            /\ \A k \in 1..Len(deq) : (<<x>> \o deq)[k + 1] = deq[k]
            /\ <<x>> \o deq \in Seq(Line)
        BY <1>0
      <3>2. Tail(<<x>> \o deq) = deq /\ << >> \o deq = deq
        BY <1>0, <3>1
      <3>3. file \o <<x>> = Append(file, x)
        BY <1>0
      <3> QED BY <1>0, <3>1, <3>2, <3>3
    <2>4. /\ hand \o deq # << >> /\ Tail(hand \o deq) = << >> \o deq
          /\ Head(hand \o deq) = hand[1] /\ file \o hand = Append(file, hand[1])
      BY <2>2, <2>3
    <2> QED BY <2>1, <2>4 DEF LinesMove, Waiting
  <1>6. CASE CloseDeque
    BY <1>1, <1>6 DEF CloseDeque, LineInv, fileVars
  <1>7. ASSUME NEW w \in Writers,
               Begin(w) \/ NewName(w) \/ CloseFile(w) \/ OpenFile(w) \/ Format(w) \/ flush(w)
        PROVE  LinesMove
    BY <1>1, <1>7 DEF Begin, NewName, CloseFile, OpenFile, Format, flush, dequeVars, fileVars
  <1>8. CASE \/ PopWaits \/ PopClosed \/ SpuriousWakeup \/ Midnight \/ Exit \/ Drain
             \/ CloseNotify \/ Join \/ Fclose \/ UNCHANGED vars
    BY <1>1, <1>8 DEF PopWaits, PopClosed, SpuriousWakeup, Midnight, Exit, Drain, CloseNotify,
                      Join, Fclose, vars, dequeVars, fileVars
  <1> QED BY <1>2, <1>3, <1>4, <1>5, <1>6, <1>7, <1>8
          DEF Next, write, AsyncWrite_, Destructor

\* Between the push and the file a line is never overtaken by another that was
\* queued, dropped or written twice.
THEOREM LinesMoveCorrect == Spec => [][LinesMove]_vars
  <1>1. IInv /\ LineInv /\ AwakeInv /\ [Next]_vars => IInv' /\ LineInv' /\ AwakeInv'
    BY NextInv, NextLine, NextAwake
  <1>2. IInv /\ IInv' /\ LineInv /\ AwakeInv /\ [Next]_vars => LinesMove
    BY StepMoves
  <1> QED BY <1>1, <1>2, LogInvariants, PTL DEF Spec

\* Each step of the write thread while lines wait brings them nearer to the file:
\* it never waits or returns then, and nobody but a push makes the way longer.
THEOREM ReaderAdvances ==
  Spec => [][/\ AsyncWrite_ /\ Waiting # << >> => Left' = Left - 1
             /\ Left' > Left => \E w \in Writers : PushBack(w)]_vars
  <1> DEFINE A == /\ AsyncWrite_ /\ Waiting # << >> => Left' = Left - 1
                  /\ Left' > Left => \E w \in Writers : PushBack(w)
  <1>1. IInv /\ LineInv /\ AwakeInv /\ [Next]_vars => IInv' /\ LineInv' /\ AwakeInv'
    BY NextInv, NextLine, NextAwake
  <1>2. IInv /\ LineInv /\ AwakeInv /\ [Next]_vars => A \/ UNCHANGED vars
    <2> SUFFICES ASSUME IInv, LineInv, AwakeInv, Next PROVE A
      OBVIOUS
    <2>0. hand \in Seq(Line) /\ deq \in Seq(Line) /\ Left \in Nat
          /\ (Waiting # << >> => hand # << >> \/ deq # << >>)
      BY DEF IInv, TypeOK, Waiting, Left
    <2>1. ASSUME UNCHANGED <<hand, deq>> PROVE Left' = Left
      BY <2>1 DEF Left
    <2>2. CASE Pop
      <3>1. hand = << >> /\ deq # << >> /\ hand' = <<Head(deq)>> /\ deq' = Tail(deq)
        BY <2>2 DEF Pop, LineInv
      <3>2. Len(<<Head(deq)>>) = 1 /\ Len(Tail(deq)) = Len(deq) - 1 /\ Len(hand) = 0
        BY <2>0, <3>1
      <3>3. Left' = Left - 1
        BY <2>0, <3>1, <3>2 DEF Left
      <3> QED BY <2>0, <3>3
    <2>3. CASE Fputs
      <3>1. Len(hand) = 1 /\ hand' = << >> /\ deq' = deq
        BY <2>3 DEF Fputs, AwakeInv, dequeVars
      <3>2. Left' = Left - 1
        BY <2>0, <3>1 DEF Left
      <3> QED BY <2>0, <3>2
    <2>4. CASE PopWaits \/ PopClosed
      <3>1. Waiting = << >> /\ UNCHANGED <<hand, deq>>
        BY <2>0, <2>4 DEF PopWaits, PopClosed, LineInv, AwakeInv, dequeVars
      <3> QED BY <2>0, <2>1, <3>1
    <2>5. ASSUME ~AsyncWrite_ PROVE A
      <3>1. CASE \E w \in Writers : PushBack(w)
        BY <2>5, <3>1
      <3>2. CASE CloseDeque
        <4>1. UNCHANGED <<hand, deq>>
          BY <3>2 DEF CloseDeque, LineInv
        <4> QED BY <2>0, <2>1, <2>5, <4>1
      <3>3. ASSUME NEW w \in Writers,
                   \/ Begin(w) \/ NewName(w) \/ CloseFile(w) \/ OpenFile(w)
                   \/ Format(w) \/ CheckFull(w) \/ flush(w)
            PROVE  UNCHANGED <<hand, deq>>
        BY <3>3 DEF Begin, NewName, CloseFile, OpenFile, Format, CheckFull, flush, dequeVars
      <3>4. CASE SpuriousWakeup \/ Midnight \/ Exit \/ Drain \/ CloseNotify \/ Join \/ Fclose
        <4>1. UNCHANGED <<hand, deq>>
          BY <3>4 DEF SpuriousWakeup, Midnight, Exit, Drain, CloseNotify, Join, Fclose, dequeVars
        <4> QED BY <2>0, <2>1, <2>5, <4>1
      <3> QED BY <2>0, <2>1, <2>5, <3>1, <3>2, <3>3, <3>4 DEF Next, write, Destructor
    <2> QED BY <2>2, <2>3, <2>4, <2>5 DEF AsyncWrite_
  <1> QED BY <1>1, <1>2, LogInvariants, PTL DEF Spec
=============================================================================
