-------------------------------- MODULE Log --------------------------------
(***************************************************************************)
(* The asynchronous log: Log::write and Log::flush called by any thread,   *)
(* the thread that runs AsyncWrite_, the destructor, and the BlockDeque    *)
(* between them.  One step is one critical section of the deque's mutex,   *)
(* or of Log::mtx_ (held in mtx when it spans several steps).              *)
(***************************************************************************)
EXTENDS Integers, Sequences, FiniteSets

CONSTANTS
  Writers,          \* threads that log
  None,
  MaxQueueSize,     \* the argument of init: 0 is synchronous, nothing else depends on it
  DefaultCapacity,  \* the default of BlockDeque's constructor
  LinesPerFile,     \* MAX_LINES
  MaxLog, MaxDay    \* bounds: lines that are logged, midnights

ASSUME LogAssumption ==
  /\ None \notin Writers /\ {MaxQueueSize, MaxLog, MaxDay} \subseteq Nat
  /\ {DefaultCapacity, LinesPerFile} \subseteq Nat \ {0}

VARIABLES
  deq, isClose,      \* BlockDeque: deq_, isClose_
  mtx,               \* the thread that holds Log::mtx_
  lineCount,         \* lineCount_
  today, toDay,      \* the date, toDay_
  file, open,        \* every line written, in all files together; fp_ is open
  pc, line, day,     \* each writer: where it is, its line, the date in its t
  logged,            \* lines numbered so far, in the order of the lock
  reader, hand,      \* the write thread, the lines it has popped
  dtor               \* ~Log

dequeVars == <<deq, isClose>>
dateVars == <<today, toDay>>
fileVars == <<file, open>>
writerVars == <<pc, line, day, logged>>
vars == <<dequeVars, mtx, lineCount, dateVars, fileVars, writerVars, reader, hand, dtor>>

isAsync == MaxQueueSize > 0
Line == [no : Nat, async : BOOLEAN]

\* After init.
Init ==
  /\ deq = << >> /\ isClose = FALSE /\ mtx = None /\ lineCount = 0
  /\ today = 0 /\ toDay = 0 /\ file = << >> /\ open = TRUE
  /\ pc = [w \in Writers |-> "idle"] /\ line = [w \in Writers |-> 0]
  /\ day = [w \in Writers |-> 0] /\ logged = 0
  /\ reader = IF isAsync THEN "pop" ELSE "done"
  /\ hand = << >> /\ dtor = "alive"

Midnight ==
  /\ today < MaxDay /\ today' = today + 1
  /\ UNCHANGED <<dequeVars, mtx, lineCount, toDay, fileVars, writerVars, reader, hand, dtor>>

Goto(w, l) == pc' = [pc EXCEPT ![w] = l]
\* Mutant: the write thread is not notified.
NotifyNobody == UNCHANGED reader
NotifyConsumer == reader' = IF reader = "wait" THEN "woken" ELSE reader
WakeProducers ==
  pc' = [w \in Writers |-> IF pc[w] = "blocked" THEN "push" ELSE pc[w]]
NotifyProducer ==
  IF \A w \in Writers : pc[w] # "blocked" THEN UNCHANGED pc
  ELSE \E w \in Writers : pc[w] = "blocked" /\ Goto(w, "push")
-----------------------------------------------------------------------------
(* LOG_BASE: write, then flush.                                             *)

\* The date is taken first; toDay_ and lineCount_ are read without the mutex.
Begin(w) ==
  /\ pc[w] = "idle" /\ dtor = "alive"
  /\ logged + Cardinality({v \in Writers : pc[v] \in {"name", "rotate", "reopen", "lock"}}) < MaxLog
  /\ day' = [day EXCEPT ![w] = today]
  /\ Goto(w, IF toDay # today \/ (lineCount > 0 /\ lineCount % LinesPerFile = 0)
               THEN "name" ELSE "lock")
  /\ UNCHANGED <<dequeVars, mtx, lineCount, dateVars, fileVars, line, logged,
                 reader, hand, dtor>>

\* The mutex is locked and unlocked again, so this runs without it.
NewName(w) ==
  /\ pc[w] = "name" /\ mtx = None
  /\ toDay' = day[w]
  /\ lineCount' = IF toDay # day[w] THEN 0 ELSE lineCount
  /\ Goto(w, "rotate")
  /\ UNCHANGED <<dequeVars, mtx, today, fileVars, line, day, logged, reader, hand, dtor>>

\* flush, fclose ...
CloseFile(w) ==
  /\ pc[w] = "rotate" /\ mtx = None
  /\ mtx' = w /\ open' = FALSE
  /\ IF isAsync THEN NotifyConsumer ELSE UNCHANGED reader
  /\ Goto(w, "reopen")
  /\ UNCHANGED <<dequeVars, lineCount, dateVars, file, line, day, logged, hand, dtor>>

\* ... and fopen of the next file.
OpenFile(w) ==
  /\ pc[w] = "reopen"
  /\ mtx' = None /\ open' = TRUE
  /\ Goto(w, "lock")
  /\ UNCHANGED <<dequeVars, lineCount, dateVars, file, line, day, logged, reader, hand, dtor>>

Format(w) ==
  /\ pc[w] = "lock" /\ mtx = None
  /\ mtx' = w
  /\ lineCount' = lineCount + 1
  /\ logged' = logged + 1
  /\ line' = [line EXCEPT ![w] = logged']
  /\ Goto(w, "full")
  /\ UNCHANGED <<dequeVars, dateVars, fileVars, day, reader, hand, dtor>>

\* Mutant: full() is not asked.
HasAlwaysRoom == isAsync
HasRoom == isAsync /\ Len(deq) < DefaultCapacity

CheckFull(w) ==
  /\ pc[w] = "full"
  /\ IF HasRoom
       THEN Goto(w, "push") /\ UNCHANGED <<mtx, file>>
       ELSE /\ file' = Append(file, [no |-> line[w], async |-> FALSE])
            /\ mtx' = None /\ Goto(w, "flush")
  /\ UNCHANGED <<dequeVars, lineCount, dateVars, open, line, day, logged, reader, hand, dtor>>

\* Mutant: push_front.
PushFront(w) ==
  /\ pc[w] = "push" /\ Len(deq) < DefaultCapacity
  /\ deq' = <<[no |-> line[w], async |-> TRUE]>> \o deq
  /\ NotifyConsumer
  /\ mtx' = None /\ Goto(w, "flush")
  /\ UNCHANGED <<isClose, lineCount, dateVars, fileVars, line, day, logged, hand, dtor>>

\* BlockDeque::push_back waits, and Log::mtx_ stays locked.
PushBack(w) ==
  /\ pc[w] = "push"
  /\ IF Len(deq) >= DefaultCapacity
       THEN Goto(w, "blocked") /\ UNCHANGED <<deq, mtx, reader>>
       ELSE /\ deq' = Append(deq, [no |-> line[w], async |-> TRUE])
            /\ NotifyConsumer
            /\ mtx' = None /\ Goto(w, "flush")
  /\ UNCHANGED <<isClose, lineCount, dateVars, fileVars, line, day, logged, hand, dtor>>

write(w) ==
  \/ Begin(w) \/ NewName(w) \/ CloseFile(w) \/ OpenFile(w)
  \/ Format(w) \/ CheckFull(w) \/ PushBack(w)

\* Log::flush, without Log::mtx_; fflush changes nothing here.
flush(w) ==
  /\ pc[w] = "flush"
  /\ IF isAsync THEN NotifyConsumer ELSE UNCHANGED reader
  /\ Goto(w, "idle")
  /\ UNCHANGED <<dequeVars, mtx, lineCount, dateVars, fileVars, line, day, logged, hand, dtor>>
-----------------------------------------------------------------------------
(* AsyncWrite_.  BlockDeque::pop looks at isClose_ only after a wait.       *)

Pop ==
  /\ reader \in {"pop", "woken"}
  /\ ~(reader = "woken" /\ isClose)
  /\ deq # << >>
  /\ hand' = <<Head(deq)>> /\ deq' = Tail(deq)
  /\ reader' = "print"
  /\ NotifyProducer
  /\ UNCHANGED <<isClose, mtx, lineCount, dateVars, fileVars, line, day, logged, dtor>>

PopWaits ==
  /\ reader \in {"pop", "woken"}
  /\ ~(reader = "woken" /\ isClose)
  /\ deq = << >>
  /\ reader' = "wait"
  /\ UNCHANGED <<dequeVars, mtx, lineCount, dateVars, fileVars, writerVars, hand, dtor>>

PopClosed ==
  /\ reader = "woken" /\ isClose
  /\ reader' = "done"
  /\ UNCHANGED <<dequeVars, mtx, lineCount, dateVars, fileVars, writerVars, hand, dtor>>

Fputs ==
  /\ reader = "print" /\ mtx = None
  /\ file' = file \o hand /\ hand' = << >>
  /\ reader' = "pop"
  /\ UNCHANGED <<dequeVars, mtx, lineCount, dateVars, open, writerVars, dtor>>

AsyncWrite_ == Pop \/ PopWaits \/ PopClosed \/ Fputs

SpuriousWakeup ==
  /\ reader = "wait" /\ reader' = "woken"
  /\ UNCHANGED <<dequeVars, mtx, lineCount, dateVars, fileVars, writerVars, hand, dtor>>
-----------------------------------------------------------------------------
(* ~Log, when nobody logs any more.                                         *)

Exit ==
  /\ dtor = "alive" /\ \A w \in Writers : pc[w] = "idle"
  /\ dtor' = IF isAsync THEN "drain" ELSE "fclose"
  /\ UNCHANGED <<dequeVars, mtx, lineCount, dateVars, fileVars, writerVars, reader, hand>>

\* Mutant: the queue is closed with lines in it.
DrainNothing ==
  /\ dtor = "drain" /\ dtor' = "close"
  /\ UNCHANGED <<dequeVars, mtx, lineCount, dateVars, fileVars, writerVars, reader, hand>>

Drain ==
  /\ dtor = "drain"
  /\ IF deq # << >> THEN NotifyConsumer /\ UNCHANGED dtor
                    ELSE dtor' = "close" /\ UNCHANGED reader
  /\ UNCHANGED <<dequeVars, mtx, lineCount, dateVars, fileVars, writerVars, hand>>

CloseDeque ==
  /\ dtor = "close" /\ dtor' = "notify"
  /\ deq' = << >> /\ isClose' = TRUE
  /\ UNCHANGED <<mtx, lineCount, dateVars, fileVars, writerVars, reader, hand>>

CloseNotify ==
  /\ dtor = "notify" /\ dtor' = "join"
  /\ WakeProducers /\ NotifyConsumer
  /\ UNCHANGED <<dequeVars, mtx, lineCount, dateVars, fileVars, line, day, logged, hand>>

Join ==
  /\ dtor = "join" /\ reader = "done" /\ dtor' = "fclose"
  /\ UNCHANGED <<dequeVars, mtx, lineCount, dateVars, fileVars, writerVars, reader, hand>>

Fclose ==
  /\ dtor = "fclose" /\ mtx = None
  /\ open' = FALSE /\ dtor' = "end"
  /\ UNCHANGED <<dequeVars, mtx, lineCount, dateVars, file, writerVars, reader, hand>>

Destructor == Drain \/ CloseDeque \/ CloseNotify \/ Join \/ Fclose

Next ==
  \/ \E w \in Writers : write(w) \/ flush(w)
  \/ AsyncWrite_ \/ SpuriousWakeup \/ Exit \/ Destructor \/ Midnight

Spec == Init /\ [][Next]_vars

\* Threads are scheduled; nobody has to log, and wakeups are not promised.
FairSpec ==
  /\ Spec
  /\ \A w \in Writers : WF_vars((write(w) \/ flush(w)) /\ pc[w] # "idle")
  /\ WF_vars(AsyncWrite_) /\ WF_vars(Destructor)
-----------------------------------------------------------------------------
(* Properties. *)

\* Types; a thread inside Log::mtx_ is the one that holds it, and the file is
\* only closed while the mutex is held for a rotation, or at the end.
TypeOK ==
  /\ deq \in Seq(Line) /\ isClose \in BOOLEAN
  /\ mtx \in Writers \union {None} /\ lineCount \in Nat
  /\ today \in Nat /\ toDay \in Nat
  /\ file \in Seq(Line) /\ open \in BOOLEAN
  /\ pc \in [Writers -> {"idle", "name", "rotate", "reopen", "lock", "full", "push",
                         "blocked", "flush"}]
  /\ line \in [Writers -> Nat] /\ day \in [Writers -> Nat] /\ logged \in Nat
  /\ reader \in {"pop", "wait", "woken", "print", "done"}
  /\ hand \in Seq(Line)
  /\ dtor \in {"alive", "drain", "close", "notify", "join", "fclose", "end"}
  /\ \A w \in Writers :
       pc[w] \in {"reopen", "full", "push", "blocked"} <=> mtx = w
  /\ \A w \in Writers : pc[w] = "reopen" => ~open
  /\ ~open => dtor = "end" \/ \E w \in Writers : pc[w] = "reopen"

\* full() and push_back lock the deque separately, but only the holder of
\* Log::mtx_ pushes: push_back never waits with that mutex locked, which the
\* reader would need before it pops again (log.cpp:145-146, 184).
PushNeverBlocks ==
  \A w \in Writers : pc[w] # "blocked" /\ (pc[w] = "push" => Len(deq) < DefaultCapacity)

Pending == {n \in 1..logged : \E w \in Writers : pc[w] \in {"full", "push", "blocked"} /\ line[w] = n}
Numbers(s) == {s[k].no : k \in 1..Len(s)}

\* No line is lost or written twice: every line whose write has ended is in the
\* file, in the reader's hand or in the queue, in one place only; ~Log closes
\* the queue when nothing is left in it.
LinesOnce ==
  LET all == file \o hand \o deq IN
  /\ Numbers(all) = (1..logged) \ Pending
  /\ Len(all) = Cardinality(Numbers(all))
  /\ dtor \in {"fclose", "end"} => Len(file) = logged

\* The lines that went through the queue reach the file in the order in which
\* they were logged; only a line that found the queue full overtakes them.
AsyncInOrder ==
  LET all == file \o hand \o deq IN
  \A j, k \in 1..Len(all) :
    j < k /\ all[j].async /\ all[k].async => all[j].no < all[k].no

\* Every line that was queued is written in the end.
LinesWritten ==
  \A n \in 1..MaxLog : (n \in Numbers(deq)) ~> (n \in Numbers(file))

\* ~Log returns: the process can end (test/test.cpp:55-58).
ExitReturns == (dtor # "alive") ~> (dtor = "end")
=============================================================================
