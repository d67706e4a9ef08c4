-------------------------- MODULE WebServer_proofs --------------------------
(* Machine-checked safety of the reactor, for any number of descriptors,    *)
(* workers and clients.                                                     *)
EXTENDS ConnectionHolders, SequenceTheorems, FiniteSetTheorems, TLAPS

USE FdsAssumption, ThreadAssumption, BoundAssumption, FlagAssumption
    DEF listenVars, kernVars, connVars, loopVars
-----------------------------------------------------------------------------
(* Type correctness. *)

\* The initial state is well typed.
LEMMA InitTypeOK == Init => TypeOK
  <1> SUFFICES ASSUME Init PROVE TypeOK
    OBVIOUS
  <1>1. KernelType
    BY DEF Init, KernelType
  <1>2. ConnType
    <2>1. iov0 \in [Fds -> Nat]
      BY DEF Init
    <2> QED BY <2>1 DEF Init, ConnType
  <1>3. LoopType
    <2>1. tasks \in Seq(Task)
      BY DEF Init
    <2> QED BY <2>1 DEF Init, LoopType
  <1>4. ThreadType
    BY DEF Init, ThreadType, Threads, Job, NoJob, MainPcs, ClosePcs, WorkPcs
  <1> QED BY <1>1, <1>2, <1>3, <1>4 DEF TypeOK

\* What a thread does to itself when it moves from one pc to the next.
LEMMA GotoType ==
  ASSUME ThreadType, NEW w \in Workers, pc[w] # "idle",
         NEW l \in WorkPcs, Goto(w, l), len' \in [Workers -> Nat]
  PROVE  ThreadType'
  BY DEF Goto, ThreadType, Threads, Job, MainPcs, ClosePcs, WorkPcs

\* What a worker does to itself when its task returns.
LEMMA FinishType ==
  ASSUME ThreadType, NEW w \in Workers, Finish(w), len' \in [Workers -> Nat]
  PROVE  ThreadType'
  BY DEF Finish, ThreadType, Threads, Job, NoJob, MainPcs, ClosePcs, WorkPcs

\* The descriptor a thread works on is a client's.
LEMMA WorkOn ==
  ASSUME ThreadType
  PROVE  /\ \A w \in Workers : pc[w] # "idle" => job[w].fd \in Fds /\ job[w].conn \in Nat
         /\ \A t \in Threads : pc[t] \in ClosePcs => job[t].fd \in Fds
         /\ \A t \in Threads : pc[t] \in ClosePcs => (t = Main \/ t \in Workers)
  BY DEF ThreadType, Threads, Job, ClosePcs

\* The steps of CloseConn_ keep the state well typed.
LEMMA CloseTypeOK ==
  ASSUME TypeOK, NEW t \in Threads, CloseConn_(t)
  PROVE  TypeOK'
  <1>1. job[t].fd \in Fds
    BY WorkOn DEF CloseConn_, DelFd, CheckClosed, Close, ClosePcs, TypeOK
  <1>2. KernelType'
    <2>1. CASE DelFd(t)
      BY <1>1, <2>1 DEF DelFd, TypeOK, KernelType
    <2>2. CASE CheckClosed(t)
      BY <2>2 DEF CheckClosed, TypeOK, KernelType
    <2>3. CASE Close(t)
      BY <1>1, <2>3 DEF Close, TypeOK, KernelType
    <2> QED BY <2>1, <2>2, <2>3 DEF CloseConn_
  <1>3. ConnType'
    <2>1. CASE DelFd(t) \/ CheckClosed(t)
      BY <2>1 DEF DelFd, CheckClosed, TypeOK, ConnType
    <2>2. CASE Close(t)
      BY <1>1, <2>2 DEF Close, TypeOK, ConnType
    <2> QED BY <2>1, <2>2 DEF CloseConn_
  <1>4. LoopType'
    BY DEF CloseConn_, DelFd, CheckClosed, Close, TypeOK, LoopType
  <1>5. ThreadType'
    <2>1. after \in {"dispatch", "pop"} /\ ThreadType
      BY DEF TypeOK, LoopType
    <2>2. CASE DelFd(t)
      BY <2>1, <2>2, <1>1 DEF DelFd, ThreadType, Threads, Job, MainPcs, ClosePcs, WorkPcs
    <2>3. CASE pc' = [pc EXCEPT ![t] = AfterClose(t)]
               /\ job' = [job EXCEPT ![t] = AfterJob(t)] /\ len' = len
      <3>1. CASE t = Main
        BY <2>1, <2>3, <3>1, <1>1
        DEF AfterClose, AfterJob, ThreadType, Threads, Job, NoJob, MainPcs, ClosePcs, WorkPcs
      <3>2. CASE t \in Workers
        BY <2>1, <2>3, <3>2, <1>1
        DEF AfterClose, AfterJob, ThreadType, Threads, Job, NoJob, MainPcs, ClosePcs, WorkPcs
      <3> QED BY <3>1, <3>2 DEF Threads
    <2>4. CASE pc' = [pc EXCEPT ![t] = "clr"] /\ job' = job /\ len' = len
      BY <2>1, <2>4, <1>1 DEF ThreadType, Threads, Job, MainPcs, ClosePcs, WorkPcs
    <2> QED BY <2>2, <2>3, <2>4 DEF CloseConn_, CheckClosed, Close
  <1> QED BY <1>2, <1>3, <1>4, <1>5 DEF TypeOK

\* The steps of the main thread keep the state well typed.
LEMMA MainTypeOK ==
  ASSUME TypeOK, MainStep
  PROVE  TypeOK'
  <1> USE DEF TypeOK
  <1>1. ASSUME NEW fd \in Fds, TickFire(fd) PROVE TypeOK'
    <2>1. KernelType' /\ ConnType' /\ LoopType'
      BY <1>1 DEF TickFire, StartClose, KernelType, ConnType, LoopType
    <2>2. sock[fd] \in Nat
      BY DEF KernelType
    <2>3. ThreadType'
      BY <1>1, <2>2 DEF TickFire, StartClose, ThreadType, Threads, Job, MainPcs,
                        ClosePcs, WorkPcs
    <2> QED BY <2>1, <2>3
  <1>2. CASE Pop
    <2>1. KernelType' /\ ConnType'
      BY <1>2 DEF Pop, KernelType, ConnType
    <2>2. LoopType'
      BY <1>2 DEF Pop, LoopType
    <2>3. ThreadType'
      BY <1>2 DEF Pop, ThreadType, Threads, Job, NoJob, MainPcs, ClosePcs, WorkPcs
    <2> QED BY <2>1, <2>2, <2>3
  <1>3. CASE GetNextTick \/ WaitTimeout \/ DispatchDone \/ AcceptNone \/ AcceptBusy
    <2>1. KernelType'
      <3>1. full' = full \/ full' = (backlog > 0) \/ full' = (backlog' > 0)
        BY <1>3 DEF GetNextTick, WaitTimeout, DispatchDone, AcceptNone, AcceptBusy
      <3>2. full \in BOOLEAN
        BY DEF KernelType
      <3>3. (backlog > 0) \in BOOLEAN /\ (backlog' > 0) \in BOOLEAN
        OBVIOUS
      <3>4. full' \in BOOLEAN
        BY <3>1, <3>2, <3>3, Zenon
      <3> QED BY <1>3, <3>4 DEF GetNextTick, WaitTimeout, DispatchDone, AcceptNone,
                                AcceptBusy, KernelType
    <2>2. ConnType'
      BY <1>3 DEF GetNextTick, WaitTimeout, DispatchDone, AcceptNone, AcceptBusy, ConnType
    <2>3. LoopType'
      BY <1>3 DEF GetNextTick, NextTimeout, WaitTimeout, DispatchDone, AcceptNone,
                  AcceptBusy, LoopType
    <2>4. \E l \in MainPcs \ (ClosePcs \union {"pop"}) :
            pc' = [pc EXCEPT ![Main] = l] /\ job' = job /\ len' = len
      BY <1>3 DEF GetNextTick, WaitTimeout, DispatchDone, AcceptNone, AcceptBusy,
                  MainPcs, ClosePcs
    <2>5. ThreadType'
      BY <2>4 DEF ThreadType, Threads, Job, MainPcs, ClosePcs, WorkPcs
    <2> QED BY <2>1, <2>2, <2>3, <2>5
  <1>4. CASE Wait
    <2> PICK W \in SUBSET {fd \in Fds : ep[fd] = "out"} :
          batch' = Ready(W) /\ ep' = Disarmed(Ready(W)) /\ ledge' = FALSE
      BY <1>4 DEF Wait
    <2>1. Ready(W) \subseteq Event
      BY DEF Ready, Event
    <2>2. Disarmed(Ready(W)) \in [Fds -> {"none", "off", "in", "out"}]
      BY DEF Disarmed, KernelType
    <2>3. KernelType' /\ ConnType' /\ LoopType'
      BY <1>4, <2>1, <2>2 DEF Wait, KernelType, ConnType, LoopType
    <2>4. ThreadType'
      BY <1>4 DEF Wait, ThreadType, Threads, Job, MainPcs, ClosePcs, WorkPcs
    <2> QED BY <2>3, <2>4
  <1>5. ASSUME NEW e \in batch, Dispatch(e) PROVE TypeOK'
    <2>1. e \in Event /\ \A fd \in Fds : sock[fd] \in Nat
      BY DEF LoopType, KernelType
    <2>2. KernelType' /\ ConnType'
      BY <1>5 DEF Dispatch, KernelType, ConnType
    <2>3. CASE DispatchListen(e)
      BY <1>5, <2>2, <2>3 DEF Dispatch, DispatchListen, LoopType, ThreadType, Threads,
                              Job, MainPcs, ClosePcs, WorkPcs
    <2>4. CASE DispatchHup(e)
      <3>1. e.fd \in Fds
        BY <2>1, <2>4 DEF DispatchHup, Event
      <3>2. LoopType'
        BY <1>5, <2>4 DEF Dispatch, DispatchHup, StartClose, LoopType
      <3>3. ThreadType'
        BY <1>5, <2>1, <2>4, <3>1 DEF Dispatch, DispatchHup, StartClose, ThreadType,
                                      Threads, Job, MainPcs, ClosePcs, WorkPcs
      <3> QED BY <2>2, <3>2, <3>3
    <2>5. CASE DispatchIo(e)
      <3>1. e.fd \in Fds
        BY <2>1, <2>5 DEF DispatchIo, Event
      <3> DEFINE task == [op |-> IF e.ev = "in" THEN "read" ELSE "write",
                          fd |-> e.fd, conn |-> sock[e.fd]]
      <3>2. task \in Task
        BY <2>1, <3>1 DEF Task
      <3>3. Append(tasks, task) \in Seq(Task)
        BY <3>2, AppendProperties DEF LoopType
      <3> HIDE DEF task
      <3>4. /\ timer' \in [Fds -> {"none", "running", "due"}]
            /\ crash' \in {"none", "adjust", "retrieve", "sigpipe"}
        BY <2>5, <3>1 DEF DispatchIo, DealTask, LoopType
      <3>5. tasks' = tasks \/ tasks' = Append(tasks, task)
        BY <2>5 DEF DispatchIo, DealTask, task
      <3>6. tasks' \in Seq(Task)
        BY <3>3, <3>5 DEF LoopType
      <3>7. LoopType' /\ ThreadType'
        BY <1>5, <2>5, <3>4, <3>6 DEF Dispatch, DispatchIo, LoopType, ThreadType
      <3> QED BY <2>2, <3>7
    <2> QED BY <1>5, <2>3, <2>4, <2>5 DEF Dispatch
  <1>6. ASSUME NEW fd \in Fds, AddClient_(fd) PROVE TypeOK'
    <2>1. KernelType'
      <3>1. full' \in BOOLEAN /\ UNCHANGED <<arrived, ledge>>
        BY <1>6 DEF AddClient_, KernelType
      <3>2. backlog' \in Nat /\ serial' \in Nat
        BY <1>6 DEF AddClient_, KernelType
      <3> QED BY <1>6, <3>1, <3>2 DEF AddClient_, KernelType
    <2>2. ConnType'
      BY <1>6 DEF AddClient_, ConnType
    <2>3. LoopType'
      BY <1>6 DEF AddClient_, LoopType
    <2>4. ThreadType'
      BY <1>6 DEF AddClient_, AfterAccept, ThreadType, Threads, Job, MainPcs,
                  ClosePcs, WorkPcs
    <2> QED BY <2>1, <2>2, <2>3, <2>4
  <1>7. CASE CloseConn_(Main)
    BY <1>7, CloseTypeOK DEF Threads
  <1> QED BY <1>1, <1>2, <1>3, <1>4, <1>5, <1>6, <1>7 DEF MainStep, DealListen_

\* The steps of a worker keep the state well typed.
LEMMA WorkerTypeOK ==
  ASSUME TypeOK, NEW w \in Workers, WorkerStep(w)
  PROVE  TypeOK'
  <1> USE DEF TypeOK
  <1> DEFINE fd == job[w].fd
  <1>0. pc[w] # "idle" => fd \in Fds
    BY DEF ThreadType
  <1>1. CASE Take(w)
    <2>1. Head(tasks) \in Task /\ Tail(tasks) \in Seq(Task)
      BY <1>1, HeadTailProperties DEF Take, LoopType
    <2>2. KernelType' /\ ConnType' /\ LoopType'
      BY <1>1, <2>1 DEF Take, KernelType, ConnType, LoopType
    <2>3. Head(tasks).op \in WorkPcs /\ Head(tasks).fd \in Fds /\ Head(tasks).conn \in Nat
      BY <2>1 DEF Task, WorkPcs
    <2>4. ThreadType'
      BY <1>1, <2>3 DEF Take, ThreadType, Threads, Job, MainPcs, ClosePcs, WorkPcs
    <2> QED BY <2>2, <2>4
  <1>2. CASE Read(w)
    <2>1. KernelType'
      <3>1. rx' \in [Fds -> BOOLEAN]
        BY <1>2 DEF Read, KernelType
      <3> QED BY <1>2, <3>1 DEF Read, KernelType
    <2>8. ConnType'
      <3>1. inbuf' \in [Fds -> BOOLEAN]
        BY <1>2 DEF Read, ConnType
      <3> QED BY <1>2, <3>1 DEF Read, ConnType
    <2>9. LoopType'
      BY <1>2 DEF Read, LoopType
    <2>2. Goto(w, "del") \/ Goto(w, "process")
      BY <1>2 DEF Read
    <2>3. ThreadType'
      BY <1>2, <2>2, GotoType DEF Read, WorkPcs, ClosePcs, ThreadType
    <2> QED BY <2>1, <2>8, <2>9, <2>3
  <1>3. CASE Process(w)
    <2>1. KernelType' /\ LoopType' /\ len' \in [Workers -> Nat]
      BY <1>3 DEF Process, KernelType, LoopType, ThreadType
    <2>2. ConnType'
      <3>1. CASE NothingToProcess(w) \/ NoAnswer(w)
        BY <1>3, <3>1 DEF Process, NothingToProcess, NoAnswer, ConnType
      <3>2. CASE Respond(w)
        <4> PICK hdr \in 0..HdrChunks, file \in 0..FileChunks, rest \in BOOLEAN :
              /\ inbuf' = [inbuf EXCEPT ![fd] = rest]
              /\ wbuf' = [wbuf EXCEPT ![fd] = @ + hdr]
              /\ iov0' = [iov0 EXCEPT ![fd] = wbuf[fd] + hdr]
              /\ iov1' = [iov1 EXCEPT ![fd] = file]
          BY <3>2 DEF Respond
        <4>1. fd \in Fds /\ wbuf[fd] + hdr \in Nat
          BY <1>0, <1>3 DEF Process, ConnType
        <4> QED BY <1>3, <3>2, <4>1 DEF Process, Respond, ConnType
      <3> QED BY <1>3, <3>1, <3>2 DEF Process
    <2>3. Goto(w, "rearm_in") \/ Goto(w, "rearm_out")
      BY <1>3 DEF Process, NothingToProcess, Respond, NoAnswer
    <2>4. ThreadType'
      BY <1>3, <2>1, <2>3, GotoType DEF Process, WorkPcs
    <2> QED BY <2>1, <2>2, <2>4
  <1>4. CASE Rearm(w)
    <2>1. KernelType' /\ ConnType' /\ LoopType'
      BY <1>0, <1>4 DEF Rearm, KernelType, ConnType, LoopType
    <2>2. ThreadType'
      BY <1>4, FinishType DEF Rearm, ThreadType
    <2> QED BY <2>1, <2>2
  <1>5. CASE Writev(w)
    <2>1. KernelType' /\ ConnType'
      BY <1>5 DEF Writev, KernelType, ConnType
    <2>2. LoopType'
      BY <1>5 DEF Writev, WritevAll, WritevSome, WritevAgain, WritevError, WritevPipe,
                  LoopType
    <2>3. len' \in [Workers -> Nat]
      <3>1. Total(fd) \in Nat
        BY <1>0, <1>5 DEF Writev, Total, ConnType
      <3>2. CASE WritevSome(w)
        BY <3>1, <3>2 DEF WritevSome, ThreadType
      <3>3. CASE UNCHANGED len
        BY <3>3 DEF ThreadType
      <3> QED BY <1>5, <3>2, <3>3 DEF Writev, WritevAll, WritevAgain, WritevError, WritevPipe
    <2>4. \/ \E l \in {"process", "advance", "rearm_out"} : Goto(w, l)
          \/ Finish(w)
      BY <1>5 DEF Writev, WritevAll, WritevSome, WritevAgain, WritevError, WritevPipe
    <2>5. ThreadType'
      BY <1>5, <2>3, <2>4, GotoType, FinishType DEF Writev, WorkPcs
    <2> QED BY <2>1, <2>2, <2>5
  <1>6. CASE Advance(w)
    <2>1. /\ fd \in Fds /\ len[w] \in Nat
          /\ iov0[fd] \in Nat /\ iov1[fd] \in Nat /\ wbuf[fd] \in Nat
      BY <1>0, <1>6 DEF Advance, HeaderLeft, ConnType, ThreadType
    <2>2. (iov1[fd] - (len[w] - iov0[fd])) % IovMod \in Nat
      BY <2>1 DEF IovMod
    <2>3. ConnType'
      <3>1. CASE len[w] > iov0[fd]
        BY <1>6, <2>1, <2>2, <3>1 DEF Advance, HeaderLeft, ConnType
      <3>2. CASE ~(len[w] > iov0[fd])
        BY <1>6, <2>1, <3>2 DEF Advance, HeaderLeft, ConnType
      <3> QED BY <3>1, <3>2
    <2>4. KernelType' /\ LoopType' /\ len' \in [Workers -> Nat]
      BY <1>6, <2>1 DEF Advance, HeaderLeft, KernelType, LoopType, ThreadType
    <2>5. (\E l \in {"process", "write"} : Goto(w, l)) \/ Finish(w)
      BY <1>6 DEF Advance, AfterWrite
    <2>6. ThreadType'
      BY <1>6, <2>4, <2>5, GotoType, FinishType DEF Advance, WorkPcs
    <2> QED BY <2>3, <2>4, <2>6
  <1>7. CASE CloseConn_(w)
    BY <1>7, CloseTypeOK DEF Threads
  <1> QED BY <1>1, <1>2, <1>3, <1>4, <1>5, <1>6, <1>7 DEF WorkerStep

\* Every step keeps the state well typed.
LEMMA NextTypeOK == TypeOK /\ [Next]_vars => TypeOK'
  <1> SUFFICES ASSUME TypeOK, [Next]_vars PROVE TypeOK'
    OBVIOUS
  <1>1. CASE Clients \/ \E fd \in Fds : TimerDue(fd)
    <2>1. KernelType'
      <3>1. CASE Connect
        BY <3>1 DEF Connect, TypeOK, KernelType
      <3>2. ASSUME NEW fd \in Fds, Send(fd) PROVE KernelType'
        BY <3>2 DEF Send, TypeOK, KernelType
      <3>3. ASSUME NEW fd \in Fds, PeerClose(fd) PROVE KernelType'
        BY <3>3 DEF PeerClose, TypeOK, KernelType
      <3>4. ASSUME NEW fd \in Fds, TimerDue(fd) PROVE KernelType'
        BY <3>4 DEF TimerDue, TypeOK, KernelType
      <3> QED BY <1>1, <3>1, <3>2, <3>3, <3>4 DEF Clients
    <2>2. ConnType' /\ LoopType'
      BY <1>1 DEF Clients, Connect, Send, PeerClose, TimerDue, TypeOK, ConnType, LoopType
    <2>3. ThreadType'
      BY <1>1 DEF Clients, Connect, Send, PeerClose, TimerDue, TypeOK, ThreadType
    <2> QED BY <2>1, <2>2, <2>3 DEF TypeOK
  <1>2. CASE UNCHANGED vars
    BY <1>2 DEF vars, TypeOK, KernelType, ConnType, LoopType, ThreadType
  <1> QED BY <1>1, <1>2, MainTypeOK, WorkerTypeOK DEF Next

\* Every reachable state is well typed, for any number of descriptors,
\* workers and clients.
THEOREM TypeCorrect == Spec => []TypeOK
  BY InitTypeOK, NextTypeOK, PTL DEF Spec
-----------------------------------------------------------------------------
(* The timers cover every descriptor that can produce an event.             *)

\* Where the harvested events are: none outside the dispatch loop, at most one
\* for a descriptor, and none for the client the main thread is closing.
BatchInv ==
  /\ pc[Main] \in {"tick", "wait", "pop"} => batch = {}
  /\ pc[Main] \in ClosePcs /\ after = "pop" => batch = {}
  /\ \A e, f \in batch : e.fd = f.fd => e = f
  /\ pc[Main] = "pop" => after = "pop"
  /\ pc[Main] \in ClosePcs => \A e \in batch : e.fd # job[Main].fd

\* TimerCovers, and why tick() may pop the node whose callback has returned.
TimerInv ==
  /\ BatchInv
  /\ TimerCovers
  /\ pc[Main] \in {"chk", "clr", "pop"} /\ after = "pop" => ep[job[Main].fd] = "none"

\* What a worker cannot do: it does not touch the main thread's state or the
\* timers, and it cannot register a descriptor.
LEMMA WorkerFrame ==
  ASSUME TypeOK, NEW w \in Workers, WorkerStep(w)
  PROVE  /\ UNCHANGED <<batch, after, timer, timeMS, listenVars, serial>>
         /\ pc'[Main] = pc[Main] /\ job'[Main] = job[Main]
         /\ \A fd \in Fds : ep'[fd] # "none" => ep[fd] # "none"
  <1> USE DEF TypeOK, KernelType, ThreadType
  <1>1. w # Main /\ Main \in Threads /\ w \in Threads
    BY DEF Threads
  <1>2. CASE Take(w)
    BY <1>1, <1>2 DEF Take
  <1>3. CASE Read(w)
    BY <1>1, <1>3 DEF Read, Goto
  <1>4. CASE Process(w)
    BY <1>1, <1>4 DEF Process, NothingToProcess, Respond, NoAnswer, Goto
  <1>5. CASE Rearm(w)
    BY <1>1, <1>5 DEF Rearm, Finish
  <1>6. CASE Writev(w)
    BY <1>1, <1>6 DEF Writev, WritevAll, WritevSome, WritevAgain, WritevError, WritevPipe,
                      Goto, Finish
  <1>7. CASE Advance(w)
    BY <1>1, <1>7 DEF Advance, AfterWrite, Goto, Finish
  <1>8. CASE CloseConn_(w)
    BY <1>1, <1>8 DEF CloseConn_, DelFd, CheckClosed, Close
  <1> QED BY <1>2, <1>3, <1>4, <1>5, <1>6, <1>7, <1>8 DEF WorkerStep

\* epoll_wait reports at most one event for a descriptor, and takes its
\* registration out of service.
LEMMA ReadyUnique ==
  ASSUME TypeOK, NEW W \in SUBSET {fd \in Fds : ep[fd] = "out"}
  PROVE  /\ \A e, f \in Ready(W) : e.fd = f.fd => e = f
         /\ \A e \in Ready(W) : e.fd # ListenFd => e.fd \in Fds /\ Armed(e.fd)
         /\ \A fd \in Fds : Disarmed(Ready(W))[fd] =
               IF \E e \in Ready(W) : e.fd = fd THEN "off" ELSE ep[fd]
  BY DEF Ready, Armed, Disarmed

\* Every step keeps events_ free of duplicates and of the client being closed.
LEMMA BatchStep ==
  ASSUME TypeOK, BatchInv, [Next]_vars
  PROVE  BatchInv'
  <1> USE DEF BatchInv
  <1>0. Main \in Threads
    BY DEF Threads
  <1>1. CASE Clients \/ \E fd \in Fds : TimerDue(fd)
    BY <1>1 DEF Clients, Connect, Send, PeerClose, TimerDue
  <1>2. CASE UNCHANGED vars
    BY <1>2 DEF vars
  <1>3. ASSUME NEW w \in Workers, WorkerStep(w) PROVE BatchInv'
    BY <1>3, WorkerFrame
  <1>4. CASE MainStep
    <2> USE <1>0 DEF TypeOK, ThreadType, LoopType, ClosePcs
    <2>1. ASSUME NEW fd \in Fds, TickFire(fd) PROVE BatchInv'
      BY <2>1 DEF TickFire, StartClose
    <2>2. CASE Pop \/ GetNextTick \/ WaitTimeout \/ DispatchDone \/ AcceptNone \/ AcceptBusy
      BY <2>2 DEF Pop, GetNextTick, WaitTimeout, DispatchDone, AcceptNone, AcceptBusy
    <2>3. CASE Wait
      <3> PICK W \in SUBSET {fd \in Fds : ep[fd] = "out"} : batch' = Ready(W)
        BY <2>3 DEF Wait
      <3> QED BY <2>3, ReadyUnique DEF Wait
    <2>4. ASSUME NEW e \in batch, Dispatch(e) PROVE BatchInv'
      BY <2>4 DEF Dispatch, DispatchListen, DispatchHup, DispatchIo, StartClose
    <2>5. ASSUME NEW fd \in Fds, AddClient_(fd) PROVE BatchInv'
      BY <2>5 DEF AddClient_, AfterAccept
    <2>6. CASE CloseConn_(Main)
      BY <2>6 DEF CloseConn_, DelFd, CheckClosed, Close, AfterClose, AfterJob
    <2> QED BY <1>4, <2>1, <2>2, <2>3, <2>4, <2>5, <2>6 DEF MainStep, DealListen_
  <1> QED BY <1>1, <1>2, <1>3, <1>4 DEF Next

\* Every step keeps a timer for each descriptor that can produce an event.
LEMMA TimerStep ==
  ASSUME TypeOK, TimerInv, [Next]_vars
  PROVE  TimerInv'
  <1>0. BatchInv' /\ BatchInv /\ Main \in Threads
    BY BatchStep DEF TimerInv, Threads
  <1> USE <1>0 DEF TimerInv, TimerCovers, InBatch
  <1>1. CASE Clients \/ \E fd \in Fds : TimerDue(fd)
    BY <1>1 DEF Clients, Connect, Send, PeerClose, TimerDue, TypeOK, LoopType
  <1>2. CASE UNCHANGED vars
    BY <1>2 DEF vars
  <1>3. ASSUME NEW w \in Workers, WorkerStep(w) PROVE TimerInv'
    <2>1. pc[Main] \in {"chk", "clr", "pop"} => job[Main].fd \in Fds
      BY DEF TypeOK, ThreadType, ClosePcs
    <2>2. ep \in [Fds -> {"none", "off", "in", "out"}] /\ TypeOK'
      BY NextTypeOK DEF TypeOK, KernelType
    <2> QED BY <1>3, <2>1, <2>2, WorkerFrame
  <1>4. CASE MainStep
    <2> USE DEF TypeOK, KernelType, ThreadType, LoopType, ClosePcs
    <2>1. ASSUME NEW fd \in Fds, TickFire(fd) PROVE TimerInv'
      BY <2>1 DEF TickFire, StartClose
    <2>2. CASE Pop
      BY <2>2 DEF Pop, BatchInv
    <2>3. CASE GetNextTick \/ WaitTimeout \/ DispatchDone \/ AcceptNone \/ AcceptBusy
      BY <2>3 DEF GetNextTick, WaitTimeout, DispatchDone, AcceptNone, AcceptBusy
    <2>4. CASE Wait
      <3> PICK W \in SUBSET {fd \in Fds : ep[fd] = "out"} :
            batch' = Ready(W) /\ ep' = Disarmed(Ready(W))
        BY <2>4 DEF Wait
      <3> DEFINE R == Ready(W)
      <3>1. /\ \A e \in R : e.fd # ListenFd => Armed(e.fd)
            /\ \A fd \in Fds : Disarmed(R)[fd] = IF \E e \in R : e.fd = fd THEN "off" ELSE ep[fd]
        BY ReadyUnique
      <3> HIDE DEF R
      <3>2. batch' = R /\ ep' = Disarmed(R)
        BY DEF R
      <3>3. ASSUME NEW fd \in Fds, ep'[fd] # "none" \/ (\E e \in batch' : e.fd = fd)
            PROVE  ep[fd] # "none"
        <4>1. fd # ListenFd
          OBVIOUS
        <4>2. CASE \E e \in R : e.fd = fd
          BY <3>1, <4>1, <4>2 DEF Armed
        <4>3. CASE ~\E e \in R : e.fd = fd
          BY <3>1, <3>2, <3>3, <4>3
        <4> QED BY <4>2, <4>3
      <3> QED BY <2>4, <3>3 DEF Wait
    <2>5. ASSUME NEW e \in batch, Dispatch(e) PROVE TimerInv'
      BY <2>5 DEF Dispatch, DispatchListen, DispatchHup, DispatchIo, DealTask, StartClose
    <2>6. ASSUME NEW fd \in Fds, AddClient_(fd) PROVE TimerInv'
      BY <2>6 DEF AddClient_, AfterAccept
    <2>7. CASE CloseConn_(Main)
      BY <2>7 DEF CloseConn_, DelFd, CheckClosed, Close, AfterClose, AfterJob
    <2> QED BY <1>4, <2>1, <2>2, <2>3, <2>4, <2>5, <2>6, <2>7 DEF MainStep, DealListen_
  <1> QED BY <1>1, <1>2, <1>3, <1>4 DEF Next

\* The assertion of HeapTimer::adjust never fails, however slow the workers
\* are: every descriptor that can produce an event, or has, keeps its timer.
THEOREM TimerCoversCorrect == Spec => []TimerCovers
  <1>1. Init => TypeOK /\ TimerInv
    <2>1. Init => TimerInv
      BY DEF Init, TimerInv, BatchInv, TimerCovers, InBatch, Threads, ClosePcs
    <2> QED BY <2>1, InitTypeOK
  <1>2. TypeOK /\ TimerInv /\ [Next]_vars => TypeOK' /\ TimerInv'
    BY NextTypeOK, TimerStep
  <1>3. TimerInv => TimerCovers
    BY DEF TimerInv
  <1> QED BY <1>1, <1>2, <1>3, PTL DEF Spec
-----------------------------------------------------------------------------
(* What GoneClientsClosed rests on, whatever the fairness and however slow   *)
(* the tasks: an open client has a timer, and the loop does not sleep past   *)
(* it.                                                                       *)

\* Every open client has a timer, also one that OnWrite_ gave up without
\* re-arming it: only tick() takes a node out, after its callback has closed the
\* client (heaptimer.cpp:114-116); CloseConn_ leaves the node where it is.
OpenHasTimer == TimeoutOn => \A fd \in Fds : sock[fd] # 0 => timer[fd] # "none"

\* With a client open, epoll_wait has a finite timeout, unless a node expired
\* between tick() and the subtraction of GetNextTick (heaptimer.cpp:135).
SleepsInTime ==
  pc[Main] = "wait" /\ TimeoutOn /\ ~LateTick /\ (\E fd \in Fds : sock[fd] # 0) =>
    timeMS = "finite"

\* With these, the two are inductive: a client is closed exactly when isClose_
\* says so, the client whose node is popped is closed, and whichever node made
\* the timeout finite is still there.
ExpiryInv ==
  /\ OpenHasTimer
  /\ \A fd \in Fds : isClose[fd] <=> sock[fd] = 0
  /\ pc[Main] = "pop" => sock[job[Main].fd] = 0
  /\ pc[Main] = "wait" /\ TimeoutOn /\ ~LateTick /\ (\E fd \in Fds : timer[fd] # "none") =>
       timeMS = "finite"

\* No worker opens a client, and none closes isClose_ and the descriptor apart.
LEMMA WorkerCloses ==
  ASSUME TypeOK, NEW w \in Workers, WorkerStep(w),
         \A fd \in Fds : isClose[fd] <=> sock[fd] = 0
  PROVE  /\ \A fd \in Fds : isClose'[fd] <=> sock'[fd] = 0
         /\ \A fd \in Fds : sock'[fd] # 0 => sock[fd] # 0
  <1> USE DEF TypeOK, KernelType, ConnType, ThreadType
  <1>1. w \in Threads
    BY DEF Threads
  <1>2. CASE Close(w)
    BY <1>1, <1>2 DEF Close
  <1>3. CASE DelFd(w) \/ CheckClosed(w) \/ Take(w) \/ Read(w) \/ Process(w) \/ Rearm(w)
             \/ Writev(w) \/ Advance(w)
    <2>1. UNCHANGED <<sock, isClose>>
      BY <1>3 DEF DelFd, CheckClosed, Take, Read, Process, NothingToProcess, Respond, NoAnswer,
                  Rearm, Writev, Advance, kernVars, connVars
    <2> QED BY <2>1
  <1> QED BY <1>2, <1>3 DEF WorkerStep, CloseConn_

\* Every step keeps a timer for every open client.
LEMMA ExpiryStep ==
  ASSUME TypeOK, ExpiryInv, [Next]_vars
  PROVE  ExpiryInv'
  <1>0. Main \in Threads
    BY DEF Threads
  <1> USE DEF ExpiryInv, OpenHasTimer
  <1>1. CASE Clients \/ (\E fd \in Fds : TimerDue(fd)) \/ UNCHANGED vars
    <2>1. UNCHANGED <<sock, isClose, pc, job, timeMS>>
      BY <1>1 DEF Clients, Connect, Send, PeerClose, TimerDue, vars, kernVars, connVars, loopVars
    <2>2. \A fd \in Fds : timer'[fd] = "none" <=> timer[fd] = "none"
      BY <1>1 DEF Clients, Connect, Send, PeerClose, TimerDue, vars, TypeOK, LoopType
    <2> QED BY <2>1, <2>2
  <1>2. ASSUME NEW w \in Workers, WorkerStep(w) PROVE ExpiryInv'
    <2>1. UNCHANGED <<timer, timeMS>> /\ pc'[Main] = pc[Main] /\ job'[Main] = job[Main]
      BY <1>2, WorkerFrame
    <2>2. pc[Main] = "pop" => job[Main].fd \in Fds
      BY DEF TypeOK, ThreadType
    <2> QED BY <1>2, <2>1, <2>2, WorkerCloses
  <1>3. CASE MainStep
    <2> USE <1>0 DEF TypeOK, KernelType, ConnType, ThreadType, LoopType, ClosePcs
    <2>1. ASSUME NEW fd \in Fds, TickFire(fd) PROVE ExpiryInv'
      BY <2>1 DEF TickFire, StartClose
    <2>2. CASE Pop
      BY <2>2 DEF Pop
    <2>3. CASE GetNextTick
      BY <2>3 DEF GetNextTick, NextTimeout
    <2>4. CASE Wait \/ WaitTimeout \/ DispatchDone \/ AcceptNone \/ AcceptBusy
      BY <2>4 DEF Wait, WaitTimeout, DispatchDone, AcceptNone, AcceptBusy
    <2>5. ASSUME NEW e \in batch, Dispatch(e) PROVE ExpiryInv'
      BY <2>5 DEF Dispatch, DispatchListen, DispatchHup, DispatchIo, DealTask, StartClose
    <2>6. ASSUME NEW fd \in Fds, AddClient_(fd) PROVE ExpiryInv'
      <3>1. pc'[Main] \notin {"pop", "wait"}
        BY <2>6 DEF AddClient_, AfterAccept
      <3>2. serial + 1 # 0 /\ sock' = [sock EXCEPT ![fd] = serial + 1]
            /\ isClose' = [isClose EXCEPT ![fd] = FALSE]
            /\ timer' = IF TimeoutOn THEN [timer EXCEPT ![fd] = "running"] ELSE timer
        BY <2>6 DEF AddClient_
      <3> QED BY <3>1, <3>2
    <2>7. CASE DelFd(Main)
      BY <2>7 DEF DelFd
    <2>8. CASE CheckClosed(Main)
      BY <2>8 DEF CheckClosed, AfterClose, AfterJob
    <2>9. CASE Close(Main)
      <3> DEFINE fd == job[Main].fd
      <3>1. fd \in Fds /\ sock' = [sock EXCEPT ![fd] = 0] /\ timer' = timer
            /\ isClose' = [isClose EXCEPT ![fd] = TRUE]
        BY <2>9 DEF Close
      <3>2. pc'[Main] = after /\ (pc'[Main] = "pop" => job'[Main] = job[Main])
        BY <2>9 DEF Close, AfterClose, AfterJob
      <3> QED BY <3>1, <3>2
    <2> QED BY <1>3, <2>1, <2>2, <2>3, <2>4, <2>5, <2>6, <2>7, <2>8, <2>9
            DEF MainStep, DealListen_, CloseConn_
  <1> QED BY <1>1, <1>2, <1>3 DEF Next

\* ExpiryInv is invariant in every configuration, slow tasks included.
LEMMA ExpiryInvariant == Spec => [](TypeOK /\ ExpiryInv)
  <1>1. Init => TypeOK /\ ExpiryInv
    <2>1. Init => ExpiryInv
      BY DEF Init, ExpiryInv, OpenHasTimer, Threads
    <2> QED BY <2>1, InitTypeOK
  <1>2. TypeOK /\ ExpiryInv /\ [Next]_vars => TypeOK' /\ ExpiryInv'
    BY NextTypeOK, ExpiryStep
  <1> QED BY <1>1, <1>2, PTL DEF Spec

\* No client is open without a timer, whoever gave it up, however slow the tasks
\* are and in every configuration.
THEOREM OpenHasTimerCorrect == Spec => []OpenHasTimer
  <1>1. ExpiryInv => OpenHasTimer
    BY DEF ExpiryInv
  <1> QED BY <1>1, ExpiryInvariant, PTL

\* The loop never sleeps without a timeout while a client is open, unless a node
\* has expired between the two readings of the clock.
THEOREM SleepsInTimeCorrect == Spec => []SleepsInTime
  <1>1. ExpiryInv => SleepsInTime
    BY DEF ExpiryInv, OpenHasTimer, SleepsInTime
  <1> QED BY <1>1, ExpiryInvariant, PTL
-----------------------------------------------------------------------------
(* Exclusive ownership of users_[fd], when tasks are faster than timers.    *)

\* The connection object, its descriptor, its registration and its timer agree.
ConnInv ==
  /\ \A fd \in Fds : isClose[fd] <=> sock[fd] = 0
  /\ \A fd \in Fds : ep[fd] # "none" \/ InBatch(fd) => sock[fd] # 0
  /\ \A t \in Threads : pc[t] = "clr" => ~isClose[job[t].fd]
  /\ \A fd \in Fds : timer[fd] # "none" => TimeoutOn
  /\ \A fd \in Fds :
       timer[fd] = "due" => ~Queued(fd) /\ \A w \in Workers : ~Working(w, fd)

OwnerInv == BatchInv /\ ExclusiveOwner /\ NoStaleTask /\ ConnInv

\* A step that claims nothing new and neither opens nor closes a client.
LEMMA Shrink ==
  ASSUME TypeOK, OwnerInv, BatchInv',
         UNCHANGED <<tasks, sock, isClose>>,
         \A fd \in Fds : ep'[fd] # "none" => ep[fd] # "none",
         \A fd \in Fds : Armed(fd)' => Armed(fd),
         \A fd \in Fds : InBatch(fd)' => InBatch(fd),
         \A fd \in Fds : MainSide(fd)' => MainSide(fd),
         \A w \in Workers : pc'[w] # "idle" => pc[w] # "idle" /\ job'[w] = job[w],
         \A t \in Threads : pc'[t] = "clr" => ~isClose[job'[t].fd],
         \A fd \in Fds : timer'[fd] # "none" => timer[fd] # "none",
         \A fd \in Fds : timer'[fd] = "due" => timer[fd] = "due"
  PROVE  OwnerInv'
  <1>1. /\ \A fd \in Fds : Queued(fd)' => Queued(fd)
        /\ \A fd \in Fds, w \in Workers : Working(w, fd)' => Working(w, fd)
    BY DEF Queued, Working
  <1>2. ExclusiveOwner'
    BY <1>1 DEF OwnerInv, ExclusiveOwner
  <1>3. NoStaleTask'
    BY DEF OwnerInv, NoStaleTask
  <1>4. ConnInv'
    BY <1>1 DEF OwnerInv, ConnInv
  <1> QED BY <1>2, <1>3, <1>4 DEF OwnerInv

\* Everything that happens outside the main thread's and the workers' claims.
LEMMA ClientOwner ==
  ASSUME TypeOK, OwnerInv, ~(TimeoutOn /\ SlowTasks), BatchInv',
         Clients \/ (\E fd \in Fds : TimerDue(fd)) \/ UNCHANGED vars
  PROVE  OwnerInv'
  <1>1. UNCHANGED <<tasks, sock, isClose, ep, batch, pc, job>>
    BY DEF Clients, Connect, Send, PeerClose, TimerDue, vars
  <1>2. \A fd \in Fds :
          /\ Queued(fd)' <=> Queued(fd)
          /\ Armed(fd)' <=> Armed(fd)
          /\ InBatch(fd)' <=> InBatch(fd)
          /\ MainSide(fd)' <=> MainSide(fd)
          /\ \A w \in Workers : Working(w, fd)' <=> Working(w, fd)
    BY <1>1 DEF Queued, Armed, InBatch, MainSide, Working
  <1>3. ASSUME NEW fd \in Fds
        PROVE  /\ timer'[fd] # "none" => timer[fd] # "none"
               /\ timer'[fd] = "due" =>
                    ~Queued(fd) /\ \A w \in Workers : ~Working(w, fd)
    BY DEF Clients, Connect, Send, PeerClose, TimerDue, vars, OwnerInv, ConnInv, TypeOK,
           LoopType
  <1>4. ExclusiveOwner' /\ NoStaleTask'
    BY <1>1, <1>2 DEF OwnerInv, ExclusiveOwner, NoStaleTask
  <1>5. ConnInv'
    BY <1>1, <1>2, <1>3 DEF OwnerInv, ConnInv
  <1> QED BY <1>4, <1>5 DEF OwnerInv

\* The statements under "if(isClose_ == false)": whoever runs them owns the
\* client, and afterwards nobody holds a claim on its descriptor.
LEMMA CloseOwner ==
  ASSUME TypeOK, OwnerInv, BatchInv', NEW t \in Threads, Close(t)
  PROVE  OwnerInv'
  <1> DEFINE fd == job[t].fd
  <1>1. fd \in Fds /\ pc[t] = "clr" /\ (t = Main \/ t \in Workers)
    BY WorkOn DEF Close, ClosePcs, TypeOK
  <1>2. /\ UNCHANGED <<tasks, batch, timer>>
        /\ isClose' = [isClose EXCEPT ![fd] = TRUE]
        /\ sock' = [sock EXCEPT ![fd] = 0]
        /\ ep' = [ep EXCEPT ![fd] = "none"]
        /\ pc' = [pc EXCEPT ![t] = AfterClose(t)]
        /\ job' = [job EXCEPT ![t] = AfterJob(t)]
    BY DEF Close
  <1>3. ~InBatch(fd) /\ ~Queued(fd) /\ \A w \in Workers : Working(w, fd) => w = t
    <2>1. CASE t = Main
      <3>1. MainSide(fd) /\ ~InBatch(fd)
        BY <1>1, <2>1 DEF MainSide, ClosePcs, InBatch, OwnerInv, BatchInv
      <3> QED BY <1>1, <3>1 DEF OwnerInv, ExclusiveOwner
    <2>2. CASE t \in Workers
      <3>1. Working(t, fd)
        BY <1>1 DEF Working
      <3> QED BY <1>1, <2>2, <3>1 DEF OwnerInv, ExclusiveOwner, MainSide
    <2> QED BY <1>1, <2>1, <2>2
  <1>4. /\ pc \in [Threads -> {"idle"} \union MainPcs \union WorkPcs] /\ job \in [Threads -> Job]
        /\ ep \in [Fds -> {"none", "off", "in", "out"}] /\ Main \in Threads
        /\ sock \in [Fds -> Nat] /\ isClose \in [Fds -> BOOLEAN]
    BY DEF TypeOK, ThreadType, KernelType, ConnType, Threads
  <1>5. t \in Workers => pc'[t] = "idle"
    BY <1>2, <1>4 DEF AfterClose
  <1>6. pc'[t] \notin ClosePcs
    BY <1>2, <1>4, <1>5 DEF AfterClose, ClosePcs, TypeOK, LoopType, Threads
  <1>7. \A w \in Workers : pc'[w] # "idle" =>
          pc[w] # "idle" /\ job'[w] = job[w] /\ job[w].fd # fd
    <2> SUFFICES ASSUME NEW w \in Workers, pc'[w] # "idle"
                 PROVE  pc[w] # "idle" /\ job'[w] = job[w] /\ job[w].fd # fd
      OBVIOUS
    <2>1. w # t /\ w \in Threads
      BY <1>5 DEF Threads
    <2>2. pc[w] # "idle" /\ job'[w] = job[w]
      BY <1>2, <1>4, <2>1
    <2> QED BY <1>3, <2>1, <2>2 DEF Working
  <1>8. \A x \in Fds :
          /\ Queued(x)' <=> Queued(x)
          /\ Armed(x)' => Armed(x) /\ x # fd
          /\ InBatch(x)' <=> InBatch(x)
          /\ MainSide(x)' => MainSide(x)
          /\ \A w \in Workers : Working(w, x)' => Working(w, x)
    <2> SUFFICES ASSUME NEW x \in Fds
                 PROVE  /\ Queued(x)' <=> Queued(x)
                        /\ Armed(x)' => Armed(x) /\ x # fd
                        /\ InBatch(x)' <=> InBatch(x)
                        /\ MainSide(x)' => MainSide(x)
                        /\ \A w \in Workers : Working(w, x)' => Working(w, x)
      OBVIOUS
    <2>1. (Queued(x)' <=> Queued(x)) /\ (InBatch(x)' <=> InBatch(x))
      BY <1>2 DEF Queued, InBatch
    <2>2. Armed(x)' => Armed(x) /\ x # fd
      BY <1>2, <1>4 DEF Armed
    <2>3. pc'[Main] \in ClosePcs => pc[Main] \in ClosePcs /\ job'[Main] = job[Main]
      BY <1>2, <1>4, <1>6
    <2>4. MainSide(x)' => MainSide(x)
      BY <2>1, <2>2, <2>3 DEF MainSide
    <2> QED BY <1>7, <2>1, <2>2, <2>4 DEF Working
  <1>9. ExclusiveOwner'
    BY <1>2, <1>8 DEF OwnerInv, ExclusiveOwner
  <1>10. NoStaleTask'
    <2>1. \A i \in 1..Len(tasks) : tasks[i].fd # fd
      BY <1>3 DEF Queued
    <2>2. \A i \in 1..Len(tasks) : tasks[i].conn # 0 /\ sock[tasks[i].fd] = tasks[i].conn
      BY DEF OwnerInv, NoStaleTask
    <2>3. \A i \in 1..Len(tasks) : sock'[tasks[i].fd] = tasks[i].conn
      BY <1>2, <1>4, <2>1, <2>2
    <2>4. \A w \in Workers : pc[w] # "idle" => job[w].conn # 0 /\ sock[job[w].fd] = job[w].conn
      BY DEF OwnerInv, NoStaleTask
    <2>5. \A w \in Workers : pc'[w] # "idle" => job'[w].conn # 0 /\ sock'[job'[w].fd] = job'[w].conn
      BY <1>2, <1>4, <1>7, <2>4
    <2> QED BY <1>2, <2>2, <2>3, <2>5 DEF NoStaleTask
  <1>11. ConnInv'
    <2>1. \A x \in Fds : isClose'[x] <=> sock'[x] = 0
      BY <1>2, <1>4 DEF OwnerInv, ConnInv
    <2>2. \A x \in Fds : ep'[x] # "none" \/ InBatch(x)' => sock'[x] # 0
      BY <1>2, <1>3, <1>4, <1>8 DEF OwnerInv, ConnInv
    <2>3. ASSUME NEW u \in Threads, pc'[u] = "clr" PROVE ~isClose'[job'[u].fd]
      <3>1. u # t /\ pc[u] = "clr" /\ job'[u] = job[u]
        BY <1>2, <1>4, <1>6, <2>3 DEF ClosePcs
      <3>2. job[u].fd \in Fds /\ (u = Main \/ u \in Workers)
        BY <3>1, WorkOn DEF ClosePcs, TypeOK
      <3>3. job[u].fd # fd
        <4>1. CASE u \in Workers
          BY <1>7, <2>3, <4>1
        <4>2. CASE u = Main
          <5>1. t \in Workers /\ Working(t, fd)
            BY <1>1, <3>1, <4>2 DEF Working
          <5>2. ~MainSide(fd)
            BY <1>1, <5>1 DEF OwnerInv, ExclusiveOwner
          <5> QED BY <3>1, <4>2, <5>2 DEF MainSide, ClosePcs
        <4> QED BY <3>2, <4>1, <4>2
      <3>4. ~isClose[job[u].fd]
        BY <3>1 DEF OwnerInv, ConnInv
      <3> QED BY <1>2, <1>4, <3>1, <3>2, <3>3, <3>4
    <2>4. \A x \in Fds : timer'[x] = "due" =>
            ~Queued(x)' /\ \A w \in Workers : ~Working(w, x)'
      BY <1>2, <1>8 DEF OwnerInv, ConnInv
    <2>5. \A x \in Fds : timer'[x] # "none" => TimeoutOn
      BY <1>2 DEF OwnerInv, ConnInv
    <2> QED BY <2>1, <2>2, <2>3, <2>4, <2>5 DEF ConnInv
  <1> QED BY <1>9, <1>10, <1>11 DEF OwnerInv

\* The main thread starts closing a client whose timer is due: nobody works on
\* it, because a task would have been done, or would have set the timer again.
LEMMA TickOwner ==
  ASSUME TypeOK, OwnerInv, BatchInv', NEW fd \in Fds, TickFire(fd)
  PROVE  OwnerInv'
  <1>1. /\ UNCHANGED <<tasks, sock, isClose, ep, batch, timer>>
        /\ pc' = [pc EXCEPT ![Main] = "del"]
        /\ job' = [job EXCEPT ![Main] = [fd |-> fd, conn |-> sock[fd]]]
        /\ pc[Main] = "tick" /\ timer[fd] = "due"
    BY DEF TickFire, StartClose
  <1>2. ~Queued(fd) /\ \A w \in Workers : ~Working(w, fd)
    BY <1>1 DEF OwnerInv, ConnInv
  <1>3. /\ \A w \in Workers : pc'[w] = pc[w] /\ job'[w] = job[w]
        /\ pc'[Main] = "del" /\ job'[Main].fd = fd
    BY <1>1 DEF TypeOK, ThreadType, Threads
  <1>4. \A x \in Fds :
          /\ (Queued(x)' <=> Queued(x)) /\ (InBatch(x)' <=> InBatch(x))
          /\ (Armed(x)' <=> Armed(x))
          /\ MainSide(x)' => MainSide(x) \/ x = fd
          /\ \A w \in Workers : Working(w, x)' <=> Working(w, x)
    BY <1>1, <1>3 DEF Queued, InBatch, Armed, MainSide, Working
  <1>5. ExclusiveOwner'
    BY <1>1, <1>2, <1>4 DEF OwnerInv, ExclusiveOwner
  <1>6. NoStaleTask'
    BY <1>1, <1>3 DEF OwnerInv, NoStaleTask
  <1>7. ConnInv'
    BY <1>1, <1>3, <1>4 DEF OwnerInv, ConnInv, Threads
  <1> QED BY <1>5, <1>6, <1>7 DEF OwnerInv

\* epoll_wait turns an armed registration into a harvested event.
LEMMA WaitOwner ==
  ASSUME TypeOK, OwnerInv, BatchInv', Wait
  PROVE  OwnerInv'
  <1> PICK W \in SUBSET {fd \in Fds : ep[fd] = "out"} :
        batch' = Ready(W) /\ ep' = Disarmed(Ready(W))
    BY DEF Wait
  <1>1. /\ UNCHANGED <<tasks, sock, isClose, timer, job>>
        /\ pc' = [pc EXCEPT ![Main] = "dispatch"] /\ pc[Main] = "wait"
    BY DEF Wait
  <1>2. /\ \A w \in Workers : pc'[w] = pc[w]
        /\ pc'[Main] = "dispatch"
    BY <1>1 DEF TypeOK, ThreadType, Threads
  <1>3. ASSUME NEW x \in Fds
        PROVE  /\ InBatch(x)' => Armed(x)
               /\ Armed(x)' => Armed(x) /\ ~InBatch(x)'
               /\ ep'[x] # "none" => ep[x] # "none"
    <2>1. x # ListenFd
      OBVIOUS
    <2>2. InBatch(x)' => Armed(x)
      BY <2>1, ReadyUnique DEF InBatch
    <2>3. ep'[x] = IF InBatch(x)' THEN "off" ELSE ep[x]
      BY ReadyUnique DEF InBatch
    <2> QED BY <2>2, <2>3 DEF Armed
  <1>4. \A x \in Fds :
          /\ Queued(x)' <=> Queued(x)
          /\ MainSide(x)' => MainSide(x)
          /\ \A w \in Workers : Working(w, x)' <=> Working(w, x)
    BY <1>1, <1>2, <1>3 DEF Queued, MainSide, Working, ClosePcs
  <1>5. ExclusiveOwner'
    BY <1>1, <1>3, <1>4 DEF OwnerInv, ExclusiveOwner
  <1>6. NoStaleTask'
    BY <1>1, <1>2 DEF OwnerInv, NoStaleTask
  <1>7. ConnInv'
    <2>1. \A x \in Fds : ep'[x] # "none" \/ InBatch(x)' => sock'[x] # 0
      BY <1>1, <1>3 DEF OwnerInv, ConnInv, Armed
    <2>2. \A t \in Threads : pc'[t] = "clr" => pc[t] = "clr"
      BY <1>2 DEF Threads
    <2> QED BY <1>1, <1>4, <2>1, <2>2 DEF OwnerInv, ConnInv
  <1> QED BY <1>5, <1>6, <1>7 DEF OwnerInv

\* A harvested EPOLLRDHUP: the event becomes a CloseConn_ of the main thread.
LEMMA HupOwner ==
  ASSUME TypeOK, OwnerInv, BatchInv', NEW e \in batch, Dispatch(e), DispatchHup(e)
  PROVE  OwnerInv'
  <1>1. /\ UNCHANGED <<tasks, sock, isClose, ep, timer>>
        /\ batch' = batch \ {e}
        /\ pc' = [pc EXCEPT ![Main] = "del"]
        /\ job' = [job EXCEPT ![Main] = [fd |-> e.fd, conn |-> sock[e.fd]]]
    BY DEF Dispatch, DispatchHup, StartClose
  <1>2. e.fd \in Fds /\ InBatch(e.fd)
    BY DEF DispatchHup, InBatch, TypeOK, LoopType, Event
  <1>3. /\ \A w \in Workers : pc'[w] = pc[w] /\ job'[w] = job[w]
        /\ pc'[Main] = "del" /\ job'[Main].fd = e.fd
    BY <1>1 DEF TypeOK, ThreadType, Threads
  <1>4. \A x \in Fds :
          /\ (Queued(x)' <=> Queued(x)) /\ (Armed(x)' <=> Armed(x))
          /\ InBatch(x)' => InBatch(x)
          /\ MainSide(x)' => MainSide(x)
          /\ \A w \in Workers : Working(w, x)' <=> Working(w, x)
    BY <1>1, <1>2, <1>3 DEF Queued, InBatch, Armed, MainSide, Working
  <1>5. ExclusiveOwner'
    BY <1>1, <1>4 DEF OwnerInv, ExclusiveOwner
  <1>6. NoStaleTask'
    BY <1>1, <1>3 DEF OwnerInv, NoStaleTask
  <1>7. ConnInv'
    BY <1>1, <1>3, <1>4 DEF OwnerInv, ConnInv, Threads
  <1> QED BY <1>5, <1>6, <1>7 DEF OwnerInv

\* A harvested EPOLLIN or EPOLLOUT: the event becomes a queued task, and the
\* timer starts again, so that it cannot fire under the task.
LEMMA IoOwner ==
  ASSUME TypeOK, OwnerInv, BatchInv', NEW e \in batch, Dispatch(e), DispatchIo(e),
         ~(TimeoutOn /\ timer[e.fd] = "none")
  PROVE  OwnerInv'
  <1> DEFINE fd == e.fd
             task == [op |-> IF e.ev = "in" THEN "read" ELSE "write",
                      fd |-> e.fd, conn |-> sock[e.fd]]
  <1>1. /\ UNCHANGED <<sock, isClose, ep, pc, job>>
        /\ batch' = batch \ {e}
        /\ timer' = IF TimeoutOn THEN [timer EXCEPT ![fd] = "running"] ELSE timer
        /\ tasks' = Append(tasks, task)
        /\ pc[Main] = "dispatch"
    BY DEF Dispatch, DispatchIo, DealTask
  <1>2. fd \in Fds /\ InBatch(fd) /\ MainSide(fd)
    BY DEF DispatchIo, InBatch, MainSide, TypeOK, LoopType, Event
  <1>3. task.fd = fd /\ task.conn = sock[fd]
    OBVIOUS
  <1> HIDE DEF task
  <1>4. /\ Len(tasks') = Len(tasks) + 1 /\ Len(tasks) \in Nat
        /\ \A i \in 1..Len(tasks) : tasks'[i] = tasks[i]
        /\ tasks'[Len(tasks) + 1] = task
    <2>1. tasks \in Seq(Task)
      BY DEF TypeOK, LoopType
    <2> QED BY <1>1, <2>1
  <1>5. /\ ~Queued(fd) /\ \A w \in Workers : ~Working(w, fd)
        /\ ~Armed(fd)
    BY <1>2 DEF OwnerInv, ExclusiveOwner
  <1>6. ~InBatch(fd)'
    <2>1. \A f \in batch : f.fd = e.fd => f = e
      BY DEF OwnerInv, BatchInv
    <2> QED BY <1>1, <2>1 DEF InBatch
  <1>7. \A x \in Fds :
          /\ Queued(x)' <=> Queued(x) \/ x = fd
          /\ (Armed(x)' <=> Armed(x)) /\ (InBatch(x)' => InBatch(x))
          /\ MainSide(x)' => MainSide(x) /\ x # fd
          /\ \A w \in Workers : Working(w, x)' <=> Working(w, x)
    <2> SUFFICES ASSUME NEW x \in Fds
                 PROVE  /\ Queued(x)' <=> Queued(x) \/ x = fd
                        /\ (Armed(x)' <=> Armed(x)) /\ (InBatch(x)' => InBatch(x))
                        /\ MainSide(x)' => MainSide(x) /\ x # fd
                        /\ \A w \in Workers : Working(w, x)' <=> Working(w, x)
      OBVIOUS
    <2>1. Queued(x)' <=> Queued(x) \/ x = fd
      BY <1>3, <1>4 DEF Queued
    <2>2. (Armed(x)' <=> Armed(x)) /\ (InBatch(x)' => InBatch(x))
      BY <1>1 DEF Armed, InBatch
    <2>3. MainSide(x)' => MainSide(x) /\ x # fd
      BY <1>1, <1>5, <1>6, <2>2 DEF MainSide, ClosePcs
    <2> QED BY <1>1, <2>1, <2>2, <2>3 DEF Working
  <1>8. ExclusiveOwner'
    <2>1. ASSUME NEW x \in Fds, NEW i \in 1..Len(tasks'), NEW j \in 1..Len(tasks'),
                 tasks'[i].fd = x, tasks'[j].fd = x
          PROVE  i = j
      <3>1. CASE i \in 1..Len(tasks) /\ j \in 1..Len(tasks)
        BY <1>4, <2>1, <3>1 DEF OwnerInv, ExclusiveOwner
      <3>2. CASE i = Len(tasks) + 1 /\ j \in 1..Len(tasks)
        BY <1>3, <1>4, <1>5, <2>1, <3>2 DEF Queued
      <3>3. CASE j = Len(tasks) + 1 /\ i \in 1..Len(tasks)
        BY <1>3, <1>4, <1>5, <2>1, <3>3 DEF Queued
      <3> QED BY <1>4, <3>1, <3>2, <3>3
    <2>2. \A x \in Fds : MainSide(x)' => ~Queued(x)' /\ \A w \in Workers : ~Working(w, x)'
      BY <1>7 DEF OwnerInv, ExclusiveOwner
    <2>3. \A x \in Fds : Queued(x)' => \A w \in Workers : ~Working(w, x)'
      BY <1>5, <1>7 DEF OwnerInv, ExclusiveOwner
    <2> QED BY <1>7, <2>1, <2>2, <2>3 DEF OwnerInv, ExclusiveOwner
  <1>9. NoStaleTask'
    <2>1. sock[fd] # 0
      BY <1>2 DEF OwnerInv, ConnInv
    <2> QED BY <1>1, <1>3, <1>4, <2>1 DEF OwnerInv, NoStaleTask
  <1>10. ConnInv'
    <2>1. timer' \in [Fds -> {"none", "running", "due"}] /\ TimeoutOn => timer'[fd] = "running"
      BY <1>1, <1>2 DEF TypeOK, LoopType
    <2>2. \A x \in Fds : x # fd => timer'[x] = timer[x]
      BY <1>1 DEF TypeOK, LoopType
    <2>3. \A x \in Fds : timer'[x] # "none" => TimeoutOn
      BY <1>1 DEF OwnerInv, ConnInv, TypeOK, LoopType
    <2>4. \A x \in Fds : timer'[x] = "due" => ~Queued(x)' /\ \A w \in Workers : ~Working(w, x)'
      BY <1>1, <1>2, <1>7, <2>2, <2>3 DEF OwnerInv, ConnInv, TypeOK, LoopType
    <2> QED BY <1>1, <1>7, <2>3, <2>4 DEF OwnerInv, ConnInv
  <1> QED BY <1>8, <1>9, <1>10 DEF OwnerInv

\* accept() returns a descriptor that was closed: nobody has a claim on it.
LEMMA AcceptOwner ==
  ASSUME TypeOK, OwnerInv, BatchInv', NEW fd \in Fds, AddClient_(fd)
  PROVE  OwnerInv'
  <1>1. /\ UNCHANGED <<tasks, batch, job>>
        /\ sock' = [sock EXCEPT ![fd] = serial + 1] /\ sock[fd] = 0 /\ serial \in Nat
        /\ ep' = [ep EXCEPT ![fd] = "in"]
        /\ isClose' = [isClose EXCEPT ![fd] = FALSE]
        /\ timer' = IF TimeoutOn THEN [timer EXCEPT ![fd] = "running"] ELSE timer
        /\ pc' = [pc EXCEPT ![Main] = AfterAccept] /\ pc[Main] = "accept"
        /\ AfterAccept \in {"accept", "dispatch"}
    BY DEF AddClient_, AfterAccept, TypeOK, KernelType
  <1>2. /\ sock \in [Fds -> Nat] /\ isClose \in [Fds -> BOOLEAN]
        /\ ep \in [Fds -> {"none", "off", "in", "out"}]
        /\ timer \in [Fds -> {"none", "running", "due"}]
    BY DEF TypeOK, KernelType, ConnType, LoopType
  <1>3. /\ \A w \in Workers : pc'[w] = pc[w]
        /\ pc'[Main] \in {"accept", "dispatch"}
    BY <1>1 DEF TypeOK, ThreadType, Threads
  <1>4. ~Queued(fd) /\ ~InBatch(fd) /\ \A w \in Workers : ~Working(w, fd)
    BY <1>1 DEF OwnerInv, NoStaleTask, ConnInv, Queued, Working
  <1>5. \A x \in Fds :
          /\ (Queued(x)' <=> Queued(x)) /\ (InBatch(x)' <=> InBatch(x))
          /\ Armed(x)' => Armed(x) \/ x = fd
          /\ MainSide(x)' => MainSide(x) \/ x = fd
          /\ \A w \in Workers : Working(w, x)' <=> Working(w, x)
    BY <1>1, <1>2, <1>3 DEF Queued, InBatch, Armed, MainSide, Working, ClosePcs
  <1>6. ExclusiveOwner'
    BY <1>1, <1>4, <1>5 DEF OwnerInv, ExclusiveOwner
  <1>7. NoStaleTask'
    <2>1. \A i \in 1..Len(tasks) : tasks[i].fd # fd
      BY <1>4 DEF Queued
    <2>2. \A w \in Workers : pc[w] # "idle" => job[w].fd # fd
      BY <1>4 DEF Working
    <2>3. /\ \A i \in 1..Len(tasks) : sock'[tasks[i].fd] = sock[tasks[i].fd]
          /\ \A w \in Workers : pc[w] # "idle" => sock'[job[w].fd] = sock[job[w].fd]
      BY <1>1, <1>2, <2>1, <2>2
    <2> QED BY <1>1, <1>3, <2>3 DEF OwnerInv, NoStaleTask
  <1>8. ConnInv'
    <2>1. \A x \in Fds : isClose'[x] <=> sock'[x] = 0
      BY <1>1, <1>2 DEF OwnerInv, ConnInv
    <2>2. \A x \in Fds : ep'[x] # "none" \/ InBatch(x)' => sock'[x] # 0
      BY <1>1, <1>2, <1>5 DEF OwnerInv, ConnInv
    <2>3. ASSUME NEW t \in Threads, pc'[t] = "clr" PROVE ~isClose'[job'[t].fd]
      <3>1. t \in Workers /\ pc[t] = "clr"
        BY <1>3, <2>3 DEF Threads
      <3>2. job[t].fd # fd
        BY <1>4, <3>1 DEF Working
      <3>3. ~isClose[job[t].fd]
        BY <3>1 DEF OwnerInv, ConnInv
      <3> QED BY <1>1, <1>2, <3>2, <3>3
    <2>4. \A x \in Fds : timer'[x] # "none" => TimeoutOn
      BY <1>1, <1>2 DEF OwnerInv, ConnInv
    <2>5. \A x \in Fds : timer'[x] = "due" => ~Queued(x)' /\ \A w \in Workers : ~Working(w, x)'
      BY <1>1, <1>2, <1>4, <1>5 DEF OwnerInv, ConnInv
    <2> QED BY <2>1, <2>2, <2>3, <2>4, <2>5 DEF ConnInv
  <1> QED BY <1>6, <1>7, <1>8 DEF OwnerInv

\* The first two statements of CloseConn_, and the main thread's other steps.
LEMMA CloseStartOwner ==
  ASSUME TypeOK, OwnerInv, BatchInv', NEW t \in Threads, DelFd(t) \/ CheckClosed(t)
  PROVE  OwnerInv'
  <1> DEFINE fd == job[t].fd
  <1>0. /\ pc \in [Threads -> {"idle"} \union MainPcs \union WorkPcs] /\ job \in [Threads -> Job]
        /\ ep \in [Fds -> {"none", "off", "in", "out"}] /\ Main \in Threads /\ fd \in Fds
        /\ pc[t] \in ClosePcs
    BY WorkOn DEF TypeOK, ThreadType, KernelType, Threads, DelFd, CheckClosed, ClosePcs
  <1>1. UNCHANGED <<tasks, sock, isClose, batch, timer>>
    BY DEF DelFd, CheckClosed
  <1>2. \A x \in Fds : ep'[x] = ep[x] \/ ep'[x] = "none"
    BY <1>0 DEF DelFd, CheckClosed
  <1>3. \A u \in Threads : u # t => pc'[u] = pc[u] /\ job'[u] = job[u]
    BY <1>0 DEF DelFd, CheckClosed
  <1>4. pc'[t] \in ClosePcs => job'[t] = job[t]
    BY <1>0 DEF DelFd, CheckClosed, AfterClose, ClosePcs, TypeOK, LoopType
  <1>5. t \in Workers /\ pc'[t] # "idle" => job'[t] = job[t]
    BY <1>0 DEF DelFd, CheckClosed, AfterClose, Threads
  <1>6. pc'[t] = "clr" => ~isClose[fd]
    BY <1>0 DEF DelFd, CheckClosed, AfterClose, TypeOK, LoopType
  <1>7. \A w \in Workers : pc'[w] # "idle" => pc[w] # "idle" /\ job'[w] = job[w]
    BY <1>0, <1>3, <1>5 DEF Threads, ClosePcs
  <1>8. \A u \in Threads : pc'[u] = "clr" => ~isClose[job'[u].fd]
    BY <1>3, <1>4, <1>6 DEF OwnerInv, ConnInv, ClosePcs
  <1>9. \A x \in Fds : (Armed(x)' => Armed(x)) /\ (InBatch(x)' => InBatch(x))
    BY <1>1, <1>2 DEF Armed, InBatch
  <1>10. pc'[Main] \in ClosePcs => pc[Main] \in ClosePcs /\ job'[Main] = job[Main]
    BY <1>0, <1>3, <1>4
  <1>11. \A x \in Fds : MainSide(x)' => MainSide(x)
    BY <1>9, <1>10 DEF MainSide
  <1> QED BY <1>1, <1>2, <1>7, <1>8, <1>9, <1>11, Shrink

\* Every step of the main thread keeps one owner for each connection.
LEMMA MainOwner ==
  ASSUME TypeOK, OwnerInv, BatchInv', MainStep
  PROVE  OwnerInv'
  <1>1. ASSUME NEW e \in batch, Dispatch(e) PROVE OwnerInv'
    <2>1. CASE DispatchListen(e) \/ (DispatchIo(e) /\ TimeoutOn /\ timer[e.fd] = "none")
      <3>1. /\ UNCHANGED <<tasks, sock, isClose, ep, timer, job>>
            /\ batch' = batch \ {e}
            /\ pc' = pc \/ pc' = [pc EXCEPT ![Main] = "accept"]
        BY <1>1, <2>1 DEF Dispatch, DispatchListen, DispatchIo, DealTask
      <3>2. /\ \A w \in Workers : pc'[w] = pc[w]
            /\ pc'[Main] \in {pc[Main], "accept"}
        BY <3>1 DEF TypeOK, ThreadType, Threads
      <3>3. \A t \in Threads : pc'[t] = "clr" => ~isClose[job'[t].fd]
        BY <3>1, <3>2 DEF OwnerInv, ConnInv, Threads
      <3>4. \A x \in Fds : /\ (Armed(x)' => Armed(x))
                            /\ (InBatch(x)' => InBatch(x))
                            /\ (MainSide(x)' => MainSide(x))
        BY <3>1, <3>2 DEF Armed, InBatch, MainSide, ClosePcs
      <3> QED BY <3>1, <3>2, <3>3, <3>4, Shrink
    <2> QED BY <1>1, <2>1, HupOwner, IoOwner DEF Dispatch
  <1>2. CASE Pop \/ GetNextTick \/ WaitTimeout \/ DispatchDone \/ AcceptNone \/ AcceptBusy
    <2>1. /\ UNCHANGED <<tasks, sock, isClose, ep, batch>>
          /\ \A w \in Workers : pc'[w] = pc[w] /\ job'[w] = job[w]
          /\ pc'[Main] \in {"tick", "wait", "dispatch"}
      BY <1>2 DEF Pop, GetNextTick, WaitTimeout, DispatchDone, AcceptNone, AcceptBusy,
                  TypeOK, ThreadType, Threads
    <2>2. \A x \in Fds : timer'[x] = timer[x] \/ timer'[x] = "none"
      BY <1>2 DEF Pop, GetNextTick, WaitTimeout, DispatchDone, AcceptNone, AcceptBusy,
                  TypeOK, LoopType
    <2>3. \A t \in Threads : pc'[t] = "clr" => ~isClose[job'[t].fd]
      BY <2>1 DEF OwnerInv, ConnInv, Threads
    <2>4. \A x \in Fds : /\ (Armed(x)' => Armed(x))
                          /\ (InBatch(x)' => InBatch(x))
                          /\ (MainSide(x)' => MainSide(x))
      BY <2>1 DEF Armed, InBatch, MainSide, ClosePcs
    <2> QED BY <2>1, <2>2, <2>3, <2>4, Shrink
  <1>3. CASE CloseConn_(Main)
    BY <1>3, CloseStartOwner, CloseOwner DEF CloseConn_, Threads
  <1> QED BY <1>1, <1>2, <1>3, TickOwner, WaitOwner, AcceptOwner DEF MainStep, DealListen_

\* A worker takes the oldest task: the queue gives up the client, the worker
\* takes it over.
LEMMA TakeOwner ==
  ASSUME TypeOK, OwnerInv, BatchInv', NEW w \in Workers, Take(w)
  PROVE  OwnerInv'
  <1> DEFINE task == Head(tasks)  fd == Head(tasks).fd
  <1>1. /\ UNCHANGED <<sock, isClose, ep, batch, timer>>
        /\ pc' = [pc EXCEPT ![w] = task.op] /\ pc[w] = "idle"
        /\ job' = [job EXCEPT ![w] = [fd |-> task.fd, conn |-> task.conn]]
        /\ tasks' = Tail(tasks) /\ tasks # << >>
    BY DEF Take
  <1>2. /\ task \in Task /\ Len(tasks') = Len(tasks) - 1 /\ Len(tasks) \in Nat /\ Len(tasks) > 0
        /\ tasks[1] = task
        /\ \A i \in 1..Len(tasks') : tasks'[i] = tasks[i + 1]
    <2>1. tasks \in Seq(Task)
      BY DEF TypeOK, LoopType
    <2> QED BY <1>1, <2>1, HeadTailProperties
  <1> HIDE DEF task
  <1>3. fd \in Fds /\ fd = task.fd /\ task.op \in {"read", "write"} /\ fd = tasks[1].fd
    BY <1>2 DEF Task, task
  <1>4. Queued(fd) /\ 1 \in 1..Len(tasks)
    BY <1>2, <1>3 DEF Queued
  <1>5. /\ \A v \in Workers : ~Working(v, fd)
        /\ ~MainSide(fd)
        /\ \A i \in 1..Len(tasks) : tasks[i].fd = fd => i = 1
    BY <1>3, <1>4 DEF OwnerInv, ExclusiveOwner
  <1>6. \A i \in 1..Len(tasks') : i + 1 \in 1..Len(tasks) /\ i + 1 # 1
    BY <1>2
  <1>7. /\ \A v \in Workers : v # w => pc'[v] = pc[v] /\ job'[v] = job[v]
        /\ pc'[Main] = pc[Main] /\ job'[Main] = job[Main]
        /\ pc'[w] = task.op /\ job'[w].fd = fd /\ job'[w].conn = task.conn
    BY <1>1, <1>3 DEF TypeOK, ThreadType, Threads
  <1>8. \A x \in Fds :
          /\ Queued(x)' => Queued(x) /\ x # fd
          /\ (Armed(x)' <=> Armed(x)) /\ (InBatch(x)' <=> InBatch(x))
          /\ (MainSide(x)' <=> MainSide(x))
          /\ \A v \in Workers : Working(v, x)' => (v = w /\ x = fd) \/ Working(v, x)
    <2> SUFFICES ASSUME NEW x \in Fds
        PROVE  /\ Queued(x)' => Queued(x) /\ x # fd
               /\ (Armed(x)' <=> Armed(x)) /\ (InBatch(x)' <=> InBatch(x))
               /\ (MainSide(x)' <=> MainSide(x))
               /\ \A v \in Workers : Working(v, x)' => (v = w /\ x = fd) \/ Working(v, x)
      OBVIOUS
    <2>1. Queued(x)' => Queued(x) /\ x # fd
      BY <1>2, <1>5, <1>6 DEF Queued
    <2>2. (Armed(x)' <=> Armed(x)) /\ (InBatch(x)' <=> InBatch(x))
      BY <1>1 DEF Armed, InBatch
    <2>3. MainSide(x)' <=> MainSide(x)
      BY <1>7, <2>2 DEF MainSide
    <2>4. \A v \in Workers : Working(v, x)' => (v = w /\ x = fd) \/ Working(v, x)
      BY <1>7 DEF Working
    <2> QED BY <2>1, <2>2, <2>3, <2>4
  <1>9. ExclusiveOwner'
    <2>1. \A x \in Fds : \A i, j \in 1..Len(tasks') :
            tasks'[i].fd = x /\ tasks'[j].fd = x => i = j
      <3> SUFFICES ASSUME NEW x \in Fds, NEW i \in 1..Len(tasks'), NEW j \in 1..Len(tasks'),
                          tasks'[i].fd = x, tasks'[j].fd = x
                   PROVE  i = j
        OBVIOUS
      <3>1. i + 1 \in 1..Len(tasks) /\ j + 1 \in 1..Len(tasks)
            /\ tasks[i + 1].fd = x /\ tasks[j + 1].fd = x
        BY <1>2, <1>6
      <3>2. i + 1 = j + 1
        BY <3>1 DEF OwnerInv, ExclusiveOwner
      <3> QED BY <1>2, <3>2
    <2>2. \A x \in Fds : \A u, v \in Workers : Working(u, x)' /\ Working(v, x)' => u = v
      BY <1>5, <1>8 DEF OwnerInv, ExclusiveOwner
    <2>3. \A x \in Fds :
            /\ MainSide(x)' => ~Queued(x)' /\ \A v \in Workers : ~Working(v, x)'
            /\ Queued(x)' => \A v \in Workers : ~Working(v, x)'
            /\ ~(Armed(x)' /\ InBatch(x)')
      BY <1>5, <1>8 DEF OwnerInv, ExclusiveOwner
    <2> QED BY <2>1, <2>2, <2>3 DEF ExclusiveOwner
  <1>10. NoStaleTask'
    <2>1. \A i \in 1..Len(tasks) : tasks[i].conn # 0 /\ sock[tasks[i].fd] = tasks[i].conn
      BY DEF OwnerInv, NoStaleTask
    <2>2. \A i \in 1..Len(tasks') : tasks'[i].conn # 0 /\ sock[tasks'[i].fd] = tasks'[i].conn
      BY <1>2, <1>6, <2>1
    <2>3. task.conn # 0 /\ sock[fd] = task.conn
      BY <1>2, <1>3, <1>4, <2>1
    <2> QED BY <1>1, <1>7, <2>2, <2>3 DEF OwnerInv, NoStaleTask
  <1>11. ConnInv'
    <2>1. ASSUME NEW t \in Threads, pc'[t] = "clr" PROVE ~isClose'[job'[t].fd]
      <3>1. t # w
        BY <1>3, <1>7, <2>1
      <3> QED BY <1>1, <1>7, <2>1, <3>1 DEF OwnerInv, ConnInv, Threads
    <2>2. \A x \in Fds : timer'[x] = "due" =>
            ~Queued(x)' /\ \A v \in Workers : ~Working(v, x)'
      BY <1>1, <1>4, <1>8 DEF OwnerInv, ConnInv
    <2> QED BY <1>1, <1>8, <2>1, <2>2 DEF OwnerInv, ConnInv
  <1> QED BY <1>9, <1>10, <1>11 DEF OwnerInv

\* Re-arming is the last thing a worker does to a client: the worker gives it
\* up in the step that lets the main thread have it.
LEMMA RearmOwner ==
  ASSUME TypeOK, OwnerInv, BatchInv', NEW w \in Workers, Rearm(w)
  PROVE  OwnerInv'
  <1> DEFINE fd == job[w].fd
  <1>1. /\ UNCHANGED <<tasks, sock, isClose, batch, timer>>
        /\ pc' = [pc EXCEPT ![w] = "idle"] /\ pc[w] # "idle"
        /\ job' = [job EXCEPT ![w] = NoJob]
        /\ \A x \in Fds : x # fd => ep'[x] = ep[x]
        /\ \A x \in Fds : ep'[x] # "none" => ep[x] # "none"
    BY DEF Rearm, Finish, TypeOK, KernelType
  <1>2. fd \in Fds /\ Working(w, fd)
    BY <1>1 DEF Working, TypeOK, ThreadType
  <1>3. ~MainSide(fd) /\ ~Queued(fd) /\ \A v \in Workers : Working(v, fd) => v = w
    BY <1>2 DEF OwnerInv, ExclusiveOwner
  <1>4. /\ \A v \in Workers : v # w => pc'[v] = pc[v] /\ job'[v] = job[v]
        /\ pc'[Main] = pc[Main] /\ job'[Main] = job[Main] /\ pc'[w] = "idle"
    BY <1>1 DEF TypeOK, ThreadType, Threads
  <1>5. \A x \in Fds :
          /\ (Queued(x)' <=> Queued(x)) /\ (InBatch(x)' <=> InBatch(x))
          /\ (Armed(x)' => Armed(x) \/ x = fd)
          /\ (MainSide(x)' => MainSide(x) \/ x = fd)
          /\ \A v \in Workers : Working(v, x)' => Working(v, x) /\ v # w
    BY <1>1, <1>4 DEF Queued, InBatch, Armed, MainSide, Working
  <1>6. \A x \in Fds : x = fd => \A v \in Workers : ~Working(v, x)'
    BY <1>3, <1>5, <1>2
  <1>7. ExclusiveOwner'
    <2>1. \A x \in Fds : MainSide(x)' => ~Queued(x)' /\ \A v \in Workers : ~Working(v, x)'
      BY <1>3, <1>5, <1>6 DEF OwnerInv, ExclusiveOwner
    <2>2. \A x \in Fds : ~(Armed(x)' /\ InBatch(x)')
      BY <1>3, <1>5 DEF OwnerInv, ExclusiveOwner, MainSide
    <2> QED BY <1>1, <1>5, <2>1, <2>2 DEF OwnerInv, ExclusiveOwner
  <1>8. NoStaleTask'
    BY <1>1, <1>4 DEF OwnerInv, NoStaleTask
  <1>9. ConnInv'
    <2>1. \A t \in Threads : pc'[t] = "clr" => pc[t] = "clr" /\ job'[t] = job[t]
      BY <1>4 DEF Threads
    <2> QED BY <1>1, <1>5, <2>1 DEF OwnerInv, ConnInv
  <1> QED BY <1>7, <1>8, <1>9 DEF OwnerInv

\* Every step of a worker keeps one owner for each connection.
LEMMA WorkerOwner ==
  ASSUME TypeOK, OwnerInv, BatchInv', NEW w \in Workers, WorkerStep(w)
  PROVE  OwnerInv'
  <1>1. CASE Read(w) \/ Process(w) \/ Writev(w) \/ Advance(w)
    <2>0. w # Main /\ pc[w] # "idle" /\ pc[w] # "clr"
          /\ pc \in [Threads -> {"idle"} \union MainPcs \union WorkPcs] /\ job \in [Threads -> Job]
      BY <1>1 DEF Read, Process, Writev, Advance, TypeOK, ThreadType
    <2>1. UNCHANGED <<tasks, sock, isClose, ep, batch, timer>>
      BY <1>1 DEF Read, Process, Writev, Advance
    <2>2. (\E l \in WorkPcs \ {"chk", "clr"} : Goto(w, l)) \/ Finish(w)
      BY <1>1 DEF Read, Process, NothingToProcess, Respond, NoAnswer, Writev,
                  WritevAll, WritevSome, WritevAgain, WritevError, WritevPipe, Advance,
                  AfterWrite, WorkPcs, ClosePcs
    <2>3. /\ \A t \in Threads : t # w => pc'[t] = pc[t] /\ job'[t] = job[t]
          /\ pc'[w] # "idle" => job'[w] = job[w]
          /\ pc'[w] # "clr"
      BY <2>0, <2>2 DEF Goto, Finish
    <2>4. \A v \in Workers : pc'[v] # "idle" => pc[v] # "idle" /\ job'[v] = job[v]
      BY <2>0, <2>3 DEF Threads
    <2>5. \A t \in Threads : pc'[t] = "clr" => ~isClose[job'[t].fd]
      BY <2>3 DEF OwnerInv, ConnInv
    <2>6. \A x \in Fds : /\ (Armed(x)' => Armed(x))
                          /\ (InBatch(x)' => InBatch(x))
                          /\ (MainSide(x)' => MainSide(x))
      BY <2>0, <2>1, <2>3 DEF Armed, InBatch, MainSide, Threads
    <2> QED BY <2>1, <2>4, <2>5, <2>6, Shrink
  <1>2. CASE CloseConn_(w)
    BY <1>2, CloseStartOwner, CloseOwner DEF CloseConn_, Threads
  <1> QED BY <1>1, <1>2, TakeOwner, RearmOwner DEF WorkerStep

\* Every step keeps one owner for each connection.
LEMMA OwnerStep ==
  ASSUME ~(TimeoutOn /\ SlowTasks), TypeOK, OwnerInv, [Next]_vars
  PROVE  OwnerInv'
  <1>1. BatchInv'
    BY BatchStep DEF OwnerInv
  <1> QED BY <1>1, ClientOwner, MainOwner, WorkerOwner DEF Next

\* At the start nothing is owned.
LEMMA OwnerInit == Init => OwnerInv
  BY DEF Init, OwnerInv, BatchInv, ExclusiveOwner, NoStaleTask, ConnInv, MainSide, Armed,
         InBatch, Queued, Working, Threads, ClosePcs

\* EPOLLONESHOT and the order of the handlers hand users_[fd] to one party at a
\* time, for any number of clients and workers, as long as no task outlives the
\* timer of its client (or there are no timers).
THEOREM ExclusiveOwnerCorrect ==
  ASSUME ~(TimeoutOn /\ SlowTasks)
  PROVE  Spec => []ExclusiveOwner
  <1>1. Init => TypeOK /\ OwnerInv
    BY InitTypeOK, OwnerInit
  <1>2. TypeOK /\ OwnerInv /\ [Next]_vars => TypeOK' /\ OwnerInv'
    BY NextTypeOK, OwnerStep
  <1>3. OwnerInv => ExclusiveOwner
    BY DEF OwnerInv
  <1> QED BY <1>1, <1>2, <1>3, PTL DEF Spec

\* Under the same assumption no task ever runs on a descriptor that was closed
\* or given to another client after the task was queued.
THEOREM NoStaleTaskCorrect ==
  ASSUME ~(TimeoutOn /\ SlowTasks)
  PROVE  Spec => []NoStaleTask
  <1>1. Init => TypeOK /\ OwnerInv
    BY InitTypeOK, OwnerInit
  <1>2. TypeOK /\ OwnerInv /\ [Next]_vars => TypeOK' /\ OwnerInv'
    BY NextTypeOK, OwnerStep
  <1>3. OwnerInv => NoStaleTask
    BY DEF OwnerInv
  <1> QED BY <1>1, <1>2, <1>3, PTL DEF Spec
-----------------------------------------------------------------------------
(* userCount counts the open clients.                                       *)

OpenFds == {fd \in Fds : sock[fd] # 0}
CountInv == userCount = Cardinality(OpenFds)

\* The set of open descriptors has a cardinality.
LEMMA OpenFinite == IsFiniteSet(OpenFds) /\ Cardinality(OpenFds) \in Nat
  <1>1. IsFiniteSet(OpenFds)
    BY FS_Subset DEF OpenFds
  <1> QED BY <1>1, FS_CardinalityType

\* Only AddClient_ and Close change the set of open descriptors, each by one.
LEMMA CountStep ==
  ASSUME TypeOK, OwnerInv, CountInv, [Next]_vars
  PROVE  CountInv'
  <1>1. ASSUME NEW fd \in Fds, AddClient_(fd) PROVE CountInv'
    <2>1. OpenFds' = OpenFds \union {fd} /\ fd \notin OpenFds
      <3>1. sock' = [sock EXCEPT ![fd] = serial + 1] /\ sock[fd] = 0
        BY <1>1 DEF AddClient_
      <3>2. serial \in Nat /\ sock \in [Fds -> Nat]
        BY DEF TypeOK, KernelType
      <3> QED BY <3>1, <3>2 DEF OpenFds
    <2>2. Cardinality(OpenFds') = Cardinality(OpenFds) + 1
      BY <2>1, OpenFinite, FS_AddElement
    <2> QED BY <1>1, <2>2 DEF AddClient_, CountInv
  <1>2. ASSUME NEW t \in Threads, Close(t) PROVE CountInv'
    <2> DEFINE fd == job[t].fd
    <2>1. fd \in Fds /\ ~isClose[fd]
      BY <1>2, WorkOn DEF Close, ClosePcs, TypeOK, OwnerInv, ConnInv
    <2>2. fd \in OpenFds
      BY <2>1 DEF OpenFds, OwnerInv, ConnInv
    <2>3. OpenFds' = OpenFds \ {fd}
      BY <1>2, <2>1 DEF Close, OpenFds, TypeOK, KernelType
    <2>4. Cardinality(OpenFds') = Cardinality(OpenFds) - 1
      BY <2>2, <2>3, OpenFinite, FS_RemoveElement
    <2> QED BY <1>2, <2>4 DEF Close, CountInv
  <1>3. CASE UNCHANGED <<sock, userCount>>
    BY <1>3 DEF CountInv, OpenFds
  <1>4. CASE Clients \/ (\E fd \in Fds : TimerDue(fd)) \/ UNCHANGED vars
    BY <1>3, <1>4 DEF Clients, Connect, Send, PeerClose, TimerDue, vars
  <1>5. ASSUME NEW t \in Threads, CloseConn_(t) PROVE CountInv'
    BY <1>2, <1>3, <1>5 DEF CloseConn_, DelFd, CheckClosed
  <1>6. CASE MainStep
    <2>1. ASSUME NEW e \in batch, Dispatch(e) PROVE CountInv'
      BY <1>3, <2>1 DEF Dispatch
    <2>2. ASSUME NEW fd \in Fds, TickFire(fd) PROVE CountInv'
      BY <1>3, <2>2 DEF TickFire
    <2>3. CASE Pop \/ GetNextTick \/ Wait \/ WaitTimeout \/ DispatchDone
      BY <1>3, <2>3 DEF Pop, GetNextTick, Wait, WaitTimeout, DispatchDone
    <2>4. CASE AcceptNone \/ AcceptBusy
      BY <1>3, <2>4 DEF AcceptNone, AcceptBusy
    <2> QED BY <1>1, <1>5, <1>6, <2>1, <2>2, <2>3, <2>4 DEF MainStep, DealListen_, Threads
  <1>7. ASSUME NEW w \in Workers, WorkerStep(w) PROVE CountInv'
    BY <1>3, <1>5, <1>7
    DEF WorkerStep, Take, Read, Process, Rearm, Writev, Advance, Threads
  <1> QED BY <1>4, <1>6, <1>7 DEF Next

\* userCount is the number of open clients and every client is closed exactly
\* once, under the assumption of ExclusiveOwnerCorrect.
THEOREM UserCountCorrect ==
  ASSUME ~(TimeoutOn /\ SlowTasks)
  PROVE  Spec => []UserCountExact
  <1>1. Init => TypeOK /\ OwnerInv /\ CountInv
    <2>1. Init => CountInv
      <3> SUFFICES ASSUME Init PROVE CountInv
        OBVIOUS
      <3>1. OpenFds = {}
        BY DEF Init, OpenFds
      <3> QED BY <3>1, FS_EmptySet DEF Init, CountInv
    <2> QED BY <2>1, InitTypeOK, OwnerInit
  <1>2. TypeOK /\ OwnerInv /\ CountInv /\ [Next]_vars => TypeOK' /\ OwnerInv' /\ CountInv'
    BY NextTypeOK, OwnerStep, CountStep
  <1>3. OwnerInv /\ CountInv => UserCountExact
    BY DEF OwnerInv, ConnInv, CountInv, OpenFds, UserCountExact
  <1> QED BY <1>1, <1>2, <1>3, PTL DEF Spec
-----------------------------------------------------------------------------
(* The listen queue.                                                        *)

\* ListenDrained, and where the promise to look at the queue is while the
\* main thread is in its dispatch loop.
ListenInv ==
  ListenET /\ backlog > 0 =>
    ledge \/ full \/ pc[Main] = "accept" \/ InBatch(ListenFd)

\* Every step keeps an event, or the loop that handles one, for the clients in
\* the listen queue.
LEMMA ListenStep ==
  ASSUME TypeOK, BatchInv, ListenInv, [Next]_vars
  PROVE  ListenInv'
  <1> SUFFICES ASSUME ListenET, backlog' > 0
               PROVE  (ledge \/ full \/ pc[Main] = "accept" \/ InBatch(ListenFd))'
    BY DEF ListenInv
  <1> USE DEF TypeOK, KernelType, ThreadType, LoopType
  <1>0. Main \in Threads
    BY DEF Threads
  <1>1. CASE UNCHANGED <<listenVars, batch>> /\ (pc[Main] = "accept" => pc'[Main] = "accept")
    BY <1>1 DEF ListenInv, InBatch
  <1>2. CASE Clients \/ (\E fd \in Fds : TimerDue(fd)) \/ UNCHANGED vars
    BY <1>1, <1>2 DEF Clients, Connect, Send, PeerClose, TimerDue, vars
  <1>3. ASSUME NEW w \in Workers, WorkerStep(w)
        PROVE  (ledge \/ full \/ pc[Main] = "accept" \/ InBatch(ListenFd))'
    BY <1>1, <1>3, WorkerFrame
  <1>4. CASE MainStep
    <2>1. ASSUME NEW fd \in Fds, TickFire(fd)
          PROVE  (ledge \/ full \/ pc[Main] = "accept" \/ InBatch(ListenFd))'
      BY <1>1, <2>1 DEF TickFire, StartClose
    <2>2. CASE Pop \/ GetNextTick \/ WaitTimeout \/ DispatchDone
      BY <1>1, <2>2 DEF Pop, GetNextTick, WaitTimeout, DispatchDone
    <2>3. CASE Wait
      <3> PICK W \in SUBSET {fd \in Fds : ep[fd] = "out"} : batch' = Ready(W)
        BY <2>3 DEF Wait
      <3>1. batch = {} /\ pc[Main] # "accept" /\ backlog > 0
        BY <2>3 DEF Wait, BatchInv
      <3>2. ledge => [fd |-> ListenFd, ev |-> "in"] \in Ready(W)
        BY DEF Ready, ListenReady
      <3>3. ledge => InBatch(ListenFd)'
        BY <3>2 DEF InBatch
      <3>4. ledge \/ full
        BY <3>1 DEF ListenInv, InBatch
      <3>5. full' = full
        BY <2>3 DEF Wait
      <3> QED BY <3>3, <3>4, <3>5, Zenon
    <2>4. ASSUME NEW e \in batch, Dispatch(e)
          PROVE  (ledge \/ full \/ pc[Main] = "accept" \/ InBatch(ListenFd))'
      <3>1. CASE e.fd = ListenFd
        BY <1>0, <2>4, <3>1 DEF Dispatch, DispatchListen, DispatchHup, DispatchIo
      <3>2. CASE e.fd # ListenFd
        <4>1. UNCHANGED listenVars /\ batch' = batch \ {e} /\ pc[Main] = "dispatch"
          BY <2>4 DEF Dispatch
        <4>2. InBatch(ListenFd) => InBatch(ListenFd)'
          BY <3>2, <4>1 DEF InBatch
        <4>3. ledge \/ full \/ InBatch(ListenFd)
          BY <4>1 DEF ListenInv
        <4> QED BY <4>1, <4>2, <4>3
      <3> QED BY <3>1, <3>2
    <2>5. CASE AcceptNone
      <3>1. full' = (backlog > 0) /\ backlog' = backlog
        BY <2>5 DEF AcceptNone
      <3>2. backlog > 0
        BY <3>1
      <3> QED BY <3>1, <3>2, Zenon
    <2>6. CASE AcceptBusy
      <3>1. full' = (backlog' > 0)
        BY <2>6 DEF AcceptBusy
      <3>2. backlog' > 0
        OBVIOUS
      <3> QED BY <3>1, <3>2, Zenon
    <2>7. ASSUME NEW fd \in Fds, AddClient_(fd)
          PROVE  (ledge \/ full \/ pc[Main] = "accept" \/ InBatch(ListenFd))'
      BY <1>0, <2>7 DEF AddClient_, AfterAccept
    <2>8. CASE CloseConn_(Main)
      BY <1>0, <1>1, <2>8 DEF CloseConn_, DelFd, CheckClosed, Close
    <2> QED BY <1>4, <2>1, <2>2, <2>3, <2>4, <2>5, <2>6, <2>7, <2>8 DEF MainStep, DealListen_
  <1> QED BY <1>2, <1>3, <1>4 DEF Next

\* In ET mode no client is left in the listen queue without an edge to come,
\* unless the accept loop met MAX_FD or the descriptor limit: for any number of
\* clients and descriptors, however slow the tasks are (webserver.cpp:54,160).
THEOREM ListenDrainedCorrect == Spec => []ListenDrained
  <1>1. Init => TypeOK /\ BatchInv /\ ListenInv
    <2>1. Init => BatchInv /\ ListenInv
      BY DEF Init, BatchInv, ListenInv, Threads, ClosePcs
    <2> QED BY <2>1, InitTypeOK
  <1>2. TypeOK /\ BatchInv /\ ListenInv /\ [Next]_vars => TypeOK' /\ BatchInv' /\ ListenInv'
    BY NextTypeOK, BatchStep, ListenStep
  <1>3. BatchInv /\ ListenInv => ListenDrained
    BY DEF BatchInv, ListenInv, ListenDrained, InBatch
  <1> QED BY <1>1, <1>2, <1>3, PTL DEF Spec
-----------------------------------------------------------------------------
(* The response buffer and the iovecs.                                      *)

\* fd is on its way to a read of a request, or to the end of a response: the
\* registration, event, task or worker that stands for it.
Reads(fd) ==
  \/ ep[fd] = "in"
  \/ \E e \in batch : e.fd = fd /\ e.ev = "in"
  \/ \E i \in 1..Len(tasks) : tasks[i].fd = fd /\ tasks[i].op = "read"
  \/ \E w \in Workers : pc[w] \in {"read", "process", "rearm_in"} /\ job[w].fd = fd

Writes(fd) ==
  \/ ep[fd] = "out"
  \/ \E e \in batch : e.fd = fd /\ e.ev = "out"
  \/ \E i \in 1..Len(tasks) : tasks[i].fd = fd /\ tasks[i].op = "write"
  \/ \E w \in Workers : pc[w] \in {"rearm_out", "write", "advance"} /\ job[w].fd = fd

\* iov_[0] covers writeBuff_ once the client has had an answer, a request is
\* read only when writeBuff_ is empty, and only an answer is written.
RespAt(fd) ==
  /\ spoken[fd] => wbuf[fd] = iov0[fd]
  /\ Reads(fd) => wbuf[fd] = 0
  /\ Writes(fd) => spoken[fd]

RespInv == crash # "retrieve" /\ \A fd \in Fds : RespAt(fd)

\* A step that gives no client a new way to be read or written.
LEMMA RespFrame ==
  ASSUME RespInv, UNCHANGED <<wbuf, iov0, spoken>>, crash' # "retrieve",
         \A fd \in Fds : (Reads(fd)' => Reads(fd)) /\ (Writes(fd)' => Writes(fd))
  PROVE  RespInv'
  BY DEF RespInv, RespAt

\* What a worker's step on its client leaves to show: nobody else is about to
\* read or write that client.
LEMMA RespWorker ==
  ASSUME TypeOK, OwnerInv, NEW w \in Workers, NEW fd \in Fds,
         pc[w] # "idle", fd = job[w].fd,
         UNCHANGED <<batch, tasks>>,
         \A v \in Workers : v # w => pc'[v] = pc[v] /\ job'[v] = job[v],
         pc'[w] # "idle" => job'[w] = job[w],
         \A x \in Fds : x # fd => ep'[x] = ep[x]
  PROVE  /\ \A x \in Fds : x # fd => (Reads(x)' => Reads(x)) /\ (Writes(x)' => Writes(x))
         /\ Reads(fd)' => ep'[fd] = "in" \/ pc'[w] \in {"read", "process", "rearm_in"}
         /\ Writes(fd)' => ep'[fd] = "out" \/ pc'[w] \in {"rearm_out", "write", "advance"}
         /\ ep[fd] \in {"none", "off"}
  <1>1. Working(w, fd)
    BY DEF Working
  <1>2. ~MainSide(fd) /\ ~Queued(fd) /\ \A v \in Workers : Working(v, fd) => v = w
    BY <1>1 DEF OwnerInv, ExclusiveOwner
  <1>3. ~InBatch(fd) /\ ~Armed(fd)
    BY <1>2 DEF MainSide
  <1>4. \A v \in Workers : v # w /\ pc'[v] # "idle" => job'[v].fd # fd
    BY <1>2 DEF Working
  <1>5. ASSUME NEW x \in Fds, x # fd
        PROVE  (Reads(x)' => Reads(x)) /\ (Writes(x)' => Writes(x))
    <2>1. \A v \in Workers : pc'[v] # "idle" /\ job'[v].fd = x => v # w
      BY <1>5
    <2>2. Reads(x)' => Reads(x)
      BY <1>5, <2>1 DEF Reads
    <2>3. Writes(x)' => Writes(x)
      BY <1>5, <2>1 DEF Writes
    <2> QED BY <2>2, <2>3
  <1>6. Reads(fd)' => ep'[fd] = "in" \/ pc'[w] \in {"read", "process", "rearm_in"}
    BY <1>2, <1>3, <1>4 DEF Reads, Queued, InBatch
  <1>7. Writes(fd)' => ep'[fd] = "out" \/ pc'[w] \in {"rearm_out", "write", "advance"}
    BY <1>2, <1>3, <1>4 DEF Writes, Queued, InBatch
  <1>8. ep[fd] \in {"none", "off"}
    BY <1>3 DEF Armed, TypeOK, KernelType
  <1> QED BY <1>5, <1>6, <1>7, <1>8

\* Nobody has a claim on a descriptor that is closed.
LEMMA FreeUnclaimed ==
  ASSUME OwnerInv, NEW fd \in Fds, sock[fd] = 0
  PROVE  ~Queued(fd) /\ ~InBatch(fd) /\ \A w \in Workers : ~Working(w, fd)
  BY DEF OwnerInv, NoStaleTask, ConnInv, Queued, Working

\* The steps of the main thread.
LEMMA RespMain ==
  ASSUME TypeOK, OwnerInv, RespInv, MainStep
  PROVE  RespInv'
  <1> USE DEF TypeOK, ThreadType
  <1>0. /\ Main \in Threads /\ Main \notin Workers /\ Workers \subseteq Threads
        /\ crash # "retrieve"
    BY DEF Threads, RespInv
  <1>1. CASE /\ UNCHANGED <<wbuf, iov0, spoken, tasks, batch>> /\ crash' # "retrieve"
             /\ \A fd \in Fds : ep'[fd] = ep[fd] \/ ep'[fd] = "none"
             /\ \A w \in Workers : pc'[w] = pc[w] /\ job'[w] = job[w]
    <2>1. \A fd \in Fds : (Reads(fd)' => Reads(fd)) /\ (Writes(fd)' => Writes(fd))
      BY <1>1 DEF Reads, Writes
    <2> QED BY <1>1, <2>1, RespFrame
  <1>2. ASSUME NEW fd \in Fds, TickFire(fd) PROVE RespInv'
    BY <1>0, <1>1, <1>2 DEF TickFire, StartClose
  <1>3. CASE Pop \/ GetNextTick \/ WaitTimeout \/ DispatchDone \/ AcceptNone \/ AcceptBusy
    BY <1>0, <1>1, <1>3 DEF Pop, GetNextTick, WaitTimeout, DispatchDone, AcceptNone, AcceptBusy
  <1>4. CASE CloseConn_(Main)
    BY <1>0, <1>1, <1>4 DEF CloseConn_, DelFd, CheckClosed, Close, KernelType
  <1>5. CASE Wait
    <2> PICK W \in SUBSET {fd \in Fds : ep[fd] = "out"} :
          batch' = Ready(W) /\ ep' = Disarmed(Ready(W))
      BY <1>5 DEF Wait
    <2>1. /\ UNCHANGED <<wbuf, iov0, spoken, tasks, crash>>
          /\ \A w \in Workers : pc'[w] = pc[w] /\ job'[w] = job[w]
      BY <1>0, <1>5 DEF Wait
    <2>2. \A fd \in Fds : ep'[fd] = ep[fd] \/ ep'[fd] = "off"
      BY ReadyUnique
    <2>3. \A e \in Ready(W) : e.fd \in Fds =>
            (e.ev = "in" => ep[e.fd] = "in") /\ (e.ev = "out" => ep[e.fd] = "out")
      BY DEF Ready
    <2>4. \A fd \in Fds : (Reads(fd)' => Reads(fd)) /\ (Writes(fd)' => Writes(fd))
      BY <2>1, <2>2, <2>3 DEF Reads, Writes
    <2> QED BY <1>0, <2>1, <2>4, RespFrame
  <1>6. ASSUME NEW e \in batch, Dispatch(e) PROVE RespInv'
    <2>1. /\ UNCHANGED <<wbuf, iov0, spoken, ep>> /\ batch' = batch \ {e}
          /\ \A w \in Workers : pc'[w] = pc[w] /\ job'[w] = job[w]
          /\ crash' # "retrieve"
      BY <1>0, <1>6 DEF Dispatch, DispatchListen, DispatchHup, DispatchIo, DealTask, StartClose
    <2>2. CASE tasks' = tasks
      <3>1. \A fd \in Fds : (Reads(fd)' => Reads(fd)) /\ (Writes(fd)' => Writes(fd))
        BY <2>1, <2>2 DEF Reads, Writes
      <3> QED BY <2>1, <3>1, RespFrame
    <2>3. CASE tasks' # tasks
      <3> DEFINE task == [op |-> IF e.ev = "in" THEN "read" ELSE "write",
                          fd |-> e.fd, conn |-> sock[e.fd]]
      <3>1. tasks' = Append(tasks, task) /\ e.ev # "hup" /\ e \in Event
        BY <1>6, <2>3 DEF Dispatch, DispatchListen, DispatchHup, DispatchIo, DealTask, LoopType
      <3>2. /\ task.fd = e.fd /\ e.ev \in {"in", "out"}
            /\ task.op = IF e.ev = "in" THEN "read" ELSE "write"
        BY <3>1 DEF Event
      <3> HIDE DEF task
      <3>3. /\ Len(tasks') = Len(tasks) + 1 /\ Len(tasks) \in Nat
            /\ \A i \in 1..Len(tasks) : tasks'[i] = tasks[i]
            /\ tasks'[Len(tasks) + 1] = task
        <4>1. tasks \in Seq(Task)
          BY DEF LoopType
        <4> QED BY <3>1, <4>1
      <3>4. \A fd \in Fds : \A i \in 1..Len(tasks') : tasks'[i].fd = fd =>
              \/ i \in 1..Len(tasks) /\ tasks'[i] = tasks[i]
              \/ /\ e.fd = fd
                 /\ tasks'[i].op = "read" => e.ev = "in"
                 /\ tasks'[i].op = "write" => e.ev = "out"
        BY <3>2, <3>3
      <3>5. ASSUME NEW fd \in Fds PROVE Reads(fd)' => Reads(fd)
        BY <2>1, <3>4 DEF Reads
      <3>6. ASSUME NEW fd \in Fds PROVE Writes(fd)' => Writes(fd)
        BY <2>1, <3>4 DEF Writes
      <3> QED BY <2>1, <3>5, <3>6, RespFrame
    <2> QED BY <2>2, <2>3
  <1>7. ASSUME NEW fd \in Fds, AddClient_(fd) PROVE RespInv'
    <2>1. /\ UNCHANGED <<iov0, tasks, batch, crash>>
          /\ ep' = [ep EXCEPT ![fd] = "in"] /\ wbuf' = [wbuf EXCEPT ![fd] = 0]
          /\ spoken' = [spoken EXCEPT ![fd] = FALSE] /\ sock[fd] = 0
          /\ \A w \in Workers : pc'[w] = pc[w] /\ job'[w] = job[w]
      BY <1>0, <1>7 DEF AddClient_
    <2>2. ~Queued(fd) /\ ~InBatch(fd) /\ \A w \in Workers : ~Working(w, fd)
      BY <2>1, FreeUnclaimed
    <2>3. ~Writes(fd)'
      BY <2>1, <2>2 DEF Writes, Queued, InBatch, Working, KernelType
    <2>4. RespAt(fd)'
      BY <2>1, <2>3 DEF RespAt, ConnType
    <2>5. ASSUME NEW x \in Fds, x # fd PROVE RespAt(x)'
      <3>1. (Reads(x)' => Reads(x)) /\ (Writes(x)' => Writes(x))
        BY <2>1, <2>5 DEF Reads, Writes, KernelType
      <3> QED BY <2>1, <2>5, <3>1 DEF RespInv, RespAt, ConnType
    <2> QED BY <1>0, <2>1, <2>4, <2>5 DEF RespInv
  <1> QED BY <1>2, <1>3, <1>4, <1>5, <1>6, <1>7 DEF MainStep, DealListen_

\* The steps of a worker.
LEMMA RespWork ==
  ASSUME ~AnyOpening, TypeOK, OwnerInv, RespInv, NEW w \in Workers, WorkerStep(w)
  PROVE  RespInv'
  <1> DEFINE fd == job[w].fd
  <1>0. /\ w \in Threads /\ crash # "retrieve"
        /\ pc \in [Threads -> {"idle"} \union MainPcs \union WorkPcs] /\ job \in [Threads -> Job]
        /\ pc[w] # "idle" => fd \in Fds
    BY DEF Threads, RespInv, TypeOK, ThreadType
  <1>1. CASE Take(w)
    <2> DEFINE task == Head(tasks)
    <2>1. /\ UNCHANGED <<wbuf, iov0, spoken, crash, ep, batch>>
          /\ pc'[w] = task.op /\ job'[w].fd = task.fd /\ tasks # << >> /\ tasks' = Tail(tasks)
          /\ \A v \in Workers : v # w => pc'[v] = pc[v] /\ job'[v] = job[v]
      BY <1>0, <1>1 DEF Take, Threads
    <2>2. /\ task \in Task /\ Len(tasks') = Len(tasks) - 1 /\ Len(tasks) \in Nat /\ Len(tasks) > 0
          /\ tasks[1] = task
          /\ \A i \in 1..Len(tasks') : tasks'[i] = tasks[i + 1]
      <3>1. tasks \in Seq(Task)
        BY DEF TypeOK, LoopType
      <3> QED BY <2>1, <3>1, HeadTailProperties
    <2> HIDE DEF task
    <2>3. task.op \in {"read", "write"} /\ 1 \in 1..Len(tasks)
          /\ \A i \in 1..Len(tasks') : i + 1 \in 1..Len(tasks)
      BY <2>2 DEF Task
    <2>4. ASSUME NEW x \in Fds PROVE Reads(x)' => Reads(x)
      BY <2>1, <2>2, <2>3 DEF Reads
    <2>5. ASSUME NEW x \in Fds PROVE Writes(x)' => Writes(x)
      BY <2>1, <2>2, <2>3 DEF Writes
    <2> QED BY <1>0, <2>1, <2>4, <2>5, RespFrame
  <1>2. CASE Read(w) \/ CloseConn_(w)
    <2>1. /\ UNCHANGED <<wbuf, iov0, spoken, crash, batch, tasks>>
          /\ \A v \in Workers : v # w => pc'[v] = pc[v] /\ job'[v] = job[v]
      BY <1>0, <1>2 DEF Read, Goto, CloseConn_, DelFd, CheckClosed, Close, Threads
    <2>2. \A x \in Fds : ep'[x] = ep[x] \/ ep'[x] = "none"
      BY <1>2 DEF Read, CloseConn_, DelFd, CheckClosed, Close, TypeOK, KernelType
    <2>3. \/ pc'[w] \in {"idle", "del", "chk", "clr"}
          \/ pc[w] = "read" /\ pc'[w] = "process" /\ job'[w] = job[w]
      BY <1>0, <1>2 DEF Read, Goto, CloseConn_, DelFd, CheckClosed, Close, AfterClose
    <2>4. \A x \in Fds : (Reads(x)' => Reads(x)) /\ (Writes(x)' => Writes(x))
      BY <2>1, <2>2, <2>3 DEF Reads, Writes
    <2> QED BY <1>0, <2>1, <2>4, RespFrame
  <1>3. ASSUME NEW x \in Fds, x = job[w].fd, pc[w] # "idle",
               UNCHANGED <<batch, tasks>>,
               \A v \in Workers : v # w => pc'[v] = pc[v] /\ job'[v] = job[v],
               pc'[w] # "idle" => job'[w] = job[w],
               \A y \in Fds : y # x =>
                 /\ ep'[y] = ep[y] /\ wbuf'[y] = wbuf[y] /\ iov0'[y] = iov0[y]
                 /\ spoken'[y] = spoken[y],
               crash' # "retrieve",
               spoken'[x] => wbuf'[x] = iov0'[x],
               ep'[x] = "in" \/ pc'[w] \in {"read", "process", "rearm_in"} => wbuf'[x] = 0,
               ep'[x] = "out" \/ pc'[w] \in {"rearm_out", "write", "advance"} => spoken'[x]
        PROVE  RespInv'
    <2>1. /\ \A y \in Fds : y # x => (Reads(y)' => Reads(y)) /\ (Writes(y)' => Writes(y))
          /\ Reads(x)' => ep'[x] = "in" \/ pc'[w] \in {"read", "process", "rearm_in"}
          /\ Writes(x)' => ep'[x] = "out" \/ pc'[w] \in {"rearm_out", "write", "advance"}
      BY <1>3, RespWorker
    <2>2. RespAt(x)'
      BY <1>3, <2>1 DEF RespAt
    <2>3. ASSUME NEW y \in Fds, y # x PROVE RespAt(y)'
      BY <1>3, <2>1, <2>3 DEF RespInv, RespAt
    <2> QED BY <1>3, <2>2, <2>3 DEF RespInv
  <1>4. ASSUME pc[w] # "idle", ep' = ep, UNCHANGED <<batch, tasks>>,
               (\E l \in WorkPcs : Goto(w, l)) \/ Finish(w)
        PROVE  /\ ep'[fd] \notin {"in", "out"}
               /\ \A v \in Workers : v # w => pc'[v] = pc[v] /\ job'[v] = job[v]
               /\ pc'[w] # "idle" => job'[w] = job[w]
    <2>1. /\ \A v \in Workers : v # w => pc'[v] = pc[v] /\ job'[v] = job[v]
          /\ pc'[w] # "idle" => job'[w] = job[w]
      BY <1>0, <1>4 DEF Goto, Finish, Threads
    <2>2. fd \in Fds /\ Working(w, fd)
      BY <1>0, <1>4 DEF Working
    <2>3. ~Armed(fd)
      BY <2>2 DEF OwnerInv, ExclusiveOwner, MainSide
    <2> QED BY <1>4, <2>1, <2>3 DEF Armed
  <1>5. pc[w] \in {"process", "rearm_in"} => wbuf[fd] = 0
    BY <1>0 DEF RespInv, RespAt, Reads
  <1>6. pc[w] \in {"rearm_out", "write", "advance"} => spoken[fd] /\ wbuf[fd] = iov0[fd]
    BY <1>0 DEF RespInv, RespAt, Writes
  <1>7. CASE Process(w)
    <2>1. /\ pc[w] = "process" /\ UNCHANGED <<batch, tasks, crash>> /\ ep' = ep
          /\ fd \in Fds /\ wbuf[fd] = 0
          /\ spoken[fd] => wbuf[fd] = iov0[fd]
      BY <1>0, <1>5, <1>7 DEF Process, RespInv, RespAt
    <2>2. CASE NothingToProcess(w)
      <3>1. Goto(w, "rearm_in") /\ UNCHANGED <<wbuf, iov0, spoken>>
        BY <2>2 DEF NothingToProcess
      <3>2. pc'[w] = "rearm_in"
        BY <1>0, <3>1 DEF Goto
      <3> QED BY <1>0, <1>3, <1>4, <2>1, <3>1, <3>2 DEF WorkPcs
    <2>3. CASE NoAnswer(w)
      <3>1. Goto(w, "rearm_out") /\ UNCHANGED <<wbuf, iov0, spoken>> /\ spoken[fd]
        BY <2>3 DEF NoAnswer
      <3>2. pc'[w] = "rearm_out"
        BY <1>0, <3>1 DEF Goto
      <3> QED BY <1>0, <1>3, <1>4, <2>1, <3>1, <3>2 DEF WorkPcs
    <2>4. CASE Respond(w)
      <3>1. Goto(w, "rearm_out") /\ spoken' = [spoken EXCEPT ![fd] = TRUE]
        BY <2>4 DEF Respond
      <3>2. pc'[w] = "rearm_out"
        BY <1>0, <3>1 DEF Goto
      <3> PICK hdr \in 0..HdrChunks :
            /\ wbuf' = [wbuf EXCEPT ![fd] = @ + hdr]
            /\ iov0' = [iov0 EXCEPT ![fd] = wbuf[fd] + hdr]
        BY <2>4 DEF Respond
      <3>3. /\ wbuf'[fd] = iov0'[fd] /\ spoken'[fd]
            /\ \A y \in Fds : y # fd =>
                 wbuf'[y] = wbuf[y] /\ iov0'[y] = iov0[y] /\ spoken'[y] = spoken[y]
        BY <2>1, <3>1 DEF TypeOK, ConnType
      <3>4. \E l \in WorkPcs : Goto(w, l)
        BY <3>1 DEF WorkPcs
      <3>5. /\ ep'[fd] \notin {"in", "out"}
            /\ \A v \in Workers : v # w => pc'[v] = pc[v] /\ job'[v] = job[v]
            /\ job'[w] = job[w]
        BY <1>4, <2>1, <3>2, <3>4
      <3> QED BY <1>0, <1>3, <2>1, <3>2, <3>3, <3>5
    <2> QED BY <1>7, <2>2, <2>3, <2>4 DEF Process
  <1>8. CASE Rearm(w)
    <2>1. /\ pc[w] \in {"rearm_in", "rearm_out"} /\ UNCHANGED <<batch, tasks, crash, wbuf, iov0, spoken>>
          /\ fd \in Fds /\ Finish(w)
          /\ \A y \in Fds : y # fd => ep'[y] = ep[y]
          /\ ep'[fd] = "in" => ep[fd] = "in" \/ pc[w] = "rearm_in"
          /\ ep'[fd] = "out" => ep[fd] = "out" \/ pc[w] = "rearm_out"
      BY <1>0, <1>8 DEF Rearm, TypeOK, KernelType
    <2>2. ~Armed(fd) /\ (spoken[fd] => wbuf[fd] = iov0[fd])
      <3>1. Working(w, fd)
        BY <2>1 DEF Working
      <3> QED BY <2>1, <3>1 DEF OwnerInv, ExclusiveOwner, MainSide, RespInv, RespAt
    <2>3. /\ pc'[w] = "idle"
          /\ \A v \in Workers : v # w => pc'[v] = pc[v] /\ job'[v] = job[v]
      BY <1>0, <2>1 DEF Finish, Threads
    <2> QED BY <1>0, <1>3, <1>5, <1>6, <2>1, <2>2, <2>3 DEF Armed
  <1>9. CASE Writev(w)
    <2>1. /\ pc[w] = "write" /\ UNCHANGED <<batch, tasks, wbuf, iov0, spoken>> /\ ep' = ep
          /\ fd \in Fds /\ crash' # "retrieve" /\ spoken[fd] /\ wbuf[fd] = iov0[fd]
      BY <1>0, <1>6, <1>9
      DEF Writev, WritevAll, WritevSome, WritevAgain, WritevError, WritevPipe
    <2>2. \/ Goto(w, "process") /\ Total(fd) = 0
          \/ \E l \in {"advance", "rearm_out"} : Goto(w, l)
          \/ Finish(w)
      BY <1>9 DEF Writev, WritevAll, WritevSome, WritevAgain, WritevError, WritevPipe
    <2>3. Total(fd) = 0 => wbuf[fd] = 0
      BY <2>1 DEF Total, TypeOK, ConnType
    <2>4. (\E l \in WorkPcs : Goto(w, l)) \/ Finish(w)
      BY <2>2 DEF WorkPcs
    <2>5. \/ pc'[w] = "process" /\ Total(fd) = 0
          \/ pc'[w] \in {"advance", "rearm_out", "idle"}
      BY <1>0, <2>2 DEF Goto, Finish
    <2> QED BY <1>3, <1>4, <2>1, <2>3, <2>4, <2>5
  <1>10. CASE Advance(w)
    <2>1. /\ pc[w] = "advance" /\ UNCHANGED <<batch, tasks, spoken>> /\ ep' = ep
          /\ fd \in Fds /\ spoken[fd] /\ wbuf[fd] = iov0[fd]
          /\ iov0' = [iov0 EXCEPT ![fd] = HeaderLeft(fd, len[w])]
      BY <1>0, <1>6, <1>10 DEF Advance
    <2>2. /\ wbuf \in [Fds -> Nat] /\ iov0 \in [Fds -> Nat] /\ iov1 \in [Fds -> Nat]
          /\ len[w] \in Nat
      BY DEF TypeOK, ConnType, ThreadType
    <2>3. /\ wbuf'[fd] = iov0'[fd] /\ iov0'[fd] \in Nat /\ crash' # "retrieve"
          /\ \A y \in Fds : y # fd => wbuf'[y] = wbuf[y] /\ iov0'[y] = iov0[y]
      <3>1. CASE len[w] > iov0[fd]
        BY <1>0, <1>10, <2>1, <2>2, <3>1 DEF Advance, HeaderLeft
      <3>2. CASE ~(len[w] > iov0[fd])
        BY <1>0, <1>10, <2>1, <2>2, <3>2 DEF Advance, HeaderLeft
      <3> QED BY <3>1, <3>2
    <2>4. iov1'[fd] \in Nat
      <3>1. (iov1[fd] - (len[w] - iov0[fd])) % IovMod \in Nat
        BY <2>1, <2>2 DEF IovMod
      <3> QED BY <1>10, <2>1, <2>2, <3>1 DEF Advance
    <2>5. AfterWrite(w, iov0'[fd] + iov1'[fd])
      BY <1>10, <2>3 DEF Advance
    <2>6. \/ Goto(w, "write") \/ Finish(w)
          \/ Goto(w, "process") /\ iov0'[fd] = 0
      BY <2>3, <2>4, <2>5 DEF AfterWrite
    <2>7. (\E l \in WorkPcs : Goto(w, l)) \/ Finish(w)
      BY <2>6 DEF WorkPcs
    <2>8. pc'[w] \in {"write", "idle"} \/ (pc'[w] = "process" /\ iov0'[fd] = 0)
      BY <1>0, <2>6 DEF Goto, Finish
    <2> QED BY <1>3, <1>4, <2>1, <2>3, <2>7, <2>8
  <1> QED BY <1>1, <1>2, <1>7, <1>8, <1>9, <1>10 DEF WorkerStep

\* RespInv is kept by every step, when every first message gets an answer.
LEMMA RespStep ==
  ASSUME ~AnyOpening, TypeOK, OwnerInv, RespInv, [Next]_vars
  PROVE  RespInv'
  <1>1. CASE Clients \/ (\E fd \in Fds : TimerDue(fd)) \/ UNCHANGED vars
    <2>1. UNCHANGED <<wbuf, iov0, spoken, crash, ep, batch, tasks, pc, job>>
      BY <1>1 DEF Clients, Connect, Send, PeerClose, TimerDue, vars
    <2>2. \A fd \in Fds : (Reads(fd)' => Reads(fd)) /\ (Writes(fd)' => Writes(fd))
      BY <2>1 DEF Reads, Writes
    <2> QED BY <2>1, <2>2, RespFrame DEF RespInv
  <1> QED BY <1>1, RespMain, RespWork DEF Next

\* Every client starts free and with an empty buffer.
LEMMA RespInit == Init => RespInv
  BY DEF Init, RespInv, RespAt, Reads, Writes, Threads

\* Responses are never mixed and Buffer::Retrieve is never asked for more than
\* it holds, for any number of clients and workers and any lengths, in LT and
\* ET mode: as long as no task outlives its client's timer and the first
\* message of every client gets an answer.
THEOREM ResponsesNotMixedCorrect ==
  ASSUME ~(TimeoutOn /\ SlowTasks), ~AnyOpening
  PROVE  Spec => []ResponsesNotMixed
  <1>1. Init => TypeOK /\ OwnerInv /\ RespInv
    BY InitTypeOK, OwnerInit, RespInit
  <1>2. TypeOK /\ OwnerInv /\ RespInv /\ [Next]_vars => TypeOK' /\ OwnerInv' /\ RespInv'
    BY NextTypeOK, OwnerStep, RespStep
  <1>3. TypeOK /\ RespInv => ResponsesNotMixed
    <2> SUFFICES ASSUME TypeOK, RespInv PROVE ResponsesNotMixed
      OBVIOUS
    <2>1. \A w \in Workers : pc[w] # "idle" => job[w].fd \in Fds
      BY DEF TypeOK, ThreadType
    <2> QED BY <2>1 DEF RespInv, RespAt, Reads, ResponsesNotMixed
  <1> QED BY <1>1, <1>2, <1>3, PTL DEF Spec
-----------------------------------------------------------------------------
(* No client is forgotten.                                                  *)

\* iov_[0] covers writeBuff_ once the client has had an answer.
HeaderInv == \A fd \in Fds : spoken[fd] => wbuf[fd] = iov0[fd]

\* The part of RespInv that needs no assumption on tasks or openings.
LEMMA HeaderStep ==
  ASSUME TypeOK, HeaderInv, [Next]_vars
  PROVE  HeaderInv'
  <1> USE DEF TypeOK, ConnType
  <1>1. CASE UNCHANGED <<wbuf, iov0, spoken>>
    BY <1>1 DEF HeaderInv
  <1>2. CASE Clients \/ (\E fd \in Fds : TimerDue(fd)) \/ UNCHANGED vars
    BY <1>1, <1>2 DEF Clients, Connect, Send, PeerClose, TimerDue, vars
  <1>3. ASSUME NEW t \in Threads, CloseConn_(t) PROVE HeaderInv'
    BY <1>1, <1>3 DEF CloseConn_, DelFd, CheckClosed, Close
  <1>4. CASE MainStep
    <2>1. ASSUME NEW e \in batch, Dispatch(e) PROVE HeaderInv'
      BY <1>1, <2>1 DEF Dispatch
    <2>2. ASSUME NEW fd \in Fds, TickFire(fd) PROVE HeaderInv'
      BY <1>1, <2>2 DEF TickFire
    <2>3. CASE Pop \/ GetNextTick \/ Wait \/ WaitTimeout \/ DispatchDone \/ AcceptNone
                 \/ AcceptBusy
      BY <1>1, <2>3 DEF Pop, GetNextTick, Wait, WaitTimeout, DispatchDone, AcceptNone,
                        AcceptBusy
    <2>4. ASSUME NEW fd \in Fds, AddClient_(fd) PROVE HeaderInv'
      BY <2>4 DEF AddClient_, HeaderInv
    <2> QED BY <1>3, <1>4, <2>1, <2>2, <2>3, <2>4 DEF MainStep, DealListen_, Threads
  <1>5. ASSUME NEW w \in Workers, WorkerStep(w) PROVE HeaderInv'
    <2>1. CASE Take(w) \/ Read(w) \/ Rearm(w) \/ Writev(w) \/ CloseConn_(w)
      BY <1>1, <1>3, <2>1 DEF Take, Read, Rearm, Writev, Threads
    <2>2. CASE Process(w)
      BY <1>1, <2>2 DEF Process, NothingToProcess, NoAnswer, Respond, HeaderInv
    <2>3. CASE Advance(w)
      <3> DEFINE fd == job[w].fd
      <3>1. /\ fd \in Fds /\ len[w] \in Nat
            /\ iov0' = [iov0 EXCEPT ![fd] = HeaderLeft(fd, len[w])] /\ spoken' = spoken
        BY <2>3 DEF Advance, ThreadType
      <3>2. \A x \in Fds : x # fd => wbuf'[x] = wbuf[x] /\ iov0'[x] = iov0[x]
        BY <2>3, <3>1 DEF Advance
      <3>3. ASSUME spoken[fd] PROVE wbuf'[fd] = iov0'[fd]
        <4>1. wbuf[fd] = iov0[fd] /\ iov0[fd] \in Nat
          BY <3>1, <3>3 DEF HeaderInv
        <4>2. CASE len[w] > iov0[fd]
          BY <2>3, <3>1, <4>1, <4>2 DEF Advance, HeaderLeft
        <4>3. CASE ~(len[w] > iov0[fd])
          BY <2>3, <3>1, <4>1, <4>3 DEF Advance, HeaderLeft
        <4> QED BY <4>2, <4>3
      <3> QED BY <3>1, <3>2, <3>3 DEF HeaderInv
    <2> QED BY <1>5, <2>1, <2>2, <2>3 DEF WorkerStep
  <1> QED BY <1>2, <1>4, <1>5 DEF Next

\* Somebody has the client, or will: the conclusion of NeverForgotten.
Held(fd) == MainSide(fd) \/ Queued(fd) \/ \E w \in Workers : Working(w, fd)

\* NeverForgotten, and what remains of it when a first message may get no
\* answer: the promise to the clients that have had a response.
Kept ==
  \A fd \in Fds :
    ep[fd] = "off" /\ peer[fd] = "up" /\ (AnyOpening => spoken[fd]) => Held(fd)

\* A step that disarms nobody and lets go of nobody.
LEMMA HeldFrame ==
  ASSUME Kept,
         \A fd \in Fds : /\ Held(fd) => Held(fd)' \/ ep'[fd] # "off"
                         /\ ep'[fd] = "off" => ep[fd] = "off" \/ Held(fd)'
                         /\ peer'[fd] = "up" => peer[fd] = "up" \/ Held(fd)' \/ ep'[fd] # "off"
                         /\ spoken'[fd] => spoken[fd] \/ Held(fd)'
  PROVE  Kept'
  BY DEF Kept, Held

\* CloseConn_ keeps its claim until the registration is gone.
LEMMA HeldClose ==
  ASSUME TypeOK, OwnerInv, Kept, NEW t \in Threads, CloseConn_(t)
  PROVE  Kept'
  <1> DEFINE fd == job[t].fd
  <1>0. /\ pc \in [Threads -> {"idle"} \union MainPcs \union WorkPcs] /\ job \in [Threads -> Job]
        /\ ep \in [Fds -> {"none", "off", "in", "out"}] /\ peer \in [Fds -> {"up", "gone"}]
        /\ pc[t] \in ClosePcs /\ fd \in Fds /\ Main \in Threads /\ Workers \subseteq Threads
    BY WorkOn DEF TypeOK, ThreadType, KernelType, Threads, CloseConn_, DelFd, CheckClosed,
                  Close, ClosePcs
  <1>1. /\ UNCHANGED <<spoken, tasks, batch>>
        /\ \A x \in Fds : x # fd => ep'[x] = ep[x] /\ peer'[x] = peer[x]
        /\ \A u \in Threads : u # t => pc'[u] = pc[u] /\ job'[u] = job[u]
    BY <1>0 DEF CloseConn_, DelFd, CheckClosed, Close
  <1>2. ep'[fd] = "none" \/ (pc'[t] \in ClosePcs /\ job'[t] = job[t] /\ ep' = ep /\ peer' = peer)
    <2>1. CASE isClose[fd]
      <3>1. ep[fd] = "none"
        BY <1>0, <2>1 DEF OwnerInv, ConnInv
      <3> QED BY <1>0, <2>1, <3>1 DEF CloseConn_, DelFd, CheckClosed, Close
    <2>2. CASE ~isClose[fd]
      BY <1>0, <2>2 DEF CloseConn_, DelFd, CheckClosed, Close, ClosePcs
    <2> QED BY <2>1, <2>2
  <1>3. ASSUME NEW x \in Fds, x # fd, Held(x) PROVE Held(x)'
    <2>1. CASE Armed(x) \/ InBatch(x) \/ Queued(x)
      BY <1>1, <1>3, <2>1 DEF Held, MainSide, Armed, InBatch, Queued
    <2>2. CASE pc[Main] \in ClosePcs /\ job[Main].fd = x
      BY <1>0, <1>1, <1>3, <2>2 DEF Held, MainSide
    <2>3. ASSUME NEW w \in Workers, Working(w, x) PROVE Held(x)'
      <3>1. w # t
        BY <1>3, <2>3 DEF Working
      <3> QED BY <1>0, <1>1, <2>3, <3>1 DEF Held, Working
    <2> QED BY <1>3, <2>1, <2>2, <2>3 DEF Held, MainSide
  <1>4. ASSUME ep'[fd] # "none" PROVE Held(fd)'
    <2>1. CASE t = Main
      BY <1>2, <1>4, <2>1 DEF Held, MainSide
    <2>2. CASE t \in Workers
      BY <1>0, <1>2, <1>4, <2>2 DEF Held, Working, ClosePcs
    <2> QED BY <2>1, <2>2 DEF Threads
  <1> QED BY <1>0, <1>1, <1>2, <1>3, <1>4 DEF Kept, Held

\* The steps of the main thread.
LEMMA HeldMain ==
  ASSUME TypeOK, OwnerInv, TimerInv, Kept, MainStep
  PROVE  Kept'
  <1> USE DEF TypeOK, ThreadType, KernelType
  <1>0. Main \in Threads /\ Workers \subseteq Threads
    BY DEF Threads
  <1>1. CASE /\ UNCHANGED <<ep, peer, spoken, tasks, batch>>
             /\ \A w \in Workers : pc'[w] = pc[w] /\ job'[w] = job[w]
             /\ pc[Main] \notin ClosePcs \/ (pc'[Main] \in ClosePcs /\ job'[Main] = job[Main])
    <2>1. \A fd \in Fds : Held(fd) => Held(fd)'
      BY <1>1 DEF Held, MainSide, Armed, InBatch, Queued, Working
    <2> QED BY <1>1, <2>1, HeldFrame
  <1>2. ASSUME NEW fd \in Fds, TickFire(fd) PROVE Kept'
    BY <1>0, <1>1, <1>2 DEF TickFire, StartClose, ClosePcs
  <1>3. CASE Pop \/ GetNextTick \/ WaitTimeout \/ DispatchDone \/ AcceptNone \/ AcceptBusy
    BY <1>0, <1>1, <1>3 DEF Pop, GetNextTick, WaitTimeout, DispatchDone, AcceptNone, AcceptBusy,
                            ClosePcs
  <1>4. CASE Wait
    <2> PICK W \in SUBSET {fd \in Fds : ep[fd] = "out"} :
          batch' = Ready(W) /\ ep' = Disarmed(Ready(W))
      BY <1>4 DEF Wait
    <2>1. /\ UNCHANGED <<peer, spoken, tasks>> /\ pc[Main] = "wait" /\ batch = {}
          /\ \A w \in Workers : pc'[w] = pc[w] /\ job'[w] = job[w]
      BY <1>0, <1>4 DEF Wait, OwnerInv, BatchInv
    <2>2. \A fd \in Fds : ep'[fd] = IF InBatch(fd)' THEN "off" ELSE ep[fd]
      BY ReadyUnique DEF InBatch
    <2>3. ASSUME NEW fd \in Fds, Held(fd) PROVE Held(fd)'
      <3>1. CASE Armed(fd)
        BY <2>2, <3>1 DEF Armed, Held, MainSide
      <3>2. CASE Queued(fd) \/ \E w \in Workers : Working(w, fd)
        BY <2>1, <3>2 DEF Held, Queued, Working
      <3> QED BY <2>1, <2>3, <3>1, <3>2 DEF Held, MainSide, InBatch, ClosePcs
    <2>4. \A fd \in Fds : ep'[fd] = "off" => ep[fd] = "off" \/ Held(fd)'
      BY <2>2 DEF Held, MainSide
    <2> QED BY <2>1, <2>3, <2>4, HeldFrame
  <1>5. ASSUME NEW e \in batch, Dispatch(e) PROVE Kept'
    <2>1. /\ UNCHANGED <<peer, spoken, ep>> /\ batch' = batch \ {e} /\ pc[Main] = "dispatch"
          /\ \A w \in Workers : pc'[w] = pc[w] /\ job'[w] = job[w]
      BY <1>0, <1>5 DEF Dispatch, DispatchListen, DispatchHup, DispatchIo, DealTask, StartClose
    <2>2. \A fd \in Fds : InBatch(fd) /\ e.fd # fd => InBatch(fd)'
      BY <2>1 DEF InBatch
    <2>3. CASE e.fd = ListenFd \/ e.ev = "hup"
      <3>1. tasks' = tasks
        BY <1>5, <2>3 DEF Dispatch, DispatchListen, DispatchHup, DispatchIo
      <3>2. e.fd \in Fds => pc'[Main] = "del" /\ job'[Main].fd = e.fd
        BY <1>0, <1>5, <2>3 DEF Dispatch, DispatchListen, DispatchHup, DispatchIo, StartClose
      <3>3. \A fd \in Fds : Held(fd) => Held(fd)'
        BY <2>1, <2>2, <3>1, <3>2 DEF Held, MainSide, Armed, Queued, Working, ClosePcs
      <3> QED BY <2>1, <3>3, HeldFrame
    <2>4. CASE e.fd # ListenFd /\ e.ev # "hup"
      <3> DEFINE task == [op |-> IF e.ev = "in" THEN "read" ELSE "write",
                          fd |-> e.fd, conn |-> sock[e.fd]]
      <3>1. e.fd \in Fds /\ InBatch(e.fd)
        BY <2>4 DEF LoopType, Event, InBatch
      <3>2. ~(TimeoutOn /\ timer[e.fd] = "none")
        BY <3>1 DEF TimerInv, TimerCovers
      <3>3. tasks' = Append(tasks, task) /\ task.fd = e.fd
        BY <1>5, <2>4, <3>2 DEF Dispatch, DispatchListen, DispatchHup, DispatchIo, DealTask
      <3> HIDE DEF task
      <3>4. /\ Len(tasks') = Len(tasks) + 1 /\ Len(tasks) \in Nat
            /\ \A i \in 1..Len(tasks) : tasks'[i] = tasks[i]
            /\ tasks'[Len(tasks) + 1] = task
        <4>1. tasks \in Seq(Task)
          BY DEF LoopType
        <4> QED BY <3>3, <4>1
      <3>5. \A fd \in Fds : Queued(fd) \/ fd = e.fd => Queued(fd)'
        BY <3>3, <3>4 DEF Queued
      <3>6. \A fd \in Fds : Held(fd) => Held(fd)'
        BY <2>1, <2>2, <3>5 DEF Held, MainSide, Armed, Working, ClosePcs
      <3> QED BY <2>1, <3>6, HeldFrame
    <2> QED BY <2>3, <2>4
  <1>6. ASSUME NEW fd \in Fds, AddClient_(fd) PROVE Kept'
    <2>1. /\ UNCHANGED <<tasks, batch>> /\ pc[Main] = "accept"
          /\ ep' = [ep EXCEPT ![fd] = "in"] /\ peer' = [peer EXCEPT ![fd] = "up"]
          /\ spoken' = [spoken EXCEPT ![fd] = FALSE]
          /\ \A w \in Workers : pc'[w] = pc[w] /\ job'[w] = job[w]
      BY <1>0, <1>6 DEF AddClient_
    <2>2. \A x \in Fds : Held(x) => Held(x)'
      BY <2>1 DEF Held, MainSide, Armed, InBatch, Queued, Working, ClosePcs
    <2>3. ep'[fd] # "off" /\ \A x \in Fds : x # fd =>
            ep'[x] = ep[x] /\ peer'[x] = peer[x] /\ spoken'[x] = spoken[x]
      BY <2>1 DEF ConnType
    <2> QED BY <2>2, <2>3 DEF Kept, Held
  <1> QED BY <1>2, <1>3, <1>4, <1>5, <1>6, HeldClose DEF MainStep, DealListen_, Threads

\* The steps of a worker: in ET mode it lets go of a client only when it has
\* armed its registration, when the peer is gone, or, after a message that got
\* no answer, when nothing was said yet.
LEMMA HeldWork ==
  ASSUME ConnET, AnyOpening \/ RespInv, TypeOK, OwnerInv, HeaderInv, Kept,
         NEW w \in Workers, WorkerStep(w)
  PROVE  Kept'
  <1> DEFINE fd == job[w].fd
  <1>0. /\ w \in Threads /\ w # Main /\ Main \in Threads /\ Workers \subseteq Threads
        /\ pc \in [Threads -> {"idle"} \union MainPcs \union WorkPcs] /\ job \in [Threads -> Job]
        /\ pc[w] # "idle" => fd \in Fds
        /\ spoken \in [Fds -> BOOLEAN]
    BY DEF Threads, TypeOK, ThreadType, ConnType
  <1>1. CASE Take(w)
    <2> DEFINE task == Head(tasks)
    <2>1. /\ UNCHANGED <<peer, spoken, ep, batch>> /\ pc[w] = "idle"
          /\ pc'[w] = task.op /\ job'[w].fd = task.fd /\ tasks # << >> /\ tasks' = Tail(tasks)
          /\ \A u \in Threads : u # w => pc'[u] = pc[u] /\ job'[u] = job[u]
      BY <1>0, <1>1 DEF Take
    <2>2. /\ task \in Task /\ Len(tasks') = Len(tasks) - 1 /\ Len(tasks) \in Nat /\ Len(tasks) > 0
          /\ tasks[1] = task
          /\ \A i \in 1..Len(tasks') : tasks'[i] = tasks[i + 1]
      <3>1. tasks \in Seq(Task)
        BY DEF TypeOK, LoopType
      <3> QED BY <2>1, <3>1, HeadTailProperties
    <2> HIDE DEF task
    <2>3. pc'[w] # "idle"
      BY <2>1, <2>2 DEF Task
    <2>4. \A i \in 1..Len(tasks) : i = 1 \/ (i - 1 \in 1..Len(tasks') /\ tasks'[i - 1] = tasks[i])
      BY <2>2
    <2>5. ASSUME NEW x \in Fds, Held(x) PROVE Held(x)'
      <3>1. CASE Queued(x)
        <4> PICK i \in 1..Len(tasks) : tasks[i].fd = x
          BY <3>1 DEF Queued
        <4>1. CASE i = 1
          BY <2>1, <2>2, <2>3, <4>1 DEF Held, Working
        <4>2. CASE i # 1
          BY <2>4, <4>2 DEF Held, Queued
        <4> QED BY <4>1, <4>2
      <3>2. CASE MainSide(x)
        BY <1>0, <2>1, <3>2 DEF Held, MainSide, Armed, InBatch
      <3>3. ASSUME NEW v \in Workers, Working(v, x) PROVE Held(x)'
        BY <1>0, <2>1, <3>3 DEF Held, Working
      <3> QED BY <2>5, <3>1, <3>2, <3>3 DEF Held
    <2> QED BY <2>1, <2>5, HeldFrame
  <1>2. CASE CloseConn_(w)
    BY <1>0, <1>2, HeldClose
  <1>3. ASSUME pc[w] # "idle", UNCHANGED <<peer, tasks, batch>>,
               \A u \in Threads : u # w => pc'[u] = pc[u] /\ job'[u] = job[u],
               \A x \in Fds : x # fd => ep'[x] = ep[x] /\ spoken'[x] = spoken[x],
               \/ pc'[w] # "idle" /\ job'[w] = job[w]
               \/ ep'[fd] # "off"
               \/ peer[fd] # "up"
               \/ AnyOpening /\ ~spoken'[fd]
        PROVE  Kept'
    <2>1. ASSUME NEW x \in Fds, x # fd, Held(x) PROVE Held(x)'
      <3>1. CASE Armed(x) \/ InBatch(x) \/ Queued(x)
        BY <1>3, <2>1, <3>1 DEF Held, MainSide, Armed, InBatch, Queued
      <3>2. CASE pc[Main] \in ClosePcs /\ job[Main].fd = x
        BY <1>0, <1>3, <3>2 DEF Held, MainSide
      <3>3. ASSUME NEW v \in Workers, Working(v, x) PROVE Held(x)'
        <4>1. v # w
          BY <2>1, <3>3 DEF Working
        <4> QED BY <1>0, <1>3, <3>3, <4>1 DEF Held, Working
      <3> QED BY <2>1, <3>1, <3>2, <3>3 DEF Held, MainSide
    <2>2. pc'[w] # "idle" /\ job'[w] = job[w] => Held(fd)'
      BY DEF Held, Working
    <2> QED BY <1>0, <1>3, <2>1, <2>2 DEF Kept, Held
  <1>4. ASSUME pc[w] # "idle", UNCHANGED <<peer, tasks, batch, ep>>,
               \A x \in Fds : x # fd => spoken'[x] = spoken[x],
               \E l \in WorkPcs : Goto(w, l)
        PROVE  Kept'
    <2>1. /\ pc'[w] # "idle" /\ job' = job
          /\ \A u \in Threads : u # w => pc'[u] = pc[u]
      BY <1>0, <1>4 DEF Goto, WorkPcs, ClosePcs
    <2> QED BY <1>3, <1>4, <2>1
  <1>5. ASSUME Finish(w)
        PROVE  \A u \in Threads : u # w => pc'[u] = pc[u] /\ job'[u] = job[u]
    BY <1>0, <1>5 DEF Finish
  <1>6. CASE Read(w) \/ Process(w)
    <2>1. /\ pc[w] # "idle" /\ UNCHANGED <<peer, tasks, batch, ep>>
          /\ \A x \in Fds : x # fd => spoken'[x] = spoken[x]
      BY <1>0, <1>6 DEF Read, Process, NothingToProcess, NoAnswer, Respond
    <2>2. \E l \in WorkPcs : Goto(w, l)
      BY <1>6 DEF Read, Process, NothingToProcess, NoAnswer, Respond, WorkPcs, ClosePcs
    <2> QED BY <1>4, <2>1, <2>2
  <1>7. CASE Rearm(w)
    <2>1. /\ pc[w] # "idle" /\ UNCHANGED <<peer, tasks, batch, spoken>> /\ Finish(w)
          /\ ep'[fd] # "off"
          /\ \A x \in Fds : x # fd => ep'[x] = ep[x]
      BY <1>0, <1>7 DEF Rearm, TypeOK, KernelType
    <2> QED BY <1>3, <1>5, <2>1
  <1>8. CASE Writev(w)
    <2>1. pc[w] # "idle" /\ UNCHANGED <<peer, tasks, batch, ep, spoken>>
      BY <1>8 DEF Writev
    <2>2. sock[fd] # 0
      BY <2>1 DEF OwnerInv, NoStaleTask
    <2>3. \/ \E l \in WorkPcs : Goto(w, l)
          \/ Finish(w) /\ (peer[fd] = "gone" \/ ~spoken[fd])
      BY <1>8, <2>2 DEF Writev, WritevAll, WritevSome, WritevAgain, WritevError, WritevPipe,
                        WorkPcs
    <2>4. AnyOpening \/ spoken[fd]
      BY <1>0, <1>8 DEF Writev, RespInv, RespAt, Writes
    <2> QED BY <1>0, <1>3, <1>4, <1>5, <2>1, <2>3, <2>4
  <1>9. CASE Advance(w)
    <2>1. pc[w] # "idle" /\ UNCHANGED <<peer, tasks, batch, ep, spoken>> /\ fd \in Fds
      BY <1>0, <1>9 DEF Advance
    <2>2. iov0[fd] \in Nat /\ len[w] \in Nat
      BY <2>1 DEF TypeOK, ConnType, ThreadType
    <2>3. spoken[fd] /\ len[w] <= iov0[fd] => len[w] <= wbuf[fd]
      BY <2>1 DEF HeaderInv
    <2>4. Goto(w, "write") \/ (Finish(w) /\ ~spoken[fd])
      BY <1>9, <2>2, <2>3 DEF Advance, AfterWrite
    <2>5. AnyOpening \/ spoken[fd]
      BY <1>0, <1>9 DEF Advance, RespInv, RespAt, Writes
    <2> QED BY <1>0, <1>3, <1>4, <1>5, <2>1, <2>4, <2>5 DEF WorkPcs
  <1> QED BY <1>1, <1>2, <1>6, <1>7, <1>8, <1>9 DEF WorkerStep

\* Kept is invariant, together with what it rests on.
LEMMA KeptInvariant ==
  ASSUME ConnET, ~(TimeoutOn /\ SlowTasks)
  PROVE  Spec => []Kept
  <1> DEFINE Inv == /\ TypeOK /\ OwnerInv /\ TimerInv /\ HeaderInv
                    /\ AnyOpening \/ RespInv
                    /\ Kept
  <1>1. Init => Inv
    <2>1. Init => HeaderInv /\ Kept
      BY DEF Init, HeaderInv, Kept
    <2>2. Init => TimerInv
      BY DEF Init, TimerInv, BatchInv, TimerCovers, InBatch, Threads, ClosePcs
    <2> QED BY <2>1, <2>2, InitTypeOK, OwnerInit, RespInit
  <1>2. Inv /\ [Next]_vars => Inv'
    <2> SUFFICES ASSUME Inv, [Next]_vars PROVE Inv'
      OBVIOUS
    <2>1. TypeOK' /\ OwnerInv' /\ TimerInv' /\ HeaderInv'
      BY NextTypeOK, OwnerStep, TimerStep, HeaderStep
    <2>2. AnyOpening \/ RespInv'
      BY RespStep
    <2>3. CASE Clients \/ (\E fd \in Fds : TimerDue(fd)) \/ UNCHANGED vars
      <3>1. /\ UNCHANGED <<spoken, ep, batch, tasks, pc, job>>
            /\ \A fd \in Fds : peer'[fd] = peer[fd] \/ peer'[fd] = "gone"
        BY <2>3 DEF Clients, Connect, Send, PeerClose, TimerDue, vars, TypeOK, KernelType
      <3>2. \A fd \in Fds : Held(fd) => Held(fd)'
        BY <3>1 DEF Held, MainSide, Armed, InBatch, Queued, Working
      <3>3. Kept'
        BY <3>1, <3>2, HeldFrame
      <3> QED BY <2>1, <2>2, <3>3
    <2>4. Kept'
      BY <2>3, HeldMain, HeldWork DEF Next
    <2> QED BY <2>1, <2>2, <2>4
  <1>3. Inv => Kept
    OBVIOUS
  <1> QED BY <1>1, <1>2, <1>3, PTL DEF Spec

\* In ET mode, and when every first message gets an answer, the one-shot
\* registration of a client whose peer is there is never left disarmed with
\* nobody to arm it again, for any number of clients and workers, as long as no
\* task outlives the timer of its client.
THEOREM NeverForgottenCorrect ==
  ASSUME ConnET, ~AnyOpening, ~(TimeoutOn /\ SlowTasks)
  PROVE  Spec => []NeverForgotten
  <1>1. Kept => NeverForgotten
    BY DEF Kept, NeverForgotten, Held
  <1> QED BY <1>1, KeptInvariant, PTL

\* A client that has had a response: whatever it opened with, a writev that fails
\* on pointers never set (webserver.cpp:212) cannot be its.
AnsweredKept ==
  \A fd \in Fds : ep[fd] = "off" /\ peer[fd] = "up" /\ spoken[fd] => Held(fd)

\* The same promise when clients may open with a message that gets no answer:
\* it covers the clients that have had a response, and only those.
THEOREM AnsweredNotForgotten ==
  ASSUME ConnET, ~(TimeoutOn /\ SlowTasks)
  PROVE  Spec => []AnsweredKept
  <1>1. Kept => AnsweredKept
    BY DEF Kept, AnsweredKept
  <1> QED BY <1>1, KeptInvariant, PTL
-----------------------------------------------------------------------------
(* The clients' holders: the reactor implements Connections.                *)

AllHolders == [fd \in Fds |-> Holders(fd)]

\* Where nobody's claim changes, the holders do not.
LEMMA SameHolders ==
  ASSUME NEW x \in Fds, sock'[x] = sock[x],
         (Armed(x) /\ ~Closing(x))' <=> Armed(x) /\ ~Closing(x),
         (InBatch(x) \/ Closing(x))' <=> InBatch(x) \/ Closing(x),
         Queued(x)' <=> Queued(x),
         \A w \in Workers : Working(w, x)' <=> Working(w, x)
  PROVE  Holders(x)' = Holders(x)
  BY DEF Holders

\* One owner is one holder.
LEMMA OneHolder ==
  ASSUME OwnerInv, NEW fd \in Fds
  PROVE  /\ Armed(fd) /\ ~Closing(fd) => Holders(fd) = {"epoll"}
         /\ sock[fd] # 0 /\ (InBatch(fd) \/ Closing(fd)) => Holders(fd) = {"loop"}
         /\ Queued(fd) => Holders(fd) = {"queue"}
         /\ \A w \in Workers : Working(w, fd) => Holders(fd) = {w}
  <1>1. Closing(fd) => MainSide(fd)
    BY DEF Closing, MainSide
  <1>2. /\ MainSide(fd) => ~Queued(fd) /\ \A w \in Workers : ~Working(w, fd)
        /\ Queued(fd) => \A w \in Workers : ~Working(w, fd)
        /\ \A v, w \in Workers : Working(v, fd) /\ Working(w, fd) => v = w
        /\ ~(Armed(fd) /\ InBatch(fd)) /\ (Armed(fd) \/ InBatch(fd) => MainSide(fd))
    BY DEF OwnerInv, ExclusiveOwner, MainSide
  <1>3. Armed(fd) /\ ~Closing(fd) => Holders(fd) = {"epoll"}
    BY <1>2 DEF Holders
  <1>4. sock[fd] # 0 /\ (InBatch(fd) \/ Closing(fd)) => Holders(fd) = {"loop"}
    BY <1>1, <1>2 DEF Holders
  <1>5. Queued(fd) => Holders(fd) = {"queue"}
    BY <1>1, <1>2 DEF Holders
  <1>6. ASSUME NEW w \in Workers, Working(w, fd) PROVE Holders(fd) = {w}
    BY <1>1, <1>2, <1>6 DEF Holders
  <1> QED BY <1>3, <1>4, <1>5, <1>6

\* A client passes from one holder to the next, and no other client does.
LEMMA PassStep ==
  ASSUME NEW fd \in Fds, sock[fd] # 0, UNCHANGED <<sock, serial>>,
         \A x \in Fds : x # fd => Holders(x)' = Holders(x)
  PROVE  Conns!Pass(fd, Holders(fd), Holders(fd)')
  BY DEF Conns!Pass

\* Nothing that happens to clients outside the threads moves them.
LEMMA StillStep ==
  ASSUME UNCHANGED <<sock, serial>>, \A x \in Fds : Holders(x)' = Holders(x)
  PROVE  UNCHANGED <<sock, serial, AllHolders>>
  BY DEF AllHolders

\* The timer takes a client from epoll, or one that nobody has.
LEMMA TickHolds ==
  ASSUME TypeOK, OwnerInv, OwnerInv', NEW fd \in Fds, TickFire(fd)
  PROVE  Conns!Expire(fd) \/ UNCHANGED <<sock, serial, AllHolders>>
  <1>1. /\ UNCHANGED <<tasks, sock, serial, ep, batch>> /\ pc[Main] = "tick" /\ timer[fd] = "due"
        /\ pc' = [pc EXCEPT ![Main] = "del"]
        /\ job' = [job EXCEPT ![Main] = [fd |-> fd, conn |-> sock[fd]]]
    BY DEF TickFire, StartClose
  <1>2. /\ ~Queued(fd) /\ \A w \in Workers : ~Working(w, fd)
        /\ batch = {} /\ (sock[fd] = 0 => ~Armed(fd))
    BY <1>1 DEF OwnerInv, ConnInv, BatchInv, Armed
  <1>3. /\ \A w \in Workers : pc'[w] = pc[w] /\ job'[w] = job[w]
        /\ pc'[Main] = "del" /\ job'[Main].fd = fd
    BY <1>1 DEF TypeOK, ThreadType, Threads
  <1>4. \A x \in Fds :
          /\ (Queued(x)' <=> Queued(x)) /\ (Armed(x)' <=> Armed(x))
          /\ ~InBatch(x) /\ ~InBatch(x)' /\ ~Closing(x) /\ (Closing(x)' <=> x = fd)
          /\ \A w \in Workers : Working(w, x)' <=> Working(w, x)
    BY <1>1, <1>2, <1>3 DEF Queued, Armed, InBatch, Working, Closing, ClosePcs
  <1>5. \A x \in Fds : x # fd => Holders(x)' = Holders(x)
    BY <1>1, <1>4, SameHolders
  <1>6. CASE sock[fd] = 0
    <2>1. Holders(fd)' = Holders(fd)
      BY <1>1, <1>2, <1>4, <1>6 DEF Holders
    <2> QED BY <1>1, <1>5, <2>1, StillStep
  <1>7. CASE sock[fd] # 0
    <2>1. Holders(fd) = {"epoll"} \/ Holders(fd) = {}
      BY <1>2, <1>4 DEF Holders
    <2>2. Holders(fd)' = {"loop"}
      BY <1>1, <1>2, <1>4, <1>7 DEF Holders
    <2>3. Conns!Pass(fd, Holders(fd), Holders(fd)')
      BY <1>1, <1>5, <1>7, PassStep
    <2> QED BY <2>1, <2>2, <2>3 DEF Conns!Expire
  <1> QED BY <1>6, <1>7

\* epoll_wait hands clients over to the loop.
LEMMA WaitHolds ==
  ASSUME TypeOK, OwnerInv, Wait
  PROVE  \E S \in SUBSET Fds : Conns!Report(S)
  <1> PICK W \in SUBSET {fd \in Fds : ep[fd] = "out"} :
        batch' = Ready(W) /\ ep' = Disarmed(Ready(W))
    BY DEF Wait
  <1> DEFINE S == {x \in Fds : InBatch(x)'}
  <1>1. /\ UNCHANGED <<tasks, sock, serial, job>>
        /\ pc' = [pc EXCEPT ![Main] = "dispatch"] /\ pc[Main] = "wait"
    BY DEF Wait
  <1>2. /\ \A w \in Workers : pc'[w] = pc[w]
        /\ pc'[Main] = "dispatch" /\ batch = {}
    BY <1>1 DEF TypeOK, ThreadType, Threads, OwnerInv, BatchInv
  <1>3. ASSUME NEW x \in Fds
        PROVE  /\ InBatch(x)' => Armed(x)
               /\ Armed(x)' <=> Armed(x) /\ ~InBatch(x)'
    <2>1. x # ListenFd
      OBVIOUS
    <2>2. InBatch(x)' => Armed(x)
      BY <2>1, ReadyUnique DEF InBatch
    <2>3. ep'[x] = IF InBatch(x)' THEN "off" ELSE ep[x]
      BY ReadyUnique DEF InBatch
    <2> QED BY <2>2, <2>3 DEF Armed
  <1>4. \A x \in Fds :
          /\ (Queued(x)' <=> Queued(x)) /\ ~InBatch(x) /\ ~Closing(x) /\ ~Closing(x)'
          /\ \A w \in Workers : Working(w, x)' <=> Working(w, x)
    BY <1>1, <1>2 DEF Queued, InBatch, Working, Closing, ClosePcs
  <1>5. ASSUME NEW x \in Fds, InBatch(x)'
        PROVE  sock[x] # 0 /\ Holders(x) = {"epoll"} /\ Holders(x)' = {"loop"}
    <2>1. sock[x] # 0 /\ Armed(x) /\ Holders(x) = {"epoll"}
      BY <1>3, <1>4, <1>5, OneHolder DEF OwnerInv, ConnInv, Armed
    <2>2. ~Queued(x) /\ \A w \in Workers : ~Working(w, x)
      BY <2>1 DEF OwnerInv, ExclusiveOwner, MainSide
    <2> QED BY <1>1, <1>3, <1>4, <1>5, <2>1, <2>2 DEF Holders
  <1>6. ASSUME NEW x \in Fds, ~InBatch(x)' PROVE Holders(x)' = Holders(x)
    BY <1>1, <1>3, <1>4, <1>6, SameHolders
  <1>7. Conns!Report(S)
    BY <1>1, <1>5, <1>6 DEF Conns!Report
  <1> QED BY <1>7

\* An event the loop has in its batch becomes a task, or the loop closes the
\* client itself.
LEMMA DispatchHolds ==
  ASSUME TypeOK, OwnerInv, TimerInv, OwnerInv', NEW e \in batch, Dispatch(e)
  PROVE  (\E fd \in Fds : Conns!Queue(fd)) \/ UNCHANGED <<sock, serial, AllHolders>>
  <1>1. /\ UNCHANGED <<sock, serial, ep>> /\ batch' = batch \ {e} /\ pc[Main] = "dispatch"
    BY DEF Dispatch, DispatchListen, DispatchHup, DispatchIo
  <1>2. /\ e.fd \in Fds \union {ListenFd}
        /\ \A f \in batch : f.fd = e.fd => f = e
        /\ \A x \in Fds : ~Closing(x) /\ (Armed(x)' <=> Armed(x))
    BY <1>1 DEF OwnerInv, BatchInv, TypeOK, LoopType, Event, Closing, ClosePcs, Armed
  <1>3. \A x \in Fds : InBatch(x)' <=> InBatch(x) /\ x # e.fd
    BY <1>1, <1>2 DEF InBatch
  <1>4. CASE DispatchListen(e)
    <2>1. UNCHANGED <<tasks, job>> /\ pc' = [pc EXCEPT ![Main] = "accept"] /\ e.fd = ListenFd
      BY <1>4 DEF DispatchListen
    <2>2. /\ \A w \in Workers : pc'[w] = pc[w]
          /\ pc'[Main] = "accept"
      BY <2>1 DEF TypeOK, ThreadType, Threads
    <2>3. \A x \in Fds :
            /\ (Queued(x)' <=> Queued(x)) /\ ~Closing(x)' /\ (InBatch(x)' <=> InBatch(x))
            /\ \A w \in Workers : Working(w, x)' <=> Working(w, x)
      BY <1>3, <2>1, <2>2 DEF Queued, Working, Closing, ClosePcs
    <2>4. \A x \in Fds : Holders(x)' = Holders(x)
      BY <1>1, <1>2, <2>3, SameHolders
    <2> QED BY <1>1, <2>4, StillStep
  <1>5. CASE DispatchHup(e)
    <2>1. /\ tasks' = tasks /\ e.fd \in Fds /\ InBatch(e.fd)
          /\ pc' = [pc EXCEPT ![Main] = "del"]
          /\ job' = [job EXCEPT ![Main] = [fd |-> e.fd, conn |-> sock[e.fd]]]
      BY <1>2, <1>5 DEF DispatchHup, StartClose, InBatch
    <2>2. /\ \A w \in Workers : pc'[w] = pc[w] /\ job'[w] = job[w]
          /\ pc'[Main] = "del" /\ job'[Main].fd = e.fd
      BY <2>1 DEF TypeOK, ThreadType, Threads
    <2>3. \A x \in Fds :
            /\ (Queued(x)' <=> Queued(x)) /\ (Closing(x)' <=> x = e.fd)
            /\ \A w \in Workers : Working(w, x)' <=> Working(w, x)
      BY <2>1, <2>2 DEF Queued, Working, Closing, ClosePcs
    <2>4. ~Armed(e.fd)
      BY <2>1 DEF OwnerInv, ExclusiveOwner
    <2>5. \A x \in Fds :
            /\ (Armed(x) /\ ~Closing(x))' <=> Armed(x) /\ ~Closing(x)
            /\ (InBatch(x) \/ Closing(x))' <=> InBatch(x) \/ Closing(x)
      BY <1>2, <1>3, <2>1, <2>3, <2>4
    <2>6. \A x \in Fds : Holders(x)' = Holders(x)
      BY <1>1, <2>3, <2>5, SameHolders
    <2> QED BY <1>1, <2>6, StillStep
  <1>6. CASE DispatchIo(e)
    <2> DEFINE fd == e.fd
               task == [op |-> IF e.ev = "in" THEN "read" ELSE "write",
                        fd |-> e.fd, conn |-> sock[e.fd]]
    <2>1. fd \in Fds /\ InBatch(fd) /\ UNCHANGED <<pc, job>>
      BY <1>2, <1>6 DEF DispatchIo, InBatch
    <2>2. ~(TimeoutOn /\ timer[fd] = "none") /\ sock[fd] # 0
      BY <2>1 DEF TimerInv, TimerCovers, OwnerInv, ConnInv
    <2>3. tasks' = Append(tasks, task)
      BY <1>6, <2>2 DEF DispatchIo, DealTask
    <2>4. task.fd = fd
      OBVIOUS
    <2> HIDE DEF task
    <2>5. /\ Len(tasks') = Len(tasks) + 1 /\ Len(tasks) \in Nat
          /\ \A i \in 1..Len(tasks) : tasks'[i] = tasks[i]
          /\ tasks'[Len(tasks) + 1] = task
      <3>1. tasks \in Seq(Task)
        BY DEF TypeOK, LoopType
      <3> QED BY <2>3, <3>1
    <2>6. \A x \in Fds : Queued(x)' <=> Queued(x) \/ x = fd
      BY <2>4, <2>5 DEF Queued
    <2>7. \A x \in Fds :
            /\ ~Closing(x)'
            /\ \A w \in Workers : Working(w, x)' <=> Working(w, x)
      BY <1>2, <2>1 DEF Closing, Working
    <2>8. \A x \in Fds : x # fd => Holders(x)' = Holders(x)
      BY <1>1, <1>2, <1>3, <2>6, <2>7, SameHolders
    <2>9. Holders(fd) = {"loop"}
      BY <2>1, <2>2, OneHolder
    <2>10. ~Armed(fd) /\ \A w \in Workers : ~Working(w, fd)
      BY <2>1 DEF OwnerInv, ExclusiveOwner, MainSide
    <2>11. Holders(fd)' = {"queue"}
      BY <1>2, <1>3, <2>1, <2>6, <2>7, <2>10 DEF Holders
    <2>12. Conns!Pass(fd, Holders(fd), Holders(fd)')
      BY <1>1, <2>1, <2>2, <2>8, PassStep
    <2> QED BY <2>1, <2>9, <2>11, <2>12 DEF Conns!Queue
  <1> QED BY <1>4, <1>5, <1>6 DEF Dispatch

\* accept() opens a client that nobody holds, if MAX_FD allows it.
LEMMA AcceptHolds ==
  ASSUME TypeOK, OwnerInv, CountInv, NEW fd \in Fds, AddClient_(fd)
  PROVE  Conns!Open(fd)
  <1>1. /\ UNCHANGED <<tasks, batch, job>>
        /\ serial' = serial + 1 /\ sock' = [sock EXCEPT ![fd] = serial'] /\ sock[fd] = 0
        /\ ep' = [ep EXCEPT ![fd] = "in"] /\ userCount < MaxUsers
        /\ pc' = [pc EXCEPT ![Main] = AfterAccept] /\ pc[Main] = "accept"
        /\ AfterAccept \in {"accept", "dispatch"}
    BY DEF AddClient_, AfterAccept
  <1>2. /\ \A w \in Workers : pc'[w] = pc[w]
        /\ pc'[Main] \in {"accept", "dispatch"}
        /\ sock \in [Fds -> Nat] /\ ep \in [Fds -> {"none", "off", "in", "out"}] /\ serial \in Nat
    BY <1>1 DEF TypeOK, ThreadType, Threads, KernelType
  <1>3. /\ ~Queued(fd) /\ ~InBatch(fd) /\ ~Armed(fd)
        /\ \A w \in Workers : ~Working(w, fd)
    BY <1>1 DEF OwnerInv, NoStaleTask, ConnInv, Queued, Working, Armed
  <1>4. \A x \in Fds :
          /\ (Queued(x)' <=> Queued(x)) /\ (InBatch(x)' <=> InBatch(x))
          /\ (Armed(x)' <=> Armed(x) \/ x = fd) /\ ~Closing(x) /\ ~Closing(x)'
          /\ \A w \in Workers : Working(w, x)' <=> Working(w, x)
    BY <1>1, <1>2 DEF Queued, InBatch, Armed, Working, Closing, ClosePcs
  <1>5. \A x \in Fds : x # fd => sock'[x] = sock[x]
    BY <1>1, <1>2
  <1>6. \A x \in Fds : x # fd => Holders(x)' = Holders(x)
    BY <1>4, <1>5, SameHolders
  <1>7. Holders(fd) = {} /\ Holders(fd)' = {"epoll"}
    BY <1>3, <1>4 DEF Holders
  <1>8. Cardinality({x \in Fds : sock[x] # 0}) < MaxUsers
    BY <1>1 DEF CountInv, OpenFds
  <1>9. [x \in Fds |-> Holders(x)]' = [[x \in Fds |-> Holders(x)] EXCEPT ![fd] = {"epoll"}]
    BY <1>6, <1>7
  <1>10. serial' = serial + 1 /\ sock' = [sock EXCEPT ![fd] = serial'] /\ sock[fd] = 0
    BY <1>1
  <1>11. [x \in Fds |-> Holders(x)][fd] = {}
    BY <1>7
  <1> QED BY <1>8, <1>9, <1>10, <1>11 DEF Conns!Open, Conns!Cardinality, Cardinality

\* CloseConn_, by the main thread or a worker: only the holder of an open client
\* closes it, and the first two statements pass it to nobody.
LEMMA CloseHolds ==
  ASSUME TypeOK, OwnerInv, NEW t \in Threads, CloseConn_(t)
  PROVE  (\E fd \in Fds : Conns!Close(fd)) \/ UNCHANGED <<sock, serial, AllHolders>>
  <1>a. job[t].fd \in Fds
    BY WorkOn DEF TypeOK, CloseConn_, DelFd, CheckClosed, Close, ClosePcs
  <1> PICK fd \in Fds : fd = job[t].fd
    BY <1>a
  <1>0. /\ pc \in [Threads -> {"idle"} \union MainPcs \union WorkPcs] /\ job \in [Threads -> Job]
        /\ ep \in [Fds -> {"none", "off", "in", "out"}] /\ Main \in Threads /\ fd \in Fds
        /\ sock \in [Fds -> Nat] /\ pc[t] \in ClosePcs /\ (t = Main \/ t \in Workers)
    BY WorkOn DEF TypeOK, ThreadType, KernelType, Threads, CloseConn_, DelFd, CheckClosed, Close,
                  ClosePcs
  <1>1. UNCHANGED <<tasks, batch, serial>>
    BY DEF CloseConn_, DelFd, CheckClosed, Close
  <1>2. \A x \in Fds : (Queued(x)' <=> Queued(x)) /\ (InBatch(x)' <=> InBatch(x))
    BY <1>1 DEF Queued, InBatch
  <1>3. \A u \in Threads : u # t => pc'[u] = pc[u] /\ job'[u] = job[u]
    BY <1>0 DEF CloseConn_, DelFd, CheckClosed, Close
  <1>4. \A x \in Fds : x # fd => sock'[x] = sock[x] /\ ep'[x] = ep[x]
    BY <1>0 DEF CloseConn_, DelFd, CheckClosed, Close
  <1>5. pc'[t] \in ClosePcs => job'[t] = job[t]
    BY <1>0 DEF CloseConn_, DelFd, CheckClosed, Close, AfterClose, ClosePcs, TypeOK, LoopType
  <1>6. t \in Workers => pc'[t] = "idle" \/ pc'[t] \in ClosePcs
    BY <1>0 DEF CloseConn_, DelFd, CheckClosed, Close, AfterClose, ClosePcs
  <1>7. \A x \in Fds : x # fd =>
          /\ Armed(x)' <=> Armed(x)
          /\ Closing(x)' <=> Closing(x)
          /\ \A w \in Workers : Working(w, x)' <=> Working(w, x)
    <2> SUFFICES ASSUME NEW x \in Fds, x # fd
                 PROVE  /\ Armed(x)' <=> Armed(x)
                        /\ Closing(x)' <=> Closing(x)
                        /\ \A w \in Workers : Working(w, x)' <=> Working(w, x)
      OBVIOUS
    <2>1. Armed(x)' <=> Armed(x)
      BY <1>4 DEF Armed
    <2>2. Closing(x)' <=> Closing(x)
      BY <1>0, <1>3, <1>5 DEF Closing
    <2>3. \A w \in Workers : Working(w, x)' <=> Working(w, x)
      BY <1>0, <1>3, <1>5, <1>6 DEF Working, Threads, ClosePcs
    <2> QED BY <2>1, <2>2, <2>3
  <1>8. \A x \in Fds : x # fd => Holders(x)' = Holders(x)
    BY <1>2, <1>4, <1>7, SameHolders
  <1>9. /\ t = Main => Closing(fd) /\ MainSide(fd)
        /\ t \in Workers => Working(t, fd) /\ ~MainSide(fd)
    BY <1>0 DEF Closing, Working, MainSide, ClosePcs, OwnerInv, ExclusiveOwner
  <1>10. t \in Workers => sock[fd] # 0
    BY <1>0 DEF OwnerInv, NoStaleTask, ClosePcs
  <1>11. CASE DelFd(t) \/ (CheckClosed(t) /\ ~isClose[fd])
    <2>1. UNCHANGED <<sock, job>> /\ pc'[t] \in ClosePcs
      BY <1>0, <1>11 DEF DelFd, CheckClosed, ClosePcs
    <2>2. ep'[fd] = ep[fd] \/ ep'[fd] = "none"
      BY <1>0, <1>11 DEF DelFd, CheckClosed
    <2>3. (Armed(fd) /\ ~Closing(fd))' <=> Armed(fd) /\ ~Closing(fd)
      <3>1. CASE t = Main
        BY <1>9, <2>1, <3>1 DEF Closing
      <3>2. CASE t \in Workers
        BY <1>9, <2>2, <3>2 DEF MainSide, Armed
      <3> QED BY <1>0, <3>1, <3>2
    <2>4. /\ Closing(fd)' <=> Closing(fd)
          /\ \A w \in Workers : Working(w, fd)' <=> Working(w, fd)
      BY <1>0, <1>3, <2>1 DEF Closing, Working, Threads, ClosePcs
    <2>5. Holders(fd)' = Holders(fd)
      BY <1>0, <1>2, <2>1, <2>3, <2>4, SameHolders
    <2> QED BY <1>1, <1>8, <2>1, <2>5, StillStep
  <1>12. CASE CheckClosed(t) /\ isClose[fd]
    <2>1. sock[fd] = 0 /\ t = Main
      BY <1>0, <1>10, <1>12 DEF OwnerInv, ConnInv
    <2>2. UNCHANGED <<sock, ep>> /\ ~Armed(fd)
      BY <1>0, <1>12, <2>1 DEF CheckClosed, OwnerInv, ConnInv, Armed
    <2>3. \A w \in Workers : Working(w, fd)' <=> Working(w, fd)
      BY <1>3, <2>1 DEF Working, Threads
    <2>4. Holders(fd)' = Holders(fd)
      BY <1>2, <2>1, <2>2, <2>3 DEF Holders, Armed
    <2> QED BY <1>1, <1>8, <2>2, <2>4, StillStep
  <1>13. CASE Close(t)
    <2>1. sock' = [sock EXCEPT ![fd] = 0] /\ ep' = [ep EXCEPT ![fd] = "none"] /\ pc[t] = "clr"
      BY <1>13 DEF Close
    <2>2. sock[fd] # 0
      BY <1>0, <2>1 DEF OwnerInv, ConnInv
    <2>3. \E p \in {"loop"} \union Workers : Holders(fd) = {p}
      BY <1>0, <1>9, <2>2, OneHolder
    <2>4. ~Queued(fd) /\ \A w \in Workers : Working(w, fd) => w = t
      BY <1>0, <1>9 DEF OwnerInv, ExclusiveOwner
    <2>5. t \in Workers => pc'[t] = "idle"
      BY <1>0, <1>13 DEF Close, AfterClose
    <2>6. \A w \in Workers : ~Working(w, fd)'
      BY <1>0, <1>3, <2>4, <2>5 DEF Working, Threads
    <2>7. sock'[fd] = 0 /\ ~Armed(fd)'
      BY <1>0, <2>1 DEF Armed
    <2>8. Holders(fd)' = {}
      BY <1>2, <2>4, <2>6, <2>7 DEF Holders
    <2>9. Conns!Close(fd)
      BY <1>0, <1>1, <1>8, <2>1, <2>2, <2>3, <2>8 DEF Conns!Close
    <2> QED BY <1>0, <2>9
  <1> QED BY <1>11, <1>12, <1>13 DEF CloseConn_

\* The main thread's other steps concern no client.
LEMMA MainHolds ==
  ASSUME TypeOK, OwnerInv, TimerInv, CountInv, OwnerInv', MainStep
  PROVE  Conns!Next \/ UNCHANGED <<sock, serial, AllHolders>>
  <1>1. CASE Pop \/ GetNextTick \/ WaitTimeout \/ DispatchDone \/ AcceptNone \/ AcceptBusy
    <2>1. /\ UNCHANGED <<tasks, sock, serial, ep, batch>>
          /\ \A w \in Workers : pc'[w] = pc[w] /\ job'[w] = job[w]
          /\ pc[Main] \notin ClosePcs /\ pc'[Main] \in {"tick", "wait", "dispatch"}
      BY <1>1 DEF Pop, GetNextTick, WaitTimeout, DispatchDone, AcceptNone, AcceptBusy,
                  TypeOK, ThreadType, Threads, ClosePcs
    <2>2. \A x \in Fds :
            /\ (Queued(x)' <=> Queued(x)) /\ (InBatch(x)' <=> InBatch(x))
            /\ (Armed(x)' <=> Armed(x)) /\ ~Closing(x) /\ ~Closing(x)'
            /\ \A w \in Workers : Working(w, x)' <=> Working(w, x)
      BY <2>1 DEF Queued, InBatch, Armed, Working, Closing, ClosePcs
    <2>3. \A x \in Fds : Holders(x)' = Holders(x)
      BY <2>1, <2>2, SameHolders
    <2> QED BY <2>1, <2>3, StillStep
  <1>2. ASSUME NEW fd \in Fds, TickFire(fd)
        PROVE  Conns!Next \/ UNCHANGED <<sock, serial, AllHolders>>
    BY <1>2, TickHolds DEF Conns!Next
  <1>3. CASE Wait
    BY <1>3, WaitHolds DEF Conns!Next
  <1>4. ASSUME NEW e \in batch, Dispatch(e)
        PROVE  Conns!Next \/ UNCHANGED <<sock, serial, AllHolders>>
    BY <1>4, DispatchHolds DEF Conns!Next
  <1>5. ASSUME NEW fd \in Fds, AddClient_(fd) PROVE Conns!Next
    BY <1>5, AcceptHolds DEF Conns!Next
  <1>6. CASE CloseConn_(Main)
    BY <1>6, CloseHolds DEF Conns!Next, Threads
  <1> QED BY <1>1, <1>2, <1>3, <1>4, <1>5, <1>6 DEF MainStep, DealListen_

\* A worker takes the client at the head of the queue.
LEMMA TakeHolds ==
  ASSUME TypeOK, OwnerInv, OwnerInv', NEW w \in Workers, Take(w)
  PROVE  \E fd \in Fds : Conns!Take(fd, w)
  <1> DEFINE task == Head(tasks)
  <1>1. /\ UNCHANGED <<sock, serial, ep, batch>> /\ pc[w] = "idle"
        /\ pc' = [pc EXCEPT ![w] = task.op] /\ tasks # << >> /\ tasks' = Tail(tasks)
        /\ job' = [job EXCEPT ![w] = [fd |-> task.fd, conn |-> task.conn]]
    BY DEF Take
  <1>2. /\ task \in Task /\ Len(tasks') = Len(tasks) - 1 /\ Len(tasks) \in Nat /\ Len(tasks) > 0
        /\ tasks[1] = task
        /\ \A i \in 1..Len(tasks') : tasks'[i] = tasks[i + 1]
    <2>1. tasks \in Seq(Task)
      BY DEF TypeOK, LoopType
    <2> QED BY <1>1, <2>1, HeadTailProperties
  <1> HIDE DEF task
  <1>3. PICK fd \in Fds : fd = task.fd /\ fd = tasks[1].fd /\ task.op \in {"read", "write"}
    BY <1>2 DEF Task
  <1>4. 1 \in 1..Len(tasks) /\ Queued(fd) /\ sock[fd] # 0
    <2>1. 1 \in 1..Len(tasks)
      BY <1>2
    <2> QED BY <1>3, <2>1 DEF Queued, OwnerInv, NoStaleTask
  <1>5. /\ \A v \in Workers : v # w => pc'[v] = pc[v] /\ job'[v] = job[v]
        /\ pc'[Main] = pc[Main] /\ job'[Main] = job[Main]
        /\ pc'[w] = task.op /\ job'[w].fd = fd
    BY <1>1, <1>3 DEF TypeOK, ThreadType, Threads
  <1>6. \A x \in Fds :
          /\ (Armed(x)' <=> Armed(x)) /\ (InBatch(x)' <=> InBatch(x))
          /\ (Closing(x)' <=> Closing(x))
          /\ \A v \in Workers : Working(v, x)' <=> Working(v, x) \/ (v = w /\ x = fd)
    <2>1. \A x \in Fds, v \in Workers : Working(v, x)' <=> Working(v, x) \/ (v = w /\ x = fd)
      BY <1>1, <1>3, <1>5 DEF Working
    <2> QED BY <1>1, <1>5, <2>1 DEF Armed, InBatch, Closing
  <1>7. \A x \in Fds : x # fd => (Queued(x)' <=> Queued(x))
    <2> SUFFICES ASSUME NEW x \in Fds, x # fd PROVE Queued(x)' <=> Queued(x)
      OBVIOUS
    <2>1. ASSUME Queued(x)' PROVE Queued(x)
      <3>1. PICK i \in 1..Len(tasks') : tasks'[i].fd = x
        BY <2>1 DEF Queued
      <3>2. i + 1 \in 1..Len(tasks) /\ tasks[i + 1].fd = x
        BY <1>2, <3>1
      <3> QED BY <3>2 DEF Queued
    <2>2. ASSUME Queued(x) PROVE Queued(x)'
      <3>1. PICK i \in 1..Len(tasks) : tasks[i].fd = x
        BY <2>2 DEF Queued
      <3>2. i # 1
        BY <1>3, <3>1
      <3>3. i - 1 \in 1..Len(tasks') /\ (i - 1) + 1 = i
        BY <1>2, <3>1, <3>2
      <3>4. tasks'[i - 1].fd = x
        BY <1>2, <3>1, <3>3
      <3> QED BY <3>3, <3>4 DEF Queued
    <2> QED BY <2>1, <2>2
  <1>8. \A x \in Fds : x # fd => Holders(x)' = Holders(x)
    BY <1>1, <1>6, <1>7, SameHolders
  <1>9. Holders(fd) = {"queue"}
    BY <1>4, OneHolder
  <1>10. Holders(fd)' = {w}
    <2>1. Working(w, fd)' /\ \A v \in Workers : Working(v, fd)' => v = w
      BY <1>4, <1>6 DEF OwnerInv, ExclusiveOwner
    <2>2. ~Queued(fd)' /\ ~MainSide(fd)'
      BY <2>1 DEF OwnerInv, ExclusiveOwner
    <2>3. ~Armed(fd)' /\ ~InBatch(fd)' /\ ~Closing(fd)'
      BY <2>2 DEF MainSide, Closing
    <2> QED BY <2>1, <2>2, <2>3 DEF Holders
  <1>11. Conns!Pass(fd, {"queue"}, {w})
    BY <1>1, <1>4, <1>8, <1>9, <1>10, PassStep
  <1> QED BY <1>11 DEF Conns!Take

\* A worker keeps its client, arms it again, gives it up, or closes it.
LEMMA WorkHolds ==
  ASSUME TypeOK, OwnerInv, OwnerInv', NEW w \in Workers, WorkerStep(w)
  PROVE  Conns!Next \/ UNCHANGED <<sock, serial, AllHolders>>
  <1>1. CASE Take(w)
    BY <1>1, TakeHolds DEF Conns!Next
  <1>2. CASE CloseConn_(w)
    BY <1>2, CloseHolds DEF Conns!Next, Threads
  <1>3. CASE Read(w) \/ Process(w) \/ Rearm(w) \/ Writev(w) \/ Advance(w)
    <2>1. /\ pc[w] # "idle" /\ w # Main /\ pc[w] \notin ClosePcs /\ Main \in Threads
          /\ pc \in [Threads -> {"idle"} \union MainPcs \union WorkPcs] /\ job \in [Threads -> Job]
          /\ ep \in [Fds -> {"none", "off", "in", "out"}] /\ w \in Threads
      BY <1>3 DEF Read, Process, Rearm, Writev, Advance, TypeOK, ThreadType, KernelType, Threads,
                  ClosePcs
    <2>2. UNCHANGED <<tasks, sock, serial, batch>>
      BY <1>3 DEF Read, Process, Rearm, Writev, Advance
    <2>3. (\E l \in WorkPcs : Goto(w, l)) \/ Finish(w)
      BY <1>3 DEF Read, Process, NothingToProcess, Respond, NoAnswer, Rearm, Writev,
                  WritevAll, WritevSome, WritevAgain, WritevError, WritevPipe, Advance,
                  AfterWrite, WorkPcs, ClosePcs
    <2>4. PICK fd \in Fds : fd = job[w].fd
      BY <2>1, WorkOn DEF TypeOK
    <2>5. ep' = ep \/ (Rearm(w) /\ \E l \in {"in", "out"} : ep' = [ep EXCEPT ![fd] = l])
      BY <1>3, <2>4 DEF Read, Process, Rearm, Writev, Advance
    <2>6. Working(w, fd) /\ sock[fd] # 0 /\ ~MainSide(fd) /\ ~Queued(fd)
      BY <2>1, <2>4 DEF Working, OwnerInv, NoStaleTask, ExclusiveOwner
    <2>7. ~Armed(fd) /\ ~InBatch(fd) /\ ~Closing(fd) /\ Holders(fd) = {w}
      BY <2>6, OneHolder DEF MainSide, Closing
    <2>8. /\ \A t \in Threads : t # w => pc'[t] = pc[t] /\ job'[t] = job[t]
          /\ pc'[w] = "idle" \/ (pc'[w] # "idle" /\ job'[w] = job[w])
          /\ pc'[w] = "idle" <=> Finish(w)
      BY <2>1, <2>3 DEF Goto, Finish, WorkPcs, ClosePcs
    <2>9. ASSUME NEW x \in Fds
          PROVE  /\ (Queued(x)' <=> Queued(x)) /\ (InBatch(x)' <=> InBatch(x))
                 /\ (Closing(x)' <=> Closing(x)) /\ (x # fd => (Armed(x)' <=> Armed(x)))
                 /\ \A v \in Workers : v # w => (Working(v, x)' <=> Working(v, x))
      <3>1. x # fd => ep'[x] = ep[x]
        BY <2>1, <2>5
      <3>2. \A v \in Workers : v # w => (Working(v, x)' <=> Working(v, x))
        BY <2>8 DEF Working, Threads
      <3> QED BY <2>1, <2>2, <2>8, <3>1, <3>2 DEF Queued, InBatch, Closing, Armed
    <2>10. \A x \in Fds : Working(w, x)' <=> x = fd /\ pc'[w] # "idle"
      BY <2>4, <2>8 DEF Working
    <2>11. \A x \in Fds : x # fd => ~Working(w, x)
      BY <2>4 DEF Working
    <2>12. \A x \in Fds : x # fd => Holders(x)' = Holders(x)
      BY <2>2, <2>9, <2>10, <2>11, SameHolders
    <2>13. \A v \in Workers : v # w => ~Working(v, fd)
      BY <2>6 DEF OwnerInv, ExclusiveOwner
    <2>14. CASE Finish(w)
      <3>1. Armed(fd)' => Rearm(w) /\ Holders(fd)' = {"epoll"}
        BY <2>5, <2>6, <2>7, <2>8, <2>9, <2>10, <2>13, <2>14 DEF Holders, Armed
      <3>2. ~Armed(fd)' => Holders(fd)' = {}
        BY <2>6, <2>7, <2>8, <2>9, <2>10, <2>13, <2>14 DEF Holders
      <3>3. Conns!Pass(fd, {w}, Holders(fd)')
        BY <2>2, <2>6, <2>7, <2>12, PassStep
      <3>4. Conns!Rearm(fd, w) \/ Conns!GiveUp(fd, w)
        BY <3>1, <3>2, <3>3 DEF Conns!Rearm, Conns!GiveUp
      <3> QED BY <3>4 DEF Conns!Next
    <2>15. CASE ~Finish(w)
      <3>1. ~Rearm(w)
        BY <2>15 DEF Rearm
      <3>2. Armed(fd)' <=> Armed(fd)
        BY <2>5, <3>1 DEF Armed
      <3>3. Working(w, fd)'
        BY <2>8, <2>10, <2>15
      <3>4. Holders(fd)' = Holders(fd)
        BY <2>2, <2>6, <2>9, <3>2, <3>3, SameHolders
      <3> QED BY <2>2, <2>12, <3>4, StillStep
    <2> QED BY <2>14, <2>15
  <1> QED BY <1>1, <1>2, <1>3 DEF WorkerStep

\* The reactor implements Connections, for any number of descriptors, workers
\* and clients: a client has one holder at a time, passes between holders only
\* as Connections says, is closed by its holder, and MAX_FD is respected
\* (webserver.cpp:80-111, 159-205, serverconn.cpp:50-58), as long as no task
\* outlives the timer of its client.
THEOREM ConnectionsCorrect ==
  ASSUME ~(TimeoutOn /\ SlowTasks)
  PROVE  Spec => ConnSpec
  <1> DEFINE Inv == TypeOK /\ OwnerInv /\ TimerInv /\ CountInv
  <1>1. Init => Inv
    <2>1. Init => CountInv
      <3> SUFFICES ASSUME Init PROVE CountInv
        OBVIOUS
      <3>1. OpenFds = {}
        BY DEF Init, OpenFds
      <3> QED BY <3>1, FS_EmptySet DEF Init, CountInv
    <2>2. Init => TimerInv
      BY DEF Init, TimerInv, BatchInv, TimerCovers, InBatch, Threads, ClosePcs
    <2> QED BY <2>1, <2>2, InitTypeOK, OwnerInit
  <1>2. Inv /\ [Next]_vars => Inv'
    BY NextTypeOK, OwnerStep, TimerStep, CountStep
  <1>3. Init => Conns!Init
    <2> SUFFICES ASSUME Init PROVE Conns!Init
      OBVIOUS
    <2>1. \A x \in Fds : Holders(x) = {}
      BY DEF Init, Holders, Armed, Closing, InBatch, Queued, Working, ClosePcs, Threads
    <2>2. sock = [x \in Fds |-> 0] /\ serial = 0
      BY DEF Init
    <2> QED BY <2>1, <2>2 DEF Conns!Init
  <1>4. Inv /\ Inv' /\ [Next]_vars => [Conns!Next]_(Conns!connVars)
    <2> SUFFICES ASSUME Inv, Inv', [Next]_vars
                 PROVE  Conns!Next \/ UNCHANGED <<sock, serial, AllHolders>>
      BY DEF Conns!connVars, AllHolders
    <2>1. CASE Clients \/ (\E fd \in Fds : TimerDue(fd)) \/ UNCHANGED vars
      <3>1. UNCHANGED <<tasks, sock, serial, ep, batch, pc, job>>
        BY <2>1 DEF Clients, Connect, Send, PeerClose, TimerDue, vars
      <3>2. \A x \in Fds : Holders(x)' = Holders(x)
        BY <3>1 DEF Holders, Armed, Closing, InBatch, Queued, Working
      <3> QED BY <3>1, <3>2, StillStep
    <2>2. CASE MainStep
      BY <2>2, MainHolds
    <2>3. ASSUME NEW w \in Workers, WorkerStep(w)
          PROVE  Conns!Next \/ UNCHANGED <<sock, serial, AllHolders>>
      BY <2>3, WorkHolds
    <2> QED BY <2>1, <2>2, <2>3 DEF Next
  <1> QED BY <1>1, <1>2, <1>3, <1>4, PTL DEF Spec, ConnSpec, Conns!Spec
=============================================================================
