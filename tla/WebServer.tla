----------------------------- MODULE WebServer -----------------------------
(***************************************************************************)
(* The reactor of the server: the main thread's event loop (WebServer::    *)
(* Start), the worker threads that run OnRead_ and OnWrite_, the           *)
(* connection objects users_[fd] (ServerConn), the epoll registrations     *)
(* (EPOLLONESHOT) and the idle timers.                                     *)
(*                                                                         *)
(* One step is one system call or one critical section.  A connection is   *)
(* named by its descriptor, as in the code; sock[fd] is the serial number  *)
(* of the TCP connection the descriptor currently stands for (0 when it is *)
(* closed), so that a descriptor the kernel hands out twice is told apart. *)
(* Lengths are counted in pieces of 1 to 10240 bytes, the constant of      *)
(* ServerConn::write.                                                      *)
(***************************************************************************)
EXTENDS Integers, Sequences, FiniteSets

CONSTANTS
  Fds,           \* descriptors accept() can return (the process's limit)
  ListenFd,      \* listenFd_
  Workers, Main, \* the pool's threads and the thread that runs Start
  MaxConns,      \* bound: number of clients that ever connect
  MaxUsers,      \* MAX_FD of webserver.h
  HdrChunks,     \* bound: pieces of the longest header
  FileChunks,    \* bound: pieces of the largest file
  ListenET,      \* listenEvent_ & EPOLLET
  ConnET,        \* connEvent_ & EPOLLET, ServerConn::isET
  TimeoutOn,     \* timeoutMS_ > 0
  SlowTasks,     \* a queued or running task may outlive its client's timer
  LateTick,      \* GetNextTick may see an expiry that has just passed
  AnyOpening     \* clients may open with a message that gets no answer

ASSUME FdsAssumption == IsFiniteSet(Fds) /\ ListenFd \notin Fds
ASSUME ThreadAssumption == Main \notin Workers
ASSUME BoundAssumption == {MaxConns, MaxUsers, HdrChunks, FileChunks} \subseteq Nat
ASSUME FlagAssumption ==
  {ListenET, ConnET, TimeoutOn, SlowTasks, LateTick, AnyOpening} \subseteq BOOLEAN

VARIABLES
  backlog, arrived, ledge,       \* listen queue, clients so far, ET edge pending
  full,                          \* history: the last DealListen_ met a limit
  sock, serial, rx, peer, ep,    \* kernel side of each descriptor
  isClose, inbuf, wbuf, iov0, iov1, spoken, \* ServerConn users_[fd]
  userCount,                     \* ServerConn::userCount
  timer,                         \* the node of fd in HeapTimer
  tasks,                         \* ThreadPool's queue
  pc, job, len,                  \* each thread: where it is, on what, writev's result
  after, batch, timeMS,          \* Start: where CloseConn_ returns, events_, timeMS
  crash                          \* why the process died

listenVars == <<backlog, arrived, ledge, full>>
kernVars == <<sock, serial, rx, peer, ep>>
connVars == <<isClose, inbuf, wbuf, iov0, iov1, spoken>>
loopVars == <<after, batch, timeMS>>
vars == <<listenVars, kernVars, connVars, userCount, timer, tasks,
          pc, job, len, loopVars, crash>>

Threads == Workers \union {Main}
ClosePcs == {"del", "chk", "clr"}
MainPcs == {"tick", "pop", "wait", "dispatch", "accept"} \union ClosePcs
WorkPcs == {"read", "process", "rearm_in", "rearm_out", "write", "advance"}
             \union ClosePcs
Event == [fd : Fds \union {ListenFd}, ev : {"in", "out", "hup"}]
Task == [op : {"read", "write"}, fd : Fds, conn : Nat]
Job == [fd : Fds \union {ListenFd}, conn : Nat]
NoJob == [fd |-> ListenFd, conn |-> 0]
IovMod == FileChunks + 2         \* size_t arithmetic, scaled down

Armed(fd) == ep[fd] \in {"in", "out"}
InBatch(fd) == \E e \in batch : e.fd = fd
Queued(fd) == \E i \in 1..Len(tasks) : tasks[i].fd = fd
Working(w, fd) == pc[w] # "idle" /\ job[w].fd = fd
Total(fd) == iov0[fd] + iov1[fd]

Init ==
  /\ backlog = 0 /\ arrived = 0 /\ ledge = FALSE /\ full = FALSE
  /\ sock = [fd \in Fds |-> 0] /\ serial = 0
  /\ rx = [fd \in Fds |-> FALSE]
  /\ peer = [fd \in Fds |-> "up"]
  /\ ep = [fd \in Fds |-> "none"]
  /\ isClose = [fd \in Fds |-> TRUE]
  /\ inbuf = [fd \in Fds |-> FALSE]
  /\ wbuf = [fd \in Fds |-> 0]
  /\ iov0 \in [Fds -> IF AnyOpening THEN {0, 1} ELSE {0}]
  /\ iov1 = [fd \in Fds |-> 0]
  /\ spoken = [fd \in Fds |-> FALSE]
  /\ userCount = 0
  /\ timer = [fd \in Fds |-> "none"]
  /\ tasks = << >>
  /\ pc = [t \in Threads |-> IF t = Main THEN "tick" ELSE "idle"]
  /\ job = [t \in Threads |-> NoJob]
  /\ len = [w \in Workers |-> 0]
  /\ after = "dispatch" /\ batch = {} /\ timeMS = "block"
  /\ crash = "none"
-----------------------------------------------------------------------------
(* The clients and the clock. *)

Connect ==
  /\ arrived < MaxConns
  /\ arrived' = arrived + 1
  /\ backlog' = backlog + 1
  /\ ledge' = TRUE
  /\ UNCHANGED <<full, kernVars, connVars, userCount, timer, tasks, pc, job, len,
                 loopVars, crash>>

Send(fd) ==
  /\ sock[fd] # 0 /\ peer[fd] = "up" /\ ~rx[fd]
  /\ rx' = [rx EXCEPT ![fd] = TRUE]
  /\ UNCHANGED <<listenVars, sock, serial, peer, ep, connVars, userCount, timer,
                 tasks, pc, job, len, loopVars, crash>>

PeerClose(fd) ==
  /\ sock[fd] # 0 /\ peer[fd] = "up"
  /\ peer' = [peer EXCEPT ![fd] = "gone"]
  /\ UNCHANGED <<listenVars, sock, serial, rx, ep, connVars, userCount, timer,
                 tasks, pc, job, len, loopVars, crash>>

\* timeoutMS_ after the last event of fd was dispatched.  Without SlowTasks
\* a task takes less than that.
TimerDue(fd) ==
  /\ timer[fd] = "running"
  /\ SlowTasks \/ (~Queued(fd) /\ \A w \in Workers : ~Working(w, fd))
  /\ timer' = [timer EXCEPT ![fd] = "due"]
  /\ UNCHANGED <<listenVars, kernVars, connVars, userCount, tasks, pc, job, len,
                 loopVars, crash>>
-----------------------------------------------------------------------------
(* CloseConn_ and ServerConn::Close, run by the main thread or a worker:    *)
(* EPOLL_CTL_DEL, the test of isClose_, and the three statements under it.  *)

AfterClose(t) == IF t = Main THEN after ELSE "idle"
AfterJob(t) == IF t = Main /\ after = "pop" THEN job[t] ELSE NoJob

DelFd(t) ==
  /\ pc[t] = "del"
  /\ ep' = [ep EXCEPT ![job[t].fd] = "none"]
  /\ pc' = [pc EXCEPT ![t] = "chk"]
  /\ UNCHANGED <<listenVars, sock, serial, rx, peer, connVars, userCount, timer,
                 tasks, job, len, loopVars, crash>>

\* Mutant: Close does not test isClose_.
CheckClosedNever(t) ==
  /\ pc[t] = "chk"
  /\ pc' = [pc EXCEPT ![t] = "clr"]
  /\ UNCHANGED <<listenVars, kernVars, connVars, userCount, timer, tasks, job,
                 len, loopVars, crash>>

CheckClosed(t) ==
  /\ pc[t] = "chk"
  /\ IF isClose[job[t].fd]
       THEN /\ pc' = [pc EXCEPT ![t] = AfterClose(t)]
            /\ job' = [job EXCEPT ![t] = AfterJob(t)]
       ELSE /\ pc' = [pc EXCEPT ![t] = "clr"]
            /\ job' = job
  /\ UNCHANGED <<listenVars, kernVars, connVars, userCount, timer, tasks, len,
                 loopVars, crash>>

Close(t) ==
  LET fd == job[t].fd IN
  /\ pc[t] = "clr"
  /\ isClose' = [isClose EXCEPT ![fd] = TRUE]
  /\ userCount' = userCount - 1
  /\ sock' = [sock EXCEPT ![fd] = 0]
  /\ ep' = [ep EXCEPT ![fd] = "none"]
  /\ rx' = [rx EXCEPT ![fd] = FALSE]
  /\ peer' = [peer EXCEPT ![fd] = "up"]
  /\ pc' = [pc EXCEPT ![t] = AfterClose(t)]
  /\ job' = [job EXCEPT ![t] = AfterJob(t)]
  /\ UNCHANGED <<listenVars, serial, inbuf, wbuf, iov0, iov1, spoken, timer,
                 tasks, len, loopVars, crash>>

CloseConn_(t) == DelFd(t) \/ CheckClosed(t) \/ Close(t)
-----------------------------------------------------------------------------
(* The main thread: tick and GetNextTick, epoll_wait, the dispatch loop.    *)

\* Starts CloseConn_ on fd in the main thread.
StartClose(fd, ret) ==
  /\ pc' = [pc EXCEPT ![Main] = "del"]
  /\ job' = [job EXCEPT ![Main] = [fd |-> fd, conn |-> sock[fd]]]
  /\ after' = ret

\* Mutant: the node is popped before its callback runs.
TickFirePopped(fd) ==
  /\ pc[Main] = "tick" /\ TimeoutOn /\ timer[fd] = "due"
  /\ timer' = [timer EXCEPT ![fd] = "none"]
  /\ StartClose(fd, "tick")
  /\ UNCHANGED <<listenVars, kernVars, connVars, userCount, tasks, len, batch,
                 timeMS, crash>>

TickFire(fd) ==
  /\ pc[Main] = "tick" /\ TimeoutOn /\ timer[fd] = "due"
  /\ StartClose(fd, "pop")
  /\ UNCHANGED <<listenVars, kernVars, connVars, userCount, timer, tasks, len,
                 batch, timeMS, crash>>

Pop ==
  /\ pc[Main] = "pop"
  /\ timer' = [timer EXCEPT ![job[Main].fd] = "none"]
  /\ pc' = [pc EXCEPT ![Main] = "tick"]
  /\ job' = [job EXCEPT ![Main] = NoJob]
  /\ UNCHANGED <<listenVars, kernVars, connVars, userCount, tasks, len,
                 loopVars, crash>>

\* Mutant: the loop waits for events only.
NextTimeoutNone == {"block"}

\* The result is a size_t, so "res < 0" never clamps: a front node that
\* expired since tick() looked yields a negative timeout, "block".
NextTimeout ==
  IF TimeoutOn /\ \E fd \in Fds : timer[fd] # "none"
    THEN {"finite"} \union (IF LateTick THEN {"block"} ELSE {})
    ELSE {"block"}

GetNextTick ==
  /\ pc[Main] = "tick"
  /\ TimeoutOn => \A fd \in Fds : timer[fd] # "due"
  /\ timeMS' \in NextTimeout
  /\ pc' = [pc EXCEPT ![Main] = "wait"]
  /\ UNCHANGED <<listenVars, kernVars, connVars, userCount, timer, tasks, job,
                 len, after, batch, crash>>

\* What epoll_wait reports, when the sockets of W have room to write.  Start
\* tests EPOLLRDHUP, EPOLLHUP and EPOLLERR before EPOLLIN before EPOLLOUT.
ListenReady == IF ListenET THEN ledge ELSE backlog > 0
Ready(W) ==
  [fd : {fd \in Fds : Armed(fd) /\ peer[fd] = "gone"}, ev : {"hup"}]
    \union [fd : {fd \in Fds : ep[fd] = "in" /\ rx[fd] /\ peer[fd] = "up"}, ev : {"in"}]
    \union [fd : {fd \in W : ep[fd] = "out" /\ peer[fd] = "up"}, ev : {"out"}]
    \union [fd : IF ListenReady THEN {ListenFd} ELSE {}, ev : {"in"}]

\* Mutant: without EPOLLONESHOT a registration stays armed.
DisarmedNot(es) == ep

Disarmed(es) ==
  [fd \in Fds |-> IF \E e \in es : e.fd = fd THEN "off" ELSE ep[fd]]

Wait ==
  /\ pc[Main] = "wait"
  /\ \E W \in SUBSET {fd \in Fds : ep[fd] = "out"} :
       /\ Ready(W) # {}
       /\ batch' = Ready(W)
       /\ ep' = Disarmed(Ready(W))
       /\ ledge' = FALSE
  /\ pc' = [pc EXCEPT ![Main] = "dispatch"]
  /\ UNCHANGED <<backlog, arrived, full, sock, serial, rx, peer, connVars, userCount,
                 timer, tasks, job, len, after, timeMS, crash>>

WaitTimeout ==
  /\ pc[Main] = "wait" /\ timeMS = "finite" /\ Ready({}) = {}
  /\ \E fd \in Fds : timer[fd] = "due"
  /\ pc' = [pc EXCEPT ![Main] = "tick"]
  /\ UNCHANGED <<listenVars, kernVars, connVars, userCount, timer, tasks, job,
                 len, loopVars, crash>>

\* Mutant: the idle time is not extended.
DealTaskKeepTimer(e) ==
  /\ tasks' = Append(tasks, [op |-> IF e.ev = "in" THEN "read" ELSE "write",
                             fd |-> e.fd, conn |-> sock[e.fd]])
  /\ UNCHANGED <<timer, crash>>

\* DealRead_ and DealWrite_: ExtentTime_ (whose adjust asserts that the node
\* exists) and AddTask.
DealTask(e) ==
  IF TimeoutOn /\ timer[e.fd] = "none"
    THEN crash' = "adjust" /\ UNCHANGED <<timer, tasks>>
    ELSE /\ timer' = IF TimeoutOn THEN [timer EXCEPT ![e.fd] = "running"] ELSE timer
         /\ tasks' = Append(tasks, [op |-> IF e.ev = "in" THEN "read" ELSE "write",
                                    fd |-> e.fd, conn |-> sock[e.fd]])
         /\ UNCHANGED crash

DispatchListen(e) ==
  /\ e.fd = ListenFd
  /\ pc' = [pc EXCEPT ![Main] = "accept"]
  /\ UNCHANGED <<timer, tasks, job, after, crash>>

DispatchHup(e) ==
  /\ e.fd # ListenFd /\ e.ev = "hup"
  /\ StartClose(e.fd, "dispatch")
  /\ UNCHANGED <<timer, tasks, crash>>

DispatchIo(e) ==
  /\ e.fd # ListenFd /\ e.ev # "hup"
  /\ DealTask(e)
  /\ UNCHANGED <<pc, job, after>>

Dispatch(e) ==
  /\ pc[Main] = "dispatch" /\ e \in batch
  /\ batch' = batch \ {e}
  /\ DispatchListen(e) \/ DispatchHup(e) \/ DispatchIo(e)
  /\ UNCHANGED <<listenVars, kernVars, connVars, userCount, len, timeMS>>

DispatchDone ==
  /\ pc[Main] = "dispatch" /\ batch = {}
  /\ pc' = [pc EXCEPT ![Main] = "tick"]
  /\ UNCHANGED <<listenVars, kernVars, connVars, userCount, timer, tasks, job,
                 len, loopVars, crash>>

\* accept() fails: nothing is waiting, or no descriptor is left (EMFILE).
AcceptNone ==
  /\ pc[Main] = "accept"
  /\ backlog = 0 \/ \A fd \in Fds : sock[fd] # 0
  /\ full' = (backlog > 0)
  /\ pc' = [pc EXCEPT ![Main] = "dispatch"]
  /\ UNCHANGED <<backlog, arrived, ledge, kernVars, connVars, userCount, timer, tasks, job,
                 len, loopVars, crash>>

\* SendError_ and return, whatever else is waiting.
AcceptBusy ==
  /\ pc[Main] = "accept"
  /\ backlog > 0 /\ \E fd \in Fds : sock[fd] = 0
  /\ userCount >= MaxUsers
  /\ backlog' = backlog - 1
  /\ full' = (backlog' > 0)
  /\ pc' = [pc EXCEPT ![Main] = "dispatch"]
  /\ UNCHANGED <<arrived, ledge, kernVars, connVars, userCount, timer, tasks,
                 job, len, loopVars, crash>>

\* Mutant: one client per event, also in ET mode.
AfterAcceptOnce == "dispatch"
AfterAccept == IF ListenET THEN "accept" ELSE "dispatch"

\* AddClient_: ServerConn::init, HeapTimer::add, EPOLL_CTL_ADD.
AddClient_(fd) ==
  /\ pc[Main] = "accept"
  /\ backlog > 0 /\ sock[fd] = 0 /\ userCount < MaxUsers
  /\ backlog' = backlog - 1
  /\ serial' = serial + 1
  /\ sock' = [sock EXCEPT ![fd] = serial']
  /\ rx' = [rx EXCEPT ![fd] = FALSE]
  /\ peer' = [peer EXCEPT ![fd] = "up"]
  /\ ep' = [ep EXCEPT ![fd] = "in"]
  /\ isClose' = [isClose EXCEPT ![fd] = FALSE]
  /\ inbuf' = [inbuf EXCEPT ![fd] = FALSE]
  /\ wbuf' = [wbuf EXCEPT ![fd] = 0]
  /\ spoken' = [spoken EXCEPT ![fd] = FALSE]
  /\ userCount' = userCount + 1
  /\ timer' = IF TimeoutOn THEN [timer EXCEPT ![fd] = "running"] ELSE timer
  /\ full' = FALSE
  /\ pc' = [pc EXCEPT ![Main] = AfterAccept]
  /\ UNCHANGED <<arrived, ledge, iov0, iov1, tasks, job, len, loopVars, crash>>

DealListen_ == AcceptNone \/ AcceptBusy \/ \E fd \in Fds : AddClient_(fd)

MainStep ==
  \/ \E fd \in Fds : TickFire(fd)
  \/ Pop \/ GetNextTick \/ Wait \/ WaitTimeout
  \/ \E e \in batch : Dispatch(e)
  \/ DispatchDone \/ DealListen_ \/ CloseConn_(Main)
-----------------------------------------------------------------------------
(* The workers: a task is OnRead_ or OnWrite_ followed by OnProcess.        *)

Take(w) ==
  /\ pc[w] = "idle" /\ tasks # << >>
  /\ pc' = [pc EXCEPT ![w] = Head(tasks).op]
  /\ job' = [job EXCEPT ![w] = [fd |-> Head(tasks).fd, conn |-> Head(tasks).conn]]
  /\ tasks' = Tail(tasks)
  /\ UNCHANGED <<listenVars, kernVars, connVars, userCount, timer, len, loopVars, crash>>

Goto(w, l) == pc' = [pc EXCEPT ![w] = l] /\ job' = job
Finish(w) == pc' = [pc EXCEPT ![w] = "idle"] /\ job' = [job EXCEPT ![w] = NoJob]

\* ServerConn::read: until EAGAIN, end of file or an error when isET, once
\* otherwise.  End of file or an error closes even when data was read.
Read(w) ==
  LET fd == job[w].fd IN
  /\ pc[w] = "read"
  /\ \/ /\ sock[fd] = 0
        /\ Goto(w, "del") /\ UNCHANGED <<rx, inbuf>>
     \/ /\ sock[fd] # 0 /\ peer[fd] = "gone" /\ (ConnET \/ ~rx[fd])
        /\ rx' = [rx EXCEPT ![fd] = FALSE]
        /\ inbuf' = [inbuf EXCEPT ![fd] = @ \/ rx[fd]]
        /\ Goto(w, "del")
     \/ /\ sock[fd] # 0 /\ (peer[fd] = "up" \/ (rx[fd] /\ ~ConnET))
        /\ \E more \in BOOLEAN :
             /\ more => ~ConnET /\ rx[fd]
             /\ rx' = [rx EXCEPT ![fd] = more]
        /\ inbuf' = [inbuf EXCEPT ![fd] = @ \/ rx[fd]]
        /\ Goto(w, "process")
  /\ UNCHANGED <<listenVars, sock, serial, peer, ep, isClose, wbuf, iov0, iov1,
                 spoken, userCount, timer, tasks, len, loopVars, crash>>

\* ServerConn::process: parse what is buffered, append the response to
\* writeBuff_ and point iov_ at it and at the mapped file.  The parser may
\* leave input behind; an RTSP method without a case answers nothing.
NothingToProcess(w) ==
  /\ ~inbuf[job[w].fd]
  /\ Goto(w, "rearm_in") /\ UNCHANGED <<inbuf, wbuf, iov0, iov1, spoken>>

Respond(w) ==
  LET fd == job[w].fd IN
  /\ inbuf[fd]
  /\ \E hdr \in 0..HdrChunks, file \in 0..FileChunks, rest \in BOOLEAN :
       /\ hdr = 0 => file = 0
       /\ inbuf' = [inbuf EXCEPT ![fd] = rest]
       /\ wbuf' = [wbuf EXCEPT ![fd] = @ + hdr]
       /\ iov0' = [iov0 EXCEPT ![fd] = wbuf[fd] + hdr]
       /\ iov1' = [iov1 EXCEPT ![fd] = file]
  /\ spoken' = [spoken EXCEPT ![fd] = TRUE]
  /\ Goto(w, "rearm_out")

\* A line that names no protocol, or an RTSP request that does not parse: iov_
\* keeps what it had, uninitialised or of the descriptor's previous client
\* until this client's first response.
NoAnswer(w) ==
  /\ inbuf[job[w].fd] /\ (AnyOpening \/ spoken[job[w].fd])
  /\ \E rest \in BOOLEAN : inbuf' = [inbuf EXCEPT ![job[w].fd] = rest]
  /\ Goto(w, "rearm_out") /\ UNCHANGED <<wbuf, iov0, iov1, spoken>>

Process(w) ==
  /\ pc[w] = "process"
  /\ NothingToProcess(w) \/ Respond(w) \/ NoAnswer(w)
  /\ UNCHANGED <<listenVars, kernVars, isClose, userCount, timer, tasks, len,
                 loopVars, crash>>

\* Epoller::ModFd; EPOLL_CTL_MOD fails on a descriptor not registered.
Rearm(w) ==
  LET fd == job[w].fd IN
  /\ pc[w] \in {"rearm_in", "rearm_out"}
  /\ ep' = IF ep[fd] = "none" THEN ep
           ELSE [ep EXCEPT ![fd] = IF pc[w] = "rearm_in" THEN "in" ELSE "out"]
  /\ Finish(w)
  /\ UNCHANGED <<listenVars, sock, serial, rx, peer, connVars, userCount, timer,
                 tasks, len, loopVars, crash>>

\* ServerConn::write, the writev call.
WritevAll(w) ==          \* nothing left: 0, and OnWrite_ calls OnProcess
  /\ Total(job[w].fd) = 0
  /\ Goto(w, "process") /\ UNCHANGED <<len, crash>>

WritevSome(w) ==
  /\ sock[job[w].fd] # 0
  /\ \E k \in 1..Total(job[w].fd) : len' = [len EXCEPT ![w] = k]
  /\ Goto(w, "advance") /\ UNCHANGED crash

\* Mutants: EAGAIN is taken for the end of the response; nothing re-arms.
WritevAgainAsDone(w) ==
  /\ sock[job[w].fd] # 0 /\ Total(job[w].fd) > 0
  /\ Goto(w, "process") /\ UNCHANGED <<len, crash>>

WritevAgainForgets(w) ==
  /\ sock[job[w].fd] # 0 /\ Total(job[w].fd) > 0
  /\ Finish(w) /\ UNCHANGED <<len, crash>>

WritevAgain(w) ==        \* EAGAIN
  /\ sock[job[w].fd] # 0 /\ Total(job[w].fd) > 0
  /\ Goto(w, "rearm_out") /\ UNCHANGED <<len, crash>>

\* EBADF, ECONNRESET, or EFAULT from pointers never set: OnWrite_ returns
\* and neither re-arms nor closes the descriptor.
WritevError(w) ==
  /\ Total(job[w].fd) > 0
  /\ sock[job[w].fd] = 0 \/ peer[job[w].fd] = "gone" \/ ~spoken[job[w].fd]
  /\ Finish(w) /\ UNCHANGED <<len, crash>>

WritevPipe(w) ==         \* EPIPE: SIGPIPE has its default action
  /\ Total(job[w].fd) > 0
  /\ sock[job[w].fd] # 0 /\ peer[job[w].fd] = "gone"
  /\ crash' = "sigpipe" /\ Finish(w) /\ UNCHANGED len

Writev(w) ==
  /\ pc[w] = "write"
  /\ \/ WritevAll(w) \/ WritevSome(w) \/ WritevAgain(w)
     \/ WritevError(w) \/ WritevPipe(w)
  /\ UNCHANGED <<listenVars, kernVars, connVars, userCount, timer, tasks, loopVars>>

\* Bytes of iov_[0] still to be written after k more.
HeaderLeft(fd, k) == IF k > iov0[fd] THEN 0 ELSE iov0[fd] - k

\* ... and what follows it: the iov_ update, Buffer::Retrieve with its
\* assertion, the loop condition, and OnWrite_'s tests after the loop.
AfterWrite(w, left) ==
  \/ ConnET /\ Goto(w, "write")
  \/ ~ConnET /\ left > 1 /\ Goto(w, "write")     \* more than 10240 bytes
  \/ ~ConnET /\ left > 0 /\ Finish(w)            \* at most 10240 bytes
  \/ ~ConnET /\ left = 0 /\ Goto(w, "process")

Advance(w) ==
  LET fd == job[w].fd
      k == len[w]
  IN
  /\ pc[w] = "advance"
  /\ iov0' = [iov0 EXCEPT ![fd] = HeaderLeft(fd, k)]
  /\ IF k > iov0[fd]
       THEN /\ iov1' = [iov1 EXCEPT ![fd] = (@ - (k - iov0[fd])) % IovMod]
            /\ wbuf' = [wbuf EXCEPT ![fd] = IF iov0[fd] > 0 THEN 0 ELSE @]
            /\ AfterWrite(w, iov0'[fd] + iov1'[fd])
            /\ UNCHANGED crash
       ELSE /\ iov1' = iov1
            /\ IF k <= wbuf[fd]
                 THEN /\ wbuf' = [wbuf EXCEPT ![fd] = @ - k]
                      /\ AfterWrite(w, iov0'[fd] + iov1'[fd])
                      /\ UNCHANGED crash
                 ELSE crash' = "retrieve" /\ Finish(w) /\ UNCHANGED wbuf
  /\ len' = [len EXCEPT ![w] = 0]
  /\ UNCHANGED <<listenVars, kernVars, isClose, inbuf, spoken, userCount, timer,
                 tasks, loopVars>>

WorkerStep(w) ==
  Take(w) \/ Read(w) \/ Process(w) \/ Rearm(w) \/ Writev(w) \/ Advance(w)
    \/ CloseConn_(w)
-----------------------------------------------------------------------------
Clients == Connect \/ \E fd \in Fds : Send(fd) \/ PeerClose(fd)

Next ==
  /\ crash = "none"
  /\ \/ Clients
     \/ \E fd \in Fds : TimerDue(fd)
     \/ MainStep
     \/ \E w \in Workers : WorkerStep(w)

Spec == Init /\ [][Next]_vars

\* The threads are scheduled and time passes; the clients promise nothing.
Fairness ==
  /\ WF_vars(crash = "none" /\ MainStep)
  /\ \A w \in Workers : WF_vars(crash = "none" /\ WorkerStep(w))
  /\ \A fd \in Fds : WF_vars(crash = "none" /\ TimerDue(fd))

FairSpec == Spec /\ Fairness
-----------------------------------------------------------------------------
(* Properties. *)

KernelType ==
  /\ backlog \in Nat /\ arrived \in Nat /\ ledge \in BOOLEAN
  /\ full \in BOOLEAN
  /\ sock \in [Fds -> Nat] /\ serial \in Nat
  /\ rx \in [Fds -> BOOLEAN] /\ peer \in [Fds -> {"up", "gone"}]
  /\ ep \in [Fds -> {"none", "off", "in", "out"}]

ConnType ==
  /\ isClose \in [Fds -> BOOLEAN] /\ inbuf \in [Fds -> BOOLEAN]
  /\ wbuf \in [Fds -> Nat] /\ iov0 \in [Fds -> Nat] /\ iov1 \in [Fds -> Nat]
  /\ spoken \in [Fds -> BOOLEAN]
  /\ userCount \in Int

LoopType ==
  /\ timer \in [Fds -> {"none", "running", "due"}]
  /\ tasks \in Seq(Task)
  /\ after \in {"dispatch", "pop"} /\ timeMS \in {"block", "finite"}
  /\ batch \subseteq Event
  /\ crash \in {"none", "adjust", "retrieve", "sigpipe"}

ThreadType ==
  /\ pc \in [Threads -> {"idle"} \union MainPcs \union WorkPcs]
  /\ pc[Main] \in MainPcs
  /\ \A w \in Workers : pc[w] \in {"idle"} \union WorkPcs
  /\ job \in [Threads -> Job]
  /\ \A w \in Workers : pc[w] # "idle" => job[w].fd \in Fds
  /\ pc[Main] \in ClosePcs \union {"pop"} => job[Main].fd \in Fds
  /\ len \in [Workers -> Nat]

\* Every variable has the type of the object it stands for, and a thread that
\* works on a client holds a client's descriptor.
TypeOK == KernelType /\ ConnType /\ LoopType /\ ThreadType

\* What the main thread alone touches: an armed registration whose event only
\* it can receive, an event it has received, a client it is closing.
MainSide(fd) ==
  Armed(fd) \/ InBatch(fd) \/ (pc[Main] \in ClosePcs /\ job[Main].fd = fd)

\* users_[fd] has no lock.  EPOLLONESHOT must hand it to one party at a time:
\* the main thread, one queued task, or one worker (webserver.cpp:58,191).
ExclusiveOwner ==
  \A fd \in Fds :
    /\ MainSide(fd) => ~Queued(fd) /\ \A w \in Workers : ~Working(w, fd)
    /\ Queued(fd) => \A w \in Workers : ~Working(w, fd)
    /\ \A v, w \in Workers : Working(v, fd) /\ Working(w, fd) => v = w
    /\ \A i, j \in 1..Len(tasks) : tasks[i].fd = fd /\ tasks[j].fd = fd => i = j
    /\ ~(Armed(fd) /\ InBatch(fd))

\* A task runs on the connection it was queued for: while a task is queued or
\* running its descriptor is neither closed nor reused for another client.
NoStaleTask ==
  /\ \A i \in 1..Len(tasks) :
       tasks[i].conn # 0 /\ sock[tasks[i].fd] = tasks[i].conn
  /\ \A w \in Workers :
       pc[w] # "idle" => job[w].conn # 0 /\ sock[job[w].fd] = job[w].conn

\* userCount, decremented by whichever thread closes, is the number of open
\* clients, and isClose_ agrees with the descriptor: no close is done twice.
UserCountExact ==
  /\ \A fd \in Fds : isClose[fd] <=> sock[fd] = 0
  /\ userCount = Cardinality({fd \in Fds : sock[fd] # 0})

\* HeapTimer::adjust asserts that the node exists (heaptimer.cpp:94): a
\* descriptor that can still produce an event, or has, keeps its timer, even
\* when a worker has closed the client or a task outlives the timeout.
TimerCovers ==
  TimeoutOn =>
    \A fd \in Fds : ep[fd] # "none" \/ InBatch(fd) => timer[fd] # "none"

\* OnProcess appends a response only to an empty writeBuff_: responses are
\* never mixed, iov_[0] covers exactly the bytes still in writeBuff_, and
\* Buffer::Retrieve is never asked for more (its assertion, buffer.cpp:29).
ResponsesNotMixed ==
  /\ crash # "retrieve"
  /\ \A w \in Workers :
       LET fd == job[w].fd IN
       /\ pc[w] = "process" => wbuf[fd] = 0
       /\ pc[w] = "write" /\ spoken[fd] => wbuf[fd] = iov0[fd]

\* A client whose peer is still there is never forgotten, whether it has had a
\* response yet or not: its descriptor is armed, or somebody is about to arm it
\* again or close it.
NeverForgotten ==
  \A fd \in Fds :
    ep[fd] = "off" /\ peer[fd] = "up" =>
      MainSide(fd) \/ Queued(fd) \/ \E w \in Workers : Working(w, fd)

\* In ET mode DealListen_ has to accept until nothing is waiting: no client
\* stays in the listen queue without an event to come (webserver.cpp:54),
\* unless the last loop ended at MAX_FD or at the descriptor limit: what it
\* left behind waits for the next client to arrive.
ListenDrained ==
  ListenET /\ pc[Main] \in {"tick", "wait"} /\ backlog > 0 => ledge \/ full

\* A client whose peer has gone is closed in the end, by EPOLLRDHUP, by the
\* worker's read, or by its timer.
GoneClientsClosed ==
  \A fd \in Fds :
    (sock[fd] # 0 /\ peer[fd] = "gone") ~> (peer[fd] = "up" \/ crash # "none")

\* A client in the listen queue is accepted or turned away, unless DealListen_
\* met a limit with it in the queue.
BacklogServed ==
  (backlog > 0 /\ ~full) ~> (backlog = 0 \/ full \/ crash # "none")
=============================================================================
