# VideoServer: a TLA+ verification project

VideoServer (`src/code/`) is a C++ server for HTTP pages and RTSP/RTP video: one
event loop over epoll, a pool of worker threads, a heap of idle timers, a pool
of MySQL connections, an asynchronous log, two request parsers, an H.264
packetizer, and the scripts of the pages it serves. This directory holds TLA+
modules for these parts, TLC configurations that check them on small instances,
and TLAPS proofs of their main safety properties. `PROJECT.json` lists
components, runs, mutants, the source lines of every definition, findings,
hazards and theorems.

Contents: [1 The system](#1-the-system), [2 Modules and code](#2-modules-and-code),
[3 Runs](#3-runs), [4 Fairness](#4-fairness), [5 Proofs](#5-proofs),
[6 Divergences](#6-divergences), [7 What is not modelled](#7-what-is-not-modelled),
[8 Plan](#8-plan).

## 1 The system

Paths are relative to `src/code/`.

| Component | State | Operations | Talks to |
|---|---|---|---|
| Reactor: `server/webserver.cpp`, `server/epoller.cpp`, `http/serverconn.cpp` | `users_` (descriptor to connection object), epoll registrations, `userCount` | `Start`, `DealListen_`, `AddClient_`, `DealRead_`, `DealWrite_`, `CloseConn_` in the main thread; `OnRead_`, `OnProcess`, `OnWrite_` in workers | hands tasks to the thread pool; calls the timers; workers share `users_[fd]` with the main thread without a lock |
| Idle timers: `timer/heaptimer.cpp` | `heap_`, `ref_` | `add`, `adjust`, `tick`, `GetNextTick`, and the sifts | called by the main thread; a timer's callback is `CloseConn_` |
| Thread pool: `pool/threadpool.h` | task queue, `isClosed`, mutex, condition variable | `AddTask`, the worker loop, the destructor | runs the reactor's tasks |
| MySQL pool: `pool/sqlconnpool.cpp`, `pool/sqlconnRAII.h` | queue of connections, semaphore, mutex | `Init`, `GetConn`, `FreeConn`, the RAII object | called by `HttpRequest::UserVerify` in workers |
| Log: `log/log.cpp`, `log/blockqueue.h` | bounded queue with two condition variables, file, line count, date | `write`, `flush`, `AsyncWrite_`, `~Log` | called by every thread |
| HTTP: `http/httprequest.cpp`, `http/httpresponse.cpp` | parser state, path, form, response code, mapped file | `Init`, `parse`, `UserVerify`, `MakeResponse` | run by the worker that owns the connection; reads `readBuff_`, fills `writeBuff_` and `iov_` |
| RTSP: `rtsp/rtsprequest.cpp`, `rtsp/rtspresponse.cpp` | method, CSeq, ports; file, address, ports of the stream | `init`, `parse`, `makeResponeStr`, `sendRTPPacket` | `PLAY` starts a detached thread with a pointer into the connection object |
| RTP: `rtp/rtp.cpp`, `rtp/h264parser.cpp` | mapped file and position, sequence number, time stamp | `get_next_frame`, `packRTP`, `pushStream` | run by the thread of `PLAY`, which sends UDP packets |
| Buffer: `buffer/buffer.cpp` | bytes, read and write position | `Append`, `Retrieve`, `ReadFd`, `MakeSpace_` | member of each connection object |
| Page scripts: `../resources/js`, `../resources/*.html` | which scripts ran, jQuery's ready list, bound handlers, the cover, the navigation bar and its menu | what each script does when it runs, the handlers of scroll, toggle and click, load | the browser; jQuery, Bootstrap, Magnific Popup and WOW are third-party |

**What is hard, and what makes each part correct.** The reactor has no lock
around a connection object: EPOLLONESHOT, the order of steps, and the timers
are all that keep two threads off it. Descriptors are reused by the kernel while
old events, tasks and timers for the same number may still exist. Sends are
partial, peers vanish between two calls, and limits are met with clients
waiting. The correctness properties are: one owner per connection, no task for
a connection that has gone, exact client count, responses that do not mix, no
client that is forgotten or left in the listen queue, and a timer for each
descriptor that can produce an event. The timers have to keep two
structures consistent through every swap and may not let the loop sleep past an
expiry. The thread pool and the log have mutexes, condition variables and a
destructor: lost wakeups, deadlocks, lost or doubled work. The MySQL pool tests
its queue outside the lock and gets each connection back twice. The parsers have
state that outlives a request and a client, and input that TCP cuts anywhere and
that a buffer moves about. The RTP thread reads an object that others go on
changing. A page's scripts arrive or not, one by one, and one that throws takes
with it what comes after.

## 2 Modules and code

Each module opens with what one step of it stands for; `PROJECT.json` maps each
definition to its lines. Definitions keep the names of the functions they model.
An operator whose comment says "Mutant" is a plausible bug, used only to show
that a property of a run would notice it.

**`WebServer`** - the reactor. A step is one system call or one critical
section; inside the main thread, `accept` and `AddClient_` are one step because
no other thread knows the new descriptor yet. `pc[Main]` follows `Start`: `tick`
and `pop` (timers), `wait` (`epoll_wait`, which returns any non-empty set of
ready events), `dispatch` (the loop over `events_`), `accept` (`DealListen_`),
and `del`, `chk`, `clr` (`CloseConn_` and `ServerConn::Close`, which workers run
too). Workers: `read`, `process`, `rearm_in`, `rearm_out`, `write`, `advance`,
one for each call in `OnRead_`, `OnProcess` and `OnWrite_`. The kernel side
(listen queue and its edge, sockets, registrations with EPOLLONESHOT, unread
input, a peer that has gone) is modelled from the calls the code makes. `Fds` is
the set of descriptors `accept` can return, so that EMFILE happens; `sock[fd]`
numbers the connections, so that a reused descriptor is told apart. Lengths are
counted in pieces of 1 to 10240 bytes, because 10240 is the only length
`ServerConn::write` compares with. The timers are reduced to "none, running,
due" for each descriptor: `HeapTimer` is the heap itself.

**`Connections`**, **`ConnectionHolders`** - what the reactor promises for its
clients, without threads, batches, tasks or lengths: an open connection is held
by epoll, the event loop, the task queue or one worker, or by nobody after
`OnWrite_` gave it up; it goes round between them in that order (`Report`,
`Queue`, `Take`, `Rearm`); only the loop or a worker that holds it may close it;
timers take a client from epoll or one that was given up, never one in the
queue or with a worker; no more than MAX_FD are open. `Holders` reads the set
of holders off the state of `WebServer`: the registration, the batch of events
and `CloseConn_` in the main thread, the tasks, the threads. It is a set, so
that two threads on one connection would show as two holders, which no step of
`Connections` allows. `WebServer` implements it (`ConnSpec`).

**`HeapTimer`**, **`TimerTable`** - the heap, one iteration of `siftup_`,
`siftdown_` or `tick` to a step, with a clock that advances between steps and
may also be set back (`Clock` is the system clock). Indexes are the code's;
`(i - 1) / 2` at 0, which leaves the array, is modelled with a free choice of
what it finds there. `TimerTable` is the abstract specification: a table of
expiry times from which only an earliest one that is due may leave.
`HeapTimer` implements it (`TableSpec`).

**`ThreadPool`**, **`TaskQueue`** - worker loop, `AddTask`, destructor and
spurious wakeups, one critical section or notification to a step, so that
`notify_one` comes after the unlock as in the code. `TaskQueue` is what the pool
promises: tasks start in the order they were added, each once (`QueueSpec`).

**`SqlConnPool`** - the pool under `UserVerify`: `empty()` without the lock,
`sem_wait`, pop, the RAII temporary (`SqlConnRAII(&sql, ...)` on line 183 of
`http/httprequest.cpp` is destroyed at the end of the statement), SELECT, INSERT,
`FreeConn`. Opening a connection and queries may fail. Sending a statement and
fetching its result are separate steps (`Query`, `Store`; `InsertQuery`,
`InsertReturns`), since by finding 1 two workers may use one `MYSQL*` at once. The
client library does not allow that, and what it then does is undefined: when a
statement is sent while another worker's is under way on the same connection,
the connection is `mixed`, and from then on a query on it may fail, its result
may be any row, none or NULL, and its answer may never come. The server is taken to
answer a SELECT when it is sent and to execute an INSERT when it returns; any
other moment of the call gives the same orders of the workers' statements.
`raced` records that two workers were between SELECT and INSERT of one name,
`misread` that a registration was decided by a result from a mixed connection.

**`Log`** - writers, the write thread, rotation by lines and by date, `flush`,
`~Log`, and `BlockDeque` with both condition variables. A critical section that
spans several steps keeps `Log::mtx_` in a variable. Several writers may see
that a new file is due before one of them makes it.

**`Buffer`** - the class as functions from buffers to buffers: a vector and two
positions, `Append`, `Retrieve` and its variants, `EnsureWriteable`,
`MakeSpace_` with its two branches, and `ReadFd` with the array on the stack.

**`TextLines`**, **`HttpConn`**, **`RtspSession`** - text as sequences of tokens,
which the network may cut and join at any token. `HttpConn` is one HTTP
connection object and its clients, one after the other (`NewClient`): the reads
until `readBuff_`, a `Buffer`, has what was sent, protocol choice,
`HttpRequest::parse` line by line with its state machine, `MakeResponse`, and
the cycle of `OnProcess` and `OnWrite_`. `iovSet` tells whether any response has
set `iov_` yet, `Unset` what `m_protocolType` may hold before the first request.
`RtspSession` is one connection object that speaks RTSP: `RtspRequest`,
`RtspReponse`, the next client that gets the same object, and the detached
threads of `PLAY`, each access of a thread to the object being one step. `abort`
says why the process ended: a file that cannot be opened, or a function without
a return statement.
`clean` says that every read so far brought exactly one whole message; what the
parsers promise for requests is stated for that case, what must always hold
(types, termination) for all.

**`RtpStream`** - `H264Parser` and `RTP::pushStream` byte by byte: frames, packets,
fragmentation units, sequence numbers (16 bits in the code, `SeqMod` here) and
time stamps. One step is one round of the loop.

**`PageScripts`** - one page in one browser: seven scripts in the order of the
page's `script` elements, each of which may fail to arrive, what each does until
its last line or until it throws, the callbacks of `$(document).ready` in order
(an exception ends the list), `load`, and a user who scrolls, opens the menu and
clicks. What jQuery and the plugins do is modelled from how these scripts
use them.

**`*_proofs`** - theorems about the module they are named after (section 5); those
about `Buffer` are in `HttpConn_proofs`, which needs them, those about
`PageScripts`, the scripts of the pages that `MakeResponse` sends, are there too
(its specification is `PageSpec`, beside the `Spec` of `HttpConn`), and that
about `ConnectionHolders` is in `WebServer_proofs`.
**`MC*`** - the instances for TLC: symmetry sets and messages, files, contents.

How they fit together: `WebServer` hands tasks to a queue that is what
`TaskQueue` promises (a FIFO from which any worker takes the first task), and
calls timers that behave as `TimerTable` says (a due node is removed, nothing
else is). `HttpConn` and `RtspSession` are what happens inside
`WebServer`'s step `Process` for one connection; the exclusive owner shown for
`WebServer` is what lets them be modelled with one thread. `RtpStream` is what a
`RtspSession` thread does once it is `streaming`. `Buffer` is the type of
`HttpConn`'s `readBuff`; `WebServer` only counts what `writeBuff_` holds.
`PageScripts` runs on the other side, in what `MakeResponse` sent.

## 3 Runs

Run one with `tlc -workers 2 -config <run>.cfg <module>.tla`. Each property has
a mutant in `PROJECT.json`: a changed definition under which TLC finds the
property violated, so that none of them holds by the shape of the model.

| Run | Module | Question | Result |
|---|---|---|---|
| `ws_oneshot` | `MCWebServer` | two clients, two descriptors, two workers, edge-triggered, timers on (as `main.cpp` configures), a `GetNextTick` that may see an expiry too late: one owner, no stale task, exact `userCount`, responses not mixed, nobody forgotten, listen queue drained, `adjust` finds its node | holds |
| `ws_live` | `MCWebServer` | level-triggered connections, three clients, MAX_FD of 1: a client that has gone is closed in the end, a waiting client is accepted or turned away unless a limit was met; refinement of `Connections`: every client has one holder at a time and nobody holds a closed descriptor | holds |
| `ht_heap` | `MCHeapTimer` | four timers: heap order, index, completeness of `tick`, `GetNextTick`, termination, refinement of `TimerTable` | holds |
| `tp_pool` | `MCThreadPool` | three workers, two producers, three tasks, destructor: no lost wakeup, drained, refinement of `TaskQueue`, every task starts, every worker leaves | holds |
| `sql_pool` | `MCSqlConnPool` | three workers, one connection, failing connects and queries: the semaphore counts the queue, every wait for a connection ends, a name is registered once unless two workers were between its SELECT and INSERT, or one went by a result from a connection that two used at once | holds |
| `sql_shared` | `MCSqlConnPool` | does a connection belong to one worker from construction to destruction of the RAII object? | violated: finding 1 |
| `log_queue` | `MCLog` | two writers, four lines, a queue of two, rotation every two lines and at midnight, `~Log` | holds |
| `log_exit` | `MCLog` | does `~Log` return? | violated: finding 2 |
| `http_parse` | `MCHttpConn` | two clients, one after the other on one object, with two messages each out of five kinds (two GETs, a POST with and without a line end, a line that is no request), cut anywhere, in a buffer that moves and grows: answered in order, parsing ends, the connection reads again | holds |
| `rtp_stream` | `MCRtpStream` | every file made of up to five pieces (start codes of three and four bytes, a zero, units of one and four bytes) | holds |
| `rtsp_play` | `MCRtspSession` | two clients on one object with three and two requests out of DESCRIBE, SETUP (two profiles), PLAY, TEARDOWN, cut and joined anywhere, of a file that exists and one that does not, and PLAY's thread: answers belong to requests, a stream goes to its client, a described file that exists never ends the server | holds |
| `page_scripts` | `MCPageScripts` | a page whose seven scripts arrive or not, a user who scrolls, opens the menu and clicks one of two links: the cover goes, links navigate, the bar follows the position | holds |

**Why the bounds are enough.** The hazards of the reactor concern one descriptor
and those who may hold it: the main thread, a queued task, a worker. Two workers
and two clients on two descriptors give every pair of holders, reuse of a
descriptor while old events and timers exist, and a batch with an event of
another client. Three clients with one allowed user meet MAX_FD with a client
still in the listen queue. The limit of descriptors, which is met where MAX_FD
is not, is in the proofs; to see it in TLC, give `ws_live` one descriptor (`Fds
= {f1}`): its properties hold there too. The refinement of `Connections` is
checked in `ws_live` as well, with one worker, since a second task for one
client already shows in the queue; what two workers may do to one client is
checked in `ws_oneshot` and proved (`ConnectionsCorrect`). Two pieces of header
and one of file give short writes inside the header, at its end and inside the
file. Four nodes give a heap of three levels, with a node that has one child and
one that has two; `Ms = 2` makes milliseconds coarser than the clock, as
`duration_cast` does. Three workers and two producers are needed for a
notification that wakes the wrong worker. A log queue of two fills and empties
within four lines, and two rotations by lines and one by date can coincide (all files
are one sequence of lines: a rotation done twice shows in no property). A
connection pool with one connection makes every second request wait, and
`UserVerify`'s two frees make it grow; three workers give two that race for a
name and one that comes later. Two messages and two clients give a parser a
state from before, of the same client and of another one. A buffer that begins
with six cells, with three from the stack array to a read, has to move its bytes
and to grow before it holds the longest message, of eight tokens. `MaxData = 3`
gives units below, at and above the limit and fragments that are full or not;
`SeqMod = 102` makes the number, which starts at 100, wrap within the second
packet. Counters of replies stop at `MaxReplies`, one more than the messages of
a client, so that one answer too many is seen. In `rtsp_play`, once a read was
not one whole message, the client sends nothing more; its cut or joined request
is still processed to the end.

`CHECK_DEADLOCK FALSE` is in every configuration because each system may stop:
clients, calls, lines and messages are bounded, the clock reaches `MaxNow`, the
process may end by an assertion or SIGPIPE (`crash`, `abort`), a stream, the
pool or the log ends. What must not stop is stated as liveness.

## 4 Fairness

Threads are scheduled and calls that have begun go on; nobody is obliged to
call. `WebServer`: weak fairness of the main thread's step, of each worker's
step and of each timer becoming due (time passes); clients promise nothing,
neither to send nor to close. `HeapTimer`: a loop that has begun goes on
(`Step`); the clock owes nothing. `ThreadPool`: each worker's step, and the
notification after a push or after the flag; tasks return. `SqlConnPool`: each
worker's `UserVerify`, except where it waits for an answer on a mixed connection;
the semaphore is not assumed to be fair. `Log`: a writer
inside `write` or `flush`, the write thread, the destructor; a spurious wakeup
may happen but is not promised. `HttpConn`: the worker's steps (`Serve`), with a
client that reads what it is sent. `RtpStream` and `RtspSession` have no
liveness property and no fairness. `PageScripts`: the browser's steps
(`Browser`: each file arrives or fails to, events and animations come); the user
owes nothing. Finding 2 is a temporal counterexample under the fairness above.

## 5 Proofs

Checked by `tlapm <module>.tla`, for every value of the constants that
satisfies the `ASSUME`s of the module.

| Theorem | Property | Argument |
|---|---|---|
| `WebServer_proofs!TypeCorrect` | `TypeOK` | one lemma for the clients, `CloseConn_`, the main thread's steps and the workers' steps |
| `TimerCoversCorrect` | `TimerCovers` | `TimerInv`: `BatchInv` (a batch has one event per descriptor, and none of the client being closed) and: the client whose timer has fired is out of epoll before the node is popped |
| `ExclusiveOwnerCorrect`, `NoStaleTaskCorrect` | `ExclusiveOwner`, `NoStaleTask` | `OwnerInv`: both together, `BatchInv`, and `ConnInv` (`isClose_` agrees with the descriptor, a registered descriptor is open, a timer that is due has no task) |
| `UserCountCorrect` | `UserCountExact` | `CountInv` under `OwnerInv`: only `AddClient_` and `Close` change the set of open descriptors, each by one |
| `ListenDrainedCorrect` | `ListenDrained` | `ListenInv`: a waiting client has its edge, or the main thread is in the accept loop or has the event in its batch, or a limit was met (`full`) |
| `OpenHasTimerCorrect`, `SleepsInTimeCorrect` | behind `GoneClientsClosed` | `ExpiryInv`: besides the two, `isClose_` says exactly whether the descriptor is closed, the client whose node is popped is closed, and the node that made the timeout finite is still there |
| `ResponsesNotMixedCorrect` | `ResponsesNotMixed` | `RespInv` under `OwnerInv`: while nobody writes, `writeBuff_` is empty; once a response has been made, `writeBuff_` and `iov_[0]` have the same length |
| `NeverForgottenCorrect` | `NeverForgotten` | `Kept` under `OwnerInv`, `TimerInv`, `RespInv` (only who has had a response is written to) and `HeaderInv` (the lengths again): every step that gives a client up arms it, closes it, or hands it on |
| `AnsweredNotForgotten` | | the same argument without `RespInv`: when first messages may get no answer, `Kept` is the promise to the clients that have had a response |
| `ConnectionsCorrect` | `ConnSpec` | `OwnerInv`, `TimerInv` and `CountInv` give that a client has at most one holder (`OneHolder`); then each step is a stutter or hands on one client (`PassStep`), `epoll_wait` several, and `CloseConn_` in the main thread takes the client over at its first step and closes it at `clr` |
| `HeapTimer_proofs!TypeCorrect`, `RefCorrect` | `TypeOK`, `RefExact` | `IInv`, the two together: `SwapNode_` and `del_` use indexes that `RefExact` says are right, and keep it right because they stay inside the array |
| `HeapOrderedCorrect` | `HeapOrdered` | `HeapInv`: no node is later than one that is set now (`NoneLater`), and a sift in progress is out of order at one node only (`Sinking`), whose children do not expire before its parent; `siftup_` swaps equal expiries only (`Rising`) |
| `TickCompleteCorrect`, `NextTickCorrect` | `TickComplete`, `NextTickInTime` | `RootEarliest`: an ordered heap has its earliest node at the root (a least index that contradicted it would have a smaller one, its parent), and rounding keeps the order |
| `TableCorrect` | `TableSpec` | `LeavingInv`: the node that `del_` takes out is due and earliest; sifts do not change the table, `add` and `adjust` set an entry, `Erase` is `Expire` |
| `CallsShortenCorrect` | behind `CallsReturn` | the pair of the number of nodes and `Stage`, a natural number that bounds what a sift has left to sink or to climb: each step of a call removes a node, lowers `Stage` or fails an assertion, and the clock changes neither |
| `ThreadPool_proofs!TypeCorrect`, `NoTaskSleepsCorrect`, `DrainedCorrect` | `TypeOK`, `NoTaskSleeps`, `DrainedOnExit` | each inductive given the types; finite sets of sleeping, awake and notifying threads are counted |
| `QueueCorrect` | `QueueSpec` | `QueueInv`: the queue holds the tasks that were added and not started, in order; every step maps to a step of `TaskQueue` or to a stutter |
| `SqlConnPool_proofs!TypeCorrect`, `SemCorrect` | `TypeOK`, `SemCountsQueue` | the queue is as long as the semaphore plus the workers that are past `sem_wait`; each operation changes both sides by one |
| `RegisteredCorrect` | `RegisteredOnce` | `RegInv`: without a race or a misread result, a worker between a SELECT that found no row and the end of its INSERT is alone with its name, and the name is not in the table |
| `PoolKeepsItsConns`, `NobodyWaitsForNobody` | behind `GetConnReturns` | the semaphore and the workers between `sem_wait` and their first `FreeConn` (`Borrowers`) are together as many as the connections, or more: each branch of `UserVerify` keeps the sum or raises it. So when the semaphore is 0 there is a borrower |
| `Log_proofs!TypeCorrect`, `PushCorrect` | `TypeOK`, `PushNeverBlocks` | `IInv`, the two together: only the holder of `Log::mtx_` pushes, so that room found by `full()` is still there |
| `LinesOnceCorrect`, `AsyncInOrderCorrect` | `LinesOnce`, `AsyncInOrder` | `LineInv`: file, the write thread's hand and the queue, read one after the other, hold every line that was numbered and is not pending, once, those of the queue in order |
| `NoLineSleepsCorrect`, `LinesMoveCorrect`, `ReaderAdvances` | behind `LinesWritten` | `AwakeInv`: the queue is empty while the write thread sleeps, and closed only when it is empty; then `Left` (a pop for each line in the queue, an `fputs` for each line) goes down with every step of the write thread and up with `push_back` only |
| `HttpConn_proofs!MakeSpaceCorrect`, `AppendCorrect`, `ReadFdCorrect`, `RetrieveCorrect` | | each operation is that of a queue of bytes, byte by byte, for every buffer, content and length |
| `TypeCorrect` | `TypeOK` | from the lemmas about `Buffer`: the positions of `readBuff_` stay in order, `RetrieveUntil` never passes `BeginWrite` (an assertion of the code), EPOLLIN is armed only with an empty `readBuff_` |
| `ResponsesInOrder` | `AnsweredInOrder` | `FlowInv`: of the messages of this client, all but the last have their response, and the last one is `Fresh` (being read or parsed: the buffer holds the rest of it from some line on, and `state_`, `method_`, `path_` are what the lines before that line say), `Done`, or `Refused` (no request line). Lemmas say what `NextLine` and the parser make of a line at each place of a message |
| `ParseShortensCorrect` | behind `ParseReturns` | `FirstLineType`: a line that ends is taken off the buffer with its end, and what is left is shorter; for every text, with no assumption on the messages |
| `LinksCorrect`, `NavbarCorrect` | `LinksNavigate`, `NavbarFollows` | the click handler's statements throw before `preventDefault`, in whatever order the scripts came; the bar's class was set by the last scroll event that was handled |
| `CoverCorrect`, `ClickBoundCorrect` | behind `PageUncovered` | `PageInv`: which callbacks are in jQuery's list follows from the scripts that came (`ArrivalInv`, `ReadyInv`), those of `custom.js` last; the one that throws ends the list before them |
| `RtspSession_proofs!RequestsAnsweredOnce` | `AnsweredOnce` | `ReadInv` (the parser has seen the lines of the last request before some line, and has its method, CSeq and port) and `ReplyInv` (there are as many replies as requests with an answer were handled, each belongs to its request) |
| `DescribedStreamsPlay` | `DescribedPlays` | `StoredInv`: file and ports of the object are those of the last DESCRIBE and SETUP that were handled |
| `StreamsGoToTheirClient` | `GoesToItsClient` | `ThreadInv`: as long as nothing came between (`calm`), a thread has read from the object what PLAY asked for; `AddressInv`: the address is the client's when no longer one was there before |
| `RtpStream_proofs!FragmentsCorrect` | | quotient and rest of the unit's length: fragments are full but for the last, abut, and end with the unit |
| `StreamCorrect`, `PacketsFollowCorrect` | `PacketsFollow` | `StreamInv`: the position is inside the file, since `find_next_start_code` returns the first code of those it looks at (`FirstCodeFound`), and `m_seq`, `m_timestamp` are those of the last packet |
| `StreamShortensCorrect` | | `StreamInv`: a frame begins with its start code, so that each round moves on by three bytes or more, inside the file, or leaves the loop |
| `StreamsUnitsCorrect` | `StreamsUnits` | `UnitInv`: as many frames were sent as start codes lie before the position, and what a receiver joins from the packets of the n-th time stamp is the n-th unit of the file. A frame goes from one code to the next (`FrameIsUnit`), every next code is found (`FoundIsCode`), fragments of one frame join to it (`AddFragment`) |

What is assumed. `ExclusiveOwnerCorrect`, `NoStaleTaskCorrect`,
`UserCountCorrect`, `ConnectionsCorrect`, `ResponsesNotMixedCorrect` and
`NeverForgottenCorrect` assume `~(TimeoutOn /\ SlowTasks)`: no task outlives its
client's timer, or there are no timers. `ResponsesNotMixedCorrect` and
`NeverForgottenCorrect` also assume `~AnyOpening` (a first message gets an
answer), and `NeverForgottenCorrect` assumes `ConnET` (edge-triggered
connections, as `main.cpp` configures). Without these they are false (section 6).
`AnsweredNotForgotten` does without `~AnyOpening`, and speaks only of clients that
have had a response. `TimerCovers` and `ListenDrained` need no such
assumption. `HeapOrdered`, `TickComplete`, `NextTickInTime` and `TableSpec`
speak of a clock that was not set back, `RegisteredOnce` of runs in which no
two registrations raced and none went by a misread result: these exceptions are
part of the properties. `ResponsesInOrder`
assumes `PlainMessages`: what the clients send are requests as a browser makes
them, or begins with something that is no request line; the three theorems of
`RtspSession_proofs` assume `OnlyRequests`: each message is a request line and
headers with a CSeq and at most one transport, which a SETUP has. Both say
nothing of how the network cuts and joins the messages, TLC checks both on the
instances of the runs, and without them the parsers' states do not end where the
next message begins. Responses and answers are compared as far as they are
remembered (`MaxReplies`). Among the named assumptions on the constants,
`RtspAssumption` has tokens of different kinds differ, and `HttpAssumption` has
the pages that `UserVerify` redirects to exist.

Induction over data. The library's induction theorems cannot be used, but
`WFMin` (a set with a well-founded relation has a minimal element) takes sets
only: `LeastIndex` and `LeastPosition` get from it that every set of naturals
that is not empty has a least element, and the arguments about the heap's root
and about the first start code rest on that. In `RtpStream_proofs` the same
argument shows that the recursive function by which a receiver joins packets
exists, and that the n-th start code has n - 1 before it.

Liveness. What holds under fairness is out of the prover's reach, and TLC alone
checks it: `GoneClientsClosed`, `BacklogServed`, `CallsReturn`,
`EveryTaskStarts`, `WorkersLeave`, `GetConnReturns`, `LinesWritten`,
`ParseReturns`, `ReadAgain`, `PageUncovered`. What the code itself contributes to
them is safety, and proved: that nobody sleeps who has something to do, that
who waits waits for somebody who will go on, that each step brings the end
nearer. The fairness of section 4 then does the rest.

| Property | What is proved of it |
|---|---|
| `GoneClientsClosed` | an open client has a timer (`OpenHasTimer`), and the loop does not sleep past it (`SleepsInTime`) |
| `BacklogServed` | who waits in the listen queue has an edge to come, or a limit was met (`ListenDrained`) |
| `CallsReturn` | `CallsShorten` |
| `EveryTaskStarts`, `WorkersLeave` | `NoTaskSleeps`, `DrainedOnExit` |
| `GetConnReturns` | no connection is lost (`ConnsComeBack`), and who waits at the semaphore waits for one that is in use (`WaitForSomebody`) |
| `LinesWritten` | `NoLineSleeps`; `LinesMove` and `ReaderAdvances` say that the write thread goes through the lines in their order |
| `ParseReturns` | `ParseShortens` |
| `PageUncovered` | the cover does not stay shown after `load` (`CoverLeaves`) |

`ReadAgain` has no such counterpart: it depends on what a client sends (section
6, HTTP). The definitions in this table that no run checks stand in the proof
modules; they were found with the help of TLC on the instances of section 3.
`TypeOK` of `WebServer`, `HeapTimer`, `ThreadPool`, `Log` and `HttpConn` is proved
and no part of a run.

## 6 Divergences

Findings, each with a run that shows it:

1. `sql_shared`, `http/httprequest.cpp:183`: the RAII object is a temporary; its
   connection is back in the pool while it is used, and is freed again at line
   235.
2. `log_exit`, `log/blockqueue.h:154`: `pop` tests `isClose_` only after a wait, so
   a write thread that is not waiting at the time of `Close()` sleeps for ever and
   `~Log` with it.

Behaviours of the code that the models contain, without a document of the
repository that says otherwise. The properties are stated so as to leave them
out, and the constants named here bring them back:

- Reactor. `SlowTasks = TRUE`: a timer closes a client under its worker, and
  `NoStaleTask`, `ExclusiveOwner`, `UserCountExact` and `ResponsesNotMixed` fail.
  `TimeoutOn = FALSE`: a write error closes nothing, so that `GoneClientsClosed`
  fails. `ConnET = FALSE`: `ServerConn::write` leaves its loop with up to 10240
  bytes unsent and nothing armed, so that `NeverForgotten` fails; the timer ends
  it. `AnyOpening = TRUE`: a first message that gets no answer makes `OnWrite_` use
  `iov_` as the constructor, or an earlier client, left it: `ResponsesNotMixed`
  fails, and so does `NeverForgotten`, since a `writev` on pointers never set
  fails with EFAULT and `OnWrite_` (`server/webserver.cpp:212`) then neither arms
  nor closes the descriptor, whose client has not had a response. At MAX_FD or at the descriptor limit `DealListen_` leaves clients in the
  listen queue until another one connects (`full`). A peer that goes away before
  `writev` raises SIGPIPE, which ends the process (`WritevPipe`).
- Timers. `GetNextTick` keeps the remaining time in a `size_t`, so that `res < 0`
  never holds: a timer that expires between `tick()` and this line
  (`timer/heaptimer.cpp:129`) gives `epoll_wait` a negative timeout, and stays until
  some other event comes (`LateTick = TRUE`, as in `ws_oneshot`). `NextTickInTime` lets
  that value pass. After the clock
  was set back (`back`), the heap order, `tick` and `GetNextTick` are no longer
  right. `siftup_` at the root reads before the array, and may fail an assertion,
  or stop there.
- Database. Two workers that are between SELECT and INSERT of one name at the same
  time both register it (`raced`). Two workers that use one connection at once
  (finding 1) may read each other's results: a taken name is then registered
  again (`misread`), a login goes by another user's row, a NULL result ends the
  process, or a worker waits for ever; memory that the library corrupts is not in
  the model. A registration whose INSERT failed
  is answered as a success; a connection that could not be opened stays in the
  pool as a null pointer and ends the process when it is handed out.
- Log. The capacity that `main.cpp` gives is not passed on to the queue
  (`log/log.cpp:52`), whose capacity is always the default. `flush` may use the
  file while another thread has closed it for rotation. A line that finds the
  queue full is written before the lines in it. For a line longer than the room in
  its buffer, `HasWritten` (`log/log.cpp:142`) moves the write position behind the
  end of the vector: not in the model.
- HTTP. A line that no CRLF follows stays in `readBuff_` and is parsed again after
  every response, as a request line: a form without CRLF is answered without end
  and the connection never reads again. A request line that does not parse gives
  404, not 400, because the empty path names a directory. Only a form
  in the same read as its header is seen. A worker that answers the first
  request of a connection may find `iov_` unset (`lost`).
- RTSP. `init` keeps the ports: a SETUP with `RTP/AVP` (without `/UDP`) gets the
  ports of an earlier one, also of an earlier client of the descriptor (`old`).
  Requests that arrive together are answered as one; a first line without a
  method is answered as OPTIONS; TEARDOWN and PAUSE get no answer and stop
  nothing. A DESCRIBE, a SETUP or a new client that comes before PLAY's thread
  has read the object changes what it streams, and where to (`calm`). A PLAY of
  a file that is not there, or before DESCRIBE, ends the server.
  `processRequest_Setup` has no return statement. Addresses are copied without
  their end, so that a longer one, or uninitialised memory (`Junk`), shows
  behind a shorter one.
- RTP. The last unit of a file is never sent; the FU start bit, and the end bit
  of a last fragment that is full, are set and then overwritten; the marker bit
  is never set, although `rtp/rtp.h:14` describes it; a packet may have 65494
  bytes of data, where `rtp/rtp.h:11` says 1460. `find_next_start_code`
  (`rtp/h264parser.cpp:55`) looks at up to three bytes past the file when the
  last frame is a start code and at most two bytes more. They are zero, and so
  the model has them (`At`), unless the size of the file is a multiple of the page
  size: then the read faults and ends the server, or finds another mapping. No
  property covers that.
- Page. Without the popup plugin, `magnific-popup-options.js:4` throws inside
  jQuery's ready list, and the click handler of `custom.js` is never bound. Without
  `jquery.js` or `custom.js` the cover stays. `$("/picture")` is no selector and
  throws before `preventDefault`, which is why every link works. The bar's class is
  wrong if the page was scrolled before `custom.js` ran, until the next scroll.
  A click does not close a menu that is still moving.

## 7 What is not modelled

- `main.cpp`, `config/`, `InitSocket_`: start-up; their values are constants here.
- `timer/codetimer`, `utils/groupsocketutils`, `src/test`, `src/webbench-1.5`: no
  shared state, or other programs. jQuery, Bootstrap, Magnific Popup and WOW are
  third-party; style sheets and media have no behaviour. `smoothscroll.js`'s
  animation and the popups have nothing on a page of the server that starts them.
- `HeapTimer::doWork` and `clear`, `SqlConnPool::ClosePool`, `BlockDeque`'s
  unused operations, re-initialisation of the log: nobody calls them while the
  server runs.
- `Buffer::WriteFd` has no caller. `writeBuff_` is counted in `WebServer`, not
  held as a `Buffer`; the log's buffer is not modelled.
- Texts: formatting, percent decoding, content types, SDP, dates. In `HttpConn` a
  token is longer than any two bytes the parser looks at together, and the
  network cuts between tokens only. Keep-alive is text only, since `OnWrite_` no
  longer asks for it. Files that are empty, or vanish between `stat` and `open`,
  are left out. RTSP's RTCP port, fixed array lengths and the tables that
  `operator[]` grows concurrently are left out.
- `RtpStream` leaves out sockets that cannot be opened (the process ends) and the
  wrap of the 32-bit time stamp.

## 8 Plan

Done: the modules, runs and theorems above. What could follow:

1. Compositions: `WebServer` over `TaskQueue` and `TimerTable` as instances, in
   place of its own queue and timer states.
2. The log's buffer as a `Buffer`, with lines longer than it.
