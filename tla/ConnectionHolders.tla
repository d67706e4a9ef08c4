------------------------- MODULE ConnectionHolders -------------------------
(* The reactor implements Connections: who holds a client, read off the      *)
(* registrations, the batch of events, the queue and the threads.            *)
EXTENDS WebServer

\* The main thread runs CloseConn_ on fd: it alone calls epoll_wait, so that a
\* registration it has not yet deleted gives the client to nobody.
Closing(fd) == pc[Main] \in ClosePcs /\ job[Main].fd = fd

Holders(fd) ==
  {p \in {"epoll"} : Armed(fd) /\ ~Closing(fd)}
    \union {p \in {"loop"} : sock[fd] # 0 /\ (InBatch(fd) \/ Closing(fd))}
    \union {p \in {"queue"} : Queued(fd)}
    \union {w \in Workers : Working(w, fd)}

Conns == INSTANCE Connections
           WITH conn <- sock, opened <- serial, holders <- [fd \in Fds |-> Holders(fd)]

\* The reactor does what Connections allows: a client passes from epoll to the
\* loop, to the queue, to one worker and back, only its holder closes it, and
\* nobody is left with a descriptor that was closed (webserver.cpp:80-111).
ConnSpec == Conns!Spec
=============================================================================
