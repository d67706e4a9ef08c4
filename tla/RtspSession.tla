---------------------------- MODULE RtspSession ----------------------------
(***************************************************************************)
(* One connection object, users_[fd], that speaks RTSP: the requests of    *)
(* its clients, one after the other, RtspRequest::parse, RtspReponse, and  *)
(* the detached threads that PLAY starts and that read the object later.   *)
(*                                                                         *)
(* What such a thread sends, once it has its file, address and port, is    *)
(* RtpStream.                                                              *)
(*                                                                         *)
(* The text is a sequence of tokens: a start line, "cseq" followed by its  *)
(* value in the same token, a Transport line, "crlf".  m_protocolType is   *)
(* RTSP.  One step is one call, one line of parse's loop, or what a thread *)
(* does between two accesses to the object.                                *)
(***************************************************************************)
EXTENDS TextLines, FiniteSets

CONSTANTS
  Starts, StartOf,         \* start lines; the method and file of each
  Transports, TransportOf, \* Transport lines; the profile and port of each
  CSeqs,                   \* CSeq lines
  Messages,                \* requests, as texts
  Files,                   \* the files that can be opened and mapped
  Ips, Junk,               \* clients' addresses, uninitialised memory (both as texts)
  Threads,                 \* bound: threads that PLAY starts
  MaxClients, MaxMessages, MaxReplies \* bounds: clients, messages of each, replies to each

Methods == {"OPTIONS", "DESCRIBE", "SETUP", "PLAY", "TEARDOWN"}
Words == Starts \union Transports \union CSeqs \union {"crlf"}
Nothing == ""

ASSUME RtspAssumption ==
  /\ StartOf \in [Starts -> [method : Methods, file : STRING]]
  /\ TransportOf \in [Transports -> [udp : BOOLEAN, port : Nat \ {0}]]
  /\ Starts \intersect (Transports \union CSeqs) = {} /\ Transports \intersect CSeqs = {}
  /\ "crlf" \notin Starts \union Transports \union CSeqs
  /\ Messages \subseteq Seq(Words) /\ Files \subseteq STRING \ {Nothing}
  /\ Ips \in [1..MaxClients -> Seq(Nat)] /\ Junk \subseteq Seq(Nat)
  /\ MaxClients \in Nat \ {0} /\ MaxReplies \in Nat
  /\ MaxMessages \in [1..MaxClients -> Nat]

VARIABLES
  client, sent,               \* the client of the descriptor, its messages so far
  sock, buff, pc,             \* as in HttpConn
  method, cseq, suffix, askedPort,  \* RtspRequest; m_rtpPort, 0 when none was given
  filePath, ip, rtpPort,      \* RtspReponse
  replies,                    \* to this client
  thread,                     \* each thread of PLAY
  abort,                      \* "file": H264Parser's assertion failed; "return": a
                              \* function had none
  clean, got,                 \* history: each read brought one whole message; this
                              \* client's messages
  calm, old                   \* history: the object is as PLAY left it for a thread;
                              \* an earlier client had a SETUP

reqVars == <<method, cseq, suffix, askedPort>>
respVars == <<filePath, ip, rtpPort>>
histVars == <<clean, got, calm, old>>
vars == <<client, sent, sock, buff, pc, reqVars, respVars, replies, thread, abort,
          histVars>>

NewThread ==
  [at |-> "none", file |-> Nothing, ip |-> << >>, port |-> 0,
   want |-> [client |-> 0, file |-> Nothing, port |-> 0]]

\* memcpy of a text without its end: what was there shows behind a shorter one.
Copy(new, there) == new \o SubSeq(there, Len(new) + 1, Len(there))
IpOf(c) == Ips[c]

Init ==
  /\ client = 1 /\ sent = 0
  /\ sock = << >> /\ buff = << >> /\ pc = "in"
  /\ method = Nothing /\ cseq = Nothing /\ suffix = Nothing /\ askedPort = 0
  /\ filePath = Nothing /\ rtpPort = 0
  /\ \E j \in Junk : ip = Copy(IpOf(1), j)
  /\ replies = << >>
  /\ thread = [t \in Threads |-> NewThread]
  /\ abort = "no"
  /\ clean = TRUE /\ got = << >> /\ calm = [t \in Threads |-> TRUE] /\ old = FALSE
-----------------------------------------------------------------------------
(* The clients. *)

\* Bound: once a read was not one whole message, nothing more is sent.
Send ==
  /\ sent < MaxMessages[client] /\ clean /\ sent' = sent + 1
  /\ \E m \in Messages : sock' = sock \o m
  /\ UNCHANGED <<client, buff, pc, reqVars, respVars, replies, thread, abort, histVars>>

\* The client goes; accept() gives its descriptor, and with it the object, to
\* another one.  ServerConn::init empties the buffers and copies the address.
NewClient ==
  /\ pc \in {"in", "out"} /\ client < MaxClients
  /\ client' = client + 1 /\ sent' = 0
  /\ sock' = << >> /\ buff' = << >> /\ pc' = "in"
  /\ ip' = Copy(IpOf(client'), ip)
  /\ replies' = << >> /\ clean' = clean /\ got' = << >>
  /\ calm' = [t \in Threads |-> FALSE] /\ old' = (old \/ askedPort # 0)
  /\ UNCHANGED <<reqVars, filePath, rtpPort, thread, abort>>

Read ==
  /\ pc = "in"
  /\ \E k \in 1..Len(sock) :
       LET segment == SubSeq(sock, 1, k) IN
       /\ buff' = buff \o segment
       /\ sock' = SubSeq(sock, k + 1, Len(sock))
       /\ clean' = (clean /\ buff = << >> /\ segment \in Messages)
       /\ got' = IF clean' THEN Append(got, segment) ELSE got
  /\ pc' = "process"
  /\ UNCHANGED <<client, sent, reqVars, respVars, replies, thread, abort, calm, old>>
-----------------------------------------------------------------------------
(* RtspRequest. *)

Line == FirstLine(buff)
Has(words) == \E w \in words : Contains(Line, w)
In(words) == CHOOSE w \in words : Contains(Line, w)

\* ServerConn::process, RtspRequest::init (which keeps the ports), and the
\* search for a method in the first line.
Process ==
  /\ pc = "process"
  /\ IF buff = << >>
       THEN pc' = "in" /\ UNCHANGED reqVars
       ELSE /\ pc' = "parse"
            /\ method' = IF Has(Starts) THEN StartOf[In(Starts)].method ELSE Nothing
            /\ cseq' = Nothing /\ suffix' = Nothing /\ askedPort' = askedPort
  /\ UNCHANGED <<client, sent, sock, buff, respVars, replies, thread, abort, histVars>>

\* processRequest_Common: the URL of a start line, or the sequence number.
Common ==
  /\ Has(Starts \union CSeqs)
  /\ suffix' = IF Has(Starts) THEN StartOf[In(Starts)].file ELSE suffix
  /\ cseq' = IF Has(Starts) THEN cseq ELSE In(CSeqs)
  /\ UNCHANGED <<askedPort, abort>>

\* Mutant: the ports of an earlier SETUP are always kept.
SetupKeepsPort ==
  /\ ~Has(Starts \union CSeqs) /\ method = "SETUP" /\ Has(Transports)
  /\ askedPort' = IF askedPort = 0 THEN TransportOf[In(Transports)].port ELSE askedPort
  /\ abort' = abort /\ UNCHANGED <<suffix, cseq>>

\* processRequest_Setup.  "RTP/AVP" is looked for only while no port is known.
\* The function ends without a return statement: undefined behaviour, which
\* the optimiser may have turned into anything.
Setup ==
  /\ ~Has(Starts \union CSeqs) /\ method = "SETUP" /\ Has(Transports)
  /\ LET t == TransportOf[In(Transports)] IN
     askedPort' = IF t.udp \/ askedPort = 0 THEN t.port ELSE askedPort
  /\ abort' \in {"no", "return"}
  /\ UNCHANGED <<suffix, cseq>>

OtherLine ==
  /\ ~Has(Starts \union CSeqs) /\ ~(method = "SETUP" /\ Has(Transports))
  /\ UNCHANGED <<suffix, cseq, askedPort, abort>>

\* RtspRequest::parse goes through everything that is buffered.
Parse ==
  /\ pc = "parse" /\ buff # << >>
  /\ Common \/ Setup \/ OtherLine
  /\ IF Unended(buff) THEN pc' = "respond" /\ UNCHANGED buff
                      ELSE buff' = NextLines(buff) /\ UNCHANGED pc
  /\ method' = method
  /\ UNCHANGED <<client, sent, sock, respVars, replies, thread, histVars>>

ParseEnd ==
  /\ pc = "parse" /\ buff = << >> /\ pc' = "respond"
  /\ UNCHANGED <<client, sent, sock, buff, reqVars, respVars, replies, thread, abort,
                 histVars>>
-----------------------------------------------------------------------------
(* RtspReponse::makeResponeStr. *)

Reply(m) ==
  LET r == [method |-> m, cseq |-> cseq, port |-> IF m = "SETUP" THEN askedPort ELSE 0]
  IN replies' = IF Len(replies) < MaxReplies THEN Append(replies, r) ELSE replies

\* A text without a method is found in the table as its first entry.
Options ==
  /\ method \in {"OPTIONS", Nothing}
  /\ Reply("OPTIONS") /\ UNCHANGED <<respVars, thread, calm>>

\* Mutant: the path is answered but not stored.
DescribeReplyOnly ==
  /\ method = "DESCRIBE" /\ Reply("DESCRIBE")
  /\ calm' = [t \in Threads |-> FALSE]
  /\ UNCHANGED <<respVars, thread>>

Describe ==
  /\ method = "DESCRIBE" /\ Reply("DESCRIBE")
  /\ filePath' = suffix
  /\ calm' = [t \in Threads |-> FALSE]
  /\ UNCHANGED <<ip, rtpPort, thread>>

\* Mutant: the port is answered but not stored.
SetupReplyOnly ==
  /\ method = "SETUP" /\ Reply("SETUP")
  /\ calm' = [t \in Threads |-> FALSE]
  /\ UNCHANGED <<respVars, thread>>

SetupReply ==
  /\ method = "SETUP" /\ Reply("SETUP")
  /\ rtpPort' = askedPort
  /\ calm' = [t \in Threads |-> FALSE]
  /\ UNCHANGED <<filePath, ip, thread>>

\* What this client's messages, each read whole, say of its stream.
MethodOf(m) == StartOf[m[1]].method
PortOf(m) == TransportOf[CHOOSE w \in Transports : Contains(m, w)].port
IsUdp(m) == TransportOf[CHOOSE w \in Transports : Contains(m, w)].udp
Which(meth) == {k \in 1..Len(got) : MethodOf(got[k]) = meth}
Latest(S) == CHOOSE k \in S : \A l \in S : l <= k
\* The k-th message is a SETUP that names its port in a way the code takes up.
Settled(k) == IsUdp(got[k]) \/ (~old /\ \A l \in Which("SETUP") : k <= l)
Want ==
  LET described == Which("DESCRIBE")
      setups == Which("SETUP")
  IN [client |-> client,
      file |-> IF clean /\ described # {} THEN StartOf[got[Latest(described)][1]].file
                                        ELSE Nothing,
      port |-> IF clean /\ setups # {} /\ Settled(Latest(setups))
                 THEN PortOf(got[Latest(setups)]) ELSE 0]

Free == {t \in Threads : thread[t].at = "none"}

\* The thread gets nothing but a pointer to the object.
Play ==
  /\ method = "PLAY" /\ Reply("PLAY")
  /\ IF Free = {} THEN UNCHANGED <<thread, calm>>
     ELSE LET t == CHOOSE u \in Free : TRUE IN
          /\ thread' = [thread EXCEPT ![t].at = "spawned", ![t].want = Want]
          /\ calm' = [calm EXCEPT ![t] = TRUE]
  /\ UNCHANGED respVars

\* The other methods are answered by no byte.
NoReply ==
  /\ method \notin {"OPTIONS", "DESCRIBE", "SETUP", "PLAY", Nothing}
  /\ UNCHANGED <<replies, respVars, thread, calm>>

Respond ==
  /\ pc = "respond" /\ pc' = "out"
  /\ Options \/ Describe \/ SetupReply \/ Play \/ NoReply
  /\ UNCHANGED <<client, sent, sock, buff, reqVars, abort, clean, got, old>>

Written ==
  /\ pc = "out" /\ pc' = "process"
  /\ UNCHANGED <<client, sent, sock, buff, reqVars, respVars, replies, thread, abort,
                 histVars>>

Serve == Process \/ Parse \/ ParseEnd \/ Respond \/ Written
-----------------------------------------------------------------------------
(* sendRTPPacket, in a thread of its own. *)

\* H264Parser's constructor asserts that the file can be opened and mapped.
OpenFile(t) ==
  /\ thread[t].at = "spawned"
  /\ IF filePath \in Files
       THEN thread' = [thread EXCEPT ![t].at = "opened", ![t].file = filePath] /\ abort' = abort
       ELSE abort' = "file" /\ thread' = thread

\* RTP::init copies the address into uninitialised memory.
InitRtp(t) ==
  /\ thread[t].at = "opened"
  /\ \E j \in Junk :
       thread' = [thread EXCEPT ![t].at = "addressed", ![t].ip = Copy(ip, j)]
  /\ abort' = abort

\* setPort refuses 0, and sendRTPPacket goes on.
SetPort(t) ==
  /\ thread[t].at = "addressed"
  /\ thread' = [thread EXCEPT ![t].at = "streaming", ![t].port = rtpPort]
  /\ abort' = abort

ThreadStep(t) ==
  /\ OpenFile(t) \/ InitRtp(t) \/ SetPort(t)
  /\ UNCHANGED <<client, sent, sock, buff, pc, reqVars, respVars, replies, histVars>>

Next ==
  /\ abort = "no"
  /\ Send \/ NewClient \/ Read \/ Serve \/ \E t \in Threads : ThreadStep(t)

Spec == Init /\ [][Next]_vars
-----------------------------------------------------------------------------
(* Properties. *)

\* A request: a start line and header lines, among them a CSeq, and in a SETUP
\* one Transport; each line has its end.
IsRequest(m) ==
  /\ Len(m) >= 2 /\ m[1] \in Starts /\ m[Len(m)] = "crlf"
  /\ \A k \in 2..Len(m) : m[k] \notin Starts /\ "crlf" \in {m[k - 1], m[k]}
  /\ \E k \in 2..Len(m) : m[k] \in CSeqs
  /\ \A k, l \in 2..Len(m) : {m[k], m[l]} \subseteq Transports => k = l
  /\ MethodOf(m) = "SETUP" => \E k \in 2..Len(m) : m[k] \in Transports

\* What the clients send are requests, which TCP may cut or join.
OnlyRequests == \A m \in Messages : IsRequest(m)

\* As long as each read brings one whole request, every request that has an
\* answer gets one, with its own method and CSeq, in order, as far as answers
\* are remembered; and a SETUP is answered with its own port if it says
\* RTP/AVP/UDP or is the first on this connection object
\* (rtsprequest.cpp:220-226).
AnsweredOnce ==
  LET answerable == {k \in 1..Len(got) : MethodOf(got[k]) # "TEARDOWN"}
      place(k) == Cardinality({l \in answerable : l <= k})
  IN clean =>
       /\ Len(replies) <= Cardinality(answerable)
       /\ pc = "in" /\ Len(replies) < MaxReplies => Len(replies) = Cardinality(answerable)
       /\ \A k \in answerable :
            place(k) <= Len(replies) =>
              LET r == replies[place(k)] IN
              /\ r.method = MethodOf(got[k]) /\ Contains(got[k], r.cseq)
              /\ r.method = "SETUP" /\ Settled(k) => r.port = PortOf(got[k])

\* The thread of a PLAY reads the object after the answer: when no DESCRIBE,
\* SETUP or new client came between, it streams what the client described to
\* the port the client set up, at the client's address, unless memory that was
\* not clean, or a longer address of an earlier client, shows behind it.
GoesToItsClient ==
  \A t \in Threads :
    LET want == thread[t].want
        clear == Junk = {<< >>} /\ \A c \in 1..want.client :
                                    Len(IpOf(c)) <= Len(IpOf(want.client))
    IN thread[t].at = "streaming" /\ calm[t] =>
         /\ want.file # Nothing => thread[t].file = want.file
         /\ want.port # 0 => thread[t].port = want.port
         /\ clear => thread[t].ip = IpOf(want.client)

\* A PLAY ends the server only without a file: never when its client had
\* described a file that exists, and nothing came between (rtspresponse.cpp:73,
\* h264parser.cpp:8).
DescribedPlays ==
  abort = "file" =>
    \E t \in Threads :
      thread[t].at = "spawned" /\ ~(calm[t] /\ thread[t].want.file \in Files)
=============================================================================
