------------------------------ MODULE HttpConn ------------------------------
(***************************************************************************)
(* One HTTP connection object and its clients, one after the other: what   *)
(* ServerConn::process, HttpRequest::parse and HttpResponse make of the    *)
(* bytes that arrive, however TCP cuts them and however often readBuff_    *)
(* has to be moved or to grow.                                             *)
(*                                                                         *)
(* The text is a sequence of tokens: the first half of a request line (its *)
(* method and path), "http" (its other half), "header" (text with a        *)
(* colon), "text" (without colon or space: a form), "junk" (with spaces)   *)
(* and "crlf".  One step is one call, or one line of parse's loop.  A       *)
(* client that speaks RTSP is RtspSession's.                               *)
(***************************************************************************)
EXTENDS TextLines, Buffer

CONSTANTS
  Starts,       \* first halves of request lines
  Target,       \* the method and path of each
  FileOf,       \* what stat() says of each path under srcDir
  Messages,     \* what clients send
  Unset,        \* what m_protocolType may hold before the first request
  MaxClients,   \* bound: clients that get the connection object, one after the other
  MaxMessages,  \* bound: messages of each client
  MaxReplies    \* bound: replies that are remembered

Least(m, n) == IF m < n THEN m ELSE n

Words == {"http", "header", "text", "junk", "crlf"}
Tokens == Starts \union Words
Paths == DOMAIN FileOf
Verified == {"/welcome.html", "/error.html"}
ErrorPage(code) == CASE code = 400 -> "/400.html" [] code = 403 -> "/403.html"
                     [] code = 404 -> "/404.html"

ErrorPages == {"/400.html", "/403.html", "/404.html"}

ASSUME HttpAssumption ==
  /\ Starts \intersect Words = {}
  /\ Target \in [Starts -> [method : {"GET", "POST"}, path : Paths]]
  /\ FileOf \in [Paths -> {"file", "none", "dir", "private"}]
  /\ Verified \union {"", "/index.html", "/login.html", "/register.html"} \subseteq Paths
  /\ FileOf[""] = "dir" /\ \A p \in Verified : FileOf[p] = "file"
  /\ Unset \subseteq {"HTTP", "other"}
  /\ Messages \subseteq Seq(Tokens) /\ MaxClients \in Nat \ {0} /\ MaxReplies \in Nat
  /\ MaxMessages \in [1..MaxClients -> Nat]

Response == [code : {200, 400, 403, 404}, path : Paths \union ErrorPages]

VARIABLES
  client, sent,        \* the client of the descriptor, its messages so far
  sock,                \* bytes in the kernel's buffer
  readBuff,            \* readBuff_
  pc,                  \* "in": EPOLLIN is armed, "out": EPOLLOUT, "lost": neither
                       \* will be again, or the code that runs
  proto,               \* m_protocolType; no constructor and no init sets it
  state,               \* state_ of request_
  method, path, typed, \* method_, path_, the Content-Type header was seen
  ok,                  \* the result of parse
  iovSet,              \* some response has set iov_
  replies,             \* the responses to this client, as [code, path of the file sent]
  segment, clean, got  \* history: what this read brought; each read of this client
                       \* brought one whole message; these messages

reqVars == <<state, method, path, typed, ok>>
histVars == <<segment, clean, got>>
clientVars == <<client, sent, sock>>
vars == <<clientVars, readBuff, pc, proto, reqVars, iovSet, replies, histVars>>

Init ==
  /\ client = 1 /\ sent = 0 /\ sock = << >> /\ readBuff = NewBuffer /\ pc = "in"
  /\ proto \in Unset
  /\ state = "REQUEST_LINE" /\ method = "" /\ path = "" /\ typed = FALSE /\ ok = FALSE
  /\ iovSet = FALSE /\ replies = << >>
  /\ segment = << >> /\ clean = TRUE /\ got = << >>
-----------------------------------------------------------------------------
Send ==
  /\ sent < MaxMessages[client] /\ sent' = sent + 1
  /\ \E m \in Messages : sock' = sock \o m
  /\ UNCHANGED <<client, readBuff, pc, proto, reqVars, iovSet, replies, histVars>>

\* The connection is closed, by its client or by its timer, and accept() gives
\* its descriptor to another client: ServerConn::init empties the buffer and
\* keeps the rest of the object.
NewClient ==
  /\ pc \in {"in", "out", "lost"} /\ client < MaxClients
  /\ client' = client + 1 /\ sent' = 0 /\ sock' = << >>
  /\ readBuff' = RetrieveAll(readBuff) /\ pc' = "in"
  /\ replies' = << >>
  /\ segment' = << >> /\ clean' = TRUE /\ got' = << >>
  /\ UNCHANGED <<proto, reqVars, iovSet>>

buff == Unread(readBuff)

\* OnRead_ and ServerConn::read: ReadFd until nothing has arrived.  TCP may cut
\* the stream anywhere, and more may arrive between two calls.
Read ==
  /\ pc \in {"in", "read"} /\ pc' = "read"
  /\ \E k \in 1..Least(Len(sock), ReadLimit(readBuff)) :
       /\ readBuff' = ReadFd(readBuff, SubSeq(sock, 1, k))
       /\ sock' = SubSeq(sock, k + 1, Len(sock))
       /\ segment' = segment \o SubSeq(sock, 1, k)
  /\ UNCHANGED <<client, sent, proto, reqVars, iovSet, replies, clean, got>>

\* EAGAIN, or in level-triggered mode the end of the only call.
ReadEnd ==
  /\ pc = "read" /\ pc' = "process"
  /\ segment' = << >> /\ clean' = (clean /\ segment \in Messages)
  /\ got' = IF clean' THEN Append(got, segment) ELSE got
  /\ UNCHANGED <<clientVars, readBuff, proto, reqVars, iovSet, replies>>

Line == FirstLine(buff)
LastLine == Unended(buff)

\* Mutant: Init forgets state_.
InitKeepsState == method' = "" /\ path' = "" /\ typed' = FALSE /\ UNCHANGED <<state, ok>>

\* HttpRequest::Init.
InitRequest ==
  state' = "REQUEST_LINE" /\ method' = "" /\ path' = "" /\ typed' = FALSE /\ ok' = ok

\* ServerConn::process, called after a read and when a response was written.
\* The first line that names HTTP decides for the rest of the connection;
\* without one the value that was in memory does, and may get no answer.
Process ==
  /\ pc = "process"
  /\ IF buff = << >>
       THEN pc' = "in" /\ UNCHANGED <<proto, reqVars>>
       ELSE /\ proto' = IF Contains(Line, "http") THEN "HTTP" ELSE proto
            /\ IF proto' = "HTTP" THEN pc' = "parse" /\ InitRequest
                                  ELSE pc' = "out" /\ UNCHANGED reqVars
  /\ UNCHANGED <<clientVars, readBuff, iovSet, replies, histVars>>
-----------------------------------------------------------------------------
(* HttpRequest::parse.                                                      *)

\* The expression for a request line: its method may begin with the rest of
\* an earlier message, when that has no space.
IsRequestLine(line) ==
  LET n == Len(line) IN
  /\ n >= 2 /\ line[n] = "http" /\ line[n - 1] \in Starts
  /\ \A k \in 1..(n - 2) : line[k] = "text"

ParseRequestLine_ ==
  LET start == Target[Line[Len(Line) - 1]]
      ParsePath_ == CASE start.path = "/" -> "/index.html"
                      [] start.path = "/login" -> "/login.html"
                      [] start.path = "/register" -> "/register.html"
                      [] OTHER -> start.path
  IN
  /\ method' = IF Len(Line) = 2 THEN start.method ELSE "other"
  /\ path' = ParsePath_
  /\ state' = "HEADERS" /\ typed' = typed

\* A line without a colon ends the headers; so does an empty line at the end
\* of what has arrived, and then there is no body.
ParseHeader_ ==
  /\ typed' = (typed \/ Contains(Line, "header"))
  /\ state' = IF buff = <<"crlf">> THEN "FINISH"
              ELSE IF Contains(Line, "header") THEN "HEADERS" ELSE "BODY"
  /\ UNCHANGED <<method, path>>

\* ParsePost_ with UserVerify's answer.
ParseBody_ ==
  /\ path' \in IF method = "POST" /\ typed /\ path \in {"/login.html", "/register.html"}
                 THEN Verified ELSE {path}
  /\ state' = "FINISH"
  /\ UNCHANGED <<method, typed>>

\* buff.RetrieveUntil(lineEnd + 2)
RetrieveLine == readBuff' = Retrieve(readBuff, Len(Line) + 1)

\* Mutant: a last line without its end does not leave the loop.
NextLineStays ==
  /\ IF LastLine THEN UNCHANGED readBuff ELSE RetrieveLine
  /\ pc' = "parse" /\ UNCHANGED ok

\* A line that has no end yet is left in the buffer, and parse returns true.
NextLine ==
  IF LastLine THEN pc' = "respond" /\ ok' = TRUE /\ UNCHANGED readBuff
              ELSE /\ RetrieveLine
                   /\ UNCHANGED <<pc, ok>>

ParseEnd ==
  /\ buff = << >> \/ state = "FINISH"
  /\ pc' = "respond" /\ ok' = TRUE
  /\ UNCHANGED <<readBuff, state, method, path, typed>>

\* "return false": nothing is taken from the buffer.
ParseFails ==
  /\ buff # << >> /\ state = "REQUEST_LINE" /\ ~IsRequestLine(Line)
  /\ pc' = "respond" /\ ok' = FALSE
  /\ UNCHANGED <<readBuff, state, method, path, typed>>

ParseLine ==
  /\ buff # << >>
  /\ \/ state = "REQUEST_LINE" /\ IsRequestLine(Line) /\ ParseRequestLine_
     \/ state = "HEADERS" /\ ParseHeader_
     \/ state = "BODY" /\ ParseBody_
  /\ NextLine

Parse ==
  /\ pc = "parse"
  /\ ParseEnd \/ ParseFails \/ ParseLine
  /\ UNCHANGED <<clientVars, proto, iovSet, replies, histVars>>
-----------------------------------------------------------------------------
(* HttpResponse.  parse fails at the request line only, when path_ is empty: *)
(* srcDir + "" is a directory.                                               *)

Code(p) == CASE FileOf[p] \in {"none", "dir"} -> 404
             [] FileOf[p] = "private" -> 403
             [] OTHER -> IF ok THEN 200 ELSE 400

MakeResponse ==
  LET code == Code(path) IN
  [code |-> code, path |-> IF code = 200 THEN path ELSE ErrorPage(code)]

Respond ==
  /\ pc = "respond"
  /\ replies' = IF Len(replies) < MaxReplies THEN Append(replies, MakeResponse) ELSE replies
  /\ pc' = "out" /\ iovSet' = TRUE
  /\ UNCHANGED <<clientVars, readBuff, proto, reqVars, histVars>>

\* OnWrite_ has sent everything and calls OnProcess, keep-alive or not.
\* Before the first response of this object iov_ was never set: writev may
\* fail, and then nothing is armed again.
Written ==
  /\ pc = "out"
  /\ pc' \in {"process"} \union (IF ~iovSet THEN {"lost"} ELSE {})
  /\ UNCHANGED <<clientVars, readBuff, proto, reqVars, iovSet, replies, histVars>>

Serve == ReadEnd \/ Process \/ Parse \/ Respond \/ Written

Next == Send \/ NewClient \/ Read \/ Serve

Spec == Init /\ [][Next]_vars

\* The workers go on, and the client reads its responses.
FairSpec == Spec /\ WF_vars(Serve)
-----------------------------------------------------------------------------
(* Properties. *)

\* Types; and a connection that waits for input has nothing left in readBuff_.
TypeOK ==
  /\ client \in 1..MaxClients /\ sent \in Nat /\ sock \in Seq(Tokens)
  /\ iovSet \in BOOLEAN /\ readBuff \in Buffers(Tokens \union {Zero})
  /\ pc \in {"in", "read", "process", "parse", "respond", "out", "lost"}
  /\ proto \in {"HTTP", "other"}
  /\ state \in {"REQUEST_LINE", "HEADERS", "BODY", "FINISH"}
  /\ method \in {"", "GET", "POST", "other"} /\ path \in Paths
  /\ typed \in BOOLEAN /\ ok \in BOOLEAN
  /\ replies \in Seq(Response)
  /\ segment \in Seq(Tokens) /\ clean \in BOOLEAN /\ got \in Seq(Messages)
  /\ pc = "in" => buff = << >>

\* What a message that arrives alone has to be answered with.
Page(p) == CASE p = "/" -> "/index.html" [] p = "/login" -> "/login.html"
             [] p = "/register" -> "/register.html" [] OTHER -> p
WellFormed(m) == Len(m) >= 2 /\ m[1] \in Starts /\ m[2] = "http"
HasForm(m) == \E k \in 1..Len(m) : m[k] = "text"
Expected(m) ==
  IF ~WellFormed(m) THEN {[code |-> 404, path |-> "/404.html"]}
  ELSE LET p == Page(Target[m[1]].path) IN
       IF /\ Target[m[1]].method = "POST" /\ HasForm(m)
          /\ p \in {"/login.html", "/register.html"}
         THEN {[code |-> 200, path |-> q] : q \in Verified}
       ELSE IF FileOf[p] = "file" THEN {[code |-> 200, path |-> p]}
       ELSE IF FileOf[p] = "private" THEN {[code |-> 403, path |-> "/403.html"]}
       ELSE {[code |-> 404, path |-> "/404.html"]}

\* A message that parse consumes to its last byte.
Consumed(m) == WellFormed(m) /\ m[Len(m)] = "crlf"

\* What a browser sends: a request line, header lines, an empty line, whose end
\* is at e, and maybe a form, for which there are headers.
EmptyLineAt(m, e) ==
  /\ \A k \in 4..(e - 1) : m[k] = IF m[k - 1] = "crlf" THEN "header" ELSE "crlf"
  /\ m[e - 1] = "crlf" /\ m[e] = "crlf"
  /\ e < Len(m) => /\ e > 4 /\ m[e + 1] = "text"
                   /\ Len(m) = e + 1 \/ (Len(m) = e + 2 /\ m[e + 2] = "crlf")
FromBrowser(m) == WellFormed(m) /\ m[3] = "crlf" /\ \E e \in 4..Len(m) : EmptyLineAt(m, e)
NoRequest(m) == ~WellFormed(m) /\ ~IsRequestLine(FirstLine(m))

\* Clients send requests of browsers, or lines that are no request.
PlainMessages == \A m \in Messages : FromBrowser(m) \/ NoRequest(m)

\* As long as each read brings one whole message, the k-th response answers
\* the k-th message and no other (httprequest.cpp:30-65): nothing of an
\* earlier request, its state, its path or its form, shows in a later one.
\* Responses are counted as far as they are remembered.
AnsweredInOrder ==
  clean =>
    /\ \A k \in 1..Len(got) : k <= Len(replies) => replies[k] \in Expected(got[k])
    /\ (\A k \in 1..Len(got) : Consumed(got[k])) => Len(replies) <= Len(got)
    /\ pc = "in" /\ Len(replies) < MaxReplies => Len(replies) = Len(got)

\* parse ends, wherever the stream is cut: no state waits in the loop for a
\* line that has not arrived.
ParseReturns == (pc = "parse") ~> (pc = "respond")

\* When whole messages are consumed to the end, the connection goes back to
\* EPOLLIN after each response.
ReadAgain ==
  (clean /\ \A k \in 1..Len(got) : Consumed(got[k])) /\ pc = "process" ~> (pc = "in")
=============================================================================
