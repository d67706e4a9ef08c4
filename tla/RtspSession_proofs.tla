------------------------- MODULE RtspSession_proofs -------------------------
(***************************************************************************)
(* Proofs about RtspSession, for any requests, clients, threads and bounds: *)
(* what parse makes of one whole request, and what that means for the       *)
(* answers and for the stream that a PLAY starts.                           *)
(***************************************************************************)
EXTENDS RtspSession, FiniteSetTheorems, SequenceTheorems, WellFoundedInduction, TLAPS

\* The types that the proofs need; the buffers hold any text.
Names == STRING \union {Nothing}
ReplyType == [method : Methods, cseq : CSeqs \union {Nothing}, port : Nat]
ThreadType ==
  [at : {"none", "spawned", "opened", "addressed", "streaming"}, file : Names,
   ip : Seq(Nat), port : Nat, want : [client : Nat, file : Names, port : Nat]]

TypeInv ==
  /\ client \in 1..MaxClients /\ ip \in Seq(Nat)
  /\ filePath \in Names /\ suffix \in Names /\ rtpPort \in Nat /\ askedPort \in Nat
  /\ method \in Methods \union {Nothing} /\ cseq \in CSeqs \union {Nothing}
  /\ replies \in Seq(ReplyType) /\ got \in Seq(Messages)
  /\ thread \in [Threads -> ThreadType] /\ calm \in [Threads -> BOOLEAN]
  /\ clean \in BOOLEAN /\ old \in BOOLEAN

\* Of this client's messages, the last one may still be in hand.
Busy == pc \in {"parse", "respond"} \/ (pc = "process" /\ buff # << >>)
Handled == IF Busy THEN Len(got) - 1 ELSE Len(got)
Current == got[Len(got)]

OfMethod(meth, n) == {k \in 1..n : MethodOf(got[k]) = meth}
LastOf(meth, n) == {k \in OfMethod(meth, n) : \A l \in OfMethod(meth, n) : l <= k}

\* What parse knows once it has gone through Current up to its i-th token.
Seen(words, i) == \E k \in 1..(i - 1) : Current[k] \in words
Parsed(i) ==
  /\ method = MethodOf(Current)
  /\ i > 1 => suffix = StartOf[Current[1]].file
  /\ Seen(CSeqs, i) => Contains(Current, cseq)
  /\ IF method = "SETUP" /\ Seen(Transports, i)
       THEN Settled(Len(got)) => askedPort = PortOf(Current)
       ELSE ~old /\ OfMethod("SETUP", Len(got) - 1) = {} => askedPort = 0

\* Where a connection is with its last message.
ReadInv ==
  clean =>
    /\ Busy => Len(got) >= 1
    /\ pc \in {"in", "out"} => buff = << >>
    /\ pc = "process" => buff \in {<< >>, Current}
    /\ pc = "parse" => \E i \in 1..(Len(Current) + 1) :
                         buff = SubSeq(Current, i, Len(Current)) /\ Parsed(i)
    /\ pc = "respond" => buff = << >> /\ Parsed(Len(Current) + 1)
    /\ ~old /\ pc \notin {"parse", "respond"} /\ OfMethod("SETUP", Handled) = {} =>
         askedPort = 0

\* The replies belong to the messages that have been handled.
Answerable(n) == {k \in 1..n : MethodOf(got[k]) # "TEARDOWN"}
Count(n) == Cardinality(Answerable(n))
Answers(r, k) ==
  /\ r.method = MethodOf(got[k]) /\ Contains(got[k], r.cseq)
  /\ r.method = "SETUP" /\ Settled(k) => r.port = PortOf(got[k])

ReplyInv ==
  clean =>
    /\ Len(replies) = IF Count(Handled) <= MaxReplies THEN Count(Handled) ELSE MaxReplies
    /\ \A k \in Answerable(Handled) :
         Count(k) <= Len(replies) => Answers(replies[Count(k)], k)

\* The object holds what the last DESCRIBE and the last SETUP said.
StoredInv ==
  clean =>
    /\ \A k \in LastOf("DESCRIBE", Handled) : filePath = StartOf[got[k][1]].file
    /\ \A k \in LastOf("SETUP", Handled) : Settled(k) => rtpPort = PortOf(got[k])

\* The address is this client's, when no longer one was there before.
AddressInv ==
  Junk = {<< >>} =>
    /\ \E c \in 1..client : Len(ip) <= Len(IpOf(c))
    /\ (\A c \in 1..client : Len(IpOf(c)) <= Len(IpOf(client))) => ip = IpOf(client)

\* A thread has what the object still holds, while nothing came between.
Holds(t) ==
  calm[t] /\ thread[t].at # "none" =>
    /\ thread[t].want.client = client
    /\ thread[t].want.file # Nothing => filePath = thread[t].want.file
    /\ thread[t].want.port # 0 => rtpPort = thread[t].want.port
    /\ thread[t].at # "spawned" => thread[t].file = filePath
    /\ thread[t].at \in {"addressed", "streaming"} =>
         \E j \in Junk : thread[t].ip = Copy(ip, j)
    /\ thread[t].at = "streaming" => thread[t].port = rtpPort
ThreadInv == \A t \in Threads : Holds(t)

IInv == TypeInv /\ ReadInv /\ ReplyInv /\ StoredInv /\ AddressInv /\ ThreadInv /\ DescribedPlays
-----------------------------------------------------------------------------
(* Numbers and lines. *)

\* A set of indexes that is not empty has a greatest one, and Latest is it.
LEMMA LatestIsGreatest ==
  ASSUME NEW n \in Nat, NEW S \in SUBSET (1..n), S # {}
  PROVE  Latest(S) \in S /\ \A l \in S : l <= Latest(S)
<1> DEFINE T == {x \in Nat : \A l \in S : l <= x}
<1>1. T \subseteq Nat /\ n \in T
  OBVIOUS
<1>2. \E x \in T : \A y \in T : x <= y
  <2>1. \E x \in T : \A y \in T : ~(<<y, x>> \in OpToRel(<, Nat))
    BY <1>1, NatLessThanWellFounded, WFMin
  <2>2. \A a, b \in Nat : <<b, a>> \in OpToRel(<, Nat) <=> b < a
    BY DEF OpToRel
  <2>3. \A a, b \in Nat : ~(b < a) => a <= b
    OBVIOUS
  <2> QED  BY <1>1, <2>1, <2>2, <2>3
<1>3. PICK x \in T : \A y \in T : x <= y
  BY <1>2
<1>4. x \in S
  <2> SUFFICES ASSUME x \notin S PROVE FALSE
    OBVIOUS
  <2>1. PICK l \in S : TRUE
    OBVIOUS
  <2>2. x \in Nat /\ l <= x /\ l >= 1
    OBVIOUS
  <2>3. x - 1 \in T
    BY <2>2
  <2> QED  BY <1>3, <2>2, <2>3
<1>5. \E k \in S : \A l \in S : l <= k
  BY <1>4
<1> QED  BY <1>5 DEF Latest

\* A line without CRLF before one that is behind p tokens.
LEMMA FirstLineAt ==
  ASSUME NEW T, NEW s \in Seq(T), NEW p \in 0..(Len(s) - 1),
         s[p + 1] = "crlf", \A l \in 1..p : s[l] # "crlf"
  PROVE  /\ FirstLine(s) = SubSeq(s, 1, p) /\ Len(FirstLine(s)) = p
         /\ NextLines(s) = SubSeq(s, p + 2, Len(s)) /\ ~Unended(s)
<1> DEFINE first(k) == \A l \in 1..k : s[l] # "crlf"
           m == CHOOSE k \in 0..Len(s) : first(k) /\ (k < Len(s) => ~first(k + 1))
<1>1. Len(s) \in Nat /\ p \in Nat /\ p < Len(s)
  OBVIOUS
<1>2. first(p) /\ ~first(p + 1)
  BY <1>1
<1>3. \A k \in 0..Len(s) : first(k) /\ (k < Len(s) => ~first(k + 1)) => k = p
  <2> SUFFICES ASSUME NEW k \in 0..Len(s), first(k), k < Len(s) => ~first(k + 1)
               PROVE  k = p
    OBVIOUS
  <2>1. k <= p
    BY <1>1
  <2>2. ~(k < p)
    BY <1>1, <1>2
  <2> QED  BY <1>1, <2>1, <2>2
<1>4. m = p
  BY <1>1, <1>2, <1>3
<1>5. FirstLine(s) = SubSeq(s, 1, m)
  BY DEF FirstLine
<1> HIDE DEF m
<1>6. FirstLine(s) = SubSeq(s, 1, p) /\ Len(FirstLine(s)) = p
  BY <1>1, <1>4, <1>5
<1>7. ~Unended(s)
  BY <1>1 DEF Unended, Contains
<1> QED  BY <1>6, <1>7 DEF NextLines

\* The lines of a request are one token each: what parse takes from its rest.
LEMMA LineOfRequest ==
  ASSUME NEW m \in Seq(Words), IsRequest(m), NEW i \in 1..Len(m)
  PROVE  LET s == SubSeq(m, i, Len(m)) IN
         /\ s # << >> /\ ~Unended(s)
         /\ \/ m[i] = "crlf" /\ NextLines(s) = SubSeq(m, i + 1, Len(m))
               /\ \A w : ~Contains(FirstLine(s), w)
            \/ /\ m[i] # "crlf" /\ i + 1 \in 1..Len(m) /\ m[i + 1] = "crlf"
               /\ NextLines(s) = SubSeq(m, i + 2, Len(m))
               /\ \A w : Contains(FirstLine(s), w) <=> w = m[i]
<1> DEFINE s == SubSeq(m, i, Len(m))
<1>1. /\ Len(m) \in Nat /\ i \in Nat /\ s \in Seq(Words) /\ Len(s) = Len(m) - i + 1
      /\ \A j \in 1..Len(s) : s[j] = m[i + j - 1]
  OBVIOUS
<1>2. Len(s) # 0 /\ s # << >>
  <2>1. Len(s) # 0
    BY <1>1
  <2> HIDE DEF s
  <2> QED  BY <2>1
<1> HIDE DEF s
<1>3. CASE m[i] = "crlf"
  <2>1. 0 \in 0..(Len(s) - 1) /\ s[0 + 1] = "crlf" /\ \A l \in 1..0 : s[l] # "crlf"
    BY <1>1, <1>3
  <2>2. /\ Len(FirstLine(s)) = 0 /\ ~Unended(s) /\ NextLines(s) = SubSeq(s, 2, Len(s))
    BY <1>1, <2>1, FirstLineAt
  <2>3. SubSeq(s, 2, Len(s)) = SubSeq(m, i + 1, Len(m))
    BY <1>1 DEF s
  <2>4. \A w : ~Contains(FirstLine(s), w)
    BY <2>2 DEF Contains
  <2> QED  BY <1>2, <1>3, <2>2, <2>3, <2>4 DEF s
<1>4. CASE m[i] # "crlf"
  <2>1. i + 1 \in 2..Len(m) /\ m[i + 1] = "crlf"
    <3>1. i # Len(m)
      BY <1>4 DEF IsRequest
    <3>2. i + 1 \in 2..Len(m) /\ (i + 1) - 1 = i
      BY <1>1, <3>1
    <3> QED  BY <1>4, <3>2 DEF IsRequest
  <2>2. 1 \in 0..(Len(s) - 1) /\ s[1] = m[i] /\ s[1 + 1] = "crlf"
    BY <1>1, <2>1
  <2>3. \A l \in 1..1 : s[l] # "crlf"
    BY <1>4, <2>2
  <2>4. /\ FirstLine(s) = SubSeq(s, 1, 1) /\ Len(FirstLine(s)) = 1 /\ ~Unended(s)
        /\ NextLines(s) = SubSeq(s, 3, Len(s))
    <3>1. 1 + 2 = 3
      OBVIOUS
    <3> QED  BY <1>1, <2>2, <2>3, <3>1, FirstLineAt
  <2>5. SubSeq(s, 3, Len(s)) = SubSeq(m, i + 2, Len(m))
    BY <1>1, <2>1 DEF s
  <2>6. \A w : Contains(FirstLine(s), w) <=> w = m[i]
    <3>1. FirstLine(s)[1] = s[1]
      BY <1>1, <2>4, <2>2
    <3> QED  BY <2>2, <2>4, <3>1 DEF Contains
  <2> QED  BY <1>2, <1>4, <2>1, <2>4, <2>5, <2>6 DEF s
<1> QED  BY <1>3, <1>4

\* memcpy of an address: what was there shows only behind a shorter one.
LEMMA CopyCorrect ==
  ASSUME NEW new \in Seq(Nat), NEW there \in Seq(Nat)
  PROVE  /\ Copy(new, there) \in Seq(Nat)
         /\ Len(Copy(new, there)) = IF Len(there) <= Len(new) THEN Len(new) ELSE Len(there)
         /\ Len(there) <= Len(new) => Copy(new, there) = new
<1> DEFINE tail == SubSeq(there, Len(new) + 1, Len(there))
<1>1. /\ tail \in Seq(Nat)
      /\ Len(tail) = IF Len(there) <= Len(new) THEN 0 ELSE Len(there) - Len(new)
  OBVIOUS
<1>2. Len(there) <= Len(new) => tail = << >>
  OBVIOUS
<1> HIDE DEF tail
<1>3. new \o tail \in Seq(Nat) /\ Len(new \o tail) = Len(new) + Len(tail)
  BY <1>1, ConcatProperties
<1>4. new \o << >> = new
  OBVIOUS
<1>5. Copy(new, there) = new \o tail
  BY DEF Copy, tail
<1> QED  BY <1>1, <1>2, <1>3, <1>4, <1>5

\* What the clients' descriptor and the message in hand are.
LEMMA ConstantTypes ==
  /\ MaxClients \in Nat \ {0} /\ MaxReplies \in Nat
  /\ \A c \in 1..MaxClients : IpOf(c) \in Seq(Nat)
  /\ \A j \in Junk : j \in Seq(Nat)
  /\ \A x \in Starts : StartOf[x].method \in Methods /\ StartOf[x].file \in Names
  /\ \A x \in Transports : TransportOf[x].udp \in BOOLEAN
                           /\ TransportOf[x].port \in Nat /\ TransportOf[x].port # 0
BY RtspAssumption DEF IpOf, Names

\* A word of some kinds that the line has.
LEMMA InLine == ASSUME NEW words, Has(words) PROVE In(words) \in words /\ Contains(Line, In(words))
BY DEF Has, In
-----------------------------------------------------------------------------
(* Types. *)

\* The initial state.
LEMMA InitType == Init => TypeInv
<1> SUFFICES ASSUME Init PROVE TypeInv
  OBVIOUS
<1>1. client \in 1..MaxClients
  BY ConstantTypes DEF Init
<1>2. ip \in Seq(Nat)
  <2>1. PICK j \in Junk : ip = Copy(IpOf(1), j)
    BY DEF Init
  <2>2. IpOf(1) \in Seq(Nat) /\ j \in Seq(Nat)
    BY ConstantTypes
  <2> QED  BY <2>1, <2>2, CopyCorrect
<1>3. NewThread \in ThreadType
  <2>1. << >> \in Seq(Nat)
    OBVIOUS
  <2> DEFINE want == [client |-> 0, file |-> Nothing, port |-> 0]
  <2>2. want \in [client : Nat, file : Names, port : Nat] /\ Nothing \in Names
    BY DEF Names
  <2>3. NewThread = [at |-> "none", file |-> Nothing, ip |-> << >>, port |-> 0, want |-> want]
    BY DEF NewThread
  <2> HIDE DEF want
  <2> QED  BY <2>1, <2>2, <2>3 DEF ThreadType
<1>4. thread \in [Threads -> ThreadType] /\ calm \in [Threads -> BOOLEAN]
  <2> HIDE DEF NewThread, ThreadType
  <2> QED  BY <1>3 DEF Init
<1>5. << >> \in Seq(ReplyType) /\ << >> \in Seq(Messages)
  OBVIOUS
<1>6. replies \in Seq(ReplyType) /\ got \in Seq(Messages)
  BY <1>5 DEF Init
<1>7. filePath \in Names /\ suffix \in Names /\ rtpPort \in Nat /\ askedPort \in Nat
      /\ method = Nothing /\ cseq = Nothing /\ clean \in BOOLEAN /\ old \in BOOLEAN
  BY DEF Init, Names
<1> QED  BY <1>1, <1>2, <1>4, <1>6, <1>7 DEF TypeInv

\* Appending a reply.
LEMMA ReplyTyped ==
  ASSUME TypeInv, NEW m \in Methods, Reply(m)
  PROVE  replies' \in Seq(ReplyType)
<1> DEFINE r == [method |-> m, cseq |-> cseq, port |-> IF m = "SETUP" THEN askedPort ELSE 0]
<1>1. r \in ReplyType /\ replies \in Seq(ReplyType)
  BY DEF TypeInv, ReplyType
<1>2. replies' = IF Len(replies) < MaxReplies THEN Append(replies, r) ELSE replies
  BY DEF Reply
<1> HIDE DEF r
<1> QED  BY <1>1, <1>2

\* What a PLAY gives its thread to be compared with.
LEMMA WantTyped ==
  ASSUME TypeInv, OnlyRequests
  PROVE  Want \in [client : Nat, file : Names, port : Nat]
<1>1. got \in Seq(Messages) /\ Len(got) \in Nat /\ client \in Nat
  BY ConstantTypes DEF TypeInv
<1>2. \A k \in 1..Len(got) : IsRequest(got[k]) /\ got[k] \in Seq(Words)
  BY <1>1, RtspAssumption DEF OnlyRequests
<1>3. ASSUME NEW meth, Which(meth) # {}
      PROVE  Latest(Which(meth)) \in 1..Len(got) /\ MethodOf(got[Latest(Which(meth))]) = meth
  <2>1. Which(meth) \in SUBSET (1..Len(got))
    BY DEF Which
  <2>2. Latest(Which(meth)) \in Which(meth)
    BY <1>1, <1>3, <2>1, LatestIsGreatest
  <2> QED  BY <2>2 DEF Which
<1>4. ASSUME NEW m \in Seq(Words), IsRequest(m), MethodOf(m) = "SETUP" PROVE PortOf(m) \in Nat
  <2>1. \E w \in Transports : Contains(m, w)
    BY <1>4 DEF IsRequest, Contains
  <2> QED  BY <2>1, ConstantTypes DEF PortOf
<1>5. Which("DESCRIBE") # {} => StartOf[got[Latest(Which("DESCRIBE"))][1]].file \in Names
  BY <1>2, <1>3, ConstantTypes DEF IsRequest
<1>6. Which("SETUP") # {} => PortOf(got[Latest(Which("SETUP"))]) \in Nat
  BY <1>2, <1>3, <1>4
<1> DEFINE described == Which("DESCRIBE")
           setups == Which("SETUP")
           file == IF clean /\ described # {} THEN StartOf[got[Latest(described)][1]].file
                                             ELSE Nothing
           port == IF clean /\ setups # {} /\ Settled(Latest(setups))
                     THEN PortOf(got[Latest(setups)]) ELSE 0
<1>7. file \in Names /\ port \in Nat
  <2>1. Nothing \in Names /\ 0 \in Nat
    BY DEF Names
  <2>2. file \in Names
    BY <1>5, <2>1, Zenon
  <2>3. port \in Nat
    BY <1>6, <2>1, Zenon
  <2> QED  BY <2>2, <2>3
<1>8. Want = [client |-> client, file |-> file, port |-> port]
  BY DEF Want
<1> HIDE DEF file, port
<1> QED  BY <1>1, <1>7, <1>8

\* A step of the clients, or a read.
LEMMA ClientType == ASSUME TypeInv, Send \/ NewClient \/ Read PROVE TypeInv'
<1>1. CASE Send
  BY <1>1 DEF Send, TypeInv, reqVars, respVars, histVars
<1>2. CASE NewClient
  <2>1. client' \in 1..MaxClients /\ client' = client + 1
    <3>1. client \in 1..MaxClients /\ client < MaxClients /\ client' = client + 1
      BY <1>2 DEF NewClient, TypeInv
    <3> QED  BY <3>1, ConstantTypes
  <2>2. ip' \in Seq(Nat)
    <3>1. IpOf(client') \in Seq(Nat) /\ ip \in Seq(Nat) /\ ip' = Copy(IpOf(client'), ip)
      BY <1>2, <2>1, ConstantTypes DEF NewClient, TypeInv
    <3> QED  BY <3>1, CopyCorrect
  <2>3. replies' \in Seq(ReplyType) /\ got' \in Seq(Messages)
    BY <1>2 DEF NewClient
  <2>4. calm' \in [Threads -> BOOLEAN] /\ old' \in BOOLEAN /\ clean' = clean
    BY <1>2 DEF NewClient, TypeInv
  <2>5. UNCHANGED <<reqVars, filePath, rtpPort, thread>>
    BY <1>2 DEF NewClient
  <2> QED  BY <2>1, <2>2, <2>3, <2>4, <2>5 DEF TypeInv, reqVars
<1>3. CASE Read
  <2>1. PICK k \in 1..Len(sock) :
          LET segment == SubSeq(sock, 1, k) IN
          /\ clean' = (clean /\ buff = << >> /\ segment \in Messages)
          /\ got' = IF clean' THEN Append(got, segment) ELSE got
    BY <1>3 DEF Read
  <2>2. clean' \in BOOLEAN /\ (clean' => SubSeq(sock, 1, k) \in Messages)
    BY <2>1 DEF TypeInv
  <2>3. got' \in Seq(Messages)
    <3>1. CASE clean'
      <4>1. got' = Append(got, SubSeq(sock, 1, k)) /\ SubSeq(sock, 1, k) \in Messages
        BY <2>1, <2>2, <3>1
      <4> HIDE <2>1
      <4>2. got \in Seq(Messages)
        BY DEF TypeInv
      <4> QED  BY <4>1, <4>2, AppendProperties
    <3>2. CASE ~clean'
      BY <2>1, <3>2 DEF TypeInv
    <3> QED  BY <3>1, <3>2
  <2>4. UNCHANGED <<client, reqVars, respVars, replies, thread, calm, old>>
    BY <1>3 DEF Read
  <2> QED  BY <2>2, <2>3, <2>4 DEF TypeInv, reqVars, respVars
<1> QED  BY <1>1, <1>2, <1>3

\* RtspRequest.
LEMMA RequestType == ASSUME TypeInv, Process \/ Parse \/ ParseEnd PROVE TypeInv'
<1>1. CASE Process
  <2>1. /\ method' \in Methods \union {Nothing} /\ cseq' \in CSeqs \union {Nothing}
        /\ suffix' \in Names /\ askedPort' \in Nat
    <3>1. Has(Starts) => In(Starts) \in Starts
      BY InLine
    <3>2. Has(Starts) => StartOf[In(Starts)].method \in Methods
      BY <3>1, ConstantTypes
    <3> QED  BY <1>1, <3>2 DEF Process, TypeInv, reqVars, Names
  <2> QED  BY <1>1, <2>1 DEF Process, TypeInv, respVars, histVars
<1>2. CASE Parse
  <2>1. cseq' \in CSeqs \union {Nothing} /\ suffix' \in Names /\ askedPort' \in Nat
    <3>1. CASE Common
      <4>1. ~Has(Starts) => Has(CSeqs)
        BY <3>1 DEF Common, Has
      <4>2. (Has(Starts) => In(Starts) \in Starts) /\ (Has(CSeqs) => In(CSeqs) \in CSeqs)
        BY InLine
      <4>3. Has(Starts) => StartOf[In(Starts)].file \in Names
        BY <4>2, ConstantTypes
      <4> QED  BY <3>1, <4>1, <4>2, <4>3 DEF Common, TypeInv
    <3>2. CASE Setup
      <4>1. In(Transports) \in Transports
        BY <3>2, InLine DEF Setup
      <4>2. TransportOf[In(Transports)].port \in Nat
        BY <4>1, ConstantTypes
      <4> QED  BY <3>2, <4>2 DEF Setup, TypeInv
    <3>3. CASE OtherLine
      BY <3>3 DEF OtherLine, TypeInv
    <3> QED  BY <1>2, <3>1, <3>2, <3>3 DEF Parse
  <2> QED  BY <1>2, <2>1 DEF Parse, TypeInv, respVars, histVars
<1>3. CASE ParseEnd
  BY <1>3 DEF ParseEnd, TypeInv, reqVars, respVars, histVars
<1> QED  BY <1>1, <1>2, <1>3

\* The thread that a PLAY starts.
LEMMA PlayType ==
  ASSUME TypeInv, OnlyRequests, Play
  PROVE  thread' \in [Threads -> ThreadType] /\ calm' \in [Threads -> BOOLEAN]
<1>1. CASE Free = {}
  BY <1>1 DEF Play, TypeInv
<1>2. CASE Free # {}
  <2>1. PICK t \in Threads :
          /\ thread' = [thread EXCEPT ![t].at = "spawned", ![t].want = Want]
          /\ calm' = [calm EXCEPT ![t] = TRUE]
    BY <1>2 DEF Play, Free
  <2>2. Want \in [client : Nat, file : Names, port : Nat]
    BY WantTyped
  <2>3. thread \in [Threads -> ThreadType] /\ calm \in [Threads -> BOOLEAN]
    BY DEF TypeInv
  <2>4. calm' \in [Threads -> BOOLEAN]
    BY <2>1, <2>3
  <2>5. ASSUME NEW want \in [client : Nat, file : Names, port : Nat],
               thread' = [thread EXCEPT ![t].at = "spawned", ![t].want = want]
        PROVE  thread' \in [Threads -> ThreadType]
    <3>1. \A th \in ThreadType :
            [th EXCEPT !.at = "spawned", !.want = want] \in ThreadType
      BY DEF ThreadType
    <3>2. thread' = [thread EXCEPT ![t] = [thread[t] EXCEPT !.at = "spawned", !.want = want]]
      BY <2>5
    <3>3. t \in Threads /\ thread \in [Threads -> ThreadType]
      BY <2>1, <2>3
    <3>4. [thread[t] EXCEPT !.at = "spawned", !.want = want] \in ThreadType
      BY <3>1, <3>3
    <3> HIDE <2>5
    <3> QED  BY <3>2, <3>3, <3>4
  <2> QED  BY <2>1, <2>2, <2>4, <2>5
<1> QED  BY <1>1, <1>2

\* RtspReponse.
LEMMA ResponseType == ASSUME TypeInv, OnlyRequests, Respond \/ Written PROVE TypeInv'
<1>1. CASE Respond
  <2>1. UNCHANGED <<client, reqVars, clean, got, old>>
    BY <1>1 DEF Respond
  <2>2. /\ replies' \in Seq(ReplyType) /\ filePath' \in Names /\ rtpPort' \in Nat
        /\ ip' \in Seq(Nat)
        /\ thread' \in [Threads -> ThreadType] /\ calm' \in [Threads -> BOOLEAN]
    <3>1. CASE Options
      BY <3>1, ReplyTyped DEF Options, TypeInv, respVars, Methods
    <3>2. CASE Describe
      BY <3>2, ReplyTyped DEF Describe, TypeInv, Methods
    <3>3. CASE SetupReply
      BY <3>3, ReplyTyped DEF SetupReply, TypeInv, Methods
    <3>4. CASE Play
      BY <3>4, ReplyTyped, PlayType DEF Play, TypeInv, respVars, Methods
    <3>5. CASE NoReply
      BY <3>5 DEF NoReply, TypeInv, respVars
    <3> QED  BY <1>1, <3>1, <3>2, <3>3, <3>4, <3>5 DEF Respond
  <2> QED  BY <2>1, <2>2 DEF TypeInv, reqVars
<1>2. CASE Written
  BY <1>2 DEF Written, TypeInv, reqVars, respVars, histVars
<1> QED  BY <1>1, <1>2

\* A thread of a PLAY.
LEMMA ThreadStepType == ASSUME TypeInv, NEW t \in Threads, ThreadStep(t) PROVE TypeInv'
<1>1. thread' \in [Threads -> ThreadType]
  <2>1. thread \in [Threads -> ThreadType] /\ ip \in Seq(Nat) /\ filePath \in Names /\ rtpPort \in Nat
    BY DEF TypeInv
  <2>2. CASE OpenFile(t)
    <3>1. thread' = [thread EXCEPT ![t].at = "opened", ![t].file = filePath]
          \/ thread' = thread
      BY <2>2 DEF OpenFile
    <3>2. \A th \in ThreadType, f \in Names :
            [th EXCEPT !.at = "opened", !.file = f] \in ThreadType
      BY DEF ThreadType
    <3>3. /\ thread[t] \in ThreadType
          /\ \/ thread' = [thread EXCEPT ![t] = [thread[t] EXCEPT !.at = "opened", !.file = filePath]]
             \/ thread' = thread
      BY <2>1, <3>1
    <3> QED  BY <2>1, <3>2, <3>3
  <2>3. CASE InitRtp(t)
    <3>1. PICK j \in Junk :
            thread' = [thread EXCEPT ![t].at = "addressed", ![t].ip = Copy(ip, j)]
      BY <2>3 DEF InitRtp
    <3>2. Copy(ip, j) \in Seq(Nat)
      BY <2>1, ConstantTypes, CopyCorrect
    <3> QED  BY <2>1, <3>1, <3>2 DEF ThreadType
  <2>4. CASE SetPort(t)
    BY <2>1, <2>4 DEF SetPort, ThreadType
  <2> QED  BY <2>2, <2>3, <2>4 DEF ThreadStep
<1> QED  BY <1>1 DEF ThreadStep, TypeInv, reqVars, respVars, histVars

\* Every step keeps the types.
LEMMA StepType == ASSUME TypeInv, OnlyRequests, [Next]_vars PROVE TypeInv'
<1>1. CASE UNCHANGED vars
  BY <1>1 DEF vars, TypeInv, reqVars, respVars, histVars
<1> QED  BY <1>1, ClientType, RequestType, ResponseType, ThreadStepType DEF Next, Serve
-----------------------------------------------------------------------------
(* What parse makes of one whole request. *)

\* Every message that was read whole is a request.
LEMMA GotRequests ==
  ASSUME TypeInv, OnlyRequests
  PROVE  /\ got \in Seq(Messages) /\ Len(got) \in Nat
         /\ \A k \in 1..Len(got) : got[k] \in Seq(Words) /\ IsRequest(got[k])
<1>1. got \in Seq(Messages) /\ Len(got) \in Nat
  BY DEF TypeInv
<1> QED  BY <1>1, RtspAssumption DEF OnlyRequests

\* A step that leaves the messages alone leaves alone what is said of them.
LEMMA SameMessages ==
  ASSUME UNCHANGED <<got, old>>
  PROVE  /\ Current' = Current
         /\ \A meth, n : OfMethod(meth, n)' = OfMethod(meth, n)
         /\ \A meth, n : LastOf(meth, n)' = LastOf(meth, n)
         /\ \A n : Answerable(n)' = Answerable(n) /\ Count(n)' = Count(n)
         /\ \A k : Settled(k)' <=> Settled(k)
         /\ \A words, i : Seen(words, i)' <=> Seen(words, i)
BY DEF Current, OfMethod, LastOf, MethodOf, Answerable, Count, Settled, Which, IsUdp, Seen

\* Nor does a new message change what is said of those before it.
LEMMA NewMessage ==
  ASSUME got \in Seq(Messages), NEW m \in Messages, got' = Append(got, m), old' = old
  PROVE  /\ Current' = m /\ Len(got') = Len(got) + 1 /\ Len(got) \in Nat
         /\ \A k \in 1..Len(got) : got'[k] = got[k] /\ (Settled(k)' <=> Settled(k))
         /\ \A meth : \A n \in 0..Len(got) : /\ OfMethod(meth, n)' = OfMethod(meth, n)
                                             /\ LastOf(meth, n)' = LastOf(meth, n)
         /\ \A n \in 0..Len(got) : Answerable(n)' = Answerable(n) /\ Count(n)' = Count(n)
<1>1. /\ Len(got) \in Nat /\ Len(got') = Len(got) + 1 /\ got'[Len(got) + 1] = m
      /\ \A k \in 1..Len(got) : got'[k] = got[k]
  <2>1. Len(got) \in Nat
    OBVIOUS
  <2> QED  BY <2>1, AppendProperties
<1>2. ASSUME NEW meth, NEW n \in 0..Len(got) PROVE OfMethod(meth, n)' = OfMethod(meth, n)
  <2>1. \A k \in 1..n : k \in 1..Len(got) /\ MethodOf(got[k])' = MethodOf(got[k])
    BY <1>1 DEF MethodOf
  <2> QED  BY <2>1 DEF OfMethod
<1>3. \A n \in 0..Len(got) : Answerable(n)' = Answerable(n)
  <2>1. \A k \in 1..Len(got) : MethodOf(got[k])' = MethodOf(got[k])
    BY <1>1 DEF MethodOf
  <2>2. \A n \in 0..Len(got) : \A k \in 1..n : k \in 1..Len(got)
    BY <1>1
  <2> QED  BY <2>1, <2>2 DEF Answerable
<1>4. ASSUME NEW k \in 1..Len(got) PROVE Settled(k)' <=> Settled(k)
  <2>1. IsUdp(got[k])' <=> IsUdp(got[k])
    BY <1>1 DEF IsUdp
  <2>2. (\A l \in Which("SETUP") : k <= l)' <=> (\A l \in Which("SETUP") : k <= l)
    <3>1. \A l \in 1..Len(got) : MethodOf(got[l])' = MethodOf(got[l])
      BY <1>1 DEF MethodOf
    <3>2. \A l \in 1..Len(got') : l \in 1..Len(got) \/ k <= l
      BY <1>1
    <3>3. 1..Len(got) \subseteq 1..Len(got')
      BY <1>1
    <3>4. /\ Which("SETUP") = {l \in 1..Len(got) : MethodOf(got[l]) = "SETUP"}
          /\ Which("SETUP")' = {l \in 1..Len(got') : MethodOf(got[l])' = "SETUP"}
      BY DEF Which, MethodOf
    <3> QED  BY <3>1, <3>2, <3>3, <3>4
  <2> QED  BY <2>1, <2>2 DEF Settled
<1> QED  BY <1>1, <1>2, <1>3, <1>4 DEF Current, LastOf, Count

\* Going on by a line goes on by its token.
LEMMA SeenNext ==
  ASSUME Len(Current) \in Nat, NEW words, "crlf" \notin words, NEW i \in 1..Len(Current)
  PROVE  /\ ~Seen(words, 1)
         /\ Seen(words, i + 1) <=> Seen(words, i) \/ Current[i] \in words
         /\ Current[i + 1] = "crlf" =>
              (Seen(words, i + 2) <=> Seen(words, i) \/ Current[i] \in words)
<1>1. (i + 1) - 1 = i /\ (i + 2) - 1 = i + 1 /\ i \in Nat /\ i >= 1
  OBVIOUS
<1>2. 1..i = 1..(i - 1) \union {i} /\ 1..(i + 1) = 1..(i - 1) \union {i, i + 1}
  BY <1>1
<1>3. 1..(1 - 1) = {}
  OBVIOUS
<1> QED  BY <1>1, <1>2, <1>3 DEF Seen

\* A message names one port.
LEMMA OneTransport ==
  ASSUME NEW m \in Seq(Words), IsRequest(m), NEW i \in 1..Len(m), m[i] \in Transports
  PROVE  /\ PortOf(m) = TransportOf[m[i]].port /\ IsUdp(m) = TransportOf[m[i]].udp
         /\ \A k \in 1..Len(m) : m[k] \in Transports => k = i
<1>1. m[1] \notin Transports
  BY RtspAssumption DEF IsRequest
<1>2. \A k \in 1..Len(m) : k = 1 \/ k \in 2..Len(m)
  OBVIOUS
<1>3. \A k \in 1..Len(m) : m[k] \in Transports => k = i
  BY <1>1, <1>2 DEF IsRequest
<1>4. (CHOOSE w \in Transports : Contains(m, w)) = m[i]
  BY <1>3 DEF Contains
<1> QED  BY <1>3, <1>4 DEF PortOf, IsUdp

\* One line further into a request.
LEMMA ParsedNext ==
  ASSUME TypeInv, OnlyRequests, Len(got) >= 1, pc = "parse", Parse,
         NEW i \in 1..Len(Current), buff = SubSeq(Current, i, Len(Current)), Parsed(i)
  PROVE  /\ pc' = "parse"
         /\ \E j \in 1..(Len(Current) + 1) : /\ buff' = SubSeq(Current, j, Len(Current))
                                             /\ Parsed(j)'
<1> DEFINE m == Current
<1>1. m \in Seq(Words) /\ IsRequest(m) /\ Len(m) \in Nat /\ m[1] \in Starts
  <2>1. Len(got) \in 1..Len(got)
    BY GotRequests
  <2>2. m \in Seq(Words) /\ IsRequest(m)
    BY <2>1, GotRequests DEF Current
  <2> QED  BY <2>2 DEF IsRequest
<1>2. /\ \A w \in Starts : w \notin Transports /\ w \notin CSeqs /\ w # "crlf"
      /\ \A w \in Transports : w \notin CSeqs /\ w # "crlf"
      /\ "crlf" \notin Starts /\ "crlf" \notin CSeqs /\ "crlf" \notin Transports
  BY RtspAssumption
<1>3. UNCHANGED <<got, old, method>>
  BY DEF Parse, histVars
<1> HIDE DEF m
<1>4. m = Current /\ i \in 1..Len(m)
  BY DEF m
<1>5. /\ m' = m /\ \A words, k : Seen(words, k)' <=> Seen(words, k)
      /\ \A meth, n : OfMethod(meth, n)' = OfMethod(meth, n)
      /\ \A k : Settled(k)' <=> Settled(k)
  BY <1>3, SameMessages DEF m
<1>6. /\ buff # << >> /\ ~Unended(buff)
      /\ \/ m[i] = "crlf" /\ NextLines(buff) = SubSeq(m, i + 1, Len(m))
            /\ \A w : ~Contains(Line, w)
         \/ /\ m[i] # "crlf" /\ i + 1 \in 1..Len(m) /\ m[i + 1] = "crlf"
            /\ NextLines(buff) = SubSeq(m, i + 2, Len(m))
            /\ \A w : Contains(Line, w) <=> w = m[i]
  BY <1>1, <1>4, LineOfRequest DEF Line
<1>7. pc' = "parse" /\ buff' = NextLines(buff)
  BY <1>6 DEF Parse
<1>8. /\ ~Seen(CSeqs, 1) /\ ~Seen(Transports, 1)
      /\ \A words \in {CSeqs, Transports} :
           /\ Seen(words, i + 1) <=> Seen(words, i) \/ m[i] \in words
           /\ m[i + 1] = "crlf" => (Seen(words, i + 2) <=> Seen(words, i) \/ m[i] \in words)
  BY <1>1, <1>2, <1>4, SeenNext
<1>9. CASE m[i] = "crlf"
  <2>1. NextLines(buff) = SubSeq(m, i + 1, Len(m)) /\ \A words : ~Has(words)
    BY <1>6, <1>9 DEF Has
  <2>2. UNCHANGED <<suffix, cseq, askedPort>>
    BY <2>1 DEF Parse, Common, Setup, OtherLine
  <2>3. i # 1 /\ i > 1
    BY <1>1, <1>2, <1>9
  <2>4. /\ Seen(CSeqs, i + 1) <=> Seen(CSeqs, i)
        /\ Seen(Transports, i + 1) <=> Seen(Transports, i)
    BY <1>2, <1>8, <1>9
  <2>5. Parsed(i + 1)'
    <3>1. /\ method' = method /\ suffix' = suffix /\ cseq' = cseq /\ askedPort' = askedPort
          /\ old' = old /\ got' = got /\ Current' = Current
      BY <1>3, <1>4, <1>5, <2>2 DEF m
    <3> QED  BY <1>5, <2>3, <2>4, <3>1 DEF Parsed, MethodOf, PortOf
  <2>6. i + 1 \in 1..(Len(m) + 1)
    BY <1>1, <1>4
  <2> QED  BY <1>4, <1>7, <2>1, <2>5, <2>6
<1>10. CASE m[i] # "crlf"
  <2>1. /\ NextLines(buff) = SubSeq(m, i + 2, Len(m)) /\ m[i + 1] = "crlf"
        /\ i + 2 \in 1..(Len(m) + 1) /\ i + 2 > 1
        /\ \A w : Contains(Line, w) <=> w = m[i]
    BY <1>1, <1>6, <1>10
  <2>2. /\ \A words : Has(words) <=> m[i] \in words
        /\ \A words : m[i] \in words => In(words) = m[i]
    BY <2>1 DEF Has, In
  <2>3. /\ Seen(CSeqs, i + 2) <=> Seen(CSeqs, i) \/ m[i] \in CSeqs
        /\ Seen(Transports, i + 2) <=> Seen(Transports, i) \/ m[i] \in Transports
    BY <1>8, <2>1
  <2>4. m[i] \in Starts <=> i = 1
    <3>1. i = 1 \/ i \in 2..Len(m)
      BY <1>1, <1>4
    <3> QED  BY <1>1, <3>1 DEF IsRequest
  <2>5. Parsed(i + 2)'
    <3>1. method' = method /\ old' = old /\ got' = got /\ Current' = Current
      BY <1>3, <1>4, <1>5 DEF m
    <3>2. method = MethodOf(m) /\ (i > 1 => suffix = StartOf[m[1]].file)
          /\ (Seen(CSeqs, i) => Contains(m, cseq))
      BY <1>4 DEF Parsed
    <3>3. suffix' = StartOf[m[1]].file
      <4>1. CASE i = 1
        BY <2>2, <2>4, <4>1 DEF Parse, Common, Setup, OtherLine
      <4>2. CASE i # 1
        BY <2>2, <2>4, <3>2, <4>2 DEF Parse, Common, Setup, OtherLine
      <4> QED  BY <4>1, <4>2
    <3>4. Seen(CSeqs, i + 2) => Contains(m, cseq')
      <4>1. CASE m[i] \in CSeqs
        <5>1. cseq' = m[i]
          BY <1>2, <2>2, <4>1 DEF Parse, Common, Setup, OtherLine
        <5> QED  BY <1>4, <4>1, <5>1 DEF Contains
      <4>2. CASE m[i] \notin CSeqs
        <5>1. cseq' = cseq
          BY <2>2, <4>2 DEF Parse, Common, Setup, OtherLine
        <5> QED  BY <2>3, <3>2, <4>2, <5>1
      <4> QED  BY <4>1, <4>2
    <3>5. IF method = "SETUP" /\ Seen(Transports, i + 2)
            THEN Settled(Len(got)) => askedPort' = PortOf(m)
            ELSE ~old /\ OfMethod("SETUP", Len(got) - 1) = {} => askedPort' = 0
      <4>1. CASE method = "SETUP" /\ m[i] \in Transports
        <5>1. /\ PortOf(m) = TransportOf[m[i]].port /\ IsUdp(m) = TransportOf[m[i]].udp
              /\ \A k \in 1..Len(m) : m[k] \in Transports => k = i
          BY <1>1, <1>4, <4>1, OneTransport
        <5>2. ~Seen(Transports, i)
          <6>1. \A k \in 1..(i - 1) : k \in 1..Len(m) /\ k # i
            BY <1>1, <1>4
          <6> QED  BY <1>4, <5>1, <6>1 DEF Seen
        <5>3. ~old /\ OfMethod("SETUP", Len(got) - 1) = {} => askedPort = 0
          BY <5>2 DEF Parsed
        <5>4. askedPort' = IF TransportOf[m[i]].udp \/ askedPort = 0
                             THEN TransportOf[m[i]].port ELSE askedPort
          BY <1>2, <2>2, <4>1 DEF Parse, Common, Setup, OtherLine
        <5>5. Settled(Len(got)) => IsUdp(m) \/ (~old /\ OfMethod("SETUP", Len(got) - 1) = {})
          <6>1. ASSUME \A l \in Which("SETUP") : Len(got) <= l
                PROVE  OfMethod("SETUP", Len(got) - 1) = {}
            <7>1. Len(got) \in Nat
              BY GotRequests
            <7>2. \A k \in 1..(Len(got) - 1) : k \in 1..Len(got) /\ ~(Len(got) <= k)
              BY <7>1
            <7> QED  BY <6>1, <7>2 DEF OfMethod, Which
          <6> QED  BY <1>4, <6>1 DEF Settled, Current
        <5> QED  BY <2>3, <4>1, <5>1, <5>3, <5>4, <5>5
      <4>2. CASE ~(method = "SETUP" /\ m[i] \in Transports)
        <5>1. askedPort' = askedPort
          BY <2>2, <4>2 DEF Parse, Common, Setup, OtherLine
        <5>2. method = "SETUP" => (Seen(Transports, i + 2) <=> Seen(Transports, i))
          BY <2>3, <4>2
        <5> QED  BY <1>4, <5>1, <5>2 DEF Parsed
      <4> QED  BY <4>1, <4>2
    <3> QED  BY <1>4, <1>5, <2>1, <3>1, <3>2, <3>3, <3>4, <3>5 DEF Parsed, MethodOf, PortOf
  <2> QED  BY <1>4, <1>7, <2>1, <2>5
<1> QED  BY <1>9, <1>10

\* Steps that touch neither the connection's request nor its messages.
LEMMA ReadUnchanged ==
  ASSUME ReadInv, UNCHANGED <<clean, pc, buff, got, old, reqVars>>
  PROVE  ReadInv' /\ Handled' = Handled
<1>1. UNCHANGED <<clean, pc, buff, got, old, method, cseq, suffix, askedPort>>
  BY DEF reqVars
<1>2. /\ Current' = Current
      /\ \A meth, n : OfMethod(meth, n)' = OfMethod(meth, n)
      /\ \A k : Settled(k)' <=> Settled(k)
      /\ \A words, i : Seen(words, i)' <=> Seen(words, i)
  BY <1>1, SameMessages
<1>3. Handled' = Handled /\ (Busy' <=> Busy)
  BY <1>1 DEF Handled, Busy
<1>4. \A i : Parsed(i) => Parsed(i)'
  BY <1>1, <1>2 DEF Parsed, MethodOf, PortOf
<1> QED  BY <1>1, <1>2, <1>3, <1>4 DEF ReadInv

\* A new client begins with nothing, and a read that is one whole message
\* begins with that message.
LEMMA ReadStep ==
  ASSUME TypeInv, OnlyRequests, ReadInv, NewClient \/ Read
  PROVE  ReadInv'
<1>1. CASE NewClient
  <2>1. /\ buff' = << >> /\ pc' = "in" /\ got' = << >> /\ askedPort' = askedPort
        /\ old' = (old \/ askedPort # 0)
    BY <1>1 DEF NewClient, reqVars
  <2> QED  BY <2>1 DEF ReadInv, Busy
<1>2. CASE Read
  <2> SUFFICES ASSUME clean' PROVE ReadInv'
    BY DEF ReadInv
  <2>1. PICK k \in 1..Len(sock) :
          LET segment == SubSeq(sock, 1, k) IN
          /\ buff' = buff \o segment
          /\ clean' = (clean /\ buff = << >> /\ segment \in Messages)
          /\ got' = IF clean' THEN Append(got, segment) ELSE got
    BY <1>2 DEF Read
  <2> DEFINE m == SubSeq(sock, 1, k)
  <2>2. clean /\ buff = << >> /\ m \in Messages /\ got' = Append(got, m) /\ buff' = buff \o m
    BY <2>1
  <2> HIDE DEF m
  <2>3. pc = "in" /\ pc' = "process" /\ old' = old /\ askedPort' = askedPort
    BY <1>2 DEF Read, reqVars
  <2>4. /\ Current' = m /\ Len(got') = Len(got) + 1 /\ Len(got) \in Nat
    <3>1. got \in Seq(Messages) /\ Len(got) \in Nat
      BY GotRequests
    <3> QED  BY <2>2, <2>3, <3>1, NewMessage
  <2>5. m \in Seq(Words) /\ m # << >> /\ buff' = m
    <3>1. m \in Seq(Words) /\ IsRequest(m)
      BY <2>2, RtspAssumption DEF OnlyRequests
    <3> QED  BY <2>2, <3>1 DEF IsRequest
  <2>6. Handled = Len(got) /\ Handled' = Len(got)
    BY <2>3, <2>4, <2>5 DEF Handled, Busy
  <2>7. OfMethod("SETUP", Handled)' = OfMethod("SETUP", Handled)
    <3>1. OfMethod("SETUP", Handled)' = {j \in 1..Handled' : MethodOf(got[j])' = "SETUP"}
      BY DEF OfMethod, MethodOf
    <3>2. \A j \in 1..Len(got) : MethodOf(got[j])' = MethodOf(got[j])
      <4>1. got \in Seq(Messages)
        BY GotRequests
      <4>2. \A j \in 1..Len(got) : got'[j] = got[j]
        BY <2>2, <2>3, <4>1, NewMessage
      <4> QED  BY <4>2 DEF MethodOf
    <3> QED  BY <2>6, <3>1, <3>2 DEF OfMethod
  <2>8. pc' # "in" /\ pc' # "out" /\ pc' # "parse" /\ pc' # "respond"
    BY <2>3
  <2>9. clean => (~old /\ OfMethod("SETUP", Handled) = {} => askedPort = 0)
    BY <2>3 DEF ReadInv
  <2> QED  BY <2>2, <2>3, <2>4, <2>5, <2>7, <2>8, <2>9 DEF ReadInv
<1> QED  BY <1>1, <1>2

\* RtspRequest goes through the whole message.
LEMMA ParseStep ==
  ASSUME TypeInv, OnlyRequests, ReadInv, Process \/ Parse \/ ParseEnd
  PROVE  ReadInv' /\ (clean => Handled' = Handled)
<1>0. UNCHANGED <<clean, got, old>> /\ Len(got) \in Nat
  BY GotRequests DEF Process, Parse, ParseEnd, histVars
<1>1. /\ Current' = Current
      /\ \A meth, n : OfMethod(meth, n)' = OfMethod(meth, n)
      /\ \A k : Settled(k)' <=> Settled(k)
      /\ \A words, i : Seen(words, i)' <=> Seen(words, i)
  BY <1>0, SameMessages
<1> SUFFICES ASSUME clean PROVE ReadInv' /\ Handled' = Handled
  BY <1>0 DEF ReadInv
<1>2. Busy => Len(got) \in 1..Len(got) /\ Current \in Seq(Words) /\ IsRequest(Current)
                /\ Len(Current) \in Nat
  <2>1. Busy => Len(got) \in 1..Len(got)
    BY <1>0 DEF ReadInv
  <2> QED  BY <2>1, GotRequests DEF Current
<1>3. CASE Process /\ buff = << >>
  <2>1. pc = "process" /\ pc' = "in" /\ buff' = << >> /\ UNCHANGED reqVars
    BY <1>3 DEF Process
  <2>2. ~Busy /\ ~Busy' /\ Handled' = Handled /\ askedPort' = askedPort
    BY <1>0, <1>3, <2>1 DEF Busy, Handled, reqVars
  <2>3. OfMethod("SETUP", Handled)' = OfMethod("SETUP", Handled)
    BY <1>0, <2>2 DEF OfMethod, MethodOf
  <2> QED  BY <1>0, <2>1, <2>2, <2>3 DEF ReadInv
<1>4. CASE Process /\ buff # << >>
  <2>1. /\ pc = "process" /\ pc' = "parse" /\ buff' = buff /\ Busy
        /\ method' = (IF Has(Starts) THEN StartOf[In(Starts)].method ELSE Nothing)
        /\ askedPort' = askedPort
    BY <1>4 DEF Process, Busy
  <2>2. buff = Current /\ Current \in Seq(Words) /\ IsRequest(Current) /\ Len(Current) \in Nat
        /\ Len(got) >= 1 /\ Len(Current) >= 2
    BY <1>2, <1>4, <2>1 DEF ReadInv, IsRequest
  <2>3. buff = SubSeq(Current, 1, Len(Current))
    BY <2>2
  <2>4. Current[1] \in Starts /\ \A w : Contains(Line, w) <=> w = Current[1]
    <3>1. 1 \in 1..Len(Current) /\ Current[1] \in Starts /\ "crlf" \notin Starts
      BY <2>2, RtspAssumption DEF IsRequest
    <3> QED  BY <2>2, <2>3, <3>1, LineOfRequest DEF Line
  <2>5. method' = MethodOf(Current)
    BY <2>1, <2>4 DEF Has, In, MethodOf
  <2>6. Busy' /\ Handled' = Handled /\ Handled = Len(got) - 1
    BY <1>0, <2>1 DEF Busy, Handled
  <2>7. Parsed(1)'
    <3>1. ~Seen(CSeqs, 1) /\ ~Seen(Transports, 1)
      BY DEF Seen
    <3>2. ~old /\ OfMethod("SETUP", Len(got) - 1) = {} => askedPort = 0
      BY <2>1, <2>6 DEF ReadInv
    <3>3. method' = MethodOf(Current)' /\ Len(got)' = Len(got) /\ old' = old
      BY <1>0, <1>1, <2>5 DEF MethodOf
    <3> QED  BY <1>1, <2>1, <3>1, <3>2, <3>3 DEF Parsed
  <2>8. 1 \in 1..(Len(Current') + 1) /\ buff' = SubSeq(Current', 1, Len(Current'))
    BY <1>1, <2>1, <2>2, <2>3
  <2> QED  BY <1>0, <2>1, <2>2, <2>6, <2>7, <2>8 DEF ReadInv
<1>5. CASE Parse
  <2>1. pc = "parse" /\ buff # << >> /\ Busy
    BY <1>5 DEF Parse, Busy
  <2>2. PICK i \in 1..(Len(Current) + 1) : buff = SubSeq(Current, i, Len(Current)) /\ Parsed(i)
    BY <2>1 DEF ReadInv
  <2>3. i \in 1..Len(Current)
    BY <1>2, <2>1, <2>2
  <2>4. Len(got) >= 1
    BY <2>1 DEF ReadInv
  <2>5. /\ pc' = "parse"
        /\ \E j \in 1..(Len(Current) + 1) : buff' = SubSeq(Current, j, Len(Current)) /\ Parsed(j)'
    BY <1>5, <2>1, <2>2, <2>3, <2>4, ParsedNext
  <2>6. Busy' /\ Handled' = Handled
    BY <1>0, <2>1, <2>5 DEF Busy, Handled
  <2> QED  BY <1>0, <1>1, <2>4, <2>5, <2>6 DEF ReadInv
<1>6. CASE ParseEnd
  <2>1. pc = "parse" /\ buff = << >> /\ Busy /\ pc' = "respond" /\ UNCHANGED <<buff, reqVars>>
    BY <1>6 DEF ParseEnd, Busy
  <2>2. PICK i \in 1..(Len(Current) + 1) : buff = SubSeq(Current, i, Len(Current)) /\ Parsed(i)
    BY <2>1 DEF ReadInv
  <2>3. i = Len(Current) + 1
    <3>1. i \in Nat /\ Len(Current) \in Nat /\ i <= Len(Current) + 1
      BY <1>2, <2>1
    <3>2. i <= Len(Current) => Len(SubSeq(Current, i, Len(Current))) # 0
      BY <1>2, <2>1
    <3>3. Len(buff) = 0
      BY <2>1
    <3> QED  BY <2>2, <3>1, <3>2, <3>3
  <2>4. Parsed(Len(Current) + 1)'
    <3>1. UNCHANGED <<method, cseq, suffix, askedPort>>
      BY <2>1 DEF reqVars
    <3> QED  BY <1>0, <1>1, <2>2, <2>3, <3>1 DEF Parsed, MethodOf, PortOf
  <2>5. Busy' /\ Handled' = Handled
    BY <1>0, <2>1 DEF Busy, Handled
  <2>6. Len(got) >= 1
    BY <2>1 DEF ReadInv
  <2> QED  BY <1>0, <1>1, <2>1, <2>4, <2>5, <2>6 DEF ReadInv
<1> QED  BY <1>3, <1>4, <1>5, <1>6

\* What is known when the answer is made.
LEMMA AtRespond ==
  ASSUME TypeInv, OnlyRequests, ReadInv, clean, pc = "respond"
  PROVE  /\ Len(got) \in Nat /\ Len(got) >= 1 /\ Handled = Len(got) - 1
         /\ method = MethodOf(got[Len(got)]) /\ method \in Methods
         /\ suffix = StartOf[got[Len(got)][1]].file /\ Contains(got[Len(got)], cseq)
         /\ method = "SETUP" /\ Settled(Len(got)) => askedPort = PortOf(got[Len(got)])
         /\ method # "SETUP" /\ ~old /\ OfMethod("SETUP", Len(got) - 1) = {} => askedPort = 0
<1>1. Len(got) \in Nat /\ Len(got) >= 1 /\ Handled = Len(got) - 1 /\ Parsed(Len(Current) + 1)
  BY GotRequests DEF ReadInv, Busy, Handled
<1>2. Current \in Seq(Words) /\ IsRequest(Current) /\ Current = got[Len(got)]
  BY <1>1, GotRequests DEF Current
<1>3. Len(Current) \in Nat /\ Len(Current) >= 2 /\ (Len(Current) + 1) - 1 = Len(Current)
  BY <1>2 DEF IsRequest
<1>4. Seen(CSeqs, Len(Current) + 1) /\ (MethodOf(Current) = "SETUP" => Seen(Transports, Len(Current) + 1))
  <2>1. 2..Len(Current) \subseteq 1..Len(Current)
    BY <1>3
  <2> QED  BY <1>2, <1>3, <2>1 DEF IsRequest, Seen
<1>5. method \in Methods
  <2>1. Current[1] \in Starts /\ method = StartOf[Current[1]].method
    BY <1>1, <1>2 DEF Parsed, IsRequest, MethodOf
  <2> QED  BY <2>1, ConstantTypes
<1> QED  BY <1>1, <1>2, <1>3, <1>4, <1>5 DEF Parsed

\* The answer, and the way back.
LEMMA RespondStep ==
  ASSUME TypeInv, OnlyRequests, ReadInv, Respond \/ Written
  PROVE  ReadInv'
<1> SUFFICES ASSUME clean' PROVE ReadInv'
  BY DEF ReadInv
<1>1. UNCHANGED <<clean, got, old, askedPort, buff>> /\ Len(got) \in Nat
  BY GotRequests DEF Respond, Written, histVars, reqVars
<1>2. \A meth, n : OfMethod(meth, n)' = OfMethod(meth, n)
  BY <1>1, SameMessages
<1>3. CASE Respond
  <2>1. pc = "respond" /\ pc' = "out" /\ buff = << >>
    BY <1>1, <1>3 DEF Respond, ReadInv
  <2>2. ~Busy' /\ Handled' = Len(got)
    BY <1>1, <2>1 DEF Busy, Handled
  <2>3. ~old /\ OfMethod("SETUP", Len(got)) = {} => askedPort = 0
    <3>1. SUFFICES ASSUME ~old, OfMethod("SETUP", Len(got)) = {} PROVE askedPort = 0
      OBVIOUS
    <3>2. /\ Len(got) >= 1 /\ method = MethodOf(got[Len(got)])
          /\ method # "SETUP" /\ ~old /\ OfMethod("SETUP", Len(got) - 1) = {} => askedPort = 0
      BY <1>1, <2>1, AtRespond
    <3>3. Len(got) \in 1..Len(got) /\ 1..(Len(got) - 1) \subseteq 1..Len(got)
      BY <1>1, <3>2
    <3>4. method # "SETUP" /\ OfMethod("SETUP", Len(got) - 1) = {}
      BY <3>1, <3>2, <3>3 DEF OfMethod
    <3> QED  BY <3>1, <3>2, <3>4
  <2>4. OfMethod("SETUP", Handled)' = OfMethod("SETUP", Len(got))
    BY <1>1, <2>2 DEF OfMethod, MethodOf
  <2> QED  BY <1>1, <2>1, <2>2, <2>3, <2>4 DEF ReadInv
<1>4. CASE Written
  <2>1. pc = "out" /\ pc' = "process" /\ buff = << >>
    BY <1>1, <1>4 DEF Written, ReadInv
  <2>2. ~Busy /\ ~Busy' /\ Handled' = Handled
    BY <1>1, <2>1 DEF Busy, Handled
  <2>3. OfMethod("SETUP", Handled)' = OfMethod("SETUP", Handled)
    BY <1>1, <2>2 DEF OfMethod, MethodOf
  <2> QED  BY <1>1, <2>1, <2>2, <2>3 DEF ReadInv
<1> QED  BY <1>3, <1>4

\* Where a connection is with its last message, at every step.
LEMMA ReadInvStep == ASSUME TypeInv, OnlyRequests, ReadInv, [Next]_vars PROVE ReadInv'
<1>1. CASE Send
  BY <1>1, ReadUnchanged DEF Send, histVars
<1>2. ASSUME NEW t \in Threads, ThreadStep(t) PROVE ReadInv'
  BY <1>2, ReadUnchanged DEF ThreadStep, histVars
<1>3. CASE UNCHANGED vars
  BY <1>3, ReadUnchanged DEF vars, histVars
<1> QED  BY <1>1, <1>2, <1>3, ReadStep, ParseStep, RespondStep DEF Next, Serve
-----------------------------------------------------------------------------
(* The answers. *)

\* Messages that are answered are counted one by one.
LEMMA CountNext ==
  ASSUME NEW n \in Nat
  PROVE  /\ IsFiniteSet(Answerable(n)) /\ Count(n) \in Nat
         /\ n + 1 \in Answerable(n + 1) => Count(n + 1) = Count(n) + 1
         /\ n + 1 \notin Answerable(n + 1) =>
              Answerable(n + 1) = Answerable(n) /\ Count(n + 1) = Count(n)
         /\ Answerable(n + 1) \ {n + 1} = Answerable(n)
<1>1. IsFiniteSet(1..n)
  BY FS_Interval
<1>2. Answerable(n) \in SUBSET (1..n)
  BY DEF Answerable
<1>3. IsFiniteSet(Answerable(n)) /\ Count(n) \in Nat
  BY <1>1, <1>2, FS_Subset, FS_CardinalityType DEF Count
<1>4. 1..(n + 1) = 1..n \union {n + 1} /\ n + 1 \notin 1..n
  OBVIOUS
<1>5. CASE n + 1 \in Answerable(n + 1)
  <2>1. Answerable(n + 1) = Answerable(n) \union {n + 1} /\ n + 1 \notin Answerable(n)
    BY <1>4, <1>5 DEF Answerable
  <2> QED  BY <1>3, <2>1, FS_AddElement DEF Count
<1>6. CASE n + 1 \notin Answerable(n + 1)
  <2>1. Answerable(n + 1) = Answerable(n) /\ n + 1 \notin Answerable(n)
    BY <1>4, <1>6 DEF Answerable
  <2> QED  BY <1>3, <1>6, <2>1 DEF Count
<1> QED  BY <1>5, <1>6

\* An earlier message has a smaller place.
LEMMA CountGrows ==
  ASSUME NEW n \in Nat, NEW k \in 1..n
  PROVE  /\ Count(k) \in Nat /\ Count(k) <= Count(n)
         /\ k \in Answerable(n) => Count(k) >= 1 /\ k \in Answerable(k)
         /\ n \in Answerable(n) /\ k < n => Count(k) < Count(n)
<1>1. k \in Nat /\ k - 1 \in Nat /\ n - 1 \in Nat /\ (k - 1) + 1 = k /\ (n - 1) + 1 = n
  OBVIOUS
<1>2. ASSUME NEW i \in Nat, NEW j \in Nat, i <= j PROVE Count(i) <= Count(j)
  <2>1. Answerable(i) \in SUBSET Answerable(j) /\ IsFiniteSet(Answerable(j))
    BY <1>2, CountNext DEF Answerable
  <2> QED  BY <2>1, FS_Subset DEF Count
<1>3. Count(k) \in Nat /\ Count(n) \in Nat /\ Count(k - 1) \in Nat /\ Count(n - 1) \in Nat
  BY <1>1, CountNext
<1>4. k \in Answerable(n) => k \in Answerable(k)
  BY <1>1 DEF Answerable
<1>5. k \in Answerable(k) => Count(k) = Count(k - 1) + 1
  BY <1>1, CountNext
<1>6. n \in Answerable(n) => Count(n) = Count(n - 1) + 1
  BY <1>1, CountNext
<1>7. Count(k) <= Count(n) /\ (k < n => Count(k) <= Count(n - 1))
  BY <1>1, <1>2
<1> QED  BY <1>3, <1>4, <1>5, <1>6, <1>7

\* Nothing handled, nothing answered.
LEMMA NoReplies ==
  ASSUME got = << >>, replies = << >>
  PROVE  ReplyInv
<1>1. Handled <= 0 /\ Handled \in Int
  BY DEF Handled, Busy
<1>2. Answerable(Handled) = {} /\ Count(Handled) = 0
  <2>1. 1..Handled = {}
    BY <1>1
  <2>2. Answerable(Handled) = {}
    BY <2>1 DEF Answerable
  <2> QED  BY <2>2, FS_EmptySet DEF Count
<1>3. MaxReplies \in Nat
  BY ConstantTypes
<1> QED  BY <1>2, <1>3 DEF ReplyInv

\* Steps between a read and its answer.
LEMMA ReplyUnchanged ==
  ASSUME ReplyInv, UNCHANGED <<clean, got, old, replies>>, clean => Handled' = Handled
  PROVE  ReplyInv'
<1> SUFFICES ASSUME clean PROVE ReplyInv'
  BY DEF ReplyInv
<1>1. /\ \A n : Answerable(n)' = Answerable(n) /\ Count(n)' = Count(n)
      /\ \A k : Settled(k)' <=> Settled(k)
  BY SameMessages
<1>2. Answerable(Handled)' = Answerable(Handled) /\ Count(Handled)' = Count(Handled)
  BY DEF Answerable, Count, MethodOf
<1>3. \A r, k : Answers(r, k)' <=> Answers(r, k)
  BY <1>1 DEF Answers, MethodOf, PortOf
<1>4. \A k : Answers(replies[Count(k)], k)' <=> Answers(replies[Count(k)], k)
  BY <1>1, <1>3 DEF Answers, MethodOf, PortOf
<1> QED  BY <1>1, <1>2, <1>4 DEF ReplyInv

\* A new message changes nothing about the answers to the others.
LEMMA ReplyRead ==
  ASSUME TypeInv, OnlyRequests, ReadInv, ReplyInv, Read
  PROVE  ReplyInv'
<1> SUFFICES ASSUME clean' PROVE ReplyInv'
  BY DEF ReplyInv
<1>1. PICK k \in 1..Len(sock) :
        LET segment == SubSeq(sock, 1, k) IN
        /\ buff' = buff \o segment
        /\ clean' = (clean /\ buff = << >> /\ segment \in Messages)
        /\ got' = IF clean' THEN Append(got, segment) ELSE got
  BY DEF Read
<1> DEFINE m == SubSeq(sock, 1, k)
<1>2. clean /\ buff = << >> /\ m \in Messages /\ got' = Append(got, m) /\ buff' = buff \o m
  BY <1>1
<1> HIDE DEF m
<1>3. pc = "in" /\ pc' = "process" /\ old' = old /\ replies' = replies
  BY DEF Read
<1>4. /\ Len(got) \in Nat /\ got \in Seq(Messages) /\ Len(got') = Len(got) + 1
      /\ \A j \in 1..Len(got) : got'[j] = got[j] /\ (Settled(j)' <=> Settled(j))
      /\ \A n \in 0..Len(got) : Answerable(n)' = Answerable(n) /\ Count(n)' = Count(n)
  <2>1. got \in Seq(Messages)
    BY GotRequests
  <2> QED  BY <1>2, <1>3, <2>1, NewMessage
<1>5. Handled = Len(got) /\ Handled' = Len(got)
  <2>1. m \in Seq(Words) /\ Len(m) >= 2
    BY <1>2, RtspAssumption DEF OnlyRequests, IsRequest
  <2>2. buff' # << >>
    BY <1>2, <2>1
  <2> QED  BY <1>3, <1>4, <2>2 DEF Handled, Busy
<1>6. Answerable(Handled)' = Answerable(Handled) /\ Count(Handled)' = Count(Handled)
  <2>1. \A j \in 1..Handled : MethodOf(got[j])' = MethodOf(got[j])
    BY <1>4, <1>5 DEF MethodOf
  <2> QED  BY <1>5, <2>1 DEF Answerable, Count
<1>7. ASSUME NEW j \in Answerable(Handled)
      PROVE  /\ Count(j)' = Count(j)
             /\ Answers(replies[Count(j)], j)' <=> Answers(replies[Count(j)], j)
  <2>1. j \in 1..Len(got) /\ j \in 0..Len(got)
    BY <1>4, <1>5 DEF Answerable
  <2>2. Count(j)' = Count(j) /\ got'[j] = got[j] /\ (Settled(j)' <=> Settled(j))
    BY <1>4, <2>1
  <2> QED  BY <1>3, <2>2 DEF Answers, MethodOf, PortOf
<1> QED  BY <1>2, <1>3, <1>6, <1>7 DEF ReplyInv

\* Every answer is for the message in hand.
LEMMA ReplyRespond ==
  ASSUME TypeInv, OnlyRequests, ReadInv, ReplyInv, Respond
  PROVE  ReplyInv'
<1> SUFFICES ASSUME clean' PROVE ReplyInv'
  BY DEF ReplyInv
<1> DEFINE n == Len(got)
           h == n - 1
<1>1. /\ clean /\ UNCHANGED <<clean, got, old, method, cseq, askedPort>>
      /\ pc = "respond" /\ pc' = "out"
  BY DEF Respond, reqVars
<1>2. /\ n \in Nat /\ n >= 1 /\ h \in Nat /\ Handled = h /\ Handled' = n
      /\ method = MethodOf(got[n]) /\ method \in Methods /\ Contains(got[n], cseq)
      /\ method = "SETUP" /\ Settled(n) => askedPort = PortOf(got[n])
  BY <1>1, AtRespond DEF Handled, Busy
<1>3. /\ \A j : Answerable(j)' = Answerable(j) /\ Count(j)' = Count(j)
      /\ \A r, j : Answers(r, j)' <=> Answers(r, j)
  BY <1>1, SameMessages DEF Answers, MethodOf, PortOf
<1>a. h + 1 = n
  BY <1>2
<1> HIDE DEF n, h
<1>4. h + 1 = n /\ MaxReplies \in Nat /\ Count(h) \in Nat /\ Count(n) \in Nat
      /\ replies \in Seq(ReplyType) /\ Len(replies) \in Nat
  <2>1. Count(h) \in Nat /\ Count(n) \in Nat
    BY <1>2, CountNext
  <2>2. replies \in Seq(ReplyType) /\ Len(replies) \in Nat
    BY DEF TypeInv
  <2> QED  BY <1>a, <2>1, <2>2, ConstantTypes
<1>5. /\ Len(replies) = IF Count(h) <= MaxReplies THEN Count(h) ELSE MaxReplies
      /\ \A j \in Answerable(h) : Count(j) <= Len(replies) => Answers(replies[Count(j)], j)
  BY <1>1, <1>2 DEF ReplyInv
<1>6. SUFFICES /\ Len(replies') = IF Count(n) <= MaxReplies THEN Count(n) ELSE MaxReplies
               /\ \A j \in Answerable(n) : Count(j) <= Len(replies') =>
                    Answers(replies'[Count(j)], j)
  <2>1. Answerable(Handled)' = Answerable(n) /\ Count(Handled)' = Count(n)
    BY <1>1, <1>2 DEF Answerable, Count, MethodOf
  <2>2. \A j : Answers(replies[Count(j)], j)' <=> Answers(replies'[Count(j)], j)
    BY <1>1, <1>3 DEF Answers, MethodOf, PortOf
  <2> QED  BY <1>3, <2>1, <2>2 DEF ReplyInv
<1>7. CASE method # "TEARDOWN"
  <2> DEFINE r == [method |-> method, cseq |-> cseq,
                   port |-> IF method = "SETUP" THEN askedPort ELSE 0]
  <2>1. replies' = IF Len(replies) < MaxReplies THEN Append(replies, r) ELSE replies
    <3>1. method # Nothing
      BY <1>2 DEF Methods, Nothing
    <3> QED  BY <1>2, <1>7, <3>1
             DEF Respond, Options, Describe, SetupReply, Play, NoReply, Reply, Methods
  <2>2. r \in ReplyType
    BY <1>2 DEF TypeInv, ReplyType
  <2>3. Answers(r, n)
    BY <1>2 DEF Answers
  <2> HIDE DEF r
  <2>4. n \in 1..n /\ n \in Answerable(n) /\ Count(n) = Count(h) + 1 /\ Answerable(n) \ {n} = Answerable(h)
    <3>1. n \in 1..n
      BY <1>2
    <3>2. n \in Answerable(n)
      BY <1>2, <1>7, <3>1 DEF Answerable
    <3> QED  BY <1>2, <1>4, <3>1, <3>2, CountNext
  <2>5. CASE Len(replies) < MaxReplies
    <3>1. /\ replies' = Append(replies, r) /\ Len(replies') = Len(replies) + 1
          /\ \A j \in 1..Len(replies) : replies'[j] = replies[j]
          /\ replies'[Len(replies) + 1] = r
      BY <1>4, <2>1, <2>2, <2>5, AppendProperties
    <3>2. Len(replies) = Count(h) /\ Count(n) <= MaxReplies
      BY <1>4, <1>5, <2>4, <2>5
    <3>3. ASSUME NEW j \in Answerable(n) PROVE Answers(replies'[Count(j)], j)
      <4>1. CASE j = n
        BY <2>3, <2>4, <3>1, <3>2, <4>1
      <4>2. CASE j # n
        <5>1. j \in Answerable(h) /\ j \in 1..h
          BY <2>4, <4>2 DEF Answerable
        <5>2. Count(j) \in Nat /\ Count(j) <= Count(h) /\ Count(j) >= 1
          BY <1>2, <5>1, CountGrows
        <5> QED  BY <1>4, <1>5, <3>1, <3>2, <5>1, <5>2
      <4> QED  BY <4>1, <4>2
    <3> QED  BY <1>4, <2>4, <3>1, <3>2, <3>3
  <2>6. CASE ~(Len(replies) < MaxReplies)
    <3>1. replies' = replies /\ Len(replies) = MaxReplies /\ Count(n) > Len(replies)
      BY <1>4, <1>5, <2>1, <2>4, <2>6
    <3>2. ASSUME NEW j \in Answerable(n), Count(j) <= Len(replies)
          PROVE  Answers(replies[Count(j)], j)
      <4>1. j # n
        BY <1>4, <3>1, <3>2
      <4> QED  BY <1>5, <2>4, <3>2, <4>1
    <3> QED  BY <1>4, <3>1, <3>2
  <2> QED  BY <2>5, <2>6
<1>8. CASE method = "TEARDOWN"
  <2>1. replies' = replies
    BY <1>8 DEF Respond, Options, Describe, SetupReply, Play, NoReply, Nothing
  <2>2. Answerable(n) = Answerable(h) /\ Count(n) = Count(h)
    <3>1. h + 1 \notin Answerable(h + 1)
      BY <1>2, <1>4, <1>8 DEF Answerable
    <3> QED  BY <1>2, <1>4, <3>1, CountNext
  <2> QED  BY <1>5, <2>1, <2>2
<1> QED  BY <1>7, <1>8

\* Answers belong to their messages, at every step.
LEMMA ReplyInvStep ==
  ASSUME TypeInv, OnlyRequests, ReadInv, ReplyInv, [Next]_vars
  PROVE  ReplyInv'
<1>1. CASE Send
  BY <1>1, ReadUnchanged, ReplyUnchanged DEF Send, histVars
<1>2. CASE NewClient
  <2>1. got' = << >> /\ replies' = << >>
    BY <1>2 DEF NewClient
  <2>2. (got = << >> /\ replies = << >> => ReplyInv)'
    BY NoReplies, PTL
  <2> QED  BY <2>1, <2>2
<1>3. CASE Read
  BY <1>3, ReplyRead
<1>4. CASE Process \/ Parse \/ ParseEnd
  <2>1. UNCHANGED <<clean, got, old, replies>>
    BY <1>4 DEF Process, Parse, ParseEnd, histVars
  <2> QED  BY <1>4, <2>1, ParseStep, ReplyUnchanged
<1>5. CASE Respond
  BY <1>5, ReplyRespond
<1>6. CASE Written
  <2>1. UNCHANGED <<clean, got, old, replies, buff>> /\ pc = "out" /\ pc' = "process"
    BY <1>6 DEF Written, histVars
  <2>2. clean => Handled' = Handled
    BY <2>1 DEF Handled, Busy, ReadInv
  <2> QED  BY <2>1, <2>2, ReplyUnchanged
<1>7. ASSUME NEW t \in Threads, ThreadStep(t) PROVE ReplyInv'
  BY <1>7, ReadUnchanged, ReplyUnchanged DEF ThreadStep, histVars
<1>8. CASE UNCHANGED vars
  BY <1>8, ReadUnchanged, ReplyUnchanged DEF vars, histVars
<1> QED  BY <1>1, <1>2, <1>3, <1>4, <1>5, <1>6, <1>7, <1>8 DEF Next, Serve
-----------------------------------------------------------------------------
(* What the object holds for the threads. *)

\* The last message of a kind is the one in hand, or one before it.
LEMMA LastNext ==
  ASSUME NEW n \in Nat, n >= 1, NEW meth
  PROVE  /\ MethodOf(got[n]) = meth => LastOf(meth, n) = {n}
         /\ MethodOf(got[n]) # meth => LastOf(meth, n) = LastOf(meth, n - 1)
<1>1. 1..n = 1..(n - 1) \union {n} /\ \A k \in 1..n : k <= n /\ (n <= k => k = n)
  OBVIOUS
<1>2. CASE MethodOf(got[n]) = meth
  <2>1. n \in OfMethod(meth, n) /\ \A k \in OfMethod(meth, n) : k \in 1..n
    BY <1>1, <1>2 DEF OfMethod
  <2> QED  BY <1>1, <1>2, <2>1 DEF LastOf
<1>3. CASE MethodOf(got[n]) # meth
  <2>1. OfMethod(meth, n) = OfMethod(meth, n - 1)
    BY <1>1, <1>3 DEF OfMethod
  <2> QED  BY <1>3, <2>1 DEF LastOf
<1> QED  BY <1>2, <1>3

\* Steps that neither handle a message nor write what is stored.
LEMMA StoredUnchanged ==
  ASSUME StoredInv, UNCHANGED <<clean, got, old, filePath, rtpPort>>,
         clean => Handled' = Handled
  PROVE  StoredInv'
<1> SUFFICES ASSUME clean PROVE StoredInv'
  BY DEF StoredInv
<1>1. \A k : Settled(k)' <=> Settled(k)
  BY SameMessages
<1>2. \A meth : LastOf(meth, Handled)' = LastOf(meth, Handled)
  BY DEF LastOf, OfMethod, MethodOf
<1> QED  BY <1>1, <1>2 DEF StoredInv, PortOf

\* A new message is not handled yet.
LEMMA StoredRead ==
  ASSUME TypeInv, OnlyRequests, StoredInv, Read
  PROVE  StoredInv'
<1> SUFFICES ASSUME clean' PROVE StoredInv'
  BY DEF StoredInv
<1>1. PICK k \in 1..Len(sock) :
        LET segment == SubSeq(sock, 1, k) IN
        /\ buff' = buff \o segment
        /\ clean' = (clean /\ buff = << >> /\ segment \in Messages)
        /\ got' = IF clean' THEN Append(got, segment) ELSE got
  BY DEF Read
<1> DEFINE m == SubSeq(sock, 1, k)
<1>2. clean /\ buff = << >> /\ m \in Messages /\ got' = Append(got, m) /\ buff' = buff \o m
  BY <1>1
<1> HIDE DEF m
<1>3. pc = "in" /\ pc' = "process" /\ UNCHANGED <<old, filePath, rtpPort>>
  BY DEF Read, respVars
<1>4. /\ Len(got) \in Nat /\ Len(got') = Len(got) + 1
      /\ \A j \in 1..Len(got) : got'[j] = got[j] /\ (Settled(j)' <=> Settled(j))
      /\ \A meth : \A n \in 0..Len(got) : LastOf(meth, n)' = LastOf(meth, n)
  <2>1. got \in Seq(Messages)
    BY GotRequests
  <2> QED  BY <1>2, <1>3, <2>1, NewMessage
<1>5. Handled = Len(got) /\ Handled' = Len(got)
  <2>1. m \in Seq(Words) /\ Len(m) >= 2
    BY <1>2, RtspAssumption DEF OnlyRequests, IsRequest
  <2>2. buff' # << >>
    BY <1>2, <2>1
  <2> QED  BY <1>3, <1>4, <2>2 DEF Handled, Busy
<1>6. ASSUME NEW meth PROVE LastOf(meth, Handled)' = LastOf(meth, Handled)
  <2>1. \A j \in 1..Handled : MethodOf(got[j])' = MethodOf(got[j])
    BY <1>4, <1>5 DEF MethodOf
  <2>2. OfMethod(meth, Handled)' = OfMethod(meth, Handled)
    BY <1>5, <2>1 DEF OfMethod
  <2> QED  BY <2>2 DEF LastOf
<1>7. ASSUME NEW meth, NEW j \in LastOf(meth, Handled) PROVE j \in 1..Len(got)
  BY <1>5 DEF LastOf, OfMethod
<1>8. \A j \in LastOf("DESCRIBE", Handled)' : filePath' = StartOf[got'[j][1]].file
  BY <1>2, <1>3, <1>4, <1>6, <1>7 DEF StoredInv
<1>9. ASSUME NEW j \in LastOf("SETUP", Handled)', Settled(j)' PROVE rtpPort' = PortOf(got[j])'
  <2>1. j \in LastOf("SETUP", Handled) /\ j \in 1..Len(got)
    BY <1>6, <1>7
  <2>2. PortOf(got[j])' = PortOf(got[j]) /\ Settled(j)
    BY <1>4, <1>9, <2>1 DEF PortOf
  <2> QED  BY <1>2, <1>3, <2>1, <2>2 DEF StoredInv
<1> QED  BY <1>8, <1>9 DEF StoredInv

\* DESCRIBE and SETUP store what their message says.
LEMMA StoredRespond ==
  ASSUME TypeInv, OnlyRequests, ReadInv, StoredInv, Respond
  PROVE  StoredInv'
<1> SUFFICES ASSUME clean' PROVE StoredInv'
  BY DEF StoredInv
<1> DEFINE n == Len(got)
<1>1. clean /\ UNCHANGED <<clean, got, old>> /\ pc = "respond" /\ pc' = "out"
  BY DEF Respond
<1>2. /\ n \in Nat /\ n >= 1 /\ Handled = n - 1 /\ Handled' = n
      /\ method = MethodOf(got[n]) /\ method \in Methods
      /\ suffix = StartOf[got[n][1]].file
      /\ method = "SETUP" /\ Settled(n) => askedPort = PortOf(got[n])
  BY <1>1, AtRespond DEF Handled, Busy
<1> HIDE DEF n
<1>3. SUFFICES /\ \A k \in LastOf("DESCRIBE", n) : filePath' = StartOf[got[k][1]].file
               /\ \A k \in LastOf("SETUP", n) : Settled(k) => rtpPort' = PortOf(got[k])
  <2>1. \A k : Settled(k)' <=> Settled(k)
    BY <1>1, SameMessages
  <2>2. \A meth : LastOf(meth, Handled)' = LastOf(meth, n)
    BY <1>1, <1>2 DEF LastOf, OfMethod, MethodOf
  <2> QED  BY <1>1, <1>3, <2>1, <2>2 DEF StoredInv, PortOf
<1>4. /\ \A k \in LastOf("DESCRIBE", n - 1) : filePath = StartOf[got[k][1]].file
      /\ \A k \in LastOf("SETUP", n - 1) : Settled(k) => rtpPort = PortOf(got[k])
  BY <1>1, <1>2 DEF StoredInv
<1>5. \A meth : IF method = meth THEN LastOf(meth, n) = {n} ELSE LastOf(meth, n) = LastOf(meth, n - 1)
  BY <1>2, LastNext
<1>6. /\ method = "DESCRIBE" => filePath' = suffix /\ rtpPort' = rtpPort
      /\ method = "SETUP" => rtpPort' = askedPort /\ filePath' = filePath
      /\ method \notin {"DESCRIBE", "SETUP"} => filePath' = filePath /\ rtpPort' = rtpPort
  BY <1>2 DEF Respond, Options, Describe, SetupReply, Play, NoReply, respVars, Methods, Nothing
<1>7. CASE method = "DESCRIBE"
  BY <1>2, <1>4, <1>5, <1>6, <1>7
<1>8. CASE method = "SETUP"
  BY <1>2, <1>4, <1>5, <1>6, <1>8
<1>9. CASE method \notin {"DESCRIBE", "SETUP"}
  BY <1>4, <1>5, <1>6, <1>9
<1> QED  BY <1>7, <1>8, <1>9

\* What the object holds, at every step.
LEMMA StoredInvStep ==
  ASSUME TypeInv, OnlyRequests, ReadInv, StoredInv, [Next]_vars
  PROVE  StoredInv'
<1>1. CASE Send
  BY <1>1, ReadUnchanged, StoredUnchanged DEF Send, histVars, respVars
<1>2. CASE NewClient
  <2>1. got' = << >> /\ Handled' <= 0 /\ Handled' \in Int
    BY <1>2 DEF NewClient, Handled, Busy
  <2>2. \A meth : LastOf(meth, Handled)' = {}
    BY <2>1 DEF LastOf, OfMethod
  <2> QED  BY <2>2 DEF StoredInv
<1>3. CASE Read
  BY <1>3, StoredRead
<1>4. CASE Process \/ Parse \/ ParseEnd
  <2>1. UNCHANGED <<clean, got, old, filePath, rtpPort>>
    BY <1>4 DEF Process, Parse, ParseEnd, histVars, respVars
  <2> QED  BY <1>4, <2>1, ParseStep, StoredUnchanged
<1>5. CASE Respond
  BY <1>5, StoredRespond
<1>6. CASE Written
  <2>1. UNCHANGED <<clean, got, old, filePath, rtpPort, buff>> /\ pc = "out" /\ pc' = "process"
    BY <1>6 DEF Written, histVars, respVars
  <2>2. clean => Handled' = Handled
    BY <2>1 DEF Handled, Busy, ReadInv
  <2> QED  BY <2>1, <2>2, StoredUnchanged
<1>7. ASSUME NEW t \in Threads, ThreadStep(t) PROVE StoredInv'
  BY <1>7, ReadUnchanged, StoredUnchanged DEF ThreadStep, histVars, respVars
<1>8. CASE UNCHANGED vars
  BY <1>8, ReadUnchanged, StoredUnchanged DEF vars, histVars, respVars
<1> QED  BY <1>1, <1>2, <1>3, <1>4, <1>5, <1>6, <1>7, <1>8 DEF Next, Serve

\* The address of a client that is copied over that of an earlier one.
LEMMA AddressInvStep == ASSUME TypeInv, AddressInv, [Next]_vars PROVE AddressInv'
<1>1. CASE NewClient
  <2> SUFFICES ASSUME Junk = {<< >>} PROVE AddressInv'
    BY DEF AddressInv
  <2>1. /\ client \in Nat /\ client >= 1 /\ client + 1 \in 1..MaxClients
        /\ client' = client + 1 /\ ip' = Copy(IpOf(client + 1), ip)
    <3>1. client \in 1..MaxClients /\ client < MaxClients /\ client' = client + 1
          /\ ip' = Copy(IpOf(client'), ip)
      BY <1>1 DEF NewClient, TypeInv
    <3> QED  BY <3>1, ConstantTypes
  <2>2. \A c \in 1..(client + 1) : IpOf(c) \in Seq(Nat) /\ Len(IpOf(c)) \in Nat
    <3>1. \A c \in 1..(client + 1) : c \in 1..MaxClients
      BY <2>1, ConstantTypes
    <3> QED  BY <3>1, ConstantTypes
  <2>3. ip \in Seq(Nat) /\ Len(ip) \in Nat /\ client + 1 \in 1..(client + 1)
        /\ \A c \in 1..client : c \in 1..(client + 1)
    BY <2>1 DEF TypeInv
  <2>4. /\ Len(ip') = IF Len(ip) <= Len(IpOf(client + 1)) THEN Len(IpOf(client + 1)) ELSE Len(ip)
        /\ Len(ip) <= Len(IpOf(client + 1)) => ip' = IpOf(client + 1)
    BY <2>1, <2>2, <2>3, CopyCorrect
  <2>5. PICK c \in 1..client : Len(ip) <= Len(IpOf(c))
    BY DEF AddressInv
  <2>6. \E d \in 1..(client + 1) : Len(ip') <= Len(IpOf(d))
    BY <2>2, <2>3, <2>4, <2>5
  <2>7. (\A d \in 1..(client + 1) : Len(IpOf(d)) <= Len(IpOf(client + 1))) => ip' = IpOf(client + 1)
    BY <2>2, <2>3, <2>4, <2>5
  <2> QED  BY <2>1, <2>6, <2>7 DEF AddressInv, IpOf
<1>2. CASE ~NewClient
  <2>1. UNCHANGED <<client, ip>>
    BY <1>2 DEF Next, vars, Send, Read, Serve, Process, Parse, ParseEnd, Respond, Written,
                Options, Describe, SetupReply, Play, NoReply, ThreadStep, respVars
  <2> QED  BY <2>1 DEF AddressInv, IpOf
<1> QED  BY <1>1, <1>2

\* What a PLAY wants, when its message was read whole, is what the object holds.
LEMMA WantHeld ==
  ASSUME TypeInv, OnlyRequests, ReadInv, StoredInv, pc = "respond", method = "PLAY"
  PROVE  /\ Want.client = client
         /\ Want.file # Nothing => filePath = Want.file
         /\ Want.port # 0 => rtpPort = Want.port
<1> DEFINE described == Which("DESCRIBE")
           setups == Which("SETUP")
<1>1. /\ Want.client = client
      /\ Want.file # Nothing => clean /\ described # {}
                                /\ Want.file = StartOf[got[Latest(described)][1]].file
      /\ Want.port # 0 => clean /\ setups # {} /\ Settled(Latest(setups))
                          /\ Want.port = PortOf(got[Latest(setups)])
  BY DEF Want
<1>2. ASSUME clean, NEW meth \in {"DESCRIBE", "SETUP"}, Which(meth) # {}
      PROVE  Latest(Which(meth)) \in LastOf(meth, Handled)
  <2>1. /\ Len(got) \in Nat /\ Len(got) >= 1 /\ Handled = Len(got) - 1
        /\ MethodOf(got[Len(got)]) # meth
    BY <1>2, AtRespond
  <2>2. Which(meth) = OfMethod(meth, Len(got)) /\ Which(meth) \in SUBSET (1..Len(got))
    BY DEF Which, OfMethod
  <2>3. Latest(Which(meth)) \in LastOf(meth, Len(got))
    BY <1>2, <2>1, <2>2, LatestIsGreatest DEF LastOf
  <2> QED  BY <2>1, <2>3, LastNext
<1> HIDE DEF described, setups
<1>3. Want.file # Nothing => filePath = Want.file
  BY <1>1, <1>2 DEF StoredInv, described
<1>4. Want.port # 0 => rtpPort = Want.port
  BY <1>1, <1>2 DEF StoredInv, setups
<1> QED  BY <1>1, <1>3, <1>4

\* The answer to a PLAY.
LEMMA ThreadPlay ==
  ASSUME TypeInv, OnlyRequests, ReadInv, StoredInv, ThreadInv, pc = "respond", Play,
         client' = client
  PROVE  ThreadInv'
<1>1. UNCHANGED <<client, filePath, ip, rtpPort>>
  BY DEF Play, respVars
<1>2. CASE Free = {}
  <2>1. UNCHANGED <<thread, calm>>
    BY <1>2 DEF Play
  <2> QED  BY <1>1, <2>1 DEF ThreadInv, Holds, Copy
<1>3. CASE Free # {}
  <2>1. PICK t \in Threads : /\ thread' = [thread EXCEPT ![t].at = "spawned", ![t].want = Want]
                             /\ calm' = [calm EXCEPT ![t] = TRUE]
    BY <1>3 DEF Play, Free
  <2>2. Want.client = client /\ (Want.file # Nothing => filePath = Want.file)
        /\ (Want.port # 0 => rtpPort = Want.port)
    BY WantHeld DEF Play
  <2>3. thread \in [Threads -> ThreadType] /\ calm \in [Threads -> BOOLEAN]
    BY DEF TypeInv
  <2>4. thread'[t].at = "spawned" /\ thread'[t].want = Want
    BY <2>1, <2>3 DEF ThreadType
  <2>5. \A u \in Threads \ {t} : thread'[u] = thread[u] /\ calm'[u] = calm[u]
    BY <2>1, <2>3
  <2>6. Holds(t)'
    BY <1>1, <2>2, <2>4 DEF Holds
  <2>7. \A u \in Threads \ {t} : Holds(u)'
    <3>1. \A u \in Threads : Holds(u)
      BY DEF ThreadInv
    <3>2. \A j : Copy(ip, j)' = Copy(ip, j)
      BY <1>1 DEF Copy
    <3> QED  BY <1>1, <2>5, <3>1, <3>2 DEF Holds
  <2> QED  BY <2>6, <2>7 DEF ThreadInv, Holds
<1> QED  BY <1>2, <1>3

\* A thread reads the object.
LEMMA ThreadReads ==
  ASSUME TypeInv, ThreadInv, NEW t \in Threads, ThreadStep(t)
  PROVE  ThreadInv'
<1>1. UNCHANGED <<client, filePath, ip, rtpPort, calm>>
  BY DEF ThreadStep, respVars, histVars
<1>2. thread \in [Threads -> ThreadType] /\ Holds(t)
  BY DEF TypeInv, ThreadInv, Holds
<1>3. Holds(t)'
  <2>1. CASE OpenFile(t)
    <3>1. CASE filePath \in Files
      <4>1. /\ thread'[t].at = "opened" /\ thread'[t].file = filePath
            /\ thread'[t].want = thread[t].want /\ thread[t].at = "spawned"
        BY <1>2, <2>1, <3>1 DEF OpenFile, ThreadType
      <4> QED  BY <1>1, <1>2, <4>1 DEF Holds
    <3>2. CASE filePath \notin Files
      BY <1>1, <1>2, <2>1, <3>2 DEF OpenFile, Holds, Copy
    <3> QED  BY <3>1, <3>2
  <2>2. CASE InitRtp(t)
    <3>1. PICK j \in Junk : thread' = [thread EXCEPT ![t].at = "addressed", ![t].ip = Copy(ip, j)]
      BY <2>2 DEF InitRtp
    <3>2. /\ thread'[t].at = "addressed" /\ thread'[t].ip = Copy(ip, j)
          /\ thread'[t].want = thread[t].want /\ thread'[t].file = thread[t].file
      BY <1>2, <3>1 DEF ThreadType
    <3>3. thread[t].at = "opened" /\ Copy(ip, j)' = Copy(ip, j)
      BY <1>1, <2>2 DEF InitRtp, Copy
    <3> QED  BY <1>1, <1>2, <3>2, <3>3 DEF Holds
  <2>3. CASE SetPort(t)
    <3>1. /\ thread'[t].at = "streaming" /\ thread'[t].port = rtpPort /\ thread'[t].ip = thread[t].ip
          /\ thread'[t].want = thread[t].want /\ thread'[t].file = thread[t].file
          /\ thread[t].at = "addressed"
      BY <1>2, <2>3 DEF SetPort, ThreadType
    <3>2. \A j \in Junk : Copy(ip, j)' = Copy(ip, j)
      BY <1>1 DEF Copy
    <3> QED  BY <1>1, <1>2, <3>1, <3>2 DEF Holds
  <2> QED  BY <2>1, <2>2, <2>3 DEF ThreadStep
<1>4. \A u \in Threads \ {t} : Holds(u)'
  <2>1. \A u \in Threads \ {t} : thread'[u] = thread[u]
    BY <1>2 DEF ThreadStep, OpenFile, InitRtp, SetPort
  <2>2. \A u \in Threads : Holds(u)
    BY DEF ThreadInv
  <2>3. \A j : Copy(ip, j)' = Copy(ip, j)
    BY <1>1 DEF Copy
  <2> QED  BY <1>1, <2>1, <2>2, <2>3 DEF Holds
<1> QED  BY <1>3, <1>4 DEF ThreadInv, Holds

\* What a thread has, at every step.
LEMMA ThreadInvStep ==
  ASSUME TypeInv, OnlyRequests, ReadInv, StoredInv, ThreadInv, [Next]_vars
  PROVE  ThreadInv'
<1>1. CASE NewClient
  BY <1>1 DEF NewClient, ThreadInv, Holds
<1>2. CASE Respond
  <2>1. pc = "respond" /\ client' = client
    BY <1>2 DEF Respond
  <2>2. CASE Options \/ NoReply
    <3>1. UNCHANGED <<client, filePath, ip, rtpPort, thread, calm>>
      BY <2>1, <2>2 DEF Options, NoReply, respVars
    <3> QED  BY <3>1 DEF ThreadInv, Holds, Copy
  <2>3. CASE Describe \/ SetupReply
    BY <2>3 DEF Describe, SetupReply, ThreadInv, Holds
  <2>4. CASE Play
    BY <2>1, <2>4, ThreadPlay
  <2> QED  BY <1>2, <2>2, <2>3, <2>4 DEF Respond
<1>3. ASSUME NEW t \in Threads, ThreadStep(t) PROVE ThreadInv'
  BY <1>3, ThreadReads
<1>4. CASE Send \/ Read \/ Process \/ Parse \/ ParseEnd \/ Written \/ UNCHANGED vars
  <2>1. UNCHANGED <<client, filePath, ip, rtpPort, thread, calm>>
    BY <1>4 DEF Send, Read, Process, Parse, ParseEnd, Written, vars, respVars, histVars
  <2> QED  BY <2>1 DEF ThreadInv, Holds, Copy
<1> QED  BY <1>1, <1>2, <1>3, <1>4 DEF Next, Serve

\* H264Parser's assertion, at every step.
LEMMA PlaysStep ==
  ASSUME TypeInv, ThreadInv, DescribedPlays, [Next]_vars
  PROVE  DescribedPlays'
<1> SUFFICES ASSUME abort' = "file"
             PROVE  \E t \in Threads :
                      thread'[t].at = "spawned" /\ ~(calm'[t] /\ thread'[t].want.file \in Files)
  BY DEF DescribedPlays
<1>1. CASE UNCHANGED vars
  BY <1>1 DEF vars, DescribedPlays, histVars
<1>2. CASE Next
  <2>1. PICK t \in Threads : ThreadStep(t)
    BY <1>2 DEF Next, Send, NewClient, Read, Serve, Process, Parse, Common, Setup, OtherLine,
                ParseEnd, Respond, Written
  <2>2. /\ filePath \notin Files /\ UNCHANGED <<thread, calm>> /\ thread[t].at = "spawned"
    <3>1. abort # "file"
      BY <1>2 DEF Next
    <3> QED  BY <2>1, <3>1 DEF ThreadStep, OpenFile, InitRtp, SetPort, histVars
  <2>3. ~(calm[t] /\ thread[t].want.file \in Files)
    BY <2>2, RtspAssumption DEF ThreadInv, Holds
  <2> QED  BY <2>2, <2>3
<1> QED  BY <1>1, <1>2
-----------------------------------------------------------------------------
(* The theorems. *)

\* The initial state.
LEMMA InitInv == Init => IInv
<1> SUFFICES ASSUME Init PROVE IInv
  OBVIOUS
<1>1. TypeInv
  BY InitType
<1>2. ReadInv
  BY DEF Init, ReadInv, Busy
<1>3. ReplyInv
  BY NoReplies DEF Init
<1>4. StoredInv
  <2>1. Handled <= 0 /\ Handled \in Int
    BY DEF Init, Handled, Busy
  <2>2. \A meth : LastOf(meth, Handled) = {}
    BY <2>1 DEF LastOf, OfMethod
  <2> QED  BY <2>2 DEF StoredInv
<1>5. AddressInv
  <2> SUFFICES ASSUME Junk = {<< >>}
               PROVE  /\ \E c \in 1..client : Len(ip) <= Len(IpOf(c))
                      /\ ip = IpOf(client)
    BY DEF AddressInv
  <2>1. client = 1 /\ ip = Copy(IpOf(1), << >>)
    BY DEF Init
  <2>2. IpOf(1) \in Seq(Nat) /\ << >> \in Seq(Nat) /\ Len(<< >>) = 0 /\ Len(IpOf(1)) \in Nat
    BY ConstantTypes
  <2>3. ip = IpOf(1)
    <3>1. Len(<< >>) <= Len(IpOf(1))
      BY <2>2
    <3> QED  BY <2>1, <2>2, <3>1, CopyCorrect
  <2> QED  BY <2>1, <2>2, <2>3
<1>6. ThreadInv
  BY DEF Init, ThreadInv, Holds, NewThread
<1>7. DescribedPlays
  BY DEF Init, DescribedPlays
<1> QED  BY <1>1, <1>2, <1>3, <1>4, <1>5, <1>6, <1>7 DEF IInv

\* Every step.
LEMMA StepInv == ASSUME OnlyRequests, IInv, [Next]_vars PROVE IInv'
BY StepType, ReadInvStep, ReplyInvStep, StoredInvStep, AddressInvStep, ThreadInvStep, PlaysStep
   DEF IInv

\* Every reachable state.
LEMMA Invariance == ASSUME OnlyRequests PROVE Spec => []IInv
BY InitInv, StepInv, PTL DEF Spec

\* The answers.
LEMMA Answered == ASSUME OnlyRequests, IInv PROVE AnsweredOnce
<1> SUFFICES ASSUME clean PROVE AnsweredOnce
  BY DEF AnsweredOnce
<1> DEFINE n == Len(got)
           answerable == {k \in 1..n : MethodOf(got[k]) # "TEARDOWN"}
           place(k) == Cardinality({l \in answerable : l <= k})
<1>1. n \in Nat /\ Handled \in {n, n - 1} /\ (Busy => n >= 1) /\ MaxReplies \in Nat
      /\ replies \in Seq(ReplyType) /\ Len(replies) \in Nat
  <2>1. replies \in Seq(ReplyType) /\ got \in Seq(Messages) /\ MaxReplies \in Nat
    BY ConstantTypes DEF IInv, TypeInv
  <2>2. (Busy => n >= 1) /\ Handled \in {n, n - 1}
    BY DEF IInv, ReadInv, Handled
  <2> QED  BY <2>1, <2>2
<1>2. answerable = Answerable(n) /\ Cardinality(answerable) = Count(n)
  BY DEF Answerable, Count
<1>3. \A k \in 1..n : {l \in answerable : l <= k} = Answerable(k)
  BY <1>1 DEF Answerable
<1>4. \A k \in 1..n : place(k) = Count(k)
  BY <1>3 DEF Count
<1> HIDE DEF answerable, place
<1>5. /\ Len(replies) = IF Count(Handled) <= MaxReplies THEN Count(Handled) ELSE MaxReplies
      /\ \A k \in Answerable(Handled) :
           Count(k) <= Len(replies) => Answers(replies[Count(k)], k)
  BY DEF IInv, ReplyInv
<1>6. Handled \in Nat /\ Count(Handled) \in Nat /\ Count(n) \in Nat /\ Count(Handled) <= Count(n)
  <2>1. Handled \in Nat
    BY <1>1 DEF Handled
  <2>2. CASE Handled = n
    BY <1>1, <2>2, CountNext
  <2>3. CASE Handled = n - 1
    <3>1. Handled + 1 = n
      BY <1>1, <2>3
    <3>2. /\ Count(Handled) \in Nat
          /\ Count(Handled + 1) \in {Count(Handled), Count(Handled) + 1}
      BY <2>1, CountNext
    <3> QED  BY <1>1, <2>1, <2>3, <3>1, <3>2
  <2> QED  BY <1>1, <2>2, <2>3
<1>7. Len(replies) <= Count(n)
  BY <1>1, <1>5, <1>6
<1>8. pc = "in" /\ Len(replies) < MaxReplies => Len(replies) = Count(n)
  <2>1. pc = "in" => Handled = n
    BY DEF Handled, Busy
  <2> QED  BY <1>1, <1>5, <1>6, <2>1
<1>9. ASSUME NEW k \in answerable, place(k) <= Len(replies)
      PROVE  Answers(replies[place(k)], k)
  <2>1. k \in 1..n /\ k \in Answerable(n) /\ place(k) = Count(k)
    BY <1>2, <1>4, <1>9 DEF Answerable
  <2>2. k \in Answerable(Handled)
    <3>1. CASE Handled = n
      BY <2>1, <3>1
    <3>2. CASE Handled = n - 1
      <4>1. Handled + 1 = n
        BY <1>1, <3>2
      <4>2. k # n
        <5>1. n \in Answerable(n) => Count(n) = Count(Handled) + 1
          BY <1>6, <4>1, CountNext
        <5> QED  BY <1>1, <1>5, <1>6, <1>9, <2>1, <5>1
      <4> QED  BY <1>6, <2>1, <4>1, <4>2, CountNext
    <3> QED  BY <1>1, <3>1, <3>2
  <2> QED  BY <1>5, <1>9, <2>1, <2>2
<1> QED  BY <1>2, <1>7, <1>8, <1>9 DEF AnsweredOnce, Answers, answerable, place

\* The stream.
LEMMA Streamed == ASSUME IInv PROVE GoesToItsClient
<1> SUFFICES ASSUME NEW t \in Threads, thread[t].at = "streaming", calm[t]
             PROVE  LET want == thread[t].want
                        clear == Junk = {<< >>} /\ \A c \in 1..want.client :
                                                    Len(IpOf(c)) <= Len(IpOf(want.client))
                    IN /\ want.file # Nothing => thread[t].file = want.file
                       /\ want.port # 0 => thread[t].port = want.port
                       /\ clear => thread[t].ip = IpOf(want.client)
  BY DEF GoesToItsClient
<1>1. /\ thread[t].want.client = client
      /\ thread[t].want.file # Nothing => filePath = thread[t].want.file
      /\ thread[t].want.port # 0 => rtpPort = thread[t].want.port
      /\ thread[t].file = filePath /\ thread[t].port = rtpPort
      /\ \E j \in Junk : thread[t].ip = Copy(ip, j)
  BY DEF IInv, ThreadInv, Holds
<1>2. ASSUME Junk = {<< >>}, \A c \in 1..client : Len(IpOf(c)) <= Len(IpOf(client))
      PROVE  thread[t].ip = IpOf(client)
  <2>1. ip = IpOf(client) /\ ip \in Seq(Nat)
    BY <1>2 DEF IInv, AddressInv, TypeInv
  <2>2. << >> \in Seq(Nat) /\ Len(<< >>) <= Len(ip)
    BY <2>1
  <2>3. Copy(ip, << >>) = ip
    BY <2>1, <2>2, CopyCorrect
  <2> QED  BY <1>1, <1>2, <2>1, <2>3
<1> QED  BY <1>1, <1>2

\* Requests that are read one at a time are answered once and in order, each
\* with its own method, CSeq and, in a SETUP, port: RtspRequest::parse
\* (rtsprequest.cpp:35) and RtspReponse::makeResponeStr (rtspresponse.cpp:24)
\* leave nothing of one request in the answer to the next.
THEOREM RequestsAnsweredOnce == ASSUME OnlyRequests PROVE Spec => []AnsweredOnce
BY Invariance, Answered, PTL

\* The thread of PLAY, which is given only a pointer to the connection object
\* (rtspresponse.cpp:72), streams what its client described to where its client
\* is, while no DESCRIBE, SETUP or other client comes between.
THEOREM StreamsGoToTheirClient == ASSUME OnlyRequests PROVE Spec => []GoesToItsClient
BY Invariance, Streamed, PTL

\* H264Parser's assertion (h264parser.cpp:8) ends the server only for a PLAY
\* whose client had described no file that exists, or was disturbed.
THEOREM DescribedStreamsPlay == ASSUME OnlyRequests PROVE Spec => []DescribedPlays
<1>1. IInv => DescribedPlays
  BY DEF IInv
<1> QED  BY <1>1, Invariance, PTL
=============================================================================
