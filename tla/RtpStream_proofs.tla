------------------------- MODULE RtpStream_proofs -------------------------
(* Proofs about RtpStream, for every file, MaxData and SeqMod: the search   *)
(* for start codes stays inside the file and finds the first one, a unit is *)
(* cut into fragments that cover it, packets follow each other, the stream  *)
(* ends, and what a receiver makes of them are the units of the file.      *)
EXTENDS RtpStream, SequenceTheorems, FiniteSetTheorems, WellFoundedInduction, TLAPS

\* Every set of positions that is not empty has a least one.
LEMMA LeastPosition ==
  ASSUME NEW T, T \subseteq Nat, T # {}
  PROVE  \E x \in T : \A y \in T : x <= y
  <1>1. \E x \in T : \A y \in T : ~(<<y, x>> \in OpToRel(<, Nat))
    BY NatLessThanWellFounded, WFMin
  <1>2. \A x, y \in Nat : <<y, x>> \in OpToRel(<, Nat) <=> y < x
    BY DEF OpToRel
  <1>3. \A x, y \in Nat : ~(y < x) => x <= y
    OBVIOUS
  <1> QED BY <1>1, <1>2, <1>3

-----------------------------------------------------------------------------
(* Start codes and frames. *)

\* A start code takes no more bytes than there are.
LEMMA CodeFits ==
  ASSUME NEW f, NEW pos, NEW left \in Int, NEW type \in {3, 4},
         is_start_code(f, pos, left, type)
  PROVE  left >= type
  BY DEF is_start_code

\* The last position find_next_start_code looks at.
LastLooked(pos, left) == IF left > 3 THEN pos + left - 3 ELSE pos

\* What find_next_start_code takes for a start code.
CodeFound(f, pos, left, q) ==
  IF q = LastLooked(pos, left) THEN is_start_code(f, q, 3, 3)
  ELSE \E type \in {3, 4} : is_start_code(f, q, left - (q - pos), type)

\* It finds the first start code, and NoCode only when there is none.
LEMMA FirstCodeFound ==
  ASSUME NEW f, NEW pos \in Nat, NEW left \in Int
  PROVE  LET q == find_next_start_code(f, pos, left) IN
         \/ q = NoCode /\ \A r \in pos..LastLooked(pos, left) : ~CodeFound(f, pos, left, r)
         \/ /\ q \in pos..LastLooked(pos, left) /\ CodeFound(f, pos, left, q)
            /\ \A r \in pos..LastLooked(pos, left) : CodeFound(f, pos, left, r) => q <= r
  <1> DEFINE hits == {q \in pos..LastLooked(pos, left) : CodeFound(f, pos, left, q)}
  <1>1. find_next_start_code(f, pos, left) =
          IF hits = {} THEN NoCode ELSE CHOOSE q \in hits : \A r \in hits : q <= r
    BY DEF find_next_start_code, CodeFound, LastLooked
  <1>2. LastLooked(pos, left) \in Int
    BY DEF LastLooked
  <1>3. hits \subseteq Nat
    BY <1>2
  <1>4. hits # {} => \E q \in hits : \A r \in hits : q <= r
    BY <1>3, LeastPosition
  <1>5. CASE hits = {}
    BY <1>1, <1>5
  <1>6. CASE hits # {}
    <2>1. /\ find_next_start_code(f, pos, left) \in hits
          /\ \A r \in hits : find_next_start_code(f, pos, left) <= r
      BY <1>1, <1>4, <1>6
    <2> QED BY <2>1
  <1> QED BY <1>5, <1>6

\* A frame lies inside the file, and has more bytes than its start code.
LEMMA FrameInFile ==
  ASSUME NEW f \in Seq(Nat), NEW pos \in 0..Len(f)
  PROVE  LET size == get_next_frame(f, pos) IN
         /\ size \in Int /\ size >= -1
         /\ size > 0 => size >= 3 /\ pos + size <= Len(f)
  <1> DEFINE left == Len(f) - pos
             next == find_next_start_code(f, pos + 3, left - 3)
             coded == \E type \in {3, 4} : is_start_code(f, pos, left, type)
  <1>1. Len(f) \in Nat /\ pos \in Nat /\ left \in Nat /\ pos + 3 \in Nat /\ left - 3 \in Int
    OBVIOUS
  <1>2. get_next_frame(f, pos) =
          IF left = 0 THEN 0 ELSE IF ~coded THEN -1 ELSE IF next = NoCode THEN 0 ELSE next - pos
    BY DEF get_next_frame
  <1>3. coded => left >= 3
    BY <1>1, CodeFits
  <1>4. next = NoCode \/ next \in (pos + 3)..LastLooked(pos + 3, left - 3)
    BY <1>1, FirstCodeFound
  <1> HIDE DEF next, coded
  <1>5. coded /\ next # NoCode => next \in Nat /\ next - pos >= 3 /\ next <= Len(f)
    BY <1>1, <1>3, <1>4 DEF LastLooked
  <1> QED BY <1>1, <1>2, <1>5

-----------------------------------------------------------------------------
(* Packets. *)

PacketType ==
  [seq : Nat, ts : Nat, fu : BOOLEAN, end : BOOLEAN, header : Seq(Nat), data : Seq(Nat)]

\* Quotient and rest.
LEMMA Division ==
  ASSUME NEW a \in Nat, NEW c \in Nat \ {0}
  PROVE  /\ a \div c \in Nat /\ a % c \in 0..(c - 1)
         /\ a = c * (a \div c) + (a % c)
  OBVIOUS

\* How many full fragments there are, and what the rest is.
LEMMA FragmentCount ==
  ASSUME NEW d \in Nat
  PROVE  /\ PacketNum(d) \in Nat /\ Remaining(d) \in Int /\ Remaining(d) < MaxData
         /\ d > 0 => d = 1 + PacketNum(d) * MaxData + Remaining(d) /\ Remaining(d) >= 0
         /\ PacketNum(d) = 0 => d <= MaxData
  <1>1. MaxData \in Nat \ {0}
    BY RtpAssumption
  <1>2. CASE d = 0
    BY <1>1, <1>2 DEF PacketNum, Remaining
  <1>3. CASE d > 0
    <2> DEFINE p == (d - 1) \div MaxData
               r == (d - 1) % MaxData
    <2>1. d - 1 \in Nat
      BY <1>3
    <2>2. p \in Nat /\ r \in 0..(MaxData - 1) /\ d - 1 = MaxData * p + r
      BY <1>1, <2>1, Division
    <2>3. PacketNum(d) = p /\ Remaining(d) = r
      BY <1>3 DEF PacketNum, Remaining
    <2> HIDE DEF p, r
    <2>4. MaxData * p = p * MaxData /\ p * MaxData \in Int
      BY <1>1, <2>2
    <2>5. p = 0 => p * MaxData = 0
      BY <1>1
    <2> QED BY <1>1, <1>3, <2>2, <2>3, <2>4, <2>5
  <1> QED BY <1>2, <1>3

\* The number of packets a unit of d bytes makes.
PacketCount(d) ==
  IF PacketNum(d) = 0 THEN 1 ELSE PacketNum(d) + (IF Remaining(d) > 0 THEN 1 ELSE 0)

\* Each fragment begins behind the one before it, all but the last are full,
\* and the last one ends with the unit: the fragments are the unit without its
\* header, whatever its length (rtp.cpp:177-233).
THEOREM FragmentsCorrect ==
  ASSUME NEW nal \in Seq(Nat), PacketNum(Len(nal)) > 0,
         NEW k \in 1..PacketCount(Len(nal))
  PROVE  LET n == PacketCount(Len(nal))
             size == IF k < n THEN MaxData ELSE Len(nal) - 1 - (n - 1) * MaxData
         IN /\ Fragment(nal, k) \in Seq(Nat)
            /\ Len(Fragment(nal, k)) = size /\ size \in 1..MaxData
            /\ \A j \in 1..size : Fragment(nal, k)[j] = nal[(k - 1) * MaxData + 1 + j]
  <1> DEFINE d == Len(nal)
             p == PacketNum(d)
             r == Remaining(d)
             n == PacketCount(d)
             first == (k - 1) * MaxData + 2
             last == IF k > p THEN d ELSE k * MaxData + 1
             size == IF k < n THEN MaxData ELSE d - 1 - (n - 1) * MaxData
  <1>1. /\ MaxData \in Nat \ {0} /\ d \in Nat /\ p \in Nat \ {0} /\ r \in Int /\ r < MaxData
        /\ d > 0 => d = 1 + p * MaxData + r /\ r >= 0
    <2>1. d \in Nat
      OBVIOUS
    <2>2. /\ p \in Nat /\ r \in Int /\ r < MaxData
          /\ d > 0 => d = 1 + p * MaxData + r /\ r >= 0
      BY <2>1, FragmentCount
    <2>3. MaxData \in Nat \ {0} /\ p > 0
      BY RtpAssumption
    <2> HIDE DEF p, r
    <2> QED BY <2>1, <2>2, <2>3
  <1>2. d > 0 /\ d = 1 + p * MaxData + r /\ r \in 0..(MaxData - 1)
    <2>1. d # 0
      BY DEF PacketNum
    <2> QED BY <1>1, <2>1
  <1>3. n = p + (IF r > 0 THEN 1 ELSE 0) /\ n \in Nat /\ k \in Nat \ {0} /\ k <= n
    BY <1>1 DEF PacketCount
  <1> HIDE DEF p, r, n
  <1>4. /\ (k - 1) * MaxData \in Nat /\ k * MaxData = (k - 1) * MaxData + MaxData
        /\ p * MaxData \in Nat
    <2>1. k - 1 \in Nat
      BY <1>3
    <2> QED BY <1>1, <1>3, <2>1
  <1>5. k <= p => k * MaxData <= p * MaxData
    <2>1. ASSUME k <= p PROVE (p - k) * MaxData \in Nat
      <3>1. p - k \in Nat
        BY <1>1, <1>3, <2>1
      <3> QED BY <1>1, <3>1
    <2>2. (p - k) * MaxData = p * MaxData - k * MaxData
      BY <1>1, <1>3
    <2>3. k * MaxData \in Int
      BY <1>1, <1>3
    <2> QED BY <1>4, <2>1, <2>2, <2>3
  <1>6. /\ first \in Nat /\ first >= 2 /\ last \in Int /\ last <= d
        /\ size = last - first + 1 /\ size \in 1..MaxData
    <2>1. CASE k > p
      <3>1. k = p + 1 /\ n = p + 1 /\ r > 0
        BY <1>1, <1>3, <2>1
      <3>2. (k - 1) * MaxData = p * MaxData /\ (n - 1) * MaxData = p * MaxData
        BY <1>1, <3>1
      <3> QED BY <1>1, <1>2, <1>4, <2>1, <3>1, <3>2
    <2>2. CASE k <= p
      <3>1. last = k * MaxData + 1 /\ last <= d
        BY <1>1, <1>2, <1>3, <1>4, <1>5, <2>2
      <3>2. CASE k < n
        BY <1>1, <1>4, <3>1, <3>2
      <3>3. CASE ~(k < n)
        <4>1. k = n /\ n = p /\ r = 0
          BY <1>1, <1>2, <1>3, <2>2, <3>3
        <4>2. (n - 1) * MaxData = (k - 1) * MaxData /\ p * MaxData = k * MaxData
          BY <4>1
        <4> QED BY <1>1, <1>2, <1>4, <3>1, <3>3, <4>1, <4>2
      <3> QED BY <3>2, <3>3
    <2>3. k > p \/ k <= p
      BY <1>1, <1>3
    <2> HIDE DEF first, last, size
    <2> QED BY <2>1, <2>2, <2>3
  <1>7. Fragment(nal, k) = SubSeq(nal, first, last)
    BY DEF Fragment, p
  <1> HIDE DEF first, last, size
  <1>8. \A j \in first..last : nal[j] \in Nat
    BY <1>1, <1>6
  <1>9. /\ SubSeq(nal, first, last) \in Seq(Nat)
        /\ Len(SubSeq(nal, first, last)) = IF first <= last THEN last - first + 1 ELSE 0
        /\ \A j \in 1..(last - first + 1) : SubSeq(nal, first, last)[j] = nal[first + j - 1]
    BY <1>6, <1>8, SubSeqProperties
  <1>10. \A j \in 1..size : first + j - 1 = (k - 1) * MaxData + 1 + j
    BY <1>4, <1>6 DEF first
  <1>11. /\ Fragment(nal, k) \in Seq(Nat)
         /\ Len(Fragment(nal, k)) = size /\ size \in 1..MaxData
         /\ \A j \in 1..size : Fragment(nal, k)[j] = nal[(k - 1) * MaxData + 1 + j]
    <2>1. Fragment(nal, k) \in Seq(Nat) /\ size \in 1..MaxData
      BY <1>6, <1>7, <1>9
    <2>2. first <= last /\ size = last - first + 1
      BY <1>6
    <2>3. Len(Fragment(nal, k)) = size
      BY <1>7, <1>9, <2>2
    <2>4. ASSUME NEW j \in 1..size
          PROVE  Fragment(nal, k)[j] = nal[(k - 1) * MaxData + 1 + j]
      BY <1>7, <1>9, <1>10, <2>2
    <2> QED BY <2>1, <2>3, <2>4
  <1> QED BY <1>11 DEF size, n


\* A rest determines itself.
LEMMA OneRest ==
  ASSUME NEW c \in Nat \ {0}, NEW p \in Nat, NEW q \in Nat,
         NEW r \in 0..(c - 1), NEW s \in 0..(c - 1), c * p + r = c * q + s
  PROVE  r = s
  <1>1. ASSUME NEW x \in Nat, NEW y \in Nat, NEW u \in 0..(c - 1), NEW v \in 0..(c - 1),
               c * x + u = c * y + v, x > y
        PROVE  FALSE
    <2>1. x - y - 1 \in Nat
      BY <1>1
    <2>2. c * (x - y - 1) \in Nat /\ c * y \in Nat
      BY <2>1
    <2>3. c * x = c * y + c + c * (x - y - 1)
      OBVIOUS
    <2> QED BY <1>1, <2>2, <2>3
  <1>2. p = q
    BY <1>1
  <1>3. c * p \in Int
    OBVIOUS
  <1> QED BY <1>2, <1>3

\* A number that wraps follows its predecessor.
LEMMA NextNumber ==
  ASSUME NEW a \in Nat
  PROVE  /\ a % SeqMod \in 0..(SeqMod - 1) /\ a % SeqMod \in Nat
         /\ (a + 1) % SeqMod = ((a % SeqMod) + 1) % SeqMod
  <1>1. SeqMod \in Nat \ {0}
    BY RtpAssumption
  <1> DEFINE q == a \div SeqMod
             r == a % SeqMod
             p == (r + 1) \div SeqMod
             s == (r + 1) % SeqMod
             t == (a + 1) \div SeqMod
             u == (a + 1) % SeqMod
  <1>2. q \in Nat /\ r \in 0..(SeqMod - 1) /\ a = SeqMod * q + r
    BY <1>1, Division
  <1>3. r \in Nat /\ r + 1 \in Nat /\ a + 1 \in Nat
    BY <1>1, <1>2
  <1>4. p \in Nat /\ s \in 0..(SeqMod - 1) /\ r + 1 = SeqMod * p + s
    BY <1>1, <1>3, Division
  <1>5. t \in Nat /\ u \in 0..(SeqMod - 1) /\ a + 1 = SeqMod * t + u
    BY <1>1, <1>3, Division
  <1> HIDE DEF q, r, p, s, t, u
  <1>6. SeqMod * (q + p) = SeqMod * q + SeqMod * p /\ SeqMod * q \in Nat /\ SeqMod * p \in Nat
        /\ q + p \in Nat
    BY <1>1, <1>2, <1>4
  <1>7. SeqMod * t + u = SeqMod * (q + p) + s
    BY <1>1, <1>2, <1>3, <1>4, <1>5, <1>6
  <1>8. u = s
    BY <1>1, <1>4, <1>5, <1>6, <1>7, OneRest
  <1> QED BY <1>2, <1>3, <1>8 DEF r, s, u

\* The packets of one unit: numbers that follow the last one, one time stamp,
\* no more data than allowed, and an end bit in the last packet only.
PacketsFine(ps, base, stamp) ==
  /\ ps \in Seq(PacketType) /\ Len(ps) \in Nat \ {0}
  /\ \A k \in 1..Len(ps) :
       /\ ps[k].seq = (base + k) % SeqMod /\ ps[k].ts = stamp
       /\ Len(ps[k].data) <= MaxData
       /\ k < Len(ps) => ~ps[k].end

\* They are what Packets makes of a unit of any length.
LEMMA PacketsOfUnit ==
  ASSUME NEW nal \in Seq(Nat), NEW base \in Nat, NEW stamp \in Nat
  PROVE  PacketsFine(Packets(nal, base, stamp), base, stamp)
  <1> DEFINE d == Len(nal)
             n == PacketCount(d)
             ps == Packets(nal, base, stamp)
  <1>1. /\ d \in Nat /\ PacketNum(d) \in Nat /\ Remaining(d) \in Int
        /\ PacketNum(d) = 0 => d <= MaxData
        /\ MaxData \in Nat
    <2>1. d \in Nat
      OBVIOUS
    <2> QED BY <2>1, FragmentCount, RtpAssumption
  <1>2. n \in Nat \ {0} /\ n <= PacketNum(d) + 1 /\ (PacketNum(d) = 0 => n = 1)
    BY <1>1 DEF PacketCount
  <1>3. ps = [k \in 1..n |-> Packet(nal, k, base, stamp)]
    BY DEF Packets, PacketCount
  <1>4. ASSUME NEW k \in 1..n
        PROVE  LET packet == Packet(nal, k, base, stamp) IN
               /\ packet \in PacketType
               /\ packet.seq = (base + k) % SeqMod /\ packet.ts = stamp
               /\ Len(packet.data) <= MaxData
               /\ k < n => ~packet.end
    <2> DEFINE packet == Packet(nal, k, base, stamp)
               fu == PacketNum(d) > 0
    <2>1. /\ packet.seq = (base + k) % SeqMod /\ packet.ts = stamp
          /\ packet.fu = fu /\ packet.end = (fu /\ k > PacketNum(d))
          /\ packet.header = (IF fu THEN <<nal[1]>> ELSE << >>)
          /\ packet.data = (IF fu THEN Fragment(nal, k) ELSE nal)
          /\ packet = [seq |-> packet.seq, ts |-> packet.ts, fu |-> packet.fu,
                       end |-> packet.end, header |-> packet.header, data |-> packet.data]
      BY DEF Packet
    <2>2. packet.seq \in Nat
      BY <1>2, <2>1, NextNumber
    <2>3. packet.data \in Seq(Nat) /\ Len(packet.data) <= MaxData
      <3>1. CASE fu
        <4>1. Fragment(nal, k) \in Seq(Nat) /\ Len(Fragment(nal, k)) \in 1..MaxData
          BY <3>1, FragmentsCorrect
        <4> QED BY <1>1, <2>1, <3>1, <4>1
      <3>2. CASE ~fu
        BY <1>1, <2>1, <3>2
      <3> QED BY <3>1, <3>2
    <2>4. packet.header \in Seq(Nat)
      <3>1. fu => d > 0
        BY <1>1 DEF PacketNum
      <3>2. fu => nal[1] \in Nat
        BY <1>1, <3>1
      <3> QED BY <2>1, <3>2
    <2>5. k < n => ~packet.end
      <3>1. k < n => ~(fu /\ k > PacketNum(d))
        BY <1>1, <1>2
      <3>2. packet.end = (fu /\ k > PacketNum(d))
        BY <2>1
      <3> QED BY <3>1, <3>2, Zenon
    <2>6. packet.fu \in BOOLEAN /\ packet.end \in BOOLEAN
      BY <2>1
    <2> HIDE DEF packet
    <2>7. packet \in PacketType
      BY <2>1, <2>2, <2>3, <2>4, <2>6 DEF PacketType
    <2> QED BY <2>1, <2>3, <2>5, <2>7 DEF packet
  <1>5. ps \in Seq(PacketType) /\ Len(ps) = n /\ \A k \in 1..n : ps[k] = Packet(nal, k, base, stamp)
    <2>1. ps \in [1..n -> PacketType]
      BY <1>3, <1>4
    <2> QED BY <1>2, <1>3, <2>1
  <1> HIDE DEF n, ps
  <1>6. \A k \in 1..Len(ps) :
          /\ ps[k].seq = (base + k) % SeqMod /\ ps[k].ts = stamp
          /\ Len(ps[k].data) <= MaxData
          /\ k < Len(ps) => ~ps[k].end
    BY <1>4, <1>5
  <1> QED BY <1>2, <1>5, <1>6 DEF ps, PacketsFine

-----------------------------------------------------------------------------
(* The stream. *)

\* The position stays inside the file.
StreamType ==
  /\ file \in Seq(Nat) /\ cur \in 0..Len(file)
  /\ seq \in Nat /\ ts \in Nat
  /\ sent \in Seq(PacketType)
  /\ at \in {"streaming", "finished", "failed"}

\* m_seq and m_timestamp are those of the last packet.
LastSent == sent # << >> => sent[Len(sent)].seq = seq /\ sent[Len(sent)].ts = ts

StreamInv == StreamType /\ LastSent /\ PacketsFollow

\* No packet has been sent.
LEMMA StreamInit == Init => StreamInv
  <1> SUFFICES ASSUME Init PROVE StreamInv
    OBVIOUS
  <1>1. SeqMod \in Nat \ {0} /\ Contents \subseteq Seq(Nat)
    BY RtpAssumption
  <1>2. file \in Seq(Nat) /\ cur = 0 /\ ts = 100 /\ sent = << >> /\ at = "streaming"
        /\ seq = 100 % SeqMod
    BY <1>1 DEF Init
  <1>3. seq \in Nat
    BY <1>2, NextNumber
  <1>4. sent \in Seq(PacketType) /\ Len(sent) = 0 /\ 1..Len(sent) = {}
    BY <1>2
  <1>5. 0 \in 0..Len(file)
    BY <1>2
  <1> QED BY <1>2, <1>3, <1>4, <1>5 DEF StreamInv, StreamType, LastSent, PacketsFollow

\* One frame: its packets follow those that were sent.
LEMMA FrameStep == ASSUME StreamInv, PushFrame PROVE StreamInv'
  <1> DEFINE nal == Nal(file, cur, Size)
             ps == Packets(nal, seq, ts + 3600)
             m == Len(sent)
  <1>1. /\ file \in Seq(Nat) /\ cur \in 0..Len(file) /\ cur \in Nat /\ Len(file) \in Nat
        /\ seq \in Nat /\ ts \in Nat /\ ts + 3600 \in Nat /\ sent \in Seq(PacketType)
    BY DEF StreamInv, StreamType
  <1>2. Size \in Int /\ Size >= 3 /\ cur + Size <= Len(file)
    BY <1>1, FrameInFile DEF PushFrame, Size
  <1>3. nal \in Seq(Nat)
    <2>1. StartCodeLen(file, cur, Size) \in {3, 4}
      BY DEF StartCodeLen
    <2>2. /\ cur + StartCodeLen(file, cur, Size) + 1 \in Int /\ cur + Size \in Int
          /\ \A k \in (cur + StartCodeLen(file, cur, Size) + 1)..(cur + Size) : file[k] \in Nat
      BY <1>1, <1>2, <2>1
    <2> QED BY <2>2, SubSeqProperties DEF Nal
  <1> HIDE DEF nal
  <1>4. /\ ps \in Seq(PacketType) /\ Len(ps) \in Nat \ {0}
        /\ \A k \in 1..Len(ps) :
             /\ ps[k].seq = (seq + k) % SeqMod /\ ps[k].ts = ts + 3600
             /\ Len(ps[k].data) <= MaxData
             /\ k < Len(ps) => ~ps[k].end
    <2>1. PacketsFine(ps, seq, ts + 3600)
      BY <1>1, <1>3, PacketsOfUnit
    <2> HIDE DEF ps
    <2> QED BY <2>1 DEF PacketsFine
  <1>5. /\ cur' = cur + Size /\ ts' = ts + 3600 /\ seq' = ps[Len(ps)].seq
        /\ sent' = sent \o ps /\ file' = file /\ at' = at
    BY DEF PushFrame, nal
  <1> HIDE DEF ps
  <1>6. /\ sent' \in Seq(PacketType) /\ Len(sent') = m + Len(ps) /\ m \in Nat
        /\ \A k \in 1..(m + Len(ps)) : sent'[k] = IF k <= m THEN sent[k] ELSE ps[k - m]
    BY <1>1, <1>4, <1>5, ConcatProperties
  <1> HIDE DEF m
  <1>7. /\ \A k \in 1..m : sent'[k] = sent[k]
        /\ \A k \in 1..Len(ps) : sent'[m + k] = ps[k]
    <2>1. ASSUME NEW k \in 1..Len(ps) PROVE sent'[m + k] = ps[k]
      <3>1. m + k \in 1..(m + Len(ps)) /\ ~(m + k <= m) /\ (m + k) - m = k
        BY <1>4, <1>6
      <3> QED BY <1>6, <3>1
    <2>2. ASSUME NEW k \in 1..m PROVE sent'[k] = sent[k]
      BY <1>4, <1>6
    <2> QED BY <2>1, <2>2
  <1>8. Len(ps) \in 1..Len(ps) /\ 1 \in 1..Len(ps)
    BY <1>4
  <1>9. StreamType'
    <2>1. seq' \in Nat
      <3>1. ps[Len(ps)] \in PacketType
        BY <1>4, <1>8
      <3> QED BY <1>5, <3>1 DEF PacketType
    <2>2. cur' \in 0..Len(file')
      BY <1>1, <1>2, <1>5
    <2> QED BY <1>1, <1>5, <1>6, <2>1, <2>2 DEF StreamInv, StreamType
  <1>10. LastSent'
    <2>1. sent'[Len(sent')] = ps[Len(ps)]
      BY <1>6, <1>7, <1>8
    <2> QED BY <1>4, <1>5, <1>8, <2>1 DEF LastSent
  <1>11. ASSUME NEW k \in 1..Len(sent')
         PROVE  /\ Len(sent'[k].data) <= MaxData
                /\ k < Len(sent') =>
                     /\ sent'[k + 1].seq = (sent'[k].seq + 1) % SeqMod
                     /\ sent'[k + 1].ts \in {sent'[k].ts, sent'[k].ts + 3600}
                     /\ sent'[k].end => sent'[k + 1].ts # sent'[k].ts
    <2>1. CASE k < m
      <3>1. k \in 1..m /\ k + 1 \in 1..m
        BY <1>6, <2>1
      <3>2. sent'[k] = sent[k] /\ sent'[k + 1] = sent[k + 1]
        BY <1>7, <3>1
      <3> QED BY <2>1, <3>1, <3>2 DEF StreamInv, PacketsFollow, m
    <2>2. CASE k = m
      <3>1. k \in 1..m /\ sent'[k] = sent[k] /\ sent'[k + 1] = ps[1]
        BY <1>6, <1>7, <1>8, <2>2
      <3>2. Len(sent[k].data) <= MaxData
        BY <3>1 DEF StreamInv, PacketsFollow, m
      <3>3. sent[k].seq = seq /\ sent[k].ts = ts
        <4>1. sent # << >>
          BY <1>1, <3>1 DEF m
        <4> QED BY <2>2, <4>1 DEF StreamInv, LastSent, m
      <3>4. ps[1].seq = (seq + 1) % SeqMod /\ ps[1].ts = ts + 3600
        BY <1>4, <1>8
      <3>5. ts + 3600 # ts
        BY <1>1
      <3> QED BY <3>1, <3>2, <3>3, <3>4, <3>5
    <2>3. CASE k > m
      <3> DEFINE j == k - m
      <3>1. j \in 1..Len(ps) /\ k = m + j /\ (k < Len(sent') <=> j < Len(ps))
        BY <1>4, <1>6, <2>3
      <3> HIDE DEF j
      <3>2. sent'[k] = ps[j]
        BY <1>7, <3>1
      <3>3. CASE ~(j < Len(ps))
        BY <1>4, <3>1, <3>2, <3>3
      <3>4. CASE j < Len(ps)
        <4>1. j + 1 \in 1..Len(ps) /\ m + (j + 1) = k + 1 /\ seq + j \in Nat
              /\ seq + (j + 1) = (seq + j) + 1
          BY <1>1, <1>4, <1>6, <3>1, <3>4
        <4>2. sent'[k + 1] = ps[j + 1]
          BY <1>7, <4>1
        <4>3. ps[j + 1].seq = (ps[j].seq + 1) % SeqMod
          <5>1. ps[j + 1].seq = (seq + (j + 1)) % SeqMod
            BY <1>4, <4>1
          <5>2. ps[j].seq = (seq + j) % SeqMod
            BY <1>4, <3>1
          <5>3. ((seq + j) + 1) % SeqMod = (((seq + j) % SeqMod) + 1) % SeqMod
            BY <4>1, NextNumber
          <5> QED BY <4>1, <5>1, <5>2, <5>3
        <4>4. ps[j + 1].ts = ps[j].ts /\ ~ps[j].end /\ Len(ps[j].data) <= MaxData
          BY <1>4, <3>1, <3>4, <4>1
        <4> QED BY <3>2, <4>2, <4>3, <4>4
      <3> QED BY <3>3, <3>4
    <2> QED BY <1>6, <2>1, <2>2, <2>3
  <1>12. PacketsFollow'
    BY <1>11 DEF PacketsFollow
  <1> QED BY <1>9, <1>10, <1>12 DEF StreamInv

\* The invariant is kept.
LEMMA StreamStep == StreamInv /\ [Next]_vars => StreamInv'
  <1> SUFFICES ASSUME StreamInv, [Next]_vars PROVE StreamInv'
    OBVIOUS
  <1>1. CASE PushFrame
    BY <1>1, FrameStep
  <1>2. CASE PushEnds \/ UNCHANGED vars
    <2>1. /\ UNCHANGED <<file, cur, seq, ts, sent>>
          /\ at' \in {at, "failed", "finished"}
      BY <1>2 DEF PushEnds, vars
    <2>2. StreamType'
      BY <2>1 DEF StreamInv, StreamType
    <2>3. LastSent'
      BY <2>1 DEF StreamInv, LastSent
    <2>4. PacketsFollow'
      <3>1. sent' = sent
        BY <2>1
      <3> QED BY <3>1 DEF StreamInv, PacketsFollow
    <2> QED BY <2>2, <2>3, <2>4 DEF StreamInv
  <1> QED BY <1>1, <1>2 DEF Next

\* The position never leaves the file and the packets are well formed
\* (h264parser.cpp:46-79, rtp.cpp:143-235), for every file.
THEOREM StreamCorrect == Spec => []StreamInv
  <1> QED BY StreamInit, StreamStep, PTL DEF Spec

\* Packets follow each other, over frames, fragments and the wrap of the
\* sequence number, for every file, MaxData and SeqMod (rtp.cpp:120-141, 183-233).
THEOREM PacketsFollowCorrect == Spec => []PacketsFollow
  <1>1. StreamInv => PacketsFollow
    BY DEF StreamInv
  <1> QED BY <1>1, StreamCorrect, PTL

\* Each round of pushStream's loop goes on in the file, or leaves the loop.
StreamShortens ==
  /\ PushFrame => file' = file /\ cur + 3 <= cur' /\ cur' <= Len(file)
  /\ PushEnds => at' # "streaming"

\* pushStream returns, for every file, also one with nothing between two start
\* codes (rtp.cpp:157-172): a frame has at least the three bytes of its start
\* code, and the position never goes back.
THEOREM StreamShortensCorrect == Spec => [][StreamShortens]_vars
  <1>1. StreamInv /\ Next => StreamShortens
    <2> SUFFICES ASSUME StreamInv, Next PROVE StreamShortens
      OBVIOUS
    <2>1. ASSUME PushFrame PROVE file' = file /\ cur + 3 <= cur' /\ cur' <= Len(file)
      <3>1. file' = file /\ cur' = cur + Size /\ Size > 0 /\ cur \in 0..Len(file)
        BY <2>1 DEF PushFrame, StreamInv, StreamType
      <3>2. Size >= 3 /\ Size \in Int /\ cur + Size <= Len(file)
        BY <3>1, FrameInFile DEF Size, StreamInv, StreamType
      <3> QED BY <3>1, <3>2
    <2>2. ASSUME PushEnds PROVE at' # "streaming"
      BY <2>2 DEF PushEnds
    <2> QED BY <2>1, <2>2 DEF StreamShortens
  <1>2. StreamInv /\ [Next]_vars => StreamInv'
    BY StreamStep
  <1> QED BY <1>1, <1>2, StreamInit, PTL DEF Spec
-----------------------------------------------------------------------------
(* Start codes and units. *)

\* The start code at k takes part in the frame that begins at pos.
CodeAt(f, pos, k) == k \in Codes(f) /\ (k = pos + 1 \/ (k = pos + 2 /\ f[pos + 1] = 0))

\* What is_start_code looks for, in terms of Codes.
LEMMA CodeOfThree ==
  ASSUME NEW f \in Seq(Nat), NEW pos \in Nat, NEW left \in Int
  PROVE  is_start_code(f, pos, left, 3) <=> left >= 3 /\ pos + 1 \in Codes(f)
  <1>1. Len(f) \in Nat /\ pos + 0 = pos
    OBVIOUS
  <1>2. is_start_code(f, pos, left, 3) <=>
          /\ left >= 3 /\ At(f, pos) = 0 /\ At(f, pos + 1) = 0 /\ At(f, pos + 2) = 1
    <2>1. \A k \in 0..(3 - 2) : k = 0 \/ k = 1
      OBVIOUS
    <2>2. 0 \in 0..(3 - 2) /\ 1 \in 0..(3 - 2) /\ pos + 3 - 1 = pos + 2
      OBVIOUS
    <2> QED BY <1>1, <2>1, <2>2 DEF is_start_code
  <1>3. At(f, pos + 2) = 1 => pos + 2 < Len(f)
    BY <1>1 DEF At
  <1>4. pos + 2 < Len(f) =>
          (At(f, pos) = 0 /\ At(f, pos + 1) = 0 /\ At(f, pos + 2) = 1 <=> pos + 1 \in Codes(f))
    BY <1>1 DEF At, Codes
  <1>5. pos + 1 \in Codes(f) => pos + 2 < Len(f)
    BY <1>1 DEF Codes
  <1> QED BY <1>2, <1>3, <1>4, <1>5

LEMMA CodeOfFour ==
  ASSUME NEW f \in Seq(Nat), NEW pos \in Nat, NEW left \in Int
  PROVE  is_start_code(f, pos, left, 4) <=> left >= 4 /\ f[pos + 1] = 0 /\ pos + 2 \in Codes(f)
  <1>1. Len(f) \in Nat /\ pos + 0 = pos
    OBVIOUS
  <1>2. is_start_code(f, pos, left, 4) <=>
          /\ left >= 4 /\ At(f, pos) = 0 /\ At(f, pos + 1) = 0 /\ At(f, pos + 2) = 0
          /\ At(f, pos + 3) = 1
    <2>1. \A k \in 0..(4 - 2) : k = 0 \/ k = 1 \/ k = 2
      OBVIOUS
    <2>2. 0 \in 0..(4 - 2) /\ 1 \in 0..(4 - 2) /\ 2 \in 0..(4 - 2) /\ pos + 4 - 1 = pos + 3
      OBVIOUS
    <2> QED BY <1>1, <2>1, <2>2 DEF is_start_code
  <1>3. At(f, pos + 3) = 1 => pos + 3 < Len(f)
    BY <1>1 DEF At
  <1>4. pos + 3 < Len(f) =>
          ((At(f, pos) = 0 /\ At(f, pos + 1) = 0 /\ At(f, pos + 2) = 0 /\ At(f, pos + 3) = 1)
             <=> (f[pos + 1] = 0 /\ pos + 2 \in Codes(f)))
    BY <1>1 DEF At, Codes
  <1>5. pos + 2 \in Codes(f) => pos + 3 < Len(f)
    BY <1>1 DEF Codes
  <1> QED BY <1>2, <1>3, <1>4, <1>5

\* Codes do not overlap.
LEMMA CodesApart ==
  ASSUME NEW f \in Seq(Nat), NEW k \in Codes(f), NEW l \in Codes(f), l > k
  PROVE  k \in Nat /\ l \in Nat /\ l >= k + 3 /\ f[k + 2] = 1 /\ l <= Len(f) - 2
  <1>1. /\ Len(f) \in Nat /\ k \in Nat /\ l \in Nat /\ l <= Len(f) - 2
        /\ f[k] = 0 /\ f[k + 1] = 0 /\ f[k + 2] = 1
        /\ f[l] = 0 /\ f[l + 1] = 0 /\ f[l + 2] = 1
    BY DEF Codes
  <1>2. l # k + 1 /\ l # k + 2
    <2>1. CASE l = k + 1
      <3>1. l + 1 = k + 2
        BY <1>1, <2>1
      <3> QED BY <1>1, <3>1
    <2>2. CASE l = k + 2
      BY <1>1, <2>2
    <2> QED BY <2>1, <2>2
  <1> QED BY <1>1, <1>2

\* The start code behind the one at k.
IsNext(f, k, l) == l \in Codes(f) /\ l > k /\ \A m \in Codes(f) : m > k => l <= m

LEMMA NextExists ==
  ASSUME NEW f \in Seq(Nat), NEW k \in Codes(f), \E l \in Codes(f) : l > k
  PROVE  \E l \in Codes(f) : IsNext(f, k, l)
  <1>1. Codes(f) \subseteq Nat
    BY DEF Codes
  <1>2. {l \in Codes(f) : l > k} \subseteq Nat /\ {l \in Codes(f) : l > k} # {}
    BY <1>1
  <1>3. \E l \in {l \in Codes(f) : l > k} : \A m \in {l_1 \in Codes(f) : l_1 > k} : l <= m
    BY <1>2, LeastPosition
  <1> QED BY <1>3 DEF IsNext

\* The unit at k, by the start code behind it.
LEMMA UnitIs ==
  ASSUME NEW f \in Seq(Nat), NEW k \in Codes(f), NEW l, IsNext(f, k, l)
  PROVE  Unit(f, k) = SubSeq(f, k + 3, IF l > k + 3 /\ f[l - 1] = 0 THEN l - 2 ELSE l - 1)
  <1> DEFINE later == {m \in Codes(f) : m > k}
             stop == CHOOSE x \in later : \A m \in later : x <= m
  <1>1. l \in later /\ \A m \in later : l <= m
    BY DEF IsNext
  <1>2. stop \in later /\ \A m \in later : stop <= m
    BY <1>1
  <1>3. stop = l
    <2>1. \A m \in later : m \in Nat
      BY DEF Codes
    <2> HIDE DEF stop, later
    <2>2. stop <= l /\ l <= stop /\ stop \in Nat /\ l \in Nat
      BY <1>1, <1>2, <2>1
    <2> QED BY <2>2
  <1>4. Unit(f, k) = SubSeq(f, k + 3, IF stop > k + 3 /\ f[stop - 1] = 0 THEN stop - 2 ELSE stop - 1)
    BY DEF Unit
  <1> HIDE DEF stop
  <1> QED BY <1>3, <1>4

\* Where a search that begins behind the code at k finds one.
LEMMA FoundIsCode ==
  ASSUME NEW f \in Seq(Nat), NEW p \in Nat, p <= Len(f), NEW q \in p..LastLooked(p, Len(f) - p)
  PROVE  CodeFound(f, p, Len(f) - p, q) <=>
           q + 1 \in Codes(f) \/ (f[q + 1] = 0 /\ q + 2 \in Codes(f) /\ q < LastLooked(p, Len(f) - p))
  <1> DEFINE left == Len(f) - p
             last == LastLooked(p, left)
  <1>1. Len(f) \in Nat /\ left \in Nat /\ last \in Nat /\ last = (IF left > 3 THEN Len(f) - 3 ELSE p)
        /\ q \in Nat /\ p <= q /\ q <= last /\ left - (q - p) = Len(f) - q
    BY DEF LastLooked
  <1> HIDE DEF last, left
  <1>2. CASE q = last
    <2>1. CodeFound(f, p, left, q) <=> is_start_code(f, q, 3, 3)
      BY <1>2 DEF CodeFound, last
    <2>2. is_start_code(f, q, 3, 3) <=> q + 1 \in Codes(f)
      <3> DEFINE three == 3
      <3>1. three \in Int /\ three >= 3 /\ q \in Nat
        BY <1>1
      <3> HIDE DEF three
      <3>2. is_start_code(f, q, three, 3) <=> three >= 3 /\ q + 1 \in Codes(f)
        BY <3>1, CodeOfThree
      <3> QED BY <3>1, <3>2 DEF three
    <2>3. ~(q < last)
      BY <1>1, <1>2
    <2> QED BY <2>1, <2>2, <2>3 DEF last, left
  <1>3. CASE q # last
    <2>1. Len(f) - q >= 4 /\ Len(f) - q >= 3 /\ Len(f) - q \in Int
      BY <1>1, <1>3
    <2>2. CodeFound(f, p, left, q) <=> is_start_code(f, q, Len(f) - q, 3) \/ is_start_code(f, q, Len(f) - q, 4)
      BY <1>1, <1>3 DEF CodeFound, last
    <2>3. q < last
      BY <1>1, <1>3
    <2>4. is_start_code(f, q, Len(f) - q, 3) <=> q + 1 \in Codes(f)
      <3>1. is_start_code(f, q, Len(f) - q, 3) <=> Len(f) - q >= 3 /\ q + 1 \in Codes(f)
        BY <1>1, <2>1, CodeOfThree
      <3> QED BY <2>1, <3>1
    <2>5. is_start_code(f, q, Len(f) - q, 4) <=> f[q + 1] = 0 /\ q + 2 \in Codes(f)
      BY <1>1, <2>1, CodeOfFour
    <2> QED BY <2>2, <2>3, <2>4, <2>5 DEF last, left
  <1> QED BY <1>2, <1>3

\* Where the next frame begins.
NextPos(f, k, l) == IF l > k + 3 /\ f[l - 1] = 0 THEN l - 2 ELSE l - 1

\* A frame that begins with a start code ends where the next one begins, and
\* without a next one there is no frame (h264parser.cpp:26-79).
LEMMA FrameEnds ==
  ASSUME NEW f \in Seq(Nat), NEW pos \in Nat, NEW k, CodeAt(f, pos, k)
  PROVE  /\ (~\E l \in Codes(f) : l > k) => get_next_frame(f, pos) = 0
         /\ \A l : IsNext(f, k, l) =>
              /\ get_next_frame(f, pos) = NextPos(f, k, l) - pos
              /\ NextPos(f, k, l) \in Nat /\ NextPos(f, k, l) >= k + 2
              /\ CodeAt(f, NextPos(f, k, l), l)
  <1> DEFINE p == pos + 3
             left == Len(f) - p
             next == find_next_start_code(f, p, left)
             last == LastLooked(p, left)
  <1>1. /\ Len(f) \in Nat /\ k \in Nat /\ k \in Codes(f) /\ k <= Len(f) - 2 /\ f[k] = 0
        /\ f[k + 1] = 0 /\ f[k + 2] = 1
        /\ k = pos + 1 \/ (k = pos + 2 /\ f[pos + 1] = 0)
    BY DEF CodeAt, Codes
  <1>2. /\ p \in Nat /\ p = pos + 3 /\ p <= Len(f) /\ left \in Nat /\ left = (Len(f) - pos) - 3
        /\ p \in {k + 1, k + 2} /\ Len(f) - pos \in Int /\ Len(f) - pos >= 3
        /\ p = k + 1 => Len(f) - pos >= 4
        /\ last \in Nat /\ last = (IF left > 3 THEN Len(f) - 3 ELSE p)
    BY <1>1 DEF LastLooked
  <1>3. \E type \in {3, 4} : is_start_code(f, pos, Len(f) - pos, type)
    <2>1. CASE k = pos + 1
      <3>1. is_start_code(f, pos, Len(f) - pos, 3) <=> Len(f) - pos >= 3 /\ pos + 1 \in Codes(f)
        BY <1>2, CodeOfThree
      <3> QED BY <1>1, <1>2, <2>1, <3>1
    <2>2. CASE k = pos + 2 /\ f[pos + 1] = 0
      <3>1. is_start_code(f, pos, Len(f) - pos, 4)
              <=> Len(f) - pos >= 4 /\ f[pos + 1] = 0 /\ pos + 2 \in Codes(f)
        BY <1>2, CodeOfFour
      <3> QED BY <1>1, <1>2, <2>2, <3>1
    <2> QED BY <1>1, <2>1, <2>2
  <1>4. get_next_frame(f, pos) = IF next = NoCode THEN 0 ELSE next - pos
    <2> DEFINE all == Len(f) - pos
               coded == \E type \in {3, 4} : is_start_code(f, pos, all, type)
               found == find_next_start_code(f, pos + 3, all - 3)
    <2>1. get_next_frame(f, pos) =
            IF all = 0 THEN 0
            ELSE IF ~coded THEN -1 ELSE IF found = NoCode THEN 0 ELSE found - pos
      BY DEF get_next_frame
    <2>2. found = next
      BY <1>2
    <2>3. all # 0
      <3>1. all \in Int /\ all >= 3
        BY <1>2
      <3> HIDE DEF all
      <3> QED BY <3>1
    <2>4. coded
      BY <1>3
    <2> HIDE DEF all, coded, found, next
    <2> QED BY <2>1, <2>2, <2>3, <2>4
  <1>5. \/ next = NoCode /\ \A q \in p..last : ~CodeFound(f, p, left, q)
        \/ /\ next \in p..last /\ CodeFound(f, p, left, next)
           /\ \A q \in p..last : CodeFound(f, p, left, q) => next <= q
    <2>1. p \in Nat /\ left \in Int
      BY <1>2
    <2> HIDE DEF p, left
    <2> QED BY <2>1, FirstCodeFound
  <1>6. \A q \in p..last : CodeFound(f, p, left, q) <=>
          q + 1 \in Codes(f) \/ (f[q + 1] = 0 /\ q + 2 \in Codes(f) /\ q < last)
    BY <1>2, FoundIsCode
  <1> HIDE DEF next, last, left, p
  <1>7. \A l \in Codes(f) : l \in Nat /\ l <= Len(f) - 2
    BY <1>1 DEF Codes
  <1>10. p \in Nat /\ k \in Nat /\ last \in Nat /\ Len(f) \in Nat /\ p > k
    <2>1. p = k + 1 \/ p = k + 2
      BY <1>2
    <2>2. k \in Nat
      BY <1>1
    <2> QED BY <1>1, <1>2, <2>1, <2>2
  <1>11. \A q \in p..last : q \in Nat /\ q >= p /\ q + 1 > k /\ q + 2 > k
    BY <1>10
  <1>12. Len(f) - 3 <= last
    <2>1. CASE left > 3
      BY <1>2, <1>10, <2>1
    <2>2. CASE ~(left > 3)
      <3>1. last = p
        BY <1>2, <2>2
      <3>2. left = Len(f) - p
        BY <1>1 DEF left, p, CodeAt
      <3> QED BY <1>10, <2>2, <3>1, <3>2
    <2> QED BY <2>1, <2>2
  <1>8. ASSUME ~\E l \in Codes(f) : l > k PROVE get_next_frame(f, pos) = 0
    <2>1. \A q \in p..last : ~CodeFound(f, p, left, q)
      <3>1. ASSUME NEW q \in p..last, CodeFound(f, p, left, q) PROVE FALSE
        <4>2. q + 1 > k /\ q + 2 > k
          BY <1>11
        <4> QED BY <1>6, <1>8, <3>1, <4>2
      <3> QED BY <3>1
    <2>2. next = NoCode
      BY <1>5, <2>1
    <2> QED BY <1>4, <2>2
  <1>9. ASSUME NEW l, IsNext(f, k, l)
        PROVE  /\ get_next_frame(f, pos) = NextPos(f, k, l) - pos
               /\ NextPos(f, k, l) \in Nat /\ NextPos(f, k, l) >= k + 2
               /\ CodeAt(f, NextPos(f, k, l), l)
    <2> DEFINE n == NextPos(f, k, l)
    <2>1. /\ l \in Codes(f) /\ l > k /\ l \in Nat /\ l >= k + 3 /\ l <= Len(f) - 2
          /\ \A m \in Codes(f) : m > k => l <= m
      BY <1>1, <1>9, CodesApart DEF IsNext
    <2>2. \/ n = l - 2 /\ l > k + 3 /\ f[l - 1] = 0
          \/ n = l - 1 /\ ~(l > k + 3 /\ f[l - 1] = 0)
      BY DEF NextPos
    <2> HIDE DEF n
    <2>3. n \in Nat /\ n >= k + 2 /\ n \in p..last
      <3>1. n \in Nat /\ n >= k + 2 /\ n <= Len(f) - 3
        <4>1. n = l - 1 \/ (n = l - 2 /\ l > k + 3)
          BY <2>2
        <4>2. k \in Nat /\ Len(f) \in Nat
          BY <1>1
        <4> QED BY <2>1, <4>1, <4>2
      <3>2. n <= last
        BY <1>10, <1>12, <3>1
      <3>3. p <= k + 2
        <4>1. p = k + 1 \/ p = k + 2
          BY <1>2
        <4> QED BY <1>10, <4>1
      <3> QED BY <1>10, <3>1, <3>2, <3>3
    <2>4. CodeAt(f, n, l)
      <3>1. n = l - 2 => l = n + 2 /\ n + 1 = l - 1
        BY <2>1
      <3>2. n = l - 1 => l = n + 1
        BY <2>1
      <3> QED BY <2>1, <2>2, <3>1, <3>2 DEF CodeAt
    <2>5. CodeFound(f, p, left, n)
      <3>1. n + 2 = l => n < last
        BY <1>1, <1>2, <2>1, <2>3
      <3> QED BY <1>6, <2>3, <2>4, <3>1 DEF CodeAt
    <2>6. ASSUME NEW q \in p..last, CodeFound(f, p, left, q) PROVE n <= q
      <3>1. q \in Nat /\ q >= p /\ q + 1 > k /\ q + 2 > k
        BY <1>11
      <3>2. CASE q + 1 \in Codes(f)
        <4>1. l <= q + 1
          BY <2>1, <3>1, <3>2
        <4> QED BY <2>1, <2>2, <3>1, <4>1
      <3>3. CASE f[q + 1] = 0 /\ q + 2 \in Codes(f)
        <4>1. l <= q + 2
          BY <2>1, <3>1, <3>3
        <4>2. CASE l = q + 2
          <5>1. f[l - 1] = 0
            <6>1. l - 1 = q + 1
              BY <3>1, <4>2
            <6> QED BY <3>3, <6>1
          <5>2. l # k + 3
            <6>1. l = k + 3 => l - 1 = k + 2
              BY <1>1
            <6> QED BY <1>1, <5>1, <6>1
          <5> QED BY <1>1, <2>1, <2>2, <3>1, <4>2, <5>1, <5>2
        <4>3. CASE l # q + 2
          BY <2>1, <2>2, <3>1, <4>1, <4>3
        <4> QED BY <4>2, <4>3
      <3> QED BY <1>6, <2>6, <3>2, <3>3
    <2>7. next = n
      <3>1. /\ next \in p..last /\ CodeFound(f, p, left, next)
            /\ \A q \in p..last : CodeFound(f, p, left, q) => next <= q
        BY <1>5, <2>3, <2>5
      <3>2. next <= n /\ n <= next
        BY <2>3, <2>5, <2>6, <3>1
      <3> QED BY <1>2, <2>3, <3>1, <3>2
    <2>8. n # NoCode
      BY <2>3 DEF NoCode
    <2> QED BY <1>4, <2>3, <2>4, <2>7, <2>8 DEF n
  <1> QED BY <1>8, <1>9

\* The bytes of that frame behind its start code are the unit at k.
LEMMA FrameIsUnit ==
  ASSUME NEW f \in Seq(Nat), NEW pos \in Nat, NEW k, CodeAt(f, pos, k), NEW l, IsNext(f, k, l)
  PROVE  Nal(f, pos, NextPos(f, k, l) - pos) = Unit(f, k)
  <1> DEFINE n == NextPos(f, k, l)
             size == n - pos
  <1>1. n \in Nat /\ n >= k + 2
    BY FrameEnds
  <1>2. k \in Codes(f) /\ k \in Nat /\ f[k + 2] = 1 /\ (k = pos + 1 \/ (k = pos + 2 /\ f[pos + 1] = 0))
    BY DEF CodeAt, Codes
  <1>3. Unit(f, k) = SubSeq(f, k + 3, n)
    BY <1>2, UnitIs DEF NextPos
  <1> HIDE DEF n
  <1>4. size \in Int /\ size >= 3 /\ pos + size = n /\ (k = pos + 2 => size >= 4)
    BY <1>1, <1>2
  <1> HIDE DEF size
  <1>5. pos + StartCodeLen(f, pos, size) + 1 = k + 3
    <2>1. is_start_code(f, pos, size, 4) <=> size >= 4 /\ f[pos + 1] = 0 /\ pos + 2 \in Codes(f)
      BY <1>4, CodeOfFour
    <2>2. CASE k = pos + 1
      <3>1. pos + 2 \notin Codes(f)
        <4>1. pos + 2 \in Codes(f) => pos + 2 >= k + 3
          BY <1>2, <2>2, CodesApart
        <4> QED BY <2>2, <4>1
      <3> QED BY <2>1, <2>2, <3>1 DEF StartCodeLen
    <2>3. CASE k = pos + 2 /\ f[pos + 1] = 0
      BY <1>2, <1>4, <2>1, <2>3 DEF StartCodeLen
    <2> QED BY <1>2, <2>2, <2>3
  <1> QED BY <1>3, <1>4, <1>5 DEF Nal, n, size

-----------------------------------------------------------------------------
(* The order of the units. *)

Before(f, k) == {l \in Starts(f) : l < k}
FirstCoded(f) == \E k \in {1, 2} : k \in Codes(f) /\ (k = 2 => f[1] = 0)

LEMMA FiniteStarts ==
  ASSUME NEW f \in Seq(Nat), NEW T \in SUBSET Starts(f)
  PROVE  IsFiniteSet(T) /\ Cardinality(T) \in Nat /\ Cardinality(T) <= Cardinality(Starts(f))
         /\ Cardinality(Starts(f)) \in Nat
  <1>1. Starts(f) \in SUBSET Nat /\ Len(f) \in Nat /\ \A k \in Starts(f) : k <= Len(f)
    BY DEF Starts, Codes
  <1>2. IsFiniteSet(Starts(f))
    BY <1>1, FS_BoundedSetOfNaturals
  <1> QED BY <1>2, FS_Subset, FS_CardinalityType

\* The code behind k has one start more before it than k.
LEMMA OneMoreBefore ==
  ASSUME NEW f \in Seq(Nat), NEW k \in Codes(f), NEW l, IsNext(f, k, l)
  PROVE  k \in Starts(f) /\ Cardinality(Before(f, l)) = Cardinality(Before(f, k)) + 1
  <1>1. l \in Codes(f) /\ l > k /\ k \in Nat /\ l \in Nat /\ \A m \in Codes(f) : m \in Nat
    BY DEF IsNext, Codes
  <1>2. k \in Starts(f)
    BY <1>1 DEF Starts
  <1>3. Before(f, l) = Before(f, k) \cup {k} /\ k \notin Before(f, k)
    <2>1. \A m \in Starts(f) : m < l <=> m < k \/ m = k
      BY <1>1 DEF IsNext, Starts
    <2>2. ~(k < k)
      BY <1>1
    <2>3. \A x : x \in Before(f, l) <=> x \in Starts(f) /\ x < l
      BY DEF Before
    <2>4. \A x : x \in Before(f, k) <=> x \in Starts(f) /\ x < k
      BY DEF Before
    <2>5. \A x : x \in Before(f, l) <=> x \in Before(f, k) \/ x = k
      BY <1>1, <1>2, <2>1, <2>3, <2>4
    <2> QED BY <2>2, <2>4, <2>5
  <1>4. IsFiniteSet(Before(f, k))
    BY FiniteStarts DEF Before
  <1> QED BY <1>2, <1>3, <1>4, FS_AddElement

\* The start with n - 1 others before it is the n-th.
LEMMA NthStart ==
  ASSUME NEW f \in Seq(Nat), NEW k \in Starts(f), NEW n \in Nat,
         Cardinality(Before(f, k)) = n - 1, FirstCoded(f)
  PROVE  n \in 1..Len(UnitsOf(f)) /\ UnitsOf(f)[n] = Unit(f, k)
  <1> DEFINE nth(i) == CHOOSE x \in Starts(f) : Cardinality({l \in Starts(f) : l < x}) = i - 1
  <1>1. \A x, y \in Starts(f) : x < y => Cardinality(Before(f, x)) # Cardinality(Before(f, y))
    <2> SUFFICES ASSUME NEW x \in Starts(f), NEW y \in Starts(f), x < y
                 PROVE  Cardinality(Before(f, x)) # Cardinality(Before(f, y))
      OBVIOUS
    <2>1. \A m \in Starts(f) : m \in Nat
      BY DEF Starts, Codes
    <2>2. Before(f, x) \in SUBSET Before(f, y) /\ x \in Before(f, y) /\ x \notin Before(f, x)
      BY <2>1 DEF Before
    <2>3. IsFiniteSet(Before(f, y))
      BY FiniteStarts DEF Before
    <2> QED BY <2>2, <2>3, FS_Subset
  <1>2. \A x \in Starts(f) : Cardinality(Before(f, x)) = n - 1 => x = k
    <2>1. \A x \in Starts(f) : x \in Nat
      BY DEF Starts, Codes
    <2>2. \A x \in Starts(f) : x < k \/ k < x \/ x = k
      BY <2>1
    <2> QED BY <1>1, <2>2
  <1>3. nth(n) = k
    BY <1>2 DEF Before
  <1> HIDE DEF nth
  <1>4. UnitsOf(f) = [i \in 1..Cardinality(Starts(f)) |-> Unit(f, nth(i))]
    BY DEF UnitsOf, FirstCoded, nth
  <1>5. n <= Cardinality(Starts(f)) /\ n >= 1 /\ Cardinality(Starts(f)) \in Nat
    <2>1. /\ Before(f, k) \in SUBSET Starts(f) /\ k \in Starts(f) /\ k \notin Before(f, k)
      <3>1. ~(k < k)
        BY DEF Starts, Codes
      <3> QED BY <3>1 DEF Before
    <2>2. IsFiniteSet(Starts(f)) /\ Starts(f) \in SUBSET Starts(f)
      BY FiniteStarts
    <2>3. Cardinality(Before(f, k)) # Cardinality(Starts(f))
      BY <2>1, <2>2, FS_Subset
    <2>4. Cardinality(Before(f, k)) \in Nat /\ Cardinality(Before(f, k)) <= Cardinality(Starts(f))
          /\ Cardinality(Starts(f)) \in Nat
      BY <2>1, FiniteStarts
    <2> QED BY <2>3, <2>4
  <1>6. Len(UnitsOf(f)) = Cardinality(Starts(f))
    BY <1>4, <1>5
  <1> QED BY <1>3, <1>4, <1>5, <1>6

\* How many there are.
LEMMA UnitCount ==
  ASSUME NEW f \in Seq(Nat)
  PROVE  Len(UnitsOf(f)) = IF FirstCoded(f) THEN Cardinality(Starts(f)) ELSE 0
  <1> DEFINE nth(i) == CHOOSE x \in Starts(f) : Cardinality({l \in Starts(f) : l < x}) = i - 1
  <1>1. Cardinality(Starts(f)) \in Nat
    BY FiniteStarts
  <1>2. UnitsOf(f) = IF FirstCoded(f) THEN [i \in 1..Cardinality(Starts(f)) |-> Unit(f, nth(i))]
                     ELSE << >>
    BY DEF UnitsOf, FirstCoded
  <1> HIDE DEF nth
  <1> QED BY <1>1, <1>2

\* When no code is behind k, the starts are those before k.
LEMMA LastCode ==
  ASSUME NEW f \in Seq(Nat), NEW k \in Codes(f), ~\E l \in Codes(f) : l > k
  PROVE  Starts(f) = Before(f, k)
  <1>1. \A l \in Codes(f) : l \in Nat
    BY DEF Codes
  <1>2. \A l \in Starts(f) : l < k
    BY <1>1 DEF Starts
  <1> QED BY <1>2 DEF Before

\* A file that begins with a start code, and one that does not.
LEMMA FirstCode ==
  ASSUME NEW f \in Seq(Nat), FirstCoded(f)
  PROVE  \E k \in Codes(f) : CodeAt(f, 0, k) /\ Cardinality(Before(f, k)) = 0
  <1>1. PICK k \in {1, 2} : k \in Codes(f) /\ (k = 2 => f[1] = 0)
    BY DEF FirstCoded
  <1>2. CodeAt(f, 0, k)
    BY <1>1 DEF CodeAt
  <1>3. ASSUME NEW l \in Before(f, k) PROVE FALSE
    <2>1. l \in Codes(f) /\ l < k /\ l \in Nat
      BY DEF Before, Starts, Codes
    <2>2. k >= l + 3
      BY <1>1, <2>1, CodesApart
    <2> QED BY <1>1, <2>1, <2>2 DEF Codes
  <1>4. Before(f, k) = {}
    BY <1>3
  <1> QED BY <1>1, <1>2, <1>4, FS_EmptySet

LEMMA NoFirstCode ==
  ASSUME NEW f \in Seq(Nat), ~FirstCoded(f)
  PROVE  get_next_frame(f, 0) <= 0
  <1> DEFINE left == Len(f) - 0
             zero == 0
  <1>1. zero \in Nat /\ left \in Int /\ zero + 1 = 1 /\ zero + 2 = 2
    OBVIOUS
  <1> HIDE DEF left, zero
  <1>2. ~is_start_code(f, zero, left, 3) /\ ~is_start_code(f, zero, left, 4)
    BY <1>1, CodeOfThree, CodeOfFour DEF FirstCoded
  <1>3. get_next_frame(f, 0) \in {0, -1}
    BY <1>2 DEF get_next_frame, left, zero
  <1> QED BY <1>3

-----------------------------------------------------------------------------
(* What a receiver puts together: the recursive function of Received exists, *)
(* and its value after k packets depends on these only.                      *)

Joined(before, packet, stamp) ==
  IF packet.ts # stamp THEN before
  ELSE (IF before = << >> THEN packet.header ELSE before) \o packet.data
IsJoin(f, n, ps, stamp) ==
  f = [k \in 0..n |-> IF k = 0 THEN << >> ELSE Joined(f[k - 1], ps[k], stamp)]

LEMMA JoinExists ==
  ASSUME NEW n \in Nat, NEW ps, NEW stamp
  PROVE  \E f : IsJoin(f, n, ps, stamp)
  <1> DEFINE bad == {m \in Nat : ~\E f : IsJoin(f, m, ps, stamp)}
  <1>1. SUFFICES ASSUME bad # {} PROVE FALSE
    OBVIOUS
  <1>2. PICK m \in bad : \A x \in bad : m <= x
    BY <1>1, LeastPosition
  <1>3. m \in Nat /\ ~\E f : IsJoin(f, m, ps, stamp)
    OBVIOUS
  <1>4. CASE m = 0
    <2> DEFINE f == [k \in 0..0 |-> << >>]
    <2>1. \A k \in 0..0 : k = 0
      OBVIOUS
    <2>2. IsJoin(f, 0, ps, stamp)
      BY <2>1 DEF IsJoin
    <2> QED BY <1>3, <1>4, <2>2
  <1>5. CASE m # 0
    <2>1. m - 1 \in Nat /\ m - 1 \notin bad
      BY <1>2, <1>3, <1>5
    <2>2. PICK g : IsJoin(g, m - 1, ps, stamp)
      BY <2>1
    <2> DEFINE f == [k \in 0..m |-> IF k = m THEN Joined(g[m - 1], ps[m], stamp) ELSE g[k]]
    <2>3. /\ \A k \in 0..(m - 1) : f[k] = g[k]
          /\ f[m] = Joined(g[m - 1], ps[m], stamp)
      BY <1>3, <1>5
    <2>4. ASSUME NEW k \in 0..m
          PROVE  f[k] = IF k = 0 THEN << >> ELSE Joined(f[k - 1], ps[k], stamp)
      <3>1. CASE k = m
        <4>1. f[m - 1] = g[m - 1] /\ m # 0
          BY <1>3, <1>5, <2>3
        <4> HIDE DEF f
        <4> QED BY <2>3, <3>1, <4>1
      <3>2. CASE k # m
        <4>1. k \in 0..(m - 1) /\ (k # 0 => k - 1 \in 0..(m - 1))
          BY <1>3, <3>2
        <4>2. g[k] = IF k = 0 THEN << >> ELSE Joined(g[k - 1], ps[k], stamp)
          BY <2>2, <4>1 DEF IsJoin
        <4>3. f[k] = g[k] /\ (k # 0 => f[k - 1] = g[k - 1])
          BY <2>3, <4>1
        <4> HIDE DEF f
        <4> QED BY <4>2, <4>3
      <3> QED BY <3>1, <3>2
    <2>5. f = [k \in 0..m |-> f[k]]
      OBVIOUS
    <2> HIDE DEF f
    <2>6. IsJoin(f, m, ps, stamp)
      BY <2>4, <2>5 DEF IsJoin
    <2> QED BY <1>3, <2>6
  <1> QED BY <1>4, <1>5

\* What is put together of the first k packets.
Join(k, ps, stamp) == (CHOOSE f : IsJoin(f, Len(ps), ps, stamp))[k]

LEMMA ReceivedIs ==
  ASSUME NEW ps, NEW stamp
  PROVE  Received(ps, stamp) = Join(Len(ps), ps, stamp)
  BY DEF Received, Join, IsJoin, Joined

LEMMA JoinRule ==
  ASSUME NEW ps \in Seq(PacketType), NEW stamp
  PROVE  /\ Join(0, ps, stamp) = << >>
         /\ \A k \in 1..Len(ps) : Join(k, ps, stamp) = Joined(Join(k - 1, ps, stamp), ps[k], stamp)
  <1> DEFINE g == CHOOSE f : IsJoin(f, Len(ps), ps, stamp)
  <1>1. Len(ps) \in Nat
    OBVIOUS
  <1>2. IsJoin(g, Len(ps), ps, stamp)
    BY <1>1, JoinExists
  <1> HIDE DEF g
  <1>3. \A k \in 0..Len(ps) : g[k] = IF k = 0 THEN << >> ELSE Joined(g[k - 1], ps[k], stamp)
    BY <1>2 DEF IsJoin
  <1>4. g[0] = << >> /\ \A k \in 1..Len(ps) : g[k] = Joined(g[k - 1], ps[k], stamp)
    BY <1>1, <1>3
  <1> QED BY <1>4 DEF Join, g

\* It depends on these packets only.
LEMMA JoinPrefix ==
  ASSUME NEW ps \in Seq(PacketType), NEW qs \in Seq(PacketType), NEW stamp, NEW n \in Nat,
         n <= Len(ps), n <= Len(qs), \A k \in 1..n : ps[k] = qs[k]
  PROVE  Join(n, ps, stamp) = Join(n, qs, stamp)
  <1> DEFINE bad == {k \in 0..n : Join(k, ps, stamp) # Join(k, qs, stamp)}
  <1>1. SUFFICES ASSUME bad # {} PROVE FALSE
    OBVIOUS
  <1>2. PICK m \in bad : \A x \in bad : m <= x
    <2>1. bad \subseteq Nat
      OBVIOUS
    <2> HIDE DEF bad
    <2> QED BY <1>1, <2>1, LeastPosition
  <1>3. m \in Nat /\ m <= n /\ Join(m, ps, stamp) # Join(m, qs, stamp) /\ m # 0
    BY JoinRule
  <1>4. m - 1 \in 0..n /\ m - 1 \notin bad /\ m \in 1..Len(ps) /\ m \in 1..Len(qs) /\ m \in 1..n
    BY <1>2, <1>3
  <1>5. Join(m - 1, ps, stamp) = Join(m - 1, qs, stamp)
    BY <1>4
  <1> HIDE DEF bad
  <1> QED BY <1>3, <1>4, <1>5, JoinRule

\* Packets with other time stamps do not count.
LEMMA JoinSkips ==
  ASSUME NEW ps \in Seq(PacketType), NEW stamp, NEW a \in Nat, NEW b \in Nat, a <= b, b <= Len(ps),
         \A k \in (a + 1)..b : ps[k].ts # stamp
  PROVE  Join(b, ps, stamp) = Join(a, ps, stamp)
  <1> DEFINE bad == {k \in a..b : Join(k, ps, stamp) # Join(a, ps, stamp)}
  <1>1. SUFFICES ASSUME bad # {} PROVE FALSE
    OBVIOUS
  <1>2. PICK m \in bad : \A x \in bad : m <= x
    <2>1. bad \subseteq Nat
      OBVIOUS
    <2> HIDE DEF bad
    <2> QED BY <1>1, <2>1, LeastPosition
  <1>3. m \in Nat /\ m > a /\ m <= b /\ Join(m, ps, stamp) # Join(a, ps, stamp)
    OBVIOUS
  <1>4. m - 1 \in a..b /\ m - 1 \notin bad /\ m \in 1..Len(ps) /\ m \in (a + 1)..b
    BY <1>2, <1>3
  <1>5. Join(m - 1, ps, stamp) = Join(a, ps, stamp)
    BY <1>4
  <1> HIDE DEF bad
  <1>6. Join(m, ps, stamp) = Join(m - 1, ps, stamp)
    BY <1>4, JoinRule DEF Joined
  <1> QED BY <1>3, <1>5, <1>6

\* What the receiver has of an earlier unit stays as it is.
LEMMA ReceivedStays ==
  ASSUME NEW ps \in Seq(PacketType), NEW qs \in Seq(PacketType), NEW stamp,
         \A k \in 1..Len(qs) : qs[k].ts # stamp
  PROVE  Received(ps \o qs, stamp) = Received(ps, stamp)
  <1> DEFINE all == ps \o qs
             m == Len(ps)
             n == Len(all)
  <1>1. /\ m \in Nat /\ Len(qs) \in Nat /\ all \in Seq(PacketType) /\ n = m + Len(qs)
        /\ \A k \in 1..n : all[k] = IF k <= m THEN ps[k] ELSE qs[k - m]
    BY ConcatProperties
  <1> HIDE DEF all, n, m
  <1>2. \A k \in (m + 1)..n : all[k].ts # stamp
    <2>1. ASSUME NEW k \in (m + 1)..n PROVE all[k].ts # stamp
      <3>1. k \in 1..n /\ ~(k <= m) /\ k - m \in 1..Len(qs)
        BY <1>1
      <3> QED BY <1>1, <3>1
    <2> QED BY <2>1
  <1>3. Join(n, all, stamp) = Join(m, all, stamp)
    BY <1>1, <1>2, JoinSkips DEF n
  <1>4. Join(m, all, stamp) = Join(m, ps, stamp)
    <2>1. \A k \in 1..m : all[k] = ps[k]
      BY <1>1
    <2>2. m <= Len(ps) /\ m <= Len(all)
      BY <1>1 DEF m, n
    <2> QED BY <1>1, <2>1, <2>2, JoinPrefix
  <1> QED BY <1>3, <1>4, ReceivedIs DEF all, n, m

\* A fragment behind the bytes before it.
LEMMA AddFragment ==
  ASSUME NEW nal \in Seq(Nat), NEW a \in 1..Len(nal), NEW frag \in Seq(Nat),
         a + Len(frag) <= Len(nal), \A j \in 1..Len(frag) : frag[j] = nal[a + j]
  PROVE  SubSeq(nal, 1, a) \o frag = SubSeq(nal, 1, a + Len(frag))
  <1> DEFINE b == a + Len(frag)
             rest == SubSeq(nal, a + 1, b)
  <1>1. a \in Nat /\ Len(frag) \in Nat /\ Len(nal) \in Nat /\ b \in a..Len(nal) /\ b = a + Len(frag)
    OBVIOUS
  <1> HIDE DEF b
  <1>2. \A i \in (a + 1)..b : nal[i] \in Nat
    <2>1. \A i \in (a + 1)..b : i \in 1..Len(nal)
      BY <1>1
    <2> QED BY <2>1
  <1>3. /\ rest \in Seq(Nat) /\ Len(rest) = IF a + 1 <= b THEN b - (a + 1) + 1 ELSE 0
        /\ \A i \in 1..(b - (a + 1) + 1) : rest[i] = nal[(a + 1) + i - 1]
    <2>1. a + 1 \in Int /\ b \in Int
      BY <1>1
    <2> QED BY <1>2, <2>1, SubSeqProperties
  <1>4. Len(rest) = Len(frag) /\ \A i \in 1..Len(frag) : rest[i] = frag[i]
    <2>1. Len(rest) = Len(frag) /\ b - (a + 1) + 1 = Len(frag)
      BY <1>1, <1>3
    <2>2. \A i \in 1..Len(frag) : (a + 1) + i - 1 = a + i
      BY <1>1
    <2> HIDE DEF rest
    <2> QED BY <1>3, <2>1, <2>2
  <1>5. rest = frag
    <2> HIDE DEF rest
    <2> QED BY <1>3, <1>4, SeqEqual
  <1> DEFINE one == 1
  <1>6. one \in 1..(Len(nal) + 1) /\ a \in (one - 1)..Len(nal)
    BY <1>1
  <1> HIDE DEF one
  <1>7. SubSeq(nal, one, a) \o SubSeq(nal, a + 1, b) = SubSeq(nal, one, b)
    BY <1>1, <1>6, ConcatAdjacentSubSeq
  <1> QED BY <1>5, <1>7 DEF one, b

\* The fragments of a unit are put together to the unit.
LEMMA ReceivedUnit ==
  ASSUME NEW ps \in Seq(PacketType), NEW nal \in Seq(Nat), NEW base \in Nat, NEW stamp \in Nat,
         \A k \in 1..Len(ps) : ps[k].ts # stamp
  PROVE  Received(ps \o Packets(nal, base, stamp), stamp) = nal
  <1> DEFINE qs == Packets(nal, base, stamp)
             all == ps \o qs
             m == Len(ps)
             d == Len(nal)
             n == PacketCount(d)
             J(k) == Join(k, all, stamp)
  <1>1. /\ d \in Nat /\ PacketNum(d) \in Nat /\ Remaining(d) \in Int
        /\ PacketNum(d) = 0 => d <= MaxData
        /\ MaxData \in Nat \ {0}
    <2>1. d \in Nat
      OBVIOUS
    <2> QED BY <2>1, FragmentCount, RtpAssumption
  <1>2. n \in Nat \ {0} /\ (PacketNum(d) = 0 => n = 1)
    BY <1>1 DEF PacketCount
  <1>3. /\ qs \in Seq(PacketType) /\ Len(qs) = n
        /\ \A k \in 1..n : qs[k] = Packet(nal, k, base, stamp)
    <2>1. PacketsFine(qs, base, stamp)
      BY PacketsOfUnit
    <2>2. qs = [k \in 1..n |-> Packet(nal, k, base, stamp)]
      BY DEF Packets, PacketCount
    <2> HIDE DEF qs, n
    <2>3. Len(qs) = n
      BY <1>2, <2>2
    <2> QED BY <2>1, <2>2, <2>3 DEF PacketsFine
  <1> HIDE DEF qs, n
  <1>4. /\ m \in Nat /\ all \in Seq(PacketType) /\ Len(all) = m + n
        /\ \A k \in 1..(m + n) : all[k] = IF k <= m THEN ps[k] ELSE qs[k - m]
    <2>1. /\ all \in Seq(PacketType) /\ Len(all) = Len(ps) + Len(qs)
          /\ \A k \in 1..(Len(ps) + Len(qs)) :
               all[k] = IF k <= Len(ps) THEN ps[k] ELSE qs[k - Len(ps)]
      BY <1>3, ConcatProperties
    <2>2. Len(ps) \in Nat
      OBVIOUS
    <2> HIDE DEF all
    <2> QED BY <1>3, <2>1, <2>2
  <1> HIDE DEF all, m
  <1>5. J(m) = << >>
    <2> DEFINE z == 0
    <2>1. z \in Nat /\ z <= m /\ m <= Len(all)
      BY <1>2, <1>4
    <2>2. \A k \in (z + 1)..m : all[k].ts # stamp
      <3>1. \A k \in 1..m : k \in 1..(m + n) /\ all[k] = ps[k]
        BY <1>2, <1>4
      <3> QED BY <3>1 DEF m
    <2> HIDE DEF z
    <2>3. J(m) = J(z)
      BY <1>4, <2>1, <2>2, JoinSkips
    <2> QED BY <1>4, <2>3, JoinRule DEF z
  <1>6. ASSUME NEW k \in 1..n
        PROVE  J(m + k) = (IF J(m + k - 1) = << >> THEN qs[k].header ELSE J(m + k - 1)) \o qs[k].data
    <2>1. m + k \in 1..Len(all) /\ ~(m + k <= m) /\ (m + k) - m = k
      BY <1>2, <1>4
    <2>2. all[m + k] = qs[k] /\ qs[k].ts = stamp
      <3>1. all[m + k] = qs[k]
        BY <1>4, <2>1
      <3>2. qs[k].ts = stamp
        BY <1>3 DEF Packet
      <3> QED BY <3>1, <3>2
    <2>3. J(m + k) = Joined(J(m + k - 1), all[m + k], stamp)
      <3> DEFINE i == m + k
      <3>1. i \in 1..Len(all)
        BY <2>1
      <3> HIDE DEF i
      <3>2. J(i) = Joined(J(i - 1), all[i], stamp)
        BY <1>4, <3>1, JoinRule
      <3>3. i = m + k /\ i - 1 = m + k - 1
        BY <1>2, <1>4 DEF i
      <3> HIDE DEF J
      <3> QED BY <3>2, <3>3
    <2> HIDE DEF J
    <2> QED BY <2>2, <2>3 DEF Joined
  <1> HIDE DEF J
  <1>7. CASE PacketNum(d) = 0
    <2>1. n = 1 /\ 1 \in 1..n /\ m + 1 - 1 = m
      BY <1>2, <1>4, <1>7
    <2>2. qs[1].header = << >> /\ qs[1].data = nal
      <3>1. ~(PacketNum(Len(nal)) > 0)
        BY <1>7
      <3> QED BY <1>3, <2>1, <3>1 DEF Packet
    <2>3. J(m + 1) = << >> \o nal
      BY <1>5, <1>6, <2>1, <2>2
    <2>4. J(m + n) = nal
      BY <2>1, <2>3, ConcatEmptySeq
    <2> QED BY <1>4, <2>4, ReceivedIs DEF J, all, qs
  <1>8. CASE PacketNum(d) > 0
    <2> DEFINE a(k) == (k - 1) * MaxData + 1
               size(k) == IF k < n THEN MaxData ELSE d - 1 - (n - 1) * MaxData
               frag(k) == Fragment(nal, k)
    <2>1. ASSUME NEW k \in 1..n
          PROVE  /\ qs[k].data = frag(k) /\ qs[k].header = <<nal[1]>>
                 /\ frag(k) \in Seq(Nat) /\ Len(frag(k)) = size(k) /\ size(k) \in 1..MaxData
                 /\ \A j \in 1..size(k) : frag(k)[j] = nal[a(k) + j]
      <3>1. qs[k].data = frag(k) /\ qs[k].header = <<nal[1]>>
        BY <1>3, <1>8 DEF Packet
      <3>2. k \in 1..PacketCount(Len(nal)) /\ PacketNum(Len(nal)) > 0
        BY <1>8 DEF n
      <3> QED BY <3>1, <3>2, FragmentsCorrect DEF n
    <2> HIDE DEF a, size, frag
    <2>2. ASSUME NEW k \in 1..n
          PROVE  a(k) \in Nat /\ a(k) >= 1 /\ a(k) + size(k) <= d
                 /\ (k < n => a(k) + size(k) = a(k + 1)) /\ (k = n => a(k) + size(k) = d)
      <3>1. k \in Nat /\ k - 1 \in Nat /\ n - k \in Nat /\ n \in Nat /\ n \in 1..n
        BY <1>2
      <3>2. (k - 1) * MaxData \in Nat /\ (n - k) * MaxData \in Nat
        BY <1>1, <3>1
      <3>3. (n - 1) * MaxData = (k - 1) * MaxData + (n - k) * MaxData
        BY <1>1, <3>1
      <3>4. ((k + 1) - 1) * MaxData = (k - 1) * MaxData + MaxData
        BY <1>1, <3>1
      <3>5. size(n) >= 1 /\ size(n) = d - 1 - (n - 1) * MaxData
        <4>1. size(n) \in 1..MaxData
          BY <2>1, <3>1
        <4>2. size(n) = d - 1 - (n - 1) * MaxData
          BY <3>1 DEF size
        <4> QED BY <1>1, <4>1, <4>2
      <3>6. k < n => (n - k) * MaxData >= MaxData
        <4>1. ASSUME k < n PROVE (n - k - 1) * MaxData \in Nat
          BY <1>1, <3>1, <4>1
        <4>2. (n - k) * MaxData = (n - k - 1) * MaxData + MaxData
          BY <1>1, <3>1
        <4> QED BY <1>1, <4>1, <4>2
      <3> DEFINE x == (k - 1) * MaxData
                 y == ((k + 1) - 1) * MaxData
                 z == (n - 1) * MaxData
                 w == (n - k) * MaxData
      <3>7. /\ a(k) = x + 1 /\ a(k + 1) = y + 1 /\ size(n) = d - 1 - z
            /\ x \in Nat /\ w \in Nat /\ z = x + w /\ y = x + MaxData
            /\ (k < n => w >= MaxData /\ size(k) = MaxData)
        BY <3>2, <3>3, <3>4, <3>5, <3>6 DEF a, size
      <3> HIDE DEF x, y, z, w
      <3>8. CASE k < n
        BY <1>1, <3>1, <3>5, <3>7, <3>8
      <3>9. CASE k = n
        <4>1. z = x
          <5>1. z = (n - 1) * MaxData /\ x = (k - 1) * MaxData
            BY DEF z, x
          <5> QED BY <3>9, <5>1
        <4> QED BY <1>1, <3>1, <3>5, <3>7, <3>9, <4>1
      <3> QED BY <3>1, <3>8, <3>9
    <2>3. a(1) = 1
      BY <1>1 DEF a
    <2> DEFINE bad == {k \in 1..n : J(m + k) # SubSeq(nal, 1, a(k) + size(k))}
    <2>4. bad = {}
      <3> SUFFICES ASSUME bad # {} PROVE FALSE
        OBVIOUS
      <3>1. bad \subseteq Nat
        BY <1>2
      <3>2. PICK k \in bad : \A x \in bad : k <= x
        <4> HIDE DEF bad
        <4> QED BY <3>1, LeastPosition
      <3>3. k \in 1..n /\ k \in Nat /\ J(m + k) # SubSeq(nal, 1, a(k) + size(k))
        BY <1>2
      <3>4. /\ a(k) \in 1..Len(nal) /\ a(k) \in Nat /\ a(k) >= 1 /\ frag(k) \in Seq(Nat)
            /\ Len(frag(k)) = size(k)
            /\ a(k) + size(k) <= Len(nal) /\ \A j \in 1..size(k) : frag(k)[j] = nal[a(k) + j]
        <4>1. a(k) \in Nat /\ a(k) >= 1 /\ a(k) + size(k) <= d /\ size(k) \in 1..MaxData
          BY <2>1, <2>2, <3>3
        <4>2. a(k) <= d
          BY <1>1, <4>1
        <4> QED BY <1>1, <2>1, <3>3, <4>1, <4>2
      <3>5. SubSeq(nal, 1, a(k)) \o frag(k) = SubSeq(nal, 1, a(k) + size(k))
        <4> DEFINE b == a(k)
                   f == frag(k)
        <4>1. b \in 1..Len(nal) /\ f \in Seq(Nat) /\ b + Len(f) <= Len(nal) /\ Len(f) = size(k)
              /\ \A j \in 1..Len(f) : f[j] = nal[b + j]
          BY <3>4
        <4> HIDE DEF b, f
        <4>2. SubSeq(nal, 1, b) \o f = SubSeq(nal, 1, b + Len(f))
          BY <4>1, AddFragment
        <4> QED BY <4>1, <4>2 DEF b, f
      <3>6. (IF J(m + k - 1) = << >> THEN qs[k].header ELSE J(m + k - 1)) = SubSeq(nal, 1, a(k))
        <4>1. CASE k = 1
          <5>1. m + k - 1 = m
            BY <1>4, <4>1
          <5>2. SubSeq(nal, 1, 1) = <<nal[1]>>
            <6>1. nal # << >> /\ nal[1] \in Nat
              BY <2>3, <3>4, <4>1
            <6> DEFINE one == 1
            <6>2. one \in 1..Len(nal) /\ one \in one..Len(nal)
              BY <2>3, <3>4, <4>1
            <6> HIDE DEF one
            <6>3. SubSeq(nal, one, one) = <<nal[one]>> \o SubSeq(nal, one + 1, one)
              BY <6>2, SubSeqRecursiveFirst
            <6>4. SubSeq(nal, one + 1, one) = << >>
              <7>1. one + 1 \in Int /\ one \in Int /\ one < one + 1
                BY DEF one
              <7> QED BY <7>1, SubSeqEmpty
            <6>5. <<nal[one]>> \in Seq(Nat)
              BY <6>1 DEF one
            <6>6. SubSeq(nal, one, one) = <<nal[one]>>
              BY <6>3, <6>4, <6>5, ConcatEmptySeq
            <6> QED BY <6>6 DEF one
          <5> QED BY <1>5, <2>1, <2>3, <3>3, <4>1, <5>1, <5>2
        <4>2. CASE k # 1
          <5>1. k - 1 \in 1..n /\ k - 1 < n /\ k - 1 \notin bad /\ (k - 1) + 1 = k
                /\ m + (k - 1) = m + k - 1
            <6>1. k - 1 \in 1..n /\ k - 1 < n /\ (k - 1) + 1 = k /\ m + (k - 1) = m + k - 1
              BY <1>2, <1>4, <3>3, <4>2
            <6>2. k - 1 \notin bad
              <7>1. ~(k <= k - 1)
                BY <3>3
              <7> HIDE DEF bad
              <7> QED BY <3>2, <7>1
            <6> QED BY <6>1, <6>2
          <5>2. J(m + (k - 1)) = SubSeq(nal, 1, a(k - 1) + size(k - 1))
            BY <5>1
          <5>3. a(k - 1) + size(k - 1) = a(k)
            <6> DEFINE j == k - 1
            <6>1. j \in 1..n /\ j < n /\ j + 1 = k
              BY <5>1
            <6> HIDE DEF j
            <6>2. a(j) + size(j) = a(j + 1)
              BY <2>2, <6>1
            <6> QED BY <6>1, <6>2 DEF j
          <5>4. SubSeq(nal, 1, a(k)) # << >>
            <6>1. \A i \in 1..a(k) : nal[i] \in Nat
              <7>1. \A i \in 1..a(k) : i \in 1..Len(nal)
                <8>1. a(k) \in Nat /\ Len(nal) \in Nat /\ a(k) <= Len(nal)
                  BY <3>4
                <8> HIDE DEF bad
                <8> QED BY <8>1
              <7>2. \A i \in 1..Len(nal) : nal[i] \in Nat
                OBVIOUS
              <7> QED BY <7>1, <7>2
            <6>2. Len(SubSeq(nal, 1, a(k))) = a(k)
              BY <3>4, <6>1, SubSeqProperties
            <6> QED BY <3>4, <6>2
          <5> QED BY <5>1, <5>2, <5>3, <5>4
        <4> QED BY <4>1, <4>2
      <3>7. J(m + k) = SubSeq(nal, 1, a(k)) \o frag(k)
        BY <1>6, <2>1, <3>3, <3>6
      <3> QED BY <3>3, <3>5, <3>7
    <2>5. n \in 1..n
      BY <1>2
    <2>6. J(m + n) = SubSeq(nal, 1, d)
      BY <2>2, <2>4, <2>5
    <2>7. J(m + n) = nal
      BY <2>6, SubSeqFull
    <2> QED BY <1>4, <2>7, ReceivedIs DEF J, all, qs
  <1> QED BY <1>1, <1>7, <1>8

-----------------------------------------------------------------------------
(* The units of a stream. *)

\* The time stamp counts the frames; the position is at the code that has as
\* many starts before it; each unit sent is the file's unit of that number.
UnitInv ==
  /\ ts = 100 + FrameCount * 3600 /\ FrameCount \in Nat
  /\ \A j \in 1..Len(sent) : sent[j].ts <= ts
  /\ IF FirstCoded(file)
       THEN \E k \in Codes(file) : CodeAt(file, cur, k) /\ Cardinality(Before(file, k)) = FrameCount
       ELSE cur = 0 /\ FrameCount = 0
  /\ FrameCount = 0 => sent = << >>
  /\ \A n \in 1..FrameCount :
       n <= Len(UnitsOf(file)) /\ Received(sent, 100 + n * 3600) = UnitsOf(file)[n]
  /\ at # "streaming" => FrameCount = Len(UnitsOf(file))
  /\ at = "failed" => FrameCount = 0

LEMMA UnitInit == Init => UnitInv
  <1> SUFFICES ASSUME Init PROVE UnitInv
    OBVIOUS
  <1>1. file \in Seq(Nat) /\ cur = 0 /\ ts = 100 /\ sent = << >> /\ at = "streaming"
    BY RtpAssumption DEF Init
  <1>2. FrameCount = 0 /\ Len(sent) = 0 /\ 1..Len(sent) = {} /\ 1..FrameCount = {}
    BY <1>1 DEF FrameCount
  <1>3. FirstCoded(file) => \E k \in Codes(file) : CodeAt(file, cur, k) /\ Cardinality(Before(file, k)) = 0
    BY <1>1, FirstCode
  <1> QED BY <1>1, <1>2, <1>3 DEF UnitInv

\* One frame sends the next unit.
LEMMA UnitFrame == ASSUME StreamInv, UnitInv, PushFrame PROVE UnitInv'
  <1> DEFINE n == FrameCount
             nal == Nal(file, cur, Size)
             ps == Packets(nal, seq, ts + 3600)
  <1>1. /\ file \in Seq(Nat) /\ cur \in Nat /\ seq \in Nat /\ ts \in Nat /\ ts + 3600 \in Nat
        /\ sent \in Seq(PacketType) /\ Len(sent) \in Nat
    BY DEF StreamInv, StreamType
  <1>2. /\ at = "streaming" /\ Size > 0 /\ cur' = cur + Size /\ ts' = ts + 3600
        /\ sent' = sent \o ps /\ file' = file /\ at' = at
    BY DEF PushFrame
  <1>3. n \in Nat /\ ts = 100 + n * 3600
    BY DEF UnitInv
  <1>4. FrameCount' = n + 1 /\ ts' = 100 + (n + 1) * 3600
    <2>1. FrameCount' = (ts' - 100) \div 3600
      BY DEF FrameCount
    <2> HIDE DEF n
    <2>2. ts' - 100 = (n + 1) * 3600
      BY <1>2, <1>3
    <2>3. ((n + 1) * 3600) \div 3600 = n + 1
      BY <1>3
    <2> QED BY <1>2, <1>3, <2>1, <2>2, <2>3
  <1>5. FirstCoded(file)
    <2>1. ~FirstCoded(file) => Size <= 0
      <3>1. ~FirstCoded(file) => cur = 0
        BY DEF UnitInv
      <3> QED BY <1>1, <3>1, NoFirstCode DEF Size
    <2>2. Size \in Int
      BY <1>1, FrameInFile DEF Size, StreamInv, StreamType
    <2> QED BY <1>2, <2>1, <2>2
  <1>6. PICK k \in Codes(file) : CodeAt(file, cur, k) /\ Cardinality(Before(file, k)) = n
    BY <1>5 DEF UnitInv
  <1>7. k \in Codes(file) /\ \E l \in Codes(file) : l > k
    <2>1. k \in Codes(file)
      BY <1>6 DEF CodeAt
    <2>2. (~\E l \in Codes(file) : l > k) => Size = 0
      BY <1>1, <1>6, FrameEnds DEF Size
    <2> QED BY <1>2, <2>1, <2>2
  <1>8. PICK l \in Codes(file) : IsNext(file, k, l)
    BY <1>1, <1>7, NextExists
  <1>9. /\ Size = NextPos(file, k, l) - cur /\ NextPos(file, k, l) \in Nat
        /\ CodeAt(file, NextPos(file, k, l), l)
    BY <1>1, <1>6, <1>8, FrameEnds DEF Size
  <1>10. CodeAt(file, cur', l)
    BY <1>1, <1>2, <1>9
  <1>11. k \in Starts(file) /\ Cardinality(Before(file, l)) = n + 1
    BY <1>1, <1>6, <1>7, <1>8, OneMoreBefore
  <1>12. n + 1 \in 1..Len(UnitsOf(file)) /\ UnitsOf(file)[n + 1] = Unit(file, k)
    <2> DEFINE i == n + 1
    <2>1. i \in Nat /\ Cardinality(Before(file, k)) = i - 1
      BY <1>3, <1>6
    <2> HIDE DEF i
    <2>2. i \in 1..Len(UnitsOf(file)) /\ UnitsOf(file)[i] = Unit(file, k)
      BY <1>1, <1>5, <1>11, <2>1, NthStart
    <2> QED BY <2>2 DEF i
  <1>13. nal = Unit(file, k)
    BY <1>1, <1>6, <1>8, <1>9, FrameIsUnit
  <1>14. nal \in Seq(Nat)
    <2>1. Len(file) \in Nat /\ k \in Nat /\ l \in Nat /\ l <= Len(file)
      <3>1. Len(file) \in Nat /\ \A i \in Codes(file) : i \in 1..(Len(file) - 2)
        BY <1>1 DEF Codes
      <3>2. k \in 1..(Len(file) - 2) /\ l \in 1..(Len(file) - 2)
        BY <1>7, <1>8, <3>1
      <3> QED BY <3>1, <3>2
    <2> DEFINE e == IF l > k + 3 /\ file[l - 1] = 0 THEN l - 2 ELSE l - 1
    <2>2. Unit(file, k) = SubSeq(file, k + 3, e)
      BY <1>1, <1>7, <1>8, UnitIs
    <2>3. e \in Int /\ e <= Len(file)
      BY <2>1
    <2> HIDE DEF e
    <2>4. \A i \in (k + 3)..e : file[i] \in Nat
      <3>1. \A i \in (k + 3)..e : i \in 1..Len(file)
        BY <2>1, <2>3
      <3> QED BY <1>1, <3>1
    <2> QED BY <1>13, <2>1, <2>2, <2>3, <2>4, SubSeqProperties
  <1> HIDE DEF nal
  <1>15. ps \in Seq(PacketType) /\ Len(ps) \in Nat /\ \A j \in 1..Len(ps) : ps[j].ts = ts + 3600
    <2>1. PacketsFine(ps, seq, ts + 3600)
      BY <1>1, <1>14, PacketsOfUnit
    <2> HIDE DEF ps
    <2> QED BY <2>1 DEF PacketsFine
  <1>16. \A j \in 1..Len(sent) : sent[j].ts <= ts /\ sent[j].ts \in Nat
    <2>1. \A j \in 1..Len(sent) : sent[j] \in PacketType
      BY <1>1
    <2> QED BY <2>1 DEF UnitInv, PacketType
  <1>17. \A j \in 1..Len(sent') : sent'[j].ts <= ts'
    <2> HIDE DEF ps
    <2>1. /\ Len(sent') = Len(sent) + Len(ps)
          /\ \A j \in 1..(Len(sent) + Len(ps)) :
               sent'[j] = IF j <= Len(sent) THEN sent[j] ELSE ps[j - Len(sent)]
      BY <1>1, <1>2, <1>15, ConcatProperties
    <2>2. ASSUME NEW j \in 1..Len(sent') PROVE sent'[j].ts <= ts'
      <3>1. CASE j <= Len(sent)
        BY <1>1, <1>2, <1>15, <1>16, <2>1, <3>1
      <3>2. CASE ~(j <= Len(sent))
        <4>1. j - Len(sent) \in 1..Len(ps) /\ sent'[j] = ps[j - Len(sent)]
          BY <1>1, <1>15, <2>1, <3>2
        <4> QED BY <1>1, <1>2, <1>15, <4>1
      <3> QED BY <3>1, <3>2
    <2> QED BY <2>2
  <1>18. Received(sent', ts + 3600) = nal
    <2>1. \A j \in 1..Len(sent) : sent[j].ts # ts + 3600
      BY <1>1, <1>16
    <2> DEFINE stamp == ts + 3600
    <2>2. stamp \in Nat /\ \A j \in 1..Len(sent) : sent[j].ts # stamp
      BY <1>1, <2>1
    <2> HIDE DEF stamp
    <2>3. Received(sent \o Packets(nal, seq, stamp), stamp) = nal
      BY <1>1, <1>14, <2>2, ReceivedUnit
    <2> QED BY <1>2, <2>3 DEF stamp
  <1>19. ASSUME NEW i \in 1..n
         PROVE  Received(sent', 100 + i * 3600) = Received(sent, 100 + i * 3600)
    <2> HIDE DEF ps
    <2>1. 100 + i * 3600 # ts + 3600
      BY <1>3
    <2>2. \A j \in 1..Len(ps) : ps[j].ts # 100 + i * 3600
      BY <1>15, <2>1
    <2> DEFINE stamp == 100 + i * 3600
    <2>3. \A j \in 1..Len(ps) : ps[j].ts # stamp
      BY <2>2
    <2> HIDE DEF stamp
    <2>4. Received(sent \o ps, stamp) = Received(sent, stamp)
      BY <1>1, <1>15, <2>3, ReceivedStays
    <2> QED BY <1>2, <2>4 DEF stamp
  <1> HIDE DEF n, ps
  <1>20. ASSUME NEW i \in 1..(n + 1)
         PROVE  i <= Len(UnitsOf(file)) /\ Received(sent', 100 + i * 3600) = UnitsOf(file)[i]
    <2>1. CASE i \in 1..n
      <3>1. i <= Len(UnitsOf(file)) /\ Received(sent, 100 + i * 3600) = UnitsOf(file)[i]
        BY <2>1 DEF UnitInv, n
      <3> QED BY <1>19, <2>1, <3>1
    <2>2. CASE i \notin 1..n
      <3>1. i = n + 1 /\ 100 + i * 3600 = ts + 3600
        BY <1>3, <2>2
      <3>2. i \in 1..Len(UnitsOf(file)) /\ UnitsOf(file)[i] = nal
        BY <1>12, <1>13, <3>1
      <3> QED BY <1>18, <3>1, <3>2
    <2> QED BY <2>1, <2>2
  <1>21. UnitsOf(file)' = UnitsOf(file) /\ FirstCoded(file)'
    BY <1>2, <1>5
  <1> QED BY <1>2, <1>3, <1>4, <1>5, <1>10, <1>11, <1>17, <1>20 DEF UnitInv

\* The stream ends behind the last unit.
LEMMA UnitEnds == ASSUME StreamInv, UnitInv, PushEnds PROVE UnitInv'
  <1>1. /\ UNCHANGED <<file, cur, seq, ts, sent>> /\ at = "streaming" /\ Size <= 0
        /\ at' = IF Size < 0 THEN "failed" ELSE "finished"
    BY DEF PushEnds
  <1>2. file \in Seq(Nat) /\ cur \in Nat /\ FrameCount \in Nat
    BY DEF StreamInv, StreamType, UnitInv
  <1>3. FrameCount = Len(UnitsOf(file)) /\ (Size < 0 => FrameCount = 0)
    <2>1. CASE FirstCoded(file)
      <3>1. PICK k \in Codes(file) : CodeAt(file, cur, k) /\ Cardinality(Before(file, k)) = FrameCount
        BY <2>1 DEF UnitInv
      <3>2. k \in Codes(file)
        BY <3>1 DEF CodeAt
      <3>3. ~\E l \in Codes(file) : l > k
        <4>1. SUFFICES ASSUME \E l \in Codes(file) : l > k PROVE FALSE
          OBVIOUS
        <4>2. PICK l \in Codes(file) : IsNext(file, k, l)
          BY <1>2, <3>2, <4>1, NextExists
        <4>3. Size = NextPos(file, k, l) - cur /\ NextPos(file, k, l) \in Nat
              /\ NextPos(file, k, l) >= k + 2
          BY <1>2, <3>1, <4>2, FrameEnds DEF Size
        <4>4. k >= cur /\ k \in Nat
          BY <1>2, <3>1 DEF CodeAt, Codes
        <4> QED BY <1>1, <1>2, <4>3, <4>4
      <3>4. Size = 0
        BY <1>2, <3>1, <3>3, FrameEnds DEF Size
      <3>5. Starts(file) = Before(file, k)
        BY <1>2, <3>2, <3>3, LastCode
      <3> QED BY <1>2, <2>1, <3>1, <3>4, <3>5, UnitCount
    <2>2. CASE ~FirstCoded(file)
      BY <1>2, <2>2, UnitCount DEF UnitInv
    <2> QED BY <2>1, <2>2
  <1>4. FrameCount' = FrameCount
    BY <1>1 DEF FrameCount
  <1> QED BY <1>1, <1>3, <1>4 DEF UnitInv

LEMMA UnitStep == StreamInv /\ UnitInv /\ [Next]_vars => UnitInv'
  <1> SUFFICES ASSUME StreamInv, UnitInv, [Next]_vars PROVE UnitInv'
    OBVIOUS
  <1>1. CASE PushFrame
    BY <1>1, UnitFrame
  <1>2. CASE PushEnds
    BY <1>2, UnitEnds
  <1>3. CASE UNCHANGED vars
    BY <1>3 DEF vars, UnitInv, FrameCount
  <1> QED BY <1>1, <1>2, <1>3 DEF Next

\* The stream carries the file's NAL units, each complete and under a time
\* stamp of its own, in the order of the file, for every file and every MaxData
\* (h264parser.cpp:46-79, rtp.cpp:143-235).
THEOREM StreamsUnitsCorrect == Spec => []StreamsUnits
  <1>1. UnitInv => StreamsUnits
    BY DEF UnitInv, StreamsUnits
  <1>2. Init => StreamInv /\ UnitInv
    BY StreamInit, UnitInit
  <1>3. StreamInv /\ UnitInv /\ [Next]_vars => (StreamInv /\ UnitInv)'
    BY StreamStep, UnitStep
  <1> QED BY <1>1, <1>2, <1>3, PTL DEF Spec
=============================================================================
