--------------------------- MODULE HttpConn_proofs ---------------------------
(***************************************************************************)
(* Proofs about HttpConn and the Buffer it reads into, for any messages,   *)
(* files, bounds and buffer sizes: what each operation of Buffer does to   *)
(* the unread bytes, the types, what parse makes of a message, and that    *)
(* its loop ends. At the end of the module, about PageScripts: what a      *)
(* browser makes of the pages that MakeResponse sends.                     *)
(***************************************************************************)
EXTENDS HttpConn, PageScripts, SequenceTheorems, FiniteSetTheorems, TLAPS

-----------------------------------------------------------------------------
(* The operations of Buffer are those of a queue of bytes: what each does  *)
(* to the unread bytes, for every buffer, every length and every content.  *)

\* Zeros are bytes of a vector that is n long.
LEMMA ZerosType ==
  ASSUME NEW Byte, Zero \in Byte, NEW n \in Nat
  PROVE  Zeros(n) \in Seq(Byte) /\ Len(Zeros(n)) = n
BY DEF Zeros

\* The unread bytes are a sequence of as many bytes as ReadableBytes says.
LEMMA UnreadType ==
  ASSUME NEW Byte, NEW b \in Buffers(Byte)
  PROVE  /\ Unread(b) \in Seq(Byte) /\ Len(Unread(b)) = ReadableBytes(b)
         /\ ReadableBytes(b) \in Nat /\ WritableBytes(b) \in Nat
<1>1. /\ b.data \in Seq(Byte) /\ b.readPos \in Nat /\ b.writePos \in Nat
      /\ b.readPos <= b.writePos /\ b.writePos <= Len(b.data)
  BY DEF Buffers
<1>2. ReadableBytes(b) \in Nat /\ WritableBytes(b) \in Nat
  BY <1>1 DEF ReadableBytes, WritableBytes
<1>3. ASSUME NEW i \in 1..ReadableBytes(b)
      PROVE  b.data[b.readPos + i] \in Byte
  <2>1. b.readPos + i \in 1..Len(b.data)
    BY <1>1 DEF ReadableBytes
  <2> QED  BY <1>1, <2>1
<1>4. Unread(b) \in [1..ReadableBytes(b) -> Byte]
  BY <1>3 DEF Unread
<1>5. Unread(b) \in Seq(Byte) /\ Len(Unread(b)) = ReadableBytes(b)
  BY <1>2, <1>4
<1> QED  BY <1>2, <1>5

\* std::copy keeps the vector's length, and touches nothing but its target.
LEMMA CopyToType ==
  ASSUME NEW Byte, NEW data \in Seq(Byte), NEW at \in Nat, NEW s \in Seq(Byte),
         at + Len(s) <= Len(data)
  PROVE  /\ CopyTo(data, at, s) \in Seq(Byte)
         /\ Len(CopyTo(data, at, s)) = Len(data)
         /\ \A i \in 1..Len(data) :
              CopyTo(data, at, s)[i] =
                IF at < i /\ i <= at + Len(s) THEN s[i - at] ELSE data[i]
BY DEF CopyTo

\* A vector that grows keeps its bytes.
LEMMA ResizeType ==
  ASSUME NEW Byte, Zero \in Byte, NEW data \in Seq(Byte), NEW n \in Nat
  PROVE  /\ Resize(data, n) \in Seq(Byte) /\ Len(Resize(data, n)) = n
         /\ \A i \in 1..n : i <= Len(data) => Resize(data, n)[i] = data[i]
BY DEF Resize

\* Two buffers with the same unread bytes, stated byte by byte.
LEMMA SameUnread ==
  ASSUME NEW Byte, NEW b \in Buffers(Byte), NEW c \in Buffers(Byte),
         ReadableBytes(c) = ReadableBytes(b),
         \A i \in 1..ReadableBytes(b) : c.data[c.readPos + i] = b.data[b.readPos + i]
  PROVE  Unread(c) = Unread(b)
BY DEF Unread

\* MakeSpace_ makes room for len bytes and changes no unread byte: the
\* assertion in EnsureWriteable (buffer.cpp:83) holds.
THEOREM MakeSpaceCorrect ==
  ASSUME NEW Byte, Zero \in Byte, NEW b \in Buffers(Byte), NEW len \in Nat,
         WritableBytes(b) < len
  PROVE  /\ MakeSpace_(b, len) \in Buffers(Byte)
         /\ WritableBytes(MakeSpace_(b, len)) >= len
         /\ Unread(MakeSpace_(b, len)) = Unread(b)
<1> DEFINE c == MakeSpace_(b, len)
<1>1. /\ b \in [data : Seq(Byte), readPos : Nat, writePos : Nat]
      /\ b.data \in Seq(Byte) /\ b.readPos \in Nat /\ b.writePos \in Nat
      /\ b.readPos <= b.writePos /\ b.writePos <= Len(b.data) /\ Len(b.data) \in Nat
  BY DEF Buffers
<1>2. CASE WritableBytes(b) + PrependableBytes(b) < len
  <2> DEFINE n == b.writePos + len + 1
  <2>1. n \in Nat /\ Len(b.data) < n
    BY <1>1 DEF WritableBytes
  <2>2. c = [b EXCEPT !.data = Resize(b.data, n)]
    BY <1>2 DEF MakeSpace_
  <2>3. /\ Resize(b.data, n) \in Seq(Byte) /\ Len(Resize(b.data, n)) = n
        /\ \A i \in 1..n : i <= Len(b.data) => Resize(b.data, n)[i] = b.data[i]
    BY <1>1, <2>1, ResizeType
  <2>4. c.data = Resize(b.data, n) /\ c.readPos = b.readPos /\ c.writePos = b.writePos
    BY <1>1, <2>2
  <2>5. c \in Buffers(Byte)
    BY <1>1, <2>1, <2>2, <2>3, <2>4 DEF Buffers
  <2>6. WritableBytes(c) >= len
    BY <1>1, <2>1, <2>3, <2>4 DEF WritableBytes
  <2>7. ReadableBytes(c) = ReadableBytes(b)
    BY <2>4 DEF ReadableBytes
  <2>8. ASSUME NEW i \in 1..ReadableBytes(b)
        PROVE  c.data[c.readPos + i] = b.data[b.readPos + i]
    <3>1. b.readPos + i \in 1..Len(b.data)
      BY <1>1 DEF ReadableBytes
    <3> QED  BY <1>1, <2>1, <2>3, <2>4, <3>1
  <2>9. Unread(c) = Unread(b)
    BY <2>5, <2>7, <2>8, SameUnread
  <2> QED  BY <2>5, <2>6, <2>9
<1>3. CASE ~(WritableBytes(b) + PrependableBytes(b) < len)
  <2> DEFINE s == Unread(b)
  <2>1. s \in Seq(Byte) /\ Len(s) = ReadableBytes(b) /\ ReadableBytes(b) \in Nat
    BY UnreadType
  <2>2. 0 + Len(s) <= Len(b.data)
    BY <1>1, <2>1 DEF ReadableBytes
  <2>3. /\ CopyTo(b.data, 0, s) \in Seq(Byte) /\ Len(CopyTo(b.data, 0, s)) = Len(b.data)
        /\ \A i \in 1..Len(b.data) :
             CopyTo(b.data, 0, s)[i] = IF 0 < i /\ i <= 0 + Len(s) THEN s[i - 0] ELSE b.data[i]
    BY <1>1, <2>1, <2>2, CopyToType
  <2>4. c = [data |-> CopyTo(b.data, 0, s), readPos |-> 0, writePos |-> ReadableBytes(b)]
    BY <1>3 DEF MakeSpace_
  <2>5. c.data = CopyTo(b.data, 0, s) /\ c.readPos = 0 /\ c.writePos = ReadableBytes(b)
    BY <2>4
  <2>6. c \in Buffers(Byte)
    BY <2>1, <2>2, <2>3, <2>4, <2>5 DEF Buffers
  <2>7. WritableBytes(c) >= len
    BY <1>1, <1>3, <2>3, <2>5 DEF WritableBytes, PrependableBytes, ReadableBytes
  <2>8. ReadableBytes(c) = ReadableBytes(b)
    BY <2>1, <2>5 DEF ReadableBytes
  <2>9. ASSUME NEW i \in 1..ReadableBytes(b)
        PROVE  c.data[c.readPos + i] = b.data[b.readPos + i]
    <3>1. i \in 1..Len(b.data) /\ i \in 1..Len(s) /\ i - 0 = i /\ 0 + i = i
      BY <1>1, <2>1, <2>2
    <3>2. c.data[i] = s[i]
      BY <2>1, <2>3, <2>5, <3>1
    <3>3. s[i] = b.data[b.readPos + i]
      BY DEF Unread
    <3> QED  BY <2>5, <3>1, <3>2, <3>3
  <2>10. Unread(c) = Unread(b)
    BY <2>6, <2>8, <2>9, SameUnread
  <2> QED  BY <2>6, <2>7, <2>10
<1> QED  BY <1>2, <1>3

\* What EnsureWriteable asserts.
LEMMA EnsureCorrect ==
  ASSUME NEW Byte, Zero \in Byte, NEW b \in Buffers(Byte), NEW len \in Nat
  PROVE  /\ EnsureWriteable(b, len) \in Buffers(Byte)
         /\ WritableBytes(EnsureWriteable(b, len)) >= len
         /\ Unread(EnsureWriteable(b, len)) = Unread(b)
<1>1. CASE WritableBytes(b) < len
  BY <1>1, MakeSpaceCorrect DEF EnsureWriteable
<1>2. CASE ~(WritableBytes(b) < len)
  <2>1. WritableBytes(b) \in Nat
    BY UnreadType
  <2> QED  BY <1>2, <2>1 DEF EnsureWriteable
<1> QED  BY <1>1, <1>2

\* Bytes that are written where there is room for them follow the unread ones.
LEMMA HasWrittenCorrect ==
  ASSUME NEW Byte, NEW b \in Buffers(Byte), NEW s \in Seq(Byte),
         Len(s) <= WritableBytes(b)
  PROVE  /\ HasWritten(b, s) \in Buffers(Byte)
         /\ Unread(HasWritten(b, s)) = Unread(b) \o s
<1> DEFINE c == HasWritten(b, s)
           w == CopyTo(b.data, b.writePos, s)
           m == ReadableBytes(b)
<1>1. /\ b \in [data : Seq(Byte), readPos : Nat, writePos : Nat]
      /\ b.data \in Seq(Byte) /\ b.readPos \in Nat /\ b.writePos \in Nat
      /\ b.readPos <= b.writePos /\ b.writePos <= Len(b.data) /\ Len(b.data) \in Nat
      /\ Len(s) \in Nat
  BY DEF Buffers
<1>2. b.writePos + Len(s) <= Len(b.data)
  BY <1>1 DEF WritableBytes
<1>3. /\ w \in Seq(Byte) /\ Len(w) = Len(b.data)
      /\ \A i \in 1..Len(b.data) :
           w[i] = IF b.writePos < i /\ i <= b.writePos + Len(s)
                    THEN s[i - b.writePos] ELSE b.data[i]
  BY <1>1, <1>2, CopyToType
<1>4. c = [b EXCEPT !.data = w, !.writePos = b.writePos + Len(s)]
  BY DEF HasWritten
<1>5. c.data = w /\ c.readPos = b.readPos /\ c.writePos = b.writePos + Len(s)
  BY <1>1, <1>4
<1>6. c \in Buffers(Byte)
  <2> HIDE DEF w
  <2>1. c = [data |-> w, readPos |-> b.readPos, writePos |-> b.writePos + Len(s)]
    BY <1>1, <1>4
  <2>2. /\ b.writePos + Len(s) \in Nat /\ b.readPos <= b.writePos + Len(s)
        /\ b.writePos + Len(s) <= Len(w)
    BY <1>1, <1>2, <1>3
  <2> QED  BY <1>1, <1>3, <2>1, <2>2 DEF Buffers
<1>7. ReadableBytes(c) = m + Len(s) /\ m \in Nat
  BY <1>1, <1>5 DEF ReadableBytes
<1>8. Unread(b) \in Seq(Byte) /\ Len(Unread(b)) = m
  BY UnreadType
<1>9. ASSUME NEW i \in 1..(m + Len(s))
      PROVE  Unread(c)[i] = (Unread(b) \o s)[i]
  <2>1. Unread(c)[i] = w[b.readPos + i]
    BY <1>5, <1>7 DEF Unread
  <2>2. b.readPos + i \in 1..Len(b.data) /\ b.readPos + m = b.writePos
    BY <1>1, <1>2 DEF ReadableBytes
  <2>3. CASE i <= m
    <3>1. w[b.readPos + i] = b.data[b.readPos + i]
      BY <1>1, <1>3, <1>7, <2>2, <2>3
    <3>2. i \in 1..m
      BY <1>7, <2>3
    <3>3. Unread(b)[i] = b.data[b.readPos + i]
      BY <3>2 DEF Unread
    <3>4. (Unread(b) \o s)[i] = Unread(b)[i]
      BY <1>8, <3>2
    <3> QED  BY <2>1, <3>1, <3>3, <3>4
  <2>4. CASE ~(i <= m)
    <3>1. /\ b.writePos < b.readPos + i /\ b.readPos + i <= b.writePos + Len(s)
          /\ (b.readPos + i) - b.writePos = i - m
      BY <1>1, <1>7, <2>2, <2>4
    <3>2. w[b.readPos + i] = s[i - m]
      BY <1>3, <2>2, <3>1
    <3>3. (Unread(b) \o s)[i] = s[i - m]
      BY <1>1, <1>7, <1>8, <2>4
    <3> QED  BY <2>1, <3>2, <3>3
  <2> QED  BY <2>3, <2>4
<1>10. Unread(c) \in Seq(Byte) /\ Len(Unread(c)) = m + Len(s)
  BY <1>6, <1>7, UnreadType
<1>11. Unread(b) \o s \in Seq(Byte) /\ Len(Unread(b) \o s) = m + Len(s)
  BY <1>8
<1>12. Unread(c) = Unread(b) \o s
  BY <1>9, <1>10, <1>11
<1> QED  BY <1>6, <1>12

\* Append puts its bytes behind the unread ones, whatever space there was.
THEOREM AppendCorrect ==
  ASSUME NEW Byte, Zero \in Byte, NEW b \in Buffers(Byte), NEW s \in Seq(Byte)
  PROVE  /\ AppendBytes(b, s) \in Buffers(Byte)
         /\ Unread(AppendBytes(b, s)) = Unread(b) \o s
<1> DEFINE e == EnsureWriteable(b, Len(s))
<1>1. Len(s) \in Nat
  OBVIOUS
<1>2. e \in Buffers(Byte) /\ WritableBytes(e) >= Len(s) /\ Unread(e) = Unread(b)
  BY <1>1, EnsureCorrect
<1>3. Len(s) <= WritableBytes(e)
  BY <1>1, <1>2, UnreadType
<1> HIDE DEF e
<1>4. /\ HasWritten(e, s) \in Buffers(Byte)
      /\ Unread(HasWritten(e, s)) = Unread(e) \o s
  BY <1>2, <1>3, HasWrittenCorrect
<1> QED  BY <1>2, <1>4 DEF AppendBytes, e

\* ReadFd loses, doubles and reorders no byte, also when they do not fit and
\* the rest comes from the array on the stack (buffer.cpp:86-111).
THEOREM ReadFdCorrect ==
  ASSUME NEW Byte, Zero \in Byte, NEW b \in Buffers(Byte), NEW s \in Seq(Byte)
  PROVE  /\ ReadFd(b, s) \in Buffers(Byte)
         /\ Unread(ReadFd(b, s)) = Unread(b) \o s
<1> DEFINE n == WritableBytes(b)
<1>1. n \in Nat /\ Len(s) \in Nat /\ Unread(b) \in Seq(Byte)
  BY UnreadType
<1>2. CASE Len(s) <= n
  BY <1>2, HasWrittenCorrect DEF ReadFd
<1>3. CASE ~(Len(s) <= n)
  <2> DEFINE front == SubSeq(s, 1, n)
             back == SubSeq(s, n + 1, Len(s))
             c == HasWritten(b, front)
  <2>1. front \in Seq(Byte) /\ Len(front) = n /\ back \in Seq(Byte)
    BY <1>1, <1>3
  <2>2. front \o back = s
    <3>1. /\ 1 \in 1..Len(s) + 1 /\ n \in 1 - 1..Len(s) /\ Len(s) \in n..Len(s)
      BY <1>1, <1>3
    <3>2. SubSeq(s, 1, n) \o SubSeq(s, n + 1, Len(s)) = SubSeq(s, 1, Len(s))
      <4> HIDE DEF n
      <4> QED  BY <3>1, ConcatAdjacentSubSeq
    <3> QED  BY <3>2, SubSeqFull
  <2>8. Len(front) <= WritableBytes(b)
    BY <1>1, <2>1
  <2>3. c \in Buffers(Byte) /\ Unread(c) = Unread(b) \o front
    <3> HIDE DEF front
    <3> QED  BY <2>1, <2>8, HasWrittenCorrect
  <2>4. ReadFd(b, s) = AppendBytes(c, back)
    BY <1>3 DEF ReadFd
  <2> HIDE DEF c, front, back
  <2>5. /\ AppendBytes(c, back) \in Buffers(Byte)
        /\ Unread(AppendBytes(c, back)) = Unread(c) \o back
    BY <2>1, <2>3, AppendCorrect
  <2>6. (Unread(b) \o front) \o back = Unread(b) \o (front \o back)
    <3>1. Unread(b) \in Seq(Byte) /\ front \in Seq(Byte) /\ back \in Seq(Byte)
      BY <1>1, <2>1
    <3> QED  BY <3>1, ConcatAssociative
  <2> QED  BY <2>2, <2>3, <2>4, <2>5, <2>6
<1> QED  BY <1>2, <1>3

\* Retrieve drops the first len unread bytes, and RetrieveAll all of them.
THEOREM RetrieveCorrect ==
  ASSUME NEW Byte, Zero \in Byte, NEW b \in Buffers(Byte),
         NEW len \in 0..ReadableBytes(b)
  PROVE  /\ Retrieve(b, len) \in Buffers(Byte) /\ RetrieveAll(b) \in Buffers(Byte)
         /\ Unread(Retrieve(b, len)) = SubSeq(Unread(b), len + 1, Len(Unread(b)))
         /\ Unread(RetrieveAll(b)) = << >>
<1> DEFINE c == Retrieve(b, len)
           d == RetrieveAll(b)
           m == ReadableBytes(b)
<1>1. /\ b \in [data : Seq(Byte), readPos : Nat, writePos : Nat]
      /\ b.data \in Seq(Byte) /\ b.readPos \in Nat /\ b.writePos \in Nat
      /\ b.readPos <= b.writePos /\ b.writePos <= Len(b.data) /\ Len(b.data) \in Nat
  BY DEF Buffers
<1>2. m \in Nat /\ len \in Nat /\ len <= m /\ m = b.writePos - b.readPos
  BY <1>1 DEF ReadableBytes
<1>3. c = [b EXCEPT !.readPos = b.readPos + len]
  BY DEF Retrieve
<1>4. c.data = b.data /\ c.readPos = b.readPos + len /\ c.writePos = b.writePos
  BY <1>1, <1>3
<1>5. c \in Buffers(Byte)
  BY <1>1, <1>2, <1>3, <1>4 DEF Buffers
<1>6. ReadableBytes(c) = m - len
  BY <1>1, <1>2, <1>4 DEF ReadableBytes
<1>7. Unread(b) \in Seq(Byte) /\ Len(Unread(b)) = m
  BY UnreadType
<1>8. ASSUME NEW i \in 1..(m - len)
      PROVE  Unread(c)[i] = SubSeq(Unread(b), len + 1, m)[i]
  <2>1. Unread(c)[i] = b.data[(b.readPos + len) + i]
    BY <1>4, <1>6 DEF Unread
  <2>2. len + i \in 1..m /\ b.readPos + (len + i) = (b.readPos + len) + i
    BY <1>1, <1>2
  <2>3. Unread(b)[len + i] = b.data[(b.readPos + len) + i]
    BY <2>2 DEF Unread
  <2>4. SubSeq(Unread(b), len + 1, m)[i] = Unread(b)[len + i]
    BY <1>2, <1>7
  <2> QED  BY <2>1, <2>3, <2>4
<1>9. Unread(c) \in Seq(Byte) /\ Len(Unread(c)) = m - len
  BY <1>5, <1>6, UnreadType
<1>10. /\ SubSeq(Unread(b), len + 1, m) \in Seq(Byte)
       /\ Len(SubSeq(Unread(b), len + 1, m)) = m - len
  BY <1>2, <1>7
<1>11. Unread(c) = SubSeq(Unread(b), len + 1, m)
  BY <1>8, <1>9, <1>10
<1>12. Zeros(Len(b.data)) \in Seq(Byte) /\ Len(Zeros(Len(b.data))) = Len(b.data)
  BY <1>1, ZerosType
<1>13. d = [data |-> Zeros(Len(b.data)), readPos |-> 0, writePos |-> 0]
  BY DEF RetrieveAll
<1>14. d \in Buffers(Byte) /\ ReadableBytes(d) = 0
  BY <1>1, <1>12, <1>13 DEF Buffers, ReadableBytes
<1>15. Unread(d) \in Seq(Byte) /\ Len(Unread(d)) = 0
  BY <1>14, UnreadType
<1>16. Unread(d) = << >>
  BY <1>15
<1> QED  BY <1>5, <1>7, <1>11, <1>14, <1>16
-----------------------------------------------------------------------------
(* The types. *)

\* The first line is a beginning of the text, and ends before its end when
\* there is a CRLF: RetrieveUntil(lineEnd + 2) stays inside the buffer.
LEMMA FirstLineType ==
  ASSUME NEW T, NEW s \in Seq(T)
  PROVE  \E k \in 0..Len(s) :
           /\ FirstLine(s) = SubSeq(s, 1, k)
           /\ FirstLine(s) \in Seq(T) /\ Len(FirstLine(s)) = k
           /\ ~Unended(s) => k < Len(s)
<1> DEFINE first(k) == \A l \in 1..k : s[l] # "crlf"
           K == {k \in 0..Len(s) : first(k)}
           c == Cardinality(K)
<1>1. Len(s) \in Nat /\ 0 \in K
  OBVIOUS
<1>2. IsFiniteSet(K) /\ c \in Nat /\ c <= Len(s) + 1
  <2>1. IsFiniteSet(0..Len(s)) /\ Cardinality(0..Len(s)) = Len(s) + 1
    BY <1>1, FS_Interval
  <2>2. K \in SUBSET (0..Len(s))
    OBVIOUS
  <2> QED  BY <2>1, <2>2, FS_Subset, FS_CardinalityType
<1>3. \A j, k \in 0..Len(s) : j <= k /\ k \in K => j \in K
  BY <1>1
<1>4. c # 0
  BY <1>1, <1>2, FS_EmptySet
<1> HIDE DEF K
<1>5. K \subseteq 0..Len(s)
  BY DEF K
<1>6. c - 1 \in K
  <2> SUFFICES ASSUME c - 1 \notin K PROVE FALSE
    OBVIOUS
  <2>1. K \in SUBSET (0..(c - 2))
    BY <1>1, <1>2, <1>3, <1>4, <1>5
  <2>2. IsFiniteSet(0..(c - 2)) /\ Cardinality(0..(c - 2)) = c - 1
    <3> HIDE DEF c
    <3>1. c - 2 \in Int /\ 0 \in Int
      BY <1>2
    <3>2. /\ IsFiniteSet(0..(c - 2))
          /\ Cardinality(0..(c - 2)) = IF 0 > c - 2 THEN 0 ELSE ((c - 2) - 0) + 1
      BY <3>1, FS_Interval
    <3> QED  BY <1>2, <1>4, <3>2
  <2>3. c <= c - 1
    BY <2>1, <2>2, FS_Subset
  <2> QED  BY <1>2, <2>3
<1>7. c \notin K
  <2> SUFFICES ASSUME c \in K PROVE FALSE
    OBVIOUS
  <2>1. 0..c \in SUBSET K
    BY <1>1, <1>2, <1>3, <1>5
  <2>2. Cardinality(0..c) = c + 1
    BY <1>2, FS_Interval
  <2>3. c + 1 <= c
    BY <1>2, <2>1, <2>2, FS_Subset
  <2> QED  BY <1>2, <2>3
<1>8. \E k \in 0..Len(s) : first(k) /\ (k < Len(s) => ~first(k + 1))
  <2>1. c - 1 \in 0..Len(s) /\ (c - 1) + 1 = c
    BY <1>2, <1>5, <1>6
  <2>2. first(c - 1)
    BY <1>6 DEF K
  <2>3. c - 1 < Len(s) => ~first(c)
    BY <1>1, <1>2, <1>7, <2>1 DEF K
  <2> QED  BY <2>1, <2>2, <2>3
<1> DEFINE m == CHOOSE k \in 0..Len(s) : first(k) /\ (k < Len(s) => ~first(k + 1))
<1>9. m \in 0..Len(s) /\ first(m)
  BY <1>8
<1>10. FirstLine(s) = SubSeq(s, 1, m)
  BY DEF FirstLine
<1> HIDE DEF m
<1>11. SubSeq(s, 1, m) \in Seq(T) /\ Len(SubSeq(s, 1, m)) = m
  BY <1>1, <1>9
<1>12. ~Unended(s) => m < Len(s)
  BY <1>1, <1>9 DEF Unended, Contains
<1> QED  BY <1>9, <1>10, <1>11, <1>12

Bytes == Tokens \union {Zero}

\* What parse leaves of the buffer when it goes on to the next line.
LEMMA RetrieveLineType ==
  ASSUME readBuff \in Buffers(Bytes), ~LastLine
  PROVE  /\ Retrieve(readBuff, Len(Line) + 1) \in Buffers(Bytes)
         /\ Len(Line) + 1 <= ReadableBytes(readBuff)
<1>1. buff \in Seq(Bytes) /\ Len(buff) = ReadableBytes(readBuff)
      /\ ReadableBytes(readBuff) \in Nat
  BY UnreadType DEF buff
<1>2. PICK k \in 0..Len(buff) : Len(Line) = k /\ k < Len(buff)
  BY <1>1, FirstLineType DEF Line, LastLine
<1>3. Len(Line) + 1 \in 0..ReadableBytes(readBuff)
  BY <1>1, <1>2
<1>4. Zero \in Bytes
  BY DEF Bytes
<1> QED  BY <1>1, <1>3, <1>4, RetrieveCorrect

\* The initial state is well typed.
LEMMA InitType == Init => TypeOK
<1> SUFFICES ASSUME Init PROVE TypeOK
  OBVIOUS
<1>1. Zeros(InitBuffSize) \in Seq(Bytes) /\ Len(Zeros(InitBuffSize)) = InitBuffSize
  BY BufferAssumption, ZerosType DEF Bytes
<1>2. readBuff = [data |-> Zeros(InitBuffSize), readPos |-> 0, writePos |-> 0]
  BY DEF Init, NewBuffer
<1>3. readBuff \in Buffers(Bytes) /\ ReadableBytes(readBuff) = 0
  BY <1>1, <1>2, BufferAssumption DEF Buffers, ReadableBytes
<1>4. buff = << >>
  BY <1>3, UnreadType DEF buff
<1>5. << >> \in Seq(Tokens) /\ << >> \in Seq(Messages)
      /\ << >> \in Seq(Response)
  OBVIOUS
<1>6. client \in 1..MaxClients
  <2>1. MaxClients \in Nat \ {0}
    BY HttpAssumption, Zenon
  <2>2. client = 1
    BY DEF Init
  <2> QED  BY <2>1, <2>2
<1>7. path \in Paths
  BY HttpAssumption DEF Init
<1>8. proto \in {"HTTP", "other"}
  BY HttpAssumption DEF Init
<1> QED  BY <1>3, <1>4, <1>5, <1>6, <1>7, <1>8 DEF Init, TypeOK, Bytes

\* A step of the clients.
LEMMA ClientType == ASSUME TypeOK, Send \/ NewClient PROVE TypeOK'
<1>1. CASE Send
  <2>1. sent \in Nat /\ sent' = sent + 1
    BY <1>1 DEF Send, TypeOK
  <2>2. sock' \in Seq(Tokens)
    <3>1. PICK m \in Messages : sock' = sock \o m
      BY <1>1 DEF Send
    <3>2. m \in Seq(Tokens) /\ sock \in Seq(Tokens)
      BY HttpAssumption DEF TypeOK
    <3> QED  BY <3>1, <3>2
  <2>3. buff' = buff
    BY <1>1 DEF Send, buff
  <2>4. UNCHANGED <<client, readBuff, pc, proto, reqVars, iovSet, replies, histVars>>
    BY <1>1 DEF Send
  <2>5. sent' \in Nat
    BY <2>1
  <2>6. /\ client' \in 1..MaxClients /\ iovSet' \in BOOLEAN
        /\ readBuff' \in Buffers(Tokens \union {Zero})
        /\ pc' \in {"in", "read", "process", "parse", "respond", "out", "lost"}
        /\ proto' \in {"HTTP", "other"} /\ replies' \in Seq(Response)
        /\ pc' = "in" => buff' = << >>
    BY <2>3, <2>4 DEF TypeOK
  <2>7. /\ state' \in {"REQUEST_LINE", "HEADERS", "BODY", "FINISH"}
        /\ method' \in {"", "GET", "POST", "other"} /\ path' \in Paths
        /\ typed' \in BOOLEAN /\ ok' \in BOOLEAN
        /\ segment' \in Seq(Tokens) /\ clean' \in BOOLEAN /\ got' \in Seq(Messages)
    BY <2>4 DEF TypeOK, reqVars, histVars
  <2> QED  BY <2>2, <2>5, <2>6, <2>7, Zenon DEF TypeOK
<1>2. CASE NewClient
  <2>1. readBuff \in Buffers(Bytes) /\ Zero \in Bytes
    BY DEF TypeOK, Bytes
  <2>2. 0 \in 0..ReadableBytes(readBuff)
    BY <2>1, UnreadType
  <2>3. readBuff' \in Buffers(Bytes) /\ buff' = << >>
    BY <1>2, <2>1, <2>2, RetrieveCorrect DEF NewClient, buff
  <2>4. client' \in 1..MaxClients
    <3>1. MaxClients \in Nat \ {0}
      BY HttpAssumption, Zenon
    <3>2. client \in 1..MaxClients /\ client < MaxClients /\ client' = client + 1
      BY <1>2 DEF NewClient, TypeOK
    <3> QED  BY <3>1, <3>2
  <2>5. << >> \in Seq(Tokens) /\ << >> \in Seq(Messages)
        /\ << >> \in Seq(Response)
    OBVIOUS
  <2> QED  BY <1>2, <2>3, <2>4, <2>5 DEF NewClient, TypeOK, reqVars, Bytes
<1> QED  BY <1>1, <1>2

\* A read, and its end.
LEMMA ReadType == ASSUME TypeOK, Read \/ ReadEnd PROVE TypeOK'
<1>1. CASE Read
  <2>1. PICK k \in 1..Least(Len(sock), ReadLimit(readBuff)) :
          /\ readBuff' = ReadFd(readBuff, SubSeq(sock, 1, k))
          /\ sock' = SubSeq(sock, k + 1, Len(sock))
          /\ segment' = segment \o SubSeq(sock, 1, k)
    BY <1>1 DEF Read
  <2>2. /\ readBuff \in Buffers(Bytes) /\ Zero \in Bytes
        /\ sock \in Seq(Tokens) /\ segment \in Seq(Tokens) /\ Tokens \subseteq Bytes
    BY DEF TypeOK, Bytes
  <2>3. k \in 1..Len(sock)
    <3>1. WritableBytes(readBuff) \in Nat /\ Len(sock) \in Nat
      BY <2>2, UnreadType
    <3> QED  BY <3>1, BufferAssumption DEF Least, ReadLimit
  <2>4. /\ SubSeq(sock, 1, k) \in Seq(Tokens) /\ SubSeq(sock, 1, k) \in Seq(Bytes)
        /\ SubSeq(sock, k + 1, Len(sock)) \in Seq(Tokens)
    <3>1. SubSeq(sock, 1, k) \in Seq(Tokens)
          /\ SubSeq(sock, k + 1, Len(sock)) \in Seq(Tokens)
      BY <2>2, <2>3
    <3> QED  BY <2>2, <3>1
  <2>5. readBuff' \in Buffers(Bytes)
    BY <2>1, <2>2, <2>4, ReadFdCorrect
  <2>6. segment' \in Seq(Tokens)
    BY <2>1, <2>2, <2>4
  <2> QED  BY <1>1, <2>1, <2>4, <2>5, <2>6 DEF Read, TypeOK, reqVars, Bytes
<1>2. CASE ReadEnd
  <2>1. clean' \in BOOLEAN /\ (clean' => segment \in Messages)
    BY <1>2, Zenon DEF ReadEnd, TypeOK
  <2>2. got' \in Seq(Messages)
    <3>1. CASE clean'
      <4>1. got' = Append(got, segment)
        BY <1>2, <3>1, Zenon DEF ReadEnd
      <4>2. got \in Seq(Messages) /\ segment \in Messages
        BY <2>1, <3>1 DEF TypeOK
      <4> QED  BY <4>1, <4>2
    <3>2. CASE ~clean'
      <4>1. got' = got
        BY <1>2, <3>2, Zenon DEF ReadEnd
      <4> QED  BY <4>1 DEF TypeOK
    <3> QED  BY <3>1, <3>2
  <2>3. pc' = "process" /\ segment' = << >> /\ << >> \in Seq(Tokens)
    BY <1>2 DEF ReadEnd
  <2>4. UNCHANGED <<clientVars, readBuff, proto, reqVars, iovSet, replies>>
    BY <1>2 DEF ReadEnd
  <2> QED  BY <2>1, <2>2, <2>3, <2>4 DEF TypeOK, reqVars, clientVars
<1> QED  BY <1>1, <1>2

\* ServerConn::process: EPOLLIN is armed only with nothing left in the buffer.
LEMMA ProcessType == ASSUME TypeOK, Process PROVE TypeOK'
<1>1. buff' = buff
  BY DEF Process, buff
<1> QED  BY <1>1, HttpAssumption
           DEF Process, InitRequest, TypeOK, reqVars, clientVars, histVars

\* parse: a line that is taken lies inside the buffer.
LEMMA ParseType == ASSUME TypeOK, Parse PROVE TypeOK'
<1> USE DEF TypeOK, clientVars, histVars
<1>1. CASE ParseEnd
  BY <1>1 DEF Parse, ParseEnd, buff
<1>2. CASE ParseFails
  BY <1>2 DEF Parse, ParseFails, buff
<1>3. CASE ParseLine
  <2>1. readBuff' \in Buffers(Bytes) /\ pc' \in {"parse", "respond"} /\ ok' \in BOOLEAN
    <3>1. CASE LastLine
      BY <1>3, <3>1 DEF Parse, ParseLine, NextLine, Bytes
    <3>2. CASE ~LastLine
      BY <1>3, <3>2, RetrieveLineType DEF Parse, ParseLine, NextLine, RetrieveLine, Bytes
    <3> QED  BY <3>1, <3>2
  <2>2. /\ state' \in {"REQUEST_LINE", "HEADERS", "BODY", "FINISH"}
        /\ method' \in {"", "GET", "POST", "other"} /\ path' \in Paths /\ typed' \in BOOLEAN
    <3>1. CASE IsRequestLine(Line) /\ ParseRequestLine_
      <4>1. Target[Line[Len(Line) - 1]] \in [method : {"GET", "POST"}, path : Paths]
        BY <3>1, HttpAssumption DEF IsRequestLine
      <4> QED  BY <3>1, <4>1, HttpAssumption DEF ParseRequestLine_
    <3>2. CASE ParseHeader_
      BY <3>2 DEF ParseHeader_
    <3>3. CASE ParseBody_
      BY <3>3, HttpAssumption DEF ParseBody_
    <3> QED  BY <1>3, <3>1, <3>2, <3>3 DEF ParseLine
  <2> QED  BY <1>3, <2>1, <2>2 DEF Parse, Bytes
<1> QED  BY <1>1, <1>2, <1>3 DEF Parse

\* MakeResponse and what follows.
LEMMA RespondType == ASSUME TypeOK, Respond \/ Written PROVE TypeOK'
<1>1. CASE Respond
  <2>1. FileOf[path] \in {"file", "none", "dir", "private"}
    BY HttpAssumption DEF TypeOK
  <2>2. Code(path) \in {200, 400, 403, 404}
    BY <2>1 DEF Code
  <2>3. Code(path) # 200 => ErrorPage(Code(path)) \in ErrorPages
    BY <2>2 DEF ErrorPage, ErrorPages
  <2>4. MakeResponse \in Response
    BY <2>2, <2>3 DEF MakeResponse, TypeOK, Response
  <2>5. replies' \in Seq(Response)
    <3>1. replies \in Seq(Response)
      BY DEF TypeOK
    <3>2. replies' = Append(replies, MakeResponse) \/ replies' = replies
      BY <1>1 DEF Respond
    <3> QED  BY <2>4, <3>1, <3>2
  <2>6. buff' = buff
    BY <1>1 DEF Respond, buff
  <2> QED  BY <1>1, <2>5, <2>6 DEF Respond, TypeOK, clientVars, reqVars, histVars
<1>2. CASE Written
  <2>1. buff' = buff
    BY <1>2 DEF Written, buff
  <2> QED  BY <1>2, <2>1 DEF Written, TypeOK, clientVars, reqVars, histVars
<1> QED  BY <1>1, <1>2

\* Every step keeps the types.
LEMMA StepType == ASSUME TypeOK, [Next]_vars PROVE TypeOK'
<1>1. CASE Next
  BY <1>1, ClientType, ReadType, ProcessType, ParseType, RespondType DEF Next, Serve
<1>2. CASE UNCHANGED vars
  <2>1. buff' = buff
    BY <1>2 DEF vars, buff
  <2>2. /\ UNCHANGED <<client, sent, sock, iovSet, readBuff, pc, proto, replies>>
        /\ UNCHANGED <<state, method, path, typed, ok, segment, clean, got>>
    BY <1>2 DEF vars, clientVars, reqVars, histVars
  <2>3. /\ client' \in 1..MaxClients /\ sent' \in Nat /\ sock' \in Seq(Tokens)
        /\ iovSet' \in BOOLEAN /\ readBuff' \in Buffers(Tokens \union {Zero})
        /\ pc' \in {"in", "read", "process", "parse", "respond", "out", "lost"}
        /\ proto' \in {"HTTP", "other"} /\ replies' \in Seq(Response)
        /\ pc' = "in" => buff' = << >>
    BY <2>1, <2>2 DEF TypeOK
  <2>4. /\ state' \in {"REQUEST_LINE", "HEADERS", "BODY", "FINISH"}
        /\ method' \in {"", "GET", "POST", "other"} /\ path' \in Paths
        /\ typed' \in BOOLEAN /\ ok' \in BOOLEAN
        /\ segment' \in Seq(Tokens) /\ clean' \in BOOLEAN /\ got' \in Seq(Messages)
    BY <2>2 DEF TypeOK
  <2> QED  BY <2>3, <2>4, Zenon DEF TypeOK
<1> QED  BY <1>1, <1>2

\* The types hold at every step: in particular the positions of readBuff_ are
\* in order, RetrieveUntil never passes BeginWrite (buffer.cpp:29), and a
\* connection that waits for EPOLLIN has nothing left in readBuff_
\* (serverconn.cpp:103-106).
THEOREM TypeCorrect == Spec => []TypeOK
BY InitType, StepType, PTL DEF Spec
-----------------------------------------------------------------------------
(* The responses. *)

Current == got[Len(got)]

\* The page that a message asks for, and whether its form decides on another.
Asked(m) == Page(Target[m[1]].path)
FormOf(m) ==
  Target[m[1]].method = "POST" /\ HasForm(m) /\ Asked(m) \in {"/login.html", "/register.html"}

\* What parse knows when it has gone through m up to its i-th token.
Requested(m) == method = Target[m[1]].method /\ path = Asked(m)
Result(m) == IF FormOf(m) THEN path \in Verified ELSE path = Asked(m)
Parsing(m, e, i) ==
  \/ i = 1 /\ state = "REQUEST_LINE" /\ ~typed
  \/ i \in 4..e /\ m[i - 1] = "crlf" /\ state = "HEADERS" /\ Requested(m) /\ (typed <=> i > 4)
  \/ i = e + 1 /\ e < Len(m) /\ state = "BODY" /\ Requested(m) /\ typed
  \/ i = Len(m) + 1 /\ m[Len(m)] = "crlf" /\ state = "FINISH" /\ Result(m)

\* What parse leaves in the buffer, and what is answered to something that is
\* no request line.
Rest(m) == IF m[Len(m)] = "crlf" THEN << >> ELSE <<"text">>
Failing ==
  /\ pc \in {"process", "parse", "respond", "out", "lost"}
  /\ pc = "parse" => state = "REQUEST_LINE"
  /\ pc \in {"parse", "respond"} => path = ""

\* The last message is a browser's: it has not been answered, or it has.
Fresh(m) ==
  /\ Len(replies) = Least(Len(got) - 1, MaxReplies)
  /\ pc \in {"process", "parse", "respond"}
  /\ pc = "process" => buff = m
  /\ pc = "parse" => \E e \in 4..Len(m), i \in 1..(Len(m) + 1) :
                       EmptyLineAt(m, e) /\ buff = SubSeq(m, i, Len(m)) /\ Parsing(m, e, i)
  /\ pc = "respond" => buff = Rest(m) /\ Result(m) /\ ok
Done(m) ==
  /\ buff = Rest(m)
  /\ IF buff = << >>
       THEN Len(replies) = Least(Len(got), MaxReplies) /\ pc \in {"process", "out", "lost"}
       ELSE Len(replies) >= Least(Len(got), MaxReplies) /\ Failing

\* The last message is no request: it stays, and is answered again and again.
Refused(m) ==
  m # << >> /\ buff = m /\ Len(replies) >= Least(Len(got) - 1, MaxReplies) /\ Failing

Answered == \A k \in 1..Len(got) : k <= Len(replies) => replies[k] \in Expected(got[k])
InHand ==
  /\ pc \in {"in", "read"} => Len(replies) = Least(Len(got), MaxReplies)
  /\ pc = "read" => buff = segment /\ segment # << >>
  /\ pc \notin {"in", "read"} =>
       /\ Len(got) >= 1
       /\ \/ FromBrowser(Current) /\ (Fresh(Current) \/ Done(Current))
          \/ NoRequest(Current) /\ Refused(Current)

FlowInv == (pc # "read" => segment = << >>) /\ (clean => Answered /\ InHand)
IInv == TypeOK /\ FlowInv

\* A line that begins at the i-th token of m and has its end at the j-th.
LEMMA LineAt ==
  ASSUME NEW T, NEW m \in Seq(T), NEW i \in 1..Len(m), NEW j \in i..Len(m),
         m[j] = "crlf", \A l \in i..(j - 1) : m[l] # "crlf"
  PROVE  LET s == SubSeq(m, i, Len(m)) IN
         /\ s # << >> /\ ~Unended(s)
         /\ Len(FirstLine(s)) = j - i
         /\ \A l \in 1..(j - i) : FirstLine(s)[l] = m[i + l - 1]
         /\ NextLines(s) = SubSeq(m, j + 1, Len(m))
<1> DEFINE p == j - i
<1>0. p \in 0..(Len(m) - i) /\ i + p = j
  OBVIOUS
<1> HIDE DEF p
<1> DEFINE s == SubSeq(m, i, Len(m))
           first(k) == \A l \in 1..k : s[l] # "crlf"
           q == CHOOSE k \in 0..Len(s) : first(k) /\ (k < Len(s) => ~first(k + 1))
<1>1. /\ Len(m) \in Nat /\ i \in Nat /\ p \in Nat /\ p < Len(m) - i + 1
      /\ s \in Seq(T) /\ Len(s) = Len(m) - i + 1
      /\ \A k \in 1..Len(s) : s[k] = m[i + k - 1]
  BY <1>0
<1>2. first(p) /\ ~first(p + 1) /\ p \in 0..Len(s)
  <2>1. \A l \in 1..p : i + l - 1 \in i..(j - 1) /\ l \in 1..Len(s)
    BY <1>0, <1>1
  <2>2. first(p)
    BY <1>1, <2>1
  <2>3. s[p + 1] = "crlf" /\ p + 1 \in 1..(p + 1)
    BY <1>0, <1>1
  <2> HIDE DEF s
  <2> QED  BY <1>1, <2>2, <2>3
<1> HIDE DEF s
<1>3. \A k \in 0..Len(s) : first(k) /\ (k < Len(s) => ~first(k + 1)) => k = p
  <2> SUFFICES ASSUME NEW k \in 0..Len(s), first(k), k < Len(s) => ~first(k + 1)
               PROVE  k = p
    OBVIOUS
  <2>1. k <= p
    BY <1>1, <1>2
  <2>2. ~(k < p)
    BY <1>1, <1>2
  <2> QED  BY <1>1, <2>1, <2>2
<1>4. q = p
  BY <1>1, <1>2, <1>3
<1>5. FirstLine(s) = SubSeq(s, 1, q)
  BY DEF FirstLine
<1> HIDE DEF q
<1>6. FirstLine(s) = SubSeq(s, 1, p) /\ Len(FirstLine(s)) = p
  BY <1>1, <1>4, <1>5
<1>7. ASSUME NEW l \in 1..p PROVE FirstLine(s)[l] = m[i + l - 1]
  <2>1. l \in 1..Len(s) /\ FirstLine(s)[l] = s[l]
    BY <1>1, <1>6
  <2> QED  BY <1>1, <2>1
<1>8. ~Unended(s)
  BY <1>1, <1>2 DEF Unended, Contains
<1>9. s # << >>
  BY <1>1
<1>10. NextLines(s) = SubSeq(m, j + 1, Len(m))
  <2>1. NextLines(s) = SubSeq(s, p + 2, Len(s))
    BY <1>6 DEF NextLines
  <2>2. SubSeq(s, p + 2, Len(s)) = SubSeq(m, i + p + 1, Len(m))
    BY <1>1 DEF s
  <2> QED  BY <1>0, <2>1, <2>2
<1> QED  BY <1>6, <1>7, <1>8, <1>9, <1>10 DEF s, p

\* RetrieveUntil takes a line and its end.
LEMMA RetrieveLineCorrect ==
  ASSUME TypeOK, ~LastLine, RetrieveLine
  PROVE  buff' = NextLines(buff)
<1>1. readBuff \in Buffers(Bytes) /\ Zero \in Bytes
  BY DEF TypeOK, Bytes
<1>2. Len(Line) + 1 <= ReadableBytes(readBuff) /\ ReadableBytes(readBuff) \in Nat
      /\ Len(Line) \in Nat
  <2>1. buff \in Seq(Bytes) /\ ReadableBytes(readBuff) \in Nat
    BY <1>1, UnreadType DEF buff
  <2> QED  BY <1>1, <2>1, RetrieveLineType, FirstLineType DEF Line
<1>3. buff' = SubSeq(buff, (Len(Line) + 1) + 1, Len(buff))
  BY <1>1, <1>2, RetrieveCorrect DEF RetrieveLine, buff
<1>4. (Len(Line) + 1) + 1 = Len(Line) + 2
  BY <1>2
<1> QED  BY <1>3, <1>4 DEF NextLines, Line

\* One token is left.
LEMMA LastToken ==
  ASSUME NEW T, NEW m \in Seq(T), NEW i \in 1..Len(m), NEW x
  PROVE  SubSeq(m, i, Len(m)) = <<x>> <=> i = Len(m) /\ m[i] = x
<1> DEFINE s == SubSeq(m, i, Len(m))
<1>1. /\ Len(m) \in Nat /\ i \in Nat /\ i <= Len(m) /\ Len(s) = Len(m) - i + 1 /\ s \in Seq(T)
      /\ \A k \in 1..Len(s) : s[k] = m[i + k - 1]
  OBVIOUS
<1> HIDE DEF s
<1>2. Len(<<x>>) = 1 /\ <<x>>[1] = x
  OBVIOUS
<1>3. CASE i = Len(m)
  <2>1. Len(s) = 1 /\ s[1] = m[i]
    BY <1>1, <1>3
  <2>2. \A u \in Seq(T) : Len(u) = 1 => u = <<u[1]>>
    OBVIOUS
  <2> QED  BY <1>1, <1>2, <1>3, <2>1, <2>2 DEF s
<1>4. CASE i # Len(m)
  <2>1. Len(s) # 1
    BY <1>1, <1>4
  <2> QED  BY <1>2, <1>4, <2>1 DEF s
<1> QED  BY <1>3, <1>4

\* The lines of what a browser sends, one by one.
LEMMA BrowserLines ==
  ASSUME NEW m \in Seq(Tokens), WellFormed(m), m[3] = "crlf",
         NEW e \in 4..Len(m), EmptyLineAt(m, e)
  PROVE  /\ LET s == SubSeq(m, 1, Len(m)) IN
            /\ s # << >> /\ ~Unended(s) /\ NextLines(s) = SubSeq(m, 4, Len(m))
            /\ Len(FirstLine(s)) = 2 /\ FirstLine(s)[1] = m[1] /\ FirstLine(s)[2] = "http"
         /\ \A i \in 4..(e - 1) : m[i - 1] = "crlf" =>
              LET s == SubSeq(m, i, Len(m)) IN
              /\ s # << >> /\ ~Unended(s) /\ NextLines(s) = SubSeq(m, i + 2, Len(m))
              /\ Contains(FirstLine(s), "header") /\ s # <<"crlf">>
              /\ i + 2 \in 4..e /\ m[i + 1] = "crlf"
         /\ LET s == SubSeq(m, e, Len(m)) IN
            /\ s # << >> /\ ~Unended(s) /\ NextLines(s) = SubSeq(m, e + 1, Len(m))
            /\ ~Contains(FirstLine(s), "header") /\ (s = <<"crlf">> <=> e = Len(m))
         /\ LET s == SubSeq(m, e + 1, Len(m)) IN
            /\ Len(m) = e + 1 => s = <<"text">> /\ m[Len(m)] # "crlf"
            /\ Len(m) = e + 2 => /\ s # << >> /\ ~Unended(s) /\ m[Len(m)] = "crlf"
                                 /\ NextLines(s) = SubSeq(m, Len(m) + 1, Len(m))
<1>1. /\ Len(m) \in Nat /\ e \in Nat /\ e >= 4 /\ e <= Len(m)
      /\ m[1] \in Starts /\ m[2] = "http" /\ m[3] = "crlf"
      /\ m[1] # "crlf"
  <2>1. "crlf" \notin Starts
    BY HttpAssumption DEF Words
  <2> QED  BY <2>1 DEF WellFormed
<1>2. \A k \in 4..(e - 1) : m[k] = IF m[k - 1] = "crlf" THEN "header" ELSE "crlf"
  BY DEF EmptyLineAt
<1>3. /\ m[e - 1] = "crlf" /\ m[e] = "crlf"
      /\ e < Len(m) => /\ m[e + 1] = "text"
                       /\ Len(m) = e + 1 \/ (Len(m) = e + 2 /\ m[e + 2] = "crlf")
  BY DEF EmptyLineAt
<1>4. LET s == SubSeq(m, 1, Len(m)) IN
      /\ s # << >> /\ ~Unended(s) /\ NextLines(s) = SubSeq(m, 4, Len(m))
      /\ Len(FirstLine(s)) = 2 /\ FirstLine(s)[1] = m[1] /\ FirstLine(s)[2] = "http"
  <2> DEFINE i == 1
             j == 3
             s == SubSeq(m, i, Len(m))
  <2>1. i \in 1..Len(m) /\ j \in i..Len(m) /\ m[j] = "crlf" /\ \A l \in i..(j - 1) : m[l] # "crlf"
    BY <1>1
  <2>2. j - i = 2 /\ j + 1 = 4 /\ 1 \in 1..2 /\ 2 \in 1..2 /\ i + 1 - 1 = 1 /\ i + 2 - 1 = 2
    OBVIOUS
  <2> HIDE DEF i, j
  <2>3. /\ s # << >> /\ ~Unended(s) /\ Len(FirstLine(s)) = j - i
        /\ \A l \in 1..(j - i) : FirstLine(s)[l] = m[i + l - 1]
        /\ NextLines(s) = SubSeq(m, j + 1, Len(m))
    BY <2>1, LineAt
  <2> QED  BY <1>1, <2>2, <2>3 DEF i
<1>5. ASSUME NEW i \in 4..(e - 1), m[i - 1] = "crlf"
      PROVE  LET s == SubSeq(m, i, Len(m)) IN
             /\ s # << >> /\ ~Unended(s) /\ NextLines(s) = SubSeq(m, i + 2, Len(m))
             /\ Contains(FirstLine(s), "header") /\ s # <<"crlf">>
             /\ i + 2 \in 4..e /\ m[i + 1] = "crlf"
  <2>1. m[i] = "header" /\ i # e - 1
    BY <1>2, <1>3, <1>5
  <2>2. i + 1 \in 4..(e - 1) /\ (i + 1) - 1 = i /\ i + 2 \in 4..e
    BY <1>1, <2>1
  <2>3. m[i + 1] = "crlf"
    BY <1>2, <2>1, <2>2
  <2>4. /\ i \in 1..Len(m) /\ i + 1 \in i..Len(m) /\ \A l \in i..((i + 1) - 1) : m[l] # "crlf"
        /\ (i + 1) + 1 = i + 2 /\ (i + 1) - i = 1 /\ 1 \in 1..1 /\ i + 1 - 1 = i
    BY <1>1, <2>1, <2>2
  <2> DEFINE s == SubSeq(m, i, Len(m))
             j == i + 1
  <2>5. /\ s # << >> /\ ~Unended(s) /\ NextLines(s) = SubSeq(m, i + 2, Len(m))
        /\ Len(FirstLine(s)) = 1 /\ FirstLine(s)[1] = m[i]
    <3>1. /\ j \in i..Len(m) /\ m[j] = "crlf" /\ \A l \in i..(j - 1) : m[l] # "crlf"
          /\ j + 1 = i + 2 /\ j - i = 1
      BY <2>3, <2>4
    <3> HIDE DEF j
    <3>2. /\ s # << >> /\ ~Unended(s) /\ NextLines(s) = SubSeq(m, j + 1, Len(m))
          /\ Len(FirstLine(s)) = j - i /\ \A l \in 1..(j - i) : FirstLine(s)[l] = m[i + l - 1]
      BY <2>4, <3>1, LineAt
    <3> QED  BY <2>4, <3>1, <3>2
  <2>6. s # <<"crlf">>
    <3>1. m[i] # "crlf"
      BY <2>1
    <3>2. i \in 1..Len(m)
      BY <2>4
    <3> QED  BY <3>1, <3>2, LastToken
  <2> QED  BY <2>1, <2>2, <2>3, <2>5, <2>6 DEF Contains
<1>6. LET s == SubSeq(m, e, Len(m)) IN
      /\ s # << >> /\ ~Unended(s) /\ NextLines(s) = SubSeq(m, e + 1, Len(m))
      /\ ~Contains(FirstLine(s), "header") /\ (s = <<"crlf">> <=> e = Len(m))
  <2> DEFINE s == SubSeq(m, e, Len(m))
  <2>1. e \in 1..Len(m) /\ e \in e..Len(m) /\ e - e = 0 /\ \A l \in e..(e - 1) : m[l] # "crlf"
    BY <1>1
  <2>2. /\ s # << >> /\ ~Unended(s) /\ NextLines(s) = SubSeq(m, e + 1, Len(m))
        /\ Len(FirstLine(s)) = 0
    BY <1>3, <2>1, LineAt
  <2>4. s = <<"crlf">> <=> e = Len(m)
    BY <1>3, <2>1, LastToken
  <2> QED  BY <2>2, <2>4 DEF Contains
<1>7. LET s == SubSeq(m, e + 1, Len(m)) IN
      /\ Len(m) = e + 1 => s = <<"text">> /\ m[Len(m)] # "crlf"
      /\ Len(m) = e + 2 => /\ s # << >> /\ ~Unended(s) /\ m[Len(m)] = "crlf"
                           /\ NextLines(s) = SubSeq(m, Len(m) + 1, Len(m))
  <2> DEFINE s == SubSeq(m, e + 1, Len(m))
  <2>1. CASE Len(m) = e + 1
    <3>1. e + 1 \in 1..Len(m) /\ e + 1 = Len(m) /\ m[e + 1] = "text"
      BY <1>1, <1>3, <2>1
    <3> QED  BY <1>1, <2>1, <3>1, LastToken
  <2>2. CASE Len(m) = e + 2
    <3>1. e + 1 \in 1..Len(m) /\ Len(m) \in (e + 1)..Len(m)
          /\ \A l \in (e + 1)..(Len(m) - 1) : l = e + 1
      BY <1>1, <2>2
    <3>2. m[Len(m)] = "crlf" /\ m[e + 1] = "text"
      BY <1>1, <1>3, <2>2
    <3>3. \A l \in (e + 1)..(Len(m) - 1) : m[l] # "crlf"
      BY <3>1, <3>2
    <3>4. s # << >> /\ ~Unended(s) /\ NextLines(s) = SubSeq(m, Len(m) + 1, Len(m))
      BY <3>1, <3>2, <3>3, LineAt
    <3> QED  BY <1>1, <2>2, <3>2, <3>4
  <2>3. CASE Len(m) \notin {e + 1, e + 2}
    BY <2>3
  <2> QED  BY <2>1, <2>2, <2>3
<1> QED  BY <1>4, <1>5, <1>6, <1>7

\* Only what follows the headers is a form.
LEMMA FormIsBody ==
  ASSUME NEW m \in Seq(Tokens), WellFormed(m), m[3] = "crlf",
         NEW e \in 4..Len(m), EmptyLineAt(m, e)
  PROVE  HasForm(m) <=> e < Len(m)
<1>1. /\ Len(m) \in Nat /\ e \in Nat /\ e >= 4 /\ e <= Len(m)
      /\ \A k \in 4..(e - 1) : m[k] \in {"header", "crlf"}
      /\ m[e] = "crlf" /\ (e < Len(m) => m[e + 1] = "text")
  BY DEF EmptyLineAt
<1>2. m[1] # "text" /\ m[2] # "text" /\ m[3] # "text"
  <2>1. "text" \notin Starts
    BY HttpAssumption DEF Words
  <2> QED  BY <2>1 DEF WellFormed
<1>3. CASE e < Len(m)
  BY <1>1, <1>3 DEF HasForm
<1>4. CASE e = Len(m)
  <2>1. \A k \in 1..Len(m) : k \in {1, 2, 3} \/ k \in 4..(e - 1) \/ k = e
    BY <1>1, <1>4
  <2> QED  BY <1>1, <1>2, <1>4, <2>1 DEF HasForm
<1> QED  BY <1>1, <1>3, <1>4

\* ParsePath_ is what Page says.
LEMMA RequestLineParsed ==
  ASSUME TypeOK, NEW x \in Starts, Line[Len(Line) - 1] = x, Len(Line) = 2, ParseRequestLine_
  PROVE  /\ method' = Target[x].method /\ path' = Page(Target[x].path)
         /\ state' = "HEADERS" /\ typed' = typed
BY DEF ParseRequestLine_, Page

\* One line further into what a browser sends, or parse returns.
LEMMA ParseBrowser ==
  ASSUME TypeOK, NEW m \in Seq(Tokens), WellFormed(m), m[3] = "crlf",
         NEW e \in 4..Len(m), EmptyLineAt(m, e),
         pc = "parse", Parse,
         NEW i \in 1..(Len(m) + 1), buff = SubSeq(m, i, Len(m)), Parsing(m, e, i)
  PROVE  \/ /\ pc' = "parse"
            /\ \E j \in 1..(Len(m) + 1) : buff' = SubSeq(m, j, Len(m)) /\ Parsing(m, e, j)'
         \/ pc' = "respond" /\ buff' = Rest(m) /\ Result(m)' /\ ok'
<1>1. Len(m) \in Nat /\ e \in Nat /\ e >= 4 /\ e <= Len(m) /\ m[1] \in Starts
  BY DEF WellFormed
<1>2. e < Len(m) => e > 4 /\ (Len(m) = e + 1 \/ Len(m) = e + 2)
  BY DEF EmptyLineAt
<1>3. ASSUME ~LastLine, ParseLine PROVE pc' = "parse" /\ buff' = NextLines(buff)
  BY <1>3, RetrieveLineCorrect DEF ParseLine, NextLine
<1>3a. ASSUME i \in 4..(e - 1), m[i - 1] = "crlf"
      PROVE  /\ buff # << >> /\ ~LastLine /\ NextLines(buff) = SubSeq(m, i + 2, Len(m))
             /\ Contains(Line, "header") /\ buff # <<"crlf">>
             /\ i + 2 \in 4..e /\ m[i + 1] = "crlf"
  <2> DEFINE s == SubSeq(m, i, Len(m))
  <2>1. /\ s # << >> /\ ~Unended(s) /\ NextLines(s) = SubSeq(m, i + 2, Len(m))
        /\ Contains(FirstLine(s), "header") /\ s # <<"crlf">>
        /\ i + 2 \in 4..e /\ m[i + 1] = "crlf"
    BY <1>3a, BrowserLines
  <2>2. buff = s
    OBVIOUS
  <2> HIDE DEF s
  <2> QED  BY <2>1, <2>2 DEF Line, LastLine
<1>4. CASE i = 1 /\ state = "REQUEST_LINE" /\ ~typed
  <2>1. /\ buff # << >> /\ ~LastLine /\ NextLines(buff) = SubSeq(m, 4, Len(m))
        /\ Len(Line) = 2 /\ Line[1] = m[1] /\ Line[2] = "http"
    BY <1>4, BrowserLines DEF Line, LastLine
  <2>2. IsRequestLine(Line) /\ Line[Len(Line) - 1] = m[1]
    BY <1>1, <2>1 DEF IsRequestLine
  <2>3. ParseLine /\ ParseRequestLine_
    BY <1>4, <2>1, <2>2 DEF Parse, ParseEnd, ParseFails, ParseLine
  <2>4. /\ method' = Target[m[1]].method /\ path' = Asked(m)
        /\ state' = "HEADERS" /\ ~typed'
    BY <1>1, <1>4, <2>1, <2>2, <2>3, RequestLineParsed DEF Asked
  <2>5. Parsing(m, e, 4)'
    BY <1>1, <2>4 DEF Parsing, Requested
  <2>6. 4 \in 1..(Len(m) + 1)
    BY <1>1
  <2> QED  BY <1>3, <2>1, <2>3, <2>5, <2>6
<1>5. CASE i \in 4..e /\ m[i - 1] = "crlf" /\ state = "HEADERS" /\ Requested(m) /\ (typed <=> i > 4)
  <2>1. ParseLine /\ ParseHeader_ /\ ~LastLine /\ NextLines(buff) = IF i = e THEN SubSeq(m, e + 1, Len(m))
                                                              ELSE SubSeq(m, i + 2, Len(m))
    <3>1. /\ buff # << >> /\ ~LastLine
          /\ NextLines(buff) = IF i = e THEN SubSeq(m, e + 1, Len(m)) ELSE SubSeq(m, i + 2, Len(m))
      <4>1. CASE i = e
        BY <4>1, BrowserLines DEF LastLine
      <4>2. CASE i # e
        <5>1. i \in 4..(e - 1)
          BY <1>1, <1>5, <4>2
        <5> QED  BY <1>5, <1>3a, <4>2, <5>1
      <4> QED  BY <4>1, <4>2
    <3>2. ParseLine /\ ParseHeader_
      BY <1>5, <3>1 DEF Parse, ParseEnd, ParseFails, ParseLine
    <3> QED  BY <3>1, <3>2
  <2>2. pc' = "parse" /\ buff' = NextLines(buff)
    BY <1>3, <2>1
  <2>3. Requested(m)'
    BY <1>5, <2>1 DEF ParseHeader_, Requested
  <2>4. CASE i = e
    <3>1. ~Contains(Line, "header") /\ (buff = <<"crlf">> <=> e = Len(m))
      BY <2>4, BrowserLines DEF Line
    <3>2. typed' = typed /\ state' = IF e = Len(m) THEN "FINISH" ELSE "BODY"
      BY <2>1, <3>1 DEF ParseHeader_, TypeOK
    <3>3. CASE e = Len(m)
      <4>1. ~FormOf(m)
        BY <1>1, <3>3, FormIsBody DEF FormOf
      <4>2. Result(m)' /\ m[Len(m)] = "crlf"
        BY <2>3, <3>3, <4>1 DEF Result, Requested, EmptyLineAt
      <4>3. Parsing(m, e, e + 1)'
        BY <3>2, <3>3, <4>2 DEF Parsing
      <4> QED  BY <1>1, <2>1, <2>2, <2>4, <4>3
    <3>4. CASE e # Len(m)
      <4>1. Parsing(m, e, e + 1)'
        BY <1>1, <1>2, <1>5, <2>3, <2>4, <3>2, <3>4 DEF Parsing
      <4> QED  BY <1>1, <2>1, <2>2, <2>4, <4>1
    <3> QED  BY <3>3, <3>4
  <2>5. CASE i # e
    <3>1. i \in 4..(e - 1)
      BY <1>1, <1>5, <2>5
    <3>2. /\ Contains(Line, "header") /\ buff # <<"crlf">>
          /\ i + 2 \in 4..e /\ m[i + 1] = "crlf"
      BY <1>5, <1>3a, <3>1
    <3>3. typed' /\ state' = "HEADERS"
      BY <2>1, <3>2 DEF ParseHeader_
    <3>4. (i + 2) - 1 = i + 1 /\ i + 2 > 4 /\ i + 2 \in 1..(Len(m) + 1)
      BY <1>1, <3>1, <3>2
    <3>5. Parsing(m, e, i + 2)'
      BY <2>3, <3>2, <3>3, <3>4 DEF Parsing
    <3> QED  BY <2>1, <2>2, <2>5, <3>4, <3>5
  <2> QED  BY <2>4, <2>5
<1>6. CASE i = e + 1 /\ e < Len(m) /\ state = "BODY" /\ Requested(m) /\ typed
  <2>1. ASSUME ParseLine PROVE state' = "FINISH" /\ Result(m)'
    <3>1. ParseBody_
      BY <1>6, <2>1 DEF ParseLine
    <3>2. FormOf(m) <=> method = "POST" /\ typed /\ path \in {"/login.html", "/register.html"}
      BY <1>6, FormIsBody DEF FormOf, Requested
    <3>3. IF FormOf(m) THEN path' \in Verified ELSE path' = path
      BY <3>1, <3>2 DEF ParseBody_
    <3> QED  BY <1>6, <3>1, <3>3 DEF ParseBody_, Result, Requested
  <2>2. CASE Len(m) = e + 1
    <3>1. buff = <<"text">> /\ m[Len(m)] # "crlf"
      BY <1>6, <2>2, BrowserLines
    <3>2. buff # << >> /\ LastLine
      BY <3>1 DEF LastLine, Unended, Contains
    <3>3. ParseLine
      BY <1>6, <3>2 DEF Parse, ParseEnd, ParseFails
    <3>4. pc' = "respond" /\ ok' /\ readBuff' = readBuff
      BY <3>2, <3>3 DEF ParseLine, NextLine
    <3>5. buff' = Rest(m)
      BY <3>1, <3>4 DEF Rest, buff
    <3> QED  BY <2>1, <3>3, <3>4, <3>5
  <2>3. CASE Len(m) = e + 2
    <3>1. /\ buff # << >> /\ ~LastLine /\ m[Len(m)] = "crlf"
          /\ NextLines(buff) = SubSeq(m, Len(m) + 1, Len(m))
      BY <1>6, <2>3, BrowserLines DEF LastLine
    <3>2. ParseLine
      BY <1>6, <3>1 DEF Parse, ParseEnd, ParseFails
    <3>3. Parsing(m, e, Len(m) + 1)'
      BY <2>1, <3>1, <3>2 DEF Parsing
    <3>4. Len(m) + 1 \in 1..(Len(m) + 1)
      BY <1>1
    <3> QED  BY <1>3, <3>1, <3>2, <3>3, <3>4
  <2> QED  BY <1>2, <1>6, <2>2, <2>3
<1>7. CASE i = Len(m) + 1 /\ m[Len(m)] = "crlf" /\ state = "FINISH" /\ Result(m)
  <2>1. buff = << >>
    BY <1>1, <1>7
  <2>2. ParseEnd
    BY <1>7, <2>1 DEF Parse, ParseFails, ParseLine
  <2>3. pc' = "respond" /\ ok' /\ readBuff' = readBuff /\ path' = path
    BY <2>2 DEF ParseEnd
  <2> QED  BY <1>7, <2>1, <2>3 DEF Rest, Result, buff
<1> QED  BY <1>4, <1>5, <1>6, <1>7 DEF Parsing

\* MakeResponse, by what stat() says of the path.
LEMMA Responses ==
  ASSUME TypeOK
  PROVE  /\ FileOf[path] \in {"none", "dir"} => MakeResponse = [code |-> 404, path |-> "/404.html"]
         /\ FileOf[path] = "private" => MakeResponse = [code |-> 403, path |-> "/403.html"]
         /\ FileOf[path] = "file" /\ ok => MakeResponse = [code |-> 200, path |-> path]
<1>1. /\ FileOf[path] \in {"none", "dir"} => Code(path) = 404
      /\ FileOf[path] = "private" => Code(path) = 403
      /\ FileOf[path] = "file" /\ ok => Code(path) = 200
  <2>1. FileOf[path] \in {"none", "dir"} => Code(path) = 404
    BY DEF Code
  <2>2. FileOf[path] = "private" => Code(path) = 403
    BY DEF Code
  <2>3. FileOf[path] = "file" /\ ok => Code(path) = 200
    BY DEF Code
  <2> QED  BY <2>1, <2>2, <2>3
<1>2. ErrorPage(404) = "/404.html" /\ ErrorPage(403) = "/403.html"
  BY DEF ErrorPage
<1> QED  BY <1>1, <1>2 DEF MakeResponse

\* What a browser asked for is what it gets.
LEMMA RightPage ==
  ASSUME TypeOK, NEW m, WellFormed(m), Result(m), ok
  PROVE  MakeResponse \in Expected(m)
<1>1. path \in Paths /\ FileOf[path] \in {"file", "none", "dir", "private"}
  BY HttpAssumption DEF TypeOK
<1>2. CASE FormOf(m)
  <2>1. path \in Verified /\ FileOf[path] = "file"
    BY <1>2, HttpAssumption DEF Result
  <2>2. MakeResponse = [code |-> 200, path |-> path]
    BY <2>1, Responses
  <2>3. Expected(m) = {[code |-> 200, path |-> q] : q \in Verified}
    BY <1>2 DEF FormOf, Asked, Expected
  <2> QED  BY <2>1, <2>2, <2>3
<1>3. CASE ~FormOf(m)
  <2>1. path = Asked(m)
    BY <1>3 DEF Result
  <2>2. Expected(m) = IF FileOf[path] = "file" THEN {[code |-> 200, path |-> path]}
                      ELSE IF FileOf[path] = "private" THEN {[code |-> 403, path |-> "/403.html"]}
                      ELSE {[code |-> 404, path |-> "/404.html"]}
    BY <1>3, <2>1 DEF FormOf, Asked, Expected
  <2>3. MakeResponse = IF FileOf[path] = "file" THEN [code |-> 200, path |-> path]
                       ELSE IF FileOf[path] = "private" THEN [code |-> 403, path |-> "/403.html"]
                       ELSE [code |-> 404, path |-> "/404.html"]
    BY <1>1, Responses
  <2> QED  BY <2>2, <2>3
<1> QED  BY <1>2, <1>3

\* What is no request line stays in the buffer, and is answered by 404.
LEMMA Stuck ==
  ASSUME TypeOK, Failing, buff # << >>, ~IsRequestLine(Line),
         Process \/ Parse \/ Respond \/ Written
  PROVE  /\ Failing' /\ buff' = buff
         /\ \/ replies' = replies
            \/ /\ Len(replies) < MaxReplies
               /\ replies' = Append(replies, [code |-> 404, path |-> "/404.html"])
<1>1. CASE Process
  BY <1>1 DEF Process, InitRequest, Failing, buff
<1>2. CASE Parse
  <2>1. ParseFails
    BY <1>2 DEF Parse, ParseEnd, ParseLine, Failing
  <2> QED  BY <1>2, <2>1 DEF Parse, ParseFails, Failing, buff
<1>3. CASE Respond
  <2>1. MakeResponse = [code |-> 404, path |-> "/404.html"]
    BY <1>3, HttpAssumption, Responses DEF Respond, Failing
  <2> QED  BY <1>3, <2>1 DEF Respond, Failing, buff
<1>4. CASE Written
  BY <1>4 DEF Written, Failing, buff
<1> QED  BY <1>1, <1>2, <1>3, <1>4

\* A text that is no request, or what a form leaves behind: no response to an
\* earlier message changes, and the one to this message is 404.
LEMMA StuckStep ==
  ASSUME TypeOK, clean, Answered, InHand, pc \notin {"in", "read"},
         (FromBrowser(Current) /\ Done(Current)) \/ (NoRequest(Current) /\ Refused(Current)),
         buff # << >>,
         Process \/ Parse \/ Respond \/ Written
  PROVE  Answered' /\ InHand'
<1> DEFINE n == Len(got)
           m == Current
<1>1. /\ UNCHANGED <<got, clean>> /\ m' = m
      /\ n \in Nat /\ n >= 1 /\ MaxReplies \in Nat /\ Len(replies) \in Nat
      /\ replies \in Seq(Response)
  <2>1. UNCHANGED <<got, clean>>
    BY DEF Process, Parse, Respond, Written, histVars
  <2>2. got \in Seq(Messages) /\ replies \in Seq(Response)
    BY DEF TypeOK
  <2>3. n \in Nat /\ Len(replies) \in Nat
    BY <2>2
  <2> QED  BY <2>1, <2>2, <2>3, HttpAssumption DEF InHand, Current
<1>2. buff # << >> /\ ~IsRequestLine(Line) /\ Failing
  <2>1. CASE Done(m)
    <3>1. buff = <<"text">> /\ Failing
      BY <2>1 DEF Done, Rest
    <3>2. Len(Line) <= 1 /\ Len(Line) \in Nat
      <4>1. buff \in Seq({"text"}) /\ Len(buff) = 1
        BY <3>1
      <4> QED  BY <4>1, FirstLineType DEF Line
    <3> QED  BY <2>1, <3>1, <3>2 DEF IsRequestLine
  <2>2. CASE NoRequest(m) /\ Refused(m)
    BY <2>2 DEF NoRequest, Refused, Line
  <2> QED  BY <2>1, <2>2
<1>3. /\ Failing' /\ buff' = buff
      /\ \/ replies' = replies
         \/ /\ Len(replies) < MaxReplies
            /\ replies' = Append(replies, [code |-> 404, path |-> "/404.html"])
  BY <1>2, Stuck
<1>4. Len(replies') >= Len(replies) /\ Len(replies') \in Nat
      /\ \A k \in 1..Len(replies) : replies'[k] = replies[k]
  BY <1>1, <1>3, AppendProperties
<1>5. pc' \notin {"in", "read"}
  BY <1>3 DEF Failing
<1>6. CASE FromBrowser(m) /\ Done(m)
  <2>1. Len(replies) >= Least(n, MaxReplies)
    BY <1>2, <1>6 DEF Done
  <2>2. replies' = replies \/ Len(replies) >= n
    BY <1>1, <1>3, <2>1 DEF Least
  <2>3. Answered'
    <3>1. \A k \in 1..n : k <= Len(replies') => replies'[k] \in Expected(got[k])
      BY <1>1, <1>4, <2>2 DEF Answered
    <3> QED  BY <1>1, <3>1 DEF Answered
  <2>4. Len(replies') >= Least(n, MaxReplies)
    BY <1>1, <1>4, <2>1 DEF Least
  <2>5. Done(m)'
    BY <1>1, <1>2, <1>3, <1>6, <2>4 DEF Done
  <2> QED  BY <1>1, <1>5, <1>6, <2>3, <2>5 DEF InHand
<1>7. CASE NoRequest(m) /\ Refused(m)
  <2>1. Len(replies) >= Least(n - 1, MaxReplies)
    BY <1>7 DEF Refused
  <2>2. replies' = replies \/ Len(replies) >= n - 1
    BY <1>1, <1>3, <2>1 DEF Least
  <2>3. Expected(m) = {[code |-> 404, path |-> "/404.html"]}
    BY <1>7 DEF NoRequest, Expected
  <2>4. Answered'
    <3>1. ASSUME NEW k \in 1..n, k <= Len(replies') PROVE replies'[k] \in Expected(got[k])
      <4>1. CASE k <= Len(replies)
        BY <1>1, <1>4, <3>1, <4>1 DEF Answered
      <4>2. CASE ~(k <= Len(replies))
        <5>1. /\ replies' = Append(replies, [code |-> 404, path |-> "/404.html"])
              /\ Len(replies) >= n - 1 /\ Len(replies') = Len(replies) + 1
              /\ replies'[Len(replies) + 1] = [code |-> 404, path |-> "/404.html"]
          BY <1>1, <1>3, <2>2, <3>1, <4>2, AppendProperties
        <5>2. k = n /\ k = Len(replies) + 1
          BY <1>1, <3>1, <4>2, <5>1
        <5> QED  BY <2>3, <5>1, <5>2 DEF Current
      <4> QED  BY <4>1, <4>2
    <3> QED  BY <1>1, <3>1 DEF Answered
  <2>5. Len(replies') >= Least(n - 1, MaxReplies)
    BY <1>1, <1>4, <2>1 DEF Least
  <2>6. Refused(m)'
    BY <1>1, <1>3, <1>7, <2>5 DEF Refused
  <2> QED  BY <1>1, <1>5, <1>7, <2>4, <2>6 DEF InHand
<1> QED  BY <1>6, <1>7

\* Steps of the clients, and reads: a read that is one whole message begins with
\* that message and an object that has answered all the others.
LEMMA ClientFlow ==
  ASSUME PlainMessages, IInv, Send \/ NewClient \/ Read \/ ReadEnd
  PROVE  FlowInv'
<1>0. /\ TypeOK /\ FlowInv /\ Len(got) \in Nat /\ Len(replies) \in Nat /\ MaxReplies \in Nat
      /\ got \in Seq(Messages)
  <2>1. got \in Seq(Messages) /\ replies \in Seq(Response)
    BY DEF IInv, TypeOK
  <2>2. Len(got) \in Nat /\ Len(replies) \in Nat
    BY <2>1
  <2>3. MaxReplies \in Nat
    BY HttpAssumption, Zenon
  <2> QED  BY <2>1, <2>2, <2>3 DEF IInv
<1>1. CASE Send
  <2>1. UNCHANGED <<client, readBuff, pc, proto, reqVars, iovSet, replies, histVars>>
    BY <1>1 DEF Send
  <2> QED  BY <1>0, <2>1 DEF FlowInv, Answered, InHand, Current, Fresh, Done, Refused, Failing,
                             Parsing, Requested, Result, buff, reqVars, histVars
<1>2. CASE NewClient
  <2>1. got' = << >> /\ replies' = << >> /\ pc' = "in" /\ segment' = << >>
    BY <1>2 DEF NewClient
  <2> QED  BY <1>0, <2>1 DEF FlowInv, Answered, InHand, Least
<1>3. CASE Read
  <2> SUFFICES ASSUME clean PROVE Answered' /\ InHand' /\ pc' = "read"
    BY <1>3 DEF Read, FlowInv
  <2>1. /\ pc \in {"in", "read"} /\ pc' = "read" /\ UNCHANGED <<replies, got>>
        /\ buff = segment
    BY <1>0, <1>3 DEF Read, FlowInv, InHand, TypeOK
  <2>2. buff' = segment' /\ segment' # << >>
    <3>1. PICK k \in 1..Least(Len(sock), ReadLimit(readBuff)) :
            /\ readBuff' = ReadFd(readBuff, SubSeq(sock, 1, k))
            /\ segment' = segment \o SubSeq(sock, 1, k)
      BY <1>3 DEF Read
    <3>2. /\ readBuff \in Buffers(Bytes) /\ Zero \in Bytes
          /\ sock \in Seq(Tokens) /\ segment \in Seq(Tokens) /\ Tokens \subseteq Bytes
      BY <1>0 DEF TypeOK, Bytes
    <3>3. k \in 1..Len(sock)
      <4>1. WritableBytes(readBuff) \in Nat /\ Len(sock) \in Nat
        BY <3>2, UnreadType
      <4> QED  BY <4>1, BufferAssumption DEF Least, ReadLimit
    <3>4. SubSeq(sock, 1, k) \in Seq(Tokens) /\ Len(SubSeq(sock, 1, k)) = k
      BY <3>2, <3>3
    <3> DEFINE new == SubSeq(sock, 1, k)
    <3> HIDE DEF new
    <3>5. new \in Seq(Bytes) /\ new \in Seq(Tokens) /\ Len(new) = k
      BY <3>2, <3>4 DEF new
    <3>6. buff' = buff \o new
      BY <3>1, <3>2, <3>5, ReadFdCorrect DEF buff, new
    <3>7. Len(segment \o new) = Len(segment) + k /\ Len(segment) \in Nat
      <4>1. segment \in Seq(Tokens) /\ new \in Seq(Tokens) /\ Len(new) = k
        BY <3>2, <3>5
      <4>2. \A a, b \in Seq(Tokens) : Len(a \o b) = Len(a) + Len(b) /\ Len(a) \in Nat
        BY ConcatProperties
      <4> QED  BY <4>1, <4>2
    <3> QED  BY <2>1, <3>1, <3>3, <3>6, <3>7 DEF new
  <2> QED  BY <1>0, <2>1, <2>2 DEF FlowInv, Answered, InHand
<1>4. CASE ReadEnd
  <2> SUFFICES ASSUME clean' PROVE Answered' /\ InHand' /\ segment' = << >>
    BY <1>4 DEF ReadEnd, FlowInv
  <2>1. /\ pc = "read" /\ pc' = "process" /\ clean /\ segment \in Messages
        /\ got' = Append(got, segment) /\ UNCHANGED <<readBuff, replies>> /\ segment' = << >>
    BY <1>4, Zenon DEF ReadEnd
  <2>2. buff' = segment /\ segment # << >> /\ Len(replies) = Least(Len(got), MaxReplies)
    BY <1>0, <2>1 DEF FlowInv, InHand, buff
  <2>3. /\ Len(got') = Len(got) + 1 /\ got'[Len(got) + 1] = segment
        /\ \A k \in 1..Len(got) : got'[k] = got[k]
    BY <1>0, <2>1, AppendProperties
  <2>4. Current' = segment /\ Len(got') >= 1
        /\ Len(replies') = Least(Len(got') - 1, MaxReplies)
    BY <1>0, <2>1, <2>2, <2>3 DEF Current
  <2>5. Answered'
    <3>1. ASSUME NEW k \in 1..Len(got'), k <= Len(replies') PROVE replies'[k] \in Expected(got'[k])
      <4>1. k \in 1..Len(got) /\ k <= Len(replies)
        BY <1>0, <2>1, <2>2, <2>3, <3>1 DEF Least
      <4> QED  BY <1>0, <2>1, <2>3, <4>1 DEF FlowInv, Answered
    <3> QED  BY <3>1 DEF Answered
  <2>6. CASE FromBrowser(segment)
    <3>1. Fresh(Current)'
      BY <2>1, <2>2, <2>4 DEF Fresh
    <3> QED  BY <2>1, <2>4, <2>5, <2>6, <3>1 DEF InHand
  <2>7. CASE NoRequest(segment)
    <3>1. Len(replies') >= Least(Len(got') - 1, MaxReplies)
      BY <1>0, <2>1, <2>4
    <3>2. Refused(Current)'
      BY <2>1, <2>2, <2>4, <3>1 DEF Refused, Failing
    <3> QED  BY <2>1, <2>4, <2>5, <2>7, <3>2 DEF InHand
  <2> QED  BY <2>1, <2>6, <2>7 DEF PlainMessages
<1> QED  BY <1>1, <1>2, <1>3, <1>4

\* What a browser sent is parsed and answered.
LEMMA FreshStep ==
  ASSUME TypeOK, clean, Answered, InHand, pc \notin {"in", "read"},
         FromBrowser(Current), Fresh(Current), Process \/ Parse \/ Respond \/ Written
  PROVE  Answered' /\ InHand'
<1>0. PICK m \in Seq(Tokens) : m = Current
  <2>1. got \in Seq(Messages) /\ Len(got) >= 1
    BY DEF InHand, TypeOK
  <2>2. Current \in Messages
    BY <2>1 DEF Current
  <2>3. Messages \subseteq Seq(Tokens)
    BY HttpAssumption, Zenon
  <2> QED  BY <2>2, <2>3
<1>1. /\ UNCHANGED <<got, clean>> /\ Current' = m
      /\ Len(got) \in Nat /\ Len(got) >= 1 /\ MaxReplies \in Nat /\ Len(replies) \in Nat
      /\ replies \in Seq(Response)
  <2>1. UNCHANGED <<got, clean>>
    BY DEF Process, Parse, Respond, Written, histVars
  <2>2. got \in Seq(Messages) /\ replies \in Seq(Response)
    BY DEF TypeOK
  <2>3. Len(got) \in Nat /\ Len(replies) \in Nat
    BY <2>2
  <2> QED  BY <1>0, <2>1, <2>2, <2>3, HttpAssumption DEF InHand, Current
<1>2. FromBrowser(m) /\ Fresh(m) /\ pc \in {"process", "parse", "respond"}
      /\ WellFormed(m) /\ m[3] = "crlf"
  BY <1>0 DEF Fresh, FromBrowser
<1>3. CASE Process
  <2>1. PICK e \in 4..Len(m) : EmptyLineAt(m, e)
    BY <1>2 DEF FromBrowser
  <2>2. buff = m /\ m = SubSeq(m, 1, Len(m)) /\ buff' = buff
    BY <1>2, <1>3 DEF Fresh, Process, buff
  <2>3. buff # << >> /\ Contains(Line, "http")
    <3> DEFINE s == SubSeq(m, 1, Len(m))
    <3>1. s # << >> /\ Len(FirstLine(s)) = 2 /\ FirstLine(s)[2] = "http"
      BY <1>2, <2>1, BrowserLines
    <3>2. buff = s /\ Line = FirstLine(buff)
      BY <2>2 DEF Line
    <3> HIDE DEF s
    <3>3. Line = FirstLine(s)
      BY <3>2
    <3>4. Len(Line) = 2 /\ Line[2] = "http"
      BY <3>1, <3>3, Zenon
    <3>5. Contains(Line, "http")
      BY <3>4 DEF Contains
    <3> QED  BY <3>1, <3>2, <3>5
  <2>4. pc' = "parse" /\ InitRequest /\ replies' = replies
    BY <1>3, <2>3 DEF Process
  <2>5. Parsing(m, e, 1)' /\ 1 \in 1..(Len(m) + 1)
    <3>1. state' = "REQUEST_LINE" /\ ~typed'
      BY <2>4 DEF InitRequest
    <3>2. Parsing(m, e, 1)'
      BY <3>1, Zenon DEF Parsing
    <3> QED  BY <3>2
  <2>6. Fresh(m)'
    BY <1>1, <1>2, <2>1, <2>2, <2>4, <2>5 DEF Fresh
  <2>7. Answered'
    BY <1>1, <2>4 DEF Answered
  <2> QED  BY <1>1, <1>2, <2>4, <2>6, <2>7 DEF InHand
<1>4. CASE Parse
  <2>1. pc = "parse" /\ replies' = replies
    BY <1>4 DEF Parse
  <2>2. PICK e \in 4..Len(m), i \in 1..(Len(m) + 1) :
          EmptyLineAt(m, e) /\ buff = SubSeq(m, i, Len(m)) /\ Parsing(m, e, i)
    BY <1>2, <2>1 DEF Fresh
  <2>3. \/ /\ pc' = "parse"
           /\ \E j \in 1..(Len(m) + 1) : buff' = SubSeq(m, j, Len(m)) /\ Parsing(m, e, j)'
        \/ pc' = "respond" /\ buff' = Rest(m) /\ Result(m)' /\ ok'
    BY <1>2, <1>4, <2>1, <2>2, ParseBrowser
  <2>4. Fresh(m)'
    BY <1>1, <1>2, <2>1, <2>2, <2>3 DEF Fresh
  <2>5. Answered'
    BY <1>1, <2>1 DEF Answered
  <2> QED  BY <1>1, <1>2, <2>3, <2>4, <2>5 DEF InHand
<1>5. CASE Respond
  <2>1. /\ pc = "respond" /\ pc' = "out" /\ buff' = buff
        /\ replies' = IF Len(replies) < MaxReplies THEN Append(replies, MakeResponse) ELSE replies
    BY <1>5 DEF Respond, buff
  <2>2. /\ Result(m) /\ ok /\ buff = Rest(m)
        /\ Len(replies) = Least(Len(got) - 1, MaxReplies)
    BY <1>2, <2>1 DEF Fresh
  <2>3. MakeResponse \in Expected(m) /\ m = got[Len(got)]
    BY <1>0, <1>2, <2>2, RightPage DEF Current
  <2>4. /\ Len(replies') = Least(Len(got), MaxReplies)
        /\ \A k \in 1..Len(replies) : replies'[k] = replies[k]
        /\ Len(replies') # Len(replies) =>
             Len(replies') = Len(got) /\ replies'[Len(got)] = MakeResponse
             /\ Len(replies) = Len(got) - 1
    <3>1. CASE Len(replies) < MaxReplies
      <4>1. /\ Len(replies') = Len(replies) + 1 /\ replies'[Len(replies) + 1] = MakeResponse
            /\ \A k \in 1..Len(replies) : replies'[k] = replies[k]
        BY <1>1, <2>1, <3>1, AppendProperties
      <4> QED  BY <1>1, <2>2, <3>1, <4>1 DEF Least
    <3>2. CASE ~(Len(replies) < MaxReplies)
      BY <1>1, <2>1, <2>2, <3>2 DEF Least
    <3> QED  BY <3>1, <3>2
  <2>5. Answered'
    <3>1. ASSUME NEW k \in 1..Len(got), k <= Len(replies') PROVE replies'[k] \in Expected(got[k])
      <4>1. CASE k <= Len(replies)
        BY <1>1, <2>4, <3>1, <4>1 DEF Answered
      <4>2. CASE ~(k <= Len(replies))
        <5>1. k = Len(got) /\ replies'[k] = MakeResponse
          BY <1>1, <2>4, <3>1, <4>2
        <5> QED  BY <2>3, <5>1
      <4> QED  BY <4>1, <4>2
    <3> QED  BY <1>1, <3>1 DEF Answered
  <2>6. Done(m)'
    <3>1. Len(replies') >= Least(Len(got), MaxReplies)
      BY <1>1, <2>4 DEF Least
    <3> QED  BY <1>1, <2>1, <2>2, <2>4, <3>1 DEF Done, Failing
  <2> QED  BY <1>1, <1>2, <2>1, <2>5, <2>6 DEF InHand
<1>6. CASE Written
  BY <1>2, <1>6 DEF Written
<1> QED  BY <1>3, <1>4, <1>5, <1>6

\* When a message was consumed to its end, the connection goes back to reading.
LEMMA DoneStep ==
  ASSUME TypeOK, clean, Answered, InHand, pc \notin {"in", "read"},
         FromBrowser(Current), Done(Current), buff = << >>,
         Process \/ Parse \/ Respond \/ Written
  PROVE  Answered' /\ InHand'
<1>1. /\ pc \in {"process", "out", "lost"} /\ Len(replies) = Least(Len(got), MaxReplies)
      /\ Rest(Current) = << >>
  BY DEF Done
<1>2. UNCHANGED <<got, clean, replies>> /\ Current' = Current /\ buff' = << >>
      /\ pc' \in {"in", "process", "lost"}
  BY <1>1 DEF Process, Parse, Respond, Written, histVars, Current, buff
<1>3. Answered'
  BY <1>2 DEF Answered
<1>4. Done(Current)' \/ pc' = "in"
  BY <1>1, <1>2 DEF Done
<1>5. Len(replies)' = Least(Len(got)', MaxReplies)
  BY <1>1, <1>2
<1> QED  BY <1>2, <1>3, <1>4, <1>5 DEF InHand

\* Where a connection is with its messages, at every step.
LEMMA FlowStep == ASSUME PlainMessages, IInv, [Next]_vars PROVE FlowInv'
<1>1. CASE Send \/ NewClient \/ Read \/ ReadEnd
  BY <1>1, ClientFlow
<1>2. CASE Process \/ Parse \/ Respond \/ Written
  <2>1. UNCHANGED <<segment, clean>> /\ pc # "read" /\ pc # "in" /\ pc' # "read"
    BY <1>2 DEF Process, Parse, ParseEnd, ParseFails, ParseLine, NextLine, Respond, Written, histVars
  <2> SUFFICES ASSUME clean PROVE Answered' /\ InHand'
    BY <2>1 DEF IInv, FlowInv
  <2>2. TypeOK /\ Answered /\ InHand
    BY DEF IInv, FlowInv
  <2>3. \/ FromBrowser(Current) /\ (Fresh(Current) \/ Done(Current))
        \/ NoRequest(Current) /\ Refused(Current)
    BY <2>1, <2>2 DEF InHand
  <2>4. CASE FromBrowser(Current) /\ Fresh(Current)
    BY <1>2, <2>1, <2>2, <2>4, FreshStep
  <2>5. CASE FromBrowser(Current) /\ Done(Current) /\ buff = << >>
    BY <1>2, <2>1, <2>2, <2>5, DoneStep
  <2>6. CASE /\ (FromBrowser(Current) /\ Done(Current)) \/ (NoRequest(Current) /\ Refused(Current))
             /\ buff # << >>
    BY <1>2, <2>1, <2>2, <2>6, StuckStep
  <2>7. Refused(Current) => buff # << >>
    BY DEF Refused
  <2> QED  BY <2>3, <2>4, <2>5, <2>6, <2>7
<1>3. CASE UNCHANGED vars
  <2>1. UNCHANGED <<readBuff, pc, proto, reqVars, iovSet, replies, histVars>>
    BY <1>3 DEF vars
  <2> QED  BY <2>1 DEF IInv, FlowInv, Answered, InHand, Current, Fresh, Done, Refused, Failing,
                       Parsing, Requested, Result, buff, reqVars, histVars
<1> QED  BY <1>1, <1>2, <1>3 DEF Next, Serve

\* The invariant gives what is claimed of the responses.
LEMMA InOrder == ASSUME IInv PROVE AnsweredInOrder
<1> SUFFICES ASSUME clean PROVE AnsweredInOrder
  BY DEF AnsweredInOrder
<1>1. /\ Answered /\ InHand /\ Len(got) \in Nat /\ Len(replies) \in Nat /\ MaxReplies \in Nat
  <2>1. got \in Seq(Messages) /\ replies \in Seq(Response)
    BY DEF IInv, TypeOK
  <2>2. Len(got) \in Nat /\ Len(replies) \in Nat
    BY <2>1
  <2>3. MaxReplies \in Nat
    BY HttpAssumption, Zenon
  <2> QED  BY <2>2, <2>3 DEF IInv, FlowInv
<1>2. ASSUME \A k \in 1..Len(got) : Consumed(got[k]) PROVE Len(replies) <= Len(got)
  <2>1. CASE pc \in {"in", "read"}
    BY <1>1, <2>1 DEF InHand, Least
  <2>2. CASE pc \notin {"in", "read"}
    <3>1. Len(got) >= 1 /\ Consumed(Current)
      BY <1>1, <1>2, <2>2 DEF InHand, Current
    <3>2. CASE Fresh(Current)
      BY <1>1, <3>1, <3>2 DEF Fresh, Least
    <3>3. CASE Done(Current)
      <4>1. Len(replies) = Least(Len(got), MaxReplies)
        BY <3>1, <3>3 DEF Done, Rest, Consumed
      <4> QED  BY <1>1, <4>1 DEF Least
    <3>4. ~NoRequest(Current)
      BY <3>1 DEF Consumed, NoRequest
    <3> QED  BY <1>1, <2>2, <3>2, <3>3, <3>4 DEF InHand
  <2> QED  BY <2>1, <2>2
<1>3. pc = "in" /\ Len(replies) < MaxReplies => Len(replies) = Len(got)
  BY <1>1 DEF InHand, Least
<1> QED  BY <1>1, <1>2, <1>3 DEF AnsweredInOrder, Answered

\* The k-th response is to the k-th message and no other, when each read brings
\* one whole message (httprequest.cpp:30-65, httpresponse.cpp:42-63): no state,
\* path or form of an earlier request or client shows in it, and there is one for
\* each message that parse consumes.
THEOREM ResponsesInOrder == ASSUME PlainMessages PROVE Spec => []AnsweredInOrder
<1>1. Init => IInv
  <2> SUFFICES ASSUME Init PROVE FlowInv
    BY InitType DEF IInv
  <2>1. got = << >> /\ replies = << >> /\ pc = "in" /\ segment = << >> /\ MaxReplies \in Nat
    BY HttpAssumption DEF Init
  <2> QED  BY <2>1 DEF FlowInv, Answered, InHand, Least
<1>2. IInv /\ [Next]_vars => IInv'
  BY StepType, FlowStep DEF IInv
<1>3. IInv => AnsweredInOrder
  BY InOrder
<1> QED  BY <1>1, <1>2, <1>3, PTL DEF Spec

-----------------------------------------------------------------------------
(* What ParseReturns rests on, whatever the fairness and wherever the        *)
(* stream is cut.                                                            *)

\* Each round of parse's loop leaves it, with every byte of an unfinished line
\* still in the buffer, or takes one whole line off it; nothing that arrives
\* while it runs makes the buffer longer.
ParseShortens ==
  /\ Parse => \/ pc' = "respond" /\ (buff' = buff \/ (~LastLine /\ buff' = NextLines(buff)))
              \/ pc' = "parse" /\ ~LastLine /\ buff' = NextLines(buff) /\ Len(buff') < Len(buff)
  /\ pc = "parse" /\ ~Parse => UNCHANGED <<pc, buff, state>>

\* A text without its first line is shorter.
LEMMA NextLinesShorter ==
  ASSUME NEW T, NEW s \in Seq(T), ~Unended(s)
  PROVE  Len(NextLines(s)) < Len(s)
<1>1. PICK k \in 0..Len(s) : Len(FirstLine(s)) = k /\ k < Len(s)
  BY FirstLineType
<1>2. NextLines(s) = SubSeq(s, k + 2, Len(s))
  BY <1>1 DEF NextLines
<1>3. Len(SubSeq(s, k + 2, Len(s))) < Len(s)
  BY <1>1
<1> QED  BY <1>2, <1>3

\* parse ends after at most as many rounds as there are bytes, for any messages,
\* however TCP cuts or joins them (httprequest.cpp:35-61): a state that waits for
\* a line that has not arrived leaves the loop.
THEOREM ParseShortensCorrect == Spec => [][ParseShortens]_vars
<1>1. TypeOK /\ [Next]_vars => ParseShortens \/ UNCHANGED vars
  <2> SUFFICES ASSUME TypeOK, Next PROVE ParseShortens
    OBVIOUS
  <2>1. CASE Parse
    <3>1. pc = "parse"
      BY <2>1 DEF Parse
    <3>2. CASE ParseEnd \/ ParseFails
      BY <2>1, <3>1, <3>2 DEF ParseEnd, ParseFails, ParseShortens, buff
    <3>3. CASE ParseLine
      <4>1. CASE LastLine
        BY <2>1, <3>1, <3>3, <4>1 DEF ParseLine, NextLine, ParseShortens, buff
      <4>2. CASE ~LastLine
        <5>1. RetrieveLine /\ pc' = pc
          BY <3>3, <4>2 DEF ParseLine, NextLine
        <5>2. buff' = NextLines(buff)
          BY <4>2, <5>1, RetrieveLineCorrect
        <5>3. buff \in Seq(Bytes)
          BY UnreadType DEF buff, TypeOK, Bytes
        <5>4. Len(NextLines(buff)) < Len(buff)
          BY <4>2, <5>3, NextLinesShorter DEF LastLine
        <5> QED  BY <2>1, <3>1, <4>2, <5>1, <5>2, <5>4 DEF ParseShortens
      <4> QED  BY <4>1, <4>2
    <3> QED  BY <2>1, <3>2, <3>3 DEF Parse
  <2>2. CASE Send /\ ~Parse
    BY <2>2 DEF Send, ParseShortens, reqVars, buff
  <2>3. CASE NewClient \/ Read \/ ReadEnd \/ Process \/ Respond \/ Written
    <3>1. pc # "parse"
      BY <2>3 DEF NewClient, Read, ReadEnd, Process, Respond, Written
    <3> QED  BY <3>1 DEF ParseShortens, Parse
  <2> QED  BY <2>1, <2>2, <2>3 DEF Next, Serve
<1>2. TypeOK /\ [Next]_vars => TypeOK'
  BY StepType
<1> QED  BY <1>1, <1>2, InitType, PTL DEF Spec
-----------------------------------------------------------------------------
(* The pages that MakeResponse sends: what a browser makes of their scripts, *)
(* for any links, whichever of the scripts arrive.                           *)

\* The script elements of a page, by their place.
LEMMA PageScriptList ==
  /\ Len(Scripts) = 7 /\ DOMAIN Scripts = 1..7
  /\ Scripts[1] = "jquery" /\ Scripts[2] = "bootstrap"
  /\ Scripts[3] = "smoothscroll" /\ Scripts[4] = "popup"
  /\ Scripts[5] = "options" /\ Scripts[6] = "wow" /\ Scripts[7] = "custom"
  BY DEF Scripts

\* No handler of custom.js comes to its preventDefault.
LEMMA NothingPrevented == ~Prevents
  <1>1. /\ Len(ClickStatements) = 4 /\ ClickStatements[2] = "target"
        /\ ClickStatements[1] = "stop" /\ ClickStatements[3] = "animate"
    BY DEF ClickStatements
  <1>2. ASSUME NEW k \in 1..4, ClickStatements[k] = "preventDefault" PROVE k > 2
    BY <1>1, <1>2 DEF ClickStatements
  <1> QED BY <1>1, <1>2 DEF Prevents

\* Where the browser goes depends on the last click alone.
LEMMA PageLinksStep == LinksNavigate /\ [PageNext]_pageVars => LinksNavigate'
  <1> SUFFICES ASSUME LinksNavigate, [PageNext]_pageVars PROVE LinksNavigate'
    OBVIOUS
  <1>1. ASSUME NEW l \in Links, ClickLink(l) PROVE LinksNavigate'
    <2>1. asked' = l /\ going' = l
      BY <1>1, NothingPrevented DEF ClickLink
    <2> QED BY <2>1 DEF LinksNavigate
  <1>2. CASE NewPage
    BY <1>2 DEF NewPage, LinksNavigate
  <1>3. CASE UNCHANGED <<asked, going>>
    BY <1>3 DEF LinksNavigate
  <1>4. CASE Browser \/ ScrollEvent \/ MenuMoved \/ Scroll \/ Toggle
    <2>1. UNCHANGED <<asked, going>>
      BY <1>4 DEF Browser, FetchScript, DomReady, Load, FadeEnds,
                  ScrollEvent, MenuMoved, Scroll, Toggle, linkVars
    <2> QED BY <1>3, <2>1
  <1> QED BY <1>1, <1>2, <1>3, <1>4 DEF PageNext, User, pageVars, linkVars

\* Every click on a link is followed, whichever scripts arrived and whatever was
\* bound: the handler throws before its preventDefault (custom.js:27-32).
THEOREM LinksCorrect == PageSpec => []LinksNavigate
  <1>1. PageInit => LinksNavigate
    BY DEF PageInit, LinksNavigate
  <1> QED BY <1>1, PageLinksStep, PTL DEF PageSpec

\* The bar is right after each scroll event that found its handler, and only
\* another scroll can make it wrong.
LEMMA PageBarStep == NavbarFollows /\ [PageNext]_pageVars => NavbarFollows'
  <1> SUFFICES ASSUME NavbarFollows, [PageNext]_pageVars PROVE NavbarFollows'
    OBVIOUS
  <1>1. CASE ScrollEvent
    BY <1>1 DEF ScrollEvent, OnScroll, NavbarFollows
  <1>2. CASE Scroll
    BY <1>2 DEF Scroll, NavbarFollows
  <1>3. CASE NewPage
    BY <1>3 DEF NewPage, NavbarFollows
  <1>4. CASE UNCHANGED <<far, pending, missed, topClass>>
    BY <1>4 DEF NavbarFollows
  <1>5. CASE Browser \/ MenuMoved \/ Toggle \/ \E l \in Links : ClickLink(l)
    <2>1. UNCHANGED <<far, pending, missed, topClass>>
      BY <1>5 DEF Browser, FetchScript, DomReady, Load, FadeEnds,
                  MenuMoved, Toggle, ClickLink, scrollVars
    <2> QED BY <1>4, <2>1
  <1> QED BY <1>1, <1>2, <1>3, <1>4, <1>5 DEF PageNext, User, pageVars, scrollVars

\* Between two scroll events the bar looks as the position says, unless the
\* handler came too late for the last one (custom.js:16-22).
THEOREM NavbarCorrect == PageSpec => []NavbarFollows
  <1>1. PageInit => NavbarFollows
    BY DEF PageInit, NavbarFollows
  <1> QED BY <1>1, PageBarStep, PTL DEF PageSpec

\* The places of a callback in jQuery's list.
PlacesOf(callback) == {k \in 1..Len(ready) : ready[k] = callback}

\* What arrived so far says which plugins ran, and what custom.js bound.
ArrivalInv ==
  /\ next \in 1..8
  /\ came \subseteq {Scripts[k] : k \in 1..(next - 1)}
  /\ "popup" \in ran <=> {"jquery", "popup"} \subseteq came
  /\ {"jquery", "custom"} \subseteq came => "load" \in bound
  /\ IF event = "parsing" THEN "click" \notin bound ELSE next = 8

Callbacks == {"localScroll", "magnifPopup", "scrollTo"}

\* ... and what is in jQuery's list: the callback of custom.js comes last.
ReadyInv ==
  /\ ready \in Seq(Callbacks)
  /\ PlacesOf("scrollTo") # {} <=> {"jquery", "custom"} \subseteq came
  /\ PlacesOf("magnifPopup") # {} <=> {"jquery", "options"} \subseteq came
  /\ \A k \in PlacesOf("scrollTo") : k = Len(ready)

\* The cover begins to go at load when jQuery and custom.js arrived.
CoverLeaves == event = "load" /\ {"jquery", "custom"} \subseteq came => cover # "shown"

\* The click handler of custom.js is bound exactly when nothing before it in
\* jQuery's list throws: the options of the popups do, without their plugin.
ClickBoundExactly ==
  event # "parsing" =>
    ("click" \in bound <=> /\ {"jquery", "custom"} \subseteq came
                           /\ "options" \in came => "popup" \in came)

PageInv == ArrivalInv /\ ReadyInv /\ CoverLeaves /\ ClickBoundExactly

\* The list grows at its end.
LEMMA PlacesAppend ==
  ASSUME ready \in Seq(Callbacks), NEW c \in Callbacks, ready' = Append(ready, c), NEW d
  PROVE  /\ ready' \in Seq(Callbacks) /\ Len(ready') = Len(ready) + 1 /\ Len(ready) \in Nat
         /\ PlacesOf(d)' = IF c = d THEN PlacesOf(d) \union {Len(ready')} ELSE PlacesOf(d)
  <1>1. /\ Append(ready, c) \in Seq(Callbacks) /\ Len(Append(ready, c)) = Len(ready) + 1
        /\ Len(ready) \in Nat
        /\ Append(ready, c)[Len(ready) + 1] = c
        /\ \A k \in 1..Len(ready) : Append(ready, c)[k] = ready[k]
    OBVIOUS
  <1>2. \A k : k \in 1..(Len(ready) + 1) <=> k \in 1..Len(ready) \/ k = Len(ready) + 1
    BY <1>1
  <1> QED BY <1>1, <1>2 DEF PlacesOf

\* A script that is fetched comes after all that arrived before it.
LEMMA FetchOrder ==
  ASSUME ArrivalInv, FetchScript
  PROVE  /\ next \in 1..7 /\ next' = next + 1
         /\ event = "parsing" /\ event' = "parsing"
         /\ \A k \in next..7 : Scripts[k] \notin came
  <1>1. next \in 1..7 /\ next' = next + 1 /\ event' = event
    BY PageScriptList DEF FetchScript, ArrivalInv
  <1>2. \A k, l \in 1..7 : Scripts[k] = Scripts[l] => k = l
    <2> SUFFICES ASSUME NEW k \in 1..7, NEW l \in 1..7, Scripts[k] = Scripts[l]
                 PROVE  k = l
      OBVIOUS
    <2>1. \A m \in 1..7 : m \in {1, 2, 3, 4, 5, 6, 7}
      OBVIOUS
    <2> QED BY <2>1, PageScriptList
  <1>3. \A s \in came : \E k \in 1..(next - 1) : s = Scripts[k]
    BY DEF ArrivalInv
  <1> QED BY <1>1, <1>2, <1>3 DEF ArrivalInv

\* Each script leaves what PageInv says of it, if it arrives.
LEMMA FetchKeeps ==
  ASSUME PageInv, FetchScript
  PROVE  ArrivalInv' /\ ReadyInv'
  <1> DEFINE s == Scripts[next]
  <1>1. /\ next \in 1..7 /\ next' = next + 1
        /\ event = "parsing" /\ event' = "parsing"
        /\ \A k \in next..7 : Scripts[k] \notin came
    BY FetchOrder DEF PageInv
  <1>2. came' \subseteq {Scripts[k] : k \in 1..(next' - 1)}
    <2>1. came' = came \union {s} \/ came' = came
      BY DEF FetchScript
    <2>2. \A k \in 1..(next - 1) : k \in 1..(next' - 1)
      BY <1>1
    <2>3. next \in 1..(next' - 1)
      BY <1>1
    <2> QED BY <2>1, <2>2, <2>3 DEF PageInv, ArrivalInv
  <1>3. CASE UNCHANGED <<came, ran, ready, bound>>
    BY <1>1, <1>2, <1>3 DEF PageInv, ArrivalInv, ReadyInv, PlacesOf
  <1>4. CASE came' = came \union {s} /\ RunScript(s)
    <2>1. s \notin came
      BY <1>1
    <2>2. s = "jquery" => "custom" \notin came /\ "options" \notin came /\ "popup" \notin came
      <3> SUFFICES ASSUME s = "jquery"
                   PROVE  "custom" \notin came /\ "options" \notin came /\ "popup" \notin came
        OBVIOUS
      <3>1. next = 1
        BY <1>1, PageScriptList
      <3> QED BY <1>1, <3>1, PageScriptList
    <2>3. s = "options" => "custom" \notin came
      <3> SUFFICES ASSUME s = "options" PROVE "custom" \notin came
        OBVIOUS
      <3>1. next = 5
        BY <1>1, PageScriptList
      <3> QED BY <1>1, <3>1, PageScriptList
    <2>4. s = "smoothscroll" => "custom" \notin came
      <3> SUFFICES ASSUME s = "smoothscroll" PROVE "custom" \notin came
        OBVIOUS
      <3>1. next = 3
        BY <1>1, PageScriptList
      <3> QED BY <1>1, <3>1, PageScriptList
    <2>5. ASSUME ready' = ready, bound' = bound, s # "custom", s # "options",
                 "popup" \in ran' <=> \/ "popup" \in ran
                                      \/ s = "popup" /\ "jquery" \in came
          PROVE  ArrivalInv' /\ ReadyInv'
      <3>1. ArrivalInv'
        BY <1>1, <1>2, <1>4, <2>1, <2>2, <2>5 DEF PageInv, ArrivalInv
      <3>2. ReadyInv'
        BY <1>4, <2>2, <2>5 DEF PageInv, ReadyInv, PlacesOf
      <3> QED BY <3>1, <3>2
    <2>6. CASE RunLibrary(s)
      BY <2>5, <2>6 DEF RunLibrary, HasJQuery
    <2>7. ASSUME NEW c \in Callbacks \ {"scrollTo"}, "custom" \notin came,
                 s \notin {"jquery", "popup", "custom"},
                 s = "options" <=> c = "magnifPopup",
                 bound' = bound,
                 IF "jquery" \in came THEN ready' = Append(ready, c) /\ ran' = ran \union {s}
                                      ELSE UNCHANGED <<ready, ran>>
          PROVE  ArrivalInv' /\ ReadyInv'
      <3>1. ArrivalInv'
        <4>1. "popup" \in ran' <=> "popup" \in ran
          BY <2>7
        <4> QED BY <1>1, <1>2, <1>4, <2>7, <4>1 DEF PageInv, ArrivalInv
      <3>2. PlacesOf("scrollTo") = {}
        BY <2>7 DEF PageInv, ReadyInv
      <3>3. CASE "jquery" \notin came
        <4>1. ready' = ready /\ "jquery" \notin came'
          BY <1>4, <2>7, <3>3
        <4> QED BY <3>1, <3>3, <4>1 DEF PageInv, ReadyInv, PlacesOf
      <3>4. CASE "jquery" \in came
        <4>1. /\ ready \in Seq(Callbacks) /\ ready' = Append(ready, c) /\ c \in Callbacks
          BY <2>7, <3>4 DEF PageInv, ReadyInv
        <4>2. /\ ready' \in Seq(Callbacks) /\ PlacesOf("scrollTo")' = {}
              /\ PlacesOf("magnifPopup")' # {} <=> PlacesOf("magnifPopup") # {} \/ c = "magnifPopup"
          <5>1. PlacesOf("scrollTo")' = PlacesOf("scrollTo")
            BY <2>7, <4>1, PlacesAppend
          <5>2. PlacesOf("magnifPopup")' = IF c = "magnifPopup"
                                           THEN PlacesOf("magnifPopup") \union {Len(ready')}
                                           ELSE PlacesOf("magnifPopup")
            BY <4>1, PlacesAppend
          <5>3. ready' \in Seq(Callbacks)
            BY <4>1, PlacesAppend
          <5> QED BY <3>2, <5>1, <5>2, <5>3
        <4> QED BY <1>4, <2>7, <3>1, <3>4, <4>2 DEF PageInv, ReadyInv
      <3> QED BY <3>1, <3>3, <3>4
    <2>8. CASE RunSmoothScroll(s)
      BY <2>4, <2>7, <2>8 DEF RunSmoothScroll, HasJQuery, Callbacks
    <2>9. CASE RunOptions(s)
      BY <2>3, <2>7, <2>9 DEF RunOptions, HasJQuery, Callbacks
    <2>10. CASE RunCustom(s)
      <3>1. s = "custom" /\ ("popup" \in ran' <=> "popup" \in ran)
        BY <2>10 DEF RunCustom
      <3>2. CASE "jquery" \notin came
        BY <1>1, <1>2, <1>4, <2>10, <3>1, <3>2
           DEF RunCustom, HasJQuery, PageInv, ArrivalInv, ReadyInv, PlacesOf
      <3>3. CASE "jquery" \in came
        <4>1. /\ bound' = bound \union {"load", "hide", "scroll"}
              /\ ready' = Append(ready, "scrollTo") /\ "scrollTo" \in Callbacks
              /\ ready \in Seq(Callbacks)
          BY <2>10, <3>3 DEF RunCustom, HasJQuery, PageInv, ReadyInv, Callbacks
        <4>2. ArrivalInv'
          BY <1>1, <1>2, <1>4, <3>1, <4>1 DEF PageInv, ArrivalInv
        <4>3. PlacesOf("scrollTo") = {}
          BY <2>1, <3>1 DEF PageInv, ReadyInv
        <4>4. /\ ready' \in Seq(Callbacks) /\ PlacesOf("scrollTo")' = {Len(ready')}
              /\ PlacesOf("magnifPopup")' = PlacesOf("magnifPopup")
          BY <4>1, <4>3, PlacesAppend
        <4> QED BY <1>4, <3>1, <3>3, <4>2, <4>4 DEF PageInv, ReadyInv
      <3> QED BY <3>2, <3>3
    <2> QED BY <1>4, <2>6, <2>8, <2>9, <2>10 DEF RunScript
  <1> QED BY <1>3, <1>4 DEF FetchScript

\* jQuery's list is called when the document is ready: a callback that throws
\* keeps the one of custom.js from being called when it is in the list at all.
LEMMA ReadyBinds ==
  ASSUME PageInv, DomReady
  PROVE  PageInv'
  <1>1. /\ event = "parsing" /\ event' = "ready" /\ next = 8
        /\ UNCHANGED <<next, came, ran, ready, cover>> /\ bound \subseteq bound'
    BY PageScriptList DEF DomReady, PageInv, ArrivalInv
  <1>2. ArrivalInv' /\ ReadyInv' /\ CoverLeaves'
    BY <1>1 DEF PageInv, ArrivalInv, ReadyInv, PlacesOf, CoverLeaves
  <1>3. (\E k \in 1..Len(ready) : ready[k] = "scrollTo" /\ Called(k))
          <=> /\ {"jquery", "custom"} \subseteq came
              /\ "options" \in came => "popup" \in came
    <2>1. \A l \in 1..Len(ready) :
            Throws(ready[l]) <=> l \in PlacesOf("magnifPopup") /\ "popup" \notin ran
      BY DEF Throws, PlacesOf
    <2>2. \A k \in PlacesOf("scrollTo") :
            Called(k) <=> PlacesOf("magnifPopup") = {} \/ "popup" \in ran
      <3> SUFFICES ASSUME NEW k \in PlacesOf("scrollTo")
                   PROVE  Called(k) <=> PlacesOf("magnifPopup") = {} \/ "popup" \in ran
        OBVIOUS
      <3>1. k = Len(ready) /\ \A l \in PlacesOf("magnifPopup") : l \in 1..Len(ready)
        BY DEF PageInv, ReadyInv, PlacesOf
      <3> QED BY <2>1, <3>1 DEF Called
    <2>3. (\E k \in 1..Len(ready) : ready[k] = "scrollTo" /\ Called(k))
            <=> \E k \in PlacesOf("scrollTo") : Called(k)
      BY DEF PlacesOf
    <2> QED BY <2>2, <2>3 DEF PageInv, ArrivalInv, ReadyInv
  <1>4. ClickBoundExactly'
    <2>1. "click" \notin bound
      BY <1>1 DEF PageInv, ArrivalInv
    <2>2. "click" \in bound' <=> \E k \in 1..Len(ready) : ready[k] = "scrollTo" /\ Called(k)
      BY <2>1 DEF DomReady
    <2> QED BY <1>1, <1>3, <2>2 DEF ClickBoundExactly
  <1> QED BY <1>2, <1>4 DEF PageInv

\* What a page's user and its events do leaves the scripts as they are.
LEMMA PageStep == PageInv /\ [PageNext]_pageVars => PageInv'
  <1> SUFFICES ASSUME PageInv, [PageNext]_pageVars PROVE PageInv'
    OBVIOUS
  <1>1. CASE FetchScript
    <2>1. ArrivalInv' /\ ReadyInv' /\ event' = "parsing"
      BY <1>1, FetchKeeps, FetchOrder DEF PageInv
    <2> QED BY <2>1 DEF PageInv, CoverLeaves, ClickBoundExactly
  <1>2. CASE DomReady
    BY <1>2, ReadyBinds
  <1>3. ASSUME UNCHANGED <<next, came, ran, ready, bound, event>>,
               cover = cover' \/ cover' # "shown"
        PROVE  PageInv'
    BY <1>3 DEF PageInv, ArrivalInv, ReadyInv, PlacesOf, CoverLeaves, ClickBoundExactly
  <1>4. CASE Load
    <2>1. /\ event = "ready" /\ event' = "load" /\ UNCHANGED <<next, came, ran, ready, bound>>
          /\ "load" \in bound => cover' = "fading"
      BY <1>4 DEF Load
    <2> QED BY <2>1 DEF PageInv, ArrivalInv, ReadyInv, PlacesOf, CoverLeaves, ClickBoundExactly
  <1>5. CASE NewPage
    <2>1. /\ next' = 1 /\ came' = {} /\ ran' = {} /\ ready' = << >> /\ event' = "parsing"
          /\ bound' = {}
      BY <1>5 DEF NewPage
    <2>2. PlacesOf("scrollTo")' = {} /\ PlacesOf("magnifPopup")' = {} /\ << >> \in Seq(Callbacks)
      BY <2>1 DEF PlacesOf
    <2> QED BY <2>1, <2>2 DEF PageInv, ArrivalInv, ReadyInv, CoverLeaves, ClickBoundExactly
  <1>6. CASE \/ FadeEnds \/ ScrollEvent \/ MenuMoved \/ User
             \/ UNCHANGED pageVars
    <2>1. /\ UNCHANGED <<next, came, ran, ready, bound, event>>
          /\ cover = cover' \/ cover' # "shown"
      BY <1>6 DEF FadeEnds, ScrollEvent, MenuMoved, User, Scroll,
                  Toggle, ClickLink, pageVars, loadVars
    <2> QED BY <1>3, <2>1
  <1> QED BY <1>1, <1>2, <1>4, <1>5, <1>6 DEF PageNext, Browser

\* A page starts with nothing.
LEMMA PageStart == PageInit => PageInv
  <1> SUFFICES ASSUME PageInit PROVE PageInv
    OBVIOUS
  <1>1. /\ next = 1 /\ came = {} /\ ran = {} /\ ready = << >> /\ event = "parsing" /\ bound = {}
    BY DEF PageInit
  <1>2. PlacesOf("scrollTo") = {} /\ PlacesOf("magnifPopup") = {} /\ << >> \in Seq(Callbacks)
    BY <1>1 DEF PlacesOf
  <1> QED BY <1>1, <1>2 DEF PageInv, ArrivalInv, ReadyInv, CoverLeaves, ClickBoundExactly

\* Whichever of the five scripts between them are missing, jQuery and custom.js
\* make the cover go when the page has loaded (custom.js:6-8).
THEOREM CoverCorrect == PageSpec => []CoverLeaves
  <1> QED BY PageStart, PageStep, PTL DEF PageSpec, PageInv

\* The click handler of custom.js is bound unless a script that it needs, or the
\* plugin of an earlier callback, is missing (custom.js:26, magnific-popup-options.js:4).
THEOREM ClickBoundCorrect == PageSpec => []ClickBoundExactly
  <1> QED BY PageStart, PageStep, PTL DEF PageSpec, PageInv
=====
