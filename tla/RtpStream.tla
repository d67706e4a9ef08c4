----------------------------- MODULE RtpStream -----------------------------
(***************************************************************************)
(* What one RTP object sends: H264Parser cuts a file into frames, and      *)
(* RTP::pushStream packs each frame (a start code and one NAL unit) into   *)
(* one packet or into fragmentation units.  A file is a sequence of bytes; *)
(* positions count from 0, as in the code.  One step is one round of       *)
(* pushStream's loop.                                                      *)
(***************************************************************************)
EXTENDS Integers, Sequences, FiniteSets

CONSTANTS
  Contents,  \* the files: sequences of bytes
  MaxData,   \* RTP_MAX_DATA_SIZE
  SeqMod     \* 2^16: m_seq is a uint16_t

ASSUME RtpAssumption ==
  Contents \subseteq Seq(Nat) /\ {MaxData, SeqMod} \subseteq Nat \ {0, 1}

VARIABLES
  file,      \* the mapped file
  cur,       \* ptr_mapped_file_cur, from the start of the mapping
  seq, ts,   \* m_seq, m_timestamp
  sent,      \* the packets given to sendto
  at         \* "streaming", or pushStream's result: "finished" (0) or "failed" (-1)

vars == <<file, cur, seq, ts, sent, at>>

\* H264Parser's constructor asserts that the file can be mapped, so that it is
\* not empty; RTP::init.
Init ==
  /\ file \in Contents \ {<< >>} /\ cur = 0
  /\ seq = 100 % SeqMod /\ ts = 100
  /\ sent = << >> /\ at = "streaming"
-----------------------------------------------------------------------------
(* H264Parser. *)

\* find_next_start_code looks at up to three bytes past the file when the last
\* frame is a start code and at most two bytes more.  The rest of the last page
\* is zero; where the file fills its last page, reading on faults or finds
\* another mapping, and is not in the model.
At(f, pos) == IF pos < Len(f) THEN f[pos + 1] ELSE 0

is_start_code(f, pos, left, type) ==
  /\ left >= type
  /\ \A k \in 0..(type - 2) : At(f, pos + k) = 0
  /\ At(f, pos + type - 1) = 1

NoCode == -1

find_next_start_code(f, pos, left) ==
  LET last == IF left > 3 THEN pos + left - 3 ELSE pos
      hits == {q \in pos..last :
                 IF q = last THEN is_start_code(f, q, 3, 3)
                 ELSE \E type \in {3, 4} : is_start_code(f, q, left - (q - pos), type)}
  IN IF hits = {} THEN NoCode ELSE CHOOSE q \in hits : \A r \in hits : q <= r

\* The size of the frame at pos.  0 at the end, -1 without a start code; the
\* file's last frame has no start code behind it and counts as the end.
get_next_frame(f, pos) ==
  LET left == Len(f) - pos
      next == find_next_start_code(f, pos + 3, left - 3)
  IN IF left = 0 THEN 0
     ELSE IF ~\E type \in {3, 4} : is_start_code(f, pos, left, type) THEN -1
     ELSE IF next = NoCode THEN 0 ELSE next - pos
-----------------------------------------------------------------------------
(* RTP::pushStream. *)

StartCodeLen(f, pos, size) == IF is_start_code(f, pos, size, 4) THEN 4 ELSE 3

\* Division in C rounds towards zero: a frame without data makes one packet.
PacketNum(data) == IF data = 0 THEN 0 ELSE (data - 1) \div MaxData
Remaining(data) == IF data = 0 THEN -1 ELSE (data - 1) % MaxData

\* Mutant: fragments start at the NAL header.
FragmentFromHeader(nal, k) ==
  SubSeq(nal, (k - 1) * MaxData + 1,
         IF k > PacketNum(Len(nal)) THEN Len(nal) ELSE k * MaxData)

\* The bytes of the k-th fragment; the NAL header is not among them.
Fragment(nal, k) ==
  SubSeq(nal, (k - 1) * MaxData + 2,
         IF k > PacketNum(Len(nal)) THEN Len(nal) ELSE k * MaxData + 1)

\* packRTP's header and the two FU bytes.  The start bit, and the end bit of a
\* last fragment that is full, are set and then overwritten; only a shorter
\* last fragment keeps its end bit.  The marker bit is never set.
Packet(nal, k, base, stamp) ==
  LET fu == PacketNum(Len(nal)) > 0 IN
  [seq |-> (base + k) % SeqMod, ts |-> stamp, fu |-> fu,
   end |-> fu /\ k > PacketNum(Len(nal)),
   header |-> IF fu THEN <<nal[1]>> ELSE << >>,
   data |-> IF fu THEN Fragment(nal, k) ELSE nal]

Packets(nal, base, stamp) ==
  LET d == Len(nal)
      n == IF PacketNum(d) = 0 THEN 1
           ELSE PacketNum(d) + (IF Remaining(d) > 0 THEN 1 ELSE 0)
  IN [k \in 1..n |-> Packet(nal, k, base, stamp)]

Nal(f, pos, size) == SubSeq(f, pos + StartCodeLen(f, pos, size) + 1, pos + size)
Size == get_next_frame(file, cur)

\* Mutant: each frame starts with the same number.
PushFrameSameSeq ==
  /\ at = "streaming" /\ Size > 0
  /\ cur' = cur + Size
  /\ ts' = ts + 3600
  /\ sent' = sent \o Packets(Nal(file, cur, Size), seq, ts + 3600)
  /\ UNCHANGED <<file, seq, at>>

\* One frame.
PushFrame ==
  LET ps == Packets(Nal(file, cur, Size), seq, ts + 3600) IN
  /\ at = "streaming" /\ Size > 0
  /\ cur' = cur + Size
  /\ ts' = ts + 3600
  /\ seq' = ps[Len(ps)].seq
  /\ sent' = sent \o ps
  /\ UNCHANGED <<file, at>>

\* No frame, or none any more.
PushEnds ==
  /\ at = "streaming" /\ Size <= 0
  /\ at' = IF Size < 0 THEN "failed" ELSE "finished"
  /\ UNCHANGED <<file, cur, seq, ts, sent>>

Next == PushFrame \/ PushEnds

Spec == Init /\ [][Next]_vars
-----------------------------------------------------------------------------
(* Properties. *)

\* The packets of one stream (rtp.cpp:120-141, 183-233): sequence numbers
\* follow each other, also over the wrap; a time stamp covers neighbouring
\* packets only; no packet's data is longer than MaxData; and the end bit, when
\* it is there, is in the last packet of its time stamp.
PacketsFollow ==
  \A k \in 1..Len(sent) :
    /\ Len(sent[k].data) <= MaxData
    /\ k < Len(sent) =>
         /\ sent[k + 1].seq = (sent[k].seq + 1) % SeqMod
         /\ sent[k + 1].ts \in {sent[k].ts, sent[k].ts + 3600}
         /\ sent[k].end => sent[k + 1].ts # sent[k].ts

\* The NAL units of a file: what is between two start codes, without a zero
\* before the second one, which makes it one of four bytes; those only that
\* have a start code behind them.
Codes(f) == {k \in 1..(Len(f) - 2) : f[k] = 0 /\ f[k + 1] = 0 /\ f[k + 2] = 1}
Unit(f, k) ==
  LET later == {l \in Codes(f) : l > k}
      stop == CHOOSE l \in later : \A m \in later : l <= m
  IN SubSeq(f, k + 3, IF stop > k + 3 /\ f[stop - 1] = 0 THEN stop - 2 ELSE stop - 1)
Starts(f) == {k \in Codes(f) : \E l \in Codes(f) : l > k}
UnitsOf(f) ==
  LET nth(n) == CHOOSE k \in Starts(f) : Cardinality({l \in Starts(f) : l < k}) = n - 1
  IN IF \E k \in {1, 2} : k \in Codes(f) /\ (k = 2 => f[1] = 0)
       THEN [n \in 1..Cardinality(Starts(f)) |-> Unit(f, nth(n))]
       ELSE << >>

\* What a receiver makes of the packets with one time stamp: the header of the
\* first, and the data of each.
Received(packets, stamp) ==
  LET join[k \in 0..Len(packets)] ==
        IF k = 0 THEN << >>
        ELSE IF packets[k].ts # stamp THEN join[k - 1]
        ELSE (IF join[k - 1] = << >> THEN packets[k].header ELSE join[k - 1]) \o packets[k].data
  IN join[Len(packets)]
FrameCount == (ts - 100) \div 3600

\* The stream carries the file's NAL units, each complete, under a time stamp
\* of its own, in the order of the file (h264parser.cpp:46-79, rtp.cpp:143-235);
\* a stream that finished has sent every unit but the last.
StreamsUnits ==
  /\ \A n \in 1..FrameCount :
       n <= Len(UnitsOf(file)) /\ Received(sent, 100 + n * 3600) = UnitsOf(file)[n]
  /\ at # "streaming" => FrameCount = Len(UnitsOf(file))
  /\ at = "failed" => sent = << >>
=============================================================================
