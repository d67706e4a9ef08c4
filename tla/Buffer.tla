------------------------------- MODULE Buffer -------------------------------
(***************************************************************************)
(* The class Buffer: a vector of bytes whose unread part lies between two  *)
(* positions.  Each operation is a function from a buffer to a buffer; the *)
(* connections that use one (HttpConn) hold it in a variable.              *)
(***************************************************************************)
EXTENDS Integers, Sequences

CONSTANTS
  InitBuffSize,  \* bytes of a new buffer
  ExtraSize,     \* bytes that one ReadFd takes beyond the room it finds
  Zero           \* the byte that new memory holds

ASSUME BufferAssumption == InitBuffSize \in Nat \ {0} /\ ExtraSize \in Nat \ {0}

\* What the class can hold; offsets count from 0, the elements of data from 1.
Buffers(Byte) ==
  {b \in [data : Seq(Byte), readPos : Nat, writePos : Nat] :
     b.readPos <= b.writePos /\ b.writePos <= Len(b.data)}

ReadableBytes(b) == b.writePos - b.readPos
WritableBytes(b) == Len(b.data) - b.writePos
PrependableBytes(b) == b.readPos

\* The bytes from Peek() to BeginWrite().
Unread(b) == [i \in 1..ReadableBytes(b) |-> b.data[b.readPos + i]]

Zeros(n) == [i \in 1..n |-> Zero]
NewBuffer == [data |-> Zeros(InitBuffSize), readPos |-> 0, writePos |-> 0]

Retrieve(b, len) == [b EXCEPT !.readPos = @ + len]
RetrieveAll(b) == [data |-> Zeros(Len(b.data)), readPos |-> 0, writePos |-> 0]

\* std::copy of s to offset "at".
CopyTo(data, at, s) ==
  [i \in 1..Len(data) |-> IF at < i /\ i <= at + Len(s) THEN s[i - at] ELSE data[i]]

\* buffer_.resize(n), which only ever grows here.
Resize(data, n) == [i \in 1..n |-> IF i <= Len(data) THEN data[i] ELSE Zero]

\* Mutant: the room in front is counted, but nothing is moved there.
MakeSpaceNoMove(b, len) ==
  IF WritableBytes(b) + PrependableBytes(b) < len
    THEN [b EXCEPT !.data = Resize(@, b.writePos + len + 1)]
    ELSE [b EXCEPT !.readPos = 0, !.writePos = ReadableBytes(b)]

MakeSpace_(b, len) ==
  IF WritableBytes(b) + PrependableBytes(b) < len
    THEN [b EXCEPT !.data = Resize(@, b.writePos + len + 1)]
    ELSE [data |-> CopyTo(b.data, 0, Unread(b)),
          readPos |-> 0, writePos |-> ReadableBytes(b)]

EnsureWriteable(b, len) == IF WritableBytes(b) < len THEN MakeSpace_(b, len) ELSE b

HasWritten(b, s) ==
  [b EXCEPT !.data = CopyTo(@, b.writePos, s), !.writePos = @ + Len(s)]

\* Buffer::Append, in its four forms.
AppendBytes(b, s) == HasWritten(EnsureWriteable(b, Len(s)), s)

\* readv gives s: it fills the room first, then the array on the stack, which
\* is appended.
ReadFd(b, s) ==
  LET writable == WritableBytes(b) IN
  IF Len(s) <= writable THEN HasWritten(b, s)
  ELSE AppendBytes(HasWritten(b, SubSeq(s, 1, writable)), SubSeq(s, writable + 1, Len(s)))

\* The most that one readv can give.
ReadLimit(b) == WritableBytes(b) + ExtraSize
=============================================================================
