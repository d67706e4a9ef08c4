----------------------------- MODULE HeapTimer -----------------------------
(***************************************************************************)
(* The binary heap of idle timers (timer/heaptimer.cpp), used by the main  *)
(* thread only.  heap_ is the array, ref_ the index of every id in it.     *)
(* One step is one iteration of siftup_, siftdown_ or tick, so that the    *)
(* clock can move between them; indexes start at 0 as in the code.         *)
(***************************************************************************)
EXTENDS Integers

CONSTANTS
  Ids,          \* descriptors that get a timer
  Timeout,      \* timeoutMS_, in clock units
  Ms,           \* clock units per millisecond
  MaxNow        \* bound on the clock

ASSUME TimeAssumption ==
  Timeout \in Nat /\ Ms \in Nat \ {0} /\ MaxNow \in Nat

VARIABLES
  now, back,      \* Clock::now(); history: it has been set back
  heap, size,     \* heap_ and heap_.size()
  ref,            \* ref_
  pc,             \* "idle", or the loop that is running
  i, top, lim,    \* siftup_/siftdown_: i, index, n
  up,             \* siftup_ follows when siftdown_ moves nothing
  next,           \* where the sift returns to
  res,            \* the result of GetNextTick, until the next call
  abort           \* an assert has failed

vars == <<now, back, heap, size, ref, pc, i, top, lim, up, next, res, abort>>
Locals == <<i, top, lim, up, next>>

Node == [id : Ids, expires : Int]
Time == now + Timeout

Init ==
  /\ now = 0 /\ back = FALSE
  /\ heap = [k \in 0..-1 |-> 0] /\ size = 0
  /\ ref = [x \in {} |-> 0]
  /\ pc = "idle" /\ i = 0 /\ top = 0 /\ lim = 0 /\ up = FALSE /\ next = "idle"
  /\ res = -1 /\ abort = FALSE
-----------------------------------------------------------------------------
(* The two loops. *)

\* Mutant: ref_ is not updated.
SwapNodeKeepsRef(a, b) ==
  IF a < size /\ b < size
    THEN heap' = [heap EXCEPT ![a] = heap[b], ![b] = heap[a]] /\ UNCHANGED <<ref, abort>>
    ELSE abort' = TRUE /\ UNCHANGED <<heap, ref>>

\* SwapNode_(a, b), with its two assertions.
SwapNode_(a, b) ==
  IF a < size /\ b < size
    THEN /\ heap' = [heap EXCEPT ![a] = heap[b], ![b] = heap[a]]
         /\ ref' = [ref EXCEPT ![heap[b].id] = a, ![heap[a].id] = b]
         /\ UNCHANGED abort
    ELSE abort' = TRUE /\ UNCHANGED <<heap, ref>>

\* The locals of a loop that has ended hold nothing any more.
Return ==
  /\ pc' = next
  /\ i' = 0 /\ top' = 0 /\ lim' = 0 /\ up' = FALSE /\ next' = "idle"
  /\ UNCHANGED <<heap, ref, abort>>

Before(a, b) == heap[a].expires < heap[b].expires
Parent(k) == (k - 1) \div 2

\* At the root, (i - 1) / 2 is (2^64 - 1) / 2: heap_[j] is the storage just
\* before the array.  It reads as earlier, or SwapNode_ asserts.
SiftUpRoot ==
  /\ i = 0
  /\ \/ Return
     \/ abort' = TRUE /\ UNCHANGED <<heap, ref, pc, Locals>>

SiftUpStep ==
  /\ i > 0
  /\ IF Before(Parent(i), i)
       THEN Return
       ELSE SwapNode_(i, Parent(i)) /\ i' = Parent(i) /\ UNCHANGED <<pc, top, lim, up, next>>

siftup_ ==
  /\ pc = "up"
  /\ SiftUpRoot \/ SiftUpStep
  /\ UNCHANGED <<now, back, size, res>>

\* Mutant: the right child is forgotten.
ChildLeft == 2*i + 1

\* The smaller child of i among the first lim nodes.
Child == IF 2*i + 2 < lim /\ Before(2*i + 2, 2*i + 1) THEN 2*i + 2 ELSE 2*i + 1

SiftDownEnd ==
  IF up /\ ~(i > top)
    THEN pc' = "up" /\ UNCHANGED <<heap, ref, Locals, abort>>
    ELSE Return

siftdown_ ==
  /\ pc = "down"
  /\ IF 2*i + 1 >= lim \/ Before(i, Child)
       THEN SiftDownEnd
       ELSE SwapNode_(i, Child) /\ i' = Child /\ UNCHANGED <<pc, top, lim, up, next>>
  /\ UNCHANGED <<now, back, size, res>>

\* Calls siftdown_(k, n), then siftup_(k) if u and nothing moved, then goes on at l.
CallSift(k, n, u, l) ==
  pc' = "down" /\ i' = k /\ top' = k /\ lim' = n /\ up' = u /\ next' = l
-----------------------------------------------------------------------------
(* The operations. *)

AddNew(id) ==
  /\ pc = "idle" /\ id \notin DOMAIN ref
  /\ heap' = [k \in 0..size |-> IF k = size THEN [id |-> id, expires |-> Time] ELSE heap[k]]
  /\ size' = size + 1
  /\ ref' = [x \in DOMAIN ref \union {id} |-> IF x = id THEN size ELSE ref[x]]
  /\ pc' = "up" /\ i' = size /\ res' = -1
  /\ UNCHANGED <<now, back, top, lim, up, next, abort>>

\* A descriptor that is used again still has the node of its last client.
AddExisting(id) ==
  /\ pc = "idle" /\ id \in DOMAIN ref
  /\ heap' = [heap EXCEPT ![ref[id]].expires = Time]
  /\ CallSift(ref[id], size, TRUE, "idle")
  /\ res' = -1
  /\ UNCHANGED <<now, back, size, ref, abort>>

\* siftdown_ only: a new expiry is taken to be the later one.
adjust(id) ==
  /\ pc = "idle" /\ id \in DOMAIN ref
  /\ heap' = [heap EXCEPT ![ref[id]].expires = Time]
  /\ CallSift(ref[id], size, FALSE, "idle")
  /\ res' = -1
  /\ UNCHANGED <<now, back, size, ref, abort>>

\* Mutants: the node to be removed takes part in the sift; the last node is kept.
DelWhole ==
  IF size > 1
    THEN SwapNode_(0, size - 1) /\ CallSift(0, size, TRUE, "erase")
    ELSE pc' = "erase" /\ UNCHANGED <<heap, ref, Locals, abort>>

DelNotLast ==
  IF size > 1
    THEN SwapNode_(0, size - 1) /\ CallSift(0, size - 1, TRUE, "erase")
    ELSE UNCHANGED <<heap, ref, pc, Locals, abort>>

\* del_(0), as called by pop(): the last node takes the place of the root.
del_ ==
  IF size > 1
    THEN SwapNode_(0, size - 1) /\ CallSift(0, size - 1, TRUE, "erase")
    ELSE pc' = "erase" /\ UNCHANGED <<heap, ref, Locals, abort>>

\* Mutant: tick removes one node per call.
EraseOne ==
  /\ pc = "erase"
  /\ ref' = [x \in DOMAIN ref \ {heap[size - 1].id} |-> ref[x]]
  /\ heap' = [k \in 0..(size - 2) |-> heap[k]]
  /\ size' = size - 1
  /\ pc' = "measure"
  /\ UNCHANGED <<now, back, Locals, res, abort>>

Erase ==
  /\ pc = "erase"
  /\ ref' = [x \in DOMAIN ref \ {heap[size - 1].id} |-> ref[x]]
  /\ heap' = [k \in 0..(size - 2) |-> heap[k]]
  /\ size' = size - 1
  /\ pc' = "tick"
  /\ UNCHANGED <<now, back, Locals, res, abort>>

\* duration_cast<MS>(expires - now).count(), which rounds towards zero.
Remaining(k) ==
  IF heap[k].expires >= now THEN (heap[k].expires - now) \div Ms
                            ELSE -((now - heap[k].expires) \div Ms)

StartTick ==
  /\ pc = "idle"
  /\ pc' = "tick" /\ res' = -1
  /\ UNCHANGED <<now, back, heap, size, ref, Locals, abort>>

\* One round of tick's loop.  The callback, CloseConn_, leaves the heap alone.
tick ==
  /\ pc = "tick"
  /\ IF size > 0 /\ Remaining(0) <= 0
       THEN del_
       ELSE pc' = "measure" /\ UNCHANGED <<heap, ref, Locals, abort>>
  /\ UNCHANGED <<now, back, size, res>>

\* Mutant: the back of the array is taken for its front.
GetNextTickBack ==
  /\ pc = "measure"
  /\ res' = IF size > 0 THEN Remaining(size - 1) ELSE -1
  /\ pc' = "idle"
  /\ UNCHANGED <<now, back, heap, size, ref, Locals, abort>>

\* res is a size_t: "res < 0" is never true, and int(res) may be negative.
GetNextTick ==
  /\ pc = "measure"
  /\ res' = IF size > 0 THEN Remaining(0) ELSE -1
  /\ pc' = "idle"
  /\ UNCHANGED <<now, back, heap, size, ref, Locals, abort>>

Advance ==
  /\ now < MaxNow /\ now' = now + 1
  /\ UNCHANGED <<back, heap, size, ref, pc, Locals, res, abort>>

\* high_resolution_clock is the system clock.
SetBack ==
  /\ now > 0 /\ now' = now - 1 /\ back' = TRUE
  /\ UNCHANGED <<heap, size, ref, pc, Locals, res, abort>>

Step == siftup_ \/ siftdown_ \/ Erase \/ tick \/ GetNextTick

Next ==
  /\ ~abort
  /\ \/ \E id \in Ids : AddNew(id) \/ AddExisting(id) \/ adjust(id)
     \/ StartTick \/ Step \/ Advance \/ SetBack

Spec == Init /\ [][Next]_vars

\* A call that has begun is executed.
FairSpec == Spec /\ WF_vars(~abort /\ Step)
-----------------------------------------------------------------------------
(* Properties. *)

\* Types, and the indexes the loops use lie inside the array.
TypeOK ==
  /\ now \in Nat /\ size \in Nat
  /\ heap \in [0..(size - 1) -> Node]
  /\ DOMAIN ref \subseteq Ids /\ ref \in [DOMAIN ref -> 0..(size - 1)]
  /\ pc \in {"idle", "up", "down", "erase", "tick", "measure"}
  /\ i \in Nat /\ top \in Nat /\ lim \in Nat /\ up \in BOOLEAN
  /\ next \in {"idle", "erase"} /\ res \in Int /\ abort \in BOOLEAN /\ back \in BOOLEAN
  /\ pc \in {"up", "down"} => i < size
  /\ pc = "down" => lim <= size
  /\ pc = "erase" => size > 0
  /\ pc \in {"up", "down"} /\ next = "erase" => size > 0

\* heap_ and ref_ describe the same nodes: every id of ref_ is at the index
\* recorded for it, every node has its index in ref_, and no id occurs twice,
\* also while a sift is running.
RefExact ==
  /\ \A x \in DOMAIN ref : heap[ref[x]].id = x
  /\ \A k \in 0..(size - 1) : heap[k].id \in DOMAIN ref /\ ref[heap[k].id] = k

\* Between calls no node expires before its parent, unless the clock was set
\* back: adjust only sifts down.
HeapOrdered ==
  pc \in {"idle", "tick", "measure"} /\ ~back =>
    \A k \in 1..(size - 1) : ~Before(k, Parent(k))

\* tick() removes every node whose time has come (heaptimer.cpp:100): when it
\* leaves its loop, nothing in the heap is due.
TickComplete ==
  [][pc # "measure" /\ pc' = "measure" /\ ~back' =>
       (\A k \in 0..(size - 1) : Remaining(k) > 0)']_vars

\* GetNextTick returns -1 for an empty heap, and otherwise the time to the
\* earliest expiry: a wait of that length neither passes a timer nor ends
\* before there is one.  It says nothing of a timer that expired after tick()
\* looked: the code means to return 0 then, but the negative rest is in a
\* size_t and comes out as it is, which epoll_wait takes for "no limit".
NextTickInTime ==
  [][pc = "measure" /\ pc' = "idle" /\ ~back =>
       IF size = 0 THEN res' = -1
       ELSE /\ \E k \in 0..(size - 1) : res' = Remaining(k)
            /\ \A k \in 0..(size - 1) : res' <= Remaining(k)]_vars

\* Every call returns, whatever the clock does, or an assertion fails: siftup_
\* at the root may swap with the memory before the array (heaptimer.cpp:21).
CallsReturn == (pc # "idle") ~> (pc = "idle" \/ abort)

\* The heap behaves as the table of TimerTable while the clock goes forward.
Table == INSTANCE TimerTable WITH table <- [x \in DOMAIN ref |-> heap[ref[x]].expires]
TableSpec == Table!Init /\ [][back' \/ Table!Next]_(Table!tableVars)
=============================================================================
