-------------------------- MODULE HeapTimer_proofs --------------------------
(* Proofs about HeapTimer, for any set of ids: the array and the index      *)
(* describe the same nodes at every step of every sift, whatever the clock  *)
(* does; and while it is not set back the heap is in order between calls,   *)
(* tick removes all that is due, the loop never sleeps past a timer, and    *)
(* the heap implements TimerTable. No call goes on for ever.                *)
EXTENDS HeapTimer, WellFoundedInduction, TLAPS

IInv == TypeOK /\ RefExact

\* The empty heap satisfies the invariant.
LEMMA InitInv == Init => IInv
  <1> SUFFICES ASSUME Init PROVE IInv
    OBVIOUS
  <1>1. 0..(size - 1) = {} /\ 0..-1 = {} /\ size = 0
    BY DEF Init
  <1>2. heap \in [0..(size - 1) -> Node] /\ ref = [x \in {} |-> 0]
    BY <1>1 DEF Init
  <1>3. DOMAIN ref = {} /\ ref \in [DOMAIN ref -> 0..(size - 1)]
    BY <1>2
  <1>4. TypeOK
    <2>1. /\ now = 0 /\ back = FALSE /\ pc = "idle" /\ i = 0 /\ top = 0 /\ lim = 0 /\ up = FALSE
          /\ next = "idle" /\ res = -1 /\ abort = FALSE
      BY DEF Init
    <2>2. res \in Int /\ DOMAIN ref \subseteq Ids
      BY <1>3, <2>1
    <2> QED BY <1>1, <1>2, <1>3, <2>1, <2>2 DEF TypeOK
  <1>5. RefExact
    BY <1>1, <1>3 DEF RefExact
  <1> QED BY <1>4, <1>5 DEF IInv

\* Exchanging two nodes of the array keeps it and the index consistent.
LEMMA SwapInv ==
  ASSUME IInv, NEW a \in Nat, NEW b \in Nat, SwapNode_(a, b), size' = size
  PROVE  /\ heap' \in [0..(size - 1) -> Node]
         /\ DOMAIN ref' \subseteq Ids /\ ref' \in [DOMAIN ref' -> 0..(size - 1)]
         /\ abort' \in BOOLEAN
         /\ RefExact'
  <1>1. CASE a < size /\ b < size
    <2>1. /\ a \in 0..(size - 1) /\ b \in 0..(size - 1)
          /\ heap[a].id \in DOMAIN ref /\ heap[b].id \in DOMAIN ref
          /\ ref[heap[a].id] = a /\ ref[heap[b].id] = b
      BY <1>1 DEF IInv, TypeOK, RefExact
    <2>2. /\ heap' = [heap EXCEPT ![a] = heap[b], ![b] = heap[a]]
          /\ ref' = [ref EXCEPT ![heap[b].id] = a, ![heap[a].id] = b]
          /\ abort' = abort
      BY <1>1 DEF SwapNode_
    <2>3. heap' \in [0..(size - 1) -> Node] /\ DOMAIN ref' = DOMAIN ref
      BY <2>1, <2>2 DEF IInv, TypeOK
    <2>4. ref' \in [DOMAIN ref' -> 0..(size - 1)]
      BY <2>1, <2>2 DEF IInv, TypeOK
    <2>7. /\ heap'[a] = heap[b] /\ heap'[b] = heap[a]
          /\ \A k \in 0..(size - 1) \ {a, b} : heap'[k] = heap[k]
          /\ ref'[heap[b].id] = a /\ ref'[heap[a].id] = b
          /\ \A x \in DOMAIN ref \ {heap[a].id, heap[b].id} : ref'[x] = ref[x]
      BY <2>1, <2>2 DEF IInv, TypeOK
    <2>8. \A k \in 0..(size - 1) : heap[k].id \in DOMAIN ref /\ ref[heap[k].id] = k
      BY DEF IInv, RefExact
    <2>9. \A x \in DOMAIN ref : ref[x] \in 0..(size - 1) /\ heap[ref[x]].id = x
      BY DEF IInv, TypeOK, RefExact
    <2>5. ASSUME NEW x \in DOMAIN ref' PROVE heap'[ref'[x]].id = x
      <3>1. CASE x \in {heap[a].id, heap[b].id}
        BY <2>7, <3>1
      <3>2. CASE x \notin {heap[a].id, heap[b].id}
        BY <2>1, <2>3, <2>7, <2>9, <3>2
      <3> QED BY <3>1, <3>2
    <2>6. ASSUME NEW k \in 0..(size - 1)
          PROVE  heap'[k].id \in DOMAIN ref' /\ ref'[heap'[k].id] = k
      <3>1. CASE k \in {a, b}
        BY <2>1, <2>3, <2>7, <3>1
      <3>2. CASE k \notin {a, b}
        BY <2>1, <2>3, <2>7, <2>8, <3>2
      <3> QED BY <3>1, <3>2
    <2> QED BY <2>2, <2>3, <2>4, <2>5, <2>6 DEF IInv, TypeOK, RefExact
  <1>2. CASE ~(a < size /\ b < size)
    BY <1>2 DEF SwapNode_, IInv, TypeOK, RefExact
  <1> QED BY <1>1, <1>2

\* The end of a loop: the caller goes on, and the locals are gone.
LEMMA ReturnInv ==
  ASSUME IInv, pc \in {"up", "down"}, Return, UNCHANGED <<now, back, size, res>>
  PROVE  IInv'
  <1>1. heap' = heap /\ ref' = ref /\ size' = size /\ abort' = abort
    BY DEF Return
  <1>2. RefExact'
    BY <1>1 DEF IInv, RefExact
  <1>3. pc' \in {"idle", "erase"} /\ (pc' = "erase" => size > 0)
    BY DEF Return, IInv, TypeOK
  <1>4. i' = 0 /\ top' = 0 /\ lim' = 0 /\ up' = FALSE /\ next' = "idle"
    BY DEF Return
  <1> QED BY <1>1, <1>2, <1>3, <1>4 DEF IInv, TypeOK

\* One iteration of siftup_.
LEMMA UpInv == IInv /\ siftup_ => IInv'
  <1> SUFFICES ASSUME IInv, siftup_ PROVE IInv'
    OBVIOUS
  <1>0. pc = "up" /\ UNCHANGED <<now, back, size, res>>
    BY DEF siftup_
  <1>1. CASE Return
    BY <1>0, <1>1, ReturnInv
  <1>2. CASE SiftUpRoot /\ ~Return
    <2>1. /\ UNCHANGED <<heap, ref, pc, i, top, lim, up, next>> /\ abort' = TRUE
      BY <1>2 DEF SiftUpRoot, Locals
    <2> QED BY <1>0, <2>1 DEF IInv, TypeOK, RefExact
  <1>3. CASE SiftUpStep /\ ~Before(Parent(i), i)
    <2>1. i \in Nat /\ i > 0 /\ i < size /\ Parent(i) \in Nat /\ Parent(i) < size
      BY <1>0, <1>3 DEF SiftUpStep, Parent, IInv, TypeOK
    <2>2. /\ SwapNode_(i, Parent(i)) /\ i' = Parent(i)
          /\ UNCHANGED <<pc, top, lim, up, next>>
      BY <1>3 DEF SiftUpStep
    <2> HIDE DEF Parent
    <2>3. RefExact'
      BY <1>0, <2>1, <2>2, SwapInv
    <2>4. TypeOK'
      BY <1>0, <2>1, <2>2, SwapInv DEF IInv, TypeOK
    <2> QED BY <2>3, <2>4 DEF IInv
  <1> QED BY <1>1, <1>2, <1>3 DEF siftup_, SiftUpStep

\* One iteration of siftdown_.
LEMMA DownInv == IInv /\ siftdown_ => IInv'
  <1> SUFFICES ASSUME IInv, siftdown_ PROVE IInv'
    OBVIOUS
  <1>0. pc = "down" /\ UNCHANGED <<now, back, size, res>>
    BY DEF siftdown_
  <1>1. CASE Return
    BY <1>0, <1>1, ReturnInv
  <1>2. CASE pc' = "up" /\ UNCHANGED <<heap, ref, Locals, abort>>
    <2>1. UNCHANGED <<heap, ref, i, top, lim, up, next, abort>>
      BY <1>2 DEF Locals
    <2>2. RefExact'
      BY <1>0, <2>1 DEF IInv, RefExact
    <2> QED BY <1>0, <1>2, <2>1, <2>2 DEF IInv, TypeOK
  <1>3. CASE 2*i + 1 < lim /\ SwapNode_(i, Child) /\ i' = Child
             /\ UNCHANGED <<pc, top, lim, up, next>>
    <2>1. i \in Nat /\ Child \in Nat /\ Child < size
      BY <1>0, <1>3 DEF Child, IInv, TypeOK
    <2> HIDE DEF Child
    <2>2. RefExact'
      BY <1>0, <1>3, <2>1, SwapInv
    <2>3. TypeOK'
      BY <1>0, <1>3, <2>1, SwapInv DEF IInv, TypeOK
    <2> QED BY <2>2, <2>3 DEF IInv
  <1>4. i \in Nat /\ lim \in Nat
    BY DEF IInv, TypeOK
  <1> QED BY <1>1, <1>2, <1>3, <1>4 DEF siftdown_, SiftDownEnd

\* add, for an id without a timer.
LEMMA AddNewInv == ASSUME IInv, NEW id \in Ids, AddNew(id) PROVE IInv'
  <1>1. /\ heap' \in [0..(size' - 1) -> Node] /\ size' \in Nat
        /\ DOMAIN ref' = DOMAIN ref \union {id}
        /\ ref' \in [DOMAIN ref' -> 0..(size' - 1)]
    <2>1. /\ size \in Nat /\ Time \in Int /\ heap \in [0..(size - 1) -> Node]
          /\ ref \in [DOMAIN ref -> 0..(size - 1)]
      BY TimeAssumption DEF IInv, TypeOK, Time
    <2>2. [id |-> id, expires |-> Time] \in Node
      BY <2>1 DEF Node
    <2>3. heap' \in [0..(size' - 1) -> Node] /\ size' \in Nat
      BY <2>1, <2>2 DEF AddNew
    <2>4. DOMAIN ref' = DOMAIN ref \union {id}
      BY DEF AddNew
    <2>5. \A x \in DOMAIN ref' : ref'[x] \in 0..(size' - 1)
      BY <2>1, <2>4 DEF AddNew
    <2>6. ref' = [x \in DOMAIN ref' |-> ref'[x]]
      BY DEF AddNew
    <2> QED BY <2>3, <2>4, <2>5, <2>6
  <1>2. ASSUME NEW x \in DOMAIN ref' PROVE heap'[ref'[x]].id = x
    BY <1>1 DEF AddNew, IInv, TypeOK, RefExact
  <1>3. ASSUME NEW k \in 0..(size' - 1)
        PROVE  heap'[k].id \in DOMAIN ref' /\ ref'[heap'[k].id] = k
    <2>1. size \in Nat /\ size' = size + 1
      BY DEF AddNew, IInv, TypeOK
    <2>2. CASE k = size
      <3>1. heap'[k] = [id |-> id, expires |-> Time]
        BY <2>1, <2>2 DEF AddNew
      <3> QED BY <2>2, <3>1 DEF AddNew
    <2>3. CASE k # size
      <3>1. k \in 0..(size - 1)
        BY <2>1, <2>3
      <3>2. heap'[k] = heap[k]
        BY <2>1, <2>3 DEF AddNew
      <3>3. heap[k].id \in DOMAIN ref /\ ref[heap[k].id] = k /\ id \notin DOMAIN ref
        BY <3>1 DEF AddNew, IInv, RefExact
      <3> QED BY <3>2, <3>3 DEF AddNew
    <2> QED BY <2>2, <2>3
  <1>4. /\ pc' = "up" /\ i' = size /\ res' = -1 /\ size' = size + 1
        /\ UNCHANGED <<now, back, top, lim, up, next, abort>>
    BY DEF AddNew
  <1>5. RefExact'
    BY <1>2, <1>3 DEF RefExact
  <1>6. /\ size \in Nat /\ size' > 0 /\ i' \in Nat /\ i' < size'
        /\ DOMAIN ref' \subseteq Ids
    <2>1. size \in Nat /\ DOMAIN ref \subseteq Ids
      BY DEF IInv, TypeOK
    <2> QED BY <1>1, <1>4, <2>1
  <1>7. TypeOK'
    BY <1>1, <1>4, <1>6 DEF IInv, TypeOK
  <1> QED BY <1>5, <1>7 DEF IInv

\* A new expiry leaves every node where it is.
LEMMA TouchInv ==
  ASSUME IInv, NEW id \in Ids, AddExisting(id) \/ adjust(id) PROVE IInv'
  <1>1. id \in DOMAIN ref /\ ref[id] \in 0..(size - 1)
    BY DEF AddExisting, adjust, IInv, TypeOK
  <1>2. heap' = [heap EXCEPT ![ref[id]].expires = Time] /\ ref' = ref /\ size' = size
    BY DEF AddExisting, adjust
  <1>3. heap' \in [0..(size - 1) -> Node]
    <2>1. heap \in [0..(size - 1) -> Node] /\ Time \in Int
      BY TimeAssumption DEF IInv, TypeOK, Time
    <2>2. [heap[ref[id]] EXCEPT !.expires = Time] \in Node
      BY <1>1, <2>1 DEF Node
    <2> QED BY <1>1, <1>2, <2>1, <2>2
  <1>4. \A k \in 0..(size - 1) : heap'[k].id = heap[k].id
    <2> SUFFICES ASSUME NEW k \in 0..(size - 1) PROVE heap'[k].id = heap[k].id
      OBVIOUS
    <2>1. heap \in [0..(size - 1) -> Node]
      BY DEF IInv, TypeOK
    <2>2. CASE k = ref[id]
      BY <1>1, <1>2, <2>1, <2>2 DEF Node
    <2>3. CASE k # ref[id]
      BY <1>1, <1>2, <2>1, <2>3
    <2> QED BY <2>2, <2>3
  <1>5. RefExact'
    BY <1>2, <1>4 DEF IInv, TypeOK, RefExact
  <1>6. /\ UNCHANGED <<now, back, size, ref, abort>> /\ res' = -1
        /\ pc' = "down" /\ i' = ref[id] /\ top' = ref[id] /\ lim' = size
        /\ up' \in BOOLEAN /\ next' = "idle"
    BY DEF AddExisting, adjust, CallSift
  <1>7. TypeOK'
    BY <1>1, <1>3, <1>6 DEF IInv, TypeOK
  <1> QED BY <1>5, <1>7 DEF IInv

\* del_'s last step: the last node leaves the array and the index.
LEMMA EraseInv == IInv /\ Erase => IInv'
  <1> SUFFICES ASSUME IInv, Erase PROVE IInv'
    OBVIOUS
  <1> DEFINE gone == heap[size - 1].id
  <1>1. size - 1 \in Nat /\ gone \in DOMAIN ref /\ ref[gone] = size - 1
    BY DEF Erase, IInv, TypeOK, RefExact
  <1>2. \A x \in DOMAIN ref \ {gone} : ref[x] \in 0..(size - 2)
    <2>1. size \in Nat /\ ref \in [DOMAIN ref -> 0..(size - 1)]
      BY DEF IInv, TypeOK
    <2>2. ASSUME NEW x \in DOMAIN ref, ref[x] = size - 1 PROVE x = gone
      BY <2>2 DEF IInv, RefExact
    <2> HIDE DEF gone
    <2> QED BY <2>1, <2>2
  <1>3. /\ size' = size - 1
        /\ DOMAIN ref' = DOMAIN ref \ {gone} /\ \A x \in DOMAIN ref' : ref'[x] = ref[x]
        /\ heap' = [k \in 0..(size - 2) |-> heap[k]]
        /\ ref' = [x \in DOMAIN ref \ {gone} |-> ref[x]]
    BY DEF Erase
  <1>4. heap' \in [0..(size' - 1) -> Node] /\ ref' \in [DOMAIN ref' -> 0..(size' - 1)]
    BY <1>1, <1>2, <1>3 DEF IInv, TypeOK
  <1>5. RefExact'
    <2>1. ASSUME NEW x \in DOMAIN ref' PROVE heap'[ref'[x]].id = x
      BY <1>1, <1>2, <1>3 DEF IInv, TypeOK, RefExact
    <2>2. ASSUME NEW k \in 0..(size' - 1)
          PROVE  heap'[k].id \in DOMAIN ref' /\ ref'[heap'[k].id] = k
      <3>1. k \in 0..(size - 2) /\ k # size - 1 /\ heap'[k] = heap[k]
        BY <1>1, <1>3 DEF IInv, TypeOK
      <3>2. heap[k].id \in DOMAIN ref /\ ref[heap[k].id] = k
        BY <3>1 DEF IInv, TypeOK, RefExact
      <3> QED BY <1>1, <1>3, <3>1, <3>2
    <2> QED BY <2>1, <2>2 DEF RefExact
  <1> QED BY <1>1, <1>3, <1>4, <1>5 DEF Erase, Locals, IInv, TypeOK

\* One iteration of tick.
LEMMA TickInv == IInv /\ tick => IInv'
  <1> SUFFICES ASSUME IInv, tick PROVE IInv'
    OBVIOUS
  <1>1. CASE size > 0 /\ Remaining(0) <= 0
    <2>1. CASE size > 1
      <3>1. SwapNode_(0, size - 1) /\ size - 1 \in Nat /\ size' = size
        BY <1>1, <2>1 DEF tick, del_, IInv, TypeOK
      <3>2. CallSift(0, size - 1, TRUE, "erase")
        BY <1>1, <2>1 DEF tick, del_
      <3> QED BY <2>1, <3>1, <3>2, SwapInv DEF CallSift, tick, IInv, TypeOK
    <2>2. CASE ~(size > 1)
      BY <1>1, <2>2 DEF tick, del_, Locals, IInv, TypeOK, RefExact
    <2> QED BY <2>1, <2>2
  <1>2. CASE ~(size > 0 /\ Remaining(0) <= 0)
    BY <1>2 DEF tick, Locals, IInv, TypeOK, RefExact
  <1> QED BY <1>1, <1>2

\* The steps that leave the array alone.
LEMMA OtherInv ==
  IInv /\ (StartTick \/ GetNextTick \/ Advance \/ SetBack \/ UNCHANGED vars) => IInv'
  <1> SUFFICES ASSUME IInv,
                      StartTick \/ GetNextTick \/ Advance \/ SetBack \/ UNCHANGED vars
               PROVE  IInv'
    OBVIOUS
  <1>1. CASE GetNextTick
    <2>1. size > 0 => Remaining(0) \in Int
      <3> SUFFICES ASSUME size > 0 PROVE Remaining(0) \in Int
        OBVIOUS
      <3>1. heap[0].expires \in Int /\ now \in Int /\ Ms \in Nat \ {0}
        BY TimeAssumption DEF IInv, TypeOK, Node
      <3>2. \A n \in Int : n \div Ms \in Int /\ -(n \div Ms) \in Int
        BY <3>1
      <3>3. heap[0].expires - now \in Int /\ now - heap[0].expires \in Int
        BY <3>1
      <3> QED BY <3>2, <3>3 DEF Remaining
    <2> QED BY <1>1, <2>1 DEF GetNextTick, Locals, IInv, TypeOK, RefExact
  <1>2. CASE Advance \/ SetBack
    <2>1. UNCHANGED <<heap, size, ref, pc, i, top, lim, up, next, res, abort>>
      BY <1>2 DEF Advance, SetBack, Locals
    <2>2. now \in Nat /\ back \in BOOLEAN
      BY DEF IInv, TypeOK
    <2>3. CASE Advance
      <3>1. now' = now + 1 /\ back' = back
        BY <2>3 DEF Advance
      <3> QED BY <2>1, <2>2, <3>1 DEF IInv, TypeOK, RefExact
    <2>4. CASE SetBack
      <3>1. now > 0 /\ now' = now - 1 /\ back' = TRUE
        BY <2>4 DEF SetBack
      <3>2. now' \in Nat
        BY <2>2, <3>1
      <3> QED BY <2>1, <3>1, <3>2 DEF IInv, TypeOK, RefExact
    <2> QED BY <1>2, <2>3, <2>4
  <1>3. CASE StartTick \/ UNCHANGED vars
    BY <1>3 DEF StartTick, Locals, vars, IInv, TypeOK, RefExact
  <1> QED BY <1>1, <1>2, <1>3

\* The invariant is inductive.
LEMMA NextInv == IInv /\ [Next]_vars => IInv'
  <1> SUFFICES ASSUME IInv, [Next]_vars PROVE IInv'
    OBVIOUS
  <1>1. CASE \E id \in Ids : AddNew(id) \/ AddExisting(id) \/ adjust(id)
    BY <1>1, AddNewInv, TouchInv
  <1>2. CASE Step
    BY <1>2, UpInv, DownInv, EraseInv, TickInv, OtherInv DEF Step
  <1> QED BY <1>1, <1>2, OtherInv DEF Next

\* The inductive invariant: types, indexes inside the array (heaptimer.cpp:9-52),
\* and heap_ and ref_ in step.
THEOREM Invariance == Spec => []IInv
  <1> QED BY InitInv, NextInv, PTL DEF Spec

\* Every variable keeps its type and the sifts never index outside the heap,
\* also when the clock is set back.
THEOREM TypeCorrect == Spec => []TypeOK
  <1>1. IInv => TypeOK
    BY DEF IInv
  <1> QED BY <1>1, Invariance, PTL

\* heap_ and ref_ describe the same nodes at every step of every call, for
\* every number of timers (heaptimer.cpp:19-26).
THEOREM RefCorrect == Spec => []RefExact
  <1>1. IInv => RefExact
    BY DEF IInv
  <1> QED BY <1>1, Invariance, PTL
-----------------------------------------------------------------------------
(* The order of the heap, for a clock that is not set back. *)

\* Every set of indexes that is not empty has a least one.
LEMMA LeastIndex ==
  ASSUME NEW T, T \subseteq Nat, T # {}
  PROVE  \E x \in T : \A y \in T : x <= y
  <1>1. \E x \in T : \A y \in T : ~(<<y, x>> \in OpToRel(<, Nat))
    BY NatLessThanWellFounded, WFMin
  <1>2. \A x, y \in Nat : <<y, x>> \in OpToRel(<, Nat) <=> y < x
    BY DEF OpToRel
  <1>3. \A x, y \in Nat : ~(y < x) => x <= y
    OBVIOUS
  <1> QED BY <1>1, <1>2, <1>3

\* The two children of a node, and a parent lies in front of its child.
LEMMA ParentFacts ==
  /\ \A k \in Nat \ {0} : Parent(k) \in Nat /\ Parent(k) < k
  /\ \A k \in Nat \ {0}, j \in Nat : Parent(k) = j <=> k = 2*j + 1 \/ k = 2*j + 2
  BY DEF Parent

\* The nodes that stay when the running call has ended: del_ erases the last one.
Bound == IF next = "erase" \/ pc = "erase" THEN size - 1 ELSE size

\* The nodes 1..n-1 do not expire before their parents.
OrderedTo(n) == \A k \in 1..(n - 1) : ~Before(k, Parent(k))

\* No node expires later than a timer that is set now.
NoneLater == \A k \in 0..(size - 1) : heap[k].expires <= Time

\* The locals of a loop hold something only while it runs.
Rest == pc \notin {"up", "down"} => next = "idle"

\* siftdown_ at i: all is in order but for i and its children, which do not
\* expire before the parent of i.
Sinking ==
  /\ lim = Bound
  /\ next = "erase" => top = 0
  /\ \A k \in 1..(lim - 1) : Parent(k) # i => ~Before(k, Parent(k))
  /\ \A k \in 1..(lim - 1) : i > 0 /\ Parent(k) = i => ~Before(k, Parent(i))

\* siftup_ never finds a node to move: a timer that is set is the latest one,
\* and swaps with its parent only when the two expire together.
Rising == (next = "erase" => i = 0) /\ OrderedTo(Bound)

HeapInv ==
  /\ Rest
  /\ ~back =>
       /\ NoneLater
       /\ pc = "down" => Sinking
       /\ pc = "up" => Rising
       /\ pc \notin {"up", "down"} => OrderedTo(Bound)

\* Before, for indexes inside the array.
LEMMA BeforeFacts ==
  ASSUME TypeOK
  PROVE  /\ Time \in Int
         /\ \A k \in 0..(size - 1) : heap[k].expires \in Int
  BY TimeAssumption DEF TypeOK, Node, Time

\* The empty heap is in order.
LEMMA HeapInit == Init => HeapInv
  <1> SUFFICES ASSUME Init PROVE HeapInv
    OBVIOUS
  <1>1. size = 0 /\ pc = "idle" /\ next = "idle" /\ 0..(0 - 1) = {} /\ 1..(0 - 1) = {}
    BY DEF Init
  <1> QED BY <1>1 DEF HeapInv, Rest, NoneLater, OrderedTo, Bound

\* The end of a loop whose nodes are in order.
LEMMA HeapReturn ==
  ASSUME IInv, pc \in {"up", "down"}, Return, UNCHANGED <<now, back, size, res>>,
         HeapInv, ~back => OrderedTo(Bound)
  PROVE  HeapInv'
  <1>1. /\ heap' = heap /\ size' = size /\ pc' = next /\ next' = "idle"
        /\ now' = now /\ back' = back
    BY DEF Return
  <1>2. next \in {"idle", "erase"}
    BY DEF IInv, TypeOK
  <1>3. Bound' = Bound
    BY <1>1, <1>2 DEF Bound
  <1>4. OrderedTo(Bound)' <=> OrderedTo(Bound)
    BY <1>1, <1>3 DEF OrderedTo, Before, Parent
  <1>5. Rest'
    BY <1>1 DEF Rest
  <1>6. NoneLater' <=> NoneLater
    BY <1>1 DEF NoneLater, Time
  <1> QED BY <1>1, <1>2, <1>4, <1>5, <1>6 DEF HeapInv

\* What an exchange of two nodes does to the array.
LEMMA SwapCells ==
  ASSUME IInv, NEW a \in 0..(size - 1), NEW b \in 0..(size - 1), SwapNode_(a, b)
  PROVE  /\ heap'[a] = heap[b] /\ heap'[b] = heap[a]
         /\ \A k \in 0..(size - 1) : k # a /\ k # b => heap'[k] = heap[k]
         /\ \A k \in 0..(size - 1) : \E j \in 0..(size - 1) : heap'[k] = heap[j]
  <1>1. heap' = [heap EXCEPT ![a] = heap[b], ![b] = heap[a]]
    BY DEF SwapNode_, IInv, TypeOK
  <1>2. heap \in [0..(size - 1) -> Node]
    BY DEF IInv, TypeOK
  <1>3. /\ heap'[a] = heap[b] /\ heap'[b] = heap[a]
        /\ \A k \in 0..(size - 1) : k # a /\ k # b => heap'[k] = heap[k]
    BY <1>1, <1>2
  <1> QED BY <1>3

\* One iteration of siftup_.
LEMMA HeapUp == ASSUME IInv, HeapInv, siftup_ PROVE HeapInv'
  <1>0. pc = "up" /\ UNCHANGED <<now, back, size, res>>
    BY DEF siftup_
  <1>1. CASE Return
    BY <1>0, <1>1, HeapReturn DEF HeapInv, Rising
  <1>2. CASE SiftUpRoot /\ ~Return
    <2>1. UNCHANGED <<heap, ref, pc, i, top, lim, up, next>>
      BY <1>2 DEF SiftUpRoot, Locals
    <2> QED
      BY <1>0, <2>1
      DEF HeapInv, Rest, Rising, Sinking, NoneLater, OrderedTo, Bound, Before, Parent, Time
  <1>3. CASE SiftUpStep /\ ~Before(Parent(i), i)
    <2>1. i \in Nat \ {0} /\ i < size /\ size \in Nat
      BY <1>0, <1>3 DEF SiftUpStep, IInv, TypeOK
    <2>2. SwapNode_(i, Parent(i)) /\ i' = Parent(i) /\ UNCHANGED <<pc, top, lim, up, next>>
      BY <1>3 DEF SiftUpStep
    <2>3. i \in 0..(size - 1) /\ Parent(i) \in 0..(size - 1)
      BY <2>1, ParentFacts
    <2>4. Rest'
      BY <2>2 DEF Rest, HeapInv
    <2>5. ASSUME ~back
          PROVE  NoneLater' /\ Rising'
      <3>1. next # "erase" /\ Bound = size /\ OrderedTo(size) /\ NoneLater
        BY <1>0, <2>1, <2>5 DEF HeapInv, Rising, Bound
      <3>2. heap[i].expires = heap[Parent(i)].expires
        <4>1. ~Before(i, Parent(i))
          BY <2>1, <3>1 DEF OrderedTo
        <4> QED BY <1>3, <2>3, <4>1, BeforeFacts DEF Before, IInv
      <3>3. \A k \in 0..(size - 1) : heap'[k].expires = heap[k].expires
        BY <2>2, <2>3, <3>2, SwapCells
      <3>4. NoneLater'
        BY <1>0, <3>1, <3>3 DEF NoneLater, Time
      <3>5. OrderedTo(size)'
        <4> SUFFICES ASSUME NEW k \in 1..(size - 1) PROVE ~Before(k, Parent(k))'
          BY <1>0 DEF OrderedTo
        <4>1. k \in Nat \ {0} /\ k \in 0..(size - 1) /\ Parent(k) \in 0..(size - 1)
          BY <2>1, ParentFacts
        <4>2. ~Before(k, Parent(k))
          BY <3>1 DEF OrderedTo
        <4> QED BY <3>3, <4>1, <4>2 DEF Before, Parent
      <3> QED BY <1>0, <2>2, <3>1, <3>4, <3>5 DEF Rising, Bound
    <2> QED BY <1>0, <2>2, <2>4, <2>5 DEF HeapInv
  <1> QED BY <1>1, <1>2, <1>3 DEF siftup_, SiftUpStep

\* siftdown_ that has found the place of its node.
LEMMA HeapDownEnd ==
  ASSUME IInv, HeapInv, pc = "down", ~back, 2*i + 1 >= lim \/ Before(i, Child)
  PROVE  OrderedTo(Bound)
  <1>1. Sinking /\ i \in Nat /\ i < size /\ lim \in Nat /\ lim <= size /\ size \in Nat
    BY DEF HeapInv, IInv, TypeOK
  <1>2. SUFFICES ASSUME NEW k \in 1..(lim - 1), Parent(k) = i
                 PROVE  ~Before(k, i)
    BY <1>1, <1>2 DEF OrderedTo, Sinking
  <1>3. k \in Nat \ {0} /\ (k = 2*i + 1 \/ k = 2*i + 2) /\ k < lim
    BY <1>1, <1>2, ParentFacts
  <1>4. Before(i, Child) /\ 2*i + 1 < lim
    BY <1>1, <1>3
  <1>5. i \in 0..(size - 1) /\ k \in 0..(size - 1) /\ 2*i + 1 \in 0..(size - 1)
    BY <1>1, <1>3, <1>4
  <1>6. CASE k = Child
    BY <1>4, <1>5, <1>6, BeforeFacts DEF Before, IInv
  <1>7. CASE k # Child
    <2>1. /\ 2*i + 2 < lim => 2*i + 2 \in 0..(size - 1)
          /\ Child = 2*i + 1 \/ (Child = 2*i + 2 /\ 2*i + 2 < lim)
      BY <1>1 DEF Child
    <2>2. heap[Child].expires <= heap[k].expires
      BY <1>3, <1>5, <1>7, <2>1, BeforeFacts DEF Before, Child, IInv
    <2> QED BY <1>4, <1>5, <2>1, <2>2, BeforeFacts DEF Before, IInv
  <1> QED BY <1>6, <1>7

\* siftdown_ that moves its node one level down.
LEMMA HeapDownStep ==
  ASSUME IInv, HeapInv, pc = "down", UNCHANGED <<now, back, size, res>>,
         2*i + 1 < lim, ~Before(i, Child), SwapNode_(i, Child), i' = Child,
         UNCHANGED <<pc, top, lim, up, next>>
  PROVE  HeapInv'
  <1>1. i \in Nat /\ lim \in Nat /\ lim <= size /\ size \in Nat
    BY DEF IInv, TypeOK
  <1>2. /\ Child \in Nat /\ Child < lim /\ Parent(Child) = i /\ Child > i
        /\ i \in 0..(size - 1) /\ Child \in 0..(size - 1)
    BY <1>1, ParentFacts DEF Child
  <1>3. /\ heap'[i] = heap[Child] /\ heap'[Child] = heap[i]
        /\ \A k \in 0..(size - 1) : k # i /\ k # Child => heap'[k] = heap[k]
        /\ \A k \in 0..(size - 1) : \E j \in 0..(size - 1) : heap'[k] = heap[j]
    BY <1>2, SwapCells
  <1>4. Rest'
    BY DEF HeapInv, Rest
  <1>5. ASSUME ~back PROVE NoneLater'
    BY <1>3, <1>5 DEF HeapInv, NoneLater, Time
  <1>6. ASSUME ~back PROVE Sinking'
    <2> USE <1>6
    <2>1. Sinking
      BY DEF HeapInv
    <2>2. lim' = Bound' /\ (next' = "erase" => top' = 0)
      BY <2>1 DEF Sinking, Bound
    <2>3. \A k \in 0..(size - 1) : heap[k].expires \in Int
      BY BeforeFacts DEF IInv
    <2>4. ASSUME NEW k \in 1..(lim - 1), Parent(k) # Child
          PROVE  ~(heap'[k].expires < heap'[Parent(k)].expires)
      <3>1. /\ k \in 0..(size - 1) /\ k \in Nat \ {0}
            /\ Parent(k) \in Nat /\ Parent(k) < k /\ Parent(k) \in 0..(size - 1)
        BY <1>1, ParentFacts
      <3>2. CASE k = i
        <4>1. i > 0 /\ Child \in 1..(lim - 1)
          BY <1>1, <1>2, <3>2
        <4>2. ~Before(Child, Parent(i))
          BY <1>2, <2>1, <4>1 DEF Sinking
        <4>3. Parent(i) # i /\ Parent(i) # Child
          BY <1>2, <2>4, <3>1, <3>2
        <4> QED BY <1>3, <3>1, <3>2, <4>2, <4>3 DEF Before
      <3>3. CASE k = Child
        BY <1>2, <1>3, <3>3 DEF Before
      <3>4. CASE k # i /\ k # Child /\ Parent(k) = i
        <4>1. k = 2*i + 1 \/ k = 2*i + 2
          BY <1>1, <3>1, <3>4, ParentFacts
        <4>2. ~(heap[k].expires < heap[Child].expires)
          BY <1>1, <1>2, <2>3, <3>1, <3>4, <4>1 DEF Child, Before
        <4> QED BY <1>2, <1>3, <3>1, <3>4, <4>2
      <3>5. CASE k # i /\ k # Child /\ Parent(k) # i
        <4>1. ~Before(k, Parent(k))
          BY <2>1, <3>5 DEF Sinking
        <4> QED BY <1>3, <2>4, <3>1, <3>5, <4>1 DEF Before
      <3> QED BY <3>2, <3>3, <3>4, <3>5
    <2>5. ASSUME NEW k \in 1..(lim - 1), Parent(k) = Child
          PROVE  ~(heap'[k].expires < heap'[Parent(Child)].expires)
      <3>1. k \in 0..(size - 1) /\ k \in Nat \ {0} /\ Child < k
        BY <1>1, <2>5, ParentFacts
      <3>2. ~Before(k, Child)
        BY <1>2, <2>1, <2>5 DEF Sinking
      <3> QED BY <1>2, <1>3, <3>1, <3>2 DEF Before
    <2>6. \A k : Parent(k)' = Parent(k)
      BY DEF Parent
    <2>7. \A k \in 1..(lim' - 1) : Parent(k)' # i' => ~Before(k, Parent(k))'
      BY <2>4, <2>6 DEF Before
    <2>8. \A k \in 1..(lim' - 1) : i' > 0 /\ Parent(k)' = i' => ~Before(k, Parent(i))'
      BY <2>5, <2>6 DEF Before, Parent
    <2> QED BY <2>2, <2>7, <2>8 DEF Sinking
  <1> QED BY <1>4, <1>5, <1>6 DEF HeapInv

\* One iteration of siftdown_.
LEMMA HeapDown == ASSUME IInv, HeapInv, siftdown_ PROVE HeapInv'
  <1>0. pc = "down" /\ UNCHANGED <<now, back, size, res>>
    BY DEF siftdown_
  <1>1. CASE 2*i + 1 >= lim \/ Before(i, Child)
    <2>1. ~back => OrderedTo(Bound)
      BY <1>0, <1>1, HeapDownEnd
    <2>2. CASE Return
      BY <1>0, <2>1, <2>2, HeapReturn
    <2>3. CASE up /\ ~(i > top) /\ pc' = "up" /\ UNCHANGED <<heap, ref, Locals, abort>>
      <3>1. UNCHANGED <<heap, i, top, lim, up, next>>
        BY <2>3 DEF Locals
      <3>2. Bound' = Bound
        BY <1>0, <2>3, <3>1 DEF Bound
      <3>3. OrderedTo(Bound)' <=> OrderedTo(Bound)
        BY <3>1, <3>2 DEF OrderedTo, Before, Parent
      <3>4. NoneLater' <=> NoneLater
        BY <1>0, <3>1 DEF NoneLater, Time
      <3>5. ~back /\ next = "erase" => i = 0
        <4>1. ~back /\ next = "erase" => top = 0
          BY <1>0 DEF HeapInv, Sinking
        <4>2. i \in Nat /\ top \in Nat
          BY DEF IInv, TypeOK
        <4> QED BY <2>3, <4>1, <4>2
      <3> QED BY <1>0, <2>1, <2>3, <3>1, <3>3, <3>4, <3>5 DEF HeapInv, Rest, Rising
    <2>4. SiftDownEnd
      BY <1>1 DEF siftdown_
    <2> QED BY <2>2, <2>3, <2>4 DEF SiftDownEnd
  <1>2. CASE ~(2*i + 1 >= lim \/ Before(i, Child))
    <2>1. 2*i + 1 < lim
      BY <1>2 DEF IInv, TypeOK
    <2> QED BY <1>0, <1>2, <2>1, HeapDownStep DEF siftdown_
  <1> QED BY <1>1, <1>2

\* add, for an id without a timer: the new node is the latest.
LEMMA HeapAddNew == ASSUME IInv, HeapInv, NEW id \in Ids, AddNew(id) PROVE HeapInv'
  <1>1. /\ pc = "idle" /\ pc' = "up" /\ next' = next /\ size' = size + 1 /\ size \in Nat
        /\ now' = now /\ back' = back /\ i' = size
    BY DEF AddNew, IInv, TypeOK
  <1>2. /\ \A k \in 0..(size - 1) : heap'[k] = heap[k]
        /\ heap'[size].expires = Time
    BY <1>1 DEF AddNew
  <1>3. next = "idle"
    BY <1>1 DEF HeapInv, Rest
  <1>4. Rest'
    BY <1>1 DEF Rest
  <1>5. ASSUME ~back PROVE NoneLater' /\ Rising'
    <2>1. NoneLater /\ OrderedTo(size)
      BY <1>1, <1>3, <1>5 DEF HeapInv, Bound
    <2>2. NoneLater'
      BY <1>1, <1>2, <2>1, BeforeFacts DEF NoneLater, Time, IInv
    <2>3. Bound' = size + 1
      BY <1>1, <1>3 DEF Bound
    <2>4. ASSUME NEW k \in 1..size PROVE ~(heap'[k].expires < heap'[Parent(k)].expires)
      <3>1. /\ k \in Nat \ {0} /\ Parent(k) \in 0..(size - 1)
            /\ k = size \/ (k \in 0..(size - 1) /\ k \in 1..(size - 1))
        BY <1>1, ParentFacts
      <3>2. CASE k = size
        BY <1>1, <1>2, <2>1, <3>1, <3>2, BeforeFacts DEF NoneLater, IInv
      <3>3. CASE k \in 1..(size - 1)
        BY <1>2, <2>1, <3>1, <3>3 DEF OrderedTo, Before
      <3> QED BY <3>1, <3>2, <3>3
    <2>5. OrderedTo(Bound)'
      BY <1>1, <2>3, <2>4 DEF OrderedTo, Before, Parent
    <2> QED BY <1>1, <1>3, <2>2, <2>5 DEF Rising
  <1> QED BY <1>1, <1>4, <1>5 DEF HeapInv

\* add and adjust, for an id with a timer: the node becomes the latest.
LEMMA HeapTouch ==
  ASSUME IInv, HeapInv, NEW id \in Ids, AddExisting(id) \/ adjust(id) PROVE HeapInv'
  <1> DEFINE r == ref[id]
  <1>1. /\ pc = "idle" /\ pc' = "down" /\ next' = "idle" /\ size' = size /\ size \in Nat
        /\ now' = now /\ back' = back /\ i' = r /\ lim' = size
        /\ heap' = [heap EXCEPT ![r].expires = Time]
    BY DEF AddExisting, adjust, CallSift, IInv, TypeOK
  <1>2. r \in 0..(size - 1) /\ r \in Nat
    <2>1. id \in DOMAIN ref
      BY DEF AddExisting, adjust
    <2> QED BY <1>1, <2>1 DEF IInv, TypeOK
  <1> HIDE DEF r
  <1>3. /\ \A k \in 0..(size - 1) : k # r => heap'[k] = heap[k]
        /\ heap'[r].expires = Time
    BY <1>1, <1>2 DEF IInv, TypeOK, Node
  <1>4. next = "idle" /\ Rest'
    BY <1>1 DEF HeapInv, Rest
  <1>5. ASSUME ~back PROVE NoneLater' /\ Sinking'
    <2>1. NoneLater /\ OrderedTo(size)
      BY <1>1, <1>4, <1>5 DEF HeapInv, Bound
    <2>2. NoneLater'
      BY <1>1, <1>2, <1>3, <2>1, BeforeFacts DEF NoneLater, Time, IInv
    <2>3. lim' = Bound' /\ next' # "erase"
      BY <1>1 DEF Bound
    <2>4. \A k \in 0..(size - 1) : heap[k].expires \in Int /\ heap[k].expires <= Time
      BY <2>1, BeforeFacts DEF NoneLater, IInv
    <2>5. ASSUME NEW k \in 1..(size - 1), Parent(k) # r
          PROVE  ~(heap'[k].expires < heap'[Parent(k)].expires)
      <3>1. k \in Nat \ {0} /\ k \in 0..(size - 1) /\ Parent(k) \in 0..(size - 1)
        BY <1>1, ParentFacts
      <3>2. ~Before(k, Parent(k))
        BY <2>1 DEF OrderedTo
      <3> QED BY <1>3, <2>4, <2>5, <3>1, <3>2, BeforeFacts DEF Before, IInv
    <2>6. ASSUME NEW k \in 1..(size - 1), r > 0, Parent(k) = r
          PROVE  ~(heap'[k].expires < heap'[Parent(r)].expires)
      <3>1. /\ k \in Nat \ {0} /\ k \in 0..(size - 1) /\ k # r
            /\ r \in 1..(size - 1) /\ Parent(r) \in 0..(size - 1) /\ Parent(r) # r
        BY <1>1, <1>2, <2>6, ParentFacts
      <3>2. ~Before(k, r) /\ ~Before(r, Parent(r))
        BY <2>1, <2>6, <3>1 DEF OrderedTo
      <3> QED BY <1>2, <1>3, <2>4, <3>1, <3>2 DEF Before
    <2>7. \A k \in 1..(lim' - 1) : Parent(k)' # i' => ~Before(k, Parent(k))'
      BY <1>1, <2>5 DEF Before, Parent
    <2>8. \A k \in 1..(lim' - 1) : i' > 0 /\ Parent(k)' = i' => ~Before(k, Parent(i))'
      BY <1>1, <2>6 DEF Before, Parent
    <2> QED BY <2>2, <2>3, <2>7, <2>8 DEF Sinking
  <1> QED BY <1>1, <1>4, <1>5 DEF HeapInv

\* One iteration of tick: the last node takes the place of the root.
LEMMA HeapTick == ASSUME IInv, HeapInv, tick PROVE HeapInv'
  <1>0. pc = "tick" /\ next = "idle" /\ size \in Nat /\ UNCHANGED <<now, back, size, res>>
    BY DEF tick, HeapInv, Rest, IInv, TypeOK
  <1>1. CASE size > 1 /\ SwapNode_(0, size - 1) /\ CallSift(0, size - 1, TRUE, "erase")
    <2>1. 0 \in 0..(size - 1) /\ size - 1 \in 0..(size - 1)
      BY <1>0, <1>1
    <2>2. /\ \A k \in 0..(size - 1) : k # 0 /\ k # size - 1 => heap'[k] = heap[k]
          /\ \A k \in 0..(size - 1) : \E j \in 0..(size - 1) : heap'[k] = heap[j]
      BY <1>1, <2>1, SwapCells
    <2>3. pc' = "down" /\ i' = 0 /\ top' = 0 /\ lim' = size - 1 /\ next' = "erase"
      BY <1>1 DEF CallSift
    <2>4. ASSUME ~back PROVE NoneLater' /\ Sinking'
      <3>1. NoneLater /\ OrderedTo(size)
        BY <1>0, <2>4 DEF HeapInv, Bound
      <3>2. NoneLater'
        BY <1>0, <2>2, <3>1 DEF NoneLater, Time
      <3>3. ASSUME NEW k \in 1..(size - 2), Parent(k) # 0
            PROVE  ~(heap'[k].expires < heap'[Parent(k)].expires)
        <4>1. /\ k \in Nat \ {0} /\ k \in 0..(size - 1) /\ k # 0 /\ k # size - 1
              /\ k \in 1..(size - 1) /\ Parent(k) \in 0..(size - 1) /\ Parent(k) # size - 1
          BY <1>0, ParentFacts
        <4> QED BY <2>2, <3>1, <3>3, <4>1 DEF OrderedTo, Before
      <3>4. lim' = Bound'
        BY <1>0, <2>3 DEF Bound
      <3>5. \A k \in 1..(lim' - 1) : Parent(k)' # i' => ~Before(k, Parent(k))'
        BY <1>0, <2>3, <3>3 DEF Before, Parent
      <3>6. ~(i' > 0)
        BY <2>3
      <3> QED BY <2>3, <3>2, <3>4, <3>5, <3>6 DEF Sinking
    <2> QED BY <1>0, <2>3, <2>4 DEF HeapInv, Rest
  <1>2. CASE /\ UNCHANGED <<heap, ref, Locals, abort>>
             /\ pc' = "measure" \/ (pc' = "erase" /\ ~(size > 1))
    <2>1. heap' = heap /\ next' = next
      BY <1>2 DEF Locals
    <2>2. Rest' /\ (NoneLater' <=> NoneLater)
      BY <1>0, <2>1 DEF Rest, NoneLater, Time
    <2>3. OrderedTo(size) => OrderedTo(Bound)'
      BY <1>0, <1>2, <2>1 DEF OrderedTo, Bound, Before, Parent
    <2>4. ~back => OrderedTo(size) /\ NoneLater
      BY <1>0 DEF HeapInv, Bound
    <2> QED BY <1>0, <1>2, <2>2, <2>3, <2>4 DEF HeapInv
  <1> QED BY <1>0, <1>1, <1>2 DEF tick, del_

\* The last step of del_: the node that goes is not a parent of one that stays.
LEMMA HeapErase == ASSUME IInv, HeapInv, Erase PROVE HeapInv'
  <1>1. /\ pc = "erase" /\ pc' = "tick" /\ size' = size - 1 /\ size \in Nat /\ size > 0
        /\ heap' = [k \in 0..(size - 2) |-> heap[k]]
        /\ now' = now /\ back' = back /\ next' = next
    BY DEF Erase, Locals, IInv, TypeOK
  <1>2. next = "idle" /\ Rest'
    BY <1>1 DEF HeapInv, Rest
  <1>3. ASSUME ~back PROVE NoneLater' /\ OrderedTo(Bound)'
    <2>1. NoneLater /\ OrderedTo(size - 1)
      BY <1>1, <1>3 DEF HeapInv, Bound
    <2>2. NoneLater'
      BY <1>1, <2>1 DEF NoneLater, Time
    <2>3. Bound' = size - 1
      BY <1>1, <1>2 DEF Bound
    <2>4. ASSUME NEW k \in 1..(size - 2) PROVE ~(heap'[k].expires < heap'[Parent(k)].expires)
      <3>1. k \in Nat \ {0} /\ k \in 0..(size - 2) /\ Parent(k) \in 0..(size - 2)
        BY <1>1, ParentFacts
      <3> QED BY <1>1, <2>1, <3>1 DEF OrderedTo, Before
    <2> QED BY <1>1, <2>2, <2>3, <2>4 DEF OrderedTo, Before, Parent
  <1> QED BY <1>1, <1>2, <1>3 DEF HeapInv

\* The steps that leave the array alone.
LEMMA HeapOther ==
  ASSUME IInv, HeapInv, StartTick \/ GetNextTick \/ Advance \/ SetBack \/ UNCHANGED vars
  PROVE  HeapInv'
  <1>1. CASE StartTick \/ GetNextTick \/ UNCHANGED vars
    <2>1. /\ UNCHANGED <<heap, size, now, back, i, top, lim, up, next>>
          /\ pc' = pc \/ (pc \notin {"up", "down", "erase"} /\ pc' \notin {"up", "down", "erase"})
      BY <1>1 DEF StartTick, GetNextTick, Locals, vars
    <2>2. Bound' = Bound
      BY <2>1 DEF Bound
    <2> QED BY <2>1, <2>2
            DEF HeapInv, Rest, NoneLater, Time, Sinking, Rising, OrderedTo, Before, Parent
  <1>2. CASE Advance
    <2>1. /\ UNCHANGED <<heap, size, back, i, top, lim, up, next, pc>> /\ now' = now + 1
          /\ now \in Int
      BY <1>2 DEF Advance, Locals, IInv, TypeOK
    <2>2. Bound' = Bound
      BY <2>1 DEF Bound
    <2>3. NoneLater => NoneLater'
      BY <2>1, BeforeFacts, TimeAssumption DEF NoneLater, Time, IInv
    <2>4. (Rest' <=> Rest) /\ (Sinking' <=> Sinking) /\ (Rising' <=> Rising)
          /\ (OrderedTo(Bound)' <=> OrderedTo(Bound))
      BY <2>1, <2>2 DEF Rest, Sinking, Rising, OrderedTo, Before, Parent
    <2> QED BY <2>1, <2>3, <2>4 DEF HeapInv
  <1>3. CASE SetBack
    BY <1>3 DEF SetBack, Locals, HeapInv, Rest
  <1> QED BY <1>1, <1>2, <1>3

\* The order is kept by every step.
LEMMA HeapStep == ASSUME IInv, HeapInv, [Next]_vars PROVE HeapInv'
  <1>1. CASE \E id \in Ids : AddNew(id) \/ AddExisting(id) \/ adjust(id)
    BY <1>1, HeapAddNew, HeapTouch
  <1>2. CASE Step
    BY <1>2, HeapUp, HeapDown, HeapErase, HeapTick, HeapOther DEF Step
  <1> QED BY <1>1, <1>2, HeapOther DEF Next

\* Between the steps of a call the heap is out of order at one place only.
THEOREM HeapInvariance == Spec => []HeapInv
  <1>1. Init => HeapInv
    BY HeapInit
  <1>2. IInv /\ HeapInv /\ [Next]_vars => HeapInv'
    BY HeapStep
  <1> QED BY <1>1, <1>2, Invariance, PTL DEF Spec

\* Between calls no node expires before its parent, for any number of timers
\* and a clock that was not set back (heaptimer.cpp:9-52).
THEOREM HeapOrderedCorrect == Spec => []HeapOrdered
  <1>1. IInv /\ HeapInv => HeapOrdered
    <2> SUFFICES ASSUME HeapInv, pc \in {"idle", "tick", "measure"}, ~back
                 PROVE  \A k \in 1..(size - 1) : ~Before(k, Parent(k))
      BY DEF HeapOrdered
    <2>1. next = "idle" /\ OrderedTo(Bound) /\ Bound = size
      BY DEF HeapInv, Rest, Bound
    <2> QED BY <2>1 DEF OrderedTo
  <1> QED BY <1>1, Invariance, HeapInvariance, PTL
-----------------------------------------------------------------------------
(* What the order is for: the root is the earliest timer. *)

\* No node of an ordered heap expires before the root.
LEMMA RootEarliest ==
  ASSUME TypeOK, OrderedTo(size)
  PROVE  \A k \in 0..(size - 1) : heap[0].expires <= heap[k].expires
  <1> DEFINE T == {k \in 0..(size - 1) : heap[k].expires < heap[0].expires}
  <1>1. /\ \A k \in 0..(size - 1) : heap[k].expires \in Int
        /\ size \in Nat
    BY BeforeFacts DEF TypeOK
  <1>2. ASSUME T # {} PROVE FALSE
    <2>1. T \subseteq Nat
      OBVIOUS
    <2>2. PICK x \in T : \A y \in T : x <= y
      BY <1>2, <2>1, LeastIndex
    <2>3. x \in 0..(size - 1) /\ heap[x].expires < heap[0].expires
      BY <2>2
    <2>4. x \in Nat \ {0} /\ x \in 1..(size - 1) /\ 0 \in 0..(size - 1)
      BY <1>1, <2>3
    <2>5. Parent(x) \in 0..(size - 1) /\ Parent(x) < x
      BY <1>1, <2>4, ParentFacts
    <2>6. heap[Parent(x)].expires <= heap[x].expires
      BY <1>1, <2>3, <2>4, <2>5 DEF OrderedTo, Before
    <2>7. Parent(x) \in T
      BY <1>1, <2>3, <2>4, <2>5, <2>6
    <2>8. x <= Parent(x)
      BY <2>2, <2>7
    <2> QED BY <2>4, <2>5, <2>8
  <1> QED BY <1>1, <1>2

\* Integer division keeps the order of its dividends.
LEMMA DivMonotone ==
  ASSUME NEW a \in Nat, NEW b \in Nat, a <= b, NEW c \in Nat \ {0}
  PROVE  a \div c \in Nat /\ b \div c \in Nat /\ a \div c <= b \div c
  <1> DEFINE p == a \div c
             q == b \div c
  <1>1. a = c * p + (a % c) /\ a % c \in 0..(c - 1) /\ p \in Nat
    OBVIOUS
  <1>2. b = c * q + (b % c) /\ b % c \in 0..(c - 1) /\ q \in Nat
    OBVIOUS
  <1> HIDE DEF p, q
  <1>3. ASSUME p > q PROVE FALSE
    <2>1. p - q - 1 \in Nat
      BY <1>1, <1>2, <1>3
    <2>2. c * (p - q - 1) \in Nat
      BY <2>1
    <2>3. c * p = c * q + c + c * (p - q - 1)
      BY <1>1, <1>2
    <2>4. c * p \in Int /\ c * q \in Int
      BY <1>1, <1>2
    <2> QED BY <1>1, <1>2, <2>2, <2>3, <2>4
  <1>4. p <= q
    BY <1>1, <1>2, <1>3
  <1> QED BY <1>1, <1>2, <1>4 DEF p, q

\* The rounded time to an expiry is an integer, and grows with the expiry.
LEMMA RemainingMonotone ==
  ASSUME TypeOK, NEW j \in 0..(size - 1), NEW k \in 0..(size - 1),
         heap[j].expires <= heap[k].expires
  PROVE  Remaining(j) \in Int /\ Remaining(k) \in Int /\ Remaining(j) <= Remaining(k)
  <1> DEFINE e == heap[j].expires
             f == heap[k].expires
  <1>1. e \in Int /\ f \in Int /\ e <= f /\ now \in Int /\ Ms \in Nat \ {0}
    BY BeforeFacts, TimeAssumption DEF TypeOK
  <1>2. /\ Remaining(j) = IF e >= now THEN (e - now) \div Ms ELSE -((now - e) \div Ms)
        /\ Remaining(k) = IF f >= now THEN (f - now) \div Ms ELSE -((now - f) \div Ms)
    BY DEF Remaining
  <1> HIDE DEF e, f
  <1>3. CASE e >= now
    <2>1. e - now \in Nat /\ f - now \in Nat /\ e - now <= f - now /\ f >= now
      BY <1>1, <1>3
    <2>2. /\ (e - now) \div Ms \in Nat /\ (f - now) \div Ms \in Nat
          /\ (e - now) \div Ms <= (f - now) \div Ms
      BY <1>1, <2>1, DivMonotone
    <2> QED BY <1>2, <1>3, <2>1, <2>2
  <1>4. CASE f < now
    <2>1. now - e \in Nat /\ now - f \in Nat /\ now - f <= now - e /\ ~(e >= now) /\ ~(f >= now)
      BY <1>1, <1>4
    <2>2. /\ (now - e) \div Ms \in Nat /\ (now - f) \div Ms \in Nat
          /\ (now - f) \div Ms <= (now - e) \div Ms
      BY <1>1, <2>1, DivMonotone
    <2> QED BY <1>2, <2>1, <2>2
  <1>5. CASE e < now /\ f >= now
    <2>1. now - e \in Nat /\ f - now \in Nat /\ ~(e >= now)
      BY <1>1, <1>5
    <2>2. (now - e) \div Ms \in Nat /\ (f - now) \div Ms \in Nat
      BY <1>1, <2>1, DivMonotone
    <2> QED BY <1>2, <1>5, <2>1, <2>2
  <1> QED BY <1>1, <1>3, <1>4, <1>5

\* A node whose rest rounds to zero or less is due as TimerTable has it.
LEMMA DueFacts ==
  ASSUME TypeOK, NEW k \in 0..(size - 1), Remaining(k) <= 0
  PROVE  heap[k].expires - now < Ms
  <1> DEFINE d == heap[k].expires - now
  <1>1. d \in Int /\ now \in Int /\ heap[k].expires \in Int /\ Ms \in Nat \ {0}
    BY BeforeFacts, TimeAssumption DEF TypeOK
  <1>2. CASE heap[k].expires >= now
    <2>1. d \in Nat /\ d \div Ms <= 0
      BY <1>1, <1>2 DEF Remaining
    <2>2. d = Ms * (d \div Ms) + (d % Ms) /\ d % Ms \in 0..(Ms - 1) /\ d \div Ms \in Nat
      BY <1>1, <2>1
    <2>3. d \div Ms = 0
      BY <2>1, <2>2
    <2>4. Ms * 0 = 0
      BY <1>1
    <2> HIDE DEF d
    <2>5. d < Ms
      BY <1>1, <2>1, <2>2, <2>3, <2>4
    <2> QED BY <2>5 DEF d
  <1>3. CASE ~(heap[k].expires >= now)
    BY <1>1, <1>3
  <1> QED BY <1>2, <1>3

\* When tick leaves its loop no timer is due, and GetNextTick measures the
\* earliest one.
LEMMA RootDecides ==
  ASSUME IInv, HeapInv, ~back, pc \in {"idle", "tick", "measure"}, size > 0
  PROVE  /\ 0 \in 0..(size - 1)
         /\ \A k \in 0..(size - 1) :
              Remaining(0) \in Int /\ Remaining(k) \in Int /\ Remaining(0) <= Remaining(k)
  <1>1. OrderedTo(size) /\ TypeOK /\ size \in Nat
    BY DEF HeapInv, Rest, Bound, IInv, TypeOK
  <1>2. 0 \in 0..(size - 1)
    BY <1>1
  <1>3. \A k \in 0..(size - 1) : heap[0].expires <= heap[k].expires
    BY <1>1, RootEarliest
  <1> QED BY <1>1, <1>2, <1>3, RemainingMonotone

\* tick() removes every timer whose time has come (heaptimer.cpp:99-112), for
\* any number of timers.
THEOREM TickCompleteCorrect == Spec => TickComplete
  <1>1. IInv /\ HeapInv /\ [Next]_vars =>
          (pc # "measure" /\ pc' = "measure" /\ ~back' =>
             (\A k \in 0..(size - 1) : Remaining(k) > 0)')
    <2> SUFFICES ASSUME IInv, HeapInv, [Next]_vars,
                        pc # "measure", pc' = "measure", ~back'
                 PROVE  (\A k \in 0..(size - 1) : Remaining(k) > 0)'
      OBVIOUS
    <2>1. IInv' /\ HeapInv'
      BY NextInv, HeapStep
    <2>2. tick /\ ~(size > 0 /\ Remaining(0) <= 0) /\ UNCHANGED <<now, back, size, heap>>
      <3>1. ~(\E id \in Ids : AddNew(id) \/ AddExisting(id) \/ adjust(id))
        BY DEF AddNew, AddExisting, adjust, CallSift
      <3>2. ~(StartTick \/ GetNextTick \/ Advance \/ SetBack \/ UNCHANGED vars \/ Erase)
        BY DEF StartTick, GetNextTick, Advance, SetBack, vars, Erase
      <3>3. next \in {"idle", "erase"}
        BY DEF IInv, TypeOK
      <3>4. ~siftup_ /\ ~siftdown_
        BY <3>3 DEF siftup_, SiftUpRoot, SiftUpStep, siftdown_, SiftDownEnd, Return
      <3>5. tick
        BY <3>1, <3>2, <3>4 DEF Next, Step
      <3> QED BY <3>5 DEF tick, del_, CallSift
    <2>3. \A k : Remaining(k)' = Remaining(k)
      BY <2>2 DEF Remaining
    <2>4. CASE size > 0
      <3>1. \A k \in 0..(size - 1) :
              Remaining(0) \in Int /\ Remaining(k) \in Int /\ Remaining(0) <= Remaining(k)
        BY <2>2, <2>4, RootDecides DEF tick
      <3>2. 0 \in 0..(size - 1)
        BY <2>4 DEF IInv, TypeOK
      <3> QED BY <2>2, <2>3, <2>4, <3>1, <3>2
    <2>5. CASE ~(size > 0)
      <3>1. 0..(size - 1) = {} /\ size' = size
        BY <2>2, <2>5 DEF IInv, TypeOK
      <3> QED BY <3>1
    <2> QED BY <2>4, <2>5
  <1> QED BY <1>1, Invariance, HeapInvariance, PTL DEF Spec, TickComplete

\* The time that GetNextTick returns is the time to the earliest expiry
\* (heaptimer.cpp:122-131), for any number of timers.
THEOREM NextTickCorrect == Spec => NextTickInTime
  <1>1. IInv /\ HeapInv /\ [Next]_vars =>
          (pc = "measure" /\ pc' = "idle" /\ ~back =>
             IF size = 0 THEN res' = -1
             ELSE /\ \E k \in 0..(size - 1) : res' = Remaining(k)
                  /\ \A k \in 0..(size - 1) : res' <= Remaining(k))
    <2> SUFFICES ASSUME IInv, HeapInv, [Next]_vars,
                        pc = "measure", pc' = "idle", ~back
                 PROVE  IF size = 0 THEN res' = -1
                        ELSE /\ \E k \in 0..(size - 1) : res' = Remaining(k)
                             /\ \A k \in 0..(size - 1) : res' <= Remaining(k)
      OBVIOUS
    <2>1. GetNextTick
      BY DEF Next, Step, vars, AddNew, AddExisting, adjust, StartTick, Advance, SetBack,
             siftup_, siftdown_, Erase, tick
    <2>2. size \in Nat
      BY DEF IInv, TypeOK
    <2>3. CASE size = 0
      BY <2>1, <2>3 DEF GetNextTick
    <2>4. CASE size > 0
      <3>1. res' = Remaining(0)
        BY <2>1, <2>4 DEF GetNextTick
      <3> QED BY <2>4, <3>1, RootDecides
    <2> QED BY <2>2, <2>3, <2>4
  <1> QED BY <1>1, Invariance, HeapInvariance, PTL DEF Spec, NextTickInTime
-----------------------------------------------------------------------------
(* The heap implements the table of expiry times. *)

\* del_ is about to take out the last node of the array.
Removing == pc = "erase" \/ next = "erase"

\* What del_ takes out is due, and no other node expires before it.
LeavingInv ==
  ~back /\ Removing =>
    /\ heap[size - 1].expires - now < Ms
    /\ \A k \in 0..(size - 1) : heap[size - 1].expires <= heap[k].expires

\* A sift under del_ exchanges two nodes that stay.
LEMMA SiftKeepsLast ==
  ASSUME IInv, HeapInv, ~back, next = "erase", siftup_ \/ siftdown_
  PROVE  /\ UNCHANGED <<now, back, size>> /\ size - 1 \in 0..(size - 1)
         /\ heap'[size - 1] = heap[size - 1]
         /\ \A k \in 0..(size - 1) : \E j \in 0..(size - 1) : heap'[k] = heap[j]
  <1>1. UNCHANGED <<now, back, size>> /\ size \in Nat /\ size > 0 /\ size - 1 \in 0..(size - 1)
    BY DEF siftup_, siftdown_, IInv, TypeOK
  <1>2. CASE heap' = heap
    BY <1>1, <1>2
  <1>3. CASE pc = "down" /\ 2*i + 1 < lim /\ SwapNode_(i, Child)
    <2>1. lim = size - 1 /\ i \in Nat
      BY <1>3 DEF HeapInv, Sinking, Bound, IInv, TypeOK
    <2>2. Child \in Nat /\ Child < lim /\ i \in 0..(size - 1) /\ Child \in 0..(size - 1)
          /\ i # size - 1 /\ Child # size - 1
      BY <1>1, <1>3, <2>1 DEF Child
    <2> QED BY <1>1, <1>3, <2>2, SwapCells
  <1>4. siftup_ => heap' = heap
    BY DEF siftup_, SiftUpRoot, SiftUpStep, Return, HeapInv, Rising, IInv, TypeOK
  <1>5. siftdown_ => heap' = heap \/ (pc = "down" /\ 2*i + 1 < lim /\ SwapNode_(i, Child))
    <2>1. i \in Nat /\ lim \in Nat
      BY DEF IInv, TypeOK
    <2> QED BY <2>1 DEF siftdown_, SiftDownEnd, Return
  <1> QED BY <1>2, <1>3, <1>4, <1>5

\* The root is what tick takes out, and it is the earliest.
LEMMA LeavingTick == ASSUME IInv, HeapInv, tick PROVE LeavingInv'
  <1> SUFFICES ASSUME ~back', Removing'
               PROVE  (/\ heap[size - 1].expires - now < Ms
                       /\ \A k \in 0..(size - 1) :
                            heap[size - 1].expires <= heap[k].expires)'
    BY DEF LeavingInv
  <1>1. pc = "tick" /\ next = "idle" /\ UNCHANGED <<now, back, size>> /\ ~back
    BY DEF tick, HeapInv, Rest
  <1>2. size > 0 /\ Remaining(0) <= 0 /\ del_
    BY <1>1 DEF tick, Removing, Locals
  <1>3. size \in Nat /\ 0 \in 0..(size - 1) /\ size - 1 \in 0..(size - 1) /\ OrderedTo(size)
    BY <1>1, <1>2 DEF HeapInv, Bound, IInv, TypeOK
  <1>4. /\ heap[0].expires - now < Ms
        /\ \A k \in 0..(size - 1) : heap[0].expires <= heap[k].expires
    BY <1>2, <1>3, DueFacts, RootEarliest DEF IInv
  <1>5. CASE size > 1
    <2>1. SwapNode_(0, size - 1)
      BY <1>2, <1>5 DEF del_
    <2>2. /\ heap'[size - 1] = heap[0]
          /\ \A k \in 0..(size - 1) : \E j \in 0..(size - 1) : heap'[k] = heap[j]
      BY <1>3, <2>1, SwapCells
    <2> QED BY <1>1, <1>4, <2>2
  <1>6. CASE ~(size > 1)
    <2>1. size = 1 /\ heap' = heap
      BY <1>2, <1>3, <1>6 DEF del_
    <2> QED BY <1>1, <1>4, <2>1
  <1> QED BY <1>5, <1>6

\* Every step keeps it: time makes a node that is due no less so.
LEMMA LeavingStep == ASSUME IInv, HeapInv, LeavingInv, [Next]_vars PROVE LeavingInv'
  <1>1. CASE tick
    BY <1>1, LeavingTick
  <1>2. CASE siftup_ \/ siftdown_
    <2> SUFFICES ASSUME ~back', Removing'
                 PROVE  (/\ heap[size - 1].expires - now < Ms
                         /\ \A k \in 0..(size - 1) :
                              heap[size - 1].expires <= heap[k].expires)'
      BY DEF LeavingInv
    <2>1. ~back /\ next = "erase"
      BY <1>2 DEF siftup_, SiftUpRoot, SiftUpStep, siftdown_, SiftDownEnd, Return, Locals,
                  Removing
    <2> QED BY <1>2, <2>1, SiftKeepsLast DEF LeavingInv, Removing
  <1>3. CASE Advance
    <2>1. UNCHANGED <<heap, size, back, pc, next>> /\ now' = now + 1 /\ now \in Int
      BY <1>3 DEF Advance, Locals, IInv, TypeOK
    <2>2. Removing => size - 1 \in 0..(size - 1)
      BY DEF Removing, HeapInv, Rest, IInv, TypeOK
    <2>3. Removing => heap[size - 1].expires \in Int
      BY <2>2, BeforeFacts DEF IInv
    <2>4. Removing' <=> Removing
      BY <2>1 DEF Removing
    <2>5. Removing /\ heap[size - 1].expires - now < Ms
            => heap[size - 1].expires - (now + 1) < Ms
      BY <2>1, <2>3, TimeAssumption
    <2> QED BY <2>1, <2>4, <2>5 DEF LeavingInv
  <1>4. CASE SetBack
    BY <1>4 DEF SetBack, LeavingInv
  <1>5. CASE \/ StartTick \/ GetNextTick \/ Erase
             \/ \E id \in Ids : AddNew(id) \/ AddExisting(id) \/ adjust(id)
    <2>1. ~Removing'
      BY <1>5 DEF StartTick, GetNextTick, Erase, AddNew, AddExisting, adjust, CallSift,
                  Locals, Removing, HeapInv, Rest
    <2> QED BY <2>1 DEF LeavingInv
  <1>6. CASE UNCHANGED vars
    BY <1>6 DEF vars, LeavingInv, Removing
  <1> QED BY <1>1, <1>2, <1>3, <1>4, <1>5, <1>6 DEF Next, Step

\* What the heap holds, as a table.
TableNow == [x \in DOMAIN ref |-> heap[ref[x]].expires]

\* Exchanging two nodes does not change what the heap holds.
LEMMA SwapTable ==
  ASSUME IInv, NEW a \in 0..(size - 1), NEW b \in 0..(size - 1), SwapNode_(a, b)
  PROVE  TableNow' = TableNow
  <1>1. /\ heap[a].id \in DOMAIN ref /\ heap[b].id \in DOMAIN ref
        /\ ref[heap[a].id] = a /\ ref[heap[b].id] = b
        /\ ref' = [ref EXCEPT ![heap[b].id] = a, ![heap[a].id] = b]
    BY DEF SwapNode_, IInv, TypeOK, RefExact
  <1>2. DOMAIN ref' = DOMAIN ref
    BY <1>1
  <1>3. /\ heap'[a] = heap[b] /\ heap'[b] = heap[a]
        /\ \A k \in 0..(size - 1) : k # a /\ k # b => heap'[k] = heap[k]
    BY SwapCells
  <1>4. ASSUME NEW x \in DOMAIN ref PROVE heap'[ref'[x]] = heap[ref[x]]
    <2>1. ref[x] \in 0..(size - 1) /\ heap[ref[x]].id = x
      BY DEF IInv, TypeOK, RefExact
    <2>2. CASE x = heap[a].id
      BY <1>1, <1>3, <2>2
    <2>3. CASE x = heap[b].id /\ x # heap[a].id
      BY <1>1, <1>3, <2>3
    <2>4. CASE x # heap[a].id /\ x # heap[b].id
      <3>1. ref'[x] = ref[x]
        BY <1>1, <2>4
      <3> QED BY <1>3, <2>1, <2>4, <3>1
    <2> QED BY <2>2, <2>3, <2>4
  <1> QED BY <1>2, <1>4 DEF TableNow

\* Sifts and tick leave the table alone.
LEMMA SiftTable ==
  ASSUME IInv, siftup_ \/ siftdown_ \/ tick
  PROVE  UNCHANGED <<now, TableNow>>
  <1>1. now' = now /\ size \in Nat
    BY DEF siftup_, siftdown_, tick, IInv, TypeOK
  <1>2. CASE heap' = heap /\ ref' = ref
    BY <1>1, <1>2 DEF TableNow
  <1>3. CASE siftup_ /\ SiftUpStep /\ SwapNode_(i, Parent(i))
    <2>1. i \in Nat \ {0} /\ i < size
      BY <1>3 DEF siftup_, SiftUpStep, IInv, TypeOK
    <2>2. i \in 0..(size - 1) /\ Parent(i) \in 0..(size - 1)
      BY <1>1, <2>1, ParentFacts
    <2> QED BY <1>1, <1>3, <2>2, SwapTable
  <1>4. CASE siftdown_ /\ 2*i + 1 < lim /\ SwapNode_(i, Child)
    <2>1. i \in 0..(size - 1) /\ Child \in 0..(size - 1)
      BY <1>1, <1>4 DEF siftdown_, Child, IInv, TypeOK
    <2> QED BY <1>1, <1>4, <2>1, SwapTable
  <1>5. CASE tick /\ size > 1 /\ SwapNode_(0, size - 1)
    <2>1. 0 \in 0..(size - 1) /\ size - 1 \in 0..(size - 1)
      BY <1>1, <1>5
    <2> QED BY <1>1, <1>5, <2>1, SwapTable
  <1>6. siftup_ => (heap' = heap /\ ref' = ref) \/ (SiftUpStep /\ SwapNode_(i, Parent(i)))
    BY DEF siftup_, SiftUpRoot, SiftUpStep, Return
  <1>7. siftdown_ => (heap' = heap /\ ref' = ref) \/ (2*i + 1 < lim /\ SwapNode_(i, Child))
    <2>1. i \in Nat /\ lim \in Nat
      BY DEF IInv, TypeOK
    <2> QED BY <2>1 DEF siftdown_, SiftDownEnd, Return
  <1>8. tick => (heap' = heap /\ ref' = ref) \/ (size > 1 /\ SwapNode_(0, size - 1))
    BY DEF tick, del_
  <1> QED BY <1>2, <1>3, <1>4, <1>5, <1>6, <1>7, <1>8

\* add and adjust set one entry.
LEMMA SetTable ==
  ASSUME IInv, NEW id \in Ids, AddNew(id) \/ AddExisting(id) \/ adjust(id)
  PROVE  Table!Set(id)
  <1>1. ASSUME AddNew(id) PROVE Table!Set(id)
    <2>1. /\ DOMAIN ref' = DOMAIN ref \union {id} /\ id \notin DOMAIN ref /\ now' = now
          /\ heap'[size].expires = Time /\ ref'[id] = size
          /\ \A k \in 0..(size - 1) : heap'[k] = heap[k]
          /\ \A x \in DOMAIN ref : ref'[x] = ref[x]
      BY <1>1 DEF AddNew, IInv, TypeOK
    <2>2. \A x \in DOMAIN ref : heap'[ref'[x]] = heap[ref[x]]
      BY <2>1 DEF IInv, TypeOK
    <2> QED BY <2>1, <2>2 DEF Table!Set, Time
  <1>2. ASSUME AddExisting(id) \/ adjust(id) PROVE Table!Set(id)
    <2> DEFINE r == ref[id]
    <2>1. /\ id \in DOMAIN ref /\ ref' = ref /\ now' = now
          /\ heap' = [heap EXCEPT ![r].expires = Time]
      BY <1>2 DEF AddExisting, adjust
    <2>2. r \in 0..(size - 1) /\ heap[r].id = id
      BY <2>1 DEF IInv, TypeOK, RefExact
    <2>3. heap'[r].expires = Time /\ \A k \in 0..(size - 1) : k # r => heap'[k] = heap[k]
      BY <2>1, <2>2 DEF IInv, TypeOK, Node
    <2>4. \A x \in DOMAIN ref : x # id => ref[x] \in 0..(size - 1) /\ ref[x] # r
      BY <2>1, <2>2 DEF IInv, TypeOK, RefExact
    <2>5. DOMAIN ref' = DOMAIN ref \union {id}
      BY <2>1
    <2>6. \A x \in DOMAIN ref : x # id => heap'[ref'[x]] = heap[ref[x]]
      BY <2>1, <2>3, <2>4
    <2> HIDE DEF r
    <2>7. ref'[id] = r
      BY <2>1 DEF r
    <2>8. TableNow' = [x \in DOMAIN ref \union {id} |->
                         IF x = id THEN now + Timeout ELSE TableNow[x]]
      BY <2>3, <2>5, <2>6, <2>7 DEF TableNow, Time
    <2>9. DOMAIN TableNow = DOMAIN ref
      BY DEF TableNow
    <2> QED BY <2>1, <2>8, <2>9 DEF Table!Set, TableNow
  <1> QED BY <1>1, <1>2

\* The last step of del_ takes out an earliest entry that is due.
LEMMA EraseTable ==
  ASSUME IInv, HeapInv, LeavingInv, Erase, ~back
  PROVE  \E id \in Ids : Table!Expire(id)
  <1>0. PICK gone \in Ids : gone = heap[size - 1].id
    BY DEF Erase, IInv, TypeOK, Node
  <1>1. /\ size - 1 \in 0..(size - 1) /\ gone \in DOMAIN ref /\ ref[gone] = size - 1
        /\ size \in Nat
    BY <1>0 DEF Erase, IInv, TypeOK, RefExact
  <1>2. /\ heap[size - 1].expires - now < Ms
        /\ \A k \in 0..(size - 1) : heap[size - 1].expires <= heap[k].expires
    BY DEF Erase, LeavingInv, Removing
  <1>3. \A x \in DOMAIN ref : ref[x] \in 0..(size - 1) /\ heap[ref[x]].id = x
    BY DEF IInv, TypeOK, RefExact
  <1>4. \A x \in DOMAIN ref \ {gone} : ref[x] \in 0..(size - 2)
    BY <1>1, <1>3
  <1>5. /\ now' = now /\ ref' = [x \in DOMAIN ref \ {gone} |-> ref[x]]
        /\ heap' = [k \in 0..(size - 2) |-> heap[k]]
    BY <1>0 DEF Erase
  <1>6. DOMAIN ref' = DOMAIN ref \ {gone}
        /\ \A x \in DOMAIN ref \ {gone} : heap'[ref'[x]] = heap[ref[x]]
    BY <1>4, <1>5
  <1>7. Table!Remove(gone)
    <2>1. TableNow' = [x \in DOMAIN ref \ {gone} |-> TableNow[x]]
      BY <1>6 DEF TableNow
    <2>2. DOMAIN TableNow = DOMAIN ref
      BY DEF TableNow
    <2> QED BY <1>1, <1>5, <2>1, <2>2 DEF Table!Remove, TableNow
  <1>8. Table!Expire(gone)
    BY <1>0, <1>1, <1>2, <1>3, <1>7 DEF Table!Expire, Table!IsDue
  <1> QED BY <1>8

\* Every step of the heap is a step of the table, or leaves it alone.
LEMMA TableStep ==
  ASSUME IInv, HeapInv, LeavingInv, [Next]_vars
  PROVE  [back' \/ Table!Next]_(Table!tableVars)
  <1> SUFFICES back' \/ Table!Next \/ UNCHANGED <<now, TableNow>>
    BY DEF Table!tableVars, TableNow
  <1>1. CASE \E id \in Ids : AddNew(id) \/ AddExisting(id) \/ adjust(id)
    BY <1>1, SetTable DEF Table!Next
  <1>2. CASE siftup_ \/ siftdown_ \/ tick
    BY <1>2, SiftTable
  <1>3. CASE Erase
    <2>1. back' = back
      BY <1>3 DEF Erase
    <2> QED BY <1>3, <2>1, EraseTable DEF Table!Next, IInv, TypeOK
  <1>4. CASE Advance
    <2>1. now' > now /\ TableNow' = TableNow
      BY <1>4 DEF Advance, TableNow, IInv, TypeOK
    <2> QED BY <2>1 DEF Table!Next, Table!Advance, TableNow
  <1>5. CASE SetBack
    BY <1>5 DEF SetBack
  <1>6. CASE StartTick \/ GetNextTick \/ UNCHANGED vars
    BY <1>6 DEF StartTick, GetNextTick, vars, TableNow
  <1> QED BY <1>1, <1>2, <1>3, <1>4, <1>5, <1>6 DEF Next, Step

\* What del_ takes out is due and earliest (heaptimer.cpp:99-112).
THEOREM LeavingInvariance == Spec => []LeavingInv
  <1>1. Init => LeavingInv
    BY DEF Init, LeavingInv, Removing
  <1>2. IInv /\ HeapInv /\ LeavingInv /\ [Next]_vars => LeavingInv'
    BY LeavingStep
  <1> QED BY <1>1, <1>2, Invariance, HeapInvariance, PTL DEF Spec

\* The heap behaves as the table of expiry times, for any number of timers and
\* as long as the clock is not set back: the heap of heaptimer.cpp does what
\* TimerTable says.
THEOREM TableCorrect == Spec => TableSpec
  <1>1. Init => Table!Init
    <2> SUFFICES ASSUME Init PROVE Table!Init
      OBVIOUS
    <2>1. now = 0 /\ DOMAIN ref = {}
      BY DEF Init
    <2> QED BY <2>1 DEF Table!Init
  <1>2. IInv /\ HeapInv /\ LeavingInv /\ [Next]_vars => [back' \/ Table!Next]_(Table!tableVars)
    BY TableStep
  <1> QED BY <1>1, <1>2, Invariance, HeapInvariance, LeavingInvariance, PTL DEF Spec, TableSpec
-----------------------------------------------------------------------------
(* What CallsReturn rests on, whatever the fairness: no call goes round for  *)
(* ever.                                                                     *)

\* An upper bound on the steps until the call returns or tick() removes a node:
\* siftdown_ goes down, siftup_ comes up, and each passes an index once.
Stage ==
  CASE pc = "tick" -> 2 * size + 3
    [] pc = "down" -> 2 * size + 2 - i
    [] pc = "up" -> 2 + i
    [] pc \in {"erase", "measure"} -> 1
    [] OTHER -> 0

\* Each step of a call fails an assertion, removes a node, or brings the call
\* nearer to its end; the clock can do nothing to it.
CallsShorten ==
  /\ Step => abort' \/ size' < size \/ (size' = size /\ Stage' < Stage)
  /\ pc # "idle" /\ ~Step => UNCHANGED <<size, pc, Stage>>

\* The stage by the place of the call.
StageIs ==
  /\ pc = "idle" => Stage = 0
  /\ pc \in {"erase", "measure"} => Stage = 1
  /\ pc = "up" => Stage = 2 + i
  /\ pc = "down" => Stage = 2 * size + 2 - i
  /\ pc = "tick" => Stage = 2 * size + 3

LEMMA StageByPlace == StageIs /\ StageIs'
  BY DEF StageIs, Stage

\* The stage is a natural number, and 0 between calls only.
LEMMA StageFacts == ASSUME TypeOK PROVE Stage \in Nat /\ (Stage = 0 <=> pc = "idle")
  <1>1. size \in Nat /\ i \in Nat
    BY DEF TypeOK
  <1>2. CASE pc = "tick"
    BY <1>1, <1>2, StageByPlace DEF StageIs
  <1>3. CASE pc = "down"
    <2>1. i < size
      BY <1>3 DEF TypeOK
    <2>2. Stage = 2 * size + 2 - i
      BY <1>3, StageByPlace DEF StageIs
    <2> QED BY <1>1, <1>3, <2>1, <2>2
  <1>4. CASE pc = "up"
    BY <1>1, <1>4, StageByPlace DEF StageIs
  <1>5. CASE pc \in {"erase", "measure"}
    BY <1>5, StageByPlace DEF StageIs
  <1>6. CASE pc = "idle"
    BY <1>6, StageByPlace DEF StageIs
  <1> QED BY <1>2, <1>3, <1>4, <1>5, <1>6 DEF TypeOK

\* Every call of the heap comes to its end in finitely many steps, for any number
\* of timers and whatever the clock does (heaptimer.cpp:8-44, 99-118): siftdown_
\* never goes back to an index, and siftup_, which may follow it, starts where it
\* began.
THEOREM CallsShortenCorrect == Spec => [][CallsShorten]_vars
  <1>1. IInv /\ IInv' /\ [Next]_vars => CallsShorten \/ UNCHANGED vars
    <2> SUFFICES ASSUME IInv, IInv', Next PROVE CallsShorten
      OBVIOUS
    <2>0. /\ i \in Nat /\ size \in Nat /\ i' \in Nat /\ size' \in Nat
          /\ next \in {"idle", "erase"}
      BY DEF IInv, TypeOK
    <2>1. CASE siftup_
      <3>1. pc = "up" /\ Stage = 2 + i
        BY <2>1, StageByPlace DEF siftup_, StageIs
      <3>2. CASE size' = size /\ pc' = next
        <4>1. Stage' = 0 \/ Stage' = 1
          BY <2>0, <3>2, StageByPlace DEF StageIs
        <4>2. Stage' < Stage
          BY <2>0, <3>1, <4>1
        <4> QED BY <2>1, <3>2, <4>2 DEF CallsShorten, Step
      <3>3. CASE abort'
        BY <2>1, <3>3 DEF CallsShorten, Step
      <3>4. CASE SiftUpRoot
        <4>1. size' = size /\ (abort' \/ pc' = next)
          BY <2>1, <3>4 DEF siftup_, SiftUpRoot, Return, IInv, TypeOK
        <4> QED BY <3>2, <3>3, <4>1
      <3>5. CASE SiftUpStep
        <4>1. Parent(i) \in Nat /\ Parent(i) < i
          BY <2>0, <3>5, ParentFacts DEF SiftUpStep
        <4>2. size' = size /\ (pc' = next \/ (pc' = "up" /\ i' = Parent(i)))
          BY <2>1, <3>5 DEF siftup_, SiftUpStep, Return, IInv, TypeOK
        <4>3. CASE pc' = "up" /\ i' = Parent(i)
          <5>1. Stage' = 2 + i'
            BY <4>3, StageByPlace DEF StageIs
          <5>2. Stage' < Stage
            BY <2>0, <3>1, <4>1, <4>3, <5>1
          <5> QED BY <2>1, <4>2, <5>2 DEF CallsShorten, Step
        <4> QED BY <3>2, <4>2, <4>3
      <3> QED BY <2>1, <3>4, <3>5 DEF siftup_
    <2>2. CASE siftdown_
      <3>1. i < size /\ size' = size /\ pc = "down"
        BY <2>2 DEF siftdown_, IInv, TypeOK
      <3>2. Stage = 2 * size + 2 - i
        BY <3>1, StageByPlace DEF StageIs
      <3>3. CASE pc' = next
        <4>1. Stage' = 0 \/ Stage' = 1
          BY <2>0, <3>3, StageByPlace DEF StageIs
        <4>2. Stage' < Stage
          BY <2>0, <3>1, <3>2, <4>1
        <4> QED BY <2>2, <3>1, <4>2 DEF CallsShorten, Step
      <3>4. CASE pc' = "up" /\ i' = i
        <4>1. Stage' = 2 + i
          BY <3>4, StageByPlace DEF StageIs
        <4>2. Stage' < Stage
          BY <2>0, <3>1, <3>2, <4>1
        <4> QED BY <2>2, <3>1, <4>2 DEF CallsShorten, Step
      <3>5. CASE pc' = pc /\ i' = Child
        <4>1. i' = 2*i + 1 \/ i' = 2*i + 2
          BY <3>5 DEF Child
        <4>2. i' > i
          BY <2>0, <4>1
        <4>3. Stage' = 2 * size + 2 - i'
          BY <3>1, <3>5, StageByPlace DEF StageIs
        <4>4. \A m, x, y \in Nat : y > x => 2 * m + 2 - y < 2 * m + 2 - x
          OBVIOUS
        <4>5. Stage' < Stage
          BY ONLY <2>0, <3>2, <4>2, <4>3, <4>4
        <4> QED BY <2>2, <3>1, <4>5 DEF CallsShorten, Step
      <3> QED BY <2>2, <3>3, <3>4, <3>5 DEF siftdown_, SiftDownEnd, Return, Locals
    <2>3. CASE Erase
      BY <2>3 DEF Erase, CallsShorten, Step, IInv, TypeOK
    <2>4. CASE tick
      <3>1. pc = "tick" /\ size' = size
            /\ (abort' \/ pc' \in {"erase", "measure"} \/ (pc' = "down" /\ i' = 0))
        BY <2>4 DEF tick, del_, CallSift
      <3>2. Stage = 2 * size + 3
        BY <3>1, StageByPlace DEF StageIs
      <3>3. pc' \in {"erase", "measure"} => Stage' = 1
        BY StageByPlace DEF StageIs
      <3>4. pc' = "down" /\ i' = 0 => Stage' = 2 * size + 2
        BY <2>0, <3>1, StageByPlace DEF StageIs
      <3>5. abort' \/ Stage' < Stage
        BY <2>0, <3>1, <3>2, <3>3, <3>4
      <3> QED BY <2>4, <3>1, <3>5 DEF CallsShorten, Step
    <2>5. CASE GetNextTick
      <3>1. pc = "measure" /\ pc' = "idle" /\ size' = size
        BY <2>5 DEF GetNextTick
      <3>2. Stage = 1 /\ Stage' = 0
        BY <3>1, StageByPlace DEF StageIs
      <3> QED BY <2>5, <3>1, <3>2 DEF CallsShorten, Step
    <2>6. CASE Advance \/ SetBack
      <3>1. UNCHANGED <<size, pc, i>>
        BY <2>6 DEF Advance, SetBack, Locals
      <3>2. ~Step
        BY <2>6, <3>1 DEF Advance, SetBack, Step, siftup_, siftdown_, Erase, tick, GetNextTick,
                          IInv, TypeOK
      <3> QED BY <3>1, <3>2 DEF CallsShorten, Stage
    <2>7. CASE StartTick \/ \E id \in Ids : AddNew(id) \/ AddExisting(id) \/ adjust(id)
      <3>1. pc = "idle"
        BY <2>7 DEF StartTick, AddNew, AddExisting, adjust
      <3>2. ~Step
        BY <3>1 DEF Step, siftup_, siftdown_, Erase, tick, GetNextTick
      <3> QED BY <3>1, <3>2 DEF CallsShorten
    <2> QED BY <2>1, <2>2, <2>3, <2>4, <2>5, <2>6, <2>7 DEF Next, Step
  <1>2. IInv /\ [Next]_vars => IInv'
    BY NextInv
  <1> QED BY <1>1, <1>2, Invariance, PTL DEF Spec
=============================================================================
