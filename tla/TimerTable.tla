----------------------------- MODULE TimerTable -----------------------------
(* What HeapTimer promises to the server: a table of expiry times.  A node   *)
(* leaves it in the order of expiry and only when its time has come.         *)
EXTENDS Integers

CONSTANTS Ids,       \* descriptors
          Timeout,   \* timeoutMS_
          Ms         \* clock units per millisecond

VARIABLES now,       \* Clock::now()
          table      \* expiry time of every id that has a timer

tableVars == <<now, table>>

\* duration_cast<MS>(t - now).count() <= 0, which rounds towards zero.
IsDue(t) == t - now < Ms

Init == now = 0 /\ table = [x \in {} |-> 0]

Advance == now' > now /\ UNCHANGED table

Set(id) ==
  /\ table' = [x \in DOMAIN table \union {id} |->
                 IF x = id THEN now + Timeout ELSE table[x]]
  /\ UNCHANGED now

Remove(id) ==
  /\ id \in DOMAIN table
  /\ table' = [x \in DOMAIN table \ {id} |-> table[x]]
  /\ UNCHANGED now

Expire(id) ==
  /\ id \in DOMAIN table /\ IsDue(table[id])
  /\ \A x \in DOMAIN table : table[id] <= table[x]
  /\ Remove(id)

Next == Advance \/ \E id \in Ids : Set(id) \/ Expire(id)

Spec == Init /\ [][Next]_tableVars
=============================================================================
