----------------------------- MODULE TaskQueue -----------------------------
(* What ThreadPool promises: tasks are started in the order they were added, *)
(* each of them once, by any number of threads at a time.                    *)
EXTENDS Integers, Sequences

CONSTANTS Workers, Tasks, None

VARIABLES added, started, running

queueVars == <<added, started, running>>

Init == added = << >> /\ started = 0 /\ running = [w \in Workers |-> None]

Add(t) ==
  /\ \A k \in 1..Len(added) : added[k] # t
  /\ added' = Append(added, t) /\ UNCHANGED <<started, running>>

Start(w) ==
  /\ running[w] = None /\ started < Len(added)
  /\ started' = started + 1
  /\ running' = [running EXCEPT ![w] = added[started']]
  /\ UNCHANGED added

End(w) ==
  /\ running[w] # None
  /\ running' = [running EXCEPT ![w] = None] /\ UNCHANGED <<added, started>>

Next == (\E t \in Tasks : Add(t)) \/ \E w \in Workers : Start(w) \/ End(w)

Spec == Init /\ [][Next]_queueVars
=============================================================================
