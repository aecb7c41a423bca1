---------------------------- MODULE BoundedQueue ----------------------------
(***************************************************************************)
(* What util::HeapRingBuffer promises: a first-in first-out queue of at    *)
(* most cap values, whose capacity can be changed to anything its contents *)
(* fit in.  ret is what the last operation returned.                       *)
(***************************************************************************)
EXTENDS Naturals, Sequences

CONSTANTS Values, Capacities, NoValue

VARIABLES queue, cap, ret

queueVars == <<queue, cap, ret>>

Init == queue = <<>> /\ cap \in Capacities /\ ret = NoValue

Push(v) ==
  \/ Len(queue) < cap /\ queue' = Append(queue, v) /\ ret' = TRUE /\ UNCHANGED cap
  \/ Len(queue) = cap /\ ret' = FALSE /\ UNCHANGED <<queue, cap>>

Pop ==
  \/ queue # <<>> /\ ret' = Head(queue) /\ queue' = Tail(queue) /\ UNCHANGED cap
  \/ queue = <<>> /\ ret' = NoValue /\ UNCHANGED <<queue, cap>>

Resize(c) ==
  \/ Len(queue) <= c /\ cap' = c /\ ret' = TRUE /\ UNCHANGED queue
  \/ Len(queue) > c /\ ret' = FALSE /\ UNCHANGED <<queue, cap>>

Next == Pop \/ (\E v \in Values : Push(v)) \/ \E c \in Capacities : Resize(c)

Spec == Init /\ [][Next]_queueVars
=============================================================================
