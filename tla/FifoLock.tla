------------------------------ MODULE FifoLock ------------------------------
(***************************************************************************)
(* What sync::Mutex promises: one owner at a time, and the coroutines that *)
(* found the lock taken become its owner in the order they queued up, by   *)
(* direct hand-off.  Mutex implements it; the components that are built on *)
(* a sync::Mutex use it in its place.                                      *)
(***************************************************************************)
EXTENDS Naturals, Sequences

CONSTANTS Coros,   \* the coroutines
          Nobody   \* the owner of a free lock

VARIABLES owner, queue

lockVars == <<owner, queue>>

Init == owner = Nobody /\ queue = <<>>

Acquire(c) ==
  /\ owner = Nobody
  /\ owner' = c
  /\ UNCHANGED queue

Enqueue(c) ==
  /\ owner # Nobody
  /\ queue' = Append(queue, c)
  /\ UNCHANGED owner

Lock(c) == Acquire(c) \/ Enqueue(c)

Release(c) ==
  /\ owner = c
  /\ IF queue = <<>>
     THEN owner' = Nobody /\ UNCHANGED queue
     ELSE owner' = Head(queue) /\ queue' = Tail(queue)

Next == \E c \in Coros : Lock(c) \/ Release(c)

Spec == Init /\ [][Next]_lockVars
=============================================================================
