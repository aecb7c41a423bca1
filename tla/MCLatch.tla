------------------------------ MODULE MCLatch ------------------------------
(***************************************************************************)
(* An instance of Latch for TLC: two coroutines that arrive and wait, one  *)
(* of them counting for two, one that only waits, one that only counts.    *)
(***************************************************************************)
EXTENDS Latch, FiniteSets

CONSTANTS a1, a2, waiter, counter

Everybody == {a1, a2, waiter, counter}
Updates == [c \in Everybody |-> IF c = waiter THEN 0 ELSE IF c = a2 THEN 2 ELSE 1]
WhoWaits == {a1, a2, waiter}
=============================================================================
