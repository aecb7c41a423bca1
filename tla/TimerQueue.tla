----------------------------- MODULE TimerQueue -----------------------------
(***************************************************************************)
(* What the timer of a worker promises, without the wheel that implements  *)
(* it: a set of entries with the time they are due.  When expired entries  *)
(* are handled, every entry that is due has fired, and an entry fires less *)
(* than a millisecond (TicksPerMs ticks of the clock) early.               *)
(***************************************************************************)
EXTENDS Integers, Functions

CONSTANTS Entries, TicksPerMs,
          MaxTime     \* bound on the times entries are due

VARIABLES now,        \* the clock
          pending,    \* the entries of the timer and the time each one is due
          fired       \* the entries that have been executed

Init == now = 0 /\ pending = <<>> /\ fired = {}

Tick == now' = now + 1 /\ UNCHANGED <<pending, fired>>

Add(e, due) ==
  /\ e \notin DOMAIN pending /\ due > now
  /\ pending' = [f \in DOMAIN pending \cup {e} |-> IF f = e THEN due ELSE pending[f]]
  /\ fired' = fired \ {e} /\ UNCHANGED now

Remove(e) ==
  /\ e \in DOMAIN pending
  /\ pending' = Restrict(pending, DOMAIN pending \ {e})
  /\ UNCHANGED <<now, fired>>

Expire(gone) ==
  /\ \A e \in DOMAIN pending : pending[e] <= now => e \in gone
  /\ \A e \in gone : pending[e] < now + TicksPerMs
  /\ pending' = Restrict(pending, DOMAIN pending \ gone)
  /\ fired' = fired \cup gone /\ UNCHANGED now

Next ==
  \/ Tick
  \/ \E e \in Entries :
       Remove(e) \/ \E due \in 1..MaxTime : Add(e, due)
  \/ \E gone \in SUBSET DOMAIN pending : Expire(gone)

Spec == Init /\ [][Next]_<<now, pending, fired>>
=============================================================================
