------------------------------- MODULE Mutex -------------------------------
(***************************************************************************)
(* sync::Mutex (sync/mutex.hpp): lock, unlock and try_lock by coroutines   *)
(* that run on different workers.                                          *)
(*                                                                         *)
(* state_ is one atomic pointer: Unlocking ("this"), Locking (nullptr) or  *)
(* the head of the list of awaiters, linked through next_.  The list is a  *)
(* sequence here, newest first; a compare_exchange compares its head.      *)
(***************************************************************************)
EXTENDS Integers, Sequences, SequencesExt

CONSTANTS Coros,   \* coroutines that lock and unlock, again and again
          Nobody, Unlocking, Locking

ASSUME CorosAssumption ==
  /\ Nobody \notin Coros /\ Unlocking \notin Coros /\ Locking \notin Coros
  /\ Unlocking # Locking

VARIABLES free,   \* state_ == this
          lifo,   \* the awaiters state_ points to
          fifo,   \* fifo_awaiters_
          pc,     \* where each coroutine is
          snap,   \* the value of state_ it loaded
          owner   \* history: the coroutine the lock was last granted to

vars == <<free, lifo, fifo, pc, snap, owner>>

state == IF free THEN Unlocking ELSE IF lifo = <<>> THEN Locking ELSE Head(lifo)

Init ==
  /\ free = TRUE
  /\ lifo = <<>>
  /\ fifo = <<>>
  /\ pc = [c \in Coros |-> "out"]
  /\ snap = [c \in Coros |-> Unlocking]
  /\ owner = Nobody

Goto(c, label) == pc' = [pc EXCEPT ![c] = label]

\* Awaiter::await_suspend: load state_...
LockLoad(c) ==
  /\ pc[c] = "out"
  /\ snap' = [snap EXCEPT ![c] = state]
  /\ Goto(c, "lock")
  /\ UNCHANGED <<free, lifo, fifo, owner>>

\* mutant: a store where the code has a compare_exchange
LockStore(c) ==
  /\ pc[c] = "lock"
  /\ snap[c] = Unlocking
  /\ free' = FALSE
  /\ owner' = c
  /\ Goto(c, "in")
  /\ UNCHANGED <<lifo, fifo, snap>>

\* ...take the lock if it was free...
LockFree(c) ==
  /\ pc[c] = "lock"
  /\ snap[c] = Unlocking /\ state = Unlocking
  /\ free' = FALSE
  /\ owner' = c
  /\ Goto(c, "in")
  /\ UNCHANGED <<lifo, fifo, snap>>

\* ...or become the head of the list and stay suspended.
LockEnqueue(c) ==
  /\ pc[c] = "lock"
  /\ snap[c] # Unlocking /\ state = snap[c]
  /\ lifo' = <<c>> \o lifo
  /\ Goto(c, "waiting")
  /\ UNCHANGED <<free, fifo, snap, owner>>

\* A failed (or spuriously failed) exchange loads state_ again.
LockRetry(c) ==
  /\ pc[c] = "lock"
  /\ snap' = [snap EXCEPT ![c] = state]
  /\ UNCHANGED <<free, lifo, fifo, pc, owner>>

-----------------------------------------------------------------------------
\* try_lock: load, then compare_exchange_strong from whatever was loaded.
TryLoad(c) ==
  /\ pc[c] = "out"
  /\ snap' = [snap EXCEPT ![c] = state]
  /\ Goto(c, "try_lock")
  /\ UNCHANGED <<free, lifo, fifo, owner>>

TryCas(c) ==
  /\ pc[c] = "try_lock"
  /\ IF state = snap[c]
     THEN /\ free' = FALSE
          /\ lifo' = <<>>
          /\ owner' = c
          /\ Goto(c, "in")
     ELSE Goto(c, "out") /\ UNCHANGED <<free, lifo, owner>>
  /\ UNCHANGED <<fifo, snap>>

-----------------------------------------------------------------------------
\* unlock.  Without ordered awaiters and without new ones it frees the lock;
\* the load and the exchange of state_ are one step, only the owner empties
\* the list.
UnlockFree(c) ==
  /\ pc[c] = "in"
  /\ fifo = <<>> /\ state = Locking
  /\ free' = TRUE
  /\ owner' = Nobody
  /\ Goto(c, "out")
  /\ UNCHANGED <<lifo, fifo, snap>>

UnlockSeesAwaiters(c) ==
  /\ pc[c] = "in"
  /\ fifo = <<>> /\ state # Locking
  /\ Goto(c, "exchange")
  /\ UNCHANGED <<free, lifo, fifo, snap, owner>>

\* mutants: the list is kept newest first; the loop stops after one awaiter
UnlockUnreversed(c) ==
  /\ pc[c] = "exchange"
  /\ free' = FALSE
  /\ lifo' = <<>>
  /\ fifo' = lifo
  /\ Goto(c, "schedule")
  /\ UNCHANGED <<snap, owner>>

UnlockOneAwaiter(c) ==
  /\ pc[c] = "exchange"
  /\ free' = FALSE
  /\ lifo' = <<>>
  /\ fifo' = <<Head(lifo)>>
  /\ Goto(c, "schedule")
  /\ UNCHANGED <<snap, owner>>

\* state_.exchange(locking_state()) and the reversal of the list
UnlockExchange(c) ==
  /\ pc[c] = "exchange"
  /\ free' = FALSE
  /\ lifo' = <<>>
  /\ fifo' = Reverse(lifo)
  /\ Goto(c, "schedule")
  /\ UNCHANGED <<snap, owner>>

UnlockOrdered(c) ==
  /\ pc[c] = "in"
  /\ fifo # <<>>
  /\ Goto(c, "schedule")
  /\ UNCHANGED <<free, lifo, fifo, snap, owner>>

\* schedule_local(fifo_awaiters_->handle_): the oldest awaiter owns the lock
\* now, and waits in run_next_ of this worker...
UnlockSchedule(c) ==
  /\ pc[c] = "schedule"
  /\ owner' = Head(fifo)
  /\ pc' = [pc EXCEPT ![c] = "pop", ![Head(fifo)] = "ready"]
  /\ UNCHANGED <<free, lifo, fifo, snap>>

\* ...until this coroutine has stepped over it and suspends.
UnlockPop(c) ==
  /\ pc[c] = "pop"
  /\ fifo' = Tail(fifo)
  /\ Goto(c, "out")
  /\ UNCHANGED <<free, lifo, snap, owner>>

Resume(c) ==
  /\ pc[c] = "ready"
  /\ \A d \in Coros : pc[d] = "pop" => Head(fifo) # c
  /\ Goto(c, "in")
  /\ UNCHANGED <<free, lifo, fifo, snap, owner>>

-----------------------------------------------------------------------------
LockStep(c) == LockLoad(c) \/ LockFree(c) \/ LockEnqueue(c) \/ LockRetry(c)
TryStep(c) == TryLoad(c) \/ TryCas(c)
UnlockStep(c) ==
  \/ UnlockFree(c) \/ UnlockSeesAwaiters(c) \/ UnlockExchange(c) \/ UnlockOrdered(c)
  \/ UnlockSchedule(c) \/ UnlockPop(c)

Next == \E c \in Coros : LockStep(c) \/ UnlockStep(c) \/ Resume(c)

Spec == Init /\ [][Next]_vars

\* A coroutine that has the lock gives it back, and one that is resumed runs.
Fairness == \A c \in Coros : WF_vars(UnlockStep(c)) /\ WF_vars(Resume(c))

FairSpec == Spec /\ Fairness

\* The same coroutines, some of them calling try_lock.
TrySpec == Init /\ [][Next \/ \E c \in Coros : TryStep(c)]_vars

-----------------------------------------------------------------------------
\* The coroutine is between lock() and the end of unlock()'s hand-off.
Holds(c) == pc[c] \in {"ready", "in", "exchange", "schedule"}

Labels == {"out", "lock", "try_lock", "waiting", "ready", "in", "exchange",
           "schedule", "pop"}

\* The variables keep their types.
TypeOK ==
  /\ free \in BOOLEAN
  /\ lifo \in Seq(Coros)
  /\ fifo \in Seq(Coros)
  /\ pc \in [Coros -> Labels]
  /\ snap \in [Coros -> Coros \cup {Unlocking, Locking}]
  /\ owner \in Coros \cup {Nobody}

\* Two coroutines never hold the lock together.
MutualExclusion == \A c, d \in Coros : Holds(c) /\ Holds(d) => c = d

\* The assertions of unlock (mutex.hpp:89, 106, 113): the lock is not free
\* while it is being unlocked, and the exchange finds at least one awaiter.
UnlockAsserts ==
  \A c \in Coros :
    /\ pc[c] \in {"in", "exchange"} => ~free
    /\ pc[c] = "exchange" => lifo # <<>>
    /\ pc[c] = "schedule" => fifo # <<>>

\* The awaiters that are queued, oldest first: an awaiter that is scheduled
\* but not yet stepped over is not queued any more.
Queued ==
  (IF \E c \in Coros : pc[c] = "pop" THEN Tail(fifo) ELSE fifo) \o Reverse(lifo)

\* No awaiter is lost or resumed twice: a coroutine waits exactly if it is in
\* one of the two lists, once.
AwaitersQueued ==
  /\ \A c \in Coros : pc[c] = "waiting" <=> \E i \in DOMAIN Queued : Queued[i] = c
  /\ \A i, j \in DOMAIN Queued : Queued[i] = Queued[j] => i = j

\* The promise: first come, first served.
Promise == INSTANCE FifoLock WITH queue <- Queued
ImplementsFifoLock == Promise!Spec

\* An awaiter is granted the lock in the end, whoever else comes and goes.
EveryAwaiterGranted == \A c \in Coros : pc[c] = "waiting" ~> pc[c] = "in"
=============================================================================
