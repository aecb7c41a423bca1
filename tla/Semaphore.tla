----------------------------- MODULE Semaphore -----------------------------
(***************************************************************************)
(* sync::CountingSemaphore (sync/semaphore.hpp).  mutex_ is a sync::Mutex, *)
(* taken here at its promise, FifoLock (see Mutex!ImplementsFifoLock); what*)
(* is done under it is one step, its unlock included.                      *)
(***************************************************************************)
EXTENDS Integers, Sequences, FiniteSets, FiniteSetsExt

CONSTANTS Coros, Nobody,
          Initial,  \* the count the semaphore is made with
          Most      \* how many permits each coroutine collects at most

VARIABLES owner, queue,  \* mutex_
          count,         \* count_, negative while coroutines wait
          awaiters,      \* awaiters_
          pc, update,    \* where each coroutine is, and what it releases
          held           \* history: the permits each coroutine has

lockVars == <<owner, queue>>
vars == <<lockVars, count, awaiters, pc, update, held>>

mutex == INSTANCE FifoLock

Init ==
  /\ mutex!Init
  /\ count = Initial
  /\ awaiters = <<>>
  /\ pc = [c \in Coros |-> "out"]
  /\ update = [c \in Coros |-> 0]
  /\ held = [c \in Coros |-> 0]

Goto(c, label) == pc' = [pc EXCEPT ![c] = label]

\* co_await mutex_.lock() of acquire and of release(n)
AcquireLock(c) ==
  /\ pc[c] = "out"
  /\ held[c] < Most[c]
  /\ mutex!Lock(c)
  /\ Goto(c, "acquire")
  /\ UNCHANGED <<count, awaiters, update, held>>

ReleaseLock(c) ==
  /\ pc[c] = "out"
  /\ mutex!Lock(c)
  /\ \E n \in 1..held[c] : update' = [update EXCEPT ![c] = n]
  /\ Goto(c, "release")
  /\ UNCHANGED <<count, awaiters, held>>

-----------------------------------------------------------------------------
\* mutant: the last permit is not given away
AcquireAboveZero(c) ==
  /\ pc[c] = "acquire"
  /\ count' = count - 1
  /\ IF count > 1
     THEN /\ held' = [held EXCEPT ![c] = @ + 1]
          /\ Goto(c, "out")
          /\ UNCHANGED awaiters
     ELSE /\ awaiters' = Append(awaiters, c)
          /\ Goto(c, "suspended")
          /\ UNCHANGED held
  /\ mutex!Release(c)
  /\ UNCHANGED update

\* acquire under mutex_: take a permit, or a debt and a place in the list.
acquire(c) ==
  /\ pc[c] = "acquire"
  /\ count' = count - 1
  /\ IF count' >= 0
     THEN /\ held' = [held EXCEPT ![c] = @ + 1]
          /\ Goto(c, "out")
          /\ UNCHANGED awaiters
     ELSE /\ awaiters' = Append(awaiters, c)
          /\ Goto(c, "suspended")
          /\ UNCHANGED held
  /\ mutex!Release(c)
  /\ UNCHANGED update

\* release(update) under mutex_: pay the debts of the oldest awaiters.
release(c) ==
  LET n == Min({update[c], Len(awaiters)})
  IN  /\ pc[c] = "release"
      /\ count' = count + update[c]
      /\ awaiters' = SubSeq(awaiters, n + 1, Len(awaiters))
      /\ pc' = [d \in Coros |-> IF d = c THEN "out"
                                ELSE IF \E i \in 1..n : awaiters[i] = d THEN "scheduled"
                                ELSE pc[d]]
      /\ held' = [held EXCEPT ![c] = @ - update[c]]
      /\ update' = [update EXCEPT ![c] = 0]
      /\ mutex!Release(c)

\* A worker resumes the awaiter, and acquire returns.
Resume(c) ==
  /\ pc[c] = "scheduled"
  /\ held' = [held EXCEPT ![c] = @ + 1]
  /\ Goto(c, "out")
  /\ UNCHANGED <<lockVars, count, awaiters, update>>

-----------------------------------------------------------------------------
Next == \E c \in Coros :
  AcquireLock(c) \/ ReleaseLock(c) \/ acquire(c) \/ release(c) \/ Resume(c)

Spec == Init /\ [][Next]_vars

\* A coroutine that is resumed runs, and one that has permits and waits for
\* nothing gives some back.
FairSpec ==
  /\ Spec
  /\ \A c \in Coros : /\ WF_vars(acquire(c)) /\ WF_vars(release(c)) /\ WF_vars(Resume(c))
                      /\ WF_vars(ReleaseLock(c))

-----------------------------------------------------------------------------
\* The variables keep their types; the count stays between a debt for every
\* coroutine and what it was at first.
TypeOK ==
  /\ owner \in Coros \cup {Nobody} /\ queue \in Seq(Coros)
  /\ count \in -Cardinality(Coros)..Initial
  /\ awaiters \in Seq(Coros)
  /\ pc \in [Coros -> {"out", "acquire", "release", "suspended", "scheduled"}]
  /\ update \in [Coros -> Nat]
  /\ held \in [Coros -> Nat]

\* The permits that are out: a scheduled awaiter has one already.
PermitsOut ==
  MapThenSumSet(LAMBDA c : held[c] + (IF pc[c] = "scheduled" THEN 1 ELSE 0), Coros)

\* No more permits are out than the semaphore was made with, and none is lost:
\* those missing from count_ are out or are the debts of the awaiters
\* (semaphore.hpp:53, 65-72).
PermitsConserved ==
  /\ PermitsOut <= Initial
  /\ PermitsOut = Initial - count - Len(awaiters)
  /\ Len(awaiters) = Max({0, -count})

\* Every acquire returns: release finds the awaiters in the order they came.
EveryAcquireReturns == \A c \in Coros : pc[c] \in {"acquire", "suspended"} ~> pc[c] = "out"
=============================================================================
