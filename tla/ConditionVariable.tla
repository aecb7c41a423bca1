------------------------- MODULE ConditionVariable -------------------------
(***************************************************************************)
(* sync::ConditionVariable (sync/condition_variable.hpp): awaiters_ is a   *)
(* lock-free stack that wait() pushes to under the caller's mutex and that *)
(* the notifications pop from, under the mutex or not.  The mutex is taken *)
(* at its promise, FifoLock.                                               *)
(*                                                                         *)
(* The clients are those of tests/condition_variable_test.cpp: consumers   *)
(* wait until there is an item and take it, producers add an item under    *)
(* the mutex and notify.  A coroutine's Awaiter lives in its frame, at the *)
(* same address every time it waits, so the coroutine stands for it.       *)
(***************************************************************************)
EXTENDS Integers, Sequences, FiniteSets

CONSTANTS Consumers, Producers,
          Locked,     \* the producers that notify before they unlock
          Nobody,     \* the owner of a free lock
          Null,       \* nullptr
          MaxItems    \* bound: items produced

Coros == Consumers \cup Producers

VARIABLES owner, queue,  \* the mutex
          head,          \* awaiters_
          next,          \* next_ of each awaiter
          pc,
          cur, nxt,      \* the notifiers' local variables
          unlocking,     \* coroutines whose await_suspend has still to unlock
          items, made    \* what the predicate is about

lockVars == <<owner, queue>>
cvVars == <<head, next>>
itemVars == <<items, made>>
vars == <<lockVars, cvVars, pc, cur, nxt, unlocking, itemVars>>

mutex == INSTANCE FifoLock

Init ==
  /\ mutex!Init
  /\ head = Null
  /\ next = [c \in Coros |-> Null]
  /\ pc = [c \in Coros |-> "out"]
  /\ cur = [p \in Producers |-> Null]
  /\ nxt = [p \in Producers |-> Null]
  /\ unlocking = {}
  /\ items = 0
  /\ made = 0

Goto(c, label) == pc' = [pc EXCEPT ![c] = label]

\* The coroutine was granted the mutex, by lock() or by somebody's unlock().
HasLock(c) == owner = c /\ c \notin unlocking

-----------------------------------------------------------------------------
\* wait(mutex, predicate), entered with the mutex locked
WaitLock(c) ==
  /\ pc[c] \in {"out", "scheduled"}
  /\ mutex!Lock(c)
  /\ Goto(c, "wait")
  /\ UNCHANGED <<cvVars, cur, nxt, unlocking, itemVars>>

\* The predicate holds: wait returns, the item is taken, the mutex unlocked.
WaitDone(c) ==
  /\ pc[c] = "wait" /\ HasLock(c)
  /\ items > 0
  /\ items' = items - 1
  /\ mutex!Release(c)
  /\ Goto(c, "out")
  /\ UNCHANGED <<cvVars, cur, nxt, unlocking, made>>

\* It does not: await_suspend pushes the awaiter...
WaitPush(c) ==
  /\ pc[c] = "wait" /\ HasLock(c)
  /\ items = 0
  /\ next' = [next EXCEPT ![c] = head]
  /\ head' = c
  /\ unlocking' = unlocking \cup {c}
  /\ Goto(c, "suspended")
  /\ UNCHANGED <<lockVars, cur, nxt, itemVars>>

\* ...and only then unlocks; c may be running again by now.
WaitUnlock(c) ==
  /\ c \in unlocking
  /\ unlocking' = unlocking \ {c}
  /\ mutex!Release(c)
  /\ UNCHANGED <<cvVars, pc, cur, nxt, itemVars>>

-----------------------------------------------------------------------------
ProduceLock(p) ==
  /\ pc[p] = "out"
  /\ made < MaxItems
  /\ mutex!Lock(p)
  /\ Goto(p, "produce")
  /\ UNCHANGED <<cvVars, cur, nxt, unlocking, itemVars>>

Produce(p) ==
  /\ pc[p] = "produce" /\ HasLock(p)
  /\ made < MaxItems
  /\ items' = items + 1
  /\ made' = made + 1
  /\ IF p \in Locked THEN UNCHANGED lockVars ELSE mutex!Release(p)
  /\ \E op \in {"notify_one", "notify_all"} : Goto(p, op)
  /\ UNCHANGED <<cvVars, cur, nxt, unlocking>>

\* Enough has been produced meanwhile.
ProduceNothing(p) ==
  /\ pc[p] = "produce" /\ HasLock(p)
  /\ made = MaxItems
  /\ mutex!Release(p)
  /\ Goto(p, "out")
  /\ UNCHANGED <<cvVars, cur, nxt, unlocking, itemVars>>

\* The notification returns; a producer that still has the mutex unlocks it.
Notified(p) ==
  /\ IF p \in Locked THEN mutex!Release(p) ELSE UNCHANGED lockVars
  /\ cur' = [cur EXCEPT ![p] = Null]
  /\ nxt' = [nxt EXCEPT ![p] = Null]

\* notify_one loads awaiters_...
NotifyOneLoad(p) ==
  /\ pc[p] = "notify_one"
  /\ IF head = Null
     THEN Notified(p) /\ Goto(p, "out")
     ELSE /\ cur' = [cur EXCEPT ![p] = head]
          /\ Goto(p, "one_next")
          /\ UNCHANGED <<lockVars, nxt>>
  /\ UNCHANGED <<cvVars, unlocking, itemVars>>

\* ...reads next_ of what it loaded...
NotifyOneNext(p) ==
  /\ pc[p] = "one_next"
  /\ IF cur[p] = Null
     THEN Goto(p, "null_dereference") /\ UNCHANGED nxt
     ELSE Goto(p, "one_cas") /\ nxt' = [nxt EXCEPT ![p] = next[cur[p]]]
  /\ UNCHANGED <<lockVars, cvVars, cur, unlocking, itemVars>>

\* ...and exchanges them, then schedules the awaiter it popped.
NotifyOnePop(p) ==
  /\ pc[p] = "one_cas"
  /\ head = cur[p]
  /\ head' = nxt[p]
  /\ next' = [next EXCEPT ![cur[p]] = Null]
  /\ pc' = [pc EXCEPT ![p] = "out", ![cur[p]] = "scheduled"]
  /\ Notified(p)
  /\ UNCHANGED <<unlocking, itemVars>>

\* A failed exchange loads awaiters_ again, whatever it is now.
NotifyOneRetry(p) ==
  /\ pc[p] = "one_cas"
  /\ cur' = [cur EXCEPT ![p] = head]
  /\ Goto(p, "one_next")
  /\ UNCHANGED <<lockVars, cvVars, nxt, unlocking, itemVars>>

\* notify_all takes the whole stack...
NotifyAllTake(p) ==
  /\ pc[p] = "notify_all"
  /\ cur' = [cur EXCEPT ![p] = head]
  /\ head' = Null
  /\ Goto(p, "resume")
  /\ UNCHANGED <<lockVars, next, nxt, unlocking, itemVars>>

\* mutant: it schedules the first awaiter only
ResumeFirst(p) ==
  /\ pc[p] = "resume"
  /\ pc' = IF cur[p] = Null THEN [pc EXCEPT ![p] = "out"]
           ELSE [pc EXCEPT ![p] = "out", ![cur[p]] = "scheduled"]
  /\ Notified(p)
  /\ UNCHANGED <<cvVars, unlocking, itemVars>>

\* ...and schedules what was on it, one after the other; the one it has just
\* scheduled is in run_next_ until the next one is, so next_ can still be read.
ResumeNext(p) ==
  /\ pc[p] = "resume"
  /\ IF cur[p] = Null
     THEN Notified(p) /\ Goto(p, "out")
     ELSE /\ pc' = [pc EXCEPT ![cur[p]] = "scheduled"]
          /\ cur' = [cur EXCEPT ![p] = next[cur[p]]]
          /\ UNCHANGED <<lockVars, nxt>>
  /\ UNCHANGED <<cvVars, unlocking, itemVars>>

-----------------------------------------------------------------------------
Wait(c) == WaitLock(c) \/ WaitDone(c) \/ WaitPush(c) \/ WaitUnlock(c)
Notify(p) ==
  \/ NotifyOneLoad(p) \/ NotifyOneNext(p) \/ NotifyOnePop(p) \/ NotifyOneRetry(p)
  \/ NotifyAllTake(p) \/ ResumeNext(p)

Next ==
  \/ \E c \in Consumers : Wait(c)
  \/ \E p \in Producers : ProduceLock(p) \/ Produce(p) \/ ProduceNothing(p) \/ Notify(p)

Spec == Init /\ [][Next]_vars

\* Workers run what is scheduled, and a compare_exchange that nobody disturbs
\* succeeds in the end.
FairSpec ==
  /\ Spec
  /\ \A c \in Consumers : WF_vars(WaitLock(c)) /\ WF_vars(WaitDone(c) \/ WaitPush(c))
                          /\ WF_vars(WaitUnlock(c))
  /\ \A p \in Producers : /\ WF_vars(Produce(p) \/ ProduceNothing(p))
                          /\ WF_vars(Notify(p)) /\ SF_vars(NotifyOnePop(p))

-----------------------------------------------------------------------------
\* The coroutines reachable from an awaiter through next_.
Chain(a) ==
  LET reach[n \in 0..Cardinality(Coros)] ==
        IF n = 0 THEN {a} \ {Null}
        ELSE (reach[n - 1] \cup {next[c] : c \in reach[n - 1]}) \ {Null}
  IN  reach[Cardinality(Coros)]

\* The variables keep their types.
TypeOK ==
  /\ owner \in Coros \cup {Nobody} /\ queue \in Seq(Coros)
  /\ head \in Coros \cup {Null}
  /\ next \in [Coros -> Coros \cup {Null}]
  /\ pc \in [Coros -> {"out", "wait", "suspended", "scheduled", "produce", "notify_one", "one_next",
                       "one_cas", "notify_all", "resume", "null_dereference"}]
  /\ cur \in [Producers -> Coros \cup {Null}]
  /\ nxt \in [Producers -> Coros \cup {Null}]
  /\ unlocking \subseteq Consumers
  /\ items \in 0..MaxItems /\ made \in 0..MaxItems

\* notify_one never follows a null pointer after a failed exchange
\* (condition_variable.hpp:60-64).
NoNullDereference == \A p \in Producers : pc[p] # "null_dereference"

\* No awaiter is lost and none is linked while it runs: the suspended
\* consumers are exactly those on the stack and those a notify_all has taken
\* and not yet scheduled, and these are disjoint.
AwaitersLinked ==
  LET taken(p) == IF pc[p] = "resume" THEN Chain(cur[p]) ELSE {}
  IN  /\ {c \in Coros : pc[c] = "suspended"} = Chain(head) \cup UNION {taken(p) : p \in Producers}
      /\ \A p \in Producers : Chain(head) \cap taken(p) = {}

\* No wake-up is lost: every item is taken in the end, although a consumer may
\* be between its look at the predicate and its push when the item is made.
EveryItemConsumed == items > 0 ~> items = 0
=============================================================================
