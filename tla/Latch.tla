------------------------------- MODULE Latch -------------------------------
(***************************************************************************)
(* sync::Latch (sync/latch.hpp): coroutines on different workers count it  *)
(* down and wait for it.  The awaiters form a list that only grows; the    *)
(* coroutine whose count_down reaches zero walks it and schedules them.    *)
(* A push to the list is one step: its load and compare_exchange loop is   *)
(* visible to nobody until the exchange succeeds.                          *)
(***************************************************************************)
EXTENDS Integers, Sequences

CONSTANTS Coros,
          Update,   \* what each coroutine counts down; 0: it only waits
          Waits,    \* the coroutines that wait afterwards
          Expected  \* the latch's initial count

VARIABLES expected,  \* expected_
          head,      \* the list head_ points to, newest first
          pc,
          cursor,    \* what notify_all has still to walk
          scheduled, \* how often each handle is in a run queue
          resumes    \* how often each coroutine was resumed from wait()

vars == <<expected, head, pc, cursor, scheduled, resumes>>

Init ==
  /\ expected = Expected
  /\ head = <<>>
  /\ pc = [c \in Coros |-> IF Update[c] > 0 THEN "start" ELSE "wait"]
  /\ cursor = [c \in Coros |-> <<>>]
  /\ scheduled = [c \in Coros |-> 0]
  /\ resumes = [c \in Coros |-> 0]

Goto(c, label) == pc' = [pc EXCEPT ![c] = label]
try_wait == expected = 0

\* co_await wait() returns.
Resumed(c) == resumes' = [resumes EXCEPT ![c] = @ + 1]

\* arrive_and_wait waits after count_down.
AfterCount(c) == IF c \in Waits THEN "wait" ELSE "done"

\* mutant: the last but one notifies
NotifiesEarly(c) ==
  /\ pc[c] = "start"
  /\ expected' = expected - Update[c]
  /\ Goto(c, IF expected <= 2 THEN "notify" ELSE AfterCount(c))
  /\ UNCHANGED <<head, cursor, scheduled, resumes>>

count_down(c) ==
  /\ pc[c] = "start"
  /\ expected' = expected - Update[c]
  /\ Goto(c, IF expected = Update[c] THEN "notify" ELSE AfterCount(c))
  /\ UNCHANGED <<head, cursor, scheduled, resumes>>

\* notify_all loads head_...
NotifyLoad(c) ==
  /\ pc[c] = "notify"
  /\ cursor' = [cursor EXCEPT ![c] = head]
  /\ Goto(c, "walk")
  /\ UNCHANGED <<expected, head, scheduled, resumes>>

\* ...and schedules the awaiters it finds from there on.
NotifyNext(c) ==
  /\ pc[c] = "walk"
  /\ IF cursor[c] = <<>>
     THEN Goto(c, AfterCount(c)) /\ UNCHANGED <<cursor, scheduled>>
     ELSE /\ scheduled' = [scheduled EXCEPT ![Head(cursor[c])] = @ + 1]
          /\ cursor' = [cursor EXCEPT ![c] = Tail(@)]
          /\ UNCHANGED pc
  /\ UNCHANGED <<expected, head, resumes>>

-----------------------------------------------------------------------------
await_ready(c) ==
  /\ pc[c] = "wait"
  /\ IF try_wait
     THEN Goto(c, "done") /\ Resumed(c)
     ELSE Goto(c, "push") /\ UNCHANGED resumes
  /\ UNCHANGED <<expected, head, cursor, scheduled>>

\* await_suspend: link the awaiter in...
Push(c) ==
  /\ pc[c] = "push"
  /\ head' = <<c>> \o head
  /\ Goto(c, "recheck")
  /\ UNCHANGED <<expected, cursor, scheduled, resumes>>

\* mutant: the awaiter suspends without a second look at the count
RecheckNothing(c) ==
  /\ pc[c] = "recheck"
  /\ Goto(c, "suspended")
  /\ UNCHANGED <<expected, head, cursor, scheduled, resumes>>

\* ...and resume at once if the count has reached zero meanwhile.
Recheck(c) ==
  /\ pc[c] = "recheck"
  /\ IF try_wait
     THEN Goto(c, "done") /\ Resumed(c)
     ELSE Goto(c, "suspended") /\ UNCHANGED resumes
  /\ UNCHANGED <<expected, head, cursor, scheduled>>

\* A worker takes the handle from its run queue and resumes the coroutine.
Resume(c) ==
  /\ scheduled[c] > 0
  /\ scheduled' = [scheduled EXCEPT ![c] = @ - 1]
  /\ Resumed(c)
  /\ IF pc[c] = "suspended" THEN Goto(c, "done") ELSE UNCHANGED pc
  /\ UNCHANGED <<expected, head, cursor>>

-----------------------------------------------------------------------------
Step(c) ==
  \/ count_down(c) \/ NotifyLoad(c) \/ NotifyNext(c)
  \/ await_ready(c) \/ Push(c) \/ Recheck(c) \/ Resume(c)

Next == \E c \in Coros : Step(c)

Spec == Init /\ [][Next]_vars

\* Every worker keeps running what it has been given.
FairSpec == Spec /\ \A c \in Coros : WF_vars(Step(c))

-----------------------------------------------------------------------------
\* The variables keep their types; the count does not go below zero when the
\* updates add up to it.
TypeOK ==
  /\ expected \in 0..Expected
  /\ head \in Seq(Coros)
  /\ pc \in [Coros -> {"start", "notify", "walk", "wait", "push", "recheck", "suspended", "done"}]
  /\ cursor \in [Coros -> Seq(Coros)]
  /\ scheduled \in [Coros -> Nat]
  /\ resumes \in [Coros -> Nat]

\* Nobody gets past wait() before every update has been counted
\* (latch.hpp:64-66), and only one coroutine ever walks the list.
ReleasedAtZero ==
  /\ \A c \in Coros : resumes[c] > 0 \/ scheduled[c] > 0 => expected = 0
  /\ \A c, d \in Coros : pc[c] \in {"notify", "walk"} /\ pc[d] \in {"notify", "walk"} => c = d

\* A coroutine that waits for the latch gets past it exactly once: it is
\* resumed by its own second look or by notify_all, not by both.
ResumedOnce == \A c \in Coros : resumes[c] <= 1

\* No wake-up is lost: every coroutine that waits gets past the latch, although
\* notify_all loads head_ once and awaiters keep arriving (latch.hpp:28).
EveryWaiterReleased == \A c \in Waits : <>(resumes[c] > 0)
=============================================================================
