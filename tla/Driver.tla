------------------------------- MODULE Driver -------------------------------
(***************************************************************************)
(* The I/O driver of one worker: the submission and completion queues of   *)
(* its io_uring, its timer, and coroutines that await I/O operations, I/O  *)
(* operations with a deadline, and sleeps (runtime/driver.hpp,             *)
(* runtime/io/linux/poller.hpp and waker.hpp, runtime/timer/entry.hpp,     *)
(* io/base/registrator.hpp, time/timeout.hpp, time/sleep.hpp).  The timer  *)
(* is a TimerQueue, which TimerWheel implements.                           *)
(*                                                                         *)
(* A coroutine has one IOData at a time, at an address that its next       *)
(* operation uses again, so the coroutine names the address.  Assertions   *)
(* are compiled out: the one at timeout.hpp:25 fails on every call.        *)
(* io_uring_submit does not fail.                                          *)
(***************************************************************************)
EXTENDS Integers, Sequences, SequencesExt

CONSTANTS Coros, SqSize, SubmitInterval,
          Batch,                  \* completions one poll takes (LOCAL_QUEUE_CAPACITY)
          TicksPerMs, MaxTime,
          MaxOps,                 \* operations per coroutine
          MaxQueued,              \* bound: completions that a wake-up finds in the queue
          Null

VARIABLES clock, pending, fired,  \* the timer
          phase,      \* where the worker is: tasks, peek, expire, submit, sleep
          left,       \* completions of the batch that are not handled yet
          sq, submit_tick,   \* the submission queue and submit_tick_
          kernel,     \* operations in the kernel
          doomed,     \* those of them a cancel was submitted for
          cq,         \* the completion queue
          flag,       \* flag_ of the waker is set: its read is over, and has to be made again
          state,      \* ready or waiting, per coroutine
          entry,      \* the coroutines whose IOData has entry_ # nullptr
          result, ops, \* result_ of the last operation, operations so far
          crashed     \* a null SQE was dereferenced

ringVars == <<sq, submit_tick, kernel, doomed, cq>>
coroVars == <<state, entry, result, ops>>
timerVars == <<clock, pending, fired>>
driverVars == <<timerVars, phase, left, ringVars, flag, coroVars, crashed>>

timer == INSTANCE TimerQueue WITH now <- clock, Entries <- Coros

Sqe(kind, c) == [kind |-> kind, coro |-> c]
Sqes(s, kind) == {c \in Coros : Contains(s, Sqe(kind, c))}

Init ==
  /\ timer!Init /\ phase = "tasks" /\ left = 0
  /\ sq = <<>> /\ submit_tick = 0 /\ kernel = {} /\ doomed = {} /\ cq = <<>>
  /\ state = [c \in Coros |-> "ready"] /\ entry = {}
  /\ result = [c \in Coros |-> "none"] /\ ops = [c \in Coros |-> 0]
  /\ flag = TRUE /\ crashed = FALSE

-----------------------------------------------------------------------------
(* Submission                                                              *)

\* The operations among k that the cancels of the queue name.
Cancelled(s, k) == Sqes(s, "cancel") \cap k

\* io_uring_submit: the kernel takes the whole queue.  A nop and a cancel
\* complete at once, with a completion that has no data; a cancel ends an
\* operation that is still in the kernel.
force_submit(s) ==
  /\ sq' = <<>> /\ submit_tick' = 0
  /\ kernel' = kernel \cup Sqes(s, "io")
  /\ doomed' = doomed \cup Cancelled(s, kernel')
  /\ cq' = cq \o [i \in 1..Len(SelectSeq(s, LAMBDA e : e.kind # "io")) |-> [coro |-> Null, res |-> "done"]]

submit(s) ==
  IF submit_tick + 1 = SubmitInterval THEN force_submit(s)
  ELSE sq' = s /\ submit_tick' = submit_tick + 1 /\ UNCHANGED <<kernel, doomed, cq>>

Full == Len(sq) = SqSize

-----------------------------------------------------------------------------
(* What a running coroutine does.                                          *)

Runs(c) ==
  /\ phase = "tasks" /\ ~crashed /\ state[c] = "ready" /\ ops[c] < MaxOps
  /\ ops' = [ops EXCEPT ![c] = @ + 1]

\* The operation ends without a suspension.
Fails(c, why) ==
  /\ result' = [result EXCEPT ![c] = why] /\ UNCHANGED <<state, entry, timerVars>>

Suspends(c) ==
  /\ state' = [state EXCEPT ![c] = "waiting"] /\ result' = [result EXCEPT ![c] = "none"]

\* co_await of an operation
Io(c) ==
  /\ Runs(c)
  /\ IF Full THEN Fails(c, "EmptySqe") /\ UNCHANGED ringVars
     ELSE Suspends(c) /\ submit(Append(sq, Sqe("io", c))) /\ UNCHANGED <<entry, timerVars>>
  /\ UNCHANGED <<phase, left, flag, crashed>>

\* co_await of an operation with set_timeout_at: the move into Timeout writes
\* to the SQE without a look at it, and a deadline the timer refuses leaves a
\* nop in the queue.
IoTimeout(c, deadline) ==
  /\ Runs(c)
  /\ crashed' = Full
  /\ IF Full THEN UNCHANGED <<state, entry, result, ringVars, timerVars>>
     ELSE IF deadline <= clock
     THEN /\ Fails(c, "PassedTime")
          /\ sq' = Append(sq, Sqe("nop", Null)) /\ UNCHANGED <<submit_tick, kernel, doomed, cq>>
     ELSE /\ timer!Add(c, deadline) /\ entry' = entry \cup {c}
          /\ Suspends(c) /\ submit(Append(sq, Sqe("io", c)))
  /\ UNCHANGED <<phase, left, flag>>

\* co_await of sleep_until
Sleep(c, deadline) ==
  /\ Runs(c)
  /\ IF deadline <= clock THEN Fails(c, "PassedTime")
     ELSE timer!Add(c, deadline) /\ Suspends(c) /\ UNCHANGED entry
  /\ UNCHANGED <<phase, left, ringVars, flag, crashed>>

-----------------------------------------------------------------------------
(* Driver::poll, between tasks or when the worker wakes up.  Completions   *)
(* that arrive while it handles a batch wait for the next one.             *)

PollBegin ==
  /\ phase = "tasks" /\ ~crashed
  /\ phase' = "peek" /\ left' = Min({Batch, Len(cq)})
  /\ UNCHANGED <<timerVars, ringVars, flag, coroVars, crashed>>

\* mutant: the deadlines do not bound the wait
waitForCompletion ==
  /\ phase = "sleep" /\ cq # <<>>
  /\ phase' = "peek" /\ left' = Min({Batch, Len(cq)})
  /\ UNCHANGED <<timerVars, ringVars, flag, coroVars, crashed>>
\* The worker found no task: it blocks until there is a completion or the
\* first entry of the timer is due.  If that one is overdue the difference of
\* next_expiration_time wraps around; as a time_t it is negative and the wait
\* ends at once.
wait ==
  /\ phase = "sleep"
  /\ cq # <<>> \/ \E c \in DOMAIN pending : pending[c] < clock + TicksPerMs
  /\ phase' = "peek" /\ left' = Min({Batch, Len(cq)})
  /\ UNCHANGED <<timerVars, ringVars, flag, coroVars, crashed>>

\* One completion: the timer entry goes, the coroutine is pushed.
PollOne ==
  /\ phase = "peek" /\ left > 0
  /\ left' = left - 1 /\ cq' = Tail(cq)
  /\ LET c == Head(cq).coro
     IN IF c = Null THEN UNCHANGED <<coroVars, timerVars>>
        ELSE /\ IF c \in entry THEN timer!Remove(c) ELSE UNCHANGED timerVars
             /\ entry' = entry \ {c}
             /\ result' = [result EXCEPT ![c] = Head(cq).res]
             /\ state' = [state EXCEPT ![c] = "ready"] /\ UNCHANGED ops
  /\ UNCHANGED <<phase, sq, submit_tick, kernel, doomed, flag, crashed>>

\* Entry::execute clears entry_ of an operation it cancels...
Disarmed(cancels) == entry \ cancels
\* mutant: every expired entry resumes its coroutine
WokenAll(gone) == gone
\* ...and pushes the coroutine of a sleep.
Woken(gone) == gone \ entry

\* Timer::handle_expired_entries: a sleeper is pushed, an operation gets a
\* cancel and loses its entry.
PollExpire ==
  /\ phase = "peek" /\ left = 0 /\ phase' = "submit"
  /\ \E gone \in SUBSET DOMAIN pending :
       LET cancels == gone \cap entry
       IN /\ timer!Expire(gone)
          /\ crashed' = (Len(sq) + Cardinality(cancels) > SqSize)
          /\ sq' = IF crashed' THEN sq
                   ELSE sq \o [i \in 1..Cardinality(cancels) |-> Sqe("cancel", SetToSeq(cancels)[i])]
          /\ entry' = Disarmed(cancels)
          /\ state' = [c \in Coros |-> IF c \in Woken(gone) THEN "ready" ELSE state[c]]
          /\ result' = [c \in Coros |-> IF c \in Woken(gone) THEN "done" ELSE result[c]]
  /\ UNCHANGED <<left, submit_tick, kernel, doomed, cq, flag, ops>>

\* turn_on makes the waker's read again, without a look at the SQE; it goes to
\* the kernel with the rest of the queue.
PollSubmit ==
  /\ phase = "submit" /\ ~crashed
  /\ crashed' = (flag /\ Full)
  /\ IF crashed' THEN UNCHANGED <<phase, flag, ringVars>>
     ELSE /\ flag' = FALSE /\ force_submit(sq)
          /\ phase' = IF \E c \in Coros : state[c] = "ready" THEN "tasks" ELSE "sleep"
  /\ UNCHANGED <<timerVars, left, coroVars>>

-----------------------------------------------------------------------------
(* The kernel and the clock.                                               *)

Complete(c) ==
  /\ c \in kernel /\ ~crashed
  /\ kernel' = kernel \ {c} /\ doomed' = doomed \ {c}
  /\ \E res \in {"done"} \cup {r \in {"canceled"} : c \in doomed} :
       cq' = Append(cq, [coro |-> c, res |-> res])
  /\ UNCHANGED <<timerVars, phase, left, sq, submit_tick, flag, coroVars, crashed>>

\* Another thread writes to the eventfd and the waker's read ends, with a
\* completion that has no data.
wake_up ==
  /\ ~flag /\ ~crashed /\ Len(cq) <= MaxQueued
  /\ flag' = TRUE /\ cq' = Append(cq, [coro |-> Null, res |-> "done"])
  /\ UNCHANGED <<timerVars, phase, left, sq, submit_tick, kernel, doomed, coroVars, crashed>>

Tick ==
  /\ clock < MaxTime /\ ~crashed /\ timer!Tick
  /\ UNCHANGED <<phase, left, ringVars, flag, coroVars, crashed>>

Next ==
  \/ \E c \in Coros :
       Io(c) \/ Complete(c) \/ \E d \in clock..MaxTime : IoTimeout(c, d) \/ Sleep(c, d)
  \/ PollBegin \/ wait \/ PollOne \/ PollExpire \/ PollSubmit \/ Tick \/ wake_up

Spec == Init /\ [][Next]_driverVars

\* The worker's loop and the clock go on, and the kernel ends an operation it
\* was asked to cancel.  Nothing makes an operation without a deadline end.
Fairness ==
  /\ WF_driverVars(PollBegin) /\ WF_driverVars(wait) /\ WF_driverVars(PollOne)
  /\ WF_driverVars(PollExpire) /\ WF_driverVars(PollSubmit) /\ WF_driverVars(Tick)
  /\ \A c \in Coros : WF_driverVars(c \in doomed /\ Complete(c))

-----------------------------------------------------------------------------
Places(c) ==
  (IF c \in Sqes(sq, "io") THEN 1 ELSE 0) + (IF c \in kernel THEN 1 ELSE 0)
  + Len(SelectSeq(cq, LAMBDA e : e.coro = c))

\* The pointers between an IOData and its timer entry never dangle: entry_ is
\* set exactly while the timer has an entry for the operation, and a timer
\* entry belongs to a coroutine that still waits (driver.hpp:54-60,
\* entry.hpp:24-36, timeout.hpp:27-31).
EntryPointersLive ==
  ~crashed =>
    /\ entry \subseteq DOMAIN pending
    /\ \A c \in DOMAIN pending : state[c] = "waiting"
    /\ \A c \in entry : Places(c) = 1

\* A coroutine that waits for an operation is resumed once: the operation is
\* in exactly one of the submission queue, the kernel and the completion
\* queue, and a coroutine that runs has no operation anywhere.
ResumedOnce ==
  ~crashed =>
    \A c \in Coros :
      /\ Places(c) <= 1
      /\ Places(c) = 1 => state[c] = "waiting"
      /\ state[c] = "waiting" => Places(c) = 1 \/ c \in DOMAIN pending

\* A cancel is in the queue only while the coroutine whose operation it names
\* still waits, so it cannot hit the next operation at the same address: the
\* poll that made it submits it before any coroutine runs (driver.hpp:66-74).
NoStaleCancel == ~crashed => \A c \in Sqes(sq, "cancel") : state[c] = "waiting"

\* An operation ends as cancelled only if it had a deadline, and that has come
\* (less than a millisecond early).
CancelledByTimer ==
  \A c \in Coros : result[c] # "canceled" /\ result'[c] = "canceled" => c \in fired

\* A coroutine that waits with a deadline or sleeps runs again, although the
\* kernel may never complete its operation and the worker may be asleep with
\* the operation still in the submission queue when the deadline is set.
DeadlineReturns == \A c \in Coros : c \in DOMAIN pending ~> state[c] = "ready" \/ crashed
=============================================================================
