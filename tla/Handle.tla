------------------------------- MODULE Handle -------------------------------
(***************************************************************************)
(* The life of a multi-thread runtime (runtime/multi_thread/handle.hpp,    *)
(* worker.hpp, shared.hpp, runtime.hpp): the constructor of Handle starts  *)
(* the workers one after the other, each of which enters itself into       *)
(* workers_ and begins to look for work while the next ones are started;   *)
(* block_on runs one coroutine, which closes the runtime; the destructor   *)
(* closes it if nobody did, and joins the threads.  What the workers run   *)
(* and how they are notified is the subject of Scheduler: here a worker    *)
(* that is awake takes the coroutine before it sleeps.                     *)
(***************************************************************************)
EXTENDS Integers, Sequences

CONSTANT NumWorkers

Workers == 1..NumWorkers

VARIABLES mainpc,     \* the thread that owns the Handle
          started,    \* threads started
          sync,       \* the latch of the constructor
          workers,    \* workers_
          hpc,        \* the threads of the workers
          victims,    \* the places of workers_ that a thief has left to try
          woken,      \* eventfds
          hclosed,    \* is_closed_ of the global queue
          queued,     \* the coroutine of block_on is in the global queue
          towake,     \* wake_up_all: the workers that it has left, of a worker or of the main thread
          target,     \* wake_up_one of block_on
          blocked_on, ended,   \* history: block_on was called, its coroutine has ended
          raced,      \* history: workers_ was read while it changed; where main was
          dangling    \* history: who used a destroyed Worker

handleVars == <<mainpc, started, sync, workers, hpc, victims, woken, hclosed, queued, towake, target,
                blocked_on, ended, raced, dangling>>

\* The index that stands for the main thread.
MainThread == 0

Init ==
  /\ mainpc = "construct" /\ started = 0 /\ sync = 0 /\ workers = <<>>
  /\ hpc = [w \in Workers |-> "none"] /\ victims = [w \in Workers |-> {}]
  /\ woken = [w \in Workers |-> FALSE] /\ hclosed = FALSE /\ queued = FALSE
  /\ towake = [x \in Workers \cup {MainThread} |-> <<>>] /\ target = MainThread
  /\ blocked_on = FALSE /\ ended = FALSE /\ raced = {} /\ dangling = {}

Goto(w, where) == hpc' = [hpc EXCEPT ![w] = where]
history == <<blocked_on, ended, raced, dangling>>
closing == <<hclosed, towake, target>>

\* Somebody is in push_back of workers_, which may move what is in it.
Changing == \E v \in Workers : hpc[v] = "push_back"
Reads == raced' = IF Changing THEN raced \cup {mainpc} ELSE raced
Uses(who, v) == dangling' = IF hpc[v] = "destroyed" THEN dangling \cup {who} ELSE dangling

-----------------------------------------------------------------------------
(* Handle::Handle                                                          *)

\* A thread is started, and the constructor arrives at the latch.
StartThread ==
  /\ mainpc = "construct" /\ mainpc' = "sync"
  /\ started' = started + 1 /\ sync' = 1 /\ Goto(started + 1, "push_back")
  /\ UNCHANGED <<workers, victims, woken, queued, closing, history>>

Synced ==
  /\ mainpc = "sync" /\ sync = 0
  /\ mainpc' = IF started = NumWorkers THEN "ready" ELSE "construct"
  /\ UNCHANGED <<started, sync, workers, hpc, victims, woken, queued, closing, history>>

\* Worker::Worker
PushBack(w) ==
  /\ hpc[w] = "push_back" /\ workers' = Append(workers, w) /\ Goto(w, "count_down")
  /\ UNCHANGED <<mainpc, started, sync, victims, woken, queued, closing, history>>

CountDown(w) ==
  /\ hpc[w] = "count_down" /\ sync' = sync - 1 /\ Goto(w, "run")
  /\ UNCHANGED <<mainpc, started, workers, victims, woken, queued, closing, history>>

-----------------------------------------------------------------------------
(* Worker::run                                                             *)

\* Every so often the loop polls, which takes a wake-up, and looks whether the
\* runtime is closed.
Maintenance(w) ==
  /\ hpc[w] = "run" /\ (hclosed \/ woken[w])
  /\ woken' = [woken EXCEPT ![w] = FALSE] /\ Goto(w, IF hclosed THEN "destructor" ELSE "run")
  /\ UNCHANGED <<mainpc, started, sync, workers, victims, queued, closing, history>>

\* steal_work looks how many workers there are, and then at each of them, if
\* not enough others do so.
StealWork(w) ==
  /\ hpc[w] = "run" /\ ~queued /\ Goto(w, "steal")
  /\ \/ Reads /\ victims' = [victims EXCEPT ![w] = DOMAIN workers \ {w}]
     \/ (\E v \in Workers \ {w} : hpc[v] = "steal") /\ UNCHANGED <<raced, victims>>
  /\ UNCHANGED <<mainpc, started, sync, workers, woken, queued, closing, blocked_on, ended, dangling>>

StealFrom(w, i) ==
  /\ hpc[w] = "steal" /\ i \in victims[w] /\ Reads /\ Uses("worker", workers[i])
  /\ victims' = [victims EXCEPT ![w] = @ \ {i}]
  /\ UNCHANGED <<mainpc, started, sync, workers, hpc, woken, queued, closing, blocked_on, ended>>

\* poll takes a wake-up.
Poll(w) ==
  /\ hpc[w] = "steal" /\ victims[w] = {} /\ woken[w]
  /\ woken' = [woken EXCEPT ![w] = FALSE] /\ Goto(w, "run")
  /\ UNCHANGED <<mainpc, started, sync, workers, victims, queued, closing, history>>

\* sleep, with a look whether the runtime is closed at first and whenever the
\* wait is over.  The last one to search looks into the queues of all workers.
Sleep(w) ==
  /\ hpc[w] = "steal" /\ victims[w] = {} /\ ~woken[w] /\ (Reads \/ UNCHANGED raced)
  /\ Goto(w, IF hclosed THEN "destructor" ELSE IF queued THEN "run" ELSE "wait")
  /\ UNCHANGED <<mainpc, started, sync, workers, victims, woken, queued, closing, blocked_on, ended,
                 dangling>>
Wake(w) ==
  /\ hpc[w] = "wait" /\ woken[w] /\ woken' = [woken EXCEPT ![w] = FALSE]
  /\ Goto(w, IF hclosed THEN "destructor" ELSE "run")
  /\ UNCHANGED <<mainpc, started, sync, workers, victims, queued, closing, history>>

RunMain(w) ==
  /\ hpc[w] = "run" /\ queued /\ queued' = FALSE /\ Goto(w, "main_coro")
  /\ UNCHANGED <<mainpc, started, sync, workers, victims, woken, closing, history>>

\* mutant: the second close wakes the workers again
closeAgain(x) == hclosed' = TRUE /\ towake' = [towake EXCEPT ![x] = workers]
\* Only the first close wakes the workers.
close(x) ==
  /\ hclosed' = TRUE
  /\ towake' = [towake EXCEPT ![x] = IF hclosed THEN <<>> ELSE workers]

MainEnds(w) ==
  /\ hpc[w] = "main_coro" /\ close(w) /\ ended' = TRUE /\ Goto(w, "close")
  /\ UNCHANGED <<mainpc, started, sync, workers, victims, woken, queued, target, blocked_on, raced,
                 dangling>>

wake_up_all(x, who) ==
  /\ towake[x] # <<>> /\ towake' = [towake EXCEPT ![x] = Tail(@)]
  /\ Uses(who, Head(towake[x])) /\ woken' = [woken EXCEPT ![Head(towake[x])] = TRUE]
  /\ UNCHANGED <<mainpc, started, sync, workers, hpc, victims, hclosed, queued, target, blocked_on,
                 ended, raced>>

Closed(w) ==
  /\ hpc[w] = "close" /\ towake[w] = <<>> /\ Goto(w, "run")
  /\ UNCHANGED <<mainpc, started, sync, workers, victims, woken, queued, closing, history>>

\* Worker::~Worker: shutdown_ lets them go when all have arrived.
Arrive(w) ==
  /\ hpc[w] = "destructor" /\ Goto(w, "arrived")
  /\ UNCHANGED <<mainpc, started, sync, workers, victims, woken, queued, closing, history>>
Destroy(w) ==
  /\ hpc[w] = "arrived" /\ \A v \in Workers : hpc[v] \in {"arrived", "destroyed"}
  /\ Goto(w, "destroyed")
  /\ UNCHANGED <<mainpc, started, sync, workers, victims, woken, queued, closing, history>>

-----------------------------------------------------------------------------
(* block_on and Handle::~Handle                                            *)

BlockOn ==
  /\ mainpc = "ready" /\ mainpc' = "wake_up_one" /\ queued' = TRUE /\ blocked_on' = TRUE
  /\ UNCHANGED <<started, sync, workers, hpc, victims, woken, closing, ended, raced, dangling>>

\* worker_to_notify: somebody who sleeps, if nobody else is at work.  Workers
\* that left their wait because of the close are still among the sleepers.
WorkerToNotify ==
  /\ mainpc = "wake_up_one"
  /\ \/ \E w \in Workers :
          /\ hpc[w] = "wait" \/ (ended /\ hpc[w] \in {"destructor", "arrived", "destroyed"})
          /\ target' = w /\ mainpc' = "write"
     \/ /\ \E w \in Workers : hpc[w] # "wait"
        /\ mainpc' = "wait" /\ UNCHANGED target
  /\ UNCHANGED <<started, sync, workers, hpc, victims, woken, hclosed, queued, towake, history>>

WakeUpOne ==
  /\ mainpc = "write" /\ mainpc' = "wait"
  /\ Uses("block_on", target) /\ woken' = [woken EXCEPT ![target] = TRUE] /\ target' = MainThread
  /\ UNCHANGED <<started, sync, workers, hpc, victims, hclosed, queued, towake, blocked_on, ended,
                 raced>>

Joined == \A w \in Workers : hpc[w] = "destroyed"

WaitReturns ==
  /\ mainpc = "wait" /\ Joined /\ mainpc' = "used"
  /\ UNCHANGED <<started, sync, workers, hpc, victims, woken, queued, closing, history>>

Destructor ==
  /\ mainpc \in {"ready", "used"} /\ close(MainThread) /\ mainpc' = "join"
  /\ UNCHANGED <<started, sync, workers, hpc, victims, woken, queued, target, history>>
Join ==
  /\ mainpc = "join" /\ towake[MainThread] = <<>> /\ Joined /\ mainpc' = "done"
  /\ UNCHANGED <<started, sync, workers, hpc, victims, woken, queued, closing, history>>

-----------------------------------------------------------------------------
Worker(w) ==
  \/ PushBack(w) \/ CountDown(w) \/ Maintenance(w) \/ StealWork(w) \/ Poll(w) \/ Sleep(w) \/ Wake(w)
  \/ RunMain(w) \/ MainEnds(w) \/ Closed(w) \/ Arrive(w) \/ Destroy(w)
  \/ wake_up_all(w, "worker") \/ \E i \in victims[w] : StealFrom(w, i)
Owner ==
  \/ StartThread \/ Synced \/ BlockOn \/ WorkerToNotify \/ WakeUpOne \/ WaitReturns
  \/ Destructor \/ wake_up_all(MainThread, "destructor") \/ Join

Next == Owner \/ \E w \in Workers : Worker(w)

Spec == Init /\ [][Next]_handleVars

-----------------------------------------------------------------------------
\* The asserts of Worker's constructor: a worker is at the place of its index,
\* by which it is woken (worker.hpp:25, 294).
IndexIsPlace == \A i \in DOMAIN workers : workers[i] = i

\* Workers read workers_ while another one enters itself only as long as the
\* constructor of Handle starts threads; that they do so at all is a data race
\* (worker.hpp:23, 169, 177).
RacesOnlyAtStart == raced \subseteq {"construct", "sync"}

\* The latch of ~Worker keeps the Workers alive for everybody who steals from
\* them or wakes them, with two exceptions: wake_up_one of block_on, after its
\* coroutine was run and has ended, and wake_up_all of ~Handle when block_on
\* was never called (worker.hpp:39, runtime.hpp:30, handle.hpp:31).
NoUseOfDestroyed ==
  /\ "worker" \notin dangling
  /\ "block_on" \in dangling => ended
  /\ "destructor" \in dangling => ~blocked_on

\* The destructor of a runtime returns, used or not, however the close races
\* the workers that go to sleep (handle.hpp:30-37).
DestructorReturns == mainpc = "ready" ~> mainpc = "done"
=============================================================================
