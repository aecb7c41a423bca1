------------------------------ MODULE Scheduler ------------------------------
(***************************************************************************)
(* The multi-thread scheduler: the loop of every worker (worker.hpp), the  *)
(* accounting of sleeping and searching workers (idle.hpp), the state they *)
(* share (shared.hpp, handle.hpp), the part of the I/O driver a worker     *)
(* sleeps in and is woken through (driver.hpp, waker.hpp, poller.hpp), and *)
(* shutdown.                                                               *)
(*                                                                         *)
(* A LocalQueue is a sequence here: TaskQueues shows that its operations   *)
(* neither lose nor duplicate tasks.  What a thief and its victim show to  *)
(* the other workers in the middle of a steal is kept.  Bound: fewer tasks *)
(* than LOCAL_QUEUE_CAPACITY, so that no ring overflows.                   *)
(***************************************************************************)
EXTENDS Integers, Sequences, FiniteSets

CONSTANTS Workers,  \* the worker threads
          Ext,      \* the thread that calls block_on
          Tasks,    \* bound: the coroutines of the program
          Main,     \* the coroutine given to block_on
          Programs, \* which coroutines are spawned by others, resumed with
                    \* schedule_remote by Ext, and await one I/O operation;
                    \* whether signals may interrupt a wait
          NoTask

ASSUME TasksAssumption ==
  /\ Main \in Tasks /\ NoTask \notin Tasks
  /\ \A p \in Programs : /\ p.spawned \cup p.remote \subseteq Tasks \ {Main}
                         /\ p.spawned \cap p.remote = {} /\ p.io \subseteq Tasks
                         /\ p.signals \in BOOLEAN
ASSUME ThreadsAssumption == Ext \notin Workers /\ IsFiniteSet(Workers) /\ Workers # {}

Threads == Workers \cup {Ext}
N == Cardinality(Workers)

VARIABLES
  \* Shared
  global, closed,                  \* GlobalQueue: tasks_, is_closed_
  working, searching, sleeping,    \* Idle: the two halves of state_, sleeping_workers
  \* Worker
  runNext, local,                  \* run_next_, local_queue_
  isSearching, shutdown,           \* is_searching_, is_shutdown_
  pc, cur, hand, victim, toTry,    \* where it is, and its local variables
  \* wake_up_one, run by any thread
  note, target,
  \* Driver, io_uring and eventfd of each worker
  sq, inflight, cq,                \* operations queued, submitted, completed
  evfd, flag, armed, cqWake,       \* Waker: counter # 0, flag_ # 0, read submitted, completed
  \* the program
  unborn, remote, noIo, ran,       \* not yet spawned, scheduled, suspended on I/O; run
  signals

queues == <<global, closed, runNext, local>>
idle == <<working, searching, sleeping>>
locals == <<cur, hand, victim, toTry>>
driver == <<sq, inflight, cq, evfd, flag, armed, cqWake>>
program == <<unborn, remote, noIo, ran, signals>>
vars == <<queues, idle, isSearching, shutdown, pc, locals, note, target, driver, program>>

Init ==
  /\ global = <<>> /\ closed = FALSE
  /\ working = N /\ searching = 0 /\ sleeping = {}
  /\ runNext = [w \in Workers |-> NoTask]
  /\ local = [w \in Workers |-> <<>>]
  /\ isSearching = [w \in Workers |-> FALSE]
  /\ shutdown = [w \in Workers |-> FALSE]
  /\ pc = [x \in Threads |-> IF x = Ext THEN "block_on" ELSE "loop"]
  /\ cur = [w \in Workers |-> NoTask]
  /\ hand = [w \in Workers |-> <<>>]
  /\ victim = [w \in Workers |-> w]
  /\ toTry = [w \in Workers |-> {}]
  /\ note = [x \in Threads |-> "none"]
  /\ target = [x \in Threads |-> x]
  /\ sq = [w \in Workers |-> {}]
  /\ inflight = [w \in Workers |-> {}]
  /\ cq = [w \in Workers |-> <<>>]
  /\ evfd = [w \in Workers |-> FALSE]
  /\ flag = [w \in Workers |-> TRUE]
  /\ armed = [w \in Workers |-> FALSE]
  /\ cqWake = [w \in Workers |-> FALSE]
  /\ \E p \in Programs : unborn = p.spawned /\ remote = p.remote
                         /\ noIo = p.io /\ signals = p.signals
  /\ ran = {}

\* Thread x is at one of the labels and not inside wake_up_one.
At(x, labels) == pc[x] \in labels /\ note[x] = "none"
Goto(x, label) == pc' = [pc EXCEPT ![x] = label]

\* Enter Shared::wake_up_one if the condition holds.
WakeUpOneIf(x, cond) ==
  note' = IF cond THEN [note EXCEPT ![x] = "check"] ELSE note

HasTasks(w) == runNext[w] # NoTask \/ local[w] # <<>>

-----------------------------------------------------------------------------
\* Shared::wake_up_one: Idle::worker_to_notify, then the write to the eventfd
\* of the chosen worker.
NotifyShouldWakeup == searching = 0 /\ working < N

\* IdleState: the counters of working and searching workers.
wake_up_one(num_searching) == working' = working + 1 /\ searching' = searching + num_searching
dec_num_searching == searching' = searching - 1
dec_num_working(is_searching) ==
  working' = working - 1 /\ searching' = IF is_searching THEN searching - 1 ELSE searching

\* Idle, under its mutex
contains(w) == w \in sleeping
remove(w) ==
  IF contains(w) THEN wake_up_one(0) /\ sleeping' = sleeping \ {w} ELSE UNCHANGED idle
transition_worker_to_sleeping(w, is_searching) ==
  dec_num_working(is_searching) /\ sleeping' = sleeping \cup {w}

NotifyCheck(x) ==
  /\ note[x] = "check"
  /\ note' = [note EXCEPT ![x] = IF NotifyShouldWakeup THEN "lock" ELSE "none"]
  /\ UNCHANGED <<queues, idle, isSearching, shutdown, pc, locals, target, driver, program>>

NotifyLock(x) ==
  /\ note[x] = "lock"
  /\ IF NotifyShouldWakeup
     THEN \E s \in sleeping :
            /\ wake_up_one(1) /\ sleeping' = sleeping \ {s}
            /\ target' = [target EXCEPT ![x] = s]
            /\ note' = [note EXCEPT ![x] = "write"]
     ELSE note' = [note EXCEPT ![x] = "none"] /\ UNCHANGED <<idle, target>>
  /\ UNCHANGED <<queues, isSearching, shutdown, pc, locals, driver, program>>

NotifyWrite(x) ==
  /\ note[x] = "write"
  /\ evfd' = [evfd EXCEPT ![target[x]] = TRUE]
  /\ target' = [target EXCEPT ![x] = x]
  /\ note' = [note EXCEPT ![x] = "none"]
  /\ UNCHANGED <<queues, idle, isSearching, shutdown, pc, locals,
                 sq, inflight, cq, flag, armed, cqWake, program>>

-----------------------------------------------------------------------------
\* The kernel: a submitted operation completes; the waker's read completes
\* once the eventfd has been written, which resets it and sets flag_.
IoComplete(w) ==
  /\ \E t \in inflight[w] :
       /\ inflight' = [inflight EXCEPT ![w] = @ \ {t}]
       /\ cq' = [cq EXCEPT ![w] = Append(@, t)]
  /\ UNCHANGED <<queues, idle, isSearching, shutdown, pc, locals, note, target,
                 sq, evfd, flag, armed, cqWake, program>>

WakerComplete(w) ==
  /\ armed[w] /\ evfd[w]
  /\ evfd' = [evfd EXCEPT ![w] = FALSE]
  /\ armed' = [armed EXCEPT ![w] = FALSE]
  /\ flag' = [flag EXCEPT ![w] = TRUE]
  /\ cqWake' = [cqWake EXCEPT ![w] = TRUE]
  /\ UNCHANGED <<queues, idle, isSearching, shutdown, pc, locals, note, target,
                 sq, inflight, cq, program>>

\* Driver::poll: completed operations to the local queue, Waker::turn_on,
\* force_submit.
Completions(w) == cq[w] # <<>> \/ cqWake[w]

\* mutants: turn_on is not called; what is queued is not submitted
PollWithoutTurnOn(w) ==
  /\ local' = [local EXCEPT ![w] = @ \o cq[w]]
  /\ cq' = [cq EXCEPT ![w] = <<>>]
  /\ cqWake' = [cqWake EXCEPT ![w] = FALSE]
  /\ inflight' = [inflight EXCEPT ![w] = @ \cup sq[w]]
  /\ sq' = [sq EXCEPT ![w] = {}]
  /\ UNCHANGED <<global, closed, runNext, evfd, flag, armed>>

PollWithoutSubmit(w) ==
  /\ local' = [local EXCEPT ![w] = @ \o cq[w]]
  /\ cq' = [cq EXCEPT ![w] = <<>>]
  /\ cqWake' = [cqWake EXCEPT ![w] = FALSE]
  /\ flag' = [flag EXCEPT ![w] = FALSE]
  /\ armed' = [armed EXCEPT ![w] = @ \/ flag[w]]
  /\ UNCHANGED <<global, closed, runNext, evfd, inflight, sq>>

DriverPoll(w) ==
  /\ local' = [local EXCEPT ![w] = @ \o cq[w]]
  /\ cq' = [cq EXCEPT ![w] = <<>>]
  /\ cqWake' = [cqWake EXCEPT ![w] = FALSE]
  /\ flag' = [flag EXCEPT ![w] = FALSE]
  /\ armed' = [armed EXCEPT ![w] = @ \/ flag[w]]
  /\ inflight' = [inflight EXCEPT ![w] = @ \cup sq[w]]
  /\ sq' = [sq EXCEPT ![w] = {}]
  /\ UNCHANGED <<global, closed, runNext, evfd>>

\* Worker::poll: others are woken when more than one task waits here.
should_notify_others(w, ring) == ~isSearching[w] /\ Len(ring) > 1
Poll(w) ==
  /\ DriverPoll(w)
  /\ WakeUpOneIf(w, Completions(w) /\ should_notify_others(w, local'[w]))

-----------------------------------------------------------------------------
\* Worker::run, one iteration.  The tick counter is abstracted: an iteration
\* does its maintenance or not, looks at the global queue first or not.
Maintenance(w) ==
  /\ At(w, {"loop"}) /\ ~shutdown[w]
  /\ Poll(w)
  /\ shutdown' = [shutdown EXCEPT ![w] = closed]
  /\ Goto(w, "next")
  /\ UNCHANGED <<idle, isSearching, locals, target, program>>

AtNext(w) == At(w, {"next"}) \/ (At(w, {"loop"}) /\ ~shutdown[w])

Execute(w, t) ==
  /\ cur' = [cur EXCEPT ![w] = t]
  /\ Goto(w, "execute")

\* next_global_task on a tick that is a multiple of global_queue_interval_
GetGlobalFirst(w) ==
  /\ AtNext(w)
  /\ global # <<>>
  /\ Execute(w, Head(global))
  /\ global' = Tail(global)
  /\ UNCHANGED <<closed, runNext, local, idle, isSearching, shutdown, hand, victim,
                 toTry, note, target, driver, program>>

\* next_local_task
GetLocal(w) ==
  /\ AtNext(w)
  /\ HasTasks(w)
  /\ IF runNext[w] # NoTask
     THEN /\ Execute(w, runNext[w])
          /\ runNext' = [runNext EXCEPT ![w] = NoTask]
          /\ UNCHANGED local
     ELSE /\ Execute(w, Head(local[w]))
          /\ local' = [local EXCEPT ![w] = Tail(@)]
          /\ UNCHANGED runNext
  /\ UNCHANGED <<global, closed, idle, isSearching, shutdown, hand, victim, toTry,
                 note, target, driver, program>>

\* pop_n: a share of the global queue, the first of it to run now
GetGlobalShare(w) ==
  LET share == Len(global) \div N + 1
      n == IF share <= Len(global) THEN share ELSE Len(global)
  IN  /\ AtNext(w)
      /\ ~HasTasks(w)
      /\ global # <<>>
      /\ Execute(w, Head(global))
      /\ local' = [local EXCEPT ![w] = @ \o SubSeq(global, 2, n)]
      /\ global' = SubSeq(global, n + 1, Len(global))
      /\ UNCHANGED <<closed, runNext, idle, isSearching, shutdown, hand, victim,
                     toTry, note, target, driver, program>>

GetNothing(w) ==
  /\ AtNext(w)
  /\ ~HasTasks(w)
  /\ global = <<>>
  /\ Goto(w, "search")
  /\ UNCHANGED <<queues, idle, isSearching, shutdown, locals, note, target, driver, program>>

-----------------------------------------------------------------------------
\* steal_work.  transition_to_searching reads the counter and increments it
\* in two steps.
SearchCheck(w) ==
  /\ At(w, {"search"})
  /\ IF isSearching[w]
     THEN /\ Goto(w, "steal")
          /\ toTry' = [toTry EXCEPT ![w] = Workers \ {w}]
     ELSE /\ Goto(w, IF 2 * searching >= N THEN "poll" ELSE "search_inc")
          /\ UNCHANGED toTry
  /\ UNCHANGED <<queues, idle, isSearching, shutdown, cur, hand, victim, note, target,
                 driver, program>>

SearchInc(w) ==
  /\ At(w, {"search_inc"})
  /\ searching' = searching + 1
  /\ isSearching' = [isSearching EXCEPT ![w] = TRUE]
  /\ toTry' = [toTry EXCEPT ![w] = Workers \ {w}]
  /\ Goto(w, "steal")
  /\ UNCHANGED <<queues, working, sleeping, shutdown, cur, hand, victim, note, target,
                 driver, program>>

\* Another worker is in the middle of stealing from v.
Robbed(v) == \E u \in Workers : pc[u] = "steal_end" /\ victim[u] = v

\* steal_into the ring of w from the ring of v: half of it, rounded up
StealHalf(w, v) ==
  LET n == Len(local[v]) - Len(local[v]) \div 2
  IN  /\ hand' = [hand EXCEPT ![w] = SubSeq(local[v], 1, n)]
      /\ local' = [local EXCEPT ![v] = SubSeq(@, n + 1, Len(@))]
      /\ victim' = [victim EXCEPT ![w] = v]
      /\ toTry' = [toTry EXCEPT ![w] = {}]
      /\ Goto(w, "steal_end")

StealTry(w) ==
  /\ At(w, {"steal"})
  /\ \E v \in toTry[w] :
       IF local[v] = <<>> \/ Robbed(v)
       THEN /\ toTry' = [toTry EXCEPT ![w] = @ \ {v}]
            /\ UNCHANGED <<hand, local, victim, pc>>
       ELSE StealHalf(w, v)
  /\ UNCHANGED <<global, closed, runNext, idle, isSearching, shutdown, cur, note,
                 target, driver, program>>

\* The last stolen task is run, the others are published in the own ring.
StealEnd(w) ==
  LET n == Len(hand[w])
  IN  /\ At(w, {"steal_end"})
      /\ Execute(w, hand[w][n])
      /\ local' = [local EXCEPT ![w] = @ \o SubSeq(hand[w], 1, n - 1)]
      /\ hand' = [hand EXCEPT ![w] = <<>>]
      /\ victim' = [victim EXCEPT ![w] = w]
      /\ UNCHANGED <<global, closed, runNext, idle, isSearching, shutdown, toTry, note,
                     target, driver, program>>

\* "Final check the global queue again"
StealGlobal(w) ==
  /\ At(w, {"steal"})
  /\ toTry[w] = {}
  /\ IF global = <<>>
     THEN Goto(w, "poll") /\ UNCHANGED <<cur, global>>
     ELSE Execute(w, Head(global)) /\ global' = Tail(global)
  /\ UNCHANGED <<closed, runNext, local, idle, isSearching, shutdown, hand, victim,
                 toTry, note, target, driver, program>>

\* step 3: poll I/O events
RunPoll(w) ==
  /\ At(w, {"poll"})
  /\ Poll(w)
  /\ Goto(w, IF Completions(w) THEN "loop" ELSE "sleep")
  /\ UNCHANGED <<idle, isSearching, shutdown, locals, target, program>>

-----------------------------------------------------------------------------
\* step 4: Worker::sleep.  check_shutdown and has_tasks...
SleepBegin(w) ==
  /\ At(w, {"sleep"})
  /\ shutdown' = [shutdown EXCEPT ![w] = @ \/ closed]
  /\ Goto(w, IF HasTasks(w) THEN "loop" ELSE "to_sleep")
  /\ UNCHANGED <<queues, idle, isSearching, locals, note, target, driver, program>>

\* mutant: the last searcher does not look again
SleepWithoutRecheck(w) ==
  /\ At(w, {"to_sleep"})
  /\ working' = working - 1
  /\ searching' = IF isSearching[w] THEN searching - 1 ELSE searching
  /\ sleeping' = sleeping \cup {w}
  /\ isSearching' = [isSearching EXCEPT ![w] = FALSE]
  /\ toTry' = [toTry EXCEPT ![w] = {}]
  /\ Goto(w, "wait")
  /\ UNCHANGED <<queues, shutdown, cur, hand, victim, note, target, driver, program>>

\* ...Idle::transition_worker_to_sleeping: the last searcher looks again
TransitionToSleeping(w) ==
  LET last == isSearching[w] /\ searching = 1
  IN  /\ At(w, {"to_sleep"})
      /\ transition_worker_to_sleeping(w, isSearching[w])
      /\ isSearching' = [isSearching EXCEPT ![w] = FALSE]
      /\ toTry' = [toTry EXCEPT ![w] = IF last THEN Workers ELSE {}]
      /\ Goto(w, IF last THEN "pending" ELSE "wait")
      /\ UNCHANGED <<queues, shutdown, cur, hand, victim, note, target, driver, program>>

\* Shared::wake_up_if_work_pending
WakeUpIfWorkPending(w) ==
  /\ At(w, {"pending"})
  /\ IF toTry[w] = {}
     THEN /\ WakeUpOneIf(w, global # <<>>)
          /\ Goto(w, "wait")
          /\ UNCHANGED toTry
     ELSE \E v \in toTry[w] :
            /\ WakeUpOneIf(w, local[v] # <<>>)
            /\ toTry' = [toTry EXCEPT ![w] = IF local[v] # <<>> THEN {} ELSE @ \ {v}]
            /\ IF local[v] # <<>> THEN Goto(w, "wait") ELSE UNCHANGED pc
  /\ UNCHANGED <<queues, idle, isSearching, shutdown, cur, hand, victim, target, driver,
                 program>>

\* Driver::wait: blocked until something completes...
DriverWait(w) ==
  /\ At(w, {"wait"})
  /\ IF shutdown[w]
     THEN Goto(w, "loop") /\ UNCHANGED <<queues, driver>>
     ELSE Completions(w) /\ DriverPoll(w) /\ Goto(w, "awake")
  /\ UNCHANGED <<idle, isSearching, shutdown, locals, note, target, program>>

\* ...or a signal interrupts io_uring_wait_cqe, which is only logged.
WaitInterrupted(w) ==
  /\ signals
  /\ At(w, {"wait"}) /\ ~shutdown[w]
  /\ DriverPoll(w)
  /\ Goto(w, "awake")
  /\ UNCHANGED <<idle, isSearching, shutdown, locals, note, target, program>>

\* mutant: a worker woken by its own I/O says it is searching as well
WakesSearching(w) ==
  /\ At(w, {"awake"})
  /\ shutdown' = [shutdown EXCEPT ![w] = closed]
  /\ IF w \in sleeping /\ ~HasTasks(w)
     THEN Goto(w, "wait") /\ UNCHANGED <<idle, isSearching>>
     ELSE /\ working' = IF w \in sleeping THEN working + 1 ELSE working
          /\ sleeping' = sleeping \ {w}
          /\ isSearching' = [isSearching EXCEPT ![w] = TRUE]
          /\ Goto(w, "loop")
          /\ UNCHANGED searching
  /\ UNCHANGED <<queues, locals, note, target, driver, program>>

\* check_shutdown, then transition_from_sleeping
TransitionFromSleeping(w) ==
  LET asleep == contains(w)
  IN  /\ At(w, {"awake"})
      /\ shutdown' = [shutdown EXCEPT ![w] = closed]
      /\ IF asleep /\ ~HasTasks(w)
         THEN Goto(w, "wait") /\ UNCHANGED <<idle, isSearching>>
         ELSE /\ remove(w)
              /\ isSearching' = [isSearching EXCEPT ![w] = ~asleep]
              /\ Goto(w, "loop")
      /\ UNCHANGED <<queues, locals, note, target, driver, program>>

-----------------------------------------------------------------------------
\* mutant: the searching count is given back by a worker that never took it
ExecuteGivesBackTwice(w) ==
  /\ At(w, {"execute"})
  /\ searching' = searching - 1
  /\ isSearching' = [isSearching EXCEPT ![w] = FALSE]
  /\ WakeUpOneIf(w, searching = 1)
  /\ ran' = ran \cup {cur[w]}
  /\ Goto(w, "task")
  /\ UNCHANGED <<queues, working, sleeping, shutdown, locals, target, driver, unborn, remote,
                 noIo, signals>>

\* execute_task: transition_from_searching, then the coroutine is resumed.
ExecuteTask(w) ==
  /\ At(w, {"execute"})
  /\ IF isSearching[w] THEN dec_num_searching ELSE UNCHANGED searching
  /\ isSearching' = [isSearching EXCEPT ![w] = FALSE]
  /\ WakeUpOneIf(w, isSearching[w] /\ searching = 1)
  /\ ran' = ran \cup {cur[w]}
  /\ Goto(w, "task")
  /\ UNCHANGED <<queues, working, sleeping, shutdown, locals, target, driver, unborn, remote,
                 noIo, signals>>

\* The coroutine spawns another: Worker::schedule_local.
TaskSpawn(w) ==
  /\ At(w, {"task"})
  /\ \E t \in unborn :
       /\ unborn' = unborn \ {t}
       /\ runNext' = [runNext EXCEPT ![w] = t]
  /\ local' = [local EXCEPT ![w] =
                  IF runNext[w] = NoTask THEN @ ELSE Append(@, runNext[w])]
  /\ WakeUpOneIf(w, runNext[w] # NoTask)
  /\ UNCHANGED <<global, closed, idle, isSearching, shutdown, pc, locals, target, driver,
                 remote, noIo, ran, signals>>

\* It awaits an operation (bound: once): queued, and submitted with the
\* others when submit_interval_ operations are queued.
TaskAwaitIo(w) ==
  LET all == sq[w] \cup {cur[w]}
  IN  /\ At(w, {"task"})
      /\ cur[w] \in noIo
      /\ noIo' = noIo \ {cur[w]}
      /\ \/ sq' = [sq EXCEPT ![w] = all] /\ UNCHANGED inflight
         \/ /\ inflight' = [inflight EXCEPT ![w] = @ \cup all]
            /\ sq' = [sq EXCEPT ![w] = {}]
      /\ cur' = [cur EXCEPT ![w] = NoTask]
      /\ Goto(w, "loop")
      /\ UNCHANGED <<queues, idle, isSearching, shutdown, hand, victim, toTry, note, target,
                     cq, evfd, flag, armed, cqWake, unborn, remote, ran, signals>>

\* mutant: nobody is woken when the runtime closes
EndWithoutWakeUp(w) ==
  /\ At(w, {"task"})
  /\ cur' = [cur EXCEPT ![w] = NoTask]
  /\ closed' = (closed \/ cur[w] = Main)
  /\ Goto(w, "loop")
  /\ UNCHANGED <<global, runNext, local, idle, isSearching, shutdown, hand, victim, toTry,
                 note, target, driver, program>>

\* It ends; the coroutine of block_on closes the runtime: Shared::close.
TaskEnd(w) ==
  /\ At(w, {"task"})
  /\ cur' = [cur EXCEPT ![w] = NoTask]
  /\ IF cur[w] = Main
     THEN /\ closed' = TRUE
          /\ toTry' = [toTry EXCEPT ![w] = Workers]
          /\ Goto(w, "wake_up_all")
     ELSE Goto(w, "loop") /\ UNCHANGED <<closed, toTry>>
  /\ UNCHANGED <<global, runNext, local, idle, isSearching, shutdown, hand, victim, note,
                 target, driver, program>>

\* Shared::wake_up_all
WakeUpAll(w) ==
  /\ At(w, {"wake_up_all"})
  /\ IF toTry[w] = {}
     THEN Goto(w, "loop") /\ UNCHANGED <<toTry, evfd>>
     ELSE \E v \in toTry[w] :
            /\ evfd' = [evfd EXCEPT ![v] = TRUE]
            /\ toTry' = [toTry EXCEPT ![w] = @ \ {v}]
            /\ UNCHANGED pc
  /\ UNCHANGED <<queues, idle, isSearching, shutdown, cur, hand, victim, note, target,
                 sq, inflight, cq, flag, armed, cqWake, program>>

\* run returns; ~Worker waits on the latch for the other workers.
WorkerExit(w) ==
  /\ At(w, {"loop"}) /\ shutdown[w]
  /\ Goto(w, "arrived")
  /\ UNCHANGED <<queues, idle, isSearching, shutdown, locals, note, target, driver, program>>

\* mutant: the worker does not wait for the latch
DestroyedWithoutLatch(w) ==
  /\ At(w, {"arrived"})
  /\ Goto(w, "destroyed")
  /\ UNCHANGED <<queues, idle, isSearching, shutdown, locals, note, target, driver, program>>

\* The latch opens: the Worker and its Driver are destroyed.
WorkerDestroyed(w) ==
  /\ At(w, {"arrived"})
  /\ \A v \in Workers : pc[v] \in {"arrived", "destroyed"}
  /\ Goto(w, "destroyed")
  /\ UNCHANGED <<queues, idle, isSearching, shutdown, locals, note, target, driver, program>>

-----------------------------------------------------------------------------
\* Shared::schedule_remote by Ext: the coroutine of block_on, then others.
ScheduleRemote ==
  /\ note[Ext] = "none"
  /\ \E t \in IF pc[Ext] = "block_on" THEN {Main} ELSE remote :
       /\ remote' = remote \ {t}
       /\ global' = IF closed THEN global ELSE Append(global, t)
  /\ WakeUpOneIf(Ext, TRUE)
  /\ Goto(Ext, "join")
  /\ UNCHANGED <<closed, runNext, local, idle, isSearching, shutdown, locals, target, driver,
                 unborn, noIo, ran, signals>>

-----------------------------------------------------------------------------
WakeUpOne(x) == NotifyCheck(x) \/ NotifyLock(x) \/ NotifyWrite(x)

WorkerStep(w) ==
  \/ Maintenance(w)
  \/ GetGlobalFirst(w) \/ GetLocal(w) \/ GetGlobalShare(w) \/ GetNothing(w)
  \/ SearchCheck(w) \/ SearchInc(w) \/ StealTry(w) \/ StealEnd(w) \/ StealGlobal(w)
  \/ RunPoll(w)
  \/ SleepBegin(w) \/ TransitionToSleeping(w) \/ WakeUpIfWorkPending(w)
  \/ DriverWait(w) \/ TransitionFromSleeping(w)
  \/ ExecuteTask(w) \/ TaskSpawn(w) \/ TaskAwaitIo(w) \/ TaskEnd(w)
  \/ WakeUpAll(w) \/ WorkerExit(w) \/ WorkerDestroyed(w)

Next ==
  \/ \E x \in Threads : WakeUpOne(x)
  \/ \E w \in Workers : WorkerStep(w) \/ WaitInterrupted(w)
  \/ \E w \in Workers : IoComplete(w) \/ WakerComplete(w)
  \/ ScheduleRemote

Spec == Init /\ [][Next]_vars

\* Threads are scheduled, coroutines return, the kernel completes what was
\* submitted.  Ext and the signals that interrupt a wait owe nothing.
Fairness ==
  /\ \A x \in Threads : WF_vars(WakeUpOne(x))
  /\ \A w \in Workers : WF_vars(WorkerStep(w))
  /\ \A w \in Workers : WF_vars(IoComplete(w)) /\ WF_vars(WakerComplete(w))

FairSpec == Spec /\ Fairness

-----------------------------------------------------------------------------
Labels == {"block_on", "join", "loop", "next", "execute", "task", "search", "search_inc", "steal",
           "steal_end", "poll", "sleep", "to_sleep", "pending", "wait", "awake", "wake_up_all",
           "arrived", "destroyed"}

\* The variables keep their types; neither counter of IdleState runs over or
\* below zero.
TypeOK ==
  /\ global \in Seq(Tasks) /\ closed \in BOOLEAN
  /\ working \in 0..N /\ searching \in 0..N /\ sleeping \subseteq Workers
  /\ runNext \in [Workers -> Tasks \cup {NoTask}]
  /\ local \in [Workers -> Seq(Tasks)]
  /\ isSearching \in [Workers -> BOOLEAN] /\ shutdown \in [Workers -> BOOLEAN]
  /\ cur \in [Workers -> Tasks \cup {NoTask}] /\ hand \in [Workers -> Seq(Tasks)]
  /\ victim \in [Workers -> Workers] /\ toTry \in [Workers -> SUBSET Workers]
  /\ pc \in [Threads -> Labels] /\ note \in [Threads -> {"none", "check", "lock", "write"}]
  /\ target \in [Threads -> Threads]
  /\ sq \in [Workers -> SUBSET Tasks] /\ inflight \in [Workers -> SUBSET Tasks]
  /\ cq \in [Workers -> Seq(Tasks)]
  /\ evfd \in [Workers -> BOOLEAN] /\ flag \in [Workers -> BOOLEAN]
  /\ armed \in [Workers -> BOOLEAN] /\ cqWake \in [Workers -> BOOLEAN]
  /\ unborn \subseteq Tasks /\ remote \subseteq Tasks
  /\ noIo \subseteq Tasks /\ ran \subseteq Tasks
  /\ signals \in BOOLEAN

\* A worker between its entry into sleeping_workers and its return from sleep.
InSleep(w) == pc[w] \in {"pending", "wait", "awake"}

\* A notifier took w out of sleeping_workers and counted it as searching; w
\* has not noticed yet.
Notified(w) == InSleep(w) /\ w \notin sleeping

\* The packed counters of IdleState never drift: the working half is the
\* number of workers outside sleeping_workers (so *begin() in worker_to_notify
\* finds one), the searching half counts each is_searching_ worker and each
\* notified one exactly once, whatever wake-ups, I/O events and sleeps race.
\* (A worker that leaves on shutdown stays in sleeping_workers and may still be
\* counted by a late notifier.)
IdleCounts ==
  /\ working = N - Cardinality(sleeping)
  /\ ~closed => searching = Cardinality({w \in Workers : isSearching[w] \/ Notified(w)})
  /\ \A w \in Workers : ~(isSearching[w] /\ InSleep(w))

\* A wake-up of w is on its way: its eventfd is or will be written, or the
\* completion of its read is waiting to be polled.
WakePending(w) ==
  \/ evfd[w] \/ Completions(w)
  \/ \E x \in Threads : note[x] = "write" /\ target[x] = w

\* w is blocked and nothing will wake it.
Parked(w) == At(w, {"wait"}) /\ ~shutdown[w] /\ ~WakePending(w)

\* No lost wake-up: when nobody is searching or about to notify, and every
\* worker is parked, no task is waiting in the global queue or in a ring.
NoStrandedTask ==
  (\A w \in Workers : Parked(w)) /\ (\A x \in Threads : note[x] = "none") =>
    global = <<>> /\ \A w \in Workers : ~HasTasks(w)

\* A worker that was taken out of sleeping_workers is really woken: it never
\* stays blocked while the counters say it is searching.
NotifiedIsWoken == \A w \in Workers : ~(Notified(w) /\ Parked(w))

\* The read of the eventfd is armed, or completed, or about to be armed by
\* the next poll; a waiting worker can always be woken.
WakerArmed ==
  \A w \in Workers : At(w, {"wait"}) => armed[w] \/ cqWake[w]

\* Whoever is notified wakes up, and whoever sleeps can be woken.
WakeUpsArrive == NotifiedIsWoken /\ WakerArmed

\* The latch in ~Worker: no worker writes to the eventfd of a destroyed one,
\* although workers leave the loop while wake_up_all is still running.  It is
\* about workers; the thread of block_on, which the latch does not count, is
\* the subject of NoUseOfDestroyed in Handle.
NoWakeOfDestroyed ==
  \A w, v \in Workers :
    (pc[w] = "wake_up_all" /\ v \in toTry[w]) \/ (note[w] = "write" /\ target[w] = v)
      => pc[v] # "destroyed"

\* The coroutine is suspended: queued somewhere, or waiting for its operation.
Suspended(t) ==
  \/ \E i \in DOMAIN global : global[i] = t
  \/ \E w \in Workers :
       \/ t \in {runNext[w]} \cup sq[w] \cup inflight[w]
       \/ \E q \in {local[w], hand[w], cq[w]} : \E i \in DOMAIN q : q[i] = t

\* A coroutine that was scheduled, or whose operation was queued in a ring that
\* may not have been submitted yet, is resumed, or the runtime is closed first.
EveryTaskRuns ==
  \A t \in Tasks : Suspended(t) ~> (closed \/ \E w \in Workers : cur[w] = t)

\* Once the coroutine of block_on has ended every worker leaves its loop:
\* "when the first coroutine completes, the program ends" (runtime.md).
ShutdownCompletes == closed ~> \A w \in Workers : pc[w] = "destroyed"
=============================================================================
