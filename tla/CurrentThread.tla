---------------------------- MODULE CurrentThread ----------------------------
(***************************************************************************)
(* The current-thread runtime and the signals its coroutines wait for      *)
(* (runtime/current_thread/*.hpp, runtime/runtime.hpp, signal/*.hpp).  One *)
(* thread runs the worker's loop; a signal handler runs on the same thread *)
(* between any two of its steps, unless the signal is blocked, and is an   *)
(* extra producer of the global queue.  The handler blocks for ever, and   *)
(* the thread with it, if the code it interrupted holds a mutex it needs.  *)
(***************************************************************************)
EXTENDS Integers, Sequences, Functions

CONSTANTS Tasks, Main,
          io_interval, global_queue_interval,
          NoTask

VARIABLES wpc, cur,           \* where the worker is and the task it executes
          run_next, local_queue, global_queue, is_closed, is_shutdown, tick,
          queue_locked,       \* mutex_ of the global queue is held
          eventfd,            \* written to since the worker last saw it
          cqes,               \* tasks whose I/O is complete
          st,                 \* idle, queued, running, io, signal, dropped or done
          s_handles, s_locked, masked,
          stuck               \* the mutex a signal handler blocks on

queueVars == <<run_next, local_queue, global_queue, queue_locked>>
signalVars == <<s_handles, s_locked, masked>>
endVars == <<is_closed, is_shutdown>>
ioVars == <<eventfd, cqes>>
ctVars == <<wpc, cur, queueVars, endVars, tick, ioVars, st, signalVars, stuck>>

\* block_on: schedule_task pushes the main coroutine, then the worker runs.
Init ==
  /\ wpc = "loop" /\ cur = NoTask /\ tick = 0
  /\ run_next = NoTask /\ local_queue = <<>> /\ global_queue = <<Main>> /\ queue_locked = FALSE
  /\ is_closed = FALSE /\ is_shutdown = FALSE
  /\ eventfd = TRUE /\ cqes = <<>>
  /\ st = [t \in Tasks |-> IF t = Main THEN "queued" ELSE "idle"]
  /\ s_handles = <<>> /\ s_locked = FALSE /\ masked = FALSE
  /\ stuck = "no"

At(l) == wpc = l /\ stuck = "no"
Goto(l) == wpc' = l
Start(t) == cur' = t /\ st' = [st EXCEPT ![t] = "running"] /\ Goto("exec")

-----------------------------------------------------------------------------
(* The loop of run()                                                       *)

TickPeriod == io_interval * global_queue_interval
Due(interval) == tick % interval = 0

Loop ==
  /\ At("loop") /\ ~is_shutdown
  /\ tick' = (tick + 1) % TickPeriod
  /\ Goto(IF tick' % io_interval = 0 THEN "maintenance" ELSE "get")
  /\ UNCHANGED <<cur, queueVars, endVars, ioVars, st, signalVars, stuck>>

Stop ==
  /\ At("loop") /\ is_shutdown /\ Goto("stopped")
  /\ UNCHANGED <<cur, queueVars, endVars, tick, ioVars, st, signalVars, stuck>>

check_shutdown == is_shutdown' = (is_shutdown \/ is_closed) /\ UNCHANGED is_closed

\* Driver::poll: completed I/O goes to the local queue, the eventfd is read.
poll ==
  /\ local_queue' = local_queue \o cqes /\ cqes' = <<>> /\ eventfd' = FALSE
  /\ st' = [t \in Tasks |-> IF t \in Range(cqes) THEN "queued" ELSE st[t]]
  /\ UNCHANGED <<run_next, global_queue, queue_locked>>
PollFinds == eventfd \/ cqes # <<>>

maintenance ==
  /\ At("maintenance") /\ poll /\ check_shutdown /\ Goto("get")
  /\ UNCHANGED <<cur, tick, signalVars, stuck>>

\* next_local_task()
next_local_task ==
  IF run_next # NoTask THEN run_next' = NoTask /\ Start(run_next) /\ UNCHANGED local_queue
  ELSE local_queue' = Tail(local_queue) /\ Start(Head(local_queue)) /\ UNCHANGED run_next
HasLocal == run_next # NoTask \/ local_queue # <<>>

\* get_next_task(): a local task, except on a tick of the global queue.
GetLocal ==
  /\ At("get") /\ HasLocal /\ ~Due(global_queue_interval) /\ next_local_task
  /\ UNCHANGED <<global_queue, queue_locked, endVars, tick, ioVars, signalVars, stuck>>

\* Otherwise pop() or pop_all() takes the mutex of the global queue...
GetGlobal ==
  /\ At("get") /\ (~HasLocal \/ Due(global_queue_interval))
  /\ queue_locked' = ~is_closed /\ Goto("pop")
  /\ UNCHANGED <<cur, run_next, local_queue, global_queue, endVars, tick, ioVars, st, signalVars,
                 stuck>>

\* ...and pops one task or all of them; what pop_all() brings besides the
\* first goes to the local queue.
Pop ==
  /\ At("pop") /\ queue_locked' = FALSE
  /\ IF queue_locked /\ global_queue # <<>>
     THEN /\ Start(Head(global_queue)) /\ UNCHANGED run_next
          /\ IF Due(global_queue_interval)
             THEN global_queue' = Tail(global_queue) /\ UNCHANGED local_queue
             ELSE global_queue' = <<>> /\ local_queue' = local_queue \o Tail(global_queue)
     ELSE /\ UNCHANGED global_queue
          /\ IF HasLocal THEN next_local_task
             ELSE Goto("poll") /\ UNCHANGED <<cur, st, run_next, local_queue>>
  /\ UNCHANGED <<endVars, tick, ioVars, signalVars, stuck>>

IdlePoll ==
  /\ At("poll") /\ poll
  /\ IF PollFinds THEN Goto("loop") /\ UNCHANGED endVars
     ELSE check_shutdown /\ Goto(IF is_shutdown' THEN "loop" ELSE "sleep")
  /\ UNCHANGED <<cur, tick, signalVars, stuck>>

\* sleep(): driver_.wait() returns on a completion or a wake-up; then the
\* queues are looked at, the global one under its mutex.
Wait ==
  /\ At("sleep") /\ PollFinds /\ poll /\ check_shutdown /\ Goto("wake")
  /\ UNCHANGED <<cur, tick, signalVars, stuck>>

WakeLock ==
  /\ At("wake") /\ ~queue_locked
  /\ IF local_queue # <<>> THEN Goto("loop") /\ UNCHANGED queue_locked
     ELSE queue_locked' = TRUE /\ UNCHANGED wpc
  /\ UNCHANGED <<cur, run_next, local_queue, global_queue, endVars, tick, ioVars, st, signalVars,
                 stuck>>

\* mutant: only the local queue is looked at
WakeCheckBlind ==
  /\ At("wake") /\ queue_locked /\ queue_locked' = FALSE
  /\ Goto(IF is_shutdown THEN "loop" ELSE "sleep")
  /\ UNCHANGED <<cur, run_next, local_queue, global_queue, endVars, tick, ioVars, st, signalVars,
                 stuck>>
WakeCheck ==
  /\ At("wake") /\ queue_locked /\ queue_locked' = FALSE
  /\ Goto(IF global_queue # <<>> \/ is_shutdown THEN "loop" ELSE "sleep")
  /\ UNCHANGED <<cur, run_next, local_queue, global_queue, endVars, tick, ioVars, st, signalVars,
                 stuck>>

-----------------------------------------------------------------------------
(* What the task in execution does.                                        *)

\* The task that was in run_next_ goes to the back of the queue.
Displaced == IF run_next # NoTask THEN Append(local_queue, run_next) ELSE local_queue

\* spawn(), or a primitive that wakes a coroutine up: schedule_local(u).
schedule_local(u) ==
  /\ At("exec") /\ st[u] = "idle"
  /\ st' = [st EXCEPT ![u] = "queued"]
  /\ local_queue' = Displaced /\ run_next' = u
  /\ UNCHANGED <<wpc, cur, global_queue, queue_locked, endVars, tick, ioVars, signalVars, stuck>>

\* The task suspends until somebody schedules it, or until its I/O is done.
Suspend(why) ==
  /\ At("exec") /\ st' = [st EXCEPT ![cur] = why] /\ cur' = NoTask /\ Goto("loop")
  /\ UNCHANGED <<queueVars, endVars, tick, ioVars, signalVars, stuck>>

\* The task ends; the main coroutine closes the runtime, which wakes the
\* worker up the first time.
close == is_closed' = TRUE /\ eventfd' = (eventfd \/ ~is_closed)
Finish ==
  /\ At("exec") /\ st' = [st EXCEPT ![cur] = "done"] /\ cur' = NoTask /\ Goto("loop")
  /\ IF cur = Main THEN close ELSE UNCHANGED <<is_closed, eventfd>>
  /\ UNCHANGED <<queueVars, is_shutdown, tick, cqes, signalVars, stuck>>

\* SignalHandler::push_back: block the signal, lock s_mutex, push, unlock,
\* unblock.
SignalBlock ==
  /\ At("exec") /\ masked' = TRUE /\ Goto("push_back")
  /\ UNCHANGED <<cur, queueVars, endVars, tick, ioVars, st, s_handles, s_locked, stuck>>
SignalPush ==
  /\ At("push_back") /\ ~s_locked
  /\ s_locked' = TRUE /\ s_handles' = Append(s_handles, cur)
  /\ UNCHANGED <<wpc, cur, queueVars, endVars, tick, ioVars, st, masked, stuck>>
SignalUnlock ==
  /\ At("push_back") /\ s_locked
  /\ s_locked' = FALSE /\ masked' = FALSE
  /\ st' = [st EXCEPT ![cur] = "signal"] /\ cur' = NoTask /\ Goto("loop")
  /\ UNCHANGED <<queueVars, endVars, tick, ioVars, s_handles, stuck>>

-----------------------------------------------------------------------------
(* The environment.                                                        *)

\* GlobalQueue::push_batch drops the handles if the queue is closed.
push_batch(handles) ==
  /\ global_queue' = IF is_closed THEN global_queue ELSE global_queue \o handles
  /\ st' = [t \in Tasks |-> IF t \notin Range(handles) THEN st[t]
                           ELSE IF is_closed THEN "dropped" ELSE "queued"]
schedule_remote_batch(handles) == push_batch(handles) /\ eventfd' = TRUE

\* SignalHandler::notify_all, on top of whatever the worker was doing
notify_all ==
  /\ ~masked /\ stuck = "no" /\ wpc # "stopped"
  /\ IF s_locked THEN stuck' = "s_mutex" /\ UNCHANGED <<s_handles, global_queue, st, eventfd>>
     ELSE /\ s_handles' = <<>>
          /\ IF queue_locked THEN stuck' = "mutex_" /\ UNCHANGED <<global_queue, st, eventfd>>
             ELSE schedule_remote_batch(s_handles) /\ UNCHANGED stuck
  /\ UNCHANGED <<wpc, cur, run_next, local_queue, queue_locked, endVars, tick, cqes, s_locked,
                 masked>>

IoComplete(t) ==
  /\ st[t] = "io" /\ t \notin Range(cqes) /\ wpc # "stopped" /\ cqes' = Append(cqes, t)
  /\ UNCHANGED <<wpc, cur, queueVars, endVars, tick, eventfd, st, signalVars, stuck>>

Worker ==
  \/ Loop \/ Stop \/ maintenance \/ GetLocal \/ GetGlobal \/ Pop \/ IdlePoll \/ Wait \/ WakeLock
  \/ WakeCheck \/ SignalPush \/ SignalUnlock

Run ==
  \/ \E u \in Tasks : schedule_local(u)
  \/ Suspend("idle") \/ Suspend("io") \/ Finish \/ SignalBlock

Next == Worker \/ Run \/ notify_all \/ \E t \in Tasks : IoComplete(t)

Spec == Init /\ [][Next]_ctVars

\* The worker's loop goes on, and no task runs for ever without an end or a
\* suspension.
Fairness ==
  /\ WF_ctVars(Worker)
  /\ WF_ctVars(Suspend("idle") \/ Suspend("io") \/ Finish \/ SignalBlock)

-----------------------------------------------------------------------------
\* A task that was scheduled is in one queue, once, and nothing else is: no
\* handle is lost or run twice.  Only a closed runtime drops tasks, those a
\* signal wakes up afterwards (queue.hpp:23-25).
ScheduledOnce ==
  LET places == (IF run_next = NoTask THEN <<>> ELSE <<run_next>>) \o local_queue \o global_queue
  IN /\ IsInjective(places)
     /\ \A i \in DOMAIN places : st[places[i]] = "queued"
     /\ stuck = "no" => \A t \in Tasks : st[t] = "queued" => t \in Range(places)

\* The worker never blocks in io_uring_wait_cqe with a task to run: whenever a
\* signal comes between its last look at the queues and the wait, the eventfd
\* ends the wait (worker.hpp:140-151).
NeverSleepsOnWork ==
  wpc = "sleep" /\ ~PollFinds /\ stuck = "no" =>
    ~HasLocal /\ global_queue = <<>> /\ ~is_closed

\* The handler never waits for s_mutex on the thread that holds it, because
\* push_back blocks the signal meanwhile (kind.hpp:89-112).
HandlerGetsMutex == stuck # "s_mutex"

\* next_local_task() is called with an empty run_next_, and so pops local_queue_.
LocalTurn ==
  /\ run_next = NoTask
  /\ \/ wpc = "get" /\ ~Due(global_queue_interval)
     \/ wpc = "pop" /\ Due(global_queue_interval) /\ ~(queue_locked /\ global_queue # <<>>)

\* From some time on the worker never sleeps, and coroutines have put another
\* into run_next_ whenever it asks for a local task.  It takes that one first,
\* and nothing in the code keeps local_queue_ from starving then
\* (worker.hpp:57-62, 120-129).
RefilledForEver == <>[](wpc # "sleep" /\ ~LocalTurn)

\* Every task that was scheduled runs, wherever the signal that scheduled it
\* interrupted the worker, unless run_next_ is refilled for ever, the runtime
\* closes first or the handler interrupted an operation on the global queue's
\* mutex.
EveryTaskRuns ==
  \/ RefilledForEver
  \/ \A t \in Tasks : st[t] = "queued" ~> (st[t] = "running" \/ is_closed \/ stuck # "no")

\* Only local_queue_ can starve: also when run_next_ is refilled for ever a task
\* that was scheduled runs or gets there.  Every global_queue_interval_ ticks the
\* worker looks into the global queue first (worker.hpp:100-101), and on the
\* others, if there are any, into run_next_.
OnlyLocalQueueStarves ==
  \A t \in Tasks : st[t] = "queued" ~>
    (st[t] = "running" \/ t \in Range(local_queue) \/ is_closed \/ stuck # "no")

\* Once the main coroutine has ended the worker leaves its loop, although the
\* other tasks may wake each other up for ever (worker.hpp:84-96).
ShutdownCompletes == is_closed ~> (wpc = "stopped" \/ stuck # "no")
=============================================================================
