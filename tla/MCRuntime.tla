----------------------------- MODULE MCRuntime -----------------------------
(***************************************************************************)
(* The parts of the library whose progress is checked on their own, in one *)
(* run: every behaviour picks one of them as its program, and the state of *)
(* the others stays as it was made.                                        *)
(***************************************************************************)
EXTENDS Mutex

CONSTANTS c1, c2, c3,
          SqSize, SubmitInterval, Batch, TicksPerMs, MaxTime, MaxOps, MaxQueued, Null,
          Tasks, Main, io_interval, global_queue_interval, NoTask,
          Capacity, Sizes, MaxErrors,
          WCapacity, WSizes, MaxWritten, MaxFaults,
          MaxMessages, PerBuffer, max_buffer_list_size,
          NumWorkers

VARIABLES
  program,
  clock, pending, fired, phase, left, sq, submit_tick, kernel, doomed, cq, flag, waits, entry,
  result, ops, crashed,                                                           \* Driver
  wpc, cur, run_next, local_queue, global_queue, is_closed, is_shutdown, tick, queue_locked,
  eventfd, cqes, st, s_handles, s_locked, masked, stuck,                          \* CurrentThread
  r_pos, content, unread, rpc, op, want, taken, from, ret, errors, cuts,          \* BufReader
  w_start, held, sink, bpc, wop, buf, made, counted, accepted, wret, faults,      \* BufWriter
  current, empties, fulls, running, lpc, at, file, logged, window, dropped, early, overrun,
                                                                                  \* FileLogger
  mainpc, started, sync, workers, hpc, victims, woken, hclosed, queued, towake, target, blocked_on,
  ended, raced, dangling                                                          \* Handle

driverState == <<clock, pending, fired, phase, left, sq, submit_tick, kernel, doomed, cq, flag, waits,
                 entry, result, ops, crashed>>
threadState == <<wpc, cur, run_next, local_queue, global_queue, is_closed, is_shutdown, tick,
                 queue_locked, eventfd, cqes, st, s_handles, s_locked, masked, stuck>>
readerState == <<r_pos, content, unread, rpc, op, want, taken, from, ret, errors, cuts>>
writerState == <<w_start, held, sink, bpc, wop, buf, made, counted, accepted, wret, faults>>
loggerState == <<current, empties, fulls, running, lpc, at, file, logged, window, dropped, early,
                 overrun>>
handleState == <<mainpc, started, sync, workers, hpc, victims, woken, hclosed, queued, towake, target,
                 blocked_on, ended, raced, dangling>>
allVars == <<program, vars, driverState, threadState, readerState, writerState, loggerState,
             handleState>>

ThreeCoros == {c1, c2, c3}

driver == INSTANCE Driver WITH Coros <- {c1, c2}, state <- waits
thread == INSTANCE CurrentThread
reader == INSTANCE BufReader WITH
  Text <- <<"x", "r", "n", "x", "n", "r">>, Flags <- {<<"n">>, <<"r", "n">>}
writer == INSTANCE BufWriter
logger == INSTANCE FileLogger
handle == INSTANCE Handle

RuntimeInit ==
  /\ program \in {"mutex", "driver", "thread", "reader", "writer", "logger", "handle"}
  /\ Init /\ driver!Init /\ thread!Init /\ reader!Init /\ writer!Init /\ logger!Init
  /\ handle!Init

\* A step A of one program
MutexRun(A) ==
  /\ program = "mutex" /\ A
  /\ UNCHANGED <<program, driverState, threadState, readerState, writerState, loggerState, handleState>>
Driver(A) ==
  /\ program = "driver" /\ A
  /\ UNCHANGED <<program, vars, threadState, readerState, writerState, loggerState, handleState>>
Thread(A) ==
  /\ program = "thread" /\ A
  /\ UNCHANGED <<program, vars, driverState, readerState, writerState, loggerState, handleState>>
Reader(A) ==
  /\ program = "reader" /\ A
  /\ UNCHANGED <<program, vars, driverState, threadState, writerState, loggerState, handleState>>
Writer(A) ==
  /\ program = "writer" /\ A
  /\ UNCHANGED <<program, vars, driverState, threadState, readerState, loggerState, handleState>>
Logger(A) ==
  /\ program = "logger" /\ A
  /\ UNCHANGED <<program, vars, driverState, threadState, readerState, writerState, handleState>>
Life(A) ==
  /\ program = "handle" /\ A
  /\ UNCHANGED <<program, vars, driverState, threadState, readerState, writerState, loggerState>>
RuntimeNext ==
  \/ MutexRun(Next) \/ Driver(driver!Next) \/ Thread(thread!Next) \/ Reader(reader!Next)
  \/ Writer(writer!Next) \/ Logger(logger!Next) \/ Life(handle!Next)

RuntimeSpec == RuntimeInit /\ [][RuntimeNext]_allVars

\* The fairness of the components.  A behaviour has one program, so weak
\* fairness of a disjunction of steps of different programs is weak fairness
\* of each; the steps of one program that are joined here are never enabled
\* together.
Holder(c) == MutexRun(UnlockStep(c) \/ Resume(c))
Loops ==
  \/ Driver(driver!PollBegin \/ driver!wait \/ driver!PollOne \/ driver!PollExpire
            \/ driver!PollSubmit)
  \/ Thread(thread!Worker)
  \/ Reader(reader!Direct \/ reader!Fill \/ reader!Until \/ reader!ScanAgain)
  \/ Writer(writer!SinkFails
            \/ \E n \in 1..WCapacity + MaxWritten : writer!Write(n) \/ writer!Flush(n))
  \/ Logger(logger!Work)
TimePasses ==
  \/ Driver(driver!Tick)
  \/ Thread(thread!Suspend("idle") \/ thread!Suspend("io") \/ thread!Finish \/ thread!SignalBlock)
CancelEnds(c) == Driver(c \in doomed /\ driver!Complete(c))

RuntimeFairness ==
  /\ WF_allVars(Loops \/ Holder(c1) \/ Life(handle!Owner))
  /\ WF_allVars(TimePasses \/ Holder(c2) \/ Life(handle!Worker(1)))
  /\ WF_allVars(CancelEnds(c1) \/ Holder(c3) \/ Life(handle!Worker(2)))
  /\ WF_allVars(CancelEnds(c2))

RuntimeFairSpec == RuntimeSpec /\ RuntimeFairness

-----------------------------------------------------------------------------
\* entry_ and the timer's entry point at each other, or neither is there; a
\* coroutine is resumed once for each operation it waits for; no cancel is left
\* that could hit a later operation; and only an operation whose deadline has
\* come ends as cancelled.
TimeoutsSettleOnce ==
  [][program = "driver" => /\ driver!EntryPointersLive' /\ driver!ResumedOnce'
                           /\ driver!NoStaleCancel' /\ driver!CancelledByTimer]_driverState

\* No handle is lost or run twice by the queues of the current-thread runtime,
\* the worker never blocks with a task to run, and the signal handler never
\* waits for s_mutex on the thread that holds it.
ThreadKeepsItsTasks ==
  program = "thread" => thread!ScheduledOnce /\ thread!NeverSleepsOnWork /\ thread!HandlerGetsMutex


\* A BufWriter passes on, in order, the bytes it said it took, its buffer is
\* never overfilled, write_all takes everything and write something, and a
\* flush leaves nothing behind.
WriterIsFaithful ==
  program = "writer" => /\ writer!WrittenInOrder /\ writer!WBufferFits
                        /\ writer!WriteMakesProgress /\ writer!FlushEmpties

\* The logger's thread writes no message twice, and none vanishes but in the
\* ways the code has.
LoggerIsFaithful == program = "logger" => logger!WrittenOnce /\ logger!NothingMissing

\* A worker is at the place of its index in workers_, which is read while it
\* changes only when the runtime is being started; and nobody uses a destroyed
\* Worker, but in the two ways the code has.
WorkersAreThere ==
  program = "handle" => handle!IndexIsPlace /\ handle!RacesOnlyAtStart /\ handle!NoUseOfDestroyed

\* What was begun ends: a lock() is granted; an operation with a deadline, and a
\* sleep, returns; every task that is scheduled on the current-thread runtime
\* runs, unless run_next_ is refilled for ever, and its worker leaves the loop
\* once the main coroutine has ended; every read, write and flush of the buffers
\* returns; a message that was logged gets to the file; and the destructor of a
\* runtime returns.
WhatIsBegunEnds ==
  /\ EveryAwaiterGranted
  /\ driver!DeadlineReturns
  /\ program = "thread" => thread!EveryTaskRuns /\ thread!OnlyLocalQueueStarves
  /\ thread!ShutdownCompletes
  /\ reader!EveryReadReturns
  /\ writer!EveryWriteReturns
  /\ logger!LoggedReachesFile
  /\ program = "handle" => handle!DestructorReturns
=============================================================================
