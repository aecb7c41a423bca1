-------------------------- MODULE SchedulerProofs --------------------------
(***************************************************************************)
(* The safety of the multi-thread scheduler, for every number of workers   *)
(* and every program: the counters of IdleState, the wake-ups, the latch   *)
(* of the destructors, and that no task is stranded.                       *)
(***************************************************************************)
EXTENDS Scheduler, FiniteSetTheorems, TLAPS

\* What TypeOK says, the ranges of the counters left out, and what every label
\* says of the variables that its step reads.
QueueTypes ==
  /\ global \in Seq(Tasks) /\ closed \in BOOLEAN
  /\ runNext \in [Workers -> Tasks \cup {NoTask}] /\ local \in [Workers -> Seq(Tasks)]
  /\ hand \in [Workers -> Seq(Tasks)] /\ cur \in [Workers -> Tasks \cup {NoTask}]
IdleTypes ==
  /\ working \in Int /\ searching \in Int /\ sleeping \subseteq Workers
  /\ isSearching \in [Workers -> BOOLEAN] /\ shutdown \in [Workers -> BOOLEAN]
VictimTypes ==
  victim \in [Workers -> Workers] /\ toTry \in [Workers -> SUBSET Workers]
ThreadTypes ==
  /\ pc \in [Threads -> Labels] /\ note \in [Threads -> {"none", "check", "lock", "write"}]
  /\ target \in [Threads -> Threads]
  /\ \A x \in Threads : note[x] = "write" => target[x] \in Workers
  /\ \A w \in Workers : pc[w] \notin {"block_on", "join"}
LabelTypes ==
  /\ \A w \in Workers : pc[w] = "steal_end" => hand[w] # <<>>
  /\ \A w \in Workers : pc[w] \in {"execute", "task"} => cur[w] \in Tasks
DriverTypes ==
  /\ sq \in [Workers -> SUBSET Tasks] /\ inflight \in [Workers -> SUBSET Tasks]
  /\ cq \in [Workers -> Seq(Tasks)]
  /\ evfd \in [Workers -> BOOLEAN] /\ flag \in [Workers -> BOOLEAN]
  /\ armed \in [Workers -> BOOLEAN] /\ cqWake \in [Workers -> BOOLEAN]
ProgramTypes ==
  /\ unborn \subseteq Tasks /\ remote \subseteq Tasks
  /\ noIo \subseteq Tasks /\ ran \subseteq Tasks
  /\ signals \in BOOLEAN
Types ==
  /\ QueueTypes /\ IdleTypes /\ VictimTypes /\ ThreadTypes /\ LabelTypes
  /\ DriverTypes /\ ProgramTypes

\* A worker that has left its loop, or is about to.
Left(w) == pc[w] \in {"arrived", "destroyed"} \/ (pc[w] = "loop" /\ shutdown[w])

\* Where a worker may be while it is in sleeping_workers or is_searching_.
Where(w) ==
  /\ shutdown[w] \/ pc[w] \in {"arrived", "destroyed"} => closed
  /\ w \in sleeping => (InSleep(w) \/ Left(w)) /\ ~isSearching[w]
  /\ InSleep(w) \/ pc[w] = "search_inc" => ~isSearching[w]
  /\ pc[w] \in {"steal", "steal_end"} => isSearching[w]
WhereTheyAre == \A w \in Workers : Where(w)

\* Those that the searching half of state_ counts, and those that it may still
\* count although they have left.
Seeks(w) == isSearching[w] \/ Notified(w)
Searchers == {w \in Workers : Seeks(w)}
MayCount(w) == Seeks(w) \/ (Left(w) /\ w \notin sleeping)
Counted == {w \in Workers : MayCount(w)}

Counts ==
  /\ working = N - Cardinality(sleeping)
  /\ Cardinality(Searchers) <= searching /\ searching <= Cardinality(Counted)

\* flag_ is the opposite of the waker's read being submitted; who goes to
\* sleep has submitted it, and who was notified is written to.
CanWake(w) ==
  /\ flag[w] = ~armed[w]
  /\ pc[w] \in {"sleep", "to_sleep", "pending", "wait", "awake"} => armed[w] \/ cqWake[w]
  /\ Notified(w) => WakePending(w) \/ pc[w] = "awake"
Woken == \A w \in Workers : CanWake(w)

\* Workers are destroyed when all of them are done with notifying.
Gone(w) == pc[w] \in {"arrived", "destroyed"}
Latched ==
  /\ \A w \in Workers : Gone(w) => note[w] = "none"
  /\ \A v \in Workers : pc[v] = "destroyed" => \A w \in Workers : Gone(w)

\* No worker sleeps on tasks of its own, and a closed runtime wakes everybody.
GoesToSleep(w) == pc[w] \in {"to_sleep", "pending", "wait"}
WillHear(w) ==
  \/ shutdown[w] \/ evfd[w] \/ cqWake[w]
  \/ \E u \in Workers : pc[u] = "wake_up_all" /\ w \in toTry[u]
Dozes(w) == GoesToSleep(w) => ~HasTasks(w) /\ (closed => WillHear(w))
Dozing == \A w \in Workers : Dozes(w)

\* While the runtime is open somebody answers for the global queue: a notifier,
\* a searcher, the last of them on its second look, or a worker that has still
\* to look before it sleeps.
Fresh(w) ==
  pc[w] \in {"loop", "next", "search", "search_inc", "steal", "steal_end", "execute", "task",
             "wake_up_all"}
Covers(w) == Seeks(w) \/ w \in sleeping \/ Fresh(w)
Looks(w) == Seeks(w) \/ pc[w] = "pending" \/ Fresh(w)
Notifies(x) == note[x] \in {"check", "lock"}
Answered ==
  ~closed =>
    /\ \E w \in Workers : Covers(w)
    /\ global # <<>> => (\E x \in Threads : Notifies(x)) \/ \E w \in Workers : Looks(w)

SchedulerInv ==
  Types /\ WhereTheyAre /\ Counts /\ Woken /\ Latched /\ Dozing /\ Answered

\* What a step of worker w leaves alone: the thread of every other worker, and
\* what it is woken through.
OthersGoOn(w) ==
  \A v \in Workers : v # w =>
    /\ pc'[v] = pc[v] /\ note'[v] = note[v] /\ toTry'[v] = toTry[v]
    /\ isSearching'[v] = isSearching[v] /\ shutdown'[v] = shutdown[v]
    /\ v \in sleeping' <=> v \in sleeping
OthersDriven(w) ==
  \A v \in Workers : v # w =>
    /\ evfd[v] => evfd'[v]
    /\ flag'[v] = flag[v] /\ armed'[v] = armed[v] /\ cqWake'[v] = cqWake[v] /\ cq'[v] = cq[v]
    /\ runNext'[v] = runNext[v] /\ (local[v] = <<>> => local'[v] = <<>>)
WritesGoOn ==
  /\ closed => closed'
  /\ target' = target /\ \A x \in Threads : note[x] = "write" => note'[x] = "write"
  /\ note'[Ext] = note[Ext]

\* What the steps of Ext, of the kernel and most of those inside wake_up_one
\* leave alone.
WorkersStay ==
  /\ UNCHANGED <<closed, working, searching, sleeping, isSearching, shutdown, toTry>>
  /\ UNCHANGED <<runNext, local>>
  /\ \A w \in Workers : pc'[w] = pc[w]

-----------------------------------------------------------------------------
(* Types                                                                   *)

\* The queues stay sequences of tasks.
LEMMA Queues ==
  ASSUME NEW q \in Seq(Tasks)
  PROVE  /\ \A t \in Tasks : Append(q, t) \in Seq(Tasks) /\ Append(q, t) # <<>>
         /\ q # <<>> => Head(q) \in Tasks /\ Tail(q) \in Seq(Tasks)
         /\ q # <<>> => Len(q) >= 1 /\ q[Len(q)] \in Tasks
<1>1. ASSUME NEW t \in Tasks
      PROVE  Append(q, t) \in Seq(Tasks) /\ Append(q, t) # <<>>
  <2>1. Append(q, t) \in Seq(Tasks)
    OBVIOUS
  <2>2. Len(Append(q, t)) # Len(<<>>)
    OBVIOUS
  <2>3. QED
    BY <2>1, <2>2, Zenon
<1>2. q # <<>> => Head(q) \in Tasks /\ Tail(q) \in Seq(Tasks)
  OBVIOUS
<1>3. q # <<>> => Len(q) >= 1 /\ q[Len(q)] \in Tasks
  OBVIOUS
<1>4. QED
  BY <1>1, <1>2, <1>3, Zenon
\* Publishing tasks behind others.
LEMMA Joined ==
  ASSUME NEW q \in Seq(Tasks), NEW r \in Seq(Tasks)
  PROVE  q \o r \in Seq(Tasks) /\ (r = <<>> => q \o r = q)
  OBVIOUS
\* A part of a queue.
LEMMA Cut ==
  ASSUME NEW q \in Seq(Tasks), NEW m \in Nat \ {0}, NEW n \in Nat, n <= Len(q)
  PROVE  SubSeq(q, m, n) \in Seq(Tasks) /\ (m <= n => SubSeq(q, m, n) # <<>>)
  OBVIOUS

\* The half that is stolen, and the share of the global queue, of a queue that
\* is not empty.
LEMMA Half ==
  ASSUME NEW q \in Seq(Tasks), q # <<>>, NEW n, n = Len(q) - Len(q) \div 2
  PROVE  /\ SubSeq(q, 1, n) \in Seq(Tasks) /\ SubSeq(q, 1, n) # <<>>
         /\ SubSeq(q, n + 1, Len(q)) \in Seq(Tasks)
<1>1. n \in Nat \ {0} /\ n <= Len(q) /\ Len(q) \in Nat /\ n + 1 \in Nat \ {0}
  OBVIOUS
<1>2. SubSeq(q, 1, n) \in Seq(Tasks) /\ SubSeq(q, 1, n) # <<>>
  <2>1. \A m \in Nat \ {0} : m <= n => SubSeq(q, m, n) \in Seq(Tasks) /\ SubSeq(q, m, n) # <<>>
    BY <1>1, Cut, Zenon
  <2>2. QED
    BY <1>1, <2>1
<1>3. SubSeq(q, n + 1, Len(q)) \in Seq(Tasks)
  <2>1. \A m \in Nat \ {0} : SubSeq(q, m, Len(q)) \in Seq(Tasks)
    BY <1>1, Cut
  <2>2. QED
    BY <1>1, <2>1, Zenon
<1>4. QED
  BY <1>2, <1>3, Zenon
\* pop_n takes at least one task and no more than there are.
LEMMA Share ==
  ASSUME N \in Nat \ {0}, NEW q \in Seq(Tasks), q # <<>>
  PROVE  (IF Len(q) \div N + 1 <= Len(q) THEN Len(q) \div N + 1 ELSE Len(q)) \in 1 .. Len(q)
<1>1. Len(q) \in Nat \ {0}
  OBVIOUS
<1>2. Len(q) \div N \in Nat
  BY <1>1
<1>3. QED
  BY <1>1, <1>2

\* Driver::poll
LEMMA PollTypes ==
  ASSUME QueueTypes, DriverTypes, NEW w \in Workers, DriverPoll(w)
  PROVE  /\ DriverTypes' /\ local' \in [Workers -> Seq(Tasks)]
         /\ UNCHANGED <<global, closed, runNext, evfd>>
<1>1. local[w] \o cq[w] \in Seq(Tasks) /\ <<>> \in Seq(Tasks)
  BY Joined DEF QueueTypes, DriverTypes
<1>2. QED
  BY <1>1, Zenon DEF DriverPoll, QueueTypes, DriverTypes

\* Each group of variables keeps its type; the steps are taken together
\* where they treat the group alike.
LEMMA ProgramTypesStep ==
  ASSUME ProgramTypes, LabelTypes, [Next]_vars
  PROVE  ProgramTypes'
<1>1. ASSUME NEW w \in Workers, ExecuteTask(w) \/ TaskSpawn(w) \/ TaskAwaitIo(w)
      PROVE  ProgramTypes'
  BY <1>1, Zenon DEF ExecuteTask, TaskSpawn, TaskAwaitIo, At, ProgramTypes, LabelTypes
<1>2. ASSUME ScheduleRemote
      PROVE  ProgramTypes'
  BY <1>2, Zenon DEF ScheduleRemote, ProgramTypes, LabelTypes
<1>3. ASSUME NEW x \in Threads,
             NotifyCheck(x) \/ NotifyLock(x) \/ NotifyWrite(x)
      PROVE  ProgramTypes'
  BY <1>3, Zenon DEF NotifyCheck, NotifyLock, NotifyWrite, program, ProgramTypes
<1>4. ASSUME NEW w \in Workers,
             \/ IoComplete(w) \/ WakerComplete(w) \/ Maintenance(w) \/ GetGlobalFirst(w)
             \/ GetLocal(w) \/ GetGlobalShare(w) \/ GetNothing(w) \/ SearchCheck(w)
             \/ SearchInc(w) \/ StealTry(w) \/ StealEnd(w) \/ StealGlobal(w) \/ RunPoll(w)
             \/ SleepBegin(w) \/ TransitionToSleeping(w) \/ WakeUpIfWorkPending(w)
             \/ DriverWait(w) \/ WaitInterrupted(w) \/ TransitionFromSleeping(w)
             \/ TaskEnd(w) \/ WakeUpAll(w) \/ WorkerExit(w) \/ WorkerDestroyed(w)
      PROVE  ProgramTypes'
  BY <1>4, Zenon DEF IoComplete, WakerComplete, Maintenance, GetGlobalFirst, GetLocal,
     GetGlobalShare, GetNothing, SearchCheck, SearchInc, StealTry, StealEnd, StealGlobal, RunPoll,
     SleepBegin, TransitionToSleeping, WakeUpIfWorkPending, DriverWait, WaitInterrupted,
     TransitionFromSleeping, TaskEnd, WakeUpAll, WorkerExit, WorkerDestroyed, program,
     ProgramTypes
<1>5. CASE UNCHANGED vars
  BY <1>5, Zenon DEF vars, program, ProgramTypes
<1>6. QED
  BY <1>1, <1>2, <1>3, <1>4, <1>5, Zenon DEF Next, WorkerStep, WakeUpOne

\* IdleState and the flags of the workers.
LEMMA IdleTypesStep ==
  ASSUME IdleTypes, QueueTypes, [Next]_vars
  PROVE  IdleTypes'
<1>1. ASSUME NEW w \in Workers, Maintenance(w)
      PROVE  IdleTypes'
  BY <1>1, Zenon DEF Maintenance, idle, IdleTypes, QueueTypes
<1>2. ASSUME NEW w \in Workers, SearchInc(w)
      PROVE  IdleTypes'
  BY <1>2 DEF SearchInc, IdleTypes, QueueTypes
<1>3. ASSUME NEW w \in Workers, SleepBegin(w)
      PROVE  IdleTypes'
  BY <1>3, Zenon DEF SleepBegin, idle, IdleTypes, QueueTypes
<1>4. ASSUME NEW w \in Workers, TransitionToSleeping(w)
      PROVE  IdleTypes'
  BY <1>4 DEF TransitionToSleeping, transition_worker_to_sleeping, dec_num_working, IdleTypes,
     QueueTypes
<1>5. ASSUME NEW w \in Workers, TransitionFromSleeping(w)
      PROVE  IdleTypes'
  <2>1. shutdown' \in [Workers -> BOOLEAN] /\ isSearching' \in [Workers -> BOOLEAN]
    BY <1>5, Zenon DEF TransitionFromSleeping, contains, IdleTypes, QueueTypes
  <2>2. QED
    BY <1>5, <2>1 DEF TransitionFromSleeping, remove, wake_up_one, idle, IdleTypes
<1>6. ASSUME NEW w \in Workers, ExecuteTask(w)
      PROVE  IdleTypes'
  BY <1>6 DEF ExecuteTask, dec_num_searching, IdleTypes, QueueTypes
<1>7. ASSUME NEW x \in Threads, NotifyLock(x)
      PROVE  IdleTypes'
  BY <1>7 DEF NotifyLock, NotifyShouldWakeup, wake_up_one, idle, IdleTypes, QueueTypes
<1>8. ASSUME NEW x \in Threads,
             NotifyCheck(x) \/ NotifyWrite(x)
      PROVE  IdleTypes'
  BY <1>8, Zenon DEF NotifyCheck, NotifyWrite, idle, IdleTypes
<1>9. ASSUME NEW w \in Workers,
             \/ IoComplete(w) \/ WakerComplete(w) \/ GetGlobalFirst(w) \/ GetLocal(w)
             \/ GetGlobalShare(w) \/ GetNothing(w) \/ SearchCheck(w) \/ StealTry(w)
             \/ StealEnd(w) \/ StealGlobal(w) \/ RunPoll(w) \/ WakeUpIfWorkPending(w)
             \/ DriverWait(w) \/ WaitInterrupted(w) \/ TaskSpawn(w) \/ TaskAwaitIo(w)
             \/ TaskEnd(w) \/ WakeUpAll(w) \/ WorkerExit(w) \/ WorkerDestroyed(w)
      PROVE  IdleTypes'
  BY <1>9, Zenon DEF IoComplete, WakerComplete, GetGlobalFirst, GetLocal, GetGlobalShare,
     GetNothing, SearchCheck, StealTry, StealEnd, StealGlobal, RunPoll, WakeUpIfWorkPending,
     DriverWait, WaitInterrupted, TaskSpawn, TaskAwaitIo, TaskEnd, WakeUpAll, WorkerExit,
     WorkerDestroyed, idle, IdleTypes
<1>10. ASSUME ScheduleRemote
       PROVE  IdleTypes'
  BY <1>10, Zenon DEF ScheduleRemote, idle, IdleTypes
<1>11. CASE UNCHANGED vars
  BY <1>11, Zenon DEF vars, idle, IdleTypes
<1>12. QED
  BY <1>1, <1>2, <1>3, <1>4, <1>5, <1>6, <1>7, <1>8, <1>9, <1>10, <1>11, Zenon DEF Next,
     WorkerStep, WakeUpOne

\* Whom a worker robs, and whom it has still to look at.
LEMMA VictimTypesStep ==
  ASSUME VictimTypes, [Next]_vars
  PROVE  VictimTypes'
<1>1. ASSUME NEW w \in Workers, StealTry(w)
      PROVE  VictimTypes'
  <2>1. ASSUME NEW v \in toTry[w], StealHalf(w, v)
        PROVE  VictimTypes'
    BY <2>1, Zenon DEF StealHalf, VictimTypes
  <2>2. ASSUME NEW v \in toTry[w], toTry' = [toTry EXCEPT ![w] = toTry[w] \ {v}], UNCHANGED victim
        PROVE  VictimTypes'
    BY <2>2, Zenon DEF VictimTypes
  <2>3. QED
    BY <1>1, <2>1, <2>2, Zenon DEF StealTry
<1>2. ASSUME NEW w \in Workers, SearchCheck(w) \/ SearchInc(w)
      PROVE  VictimTypes'
  BY <1>2 DEF SearchCheck, SearchInc, VictimTypes
<1>3. ASSUME NEW w \in Workers, StealEnd(w)
      PROVE  VictimTypes'
  BY <1>3, Zenon DEF StealEnd, VictimTypes
<1>4. ASSUME NEW w \in Workers, TransitionToSleeping(w) \/ WakeUpIfWorkPending(w)
      PROVE  VictimTypes'
  BY <1>4 DEF TransitionToSleeping, WakeUpIfWorkPending, VictimTypes
<1>5. ASSUME NEW w \in Workers, TaskEnd(w)
      PROVE  VictimTypes'
  BY <1>5, Zenon DEF TaskEnd, VictimTypes
<1>6. ASSUME NEW w \in Workers, WakeUpAll(w)
      PROVE  VictimTypes'
  BY <1>6 DEF WakeUpAll, VictimTypes
<1>7. ASSUME NEW x \in Threads,
             NotifyCheck(x) \/ NotifyLock(x) \/ NotifyWrite(x)
      PROVE  VictimTypes'
  BY <1>7, Zenon DEF NotifyCheck, NotifyLock, NotifyWrite, locals, VictimTypes
<1>8. ASSUME NEW w \in Workers,
             \/ IoComplete(w) \/ WakerComplete(w) \/ Maintenance(w) \/ GetGlobalFirst(w)
             \/ GetLocal(w) \/ GetGlobalShare(w) \/ GetNothing(w) \/ StealGlobal(w)
             \/ RunPoll(w) \/ SleepBegin(w) \/ DriverWait(w) \/ WaitInterrupted(w)
             \/ TransitionFromSleeping(w) \/ ExecuteTask(w) \/ TaskSpawn(w)
             \/ TaskAwaitIo(w) \/ WorkerExit(w) \/ WorkerDestroyed(w)
      PROVE  VictimTypes'
  BY <1>8, Zenon DEF IoComplete, WakerComplete, Maintenance, GetGlobalFirst, GetLocal,
     GetGlobalShare, GetNothing, StealGlobal, RunPoll, SleepBegin, DriverWait, WaitInterrupted,
     TransitionFromSleeping, ExecuteTask, TaskSpawn, TaskAwaitIo, WorkerExit, WorkerDestroyed,
     locals, VictimTypes
<1>9. ASSUME ScheduleRemote
      PROVE  VictimTypes'
  BY <1>9, Zenon DEF ScheduleRemote, locals, VictimTypes
<1>10. CASE UNCHANGED vars
  BY <1>10, Zenon DEF vars, locals, VictimTypes
<1>11. QED
  BY <1>1, <1>2, <1>3, <1>4, <1>5, <1>6, <1>7, <1>8, <1>9, <1>10, Zenon DEF Next, WorkerStep,
     WakeUpOne

\* The submission and completion queues, and the waker of each driver.
LEMMA DriverTypesStep ==
  ASSUME DriverTypes, QueueTypes, ThreadTypes, VictimTypes, ProgramTypes, [Next]_vars
  PROVE  DriverTypes'
<1>1. ASSUME NEW w \in Workers, Maintenance(w)
      PROVE  DriverTypes'
  BY <1>1, PollTypes, Zenon DEF Maintenance, Poll
<1>2. ASSUME NEW w \in Workers, RunPoll(w)
      PROVE  DriverTypes'
  BY <1>2, PollTypes, Zenon DEF RunPoll, Poll
<1>3. ASSUME NEW w \in Workers, DriverWait(w)
      PROVE  DriverTypes'
  BY <1>3, PollTypes, Zenon DEF DriverWait, Poll, DriverTypes, driver
<1>4. ASSUME NEW w \in Workers, WaitInterrupted(w)
      PROVE  DriverTypes'
  BY <1>4, PollTypes, Zenon DEF WaitInterrupted, Poll
<1>5. ASSUME NEW w \in Workers, TaskAwaitIo(w)
      PROVE  DriverTypes'
  <2>1. /\ sq[w] \cup {cur[w]} \subseteq Tasks
        /\ inflight[w] \cup (sq[w] \cup {cur[w]}) \subseteq Tasks
    BY <1>5, Zenon DEF TaskAwaitIo, DriverTypes, ProgramTypes
  <2>2. sq' \in [Workers -> SUBSET Tasks]
    BY <1>5, <2>1, Zenon DEF TaskAwaitIo, DriverTypes
  <2>3. inflight' \in [Workers -> SUBSET Tasks]
    BY <1>5, <2>1, Zenon DEF TaskAwaitIo, DriverTypes
  <2>4. QED
    BY <1>5, <2>2, <2>3, Zenon DEF TaskAwaitIo, DriverTypes
<1>6. ASSUME NEW w \in Workers, WakeUpAll(w)
      PROVE  DriverTypes'
  BY <1>6, Queues, Zenon DEF WakeUpAll, DriverTypes, ThreadTypes, VictimTypes, ProgramTypes
<1>7. ASSUME NEW x \in Threads, NotifyWrite(x)
      PROVE  DriverTypes'
  BY <1>7, Queues, Zenon DEF NotifyWrite, DriverTypes, ThreadTypes, VictimTypes, ProgramTypes
<1>8. ASSUME NEW w \in Workers, IoComplete(w)
      PROVE  DriverTypes'
  BY <1>8, Queues DEF IoComplete, DriverTypes, ThreadTypes, VictimTypes, ProgramTypes
<1>9. ASSUME NEW w \in Workers, WakerComplete(w)
      PROVE  DriverTypes'
  BY <1>9, Queues, Zenon DEF WakerComplete, DriverTypes, ThreadTypes, VictimTypes, ProgramTypes
<1>10. ASSUME NEW x \in Threads,
              NotifyCheck(x) \/ NotifyLock(x)
       PROVE  DriverTypes'
  BY <1>10, Zenon DEF NotifyCheck, NotifyLock, driver, DriverTypes
<1>11. ASSUME NEW w \in Workers,
              \/ GetGlobalFirst(w) \/ GetLocal(w) \/ GetGlobalShare(w) \/ GetNothing(w)
              \/ SearchCheck(w) \/ SearchInc(w) \/ StealTry(w) \/ StealEnd(w)
              \/ StealGlobal(w) \/ SleepBegin(w) \/ TransitionToSleeping(w)
              \/ WakeUpIfWorkPending(w) \/ TransitionFromSleeping(w) \/ ExecuteTask(w)
              \/ TaskSpawn(w) \/ TaskEnd(w) \/ WorkerExit(w) \/ WorkerDestroyed(w)
       PROVE  DriverTypes'
  BY <1>11, Zenon DEF GetGlobalFirst, GetLocal, GetGlobalShare, GetNothing, SearchCheck,
     SearchInc, StealTry, StealEnd, StealGlobal, SleepBegin, TransitionToSleeping,
     WakeUpIfWorkPending, TransitionFromSleeping, ExecuteTask, TaskSpawn, TaskEnd, WorkerExit,
     WorkerDestroyed, driver, DriverTypes
<1>12. ASSUME ScheduleRemote
       PROVE  DriverTypes'
  BY <1>12, Zenon DEF ScheduleRemote, driver, DriverTypes
<1>13. CASE UNCHANGED vars
  BY <1>13, Zenon DEF vars, driver, DriverTypes
<1>14. QED
  BY <1>1, <1>2, <1>3, <1>4, <1>5, <1>6, <1>7, <1>8, <1>9, <1>10, <1>11, <1>12, <1>13, Zenon DEF
     Next, WorkerStep, WakeUpOne

\* Every thread is at a label, and who writes to an eventfd writes to that of
\* a worker.
LEMMA ThreadTypesStep ==
  ASSUME ThreadTypes, IdleTypes, [Next]_vars
  PROVE  ThreadTypes'
<1>1. ASSUME NEW w \in Workers,
             \/ Maintenance(w) \/ GetGlobalFirst(w) \/ GetLocal(w) \/ GetGlobalShare(w)
             \/ GetNothing(w)
      PROVE  ThreadTypes'
  BY <1>1 DEF Maintenance, GetGlobalFirst, GetLocal, GetGlobalShare, GetNothing, Goto, Poll,
     WakeUpOneIf, Execute, ThreadTypes, IdleTypes, Labels, Threads
<1>2. ASSUME NEW w \in Workers, SearchCheck(w) \/ SearchInc(w) \/ StealTry(w)
      PROVE  ThreadTypes'
  BY <1>2, Zenon DEF SearchCheck, SearchInc, StealTry, Goto, StealHalf, ThreadTypes, IdleTypes,
     Labels, Threads
<1>3. ASSUME NEW w \in Workers, StealEnd(w) \/ StealGlobal(w)
      PROVE  ThreadTypes'
  BY <1>3, Zenon DEF StealEnd, StealGlobal, Execute, Goto, ThreadTypes, IdleTypes, Labels, Threads
<1>4. ASSUME NEW w \in Workers,
             \/ RunPoll(w) \/ SleepBegin(w) \/ TransitionToSleeping(w)
             \/ WakeUpIfWorkPending(w)
      PROVE  ThreadTypes'
  BY <1>4 DEF RunPoll, SleepBegin, TransitionToSleeping, WakeUpIfWorkPending, Goto, Poll,
     WakeUpOneIf, ThreadTypes, IdleTypes, Labels, Threads
<1>5. ASSUME NEW w \in Workers,
             DriverWait(w) \/ WaitInterrupted(w) \/ TransitionFromSleeping(w)
      PROVE  ThreadTypes'
  BY <1>5 DEF DriverWait, WaitInterrupted, TransitionFromSleeping, Goto, ThreadTypes, IdleTypes,
     Labels, Threads
<1>6. ASSUME NEW w \in Workers,
             ExecuteTask(w) \/ TaskSpawn(w) \/ TaskAwaitIo(w) \/ TaskEnd(w)
      PROVE  ThreadTypes'
  BY <1>6, Zenon DEF ExecuteTask, TaskSpawn, TaskAwaitIo, TaskEnd, Goto, WakeUpOneIf, ThreadTypes,
     IdleTypes, Labels, Threads
<1>7. ASSUME NEW w \in Workers, WakeUpAll(w) \/ WorkerExit(w) \/ WorkerDestroyed(w)
      PROVE  ThreadTypes'
  BY <1>7 DEF WakeUpAll, WorkerExit, WorkerDestroyed, Goto, ThreadTypes, IdleTypes, Labels,
     Threads
<1>8. ASSUME NEW x \in Threads, NotifyCheck(x) \/ NotifyLock(x) \/ NotifyWrite(x)
      PROVE  ThreadTypes'
  BY <1>8 DEF NotifyCheck, NotifyLock, NotifyWrite, ThreadTypes, IdleTypes, Labels, Threads
<1>9. ASSUME ScheduleRemote
      PROVE  ThreadTypes'
  BY <1>9, ThreadsAssumption, Zenon DEF ScheduleRemote, WakeUpOneIf, Goto, ThreadTypes, IdleTypes,
     Labels, Threads
<1>10. ASSUME NEW w \in Workers,
              IoComplete(w) \/ WakerComplete(w)
       PROVE  ThreadTypes'
  BY <1>10, Zenon DEF IoComplete, WakerComplete, ThreadTypes
<1>11. CASE UNCHANGED vars
  BY <1>11, Zenon DEF vars, ThreadTypes
<1>12. QED
  BY <1>1, <1>2, <1>3, <1>4, <1>5, <1>6, <1>7, <1>8, <1>9, <1>10, <1>11, Zenon DEF Next,
     WorkerStep, WakeUpOne

\* Who has stolen holds tasks, who executes holds one.
LEMMA LabelTypesStep ==
  ASSUME LabelTypes, ThreadTypes, QueueTypes, VictimTypes, [Next]_vars
  PROVE  LabelTypes'
<1>1. ASSUME NEW w \in Workers, GetLocal(w)
      PROVE  LabelTypes'
  <2>1. cur'[w] \in Tasks /\ \A v \in Workers : v # w => cur'[v] = cur[v]
    BY <1>1, Queues DEF GetLocal, Execute, HasTasks, QueueTypes
  <2>2. QED
    BY <1>1, <2>1, Zenon DEF GetLocal, Execute, Goto, LabelTypes, ThreadTypes, Threads
<1>2. ASSUME NEW w \in Workers,
             Maintenance(w) \/ GetGlobalFirst(w) \/ GetGlobalShare(w) \/ GetNothing(w)
      PROVE  LabelTypes'
  BY <1>2, Queues DEF Maintenance, GetGlobalFirst, GetGlobalShare, GetNothing, At, Goto, AtNext,
     Execute, HasTasks, locals, LabelTypes, ThreadTypes, QueueTypes, Threads
<1>3. ASSUME NEW w \in Workers, StealTry(w)
      PROVE  LabelTypes'
  <2>1. ASSUME NEW v \in toTry[w], local[v] # <<>>, StealHalf(w, v)
        PROVE  LabelTypes'
    <3>1. local[v] \in Seq(Tasks)
      BY Zenon DEF QueueTypes, VictimTypes
    <3>2. SubSeq(local[v], 1, Len(local[v]) - Len(local[v]) \div 2) # <<>>
      BY <2>1, <3>1, Half, Zenon
    <3>3. hand'[w] # <<>> /\ \A u \in Workers : u # w => hand'[u] = hand[u]
      BY <2>1, <3>2, Zenon DEF StealHalf, QueueTypes
    <3>4. QED
      BY <1>3, <2>1, <3>3, Zenon DEF StealTry, StealHalf, Goto, LabelTypes, ThreadTypes, Threads
  <2>2. QED
    BY <1>3, <2>1, Zenon DEF StealTry, LabelTypes
<1>4. ASSUME NEW w \in Workers, SearchCheck(w) \/ SearchInc(w)
      PROVE  LabelTypes'
  BY <1>4, Queues, Zenon DEF SearchCheck, SearchInc, At, Goto, LabelTypes, ThreadTypes,
     QueueTypes, Threads
<1>5. ASSUME NEW w \in Workers, StealEnd(w) \/ StealGlobal(w)
      PROVE  LabelTypes'
  <2>1. CASE StealEnd(w)
    BY <2>1, Queues, Zenon DEF StealEnd, At, Execute, Goto, LabelTypes, ThreadTypes, QueueTypes,
       Threads
  <2>2. CASE StealGlobal(w)
    <3>1. global # <<>> => Head(global) \in Tasks
      BY Queues, Zenon DEF QueueTypes
    <3>2. QED
      BY <2>2, <3>1, Zenon DEF StealGlobal, Execute, Goto, LabelTypes, ThreadTypes, QueueTypes,
         Threads
  <2>3. QED
    BY <1>5, <2>1, <2>2, Zenon
<1>6. ASSUME NEW w \in Workers,
             \/ RunPoll(w) \/ SleepBegin(w) \/ TransitionToSleeping(w)
             \/ WakeUpIfWorkPending(w)
      PROVE  LabelTypes'
  BY <1>6, Queues, Zenon DEF RunPoll, SleepBegin, TransitionToSleeping, WakeUpIfWorkPending, At,
     Goto, locals, LabelTypes, ThreadTypes, QueueTypes, Threads
<1>7. ASSUME NEW w \in Workers,
             DriverWait(w) \/ WaitInterrupted(w) \/ TransitionFromSleeping(w)
      PROVE  LabelTypes'
  BY <1>7, Queues, Zenon DEF DriverWait, WaitInterrupted, TransitionFromSleeping, At, Goto,
     locals, LabelTypes, ThreadTypes, QueueTypes, Threads
<1>8. ASSUME NEW w \in Workers, ExecuteTask(w) \/ TaskAwaitIo(w) \/ TaskEnd(w)
      PROVE  LabelTypes'
  BY <1>8, Queues DEF ExecuteTask, TaskAwaitIo, TaskEnd, At, Goto, locals, LabelTypes,
     ThreadTypes, QueueTypes, Threads
<1>9. ASSUME NEW w \in Workers, WakeUpAll(w) \/ WorkerExit(w) \/ WorkerDestroyed(w)
      PROVE  LabelTypes'
  BY <1>9, Queues, Zenon DEF WakeUpAll, WorkerExit, WorkerDestroyed, At, Goto, locals, LabelTypes,
     ThreadTypes, QueueTypes, Threads
<1>10. ASSUME ScheduleRemote
       PROVE  LabelTypes'
  BY <1>10, Queues, Zenon DEF ScheduleRemote, Goto, locals, LabelTypes, ThreadTypes, QueueTypes,
     Threads
<1>11. ASSUME NEW x \in Threads,
              NotifyCheck(x) \/ NotifyLock(x) \/ NotifyWrite(x)
       PROVE  LabelTypes'
  BY <1>11, Zenon DEF NotifyCheck, NotifyLock, NotifyWrite, locals, LabelTypes
<1>12. ASSUME NEW w \in Workers,
              IoComplete(w) \/ WakerComplete(w) \/ TaskSpawn(w)
       PROVE  LabelTypes'
  BY <1>12, Zenon DEF IoComplete, WakerComplete, TaskSpawn, locals, LabelTypes
<1>13. CASE UNCHANGED vars
  BY <1>13, Zenon DEF vars, locals, LabelTypes
<1>14. QED
  BY <1>1, <1>2, <1>3, <1>4, <1>5, <1>6, <1>7, <1>8, <1>9, <1>10, <1>11, <1>12, <1>13, Zenon DEF
     Next, WorkerStep, WakeUpOne

\* All that is queued, stolen or run is a task.
LEMMA QueueTypesStep ==
  ASSUME N \in Nat \ {0}, QueueTypes, LabelTypes, ProgramTypes, VictimTypes, DriverTypes,
         [Next]_vars
  PROVE  QueueTypes'
<1>1. ASSUME NEW w \in Workers, Maintenance(w)
      PROVE  QueueTypes'
  BY <1>1, PollTypes, Zenon DEF Maintenance, Poll, QueueTypes, locals
<1>2. ASSUME NEW w \in Workers, GetLocal(w)
      PROVE  QueueTypes'
  <2>1. ASSUME NEW t \in Tasks, cur' = [cur EXCEPT ![w] = t]
        PROVE  cur' \in [Workers -> Tasks \cup {NoTask}]
    BY <2>1, Zenon DEF QueueTypes
  <2>2. runNext' \in [Workers -> Tasks \cup {NoTask}]
    BY <1>2, Zenon DEF GetLocal, QueueTypes
  <2>3. local' \in [Workers -> Seq(Tasks)]
    <3>1. runNext[w] # NoTask \/ Tail(local[w]) \in Seq(Tasks)
      BY <1>2, Queues, Zenon DEF GetLocal, HasTasks, QueueTypes
    <3>2. QED
      BY <1>2, <3>1, Zenon DEF GetLocal, QueueTypes
  <2>4. QED
    BY <1>2, <2>1, <2>2, <2>3, Queues, Zenon DEF GetLocal, Execute, HasTasks, QueueTypes
<1>3. ASSUME NEW w \in Workers, GetGlobalShare(w)
      PROVE  QueueTypes'
  <2> DEFINE share == Len(global) \div N + 1
             n == IF share <= Len(global) THEN share ELSE Len(global)
  <2>1. global \in Seq(Tasks) /\ global # <<>> /\ local[w] \in Seq(Tasks)
    BY <1>3, Zenon DEF GetGlobalShare, QueueTypes
  <2>2. n \in 1 .. Len(global)
    BY <2>1, Share, Zenon
  <2>3. SubSeq(global, 2, n) \in Seq(Tasks) /\ SubSeq(global, n + 1, Len(global)) \in Seq(Tasks)
    BY <2>1, <2>2, Cut
  <2>4. local[w] \o SubSeq(global, 2, n) \in Seq(Tasks) /\ Head(global) \in Tasks
    BY <2>1, <2>3, Joined, Queues, Zenon
  <2>5. QED
    BY <1>3, <2>3, <2>4, Zenon DEF GetGlobalShare, Execute, QueueTypes
<1>4. ASSUME NEW w \in Workers, GetGlobalFirst(w)
      PROVE  QueueTypes'
  BY <1>4, Queues, Joined, Cut, Zenon DEF GetGlobalFirst, AtNext, At, Execute, QueueTypes,
     LabelTypes, ProgramTypes
<1>5. ASSUME NEW w \in Workers, StealTry(w)
      PROVE  QueueTypes'
  <2>1. ASSUME NEW v \in toTry[w], local[v] # <<>>, StealHalf(w, v)
        PROVE  hand' \in [Workers -> Seq(Tasks)] /\ local' \in [Workers -> Seq(Tasks)]
    <3> DEFINE n == Len(local[v]) - Len(local[v]) \div 2
    <3>1. v \in Workers /\ local[v] \in Seq(Tasks)
      BY Zenon DEF QueueTypes, VictimTypes
    <3>2. /\ SubSeq(local[v], 1, n) \in Seq(Tasks)
          /\ SubSeq(local[v], n + 1, Len(local[v])) \in Seq(Tasks)
      BY <2>1, <3>1, Half, Zenon
    <3>3. QED
      BY <2>1, <3>1, <3>2, Zenon DEF StealHalf, QueueTypes
  <2>2. QED
    BY <1>5, <2>1, Zenon DEF StealTry, QueueTypes
<1>6. ASSUME NEW w \in Workers, StealEnd(w)
      PROVE  QueueTypes'
  <2>1. hand[w] \in Seq(Tasks) /\ hand[w] # <<>> /\ local[w] \in Seq(Tasks)
    BY <1>6, Zenon DEF StealEnd, At, QueueTypes, LabelTypes
  <2>2. SubSeq(hand[w], 1, Len(hand[w]) - 1) \in Seq(Tasks) /\ hand[w][Len(hand[w])] \in Tasks
    BY <2>1, Queues, Cut
  <2>3. local[w] \o SubSeq(hand[w], 1, Len(hand[w]) - 1) \in Seq(Tasks) /\ <<>> \in Seq(Tasks)
    BY <2>1, <2>2, Joined
  <2>4. QED
    BY <1>6, <2>2, <2>3, Zenon DEF StealEnd, Execute, QueueTypes
<1>7. ASSUME NEW w \in Workers, StealGlobal(w)
      PROVE  QueueTypes'
  BY <1>7, Queues, Joined, Cut, Zenon DEF StealGlobal, At, Execute, QueueTypes, LabelTypes,
     ProgramTypes
<1>8. ASSUME NEW w \in Workers, RunPoll(w)
      PROVE  QueueTypes'
  BY <1>8, PollTypes, Zenon DEF RunPoll, Poll, QueueTypes, locals
<1>9. ASSUME NEW w \in Workers, DriverWait(w)
      PROVE  QueueTypes'
  BY <1>9, PollTypes, Zenon DEF DriverWait, Poll, queues, QueueTypes, locals
<1>10. ASSUME NEW w \in Workers, WaitInterrupted(w)
       PROVE  QueueTypes'
  BY <1>10, PollTypes, Zenon DEF WaitInterrupted, Poll, QueueTypes, locals
<1>11. ASSUME NEW w \in Workers, TaskSpawn(w)
       PROVE  QueueTypes'
  BY <1>11, Queues, Joined, Cut, Zenon DEF TaskSpawn, At, locals, QueueTypes, LabelTypes,
     ProgramTypes
<1>12. ASSUME NEW w \in Workers, TaskAwaitIo(w)
       PROVE  QueueTypes'
  BY <1>12, Queues, Joined, Cut, Zenon DEF TaskAwaitIo, At, queues, QueueTypes, LabelTypes,
     ProgramTypes
<1>13. ASSUME NEW w \in Workers, TaskEnd(w)
       PROVE  QueueTypes'
  BY <1>13, Queues, Joined, Cut, Zenon DEF TaskEnd, At, QueueTypes, LabelTypes, ProgramTypes
<1>14. ASSUME ScheduleRemote
       PROVE  QueueTypes'
  <2>1. PICK t \in Tasks : global' = IF closed THEN global ELSE Append(global, t)
    BY <1>14, TasksAssumption, Zenon DEF ScheduleRemote, ProgramTypes
  <2>2. QED
    BY <1>14, <2>1, Queues, Zenon DEF ScheduleRemote, QueueTypes, locals
<1>15. ASSUME NEW x \in Threads,
              NotifyCheck(x) \/ NotifyLock(x) \/ NotifyWrite(x)
       PROVE  QueueTypes'
  BY <1>15, Zenon DEF NotifyCheck, NotifyLock, NotifyWrite, queues, locals, QueueTypes
<1>16. ASSUME NEW w \in Workers,
              \/ IoComplete(w) \/ WakerComplete(w) \/ GetNothing(w) \/ SearchCheck(w)
              \/ SearchInc(w) \/ SleepBegin(w) \/ TransitionToSleeping(w)
              \/ WakeUpIfWorkPending(w) \/ TransitionFromSleeping(w) \/ ExecuteTask(w)
              \/ WakeUpAll(w) \/ WorkerExit(w) \/ WorkerDestroyed(w)
       PROVE  QueueTypes'
  BY <1>16, Zenon DEF IoComplete, WakerComplete, GetNothing, SearchCheck, SearchInc, SleepBegin,
     TransitionToSleeping, WakeUpIfWorkPending, TransitionFromSleeping, ExecuteTask, WakeUpAll,
     WorkerExit, WorkerDestroyed, queues, locals, QueueTypes
<1>17. CASE UNCHANGED vars
  BY <1>17, Zenon DEF vars, queues, locals, QueueTypes
<1>18. QED
  BY <1>1, <1>2, <1>3, <1>4, <1>5, <1>6, <1>7, <1>8, <1>9, <1>10, <1>11, <1>12, <1>13, <1>14,
     <1>15, <1>16, <1>17, Zenon DEF Next, WorkerStep, WakeUpOne

\* All of the types.
LEMMA TypesStep ==
  ASSUME N \in Nat \ {0}, Types, [Next]_vars
  PROVE  Types'
  BY QueueTypesStep, IdleTypesStep, VictimTypesStep, ThreadTypesStep, LabelTypesStep,
     DriverTypesStep, ProgramTypesStep, Zenon DEF Types

\* Where the steps that branch go to.
LEMMA Moves ==
  ASSUME NEW w \in Workers, ThreadTypes
  PROVE  /\ SearchCheck(w) => pc[w] = "search" /\ pc'[w] \in {"steal", "poll", "search_inc"}
                              /\ (pc'[w] = "steal" <=> isSearching[w])
         /\ StealGlobal(w) => pc[w] = "steal" /\ pc'[w] \in {"poll", "execute"}
         /\ DriverWait(w) => pc[w] = "wait" /\ pc'[w] = IF shutdown[w] THEN "loop" ELSE "awake"
         /\ TransitionFromSleeping(w) =>
              /\ pc[w] = "awake" /\ pc'[w] \in {"wait", "loop"}
              /\ pc'[w] = "wait" <=> w \in sleeping /\ ~HasTasks(w)
         /\ TaskEnd(w) => pc[w] = "task" /\ pc'[w] \in {"wake_up_all", "loop"}
                          /\ (cur[w] = Main <=> pc'[w] = "wake_up_all")
<1>1. SearchCheck(w) => pc[w] = "search" /\ pc'[w] \in {"steal", "poll", "search_inc"}
                        /\ (pc'[w] = "steal" <=> isSearching[w])
  BY Zenon DEF SearchCheck, At, Goto, ThreadTypes, Threads
<1>2. StealGlobal(w) => pc[w] = "steal" /\ pc'[w] \in {"poll", "execute"}
  BY Zenon DEF StealGlobal, At, Execute, Goto, ThreadTypes, Threads
<1>3. DriverWait(w) => pc[w] = "wait" /\ pc'[w] = IF shutdown[w] THEN "loop" ELSE "awake"
  BY Zenon DEF DriverWait, At, Goto, ThreadTypes, Threads
<1>4. TransitionFromSleeping(w) =>
        /\ pc[w] = "awake" /\ pc'[w] \in {"wait", "loop"}
        /\ pc'[w] = "wait" <=> w \in sleeping /\ ~HasTasks(w)
  BY Zenon DEF TransitionFromSleeping, contains, At, Goto, ThreadTypes, Threads
<1>5. TaskEnd(w) => pc[w] = "task" /\ pc'[w] \in {"wake_up_all", "loop"}
                    /\ (cur[w] = Main <=> pc'[w] = "wake_up_all")
  BY Zenon DEF TaskEnd, At, Goto, ThreadTypes, Threads
<1>6. QED
  BY <1>1, <1>2, <1>3, <1>4, <1>5, Zenon

\* A step of one worker leaves the threads of the others alone,
LEMMA ThreadsGoOn ==
  ASSUME NEW w \in Workers, ThreadTypes, IdleTypes, VictimTypes,
         WorkerStep(w) \/ WaitInterrupted(w)
  PROVE  OthersGoOn(w)
<1>1. CASE \/ Maintenance(w) \/ GetGlobalFirst(w) \/ GetLocal(w) \/ GetGlobalShare(w)
           \/ GetNothing(w)
  <2>1. CASE Maintenance(w)
    BY <2>1, Zenon DEF Maintenance, Goto, Poll, WakeUpOneIf, idle, locals, OthersGoOn,
       ThreadTypes, IdleTypes, VictimTypes, Threads
  <2>2. CASE GetGlobalFirst(w)
    BY <2>2, Zenon DEF GetGlobalFirst, Goto, Execute, idle, OthersGoOn, ThreadTypes, IdleTypes,
       VictimTypes, Threads
  <2>3. CASE GetLocal(w)
    BY <2>3, Zenon DEF GetLocal, Goto, Execute, idle, OthersGoOn, ThreadTypes, IdleTypes,
       VictimTypes, Threads
  <2>4. CASE GetGlobalShare(w)
    BY <2>4, Zenon DEF GetGlobalShare, Goto, Execute, idle, OthersGoOn, ThreadTypes, IdleTypes,
       VictimTypes, Threads
  <2>5. CASE GetNothing(w)
    BY <2>5, Zenon DEF GetNothing, Goto, idle, locals, OthersGoOn, ThreadTypes, IdleTypes,
       VictimTypes, Threads
  <2>6. QED
    BY <1>1, <2>1, <2>2, <2>3, <2>4, <2>5, Zenon
<1>2. CASE StealTry(w)
  <2>1. ASSUME NEW v \in toTry[w], StealHalf(w, v)
        PROVE  pc' = [pc EXCEPT ![w] = "steal_end"] /\ toTry' = [toTry EXCEPT ![w] = {}]
    BY <2>1, Zenon DEF StealHalf, Goto
  <2>2. QED
    BY <1>2, <2>1, Zenon DEF StealTry, idle, OthersGoOn, ThreadTypes, VictimTypes, Threads
<1>3. CASE SearchCheck(w) \/ SearchInc(w)
  <2>1. CASE SearchCheck(w)
    BY <2>1, Zenon DEF SearchCheck, Goto, idle, OthersGoOn, ThreadTypes, IdleTypes, VictimTypes,
       Threads
  <2>2. CASE SearchInc(w)
    BY <2>2, Zenon DEF SearchInc, Goto, OthersGoOn, ThreadTypes, IdleTypes, VictimTypes, Threads
  <2>3. QED
    BY <1>3, <2>1, <2>2, Zenon
<1>4. CASE StealEnd(w) \/ StealGlobal(w)
  BY <1>4, Zenon DEF StealEnd, StealGlobal, Execute, Goto, idle, OthersGoOn, ThreadTypes,
     IdleTypes, VictimTypes, Threads
<1>5. CASE RunPoll(w) \/ SleepBegin(w) \/ TransitionToSleeping(w) \/ WakeUpIfWorkPending(w)
  <2>1. CASE RunPoll(w)
    BY <2>1, Zenon DEF RunPoll, Goto, Poll, WakeUpOneIf, idle, locals, OthersGoOn, ThreadTypes,
       IdleTypes, VictimTypes, Threads
  <2>2. CASE SleepBegin(w)
    BY <2>2, Zenon DEF SleepBegin, Goto, idle, locals, OthersGoOn, ThreadTypes, IdleTypes,
       VictimTypes, Threads
  <2>3. CASE TransitionToSleeping(w)
    BY <2>3, Zenon DEF TransitionToSleeping, Goto, transition_worker_to_sleeping, OthersGoOn,
       ThreadTypes, IdleTypes, VictimTypes, Threads
  <2>4. CASE WakeUpIfWorkPending(w)
    BY <2>4, Zenon DEF WakeUpIfWorkPending, Goto, WakeUpOneIf, idle, OthersGoOn, ThreadTypes,
       IdleTypes, VictimTypes, Threads
  <2>5. QED
    BY <1>5, <2>1, <2>2, <2>3, <2>4, Zenon
<1>6. CASE DriverWait(w) \/ WaitInterrupted(w) \/ TransitionFromSleeping(w)
  <2>1. CASE DriverWait(w)
    BY <2>1, Zenon DEF DriverWait, Goto, idle, locals, OthersGoOn, ThreadTypes, IdleTypes,
       VictimTypes, Threads
  <2>2. CASE WaitInterrupted(w)
    BY <2>2, Zenon DEF WaitInterrupted, Goto, idle, locals, OthersGoOn, ThreadTypes, IdleTypes,
       VictimTypes, Threads
  <2>3. CASE TransitionFromSleeping(w)
    BY <2>3, Zenon DEF TransitionFromSleeping, Goto, contains, remove, idle, locals, OthersGoOn,
       ThreadTypes, IdleTypes, VictimTypes, Threads
  <2>4. QED
    BY <1>6, <2>1, <2>2, <2>3, Zenon
<1>7. CASE ExecuteTask(w) \/ TaskSpawn(w) \/ TaskAwaitIo(w) \/ TaskEnd(w)
  <2>1. CASE ExecuteTask(w)
    BY <2>1, Zenon DEF ExecuteTask, Goto, WakeUpOneIf, locals, OthersGoOn, ThreadTypes, IdleTypes,
       VictimTypes, Threads
  <2>2. CASE TaskSpawn(w)
    BY <2>2, Zenon DEF TaskSpawn, WakeUpOneIf, idle, locals, OthersGoOn, ThreadTypes, IdleTypes,
       VictimTypes, Threads
  <2>3. CASE TaskAwaitIo(w)
    BY <2>3, Zenon DEF TaskAwaitIo, Goto, idle, OthersGoOn, ThreadTypes, IdleTypes, VictimTypes,
       Threads
  <2>4. CASE TaskEnd(w)
    BY <2>4, Zenon DEF TaskEnd, Goto, idle, OthersGoOn, ThreadTypes, IdleTypes, VictimTypes,
       Threads
  <2>5. QED
    BY <1>7, <2>1, <2>2, <2>3, <2>4, Zenon
<1>8. CASE WakeUpAll(w) \/ WorkerExit(w) \/ WorkerDestroyed(w)
  BY <1>8, Zenon DEF WakeUpAll, WorkerExit, WorkerDestroyed, Goto, idle, locals, OthersGoOn,
     ThreadTypes, IdleTypes, VictimTypes, Threads
<1>9. QED
  BY <1>1, <1>2, <1>3, <1>4, <1>5, <1>6, <1>7, <1>8, Zenon DEF WorkerStep

\* their drivers too, a wake-up apart,
LEMMA DriversGoOn ==
  ASSUME NEW w \in Workers, DriverTypes, QueueTypes,
         WorkerStep(w) \/ WaitInterrupted(w)
  PROVE  OthersDriven(w)
<1>1. CASE Maintenance(w) \/ GetLocal(w)
  BY <1>1, Zenon DEF Maintenance, GetLocal, Poll, DriverPoll, driver, OthersDriven, DriverTypes,
     QueueTypes
<1>2. CASE GetGlobalShare(w)
  BY <1>2, Zenon DEF GetGlobalShare, driver, OthersDriven, DriverTypes, QueueTypes
<1>3. CASE StealTry(w) \/ StealEnd(w)
  BY <1>3, Zenon DEF StealTry, StealEnd, StealHalf, driver, OthersDriven, DriverTypes, QueueTypes
<1>4. CASE RunPoll(w)
  BY <1>4, Zenon DEF RunPoll, Poll, DriverPoll, OthersDriven, DriverTypes, QueueTypes
<1>5. CASE DriverWait(w) \/ WaitInterrupted(w)
  BY <1>5 DEF DriverWait, WaitInterrupted, DriverPoll, queues, driver, OthersDriven, DriverTypes,
     QueueTypes
<1>6. CASE TaskSpawn(w) \/ TaskAwaitIo(w)
  BY <1>6, Zenon DEF TaskSpawn, TaskAwaitIo, queues, driver, OthersDriven, DriverTypes, QueueTypes
<1>7. CASE WakeUpAll(w)
  BY <1>7, Zenon DEF WakeUpAll, queues, OthersDriven, DriverTypes, QueueTypes
<1>8. CASE \/ GetGlobalFirst(w) \/ GetNothing(w) \/ SearchCheck(w) \/ SearchInc(w)
           \/ StealGlobal(w) \/ SleepBegin(w) \/ TransitionToSleeping(w)
           \/ WakeUpIfWorkPending(w) \/ TransitionFromSleeping(w) \/ ExecuteTask(w)
           \/ TaskEnd(w) \/ WorkerExit(w) \/ WorkerDestroyed(w)
  BY <1>8, Zenon DEF GetGlobalFirst, GetNothing, SearchCheck, SearchInc, StealGlobal, SleepBegin,
     TransitionToSleeping, WakeUpIfWorkPending, TransitionFromSleeping, ExecuteTask, TaskEnd,
     WorkerExit, WorkerDestroyed, queues, driver, OthersDriven, DriverTypes, QueueTypes
<1>9. QED
  BY <1>1, <1>2, <1>3, <1>4, <1>5, <1>6, <1>7, <1>8, Zenon DEF WorkerStep

\* and no write to an eventfd that is under way is lost.
LEMMA NotesGoOn ==
  ASSUME NEW w \in Workers, ThreadTypes, Ext # w,
         WorkerStep(w) \/ WaitInterrupted(w)
  PROVE  WritesGoOn
<1>1. CASE Maintenance(w)
  BY <1>1, Zenon DEF Maintenance, At, Poll, DriverPoll, WakeUpOneIf, WritesGoOn, ThreadTypes,
     Threads
<1>2. CASE RunPoll(w)
  BY <1>2, Zenon DEF RunPoll, At, Poll, DriverPoll, WakeUpOneIf, WritesGoOn, ThreadTypes, Threads
<1>3. CASE WakeUpIfWorkPending(w)
  BY <1>3, Zenon DEF WakeUpIfWorkPending, At, WakeUpOneIf, queues, WritesGoOn, ThreadTypes,
     Threads
<1>4. CASE DriverWait(w)
  BY <1>4, Zenon DEF DriverWait, At, DriverPoll, queues, WritesGoOn, ThreadTypes, Threads
<1>5. CASE WaitInterrupted(w)
  BY <1>5, Zenon DEF WaitInterrupted, At, DriverPoll, WritesGoOn, ThreadTypes, Threads
<1>6. CASE ExecuteTask(w) \/ TaskSpawn(w) \/ TaskEnd(w)
  BY <1>6, Zenon DEF ExecuteTask, TaskSpawn, TaskEnd, At, WakeUpOneIf, queues, WritesGoOn,
     ThreadTypes, Threads
<1>7. CASE \/ GetGlobalFirst(w) \/ GetLocal(w) \/ GetGlobalShare(w) \/ GetNothing(w)
           \/ SearchCheck(w) \/ SearchInc(w) \/ StealTry(w) \/ StealEnd(w) \/ StealGlobal(w)
           \/ SleepBegin(w) \/ TransitionToSleeping(w) \/ TransitionFromSleeping(w)
           \/ TaskAwaitIo(w) \/ WakeUpAll(w) \/ WorkerExit(w) \/ WorkerDestroyed(w)
  <2>1. UNCHANGED <<closed, note, target>>
    BY <1>7, Zenon DEF GetGlobalFirst, GetLocal, GetGlobalShare, GetNothing, SearchCheck,
       SearchInc, StealTry, StealEnd, StealGlobal, SleepBegin, TransitionToSleeping,
       TransitionFromSleeping, TaskAwaitIo, WakeUpAll, WorkerExit, WorkerDestroyed, queues
  <2>2. QED
    BY <2>1, Zenon DEF WritesGoOn, ThreadTypes, Threads
<1>8. QED
  BY <1>1, <1>2, <1>3, <1>4, <1>5, <1>6, <1>7, Zenon DEF WorkerStep

\* The three together.
LEMMA GoOn ==
  ASSUME Types, NEW w \in Workers, WorkerStep(w) \/ WaitInterrupted(w)
  PROVE  OthersGoOn(w) /\ OthersDriven(w) /\ WritesGoOn
  BY ThreadsGoOn, DriversGoOn, NotesGoOn, ThreadsAssumption, Zenon DEF Types

\* A worker stays where the flags and sleeping_workers say.
LEMMA WhereOwn ==
  ASSUME NEW w \in Workers, Where(w), ThreadTypes, IdleTypes, QueueTypes,
         WorkerStep(w) \/ WaitInterrupted(w)
  PROVE  Where(w)'
<1>1. CASE Maintenance(w) \/ GetGlobalFirst(w)
  <2>1. CASE Maintenance(w)
    BY <2>1, Zenon DEF Maintenance, At, Goto, Poll, DriverPoll, idle, Where, InSleep, Left,
       ThreadTypes, IdleTypes, QueueTypes, Threads
  <2>2. CASE GetGlobalFirst(w)
    BY <2>2, Zenon DEF GetGlobalFirst, At, Goto, AtNext, Execute, idle, Where, InSleep, Left,
       ThreadTypes, IdleTypes, QueueTypes, Threads
  <2>3. QED
    BY <1>1, <2>1, <2>2, Zenon
<1>2. CASE GetLocal(w)
  BY <1>2 DEF GetLocal, AtNext, At, Execute, Goto, HasTasks, idle, Where, InSleep, Left,
     ThreadTypes, IdleTypes, QueueTypes, Threads
<1>3. CASE GetGlobalShare(w) \/ GetNothing(w)
  BY <1>3, Zenon DEF GetGlobalShare, GetNothing, AtNext, At, Execute, Goto, HasTasks, queues,
     idle, Where, InSleep, Left, ThreadTypes, IdleTypes, QueueTypes, Threads
<1>4. CASE StealTry(w)
  <2>1. pc[w] = "steal" /\ pc'[w] \in {"steal", "steal_end"}
    BY <1>4, Zenon DEF StealTry, At, Goto, StealHalf, ThreadTypes, Threads
  <2>2. QED
    BY <1>4, <2>1, Zenon DEF StealTry, idle, Where, InSleep, Left
<1>5. CASE SearchCheck(w) \/ SearchInc(w) \/ StealEnd(w) \/ StealGlobal(w)
  <2>1. CASE SearchCheck(w)
    BY <2>1, Moves, Zenon DEF SearchCheck, queues, idle, Where, InSleep, Left
  <2>2. CASE SearchInc(w)
    BY <2>2, Zenon DEF SearchInc, At, Goto, queues, Where, InSleep, Left, ThreadTypes, IdleTypes,
       QueueTypes, Threads
  <2>3. CASE StealEnd(w)
    BY <2>3, Zenon DEF StealEnd, At, Goto, Execute, idle, Where, InSleep, Left, ThreadTypes,
       IdleTypes, QueueTypes, Threads
  <2>4. CASE StealGlobal(w)
    BY <2>4, Moves, Zenon DEF StealGlobal, idle, Where, InSleep, Left
  <2>5. QED
    BY <1>5, <2>1, <2>2, <2>3, <2>4, Zenon
<1>6. CASE RunPoll(w) \/ SleepBegin(w)
  <2>1. CASE RunPoll(w)
    BY <2>1, Zenon DEF RunPoll, At, Goto, Poll, DriverPoll, idle, Where, InSleep, Left,
       ThreadTypes, IdleTypes, QueueTypes, Threads
  <2>2. CASE SleepBegin(w)
    BY <2>2, Zenon DEF SleepBegin, At, Goto, queues, idle, Where, InSleep, Left, ThreadTypes,
       IdleTypes, QueueTypes, Threads
  <2>3. QED
    BY <1>6, <2>1, <2>2, Zenon
<1>7. CASE TransitionToSleeping(w) \/ WakeUpIfWorkPending(w)
  BY <1>7, Zenon DEF TransitionToSleeping, WakeUpIfWorkPending, At, Goto,
     transition_worker_to_sleeping, queues, idle, Where, InSleep, Left, ThreadTypes, IdleTypes,
     QueueTypes, Threads
<1>8. CASE DriverWait(w) \/ WaitInterrupted(w) \/ TransitionFromSleeping(w)
  <2>1. CASE DriverWait(w)
    BY <2>1, Moves, Zenon DEF DriverWait, DriverPoll, queues, idle, Where, InSleep, Left
  <2>2. CASE WaitInterrupted(w)
    BY <2>2, Zenon DEF WaitInterrupted, At, Goto, DriverPoll, idle, Where, InSleep, Left,
       ThreadTypes, IdleTypes, QueueTypes, Threads
  <2>3. CASE TransitionFromSleeping(w)
    BY <2>3, Moves, Zenon DEF TransitionFromSleeping, contains, remove, queues, idle, Where,
       InSleep, Left, IdleTypes
  <2>4. QED
    BY <1>8, <2>1, <2>2, <2>3, Zenon
<1>9. CASE ExecuteTask(w) \/ TaskSpawn(w) \/ TaskAwaitIo(w) \/ TaskEnd(w)
  <2>1. CASE ExecuteTask(w)
    BY <2>1, Zenon DEF ExecuteTask, At, Goto, queues, Where, InSleep, Left, ThreadTypes,
       IdleTypes, QueueTypes, Threads
  <2>2. CASE TaskSpawn(w)
    BY <2>2, Zenon DEF TaskSpawn, At, idle, Where, InSleep, Left, ThreadTypes, IdleTypes,
       QueueTypes, Threads
  <2>3. CASE TaskAwaitIo(w)
    BY <2>3, Zenon DEF TaskAwaitIo, At, Goto, queues, idle, Where, InSleep, Left, ThreadTypes,
       IdleTypes, QueueTypes, Threads
  <2>4. CASE TaskEnd(w)
    BY <2>4, Moves, Zenon DEF TaskEnd, idle, Where, InSleep, Left
  <2>5. QED
    BY <1>9, <2>1, <2>2, <2>3, <2>4, Zenon
<1>10. CASE WakeUpAll(w) \/ WorkerExit(w) \/ WorkerDestroyed(w)
  BY <1>10, ZenonT(60) DEF WakeUpAll, WorkerExit, WorkerDestroyed, At, Goto, queues, idle, Where,
     InSleep, Left, ThreadTypes, IdleTypes, QueueTypes, Threads
<1>11. QED
  BY <1>1, <1>2, <1>3, <1>4, <1>5, <1>6, <1>7, <1>8, <1>9, <1>10, Zenon DEF WorkerStep

\* The steps that leave all workers where they are.
LEMMA OutsideSteps ==
  ASSUME Types
  PROVE  /\ \A x \in Threads : NotifyCheck(x) \/ NotifyWrite(x) => WorkersStay
         /\ \A w \in Workers : IoComplete(w) \/ WakerComplete(w) => WorkersStay
         /\ ScheduleRemote => WorkersStay
         /\ UNCHANGED vars => WorkersStay
<1>1. \A x \in Threads : NotifyCheck(x) \/ NotifyWrite(x) => WorkersStay
  BY Zenon DEF NotifyCheck, NotifyWrite, WorkersStay, queues, idle, locals
<1>2. \A w \in Workers : IoComplete(w) \/ WakerComplete(w) => WorkersStay
  BY Zenon DEF IoComplete, WakerComplete, WorkersStay, queues, idle, locals
<1>3. ASSUME ScheduleRemote
      PROVE  WorkersStay
  <2>1. pc \in [Threads -> Labels] /\ Ext \notin Workers
    BY ThreadsAssumption, Zenon DEF Types, ThreadTypes
  <2>2. QED
    BY <1>3, <2>1, Zenon DEF ScheduleRemote, WorkersStay, Goto, Threads, idle, locals
<1>4. UNCHANGED vars => WorkersStay
  BY Zenon DEF WorkersStay, vars, queues, idle, locals
<1>5. QED
  BY <1>1, <1>2, <1>3, <1>4, Zenon

\* The steps of the system, by what they leave alone.
LEMMA Steps ==
  ASSUME Types, [Next]_vars
  PROVE  \/ \E w \in Workers : WorkerStep(w) \/ WaitInterrupted(w)
         \/ \E x \in Threads : NotifyLock(x)
         \/ WorkersStay
  BY OutsideSteps, Zenon DEF Next, WakeUpOne

\* Nobody is in sleeping_workers or searching at a label where it may not be.
LEMMA WhereStep ==
  ASSUME SchedulerInv, [Next]_vars
  PROVE  WhereTheyAre'
<1>0. Types /\ WhereTheyAre
  BY Zenon DEF SchedulerInv
<1>1. ASSUME NEW w \in Workers, WorkerStep(w) \/ WaitInterrupted(w)
      PROVE  WhereTheyAre'
  <2>1. Where(w)'
    BY <1>0, <1>1, WhereOwn, Zenon DEF Types, WhereTheyAre
  <2>2. OthersGoOn(w) /\ (closed => closed')
    BY <1>0, <1>1, GoOn, Zenon DEF WritesGoOn
  <2>3. ASSUME NEW v \in Workers, v # w
        PROVE  Where(v)'
    BY <1>0, <2>2, <2>3, Zenon DEF WhereTheyAre, Where, InSleep, Left, OthersGoOn
  <2>4. QED
    BY <2>1, <2>3, Zenon DEF WhereTheyAre
<1>2. ASSUME NEW x \in Threads, NotifyLock(x)
      PROVE  WhereTheyAre'
  BY <1>0, <1>2, Zenon DEF NotifyLock, WhereTheyAre, Where, InSleep, Left, idle, queues
<1>3. CASE WorkersStay
  BY <1>0, <1>3, Zenon DEF WorkersStay, WhereTheyAre, Where, InSleep, Left
<1>4. QED
  BY <1>0, <1>1, <1>2, <1>3, Steps, Zenon

-----------------------------------------------------------------------------
(* Counts                                                                  *)

\* What one step of a worker does to the halves of state_.
Counting(w) ==
  /\ \/ working' = working /\ (w \in sleeping' <=> w \in sleeping)
     \/ working' = working - 1 /\ w \notin sleeping /\ w \in sleeping'
     \/ working' = working + 1 /\ w \in sleeping /\ w \notin sleeping'
  /\ \/ searching' = searching /\ (Seeks(w)' => Seeks(w)) /\ (MayCount(w) => MayCount(w)')
     \/ searching' = searching - 1 /\ Seeks(w) /\ ~Seeks(w)'
     \/ searching' = searching + 1 /\ ~MayCount(w) /\ Seeks(w)'

\* Every step of a worker moves the counters as it moves the worker.
LEMMA CountsOwn ==
  ASSUME NEW w \in Workers, Where(w), ThreadTypes, IdleTypes, QueueTypes,
         WorkerStep(w) \/ WaitInterrupted(w)
  PROVE  Counting(w)
<1>1. CASE Maintenance(w) \/ GetGlobalFirst(w) \/ GetLocal(w)
  BY <1>1, Zenon DEF Maintenance, GetGlobalFirst, GetLocal, At, Goto, AtNext, Execute, HasTasks,
     idle, Counting, Where, Seeks, MayCount, Notified, InSleep, Left, ThreadTypes, IdleTypes,
     QueueTypes, Threads
<1>2. CASE GetGlobalShare(w) \/ GetNothing(w)
  BY <1>2, Zenon DEF GetGlobalShare, GetNothing, AtNext, At, Execute, Goto, HasTasks, idle,
     Counting, Where, Seeks, MayCount, Notified, InSleep, Left, ThreadTypes, IdleTypes,
     QueueTypes, Threads
<1>3. CASE SearchCheck(w) \/ SearchInc(w)
  <2>1. CASE SearchCheck(w)
    BY <2>1, Zenon DEF SearchCheck, At, Goto, idle, Counting, Where, Seeks, MayCount, Notified,
       InSleep, Left, ThreadTypes, IdleTypes, QueueTypes, Threads
  <2>2. CASE SearchInc(w)
    BY <2>2, Zenon DEF SearchInc, At, Goto, Counting, Where, Seeks, MayCount, Notified, InSleep,
       Left, ThreadTypes, IdleTypes, QueueTypes, Threads
  <2>3. QED
    BY <1>3, <2>1, <2>2, Zenon
<1>4. CASE StealTry(w)
  BY <1>4, Zenon DEF StealTry, At, Goto, StealHalf, idle, Counting, Where, Seeks, MayCount,
     Notified, InSleep, Left, ThreadTypes, IdleTypes, QueueTypes, Threads
<1>5. CASE StealEnd(w) \/ StealGlobal(w)
  BY <1>5, Zenon DEF StealEnd, StealGlobal, At, Execute, Goto, idle, Counting, Where, Seeks,
     MayCount, Notified, InSleep, Left, ThreadTypes, IdleTypes, QueueTypes, Threads
<1>6. CASE RunPoll(w) \/ SleepBegin(w) \/ TransitionToSleeping(w) \/ WakeUpIfWorkPending(w)
  BY <1>6, Zenon DEF RunPoll, SleepBegin, TransitionToSleeping, WakeUpIfWorkPending, At, Goto,
     transition_worker_to_sleeping, dec_num_working, idle, Counting, Where, Seeks, MayCount,
     Notified, InSleep, Left, ThreadTypes, IdleTypes, QueueTypes, Threads
<1>7. CASE TransitionFromSleeping(w)
  <2>1. CASE w \in sleeping /\ ~HasTasks(w)
    BY <1>7, <2>1, Zenon DEF TransitionFromSleeping, At, Goto, contains, idle, Counting, Where,
       Seeks, MayCount, Notified, InSleep, Left, ThreadTypes, Threads
  <2>2. CASE w \in sleeping /\ HasTasks(w)
    BY <1>7, <2>2 DEF TransitionFromSleeping, At, Goto, contains, remove, wake_up_one, Counting,
       Where, Seeks, MayCount, Notified, InSleep, Left, ThreadTypes, IdleTypes, Threads
  <2>3. CASE w \notin sleeping
    BY <1>7, <2>3, Zenon DEF TransitionFromSleeping, At, Goto, contains, remove, idle, Counting,
       Where, Seeks, MayCount, Notified, InSleep, Left, ThreadTypes, IdleTypes, Threads
  <2>4. QED
    BY <2>1, <2>2, <2>3, Zenon
<1>8. CASE DriverWait(w) \/ WaitInterrupted(w)
  <2>1. CASE DriverWait(w)
    BY <2>1, Moves, Zenon DEF DriverWait, idle, Counting, Where, Seeks, MayCount, Notified,
       InSleep, Left
  <2>2. CASE WaitInterrupted(w)
    BY <2>2, Zenon DEF WaitInterrupted, At, Goto, idle, Counting, Where, Seeks, MayCount,
       Notified, InSleep, Left, ThreadTypes, IdleTypes, QueueTypes, Threads
  <2>3. QED
    BY <1>8, <2>1, <2>2, Zenon
<1>9. CASE ExecuteTask(w) \/ TaskSpawn(w) \/ TaskAwaitIo(w) \/ TaskEnd(w)
  <2>1. CASE ExecuteTask(w)
    BY <2>1, Zenon DEF ExecuteTask, At, Goto, dec_num_searching, Counting, Where, Seeks, MayCount,
       Notified, InSleep, Left, ThreadTypes, IdleTypes, QueueTypes, Threads
  <2>2. CASE TaskSpawn(w)
    BY <2>2, Zenon DEF TaskSpawn, At, idle, Counting, Where, Seeks, MayCount, Notified, InSleep,
       Left, ThreadTypes, IdleTypes, QueueTypes, Threads
  <2>3. CASE TaskAwaitIo(w)
    BY <2>3, Zenon DEF TaskAwaitIo, At, Goto, idle, Counting, Where, Seeks, MayCount, Notified,
       InSleep, Left, ThreadTypes, IdleTypes, QueueTypes, Threads
  <2>4. CASE TaskEnd(w)
    BY <2>4, Zenon DEF TaskEnd, At, Goto, idle, Counting, Where, Seeks, MayCount, Notified,
       InSleep, Left, ThreadTypes, IdleTypes, QueueTypes, Threads
  <2>5. QED
    BY <1>9, <2>1, <2>2, <2>3, <2>4, Zenon
<1>10. CASE WakeUpAll(w) \/ WorkerExit(w) \/ WorkerDestroyed(w)
  BY <1>10, Zenon DEF WakeUpAll, WorkerExit, WorkerDestroyed, At, Goto, idle, Counting, Where,
     Seeks, MayCount, Notified, InSleep, Left, ThreadTypes, IdleTypes, QueueTypes, Threads
<1>11. QED
  BY <1>1, <1>2, <1>3, <1>4, <1>5, <1>6, <1>7, <1>8, <1>9, <1>10, Zenon DEF WorkerStep

-----------------------------------------------------------------------------
(* Wake-ups                                                                *)

\* A worker goes to sleep with its waker armed, and does not lose a wake-up.
LEMMA WakeOwn ==
  ASSUME NEW w \in Workers, CanWake(w), Where(w), ThreadTypes, IdleTypes, DriverTypes, WritesGoOn,
         WorkerStep(w) \/ WaitInterrupted(w)
  PROVE  CanWake(w)'
<1>1. CASE Maintenance(w)
  BY <1>1, Zenon DEF Maintenance, At, Goto, Poll, DriverPoll, idle, CanWake, WakePending,
     Completions, Where, Notified, InSleep, ThreadTypes, IdleTypes, DriverTypes, Threads
<1>2. CASE GetGlobalFirst(w)
  BY <1>2, Zenon DEF GetGlobalFirst, AtNext, At, Execute, Goto, idle, driver, CanWake,
     WakePending, Completions, Where, Notified, InSleep, ThreadTypes, IdleTypes, DriverTypes,
     Threads
<1>3. CASE GetLocal(w)
  BY <1>3, Zenon DEF GetLocal, AtNext, At, Execute, Goto, HasTasks, idle, driver, CanWake,
     WakePending, Completions, Where, Notified, InSleep, ThreadTypes, IdleTypes, DriverTypes,
     Threads
<1>4. CASE GetGlobalShare(w) \/ GetNothing(w)
  <2>1. CASE GetGlobalShare(w)
    BY <2>1, Zenon DEF GetGlobalShare, AtNext, At, Execute, Goto, HasTasks, idle, driver, CanWake,
       WakePending, Completions, Where, Notified, InSleep, ThreadTypes, IdleTypes, DriverTypes,
       Threads
  <2>2. CASE GetNothing(w)
    BY <2>2, Zenon DEF GetNothing, AtNext, At, Goto, HasTasks, idle, driver, CanWake, WakePending,
       Completions, Where, Notified, InSleep, ThreadTypes, IdleTypes, DriverTypes, Threads
  <2>3. QED
    BY <1>4, <2>1, <2>2, Zenon
<1>5. CASE StealTry(w)
  <2>1. pc[w] = "steal" /\ pc'[w] \in {"steal", "steal_end"}
    BY <1>5, Zenon DEF StealTry, At, Goto, StealHalf, ThreadTypes, Threads
  <2>2. QED
    BY <1>5, <2>1, Zenon DEF StealTry, idle, driver, CanWake, WakePending, Completions, Notified,
       InSleep, WritesGoOn
<1>6. CASE SearchCheck(w) \/ SearchInc(w)
  <2>1. CASE SearchCheck(w)
    BY <2>1, Moves, Zenon DEF SearchCheck, idle, driver, CanWake, WakePending, Completions,
       Notified, InSleep
  <2>2. CASE SearchInc(w)
    BY <2>2, Zenon DEF SearchInc, At, Goto, driver, CanWake, WakePending, Completions, Where,
       Notified, InSleep, ThreadTypes, IdleTypes, DriverTypes, Threads
  <2>3. QED
    BY <1>6, <2>1, <2>2, Zenon
<1>7. CASE StealEnd(w)
  BY <1>7, Zenon DEF StealEnd, At, Execute, Goto, idle, driver, CanWake, WakePending, Completions,
     Where, Notified, InSleep, ThreadTypes, IdleTypes, DriverTypes, Threads
<1>8. CASE StealGlobal(w)
  BY <1>8, SMTT(60) DEF StealGlobal, At, Execute, Goto, idle, driver, CanWake, WakePending,
     Completions, Where, Notified, InSleep, ThreadTypes, IdleTypes, DriverTypes, Threads
<1>9. CASE WakeUpIfWorkPending(w)
  <2>1. pc[w] = "pending" /\ pc'[w] \in {"pending", "wait"}
    BY <1>9, Zenon DEF WakeUpIfWorkPending, At, Goto, ThreadTypes, Threads
  <2>2. QED
    BY <1>9, <2>1, Zenon DEF WakeUpIfWorkPending, WritesGoOn, idle, driver, CanWake, WakePending,
       Completions, Notified, InSleep
<1>10. CASE RunPoll(w)
  BY <1>10, Zenon DEF RunPoll, At, Goto, Poll, DriverPoll, idle, CanWake, WakePending,
     Completions, Where, Notified, InSleep, ThreadTypes, IdleTypes, DriverTypes, Threads
<1>11. CASE SleepBegin(w)
  BY <1>11, Zenon DEF SleepBegin, At, Goto, idle, driver, CanWake, WakePending, Completions,
     Where, Notified, InSleep, ThreadTypes, IdleTypes, DriverTypes, Threads
<1>12. CASE TransitionToSleeping(w)
  BY <1>12, Zenon DEF TransitionToSleeping, At, Goto, transition_worker_to_sleeping, driver,
     CanWake, WakePending, Completions, Where, Notified, InSleep, ThreadTypes, IdleTypes,
     DriverTypes, Threads
<1>13. CASE DriverWait(w)
  <2>1. CASE shutdown[w]
    BY <1>13, <2>1, Zenon DEF DriverWait, At, Goto, driver, CanWake, Notified, InSleep,
       ThreadTypes, Threads
  <2>2. CASE ~shutdown[w]
    <3>1. pc'[w] = "awake" /\ flag'[w] = FALSE /\ armed'[w] = TRUE
      BY <1>13, <2>2 DEF DriverWait, Goto, DriverPoll, CanWake, ThreadTypes, DriverTypes, Threads
    <3>2. QED
      BY <3>1, Zenon DEF CanWake
  <2>3. QED
    BY <2>1, <2>2, Zenon
<1>14. CASE WaitInterrupted(w)
  BY <1>14, Zenon DEF WaitInterrupted, At, Goto, DriverPoll, idle, CanWake, WakePending,
     Completions, Where, Notified, InSleep, ThreadTypes, IdleTypes, DriverTypes, Threads
<1>15. CASE TransitionFromSleeping(w)
  BY <1>15, Zenon DEF TransitionFromSleeping, At, Goto, contains, remove, idle, driver, CanWake,
     WakePending, Completions, Where, Notified, InSleep, ThreadTypes, IdleTypes, DriverTypes,
     Threads
<1>16. CASE ExecuteTask(w) \/ TaskSpawn(w) \/ TaskAwaitIo(w) \/ TaskEnd(w)
  <2>1. CASE ExecuteTask(w)
    BY <2>1, Zenon DEF ExecuteTask, At, Goto, driver, CanWake, WakePending, Completions, Where,
       Notified, InSleep, ThreadTypes, IdleTypes, DriverTypes, Threads
  <2>2. CASE TaskSpawn(w)
    BY <2>2, Zenon DEF TaskSpawn, At, idle, driver, CanWake, WakePending, Completions, Where,
       Notified, InSleep, ThreadTypes, IdleTypes, DriverTypes, Threads
  <2>3. CASE TaskAwaitIo(w)
    BY <2>3, Zenon DEF TaskAwaitIo, At, Goto, idle, CanWake, WakePending, Completions, Where,
       Notified, InSleep, ThreadTypes, IdleTypes, DriverTypes, Threads
  <2>4. CASE TaskEnd(w)
    BY <2>4, Moves, Zenon DEF TaskEnd, idle, driver, CanWake, WakePending, Completions, Notified,
       InSleep
  <2>5. QED
    BY <1>16, <2>1, <2>2, <2>3, <2>4, Zenon
<1>17. CASE WakeUpAll(w) \/ WorkerExit(w) \/ WorkerDestroyed(w)
  <2>1. CASE WakeUpAll(w)
    BY <2>1, Zenon DEF WakeUpAll, At, Goto, idle, CanWake, WakePending, Completions, Where,
       Notified, InSleep, ThreadTypes, IdleTypes, DriverTypes, Threads
  <2>2. CASE WorkerExit(w)
    BY <2>2, Zenon DEF WorkerExit, At, Goto, idle, driver, CanWake, WakePending, Completions,
       Where, Notified, InSleep, ThreadTypes, IdleTypes, DriverTypes, Threads
  <2>3. CASE WorkerDestroyed(w)
    BY <2>3, Zenon DEF WorkerDestroyed, At, Goto, idle, driver, CanWake, WakePending, Completions,
       Where, Notified, InSleep, ThreadTypes, IdleTypes, DriverTypes, Threads
  <2>4. QED
    BY <1>17, <2>1, <2>2, <2>3, Zenon
<1>18. QED
  BY <1>1, <1>2, <1>3, <1>4, <1>5, <1>6, <1>7, <1>8, <1>9, <1>10, <1>11, <1>12, <1>13, <1>14,
     <1>15, <1>16, <1>17, Zenon DEF WorkerStep

\* No step takes a wake-up from a worker that was notified.
LEMMA WokenStep ==
  ASSUME SchedulerInv, [Next]_vars
  PROVE  Woken'
<1>0. Types /\ WhereTheyAre /\ Woken /\ ThreadTypes /\ IdleTypes /\ DriverTypes
  BY Zenon DEF SchedulerInv, Types
<1>1. ASSUME NEW w \in Workers, WorkerStep(w) \/ WaitInterrupted(w)
      PROVE  Woken'
  <2>1. OthersGoOn(w) /\ OthersDriven(w) /\ WritesGoOn
    BY <1>0, <1>1, GoOn, Zenon
  <2>2. CanWake(w)'
    BY <1>0, <1>1, <2>1, WakeOwn, Zenon DEF Woken, WhereTheyAre
  <2>3. ASSUME NEW v \in Workers, v # w
        PROVE  CanWake(v)'
    <3>1. WakePending(v) => WakePending(v)'
      BY <2>1, <2>3, Zenon DEF WakePending, Completions, OthersDriven, WritesGoOn
    <3>2. QED
      BY <1>0, <2>1, <2>3, <3>1, Zenon DEF Woken, CanWake, Notified, InSleep, OthersGoOn,
         OthersDriven
  <2>4. QED
    BY <2>2, <2>3, Zenon DEF Woken
<1>2. ASSUME NEW x \in Threads, NotifyLock(x)
      PROVE  Woken'
  <2>1. ASSUME NEW v \in Workers
        PROVE  CanWake(v)'
    <3>1. WakePending(v) => WakePending(v)'
      BY <1>0, <1>2, Zenon DEF NotifyLock, WakePending, Completions, ThreadTypes, queues, driver
    <3>2. v \in sleeping /\ v \notin sleeping' => WakePending(v)'
      BY <1>0, <1>2 DEF NotifyLock, WakePending, ThreadTypes, idle
    <3>3. pc'[v] = pc[v] /\ flag'[v] = flag[v] /\ armed'[v] = armed[v] /\ cqWake'[v] = cqWake[v]
      BY <1>2, Zenon DEF NotifyLock, driver
    <3>4. v \in sleeping' => v \in sleeping
      BY <1>2, Zenon DEF NotifyLock, idle
    <3>5. QED
      BY <1>0, <3>1, <3>2, <3>3, <3>4, Zenon DEF Woken, CanWake, Notified, InSleep
  <2>2. QED
    BY <2>1, Zenon DEF Woken
<1>3. ASSUME WorkersStay, UNCHANGED <<flag, armed, cqWake>>,
             \A v \in Workers : WakePending(v) => WakePending(v)'
      PROVE  Woken'
  BY <1>0, <1>3, Zenon DEF Woken, CanWake, Notified, InSleep, WorkersStay
<1>4. ASSUME NEW x \in Threads, NotifyCheck(x) \/ NotifyWrite(x)
      PROVE  Woken'
  <2>1. WorkersStay
    BY <1>0, <1>4, OutsideSteps, Zenon
  <2>2. ASSUME NEW v \in Workers, WakePending(v), NotifyCheck(x)
        PROVE  WakePending(v)'
    BY <1>0, <2>2, Zenon DEF NotifyCheck, WakePending, Completions, ThreadTypes, queues, driver
  <2>3. ASSUME NEW v \in Workers, WakePending(v), NotifyWrite(x)
        PROVE  WakePending(v)'
    BY <1>0, <2>3, Zenon DEF NotifyWrite, WakePending, Completions, ThreadTypes, DriverTypes,
       queues
  <2>4. QED
    BY <1>3, <1>4, <2>1, <2>2, <2>3, Zenon DEF NotifyCheck, NotifyWrite, driver
<1>5. ASSUME NEW w \in Workers, IoComplete(w)
      PROVE  Woken'
  <2>1. \A v \in Workers : Completions(v) => Completions(v)'
    <3>1. PICK t \in Tasks : cq' = [cq EXCEPT ![w] = Append(cq[w], t)]
      BY <1>0, <1>5, Zenon DEF IoComplete, DriverTypes
    <3>2. Append(cq[w], t) # <<>>
      BY <1>0, Queues, Zenon DEF DriverTypes
    <3>3. QED
      BY <1>0, <1>5, <3>1, <3>2, Zenon DEF IoComplete, Completions, DriverTypes
  <2>2. \A v \in Workers : WakePending(v) => WakePending(v)'
    BY <1>5, <2>1, Zenon DEF IoComplete, WakePending
  <2>3. QED
    BY <1>0, <1>3, <1>5, <2>2, OutsideSteps, Zenon DEF IoComplete
<1>6. ASSUME NEW w \in Workers, WakerComplete(w)
      PROVE  Woken'
  <2>1. WorkersStay
    BY <1>0, <1>6, OutsideSteps, Zenon
  <2>2. ASSUME NEW v \in Workers
        PROVE  CanWake(v)'
    <3>1. WakePending(v) => WakePending(v)'
      BY <1>0, <1>6, Zenon DEF WakerComplete, WakePending, Completions, DriverTypes
    <3>2. QED
      BY <1>0, <1>6, <2>1, <3>1, Zenon DEF WakerComplete, Woken, CanWake, Notified, InSleep,
         WorkersStay, DriverTypes
  <2>3. QED
    BY <2>2, Zenon DEF Woken
<1>7. CASE ScheduleRemote
  <2>1. \A v \in Workers : WakePending(v) => WakePending(v)'
    BY <1>0, <1>7, Zenon DEF ScheduleRemote, WakeUpOneIf, WakePending, Completions, ThreadTypes,
       driver
  <2>2. QED
    BY <1>0, <1>3, <1>7, <2>1, OutsideSteps, Zenon DEF ScheduleRemote, driver
<1>8. CASE UNCHANGED vars
  <2>1. \A v \in Workers : WakePending(v) => WakePending(v)'
    BY <1>8, Zenon DEF WakePending, Completions, vars, driver
  <2>2. QED
    BY <1>0, <1>3, <1>8, <2>1, OutsideSteps, Zenon DEF vars, driver
<1>9. QED
  BY <1>1, <1>2, <1>4, <1>5, <1>6, <1>7, <1>8, Zenon DEF Next, WakeUpOne

-----------------------------------------------------------------------------
(* The latch                                                               *)

\* How a worker reaches the latch.
Leaving(w) ==
  /\ Gone(w) => Gone(w)'
  /\ Gone(w)' => note'[w] = "none"
  /\ pc'[w] = "destroyed" => pc[w] = "destroyed" \/ \A v \in Workers : Gone(v)

\* A worker arrives at the latch with its notifying done.
LEMMA LatchOwn ==
  ASSUME NEW w \in Workers, ThreadTypes,
         WorkerStep(w) \/ WaitInterrupted(w)
  PROVE  Leaving(w)
<1>1. CASE \/ Maintenance(w) \/ GetGlobalFirst(w) \/ GetLocal(w) \/ GetGlobalShare(w)
           \/ GetNothing(w)
  BY <1>1, Zenon DEF Maintenance, GetGlobalFirst, GetLocal, GetGlobalShare, GetNothing, At, Goto,
     Poll, WakeUpOneIf, AtNext, Execute, HasTasks, Leaving, Gone, ThreadTypes, Threads
<1>2. CASE SearchCheck(w) \/ SearchInc(w) \/ StealTry(w) \/ StealEnd(w) \/ StealGlobal(w)
  BY <1>2, Zenon DEF SearchCheck, SearchInc, StealTry, StealEnd, StealGlobal, At, Goto, StealHalf,
     Execute, Leaving, Gone, ThreadTypes, Threads
<1>3. CASE RunPoll(w) \/ SleepBegin(w) \/ TransitionToSleeping(w) \/ WakeUpIfWorkPending(w)
  BY <1>3, Zenon DEF RunPoll, SleepBegin, TransitionToSleeping, WakeUpIfWorkPending, At, Goto,
     Poll, WakeUpOneIf, Leaving, Gone, ThreadTypes, Threads
<1>4. CASE DriverWait(w) \/ WaitInterrupted(w) \/ TransitionFromSleeping(w)
  BY <1>4, Zenon DEF DriverWait, WaitInterrupted, TransitionFromSleeping, At, Goto, Leaving, Gone,
     ThreadTypes, Threads
<1>5. CASE ExecuteTask(w) \/ TaskSpawn(w) \/ TaskAwaitIo(w) \/ TaskEnd(w)
  BY <1>5, Zenon DEF ExecuteTask, TaskSpawn, TaskAwaitIo, TaskEnd, At, Goto, WakeUpOneIf, Leaving,
     Gone, ThreadTypes, Threads
<1>6. CASE WakeUpAll(w) \/ WorkerExit(w) \/ WorkerDestroyed(w)
  BY <1>6, Zenon DEF WakeUpAll, WorkerExit, WorkerDestroyed, At, Goto, Leaving, Gone, ThreadTypes,
     Threads
<1>7. QED
  BY <1>1, <1>2, <1>3, <1>4, <1>5, <1>6, Zenon DEF WorkerStep

\* Workers are destroyed after all of them have arrived.
LEMMA LatchedStep ==
  ASSUME SchedulerInv, [Next]_vars
  PROVE  Latched'
<1>0. Types /\ ThreadTypes /\ Latched
  BY Zenon DEF SchedulerInv, Types
<1>1. ASSUME NEW w \in Workers, WorkerStep(w) \/ WaitInterrupted(w)
      PROVE  Latched'
  <2>1. Leaving(w) /\ OthersGoOn(w)
    BY <1>0, <1>1, LatchOwn, GoOn, Zenon
  <2>2. QED
    BY <1>0, <2>1, Zenon DEF Latched, Leaving, Gone, OthersGoOn
<1>2. ASSUME NEW x \in Threads, WakeUpOne(x)
      PROVE  Latched'
  <2>1. note[x] # "none" /\ UNCHANGED pc
    BY <1>2, Zenon DEF WakeUpOne, NotifyCheck, NotifyLock, NotifyWrite
  <2>2. PICK l : note' = [note EXCEPT ![x] = l]
    BY <1>2, Zenon DEF WakeUpOne, NotifyCheck, NotifyLock, NotifyWrite
  <2>3. QED
    BY <1>0, <2>1, <2>2, Zenon DEF Latched, Gone, ThreadTypes, Threads
<1>3. ASSUME WorkersStay, \A w \in Workers : note'[w] = note[w]
      PROVE  Latched'
  BY <1>0, <1>3, Zenon DEF Latched, Gone, WorkersStay
<1>4. ASSUME NEW w \in Workers, IoComplete(w) \/ WakerComplete(w)
      PROVE  Latched'
  BY <1>0, <1>3, <1>4, OutsideSteps, Zenon DEF IoComplete, WakerComplete
<1>5. CASE ScheduleRemote
  <2>1. \A w \in Workers : note'[w] = note[w]
    BY <1>0, <1>5, ThreadsAssumption, Zenon DEF ScheduleRemote, WakeUpOneIf, ThreadTypes, Threads
  <2>2. QED
    BY <1>0, <1>3, <1>5, <2>1, OutsideSteps, Zenon
<1>6. CASE UNCHANGED vars
  BY <1>0, <1>3, <1>6, OutsideSteps, Zenon DEF vars
<1>7. QED
  BY <1>1, <1>2, <1>4, <1>5, <1>6, Zenon DEF Next

-----------------------------------------------------------------------------
(* Nobody sleeps on a task of its own, or through shutdown                 *)

\* How a worker gets to the labels of GoesToSleep, and how wake_up_all is done.
Calming(w) ==
  GoesToSleep(w)' =>
    /\ ~HasTasks(w)'
    /\ closed' => \/ shutdown'[w]
                  \/ /\ closed /\ GoesToSleep(w) /\ shutdown'[w] = shutdown[w]
                     /\ evfd'[w] = evfd[w] /\ cqWake'[w] = cqWake[w]
Calling(w) ==
  /\ pc[w] = "wake_up_all" =>
       \A v \in toTry[w] : evfd'[v] \/ (pc'[w] = "wake_up_all" /\ v \in toTry'[w])
  /\ closed' /\ ~closed => pc'[w] = "wake_up_all" /\ toTry'[w] = Workers

\* A worker checks its own queue, and the shutdown, before it waits.
LEMMA CalmOwn ==
  ASSUME NEW w \in Workers, Dozes(w), ThreadTypes, IdleTypes, QueueTypes,
         WorkerStep(w) \/ WaitInterrupted(w)
  PROVE  Calming(w)
<1>1. CASE \/ Maintenance(w) \/ GetGlobalFirst(w) \/ GetLocal(w) \/ GetGlobalShare(w)
           \/ GetNothing(w)
  BY <1>1, Zenon DEF Maintenance, GetGlobalFirst, GetLocal, GetGlobalShare, GetNothing, At, Goto,
     Poll, DriverPoll, AtNext, Execute, queues, driver, Calming, Dozes, GoesToSleep, HasTasks,
     ThreadTypes, IdleTypes, QueueTypes, Threads
<1>2. CASE SearchCheck(w) \/ SearchInc(w) \/ StealTry(w) \/ StealEnd(w) \/ StealGlobal(w)
  BY <1>2, Zenon DEF SearchCheck, SearchInc, StealTry, StealEnd, StealGlobal, At, Goto, StealHalf,
     Execute, queues, driver, Calming, Dozes, GoesToSleep, HasTasks, ThreadTypes, IdleTypes,
     QueueTypes, Threads
<1>3. CASE RunPoll(w) \/ SleepBegin(w) \/ TransitionToSleeping(w) \/ WakeUpIfWorkPending(w)
  BY <1>3, Zenon DEF RunPoll, SleepBegin, TransitionToSleeping, WakeUpIfWorkPending, At, Goto,
     Poll, DriverPoll, queues, driver, Calming, Dozes, GoesToSleep, HasTasks, ThreadTypes,
     IdleTypes, QueueTypes, Threads
<1>4. CASE DriverWait(w) \/ WaitInterrupted(w) \/ TransitionFromSleeping(w)
  <2>1. CASE DriverWait(w)
    BY <2>1, Zenon DEF DriverWait, At, Goto, DriverPoll, queues, driver, Calming, Dozes,
       GoesToSleep, ThreadTypes, IdleTypes, QueueTypes, Threads
  <2>2. CASE WaitInterrupted(w)
    BY <2>2, Zenon DEF WaitInterrupted, At, Goto, DriverPoll, Calming, Dozes, GoesToSleep,
       ThreadTypes, IdleTypes, QueueTypes, Threads
  <2>3. CASE TransitionFromSleeping(w)
    BY <2>3, Moves, Zenon DEF TransitionFromSleeping, contains, HasTasks, queues, Calming,
       GoesToSleep, IdleTypes
  <2>4. QED
    BY <1>4, <2>1, <2>2, <2>3, Zenon
<1>5. CASE ExecuteTask(w) \/ TaskSpawn(w) \/ TaskAwaitIo(w) \/ TaskEnd(w)
  <2>1. ~GoesToSleep(w)'
    BY <1>5, Zenon DEF ExecuteTask, TaskSpawn, TaskAwaitIo, TaskEnd, At, Goto, GoesToSleep,
       ThreadTypes, Threads
  <2>2. QED
    BY <2>1, Zenon DEF Calming
<1>6. CASE WakeUpAll(w) \/ WorkerExit(w) \/ WorkerDestroyed(w)
  BY <1>6, Zenon DEF WakeUpAll, WorkerExit, WorkerDestroyed, At, Goto, queues, driver, Calming,
     Dozes, GoesToSleep, HasTasks, ThreadTypes, IdleTypes, QueueTypes, Threads
<1>7. QED
  BY <1>1, <1>2, <1>3, <1>4, <1>5, <1>6, Zenon DEF WorkerStep

\* wake_up_all writes to every worker.
LEMMA CallOwn ==
  ASSUME NEW w \in Workers, ThreadTypes, VictimTypes, DriverTypes,
         WorkerStep(w) \/ WaitInterrupted(w)
  PROVE  Calling(w)
<1>1. ASSUME pc[w] # "wake_up_all", closed' = closed
      PROVE  Calling(w)
  BY <1>1, Zenon DEF Calling
<1>2. CASE \/ Maintenance(w) \/ GetGlobalFirst(w) \/ GetLocal(w) \/ GetGlobalShare(w)
           \/ GetNothing(w) \/ SearchCheck(w) \/ SearchInc(w) \/ StealTry(w) \/ StealEnd(w)
           \/ StealGlobal(w)
  BY <1>1, <1>2, Zenon DEF Maintenance, GetGlobalFirst, GetLocal, GetGlobalShare, GetNothing,
     SearchCheck, SearchInc, StealTry, StealEnd, StealGlobal, AtNext, At, Poll, DriverPoll, queues
<1>3. CASE \/ RunPoll(w) \/ SleepBegin(w) \/ TransitionToSleeping(w) \/ WakeUpIfWorkPending(w)
           \/ DriverWait(w) \/ WaitInterrupted(w) \/ TransitionFromSleeping(w)
  BY <1>1, <1>3, Zenon DEF RunPoll, SleepBegin, TransitionToSleeping, WakeUpIfWorkPending,
     DriverWait, WaitInterrupted, TransitionFromSleeping, At, Poll, DriverPoll, queues
<1>4. CASE \/ ExecuteTask(w) \/ TaskSpawn(w) \/ TaskAwaitIo(w) \/ WorkerExit(w)
           \/ WorkerDestroyed(w)
  BY <1>1, <1>4, Zenon DEF ExecuteTask, TaskSpawn, TaskAwaitIo, WorkerExit, WorkerDestroyed, At,
     queues
<1>5. CASE TaskEnd(w)
  BY <1>5, Moves, Zenon DEF TaskEnd, Calling, VictimTypes
<1>6. CASE WakeUpAll(w)
  BY <1>6 DEF WakeUpAll, At, queues, Calling, ThreadTypes, VictimTypes, DriverTypes, Threads
<1>7. QED
  BY <1>2, <1>3, <1>4, <1>5, <1>6, Zenon DEF WorkerStep

\* No step leaves a worker asleep on its own tasks or through the shutdown.
LEMMA DozingStep ==
  ASSUME SchedulerInv, [Next]_vars
  PROVE  Dozing'
<1>0. Types /\ ThreadTypes /\ DriverTypes /\ Dozing
  BY Zenon DEF SchedulerInv, Types
<1>1. ASSUME NEW w \in Workers, WorkerStep(w) \/ WaitInterrupted(w)
      PROVE  Dozing'
  <2>1. Calming(w) /\ Calling(w) /\ OthersGoOn(w) /\ OthersDriven(w) /\ (closed => closed')
    BY <1>0, <1>1, CalmOwn, CallOwn, GoOn, Zenon DEF Types, Dozing, WritesGoOn
  <2>2. Dozes(w)'
    <3>1. ASSUME GoesToSleep(w), WillHear(w), shutdown'[w] = shutdown[w],
                 evfd'[w] = evfd[w], cqWake'[w] = cqWake[w]
          PROVE  WillHear(w)'
      BY <2>1, <3>1, Zenon DEF WillHear, GoesToSleep, OthersGoOn
    <3>2. QED
      BY <1>0, <2>1, <3>1, Zenon DEF Dozing, Dozes, Calming, WillHear
  <2>3. ASSUME NEW v \in Workers, v # w
        PROVE  Dozes(v)'
    <3>1. closed /\ WillHear(v) => WillHear(v)'
      BY <2>1, <2>3, Zenon DEF WillHear, Calling, OthersGoOn, OthersDriven
    <3>2. ~closed /\ closed' => WillHear(v)'
      BY <2>1, Zenon DEF WillHear, Calling
    <3>3. HasTasks(v)' => HasTasks(v)
      BY <2>1, <2>3, Zenon DEF HasTasks, OthersDriven
    <3>4. QED
      BY <1>0, <2>1, <2>3, <3>1, <3>2, <3>3, Zenon DEF Dozing, Dozes, GoesToSleep, OthersGoOn
  <2>4. QED
    BY <2>2, <2>3, Zenon DEF Dozing
<1>2. ASSUME UNCHANGED <<closed, shutdown, toTry, runNext, local>>,
             \A v \in Workers : pc'[v] = pc[v] /\ (evfd[v] \/ cqWake[v] => evfd'[v] \/ cqWake'[v])
      PROVE  Dozing'
  BY <1>0, <1>2, Zenon DEF Dozing, Dozes, GoesToSleep, HasTasks, WillHear
<1>3. ASSUME NEW x \in Threads, NotifyLock(x)
      PROVE  Dozing'
  BY <1>2, <1>3, Zenon DEF NotifyLock, queues, locals, driver
<1>4. ASSUME WorkersStay, \A v \in Workers : evfd[v] \/ cqWake[v] => evfd'[v] \/ cqWake'[v]
      PROVE  Dozing'
  BY <1>2, <1>4, Zenon DEF WorkersStay
<1>5. ASSUME NEW x \in Threads, NotifyCheck(x)
      PROVE  Dozing'
  BY <1>0, <1>4, <1>5, OutsideSteps, Zenon DEF NotifyCheck, driver
<1>6. ASSUME NEW x \in Threads, NotifyWrite(x)
      PROVE  Dozing'
  <2>1. \A v \in Workers : evfd[v] \/ cqWake[v] => evfd'[v] \/ cqWake'[v]
    BY <1>0, <1>6, Zenon DEF NotifyWrite, DriverTypes
  <2>2. QED
    BY <1>0, <1>4, <1>6, <2>1, OutsideSteps, Zenon
<1>7. ASSUME NEW w \in Workers, IoComplete(w) \/ WakerComplete(w)
      PROVE  Dozing'
  <2>1. \A v \in Workers : evfd[v] \/ cqWake[v] => evfd'[v] \/ cqWake'[v]
    BY <1>0, <1>7, Zenon DEF IoComplete, WakerComplete, DriverTypes
  <2>2. QED
    BY <1>0, <1>4, <1>7, <2>1, OutsideSteps, Zenon
<1>8. CASE ScheduleRemote
  BY <1>0, <1>4, <1>8, OutsideSteps, Zenon DEF ScheduleRemote, driver
<1>9. CASE UNCHANGED vars
  BY <1>0, <1>4, <1>9, OutsideSteps, Zenon DEF vars, driver
<1>10. QED
  BY <1>1, <1>3, <1>5, <1>6, <1>7, <1>8, <1>9, Zenon DEF Next, WakeUpOne

-----------------------------------------------------------------------------
(* Somebody answers for the global queue                                   *)

\* What a worker that stops looking leaves behind while the runtime is open.
Covering(w) ==
  ~closed' /\ Covers(w) => Covers(w)' \/ (2 * searching >= N /\ ~Seeks(w))
Looking(w) ==
  /\ note[w] = "none" /\ (global = <<>> => global' = <<>>)
  /\ ~closed' /\ global' # <<>> /\ Looks(w) =>
       \/ Looks(w)' \/ Notifies(w)'
       \/ 2 * searching >= N /\ ~Seeks(w)
       \/ searching # 1 /\ Seeks(w)

\* A worker goes to sleep by being in sleeping_workers first.
LEMMA CoverOwn ==
  ASSUME NEW w \in Workers, Where(w), ThreadTypes, IdleTypes, QueueTypes,
         WorkerStep(w) \/ WaitInterrupted(w)
  PROVE  Covering(w)
<1>1. CASE \/ Maintenance(w) \/ GetGlobalFirst(w) \/ GetLocal(w) \/ GetGlobalShare(w)
           \/ GetNothing(w)
  BY <1>1, Zenon DEF Maintenance, GetGlobalFirst, GetLocal, GetGlobalShare, GetNothing, At, Goto,
     Poll, DriverPoll, AtNext, Execute, HasTasks, queues, idle, Covering, Covers, Where, Seeks,
     Notified, InSleep, Left, Fresh, ThreadTypes, IdleTypes, QueueTypes, Threads
<1>2. CASE SearchCheck(w) \/ SearchInc(w) \/ StealTry(w) \/ StealEnd(w) \/ StealGlobal(w)
  BY <1>2, Zenon DEF SearchCheck, SearchInc, StealTry, StealEnd, StealGlobal, At, Goto, StealHalf,
     Execute, queues, idle, Covering, Covers, Where, Seeks, Notified, InSleep, Left, Fresh,
     ThreadTypes, IdleTypes, QueueTypes, Threads
<1>3. CASE RunPoll(w) \/ SleepBegin(w) \/ TransitionToSleeping(w) \/ WakeUpIfWorkPending(w)
  BY <1>3, Zenon DEF RunPoll, SleepBegin, TransitionToSleeping, WakeUpIfWorkPending, At, Goto,
     Poll, DriverPoll, transition_worker_to_sleeping, queues, idle, Covering, Covers, Where,
     Seeks, Notified, InSleep, Left, Fresh, ThreadTypes, IdleTypes, QueueTypes, Threads
<1>4. CASE DriverWait(w) \/ WaitInterrupted(w) \/ TransitionFromSleeping(w)
  BY <1>4, Zenon DEF DriverWait, WaitInterrupted, TransitionFromSleeping, At, Goto, DriverPoll,
     contains, remove, queues, idle, Covering, Covers, Where, Seeks, Notified, InSleep, Left,
     Fresh, ThreadTypes, IdleTypes, QueueTypes, Threads
<1>5. CASE ExecuteTask(w) \/ TaskSpawn(w) \/ TaskAwaitIo(w) \/ TaskEnd(w)
  <2>1. CASE ExecuteTask(w)
    BY <2>1, Zenon DEF ExecuteTask, At, Goto, queues, Covering, Covers, Where, Seeks, Notified,
       InSleep, Left, Fresh, ThreadTypes, IdleTypes, QueueTypes, Threads
  <2>2. CASE TaskSpawn(w)
    BY <2>2, Zenon DEF TaskSpawn, At, idle, Covering, Covers, Where, Seeks, Notified, InSleep,
       Left, Fresh, ThreadTypes, IdleTypes, QueueTypes, Threads
  <2>3. CASE TaskAwaitIo(w)
    BY <2>3, Zenon DEF TaskAwaitIo, At, Goto, queues, idle, Covering, Covers, Where, Seeks,
       Notified, InSleep, Left, Fresh, ThreadTypes, IdleTypes, QueueTypes, Threads
  <2>4. CASE TaskEnd(w)
    BY <2>4, Zenon DEF TaskEnd, At, Goto, idle, Covering, Covers, Where, Seeks, Notified, InSleep,
       Left, Fresh, ThreadTypes, IdleTypes, QueueTypes, Threads
  <2>5. QED
    BY <1>5, <2>1, <2>2, <2>3, <2>4, Zenon
<1>6. CASE WakeUpAll(w) \/ WorkerExit(w) \/ WorkerDestroyed(w)
  BY <1>6, Zenon DEF WakeUpAll, WorkerExit, WorkerDestroyed, At, Goto, queues, idle, Covering,
     Covers, Where, Seeks, Notified, InSleep, Left, Fresh, ThreadTypes, IdleTypes, QueueTypes,
     Threads
<1>7. QED
  BY <1>1, <1>2, <1>3, <1>4, <1>5, <1>6, Zenon DEF WorkerStep

\* Who stops looking at the global queue has notified, or another searches.
LEMMA LookOwn ==
  ASSUME NEW w \in Workers, Where(w), ThreadTypes, IdleTypes, QueueTypes,
         WorkerStep(w) \/ WaitInterrupted(w)
  PROVE  Looking(w)
<1>1. CASE \/ Maintenance(w) \/ GetGlobalFirst(w) \/ GetLocal(w) \/ GetGlobalShare(w)
           \/ GetNothing(w)
  BY <1>1, Zenon DEF Maintenance, GetGlobalFirst, GetLocal, GetGlobalShare, GetNothing, At, Goto,
     Poll, DriverPoll, WakeUpOneIf, AtNext, Execute, HasTasks, queues, idle, Looking, Looks,
     Notifies, Where, Seeks, Notified, InSleep, Left, Fresh, ThreadTypes, IdleTypes, QueueTypes,
     Threads
<1>2. CASE SearchCheck(w) \/ SearchInc(w) \/ StealTry(w) \/ StealEnd(w) \/ StealGlobal(w)
  BY <1>2, Zenon DEF SearchCheck, SearchInc, StealTry, StealEnd, StealGlobal, At, Goto, StealHalf,
     Execute, queues, idle, Looking, Looks, Notifies, Where, Seeks, Notified, InSleep, Left,
     Fresh, ThreadTypes, IdleTypes, QueueTypes, Threads
<1>3. CASE RunPoll(w) \/ SleepBegin(w) \/ TransitionToSleeping(w) \/ WakeUpIfWorkPending(w)
  BY <1>3, Zenon DEF RunPoll, SleepBegin, TransitionToSleeping, WakeUpIfWorkPending, At, Goto,
     Poll, DriverPoll, WakeUpOneIf, transition_worker_to_sleeping, queues, idle, Looking, Looks,
     Notifies, Where, Seeks, Notified, InSleep, Left, Fresh, ThreadTypes, IdleTypes, QueueTypes,
     Threads
<1>4. CASE DriverWait(w) \/ WaitInterrupted(w) \/ TransitionFromSleeping(w)
  <2>1. CASE DriverWait(w)
    BY <2>1, Zenon DEF DriverWait, At, Goto, DriverPoll, queues, idle, Looking, Looks, Notifies,
       Where, Seeks, Notified, InSleep, Left, Fresh, ThreadTypes, IdleTypes, QueueTypes, Threads
  <2>2. CASE WaitInterrupted(w)
    BY <2>2, Zenon DEF WaitInterrupted, At, Goto, DriverPoll, idle, Looking, Looks, Notifies,
       Where, Seeks, Notified, InSleep, Left, Fresh, ThreadTypes, IdleTypes, QueueTypes, Threads
  <2>3. CASE TransitionFromSleeping(w)
    BY <2>3, Zenon DEF TransitionFromSleeping, At, Goto, contains, remove, queues, idle, Looking,
       Looks, Notifies, Where, Seeks, Notified, InSleep, Left, Fresh, ThreadTypes, IdleTypes,
       QueueTypes, Threads
  <2>4. QED
    BY <1>4, <2>1, <2>2, <2>3, Zenon
<1>5. CASE ExecuteTask(w) \/ TaskSpawn(w) \/ TaskAwaitIo(w) \/ TaskEnd(w)
  <2>1. CASE ExecuteTask(w)
    BY <2>1, Zenon DEF ExecuteTask, At, Goto, WakeUpOneIf, queues, Looking, Looks, Notifies,
       Where, Seeks, Notified, InSleep, Left, Fresh, ThreadTypes, IdleTypes, QueueTypes, Threads
  <2>2. CASE TaskSpawn(w)
    BY <2>2, Zenon DEF TaskSpawn, At, WakeUpOneIf, idle, Looking, Looks, Notifies, Where, Seeks,
       Notified, InSleep, Left, Fresh, ThreadTypes, IdleTypes, QueueTypes, Threads
  <2>3. CASE TaskAwaitIo(w)
    BY <2>3, Zenon DEF TaskAwaitIo, At, Goto, queues, idle, Looking, Looks, Notifies, Where,
       Seeks, Notified, InSleep, Left, Fresh, ThreadTypes, IdleTypes, QueueTypes, Threads
  <2>4. CASE TaskEnd(w)
    BY <2>4, Zenon DEF TaskEnd, At, Goto, idle, Looking, Looks, Notifies, Where, Seeks, Notified,
       InSleep, Left, Fresh, ThreadTypes, IdleTypes, QueueTypes, Threads
  <2>5. QED
    BY <1>5, <2>1, <2>2, <2>3, <2>4, Zenon
<1>6. CASE WakeUpAll(w) \/ WorkerExit(w) \/ WorkerDestroyed(w)
  BY <1>6, Zenon DEF WakeUpAll, WorkerExit, WorkerDestroyed, At, Goto, queues, idle, Looking,
     Looks, Notifies, Where, Seeks, Notified, InSleep, Left, Fresh, ThreadTypes, IdleTypes,
     QueueTypes, Threads
<1>7. QED
  BY <1>1, <1>2, <1>3, <1>4, <1>5, <1>6, Zenon DEF WorkerStep

-----------------------------------------------------------------------------
(* What needs the number of workers in a set, and the theorems. *)

\* The workers are finitely many, and there is one.
LEMMA WorkersFinite == IsFiniteSet(Workers) /\ N \in Nat \ {0}
  BY ThreadsAssumption, FS_CardinalityType, FS_EmptySet DEF N

\* One worker enters or leaves a set of workers.
LEMMA OneWorker ==
  ASSUME NEW P \in SUBSET Workers, NEW Q \in SUBSET Workers, NEW w \in Workers,
         \A v \in Workers : v # w => (v \in P <=> v \in Q)
  PROVE  /\ Cardinality(P) \in Nat /\ Cardinality(Q) \in Nat
         /\ (w \in P <=> w \in Q) => Cardinality(Q) = Cardinality(P)
         /\ w \in P /\ w \notin Q => Cardinality(Q) = Cardinality(P) - 1
         /\ w \notin P /\ w \in Q => Cardinality(Q) = Cardinality(P) + 1
<1>1. IsFiniteSet(P) /\ IsFiniteSet(Q)
  BY WorkersFinite, FS_Subset
<1>2. Cardinality(P) \in Nat /\ Cardinality(Q) \in Nat
  BY <1>1, FS_CardinalityType
<1>3. ASSUME w \in P <=> w \in Q
      PROVE  Cardinality(Q) = Cardinality(P)
  <2>1. P = Q
    BY <1>3
  <2>2. QED
    BY <2>1
<1>4. ASSUME w \in P, w \notin Q
      PROVE  Cardinality(Q) = Cardinality(P) - 1
  <2>1. Q = P \ {w}
    BY <1>4
  <2>2. QED
    BY <1>1, <1>4, <2>1, FS_RemoveElement
<1>5. ASSUME w \notin P, w \in Q
      PROVE  Cardinality(Q) = Cardinality(P) + 1
  <2>1. Q = P \cup {w}
    BY <1>5
  <2>2. QED
    BY <1>1, <1>5, <2>1, FS_AddElement
<1>6. QED
  BY <1>2, <1>3, <1>4, <1>5

\* The counters count the sets of workers, whatever the step.
LEMMA CountsStep ==
  ASSUME SchedulerInv, [Next]_vars
  PROVE  Counts'
<1>0. Types /\ Types' /\ WhereTheyAre /\ Counts
  BY WorkersFinite, TypesStep DEF SchedulerInv
<1>1. /\ working \in Int /\ searching \in Int /\ N \in Nat
      /\ sleeping \in SUBSET Workers /\ sleeping' \in SUBSET Workers
      /\ Searchers \in SUBSET Workers /\ Searchers' \in SUBSET Workers
      /\ Counted \in SUBSET Workers /\ Counted' \in SUBSET Workers
  BY <1>0, WorkersFinite DEF Types, IdleTypes, Searchers, Counted
<1>2. ASSUME NEW w \in Workers, OthersGoOn(w)
      PROVE  \A v \in Workers : v # w =>
               /\ v \in sleeping <=> v \in sleeping'
               /\ v \in Searchers <=> v \in Searchers'
               /\ v \in Counted <=> v \in Counted'
  BY <1>2 DEF OthersGoOn, Searchers, Counted, Seeks, MayCount, Notified, InSleep, Left
<1>3. ASSUME NEW w \in Workers, OthersGoOn(w), Counting(w)
      PROVE  Counts'
  <2>1. working' = N - Cardinality(sleeping')
    BY <1>0, <1>1, <1>2, <1>3, OneWorker DEF Counting, Counts
  <2>2. w \in Searchers <=> Seeks(w)
    BY DEF Searchers
  <2>3. w \in Searchers' <=> Seeks(w)'
    BY DEF Searchers
  <2>4. w \in Counted <=> MayCount(w)
    BY DEF Counted
  <2>5. w \in Counted' <=> MayCount(w)'
    BY DEF Counted
  <2>6. (Seeks(w) => MayCount(w)) /\ (Seeks(w)' => MayCount(w)')
    BY DEF MayCount
  <2>7. Cardinality(Searchers') <= searching'
    BY <1>0, <1>1, <1>2, <1>3, <2>2, <2>3, <2>6, OneWorker DEF Counting, Counts
  <2>8. searching' <= Cardinality(Counted')
    BY <1>0, <1>1, <1>2, <1>3, <2>4, <2>5, <2>6, OneWorker DEF Counting, Counts
  <2>9. QED
    BY <2>1, <2>7, <2>8 DEF Counts
<1>4. ASSUME NEW w \in Workers, WorkerStep(w) \/ WaitInterrupted(w)
      PROVE  Counts'
  BY <1>0, <1>3, <1>4, GoOn, CountsOwn DEF Types, WhereTheyAre
<1>5. ASSUME NEW x \in Threads, NotifyLock(x)
      PROVE  Counts'
  <2>1. CASE UNCHANGED idle
    <3>1. Searchers' = Searchers /\ Counted' = Counted
      BY <1>5, <2>1 DEF NotifyLock, Searchers, Counted, Seeks, MayCount, Notified, InSleep, Left,
         idle
    <3>2. QED
      BY <1>0, <2>1, <3>1 DEF Counts, idle
  <2>2. ASSUME NEW s \in sleeping, wake_up_one(1), sleeping' = sleeping \ {s}
        PROVE  Counts'
    <3>1. s \in Workers
      BY <1>1
    <3>2. \A v \in Workers : v # s =>
            /\ v \in sleeping <=> v \in sleeping'
            /\ v \in Searchers <=> v \in Searchers'
            /\ v \in Counted <=> v \in Counted'
      BY <1>5, <2>2 DEF NotifyLock, Searchers, Counted, Seeks, MayCount, Notified, InSleep, Left
    <3>3. s \notin Counted /\ s \notin Searchers /\ s \in Counted'
      BY <1>0, <1>5, <2>2, <3>1 DEF WhereTheyAre, Where, NotifyLock, Searchers, Counted, Seeks,
         MayCount, Notified, InSleep, Left
    <3>4. working' = N - Cardinality(sleeping')
      BY <1>0, <1>1, <2>2, <3>1, <3>2, OneWorker DEF Counts, wake_up_one
    <3>5. Cardinality(Searchers') <= searching'
      BY <1>0, <1>1, <2>2, <3>1, <3>2, <3>3, OneWorker DEF Counts, wake_up_one
    <3>6. searching' <= Cardinality(Counted')
      BY <1>0, <1>1, <2>2, <3>1, <3>2, <3>3, OneWorker DEF Counts, wake_up_one
    <3>7. QED
      BY <3>4, <3>5, <3>6 DEF Counts
  <2>3. QED
    BY <1>5, <2>1, <2>2 DEF NotifyLock, idle
<1>6. CASE WorkersStay
  <2>1. Searchers' = Searchers /\ Counted' = Counted
    BY <1>6 DEF WorkersStay, Searchers, Counted, Seeks, MayCount, Notified, InSleep, Left
  <2>2. QED
    BY <1>0, <1>6, <2>1 DEF Counts, WorkersStay
<1>7. QED
  BY <1>0, <1>4, <1>5, <1>6, Steps

-----------------------------------------------------------------------------
(* Somebody answers for the global queue                                   *)

\* While the runtime is open the searching half of state_ is exact.
LEMMA OpenCounts ==
  ASSUME SchedulerInv, ~closed
  PROVE  /\ searching = Cardinality(Searchers) /\ searching \in Nat
         /\ searching = 0 <=> Searchers = {}
         /\ searching # 0 => \E v \in Workers : Seeks(v)
<1>1. Counted = Searchers
  BY DEF SchedulerInv, WhereTheyAre, Where, Left, Counted, Searchers, MayCount
<1>2. IsFiniteSet(Searchers) /\ Cardinality(Searchers) \in Nat
  BY WorkersFinite, FS_Subset, FS_CardinalityType DEF Searchers
<1>3. searching = Cardinality(Searchers)
  BY <1>1, <1>2 DEF SchedulerInv, Counts, Types, IdleTypes
<1>4. Cardinality(Searchers) = 0 <=> Searchers = {}
  BY <1>2, FS_EmptySet
<1>5. Searchers # {} => \E v \in Workers : Seeks(v)
  BY DEF Searchers
<1>6. QED
  BY <1>2, <1>3, <1>4, <1>5

\* No worker but w is needed to answer, or there is another that searches.
LEMMA AnotherSearches ==
  ASSUME SchedulerInv, ~closed, NEW w \in Workers,
         (2 * searching >= N /\ ~Seeks(w)) \/ (searching # 1 /\ Seeks(w))
  PROVE  \E v \in Workers : v # w /\ Seeks(v)
<1>1. CASE 2 * searching >= N /\ ~Seeks(w)
  <2>1. searching # 0
    BY <1>1, WorkersFinite, OpenCounts
  <2>2. QED
    BY <1>1, <2>1, OpenCounts
<1>2. CASE searching # 1 /\ Seeks(w)
  <2>1. Searchers # {w}
    BY <1>2, OpenCounts, FS_Singleton
  <2>2. QED
    BY <1>2, <2>1 DEF Searchers
<1>3. QED
  BY <1>1, <1>2

\* While the runtime is open somebody answers for the global queue.
LEMMA AnsweredStep ==
  ASSUME SchedulerInv, [Next]_vars
  PROVE  Answered'
<1>0. Types /\ ThreadTypes /\ WhereTheyAre /\ Answered
  BY DEF SchedulerInv, Types
<1>1. ASSUME NEW w \in Workers, WorkerStep(w) \/ WaitInterrupted(w), ~closed'
      PROVE  Answered'
  <2>1. Covering(w) /\ Looking(w) /\ OthersGoOn(w) /\ WritesGoOn /\ ~closed
    BY <1>0, <1>1, CoverOwn, LookOwn, GoOn DEF Types, WhereTheyAre, WritesGoOn
  <2>2. \A v \in Workers : v # w =>
          (Seeks(v) => Seeks(v)') /\ (Covers(v) => Covers(v)') /\ (Looks(v) => Looks(v)')
    BY <2>1 DEF OthersGoOn, Covers, Looks, Seeks, Notified, InSleep, Fresh
  <2>3. \E v \in Workers : Covers(v)'
    <3>1. PICK v \in Workers : Covers(v)
      BY <1>0, <2>1 DEF Answered
    <3>2. QED
      BY <1>1, <2>1, <2>2, <3>1, AnotherSearches DEF Covering, Covers
  <2>4. ASSUME global' # <<>>
        PROVE  (\E x \in Threads : Notifies(x)') \/ \E v \in Workers : Looks(v)'
    <3>1. CASE \E x \in Threads : Notifies(x)
      BY <2>1, <3>1 DEF Notifies, Looking, OthersGoOn, WritesGoOn, Threads
    <3>2. ASSUME NEW v \in Workers, Looks(v)
          PROVE  (\E x \in Threads : Notifies(x)') \/ \E u \in Workers : Looks(u)'
      BY <1>1, <2>1, <2>2, <2>4, <3>2, AnotherSearches DEF Looking, Looks, Threads
    <3>3. QED
      BY <1>0, <2>1, <2>4, <3>1, <3>2 DEF Answered, Looking
  <2>5. QED
    BY <2>3, <2>4 DEF Answered
<1>2. ASSUME ~closed, ~NotifyShouldWakeup
      PROVE  \E w \in Workers : Seeks(w) \/ Fresh(w)
  <2>1. CASE searching # 0
    BY <1>2, <2>1, OpenCounts
  <2>2. CASE searching = 0
    <3>1. Cardinality(sleeping) \in Nat /\ IsFiniteSet(sleeping)
      BY <1>0, WorkersFinite, FS_Subset, FS_CardinalityType DEF Types, IdleTypes
    <3>2. Cardinality(sleeping) = 0
      BY <1>2, <2>2, <3>1, WorkersFinite DEF NotifyShouldWakeup, SchedulerInv, Counts
    <3>3. sleeping = {}
      BY <3>1, <3>2, FS_EmptySet
    <3>4. QED
      BY <1>0, <1>2, <3>3 DEF Answered, Covers
  <2>3. QED
    BY <2>1, <2>2
<1>3. ASSUME WorkersStay, UNCHANGED global, \A x \in Threads : Notifies(x) => Notifies(x)'
      PROVE  Answered'
  <2>1. \A v \in Workers : (Covers(v) <=> Covers(v)') /\ (Looks(v) <=> Looks(v)')
    BY <1>3 DEF WorkersStay, Covers, Looks, Seeks, Notified, InSleep, Fresh
  <2>2. QED
    BY <1>0, <1>3, <2>1 DEF Answered, WorkersStay
<1>4. ASSUME UNCHANGED <<closed, sleeping, isSearching, pc>>, ~NotifyShouldWakeup
      PROVE  Answered'
  <2>1. \A v \in Workers : (Seeks(v) => Seeks(v)') /\ (Fresh(v) => Fresh(v)')
    BY <1>4 DEF Seeks, Notified, InSleep, Fresh
  <2>2. QED
    BY <1>2, <1>4, <2>1 DEF Answered, Covers, Looks
<1>5. ASSUME NEW x \in Threads, NotifyCheck(x)
      PROVE  Answered'
  <2>1. CASE NotifyShouldWakeup
    <3>1. \A y \in Threads : Notifies(y) => Notifies(y)'
      BY <1>0, <1>5, <2>1 DEF NotifyCheck, Notifies, ThreadTypes
    <3>2. QED
      BY <1>0, <1>3, <1>5, <3>1, OutsideSteps, Zenon DEF NotifyCheck, queues
  <2>2. CASE ~NotifyShouldWakeup
    BY <1>4, <1>5, <2>2 DEF NotifyCheck, queues, idle
  <2>3. QED
    BY <2>1, <2>2
<1>6. ASSUME NEW x \in Threads, NotifyLock(x)
      PROVE  Answered'
  <2>1. CASE ~NotifyShouldWakeup
    BY <1>4, <1>6, <2>1 DEF NotifyLock, queues, idle
  <2>2. CASE NotifyShouldWakeup
    <3>1. PICK s \in sleeping : sleeping' = sleeping \ {s}
      BY <1>6, <2>2 DEF NotifyLock
    <3>2. s \in Workers
      BY <1>0 DEF Types, IdleTypes
    <3>3. ~closed => Seeks(s)'
      BY <1>0, <1>6, <3>1, <3>2 DEF NotifyLock, WhereTheyAre, Where, Left, Seeks, Notified,
         InSleep
    <3>4. closed' = closed
      BY <1>6 DEF NotifyLock, queues
    <3>5. QED
      BY <3>2, <3>3, <3>4 DEF Answered, Covers, Looks
  <2>3. QED
    BY <2>1, <2>2
<1>7. ASSUME NEW x \in Threads, NotifyWrite(x)
      PROVE  Answered'
  <2>1. \A y \in Threads : Notifies(y) => Notifies(y)'
    BY <1>0, <1>7 DEF NotifyWrite, Notifies, ThreadTypes
  <2>2. QED
    BY <1>0, <1>3, <1>7, <2>1, OutsideSteps, Zenon DEF NotifyWrite, queues
<1>8. ASSUME NEW w \in Workers, IoComplete(w) \/ WakerComplete(w)
      PROVE  Answered'
  BY <1>0, <1>3, <1>8, OutsideSteps DEF IoComplete, WakerComplete, Notifies, queues
<1>9. CASE ScheduleRemote
  <2>1. WorkersStay /\ Ext \in Threads /\ Notifies(Ext)'
    BY <1>0, <1>9, OutsideSteps DEF ScheduleRemote, WakeUpOneIf, Notifies, ThreadTypes, Threads
  <2>2. \A v \in Workers : Covers(v) => Covers(v)'
    BY <2>1 DEF WorkersStay, Covers, Seeks, Notified, InSleep, Fresh
  <2>3. QED
    BY <1>0, <2>1, <2>2, Zenon DEF Answered, WorkersStay
<1>10. CASE UNCHANGED vars
  BY <1>0, <1>3, <1>10, OutsideSteps DEF vars, queues, Notifies
<1>11. CASE closed'
  BY <1>11 DEF Answered
<1>12. QED
  BY <1>1, <1>5, <1>6, <1>7, <1>8, <1>9, <1>10, <1>11 DEF Next, WakeUpOne

-----------------------------------------------------------------------------
(* The theorems                                                            *)

\* The runtime starts in the invariant,
LEMMA SchedulerInit == Init => SchedulerInv
<1> SUFFICES ASSUME Init
             PROVE  SchedulerInv
  OBVIOUS
<1>1. Types
  <2>1. QueueTypes /\ IdleTypes /\ VictimTypes
    <3>1. <<>> \in Seq(Tasks) /\ N \in Int
      BY WorkersFinite
    <3>2. QueueTypes
      BY <3>1, Zenon DEF Init, QueueTypes
    <3>3. IdleTypes
      BY <3>1 DEF Init, IdleTypes
    <3>4. VictimTypes
      BY DEF Init, VictimTypes
    <3>5. QED
      BY <3>2, <3>3, <3>4
  <2>2. ThreadTypes /\ LabelTypes
    BY ThreadsAssumption DEF Init, ThreadTypes, LabelTypes, Labels, Threads
  <2>3. DriverTypes
    BY DEF Init, DriverTypes
  <2>4. ProgramTypes
    BY TasksAssumption DEF Init, ProgramTypes
  <2>5. QED
    BY <2>1, <2>2, <2>3, <2>4 DEF Types
<1>2. \A w \in Workers : pc[w] = "loop" /\ ~isSearching[w] /\ ~shutdown[w]
  BY ThreadsAssumption DEF Init, Threads
<1>3. sleeping = {} /\ closed = FALSE /\ global = <<>>
  BY DEF Init
<1>4. WhereTheyAre /\ Latched /\ Dozing
  BY <1>2, <1>3 DEF WhereTheyAre, Where, InSleep, Left, Latched, Gone, Dozing, Dozes, GoesToSleep
<1>5. Counts
  <2>1. Searchers = {} /\ Counted = {}
    BY <1>2 DEF Searchers, Counted, Seeks, MayCount, Notified, InSleep, Left
  <2>2. QED
    BY <1>3, <2>1, WorkersFinite, FS_EmptySet DEF Init, Counts
<1>6. Woken
  BY <1>2, Zenon DEF Init, Woken, CanWake, Notified, InSleep
<1>7. Answered
  BY <1>2, <1>3, ThreadsAssumption DEF Answered, Covers, Fresh
<1>8. QED
  BY <1>1, <1>4, <1>5, <1>6, <1>7 DEF SchedulerInv

\* and every step keeps it.
LEMMA SchedulerStep == SchedulerInv /\ [Next]_vars => SchedulerInv'
  BY WorkersFinite, TypesStep, WhereStep, CountsStep, WokenStep, LatchedStep, DozingStep,
     AnsweredStep DEF SchedulerInv

\* Every step of the runtime, with any number of workers and any program, keeps
\* the invariant.
THEOREM SchedulerInvariant == Spec => []SchedulerInv
  BY SchedulerInit, SchedulerStep, PTL DEF Spec

\* The packed counters of IdleState stay within their halves, and the rest of
\* the state of the scheduler keeps its type.
THEOREM SchedulerTyped == Spec => []TypeOK
<1>1. SchedulerInv => TypeOK
  <2> SUFFICES ASSUME SchedulerInv
               PROVE  TypeOK
    OBVIOUS
  <2>1. Types /\ Counts
    BY DEF SchedulerInv
  <2>2. /\ Cardinality(sleeping) \in Nat /\ Cardinality(sleeping) <= N
        /\ Cardinality(Searchers) \in Nat
        /\ Cardinality(Counted) \in Nat /\ Cardinality(Counted) <= N
    BY <2>1, WorkersFinite, FS_Subset, FS_CardinalityType DEF Types, IdleTypes, Searchers,
       Counted, N
  <2>3. working \in 0..N /\ searching \in 0..N
    BY <2>1, <2>2, WorkersFinite DEF Counts, Types, IdleTypes
  <2>4. QED
    BY <2>1, <2>3 DEF TypeOK, Types, QueueTypes, IdleTypes, VictimTypes, ThreadTypes, DriverTypes,
       ProgramTypes
<1>2. QED
  BY <1>1, SchedulerInvariant, PTL

\* The counters of IdleState never drift from the workers that sleep and search.
THEOREM CountersNeverDrift == Spec => []IdleCounts
<1>1. SchedulerInv => IdleCounts
  <2> SUFFICES ASSUME SchedulerInv
               PROVE  IdleCounts
    OBVIOUS
  <2>1. ~closed => searching = Cardinality({w \in Workers : isSearching[w] \/ Notified(w)})
    BY OpenCounts DEF Searchers, Seeks
  <2>2. \A w \in Workers : ~(isSearching[w] /\ InSleep(w))
    BY DEF SchedulerInv, WhereTheyAre, Where
  <2>3. QED
    BY <2>1, <2>2 DEF IdleCounts, SchedulerInv, Counts
<1>2. QED
  BY <1>1, SchedulerInvariant, PTL

\* A worker that was taken out of sleeping_workers is woken, and one that waits
\* can be.
THEOREM NotifiedWake == Spec => []WakeUpsArrive
<1>1. SchedulerInv => WakeUpsArrive
  BY DEF SchedulerInv, Woken, CanWake, WakeUpsArrive, NotifiedIsWoken, WakerArmed, Parked, At
<1>2. QED
  BY <1>1, SchedulerInvariant, PTL

\* The latch in ~Worker keeps the eventfds open for whoever still writes to one.
THEOREM LatchProtects == Spec => []NoWakeOfDestroyed
<1>1. SchedulerInv => NoWakeOfDestroyed
  BY DEF SchedulerInv, Latched, Gone, NoWakeOfDestroyed
<1>2. QED
  BY <1>1, SchedulerInvariant, PTL

\* No lost wake-up: the runtime never comes to rest on a task.
THEOREM NothingStranded == Spec => []NoStrandedTask
<1>1. SchedulerInv => NoStrandedTask
  <2> SUFFICES ASSUME SchedulerInv, \A w \in Workers : Parked(w),
                      \A x \in Threads : note[x] = "none"
               PROVE  global = <<>> /\ \A w \in Workers : ~HasTasks(w)
    BY DEF NoStrandedTask
  <2>1. \A w \in Workers :
          pc[w] = "wait" /\ ~shutdown[w] /\ ~WakePending(w) /\ ~evfd[w] /\ ~cqWake[w]
    BY DEF Parked, At, WakePending, Completions
  <2>2. ~closed
    BY <2>1, ThreadsAssumption DEF SchedulerInv, Dozing, Dozes, GoesToSleep, WillHear
  <2>3. \A w \in Workers : ~HasTasks(w)
    BY <2>1 DEF SchedulerInv, Dozing, Dozes, GoesToSleep
  <2>4. \A w \in Workers : ~Looks(w)
    BY <2>1 DEF SchedulerInv, WhereTheyAre, Where, InSleep, Woken, CanWake, Looks, Seeks, Fresh
  <2>5. \A x \in Threads : ~Notifies(x)
    BY DEF Notifies
  <2>6. QED
    BY <2>2, <2>3, <2>4, <2>5 DEF SchedulerInv, Answered
<1>2. QED
  BY <1>1, SchedulerInvariant, PTL

=============================================================================
