------------------------- MODULE CurrentThreadProofs -------------------------
(***************************************************************************)
(* The current-thread worker loses no task and runs none twice, it never   *)
(* sleeps on work, and the signal handler never waits for s_mutex, for     *)
(* every set of tasks, every interval and however many signals come,       *)
(* between whichever steps of the worker.                                  *)
(***************************************************************************)
EXTENDS CurrentThread, TLAPS

Handles == Tasks \cup {NoTask}

Types ==
  /\ cur \in Handles /\ run_next \in Handles
  /\ local_queue \in Seq(Handles) /\ global_queue \in Seq(Handles) /\ cqes \in Seq(Handles)
  /\ s_handles \in Seq(Handles)
  /\ is_closed \in BOOLEAN /\ is_shutdown \in BOOLEAN /\ queue_locked \in BOOLEAN
  /\ eventfd \in BOOLEAN /\ s_locked \in BOOLEAN /\ masked \in BOOLEAN

\* s_mutex is held only while the signal is blocked.
Masked ==
  /\ wpc = "push_back" => masked
  /\ s_locked => wpc = "push_back"
  /\ stuck # "s_mutex"

\* What the worker has seen and what it can rely on since, on its way from the
\* queues to the wait: a signal brings the eventfd along with its tasks, and
\* nothing else adds work while the worker executes no task.
OnTheWayToSleep ==
  /\ queue_locked => wpc \in {"pop", "wake"}
  /\ wpc = "pop" => queue_locked \/ is_closed
  /\ wpc = "poll" => ~HasLocal /\ (is_closed \/ global_queue = <<>> \/ eventfd)
  /\ wpc = "sleep" => ~HasLocal /\ ~is_closed /\ (global_queue = <<>> \/ eventfd)
  /\ wpc = "wake" => /\ run_next = NoTask /\ (is_closed => is_shutdown)
                     /\ queue_locked => local_queue = <<>>

IInv == Types /\ Masked /\ OnTheWayToSleep

LEMMA InitIInv == ASSUME Main \in Tasks, Init PROVE IInv
<1>1. NoTask \in Handles /\ Main \in Handles
  BY Zenon DEF Handles
<1>2. <<Main>> \in Seq(Handles) /\ <<>> \in Seq(Handles)
  BY <1>1
<1>q. global_queue \in Seq(Handles)
  BY <1>2, Zenon DEF Init
<1>3. Types
  BY <1>1, <1>2, <1>q, Zenon DEF Init, Types
<1>4. Masked /\ OnTheWayToSleep
  BY Zenon DEF Init, Masked, OnTheWayToSleep
<1>5. QED
  BY <1>3, <1>4, Zenon DEF IInv

\* Concatenation, Append and Tail, as the queues are used.
LEMMA Joined ==
  ASSUME NEW S, NEW q \in Seq(S), NEW r \in Seq(S)
  PROVE  q \o r \in Seq(S) /\ (r = <<>> => q \o r = q)
  OBVIOUS
LEMMA Queues ==
  ASSUME NEW S, NEW q \in Seq(S)
  PROVE  /\ \A e \in S : Append(q, e) \in Seq(S)
         /\ q # <<>> => Head(q) \in S /\ Tail(q) \in Seq(S)
  OBVIOUS

LEMMA Step == ASSUME IInv, [Next]_ctVars PROVE IInv'
<1> USE DEF HasLocal
<1>h. NoTask \in Handles /\ \A t \in Tasks : t \in Handles
  BY Zenon DEF Handles
<1>0. Types /\ Masked /\ OnTheWayToSleep
  BY Zenon DEF IInv
<1>1. ASSUME poll, UNCHANGED <<cur, s_handles, s_locked, masked>>,
             is_closed' \in BOOLEAN, is_shutdown' \in BOOLEAN
      PROVE  Types'
  <2>1. local_queue \o cqes \in Seq(Handles) /\ <<>> \in Seq(Handles)
    BY <1>0, Joined DEF Types
  <2>2. QED
    BY <1>0, <1>1, <2>1, Zenon DEF poll, Types
<1>2. CASE Loop
  BY <1>0, <1>2, Zenon DEF Loop, At, Goto, queueVars, endVars, ioVars, signalVars, IInv, Types,
     Masked, OnTheWayToSleep
<1>3. CASE Stop
  BY <1>0, <1>3, Zenon DEF Stop, At, Goto, queueVars, endVars, ioVars, signalVars, IInv, Types,
     Masked, OnTheWayToSleep
<1>4. CASE maintenance
  <2>1. Types'
    BY <1>0, <1>1, <1>4, Zenon DEF maintenance, check_shutdown, signalVars, Types
  <2>2. QED
    BY <1>0, <1>4, <2>1, Zenon DEF maintenance, poll, check_shutdown, At, Goto, signalVars, IInv,
       Masked, OnTheWayToSleep
<1>5. ASSUME next_local_task, HasLocal PROVE /\ cur' \in Handles /\ run_next' \in Handles
                                             /\ local_queue' \in Seq(Handles) /\ wpc' = "exec"
  BY <1>0, <1>h, <1>5, Queues, Zenon DEF next_local_task, Start, Goto, Types
<1>6. CASE GetLocal
  BY <1>0, <1>5, <1>6, Zenon DEF GetLocal, At, endVars, ioVars, signalVars, IInv, Types, Masked,
     OnTheWayToSleep
<1>7. CASE GetGlobal
  BY <1>0, <1>7, Zenon DEF GetGlobal, At, Goto, endVars, ioVars, signalVars, IInv, Types, Masked,
     OnTheWayToSleep
<1>8. CASE Pop
  <2>1. CASE queue_locked /\ global_queue # <<>>
    <3>1. /\ cur' \in Handles /\ run_next' \in Handles /\ wpc' = "exec"
          /\ local_queue' \in Seq(Handles) /\ global_queue' \in Seq(Handles)
      <4>1. /\ Head(global_queue) \in Handles /\ Tail(global_queue) \in Seq(Handles)
            /\ <<>> \in Seq(Handles)
        BY <1>0, <2>1, Queues DEF Types
      <4>2. local_queue \o Tail(global_queue) \in Seq(Handles)
        BY <1>0, <4>1, Joined, Zenon DEF Types
      <4>3. QED
        BY <1>0, <1>8, <2>1, <4>1, <4>2, Zenon DEF Pop, Start, Goto, Types
    <3>2. QED
      BY <1>0, <1>8, <3>1, Zenon DEF Pop, At, endVars, ioVars, signalVars, IInv, Types, Masked,
         OnTheWayToSleep
  <2>2. CASE ~(queue_locked /\ global_queue # <<>>) /\ HasLocal
    BY <1>0, <1>5, <1>8, <2>2, Zenon DEF Pop, At, endVars, ioVars, signalVars, IInv, Types,
       Masked, OnTheWayToSleep
  <2>3. CASE ~(queue_locked /\ global_queue # <<>>) /\ ~HasLocal
    BY <1>0, <1>8, <2>3, Zenon DEF Pop, At, Goto, endVars, ioVars, signalVars, IInv, Types,
       Masked, OnTheWayToSleep
  <2>4. QED
    BY <2>1, <2>2, <2>3, Zenon
<1>9. CASE IdlePoll
  <2>1. Types'
    BY <1>0, <1>1, <1>9, Zenon DEF IdlePoll, check_shutdown, endVars, signalVars, Types
  <2>2. ~PollFinds => local_queue' = local_queue
    BY <1>0, <1>9, Joined, Zenon DEF IdlePoll, poll, PollFinds, Types
  <2>3. QED
    BY <1>0, <1>9, <2>1, <2>2, Zenon DEF IdlePoll, poll, PollFinds, check_shutdown, At, Goto,
       endVars, signalVars, IInv, Types, Masked, OnTheWayToSleep
<1>10. CASE Wait
  <2>1. Types'
    BY <1>0, <1>1, <1>10, Zenon DEF Wait, check_shutdown, signalVars, Types
  <2>2. QED
    BY <1>0, <1>10, <2>1, Zenon DEF Wait, poll, check_shutdown, At, Goto, signalVars, IInv, Types,
       Masked, OnTheWayToSleep
<1>11. CASE WakeLock
  BY <1>0, <1>11, Zenon DEF WakeLock, At, Goto, endVars, ioVars, signalVars, IInv, Types, Masked,
     OnTheWayToSleep
<1>12. CASE WakeCheck
  BY <1>0, <1>12, Zenon DEF WakeCheck, At, Goto, endVars, ioVars, signalVars, IInv, Types, Masked,
     OnTheWayToSleep
<1>13. CASE SignalPush
  BY <1>0, <1>13, Queues, Zenon DEF SignalPush, At, queueVars, endVars, ioVars, IInv, Types,
     Masked, OnTheWayToSleep
<1>14. CASE SignalUnlock
  BY <1>0, <1>h, <1>14, Zenon DEF SignalUnlock, At, Goto, queueVars, endVars, ioVars, IInv, Types,
     Masked, OnTheWayToSleep
<1>15. ASSUME NEW u \in Tasks, schedule_local(u) PROVE IInv'
  <2>1. local_queue' \in Seq(Handles)
    BY <1>0, <1>h, <1>15, Queues, Zenon DEF schedule_local, Displaced, Types
  <2>2. QED
    BY <1>0, <1>h, <1>15, <2>1, Zenon DEF schedule_local, At, endVars, ioVars, signalVars, IInv,
       Types, Masked, OnTheWayToSleep
<1>16. ASSUME NEW why, Suspend(why) PROVE IInv'
  BY <1>0, <1>h, <1>16, Zenon DEF Suspend, At, Goto, queueVars, endVars, ioVars, signalVars,
     IInv, Types, Masked, OnTheWayToSleep
<1>17. CASE Finish
  <2>1. is_closed' \in BOOLEAN /\ eventfd' \in BOOLEAN
    BY <1>0, <1>17, Zenon DEF Finish, close, Types
  <2>2. QED
    BY <1>0, <1>h, <1>17, <2>1, Zenon DEF Finish, At, Goto, queueVars, signalVars, IInv, Types,
       Masked, OnTheWayToSleep
<1>18. CASE SignalBlock
  BY <1>0, <1>18, Zenon DEF SignalBlock, At, Goto, queueVars, endVars, ioVars, IInv, Types,
     Masked, OnTheWayToSleep
<1>19. CASE notify_all
  <2>1. global_queue' \in Seq(Handles) /\ s_handles' \in Seq(Handles) /\ eventfd' \in BOOLEAN
    <3>1. global_queue \o s_handles \in Seq(Handles) /\ <<>> \in Seq(Handles)
      BY <1>0, Joined DEF Types
    <3>2. QED
      BY <1>0, <1>19, <3>1, Zenon DEF notify_all, schedule_remote_batch, push_batch, Types, Masked
  <2>2. ~s_locked /\ stuck' # "s_mutex"
    BY <1>0, <1>19, Zenon DEF notify_all, Masked
  <2>3. (eventfd' = eventfd /\ global_queue' = global_queue) \/ eventfd'
    BY <1>0, <1>19, <2>2, Zenon DEF notify_all, schedule_remote_batch
  <2>4. QED
    BY <1>0, <1>19, <2>1, <2>2, <2>3, Zenon DEF notify_all, endVars, IInv, Types, Masked,
       OnTheWayToSleep
<1>20. ASSUME NEW t \in Tasks, IoComplete(t) PROVE IInv'
  BY <1>0, <1>h, <1>20, Queues, Zenon DEF IoComplete, queueVars, endVars, signalVars, IInv, Types,
     Masked, OnTheWayToSleep
<1>21. CASE UNCHANGED ctVars
  BY <1>0, <1>21, Zenon DEF ctVars, queueVars, endVars, ioVars, signalVars, IInv, Types, Masked,
     OnTheWayToSleep
<1>22. QED
  BY <1>2, <1>3, <1>4, <1>6, <1>7, <1>8, <1>9, <1>10, <1>11, <1>12, <1>13, <1>14, <1>15, <1>16,
     <1>17, <1>18, <1>19, <1>20, <1>21, Zenon DEF Next, Worker, Run

\* Whenever a signal interrupts the worker between its look at the queues and
\* the wait, the eventfd is written before the tasks can be slept on
\* (worker.hpp:140-151).
THEOREM SleepIsJustified == ASSUME Main \in Tasks PROVE Spec => []NeverSleepsOnWork
<1>1. Init => IInv
  BY InitIInv, Zenon
<1>2. IInv => NeverSleepsOnWork
  BY Zenon DEF IInv, OnTheWayToSleep, NeverSleepsOnWork, PollFinds
<1>3. QED
  BY <1>1, <1>2, Step, PTL DEF Spec

\* The handler never waits for s_mutex on the thread that holds it
\* (kind.hpp:89-112).
THEOREM HandlerNeverDeadlocks == ASSUME Main \in Tasks PROVE Spec => []HandlerGetsMutex
<1>1. Init => IInv
  BY InitIInv, Zenon
<1>2. IInv => HandlerGetsMutex
  BY Zenon DEF IInv, Masked, HandlerGetsMutex
<1>3. QED
  BY <1>1, <1>2, Step, PTL DEF Spec
-----------------------------------------------------------------------------
\* The sequence operators, as what they do to the members of a queue.
LEMMA Nothing == Range(<<>>) = {} /\ IsInjective(<<>>)
  BY DEF Range, IsInjective

LEMMA RangeHas == ASSUME NEW f, NEW i \in DOMAIN f PROVE f[i] \in Range(f)
  BY Zenon DEF Range

LEMMA MembersOf ==
  ASSUME NEW S, NEW q \in Seq(S)
  PROVE  \A x \in Range(q) : x \in S
  BY DEF Range

LEMMA JoinedMembers ==
  ASSUME NEW S, NEW q \in Seq(S), NEW r \in Seq(S)
  PROVE  \A x : x \in Range(q \o r) <=> x \in Range(q) \/ x \in Range(r)
<1>1. /\ DOMAIN q = 1..Len(q) /\ DOMAIN r = 1..Len(r) /\ Len(q) \in Nat /\ Len(r) \in Nat
      /\ DOMAIN (q \o r) = 1..(Len(q) + Len(r))
      /\ \A i \in 1..Len(q) : (q \o r)[i] = q[i]
      /\ \A i \in 1..Len(r) : (q \o r)[Len(q) + i] = r[i]
  OBVIOUS
<1>2. ASSUME NEW i \in DOMAIN (q \o r)
      PROVE  (q \o r)[i] \in Range(q) \/ (q \o r)[i] \in Range(r)
  <2>1. CASE i \in 1..Len(q)
    BY <1>1, <2>1, Zenon DEF Range
  <2>2. CASE i \notin 1..Len(q)
    <3>1. i - Len(q) \in 1..Len(r) /\ Len(q) + (i - Len(q)) = i
      BY <1>1, <2>2
    <3>2. (q \o r)[i] = r[i - Len(q)]
      BY <1>1, <3>1, Zenon
    <3> QED
      BY <1>1, <3>1, <3>2, Zenon DEF Range
  <2> QED
    BY <2>1, <2>2, Zenon
<1>3. ASSUME NEW i \in DOMAIN q PROVE q[i] \in Range(q \o r)
  <2>1. i \in DOMAIN (q \o r)
    BY <1>1
  <2> QED
    BY <1>1, <2>1, Zenon DEF Range
<1>4. ASSUME NEW i \in DOMAIN r PROVE r[i] \in Range(q \o r)
  <2>1. Len(q) + i \in DOMAIN (q \o r)
    BY <1>1
  <2> QED
    BY <1>1, <2>1, Zenon DEF Range
<1> QED
  BY <1>2, <1>3, <1>4, Zenon DEF Range

LEMMA JoinedOnce ==
  ASSUME NEW S, NEW q \in Seq(S), NEW r \in Seq(S), IsInjective(q), IsInjective(r),
         \A x \in Range(q) : x \notin Range(r)
  PROVE  IsInjective(q \o r)
<1>1. /\ DOMAIN q = 1..Len(q) /\ DOMAIN r = 1..Len(r) /\ Len(q) \in Nat /\ Len(r) \in Nat
      /\ DOMAIN (q \o r) = 1..(Len(q) + Len(r))
      /\ \A i \in 1..Len(q) : (q \o r)[i] = q[i]
      /\ \A i \in 1..Len(r) : (q \o r)[Len(q) + i] = r[i]
  OBVIOUS
<1>2. \A i \in DOMAIN (q \o r) : i \in DOMAIN q \/ \E j \in DOMAIN r : i = Len(q) + j
  <2>1. ASSUME NEW i \in DOMAIN (q \o r), i \notin DOMAIN q
        PROVE  i - Len(q) \in DOMAIN r /\ i = Len(q) + (i - Len(q))
    BY <1>1, <2>1
  <2> QED
    BY <2>1, Zenon
<1>3. ASSUME NEW a \in DOMAIN (q \o r), NEW b \in DOMAIN (q \o r), (q \o r)[a] = (q \o r)[b]
      PROVE  a = b
  <2>1. CASE a \in DOMAIN q /\ b \in DOMAIN q
    BY <1>1, <1>3, <2>1, Zenon DEF IsInjective
  <2>2. CASE a \in DOMAIN q /\ b \notin DOMAIN q
    <3>1. PICK j \in DOMAIN r : b = Len(q) + j
      BY <1>2, <2>2, Zenon
    <3>2. q[a] = r[j]
      BY <1>1, <1>3, <2>2, <3>1, Zenon
    <3> QED
      BY <2>2, <3>1, <3>2, RangeHas, Zenon
  <2>3. CASE a \notin DOMAIN q /\ b \in DOMAIN q
    <3>1. PICK j \in DOMAIN r : a = Len(q) + j
      BY <1>2, <2>3, Zenon
    <3>2. q[b] = r[j]
      BY <1>1, <1>3, <2>3, <3>1, Zenon
    <3> QED
      BY <2>3, <3>1, <3>2, RangeHas, Zenon
  <2>4. CASE a \notin DOMAIN q /\ b \notin DOMAIN q
    <3>1. PICK i \in DOMAIN r : a = Len(q) + i
      BY <1>2, <2>4, Zenon
    <3>2. PICK j \in DOMAIN r : b = Len(q) + j
      BY <1>2, <2>4, Zenon
    <3>3. r[i] = r[j]
      BY <1>1, <1>3, <3>1, <3>2, Zenon
    <3>4. i = j
      BY <3>3, Zenon DEF IsInjective
    <3> QED
      BY <3>1, <3>2, <3>4, Zenon
  <2> QED
    BY <2>1, <2>2, <2>3, <2>4, Zenon
<1> QED
  BY <1>3, Zenon DEF IsInjective

\* A queue of one.
LEMMA JustOne ==
  ASSUME NEW S, NEW e \in S
  PROVE  /\ <<e>> \in Seq(S) /\ IsInjective(<<e>>) /\ \A x : x \in Range(<<e>>) <=> x = e
         /\ \A q \in Seq(S) : Append(q, e) = q \o <<e>>
  BY DEF Range, IsInjective

\* One more at the end.
LEMMA OneMore ==
  ASSUME NEW S, NEW q \in Seq(S), NEW e \in S
  PROVE  /\ Append(q, e) \in Seq(S)
         /\ \A x : x \in Range(Append(q, e)) <=> x \in Range(q) \/ x = e
         /\ IsInjective(q) /\ e \notin Range(q) => IsInjective(Append(q, e))
<1>1. /\ <<e>> \in Seq(S) /\ IsInjective(<<e>>) /\ \A x : x \in Range(<<e>>) <=> x = e
      /\ Append(q, e) = q \o <<e>>
  BY JustOne, Zenon
<1>2. q \o <<e>> \in Seq(S) /\ \A x : x \in Range(q \o <<e>>) <=> x \in Range(q) \/ x = e
  BY <1>1, Joined, JoinedMembers, Zenon
<1>3. ASSUME IsInjective(q), e \notin Range(q) PROVE IsInjective(q \o <<e>>)
  <2>1. \A x \in Range(q) : x \notin Range(<<e>>)
    BY <1>1, <1>3, Zenon
  <2> QED
    BY <1>1, <1>3, <2>1, JoinedOnce, Zenon
<1> QED
  BY <1>1, <1>2, <1>3, Zenon

\* One less in front.
LEMMA OneLess ==
  ASSUME NEW S, NEW q \in Seq(S), q # <<>>
  PROVE  /\ Head(q) \in S /\ Tail(q) \in Seq(S)
         /\ \A x : x \in Range(q) <=> x = Head(q) \/ x \in Range(Tail(q))
         /\ IsInjective(q) => IsInjective(Tail(q)) /\ Head(q) \notin Range(Tail(q))
<1>1. /\ Head(q) \in S /\ Tail(q) \in Seq(S) /\ q = <<Head(q)>> \o Tail(q)
      /\ <<Head(q)>> \in Seq(S) /\ IsInjective(<<Head(q)>>)
  BY JustOne
<1>2. \A x : x \in Range(<<Head(q)>>) <=> x = Head(q)
  BY <1>1, JustOne, Zenon
<1>3. \A x : x \in Range(q) <=> x = Head(q) \/ x \in Range(Tail(q))
  BY <1>1, <1>2, JoinedMembers, Zenon
<1>4. ASSUME IsInjective(q) PROVE IsInjective(Tail(q)) /\ Head(q) \notin Range(Tail(q))
  <2>1. /\ DOMAIN q = 1..Len(q) /\ 1 \in DOMAIN q /\ q[1] = Head(q)
        /\ \A i \in DOMAIN Tail(q) : i + 1 \in DOMAIN q /\ i + 1 # 1 /\ Tail(q)[i] = q[i + 1]
        /\ DOMAIN Tail(q) \subseteq Nat
    OBVIOUS
  <2>2. \A i, j \in DOMAIN Tail(q) : i + 1 = j + 1 => i = j
    BY <2>1
  <2>3. IsInjective(Tail(q))
    BY <1>4, <2>1, <2>2, Zenon DEF IsInjective
  <2>4. Head(q) \notin Range(Tail(q))
    <3>1. ASSUME NEW i \in DOMAIN Tail(q), Tail(q)[i] = Head(q) PROVE FALSE
      <4>1. q[i + 1] = q[1] /\ i + 1 \in DOMAIN q /\ i + 1 # 1 /\ 1 \in DOMAIN q
        BY <2>1, <3>1, Zenon
      <4> QED
        BY <1>4, <4>1, Zenon DEF IsInjective
    <3> QED
      BY <3>1, Zenon DEF Range
  <2> QED
    BY <2>3, <2>4, Zenon
<1> QED
  BY <1>1, <1>3, <1>4, Zenon

-----------------------------------------------------------------------------
\* Where each task is: those with the state "queued" are in run_next_ or in one
\* of the two queues, once; those whose I/O completed wait for it; the handles
\* that wait for a signal belong to tasks that do, but for the one that is just
\* being pushed; and the task in execution is in none of these places.
States == {"idle", "queued", "running", "io", "signal", "dropped", "done"}
Once(q) == q \in Seq(Tasks) /\ IsInjective(q)
Waiting(t) == t = run_next \/ t \in Range(local_queue) \/ t \in Range(global_queue)
Executing == wpc \in {"exec", "push_back"}

InQueues ==
  /\ Once(local_queue) /\ Once(global_queue)
  /\ \A t \in Range(local_queue) : t \notin Range(global_queue)
  /\ run_next \in Tasks => run_next \notin Range(local_queue) /\ run_next \notin Range(global_queue)
  /\ run_next \in Handles
Elsewhere ==
  /\ st \in [Tasks -> States] /\ Once(cqes) /\ Once(s_handles)
  /\ \A t \in Range(cqes) : st[t] = "io"
  /\ \A t \in Range(s_handles) : st[t] = "signal" \/ (t = cur /\ s_locked)
  /\ Executing => cur \in Tasks /\ st[cur] = "running"
Placed == InQueues /\ Elsewhere /\ \A t \in Tasks : st[t] = "queued" <=> Waiting(t)

\* The state of one task changes.
LEMMA StateOf ==
  ASSUME NEW t \in Tasks, NEW why \in States, st \in [Tasks -> States],
         st' = [st EXCEPT ![t] = why]
  PROVE  /\ st' \in [Tasks -> States] /\ st'[t] = why
         /\ \A u \in Tasks : u # t => st'[u] = st[u]
  OBVIOUS

LEMMA InitPlaced == ASSUME Main \in Tasks, NoTask \notin Tasks, Init PROVE Placed
<1>1. st \in [Tasks -> States] /\ \A t \in Tasks : st[t] = "queued" <=> t = Main
  BY DEF Init, States
<1>2. /\ <<>> \in Seq(Tasks) /\ <<Main>> \in Seq(Tasks) /\ IsInjective(<<Main>>)
      /\ \A x : x \in Range(<<Main>>) <=> x = Main
  BY JustOne
<1>3. Once(global_queue) /\ Once(<<>>) /\ \A x : x \in Range(global_queue) <=> x = Main
  BY <1>2, Nothing, Zenon DEF Init, Once
<1>4. InQueues
  BY <1>3, Nothing, Zenon DEF Init, InQueues, Handles
<1>5. Elsewhere
  BY <1>1, <1>3, Nothing, Zenon DEF Init, Elsewhere, Executing
<1> QED
  BY <1>1, <1>3, <1>4, <1>5, Nothing, Zenon DEF Init, Placed, Waiting

\* Steps that touch no queue and no task.
Still ==
  /\ UNCHANGED <<cur, run_next, local_queue, global_queue, cqes, st, s_handles, s_locked>>
  /\ Executing' => Executing
LEMMA StillPlaced == ASSUME Placed, Still PROVE Placed'
<1>1. InQueues'
  BY Zenon DEF Placed, Still, InQueues, Once
<1>2. Elsewhere'
  BY Zenon DEF Placed, Still, Elsewhere, Once
<1> QED
  BY <1>1, <1>2, Zenon DEF Placed, Still, Waiting

\* poll: the completed tasks were in no queue, and now are in the local one.
LEMMA PollPlaced ==
  ASSUME Placed, NoTask \notin Tasks, poll, ~Executing',
         UNCHANGED <<s_handles, s_locked>>, ~s_locked
  PROVE  Placed'
<1>p. /\ Once(local_queue) /\ Once(global_queue) /\ Once(cqes) /\ Once(s_handles)
      /\ \A t \in Range(cqes) : st[t] = "io"
      /\ \A t \in Range(s_handles) : st[t] = "signal"
      /\ st \in [Tasks -> States] /\ \A t \in Tasks : st[t] = "queued" <=> Waiting(t)
  BY Zenon DEF Placed, InQueues, Elsewhere
<1>1. /\ local_queue' = local_queue \o cqes /\ cqes' = <<>>
      /\ run_next' = run_next /\ global_queue' = global_queue
      /\ st' = [t \in Tasks |-> IF t \in Range(cqes) THEN "queued" ELSE st[t]]
  BY Zenon DEF poll
<1>2. /\ st' \in [Tasks -> States]
      /\ \A t \in Tasks : st'[t] = IF t \in Range(cqes) THEN "queued" ELSE st[t]
  BY <1>p, <1>1 DEF States
<1>3. \A t \in Range(cqes) : t \in Tasks
  BY <1>p, MembersOf, Zenon DEF Once
<1>4. \A t \in Range(cqes) :
        t # run_next /\ t \notin Range(local_queue) /\ t \notin Range(global_queue)
  BY <1>p, <1>3, Zenon DEF Waiting
<1>5. \A x : x \in Range(local_queue') <=> x \in Range(local_queue) \/ x \in Range(cqes)
  BY <1>p, <1>1, JoinedMembers, Zenon DEF Once
<1>6. Once(local_queue)'
  <2>1. local_queue \o cqes \in Seq(Tasks)
    BY <1>p, Joined, Zenon DEF Once
  <2>2. IsInjective(local_queue \o cqes)
    BY <1>p, <1>4, JoinedOnce, Zenon DEF Once
  <2> QED
    BY <1>1, <2>1, <2>2, Zenon DEF Once
<1>7. InQueues'
  BY <1>p, <1>1, <1>4, <1>5, <1>6, Zenon DEF Placed, InQueues, Once
<1>8. Once(cqes)' /\ Range(cqes') = {}
  <2>1. <<>> \in Seq(Tasks)
    OBVIOUS
  <2> QED
    BY <1>1, <2>1, Nothing, Zenon DEF Once
<1>9. \A t \in Range(s_handles) : st'[t] = "signal"
  <2>1. \A t \in Range(s_handles) : t \in Tasks
    BY <1>p, MembersOf, Zenon DEF Once
  <2> QED
    BY <1>p, <1>2, <2>1, Zenon
<1>10. Elsewhere'
  BY <1>p, <1>2, <1>8, <1>9, Zenon DEF Elsewhere, Once
<1>11. \A t \in Tasks : st'[t] = "queued" <=> Waiting(t)'
  BY <1>p, <1>1, <1>2, <1>5, Zenon DEF Waiting
<1> QED
  BY <1>7, <1>10, <1>11, Zenon DEF Placed

\* A task leaves the queues and is executed.
LEMMA StartPlaced ==
  ASSUME Placed, NEW t \in Tasks, Waiting(t), Start(t), ~s_locked,
         UNCHANGED <<cqes, s_handles, s_locked>>, InQueues',
         \A u \in Tasks : Waiting(u)' <=> Waiting(u) /\ u # t
  PROVE  Placed'
<1>p. /\ Once(cqes) /\ Once(s_handles) /\ \A u \in Range(cqes) : st[u] = "io"
      /\ \A u \in Range(s_handles) : st[u] = "signal"
      /\ st \in [Tasks -> States] /\ \A u \in Tasks : st[u] = "queued" <=> Waiting(u)
  BY Zenon DEF Placed, Elsewhere
<1>1. /\ cur' = t /\ wpc' = "exec" /\ st' = [st EXCEPT ![t] = "running"] /\ "running" \in States
  BY Zenon DEF Start, Goto, States
<1>2. /\ st' \in [Tasks -> States] /\ st'[t] = "running"
      /\ \A u \in Tasks : u # t => st'[u] = st[u]
  BY <1>p, <1>1, StateOf, Zenon
<1>3. /\ \A u \in Range(cqes) : u \in Tasks /\ u # t
      /\ \A u \in Range(s_handles) : u \in Tasks /\ u # t
  <2>1. (\A u \in Range(cqes) : u \in Tasks) /\ \A u \in Range(s_handles) : u \in Tasks
    BY <1>p, MembersOf, Zenon DEF Once
  <2>2. st[t] = "queued"
    BY <1>p, Zenon
  <2> QED
    BY <1>p, <2>1, <2>2, Zenon
<1>4. Elsewhere'
  BY <1>p, <1>1, <1>2, <1>3, Zenon DEF Elsewhere, Once, Executing
<1> QED
  BY <1>p, <1>2, <1>4, Zenon DEF Placed

\* next_local_task takes run_next_, or the first of the local queue.
LEMMA LocalPlaced ==
  ASSUME Placed, NoTask \notin Tasks, HasLocal, next_local_task, ~s_locked,
         UNCHANGED <<global_queue, cqes, s_handles, s_locked>>
  PROVE  Placed'
<1>p. /\ Once(local_queue) /\ Once(global_queue) /\ run_next \in Handles
      /\ \A t \in Range(local_queue) : t \notin Range(global_queue)
      /\ run_next \in Tasks => /\ run_next \notin Range(local_queue)
                               /\ run_next \notin Range(global_queue)
  BY Zenon DEF Placed, InQueues
<1>1. CASE run_next # NoTask
  <2>1. run_next \in Tasks /\ run_next' = NoTask /\ Start(run_next) /\ local_queue' = local_queue
    BY <1>p, <1>1, Zenon DEF Handles, next_local_task
  <2>2. InQueues'
    BY <1>p, <2>1, Zenon DEF InQueues, Once, Handles
  <2>3. \A u \in Tasks : Waiting(u)' <=> Waiting(u) /\ u # run_next
    BY <1>p, <2>1, Zenon DEF Waiting
  <2> QED
    BY <2>1, <2>2, <2>3, StartPlaced, Zenon DEF Waiting
<1>2. CASE run_next = NoTask
  <2> DEFINE t == Head(local_queue)
  <2>1. local_queue # <<>> /\ local_queue' = Tail(local_queue) /\ Start(t) /\ run_next' = NoTask
    BY <1>2, Zenon DEF HasLocal, next_local_task
  <2>2. /\ t \in Tasks /\ Tail(local_queue) \in Seq(Tasks)
        /\ \A x : x \in Range(local_queue) <=> x = t \/ x \in Range(Tail(local_queue))
        /\ IsInjective(Tail(local_queue)) /\ t \notin Range(Tail(local_queue))
    BY <1>p, <2>1, OneLess, Zenon DEF Once
  <2>3. Once(local_queue)' /\ \A x : x \in Range(local_queue') <=> x \in Range(local_queue) /\ x # t
    BY <2>1, <2>2, Zenon DEF Once
  <2>4. InQueues'
    BY <1>p, <1>2, <2>1, <2>3, Zenon DEF InQueues, Once, Handles
  <2>5. \A u \in Tasks : Waiting(u)' <=> Waiting(u) /\ u # t
    BY <1>p, <1>2, <2>1, <2>2, <2>3, Zenon DEF Waiting
  <2>6. Waiting(t)
    BY <2>2, Zenon DEF Waiting
  <2> HIDE DEF t
  <2> QED
    BY <2>1, <2>2, <2>4, <2>5, <2>6, StartPlaced, Zenon
<1> QED
  BY <1>1, <1>2, Zenon

\* pop() takes the first of the global queue; pop_all() moves the others.
LEMMA PopPlaced ==
  ASSUME Placed, NoTask \notin Tasks, Pop, ~s_locked PROVE Placed'
<1>p. /\ Once(local_queue) /\ Once(global_queue) /\ run_next \in Handles
      /\ \A t \in Range(local_queue) : t \notin Range(global_queue)
      /\ run_next \in Tasks => /\ run_next \notin Range(local_queue)
                               /\ run_next \notin Range(global_queue)
  BY Zenon DEF Placed, InQueues
<1>u. UNCHANGED <<cqes, s_handles, s_locked>>
  BY Zenon DEF Pop, ioVars, signalVars
<1>1. CASE queue_locked /\ global_queue # <<>>
  <2> DEFINE t == Head(global_queue)
  <2>1. /\ Start(t) /\ run_next' = run_next
        /\ \/ global_queue' = Tail(global_queue) /\ local_queue' = local_queue
           \/ global_queue' = <<>> /\ local_queue' = local_queue \o Tail(global_queue)
    BY <1>1, Zenon DEF Pop
  <2>2. /\ t \in Tasks /\ Tail(global_queue) \in Seq(Tasks)
        /\ \A x : x \in Range(global_queue) <=> x = t \/ x \in Range(Tail(global_queue))
        /\ IsInjective(Tail(global_queue)) /\ t \notin Range(Tail(global_queue))
    BY <1>p, <1>1, OneLess, Zenon DEF Once
  <2>3. Waiting(t)
    BY <2>2, Zenon DEF Waiting
  <2>4. t \notin Range(local_queue) /\ t # run_next
    BY <1>p, <2>2, Zenon
  <2> HIDE DEF t
  <2>5. CASE global_queue' = Tail(global_queue) /\ local_queue' = local_queue
    <3>1. InQueues'
      BY <1>p, <2>1, <2>2, <2>5, Zenon DEF InQueues, Once
    <3>2. \A u \in Tasks : Waiting(u)' <=> Waiting(u) /\ u # t
      BY <2>1, <2>2, <2>4, <2>5, Zenon DEF Waiting
    <3> QED
      BY <1>u, <2>1, <2>2, <2>3, <3>1, <3>2, StartPlaced, Zenon
  <2>6. CASE global_queue' = <<>> /\ local_queue' = local_queue \o Tail(global_queue)
    <3>1. \A x : x \in Range(local_queue')
                  <=> x \in Range(local_queue) \/ x \in Range(Tail(global_queue))
      BY <1>p, <2>2, <2>6, JoinedMembers, Zenon DEF Once
    <3>2. local_queue \o Tail(global_queue) \in Seq(Tasks)
      BY <1>p, <2>2, Joined, Zenon DEF Once
    <3>3. IsInjective(local_queue \o Tail(global_queue))
      BY <1>p, <2>2, JoinedOnce, Zenon DEF Once
    <3>4. Once(local_queue)'
      BY <2>6, <3>2, <3>3, Zenon DEF Once
    <3>5. Once(global_queue)' /\ Range(global_queue') = {}
      <4>1. <<>> \in Seq(Tasks)
        OBVIOUS
      <4> QED
        BY <2>6, <4>1, Nothing, Zenon DEF Once
    <3>6. InQueues'
      BY <1>p, <2>1, <2>2, <3>1, <3>4, <3>5, Zenon DEF InQueues
    <3>7. \A u \in Tasks : Waiting(u)' <=> Waiting(u) /\ u # t
      BY <2>1, <2>2, <2>4, <3>1, <3>5, Zenon DEF Waiting
    <3> QED
      BY <1>u, <2>1, <2>2, <2>3, <3>6, <3>7, StartPlaced, Zenon
  <2> QED
    BY <2>1, <2>5, <2>6, Zenon
<1>2. CASE ~(queue_locked /\ global_queue # <<>>) /\ HasLocal
  BY <1>u, <1>2, LocalPlaced, Zenon DEF Pop
<1>3. CASE ~(queue_locked /\ global_queue # <<>>) /\ ~HasLocal
  BY <1>u, <1>3, StillPlaced, Zenon DEF Pop, Goto, Still, Executing
<1> QED
  BY <1>1, <1>2, <1>3, Zenon

\* schedule_local: a task that waited for nobody is put in front, and who was
\* there goes to the end of the local queue.
LEMMA SchedulePlaced ==
  ASSUME Placed, NoTask \notin Tasks, NEW u \in Tasks, schedule_local(u), ~s_locked
  PROVE  Placed'
<1>p. /\ Once(local_queue) /\ Once(global_queue) /\ run_next \in Handles
      /\ \A t \in Range(local_queue) : t \notin Range(global_queue)
      /\ run_next \in Tasks => /\ run_next \notin Range(local_queue)
                               /\ run_next \notin Range(global_queue)
      /\ st \in [Tasks -> States] /\ \A t \in Tasks : st[t] = "queued" <=> Waiting(t)
      /\ Once(cqes) /\ Once(s_handles) /\ \A t \in Range(cqes) : st[t] = "io"
      /\ \A t \in Range(s_handles) : st[t] = "signal"
      /\ Executing => cur \in Tasks /\ st[cur] = "running"
  BY Zenon DEF Placed, InQueues, Elsewhere
<1>1. /\ st[u] = "idle" /\ st' = [st EXCEPT ![u] = "queued"] /\ "queued" \in States
      /\ local_queue' = Displaced /\ run_next' = u
      /\ UNCHANGED <<wpc, cur, global_queue, cqes, s_handles, s_locked>>
  BY Zenon DEF schedule_local, ioVars, signalVars, States
<1>2. /\ st' \in [Tasks -> States] /\ st'[u] = "queued"
      /\ \A t \in Tasks : t # u => st'[t] = st[t]
  BY <1>p, <1>1, StateOf, Zenon
<1>3. ~Waiting(u)
  BY <1>p, <1>1, Zenon
<1>4. /\ Once(local_queue)'
      /\ \A x \in Tasks : x \in Range(local_queue') <=> x \in Range(local_queue) \/ x = run_next
  <2>1. CASE run_next = NoTask
    BY <1>p, <1>1, <2>1, Zenon DEF Displaced, Once
  <2>2. CASE run_next # NoTask
    <3>1. run_next \in Tasks /\ local_queue' = Append(local_queue, run_next)
      BY <1>p, <1>1, <2>2, Zenon DEF Displaced, Handles
    <3> QED
      BY <1>p, <3>1, OneMore, Zenon DEF Once
  <2> QED
    BY <2>1, <2>2, Zenon
<1>5. \A x \in Range(local_queue') : x \in Tasks
  BY <1>4, MembersOf, Zenon DEF Once
<1>6. InQueues'
  <2>1. \A x \in Range(local_queue') : x \notin Range(global_queue)
    BY <1>p, <1>4, <1>5, Zenon
  <2>2. u \notin Range(local_queue') /\ u \notin Range(global_queue)
    BY <1>3, <1>4, Zenon DEF Waiting
  <2> QED
    BY <1>p, <1>1, <1>4, <2>1, <2>2, Zenon DEF InQueues, Once, Handles
<1>7. /\ \A t \in Range(cqes) : st'[t] = "io"
      /\ \A t \in Range(s_handles) : st'[t] = "signal"
  <2>1. (\A t \in Range(cqes) : t \in Tasks) /\ \A t \in Range(s_handles) : t \in Tasks
    BY <1>p, MembersOf, Zenon DEF Once
  <2> QED
    BY <1>p, <1>1, <1>2, <2>1, Zenon
<1>8. Executing' => cur \in Tasks /\ st'[cur] = "running"
  BY <1>p, <1>1, <1>2, Zenon DEF Executing
<1>9. Elsewhere'
  BY <1>p, <1>1, <1>2, <1>7, <1>8, Zenon DEF Elsewhere, Once
<1>10. \A t \in Tasks : st'[t] = "queued" <=> Waiting(t)'
  <2>1. \A t \in Tasks : Waiting(t)' <=> Waiting(t) \/ t = u
    BY <1>1, <1>4, Zenon DEF Waiting
  <2> QED
    BY <1>p, <1>2, <2>1, Zenon
<1> QED
  BY <1>6, <1>9, <1>10, Zenon DEF Placed

\* The task in execution leaves the worker: it suspends, ends, or waits for a
\* signal with its handle pushed.
LEMMA LeavePlaced ==
  ASSUME Placed, NEW why \in {"idle", "io", "done", "signal"}, Executing,
         s_locked => why = "signal", st' = [st EXCEPT ![cur] = why], ~Executing',
         UNCHANGED <<run_next, local_queue, global_queue, cqes, s_handles>>
  PROVE  Placed'
<1>p. /\ cur \in Tasks /\ st[cur] = "running"
      /\ st \in [Tasks -> States] /\ \A t \in Tasks : st[t] = "queued" <=> Waiting(t)
      /\ Once(cqes) /\ Once(s_handles) /\ \A t \in Range(cqes) : st[t] = "io"
      /\ \A t \in Range(s_handles) : st[t] = "signal" \/ (t = cur /\ s_locked)
  BY Zenon DEF Placed, Elsewhere
<1>1. why \in States /\ why # "queued"
  BY Zenon DEF States
<1>2. /\ st' \in [Tasks -> States] /\ st'[cur] = why
      /\ \A t \in Tasks : t # cur => st'[t] = st[t]
  BY <1>p, <1>1, StateOf, Zenon
<1>3. (\A t \in Range(cqes) : t \in Tasks) /\ \A t \in Range(s_handles) : t \in Tasks
  BY <1>p, MembersOf, Zenon DEF Once
<1>4. \A t \in Range(cqes) : st'[t] = "io"
  BY <1>p, <1>2, <1>3, Zenon
<1>5. \A t \in Range(s_handles) : st'[t] = "signal"
  BY <1>p, <1>2, <1>3, Zenon
<1>6. InQueues'
  BY Zenon DEF Placed, InQueues, Once
<1>7. Elsewhere'
  BY <1>p, <1>2, <1>4, <1>5, Zenon DEF Elsewhere, Once
<1>8. \A t \in Tasks : st'[t] = "queued" <=> Waiting(t)'
  BY <1>p, <1>1, <1>2, Zenon DEF Waiting
<1> QED
  BY <1>6, <1>7, <1>8, Zenon DEF Placed

\* push_back adds the handle of the task in execution, which is in no list.
LEMMA PushPlaced == ASSUME Placed, SignalPush PROVE Placed'
<1>p. /\ Once(s_handles) /\ \A t \in Range(s_handles) : st[t] = "signal"
      /\ cur \in Tasks /\ st[cur] = "running" /\ ~s_locked /\ s_locked' = TRUE
      /\ s_handles' = Append(s_handles, cur)
      /\ UNCHANGED <<wpc, cur, run_next, local_queue, global_queue, cqes, st>>
  BY Zenon DEF Placed, Elsewhere, SignalPush, At, queueVars, ioVars, Executing
<1>1. /\ Once(s_handles)'
      /\ \A x : x \in Range(s_handles') <=> x \in Range(s_handles) \/ x = cur
  <2>1. cur \notin Range(s_handles)
    BY <1>p, Zenon
  <2> QED
    BY <1>p, <2>1, OneMore, Zenon DEF Once
<1>2. InQueues'
  BY <1>p, Zenon DEF Placed, InQueues, Once
<1>3. Elsewhere'
  BY <1>p, <1>1, Zenon DEF Placed, Elsewhere, Once, Executing
<1> QED
  BY <1>p, <1>2, <1>3, Zenon DEF Placed, Waiting

\* The handler moves the handles that wait for the signal to the global queue,
\* or drops their tasks.
LEMMA NotifyPlaced ==
  ASSUME Placed, NoTask \notin Tasks, notify_all, ~s_locked PROVE Placed'
<1>p. /\ Once(local_queue) /\ Once(global_queue) /\ run_next \in Handles
      /\ \A t \in Range(local_queue) : t \notin Range(global_queue)
      /\ run_next \in Tasks => /\ run_next \notin Range(local_queue)
                               /\ run_next \notin Range(global_queue)
      /\ st \in [Tasks -> States] /\ \A t \in Tasks : st[t] = "queued" <=> Waiting(t)
      /\ Once(cqes) /\ Once(s_handles) /\ \A t \in Range(cqes) : st[t] = "io"
      /\ \A t \in Range(s_handles) : st[t] = "signal"
      /\ Executing => cur \in Tasks /\ st[cur] = "running"
  BY Zenon DEF Placed, InQueues, Elsewhere
<1>1. /\ s_handles' = <<>> /\ UNCHANGED <<wpc, cur, run_next, local_queue, cqes, s_locked>>
      /\ \/ UNCHANGED <<global_queue, st>>
         \/ push_batch(s_handles)
  BY Zenon DEF notify_all, schedule_remote_batch
<1>2. Once(s_handles)' /\ Range(s_handles') = {}
  <2>1. <<>> \in Seq(Tasks)
    OBVIOUS
  <2> QED
    BY <1>1, <2>1, Nothing, Zenon DEF Once
<1>3. CASE UNCHANGED <<global_queue, st>>
  <2>1. InQueues'
    BY <1>1, <1>3, Zenon DEF Placed, InQueues, Once
  <2>2. Elsewhere'
    BY <1>p, <1>1, <1>2, <1>3, Zenon DEF Elsewhere, Once, Executing
  <2> QED
    BY <1>1, <1>3, <2>1, <2>2, Zenon DEF Placed, Waiting
<1>4. CASE push_batch(s_handles)
  <2>m. (\A t \in Range(cqes) : t \in Tasks) /\ \A t \in Range(s_handles) : t \in Tasks
    BY <1>p, MembersOf, Zenon DEF Once
  <2>1. /\ st' \in [Tasks -> States]
        /\ \A t \in Tasks : t \notin Range(s_handles) => st'[t] = st[t]
        /\ \A t \in Range(s_handles) : st'[t] = IF is_closed THEN "dropped" ELSE "queued"
    BY <1>p, <1>4, <2>m DEF push_batch, States
  <2>2. \A t \in Range(cqes) : st'[t] = "io"
    BY <1>p, <2>m, <2>1, Zenon
  <2>3. Executing' => cur \in Tasks /\ st'[cur] = "running"
    BY <1>p, <1>1, <2>1, Zenon DEF Executing
  <2>4. Elsewhere'
    BY <1>p, <1>1, <1>2, <2>1, <2>2, <2>3, Zenon DEF Elsewhere, Once
  <2>5. CASE is_closed
    <3>1. global_queue' = global_queue
      BY <1>4, <2>5, Zenon DEF push_batch
    <3>2. InQueues'
      BY <1>1, <3>1, Zenon DEF Placed, InQueues, Once
    <3>3. \A t \in Tasks : st'[t] = "queued" <=> Waiting(t)'
      BY <1>p, <1>1, <2>1, <2>5, <3>1, Zenon DEF Waiting
    <3> QED
      BY <2>4, <3>2, <3>3, Zenon DEF Placed
  <2>6. CASE ~is_closed
    <3>1. global_queue' = global_queue \o s_handles
      BY <1>4, <2>6, Zenon DEF push_batch
    <3>2. \A x : x \in Range(global_queue') <=> x \in Range(global_queue) \/ x \in Range(s_handles)
      BY <1>p, <3>1, JoinedMembers, Zenon DEF Once
    <3>3. \A t \in Range(s_handles) : ~Waiting(t)
      BY <1>p, <2>m, Zenon
    <3>4. global_queue \o s_handles \in Seq(Tasks)
      BY <1>p, Joined, Zenon DEF Once
    <3>5. IsInjective(global_queue \o s_handles)
      BY <1>p, <3>3, JoinedOnce, Zenon DEF Once, Waiting
    <3>6. Once(global_queue)'
      BY <3>1, <3>4, <3>5, Zenon DEF Once
    <3>7. InQueues'
      BY <1>p, <1>1, <3>2, <3>3, <3>6, Zenon DEF InQueues, Once, Waiting
    <3>8. \A t \in Tasks : st'[t] = "queued" <=> Waiting(t)'
      BY <1>p, <1>1, <2>1, <2>6, <3>2, Zenon DEF Waiting
    <3> QED
      BY <2>4, <3>7, <3>8, Zenon DEF Placed
  <2> QED
    BY <2>5, <2>6, Zenon
<1> QED
  BY <1>1, <1>3, <1>4, Zenon

\* I/O completes once.
LEMMA IoPlaced == ASSUME Placed, NEW t \in Tasks, IoComplete(t) PROVE Placed'
<1>1. /\ st[t] = "io" /\ t \notin Range(cqes) /\ cqes' = Append(cqes, t)
      /\ UNCHANGED <<wpc, cur, run_next, local_queue, global_queue, st, s_handles, s_locked>>
  BY Zenon DEF IoComplete, queueVars, signalVars
<1>2. Once(cqes)' /\ \A x : x \in Range(cqes') <=> x \in Range(cqes) \/ x = t
  BY <1>1, OneMore, Zenon DEF Placed, Elsewhere, Once
<1>3. InQueues'
  BY <1>1, Zenon DEF Placed, InQueues, Once
<1>4. Elsewhere'
  BY <1>1, <1>2, Zenon DEF Placed, Elsewhere, Once, Executing
<1> QED
  BY <1>1, <1>3, <1>4, Zenon DEF Placed, Waiting

\* Every step leaves every task in its place, or moves it to another.
LEMMA StepPlaced ==
  ASSUME NoTask \notin Tasks, Placed, Masked, [Next]_ctVars PROVE Placed'
<1>m. s_locked => wpc = "push_back"
  BY Zenon DEF Masked
<1>1. CASE Loop
  BY <1>1, StillPlaced, Zenon DEF Loop, Goto, queueVars, ioVars, signalVars, Still, Executing
<1>2. CASE Stop
  BY <1>2, StillPlaced, Zenon DEF Stop, Goto, queueVars, ioVars, signalVars, Still, Executing
<1>3. CASE maintenance
  BY <1>3, <1>m, PollPlaced, Zenon DEF maintenance, At, Goto, signalVars, Executing
<1>4. CASE GetLocal
  BY <1>4, <1>m, LocalPlaced, Zenon DEF GetLocal, At, ioVars, signalVars
<1>5. CASE GetGlobal
  BY <1>5, StillPlaced, Zenon DEF GetGlobal, Goto, ioVars, signalVars, Still, Executing
<1>6. CASE Pop
  BY <1>6, <1>m, PopPlaced, Zenon DEF Pop, At
<1>7. CASE IdlePoll
  <2>1. wpc' \in {"loop", "sleep"} /\ wpc = "poll" /\ poll /\ UNCHANGED <<s_handles, s_locked>>
    BY <1>7, Zenon DEF IdlePoll, At, Goto, signalVars
  <2> QED
    BY <1>m, <2>1, PollPlaced, Zenon DEF Executing
<1>8. CASE Wait
  BY <1>8, <1>m, PollPlaced, Zenon DEF Wait, At, Goto, signalVars, Executing
<1>9. CASE WakeLock
  BY <1>9, StillPlaced, Zenon DEF WakeLock, At, Goto, ioVars, signalVars, Still, Executing
<1>10. CASE WakeCheck
  BY <1>10, StillPlaced, Zenon DEF WakeCheck, Goto, ioVars, signalVars, Still, Executing
<1>11. CASE SignalPush
  BY <1>11, PushPlaced, Zenon
<1>12. CASE SignalUnlock
  <2>1. /\ Executing /\ ~Executing' /\ st' = [st EXCEPT ![cur] = "signal"]
        /\ UNCHANGED <<run_next, local_queue, global_queue, cqes, s_handles>>
    BY <1>12, Zenon DEF SignalUnlock, At, Goto, queueVars, ioVars, Executing
  <2> QED
    BY <2>1, LeavePlaced, Zenon
<1>13. ASSUME NEW u \in Tasks, schedule_local(u) PROVE Placed'
  BY <1>13, <1>m, SchedulePlaced, Zenon DEF schedule_local, At
<1>14. ASSUME NEW why \in {"idle", "io"}, Suspend(why) PROVE Placed'
  <2>1. /\ Executing /\ ~Executing' /\ st' = [st EXCEPT ![cur] = why] /\ ~s_locked
        /\ UNCHANGED <<run_next, local_queue, global_queue, cqes, s_handles>>
    BY <1>14, <1>m, Zenon DEF Suspend, At, Goto, queueVars, ioVars, signalVars, Executing
  <2> QED
    BY <2>1, LeavePlaced, Zenon
<1>15. CASE Finish
  <2>1. /\ Executing /\ ~Executing' /\ st' = [st EXCEPT ![cur] = "done"] /\ ~s_locked
        /\ UNCHANGED <<run_next, local_queue, global_queue, cqes, s_handles>>
    BY <1>15, <1>m, Zenon DEF Finish, At, Goto, queueVars, signalVars, Executing
  <2> QED
    BY <2>1, LeavePlaced, Zenon
<1>16. CASE SignalBlock
  BY <1>16, StillPlaced, Zenon DEF SignalBlock, At, queueVars, ioVars, Still, Executing
<1>17. CASE notify_all
  <2>1. ~s_locked
    BY <1>17, Zenon DEF notify_all, Masked
  <2> QED
    BY <1>17, <2>1, NotifyPlaced, Zenon
<1>18. ASSUME NEW t \in Tasks, IoComplete(t) PROVE Placed'
  BY <1>18, IoPlaced, Zenon
<1>19. CASE UNCHANGED ctVars
  BY <1>19, StillPlaced, Zenon DEF ctVars, queueVars, ioVars, signalVars, Still, Executing
<1> QED
  BY <1>1, <1>2, <1>3, <1>4, <1>5, <1>6, <1>7, <1>8, <1>9, <1>10, <1>11, <1>12, <1>13, <1>14,
     <1>15, <1>16, <1>17, <1>18, <1>19, Zenon DEF Next, Worker, Run

\* What the invariant says of the three places in a row.
LEMMA PlacedOnce == ASSUME Placed, NoTask \notin Tasks PROVE ScheduledOnce
<1> DEFINE first == IF run_next = NoTask THEN <<>> ELSE <<run_next>>
           both == first \o local_queue
           places == both \o global_queue
<1>p. /\ Once(local_queue) /\ Once(global_queue) /\ run_next \in Handles
      /\ \A t \in Range(local_queue) : t \notin Range(global_queue)
      /\ run_next \in Tasks => /\ run_next \notin Range(local_queue)
                               /\ run_next \notin Range(global_queue)
      /\ \A t \in Tasks : st[t] = "queued" <=> Waiting(t)
  BY Zenon DEF Placed, InQueues
<1>1. /\ first \in Seq(Tasks) /\ IsInjective(first)
      /\ \A x : x \in Range(first) <=> x \in Tasks /\ x = run_next
  <2>1. CASE run_next = NoTask
    <3>1. <<>> \in Seq(Tasks)
      OBVIOUS
    <3> QED
      BY <2>1, <3>1, Nothing, Zenon
  <2>2. CASE run_next # NoTask
    <3>1. run_next \in Tasks
      BY <1>p, <2>2, Zenon DEF Handles
    <3> QED
      BY <2>2, <3>1, JustOne, Zenon
  <2> QED
    BY <2>1, <2>2, Zenon
<1> HIDE DEF first
<1>2. /\ both \in Seq(Tasks) /\ IsInjective(both)
      /\ \A x : x \in Range(both) <=> x \in Range(first) \/ x \in Range(local_queue)
  <2>1. both \in Seq(Tasks)
    BY <1>p, <1>1, Joined, Zenon DEF Once
  <2>2. IsInjective(both)
    <3>1. ASSUME NEW x \in Range(first) PROVE x \notin Range(local_queue)
      <4>1. x \in Tasks /\ x = run_next
        BY <1>1, Zenon
      <4> QED
        BY <1>p, <4>1, Zenon
    <3> QED
      BY <1>p, <1>1, <3>1, JoinedOnce, Zenon DEF Once
  <2> QED
    BY <1>p, <1>1, <2>1, <2>2, JoinedMembers, Zenon DEF Once
<1> HIDE DEF both
<1>3. /\ places \in Seq(Tasks) /\ IsInjective(places)
      /\ \A x : x \in Range(places) <=> x \in Range(both) \/ x \in Range(global_queue)
  <2>1. places \in Seq(Tasks)
    BY <1>p, <1>2, Joined, Zenon DEF Once
  <2>2. \A x \in Range(both) : x \notin Range(global_queue)
    <3>1. ASSUME NEW x \in Range(both) PROVE x \notin Range(global_queue)
      <4>1. x \in Range(local_queue) \/ (x \in Tasks /\ x = run_next)
        BY <1>1, <1>2, Zenon
      <4> QED
        BY <1>p, <4>1, Zenon
    <3> QED
      BY <3>1, Zenon
  <2>3. IsInjective(places)
    BY <1>p, <1>2, <2>2, JoinedOnce, Zenon DEF Once
  <2> QED
    BY <1>p, <1>2, <2>1, <2>3, JoinedMembers, Zenon DEF Once
<1> HIDE DEF places
<1>4. \A i \in DOMAIN places : places[i] \in Range(places)
  BY Zenon DEF Range
<1>5. \A t \in Range(places) : t \in Tasks /\ Waiting(t)
  <2>1. \A t \in Range(places) : t \in Tasks
    BY <1>3, MembersOf, Zenon
  <2> QED
    BY <1>1, <1>2, <1>3, <2>1, Zenon DEF Waiting
<1>6. \A t \in Tasks : Waiting(t) => t \in Range(places)
  BY <1>1, <1>2, <1>3, Zenon DEF Waiting
<1>7. /\ \A i \in DOMAIN places : st[places[i]] = "queued"
      /\ \A t \in Tasks : st[t] = "queued" => t \in Range(places)
  BY <1>p, <1>4, <1>5, <1>6, Zenon
<1> QED
  BY <1>3, <1>7, Zenon DEF places, both, first, ScheduledOnce

\* No handle is lost or run twice: whatever signal interrupts the worker when,
\* a task that was scheduled is in one queue, once, until it runs, and a task
\* that runs or waits is in none (current_thread/worker.hpp:100-151, kind.hpp:113-125).
THEOREM TasksStayScheduled ==
  ASSUME Main \in Tasks, NoTask \notin Tasks PROVE Spec => []ScheduledOnce
<1>1. Init => IInv /\ Placed
  BY InitIInv, InitPlaced, Zenon
<1>2. IInv /\ Placed /\ [Next]_ctVars => (IInv /\ Placed)'
  BY Step, StepPlaced, Zenon DEF IInv
<1>3. Placed => ScheduledOnce
  BY PlacedOnce, Zenon
<1> QED
  BY <1>1, <1>2, <1>3, PTL DEF Spec
=============================================================================
