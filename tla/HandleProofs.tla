---------------------------- MODULE HandleProofs ----------------------------
(***************************************************************************)
(* The safety of starting and stopping a multi-thread runtime, for every   *)
(* number of workers.                                                      *)
(***************************************************************************)
EXTENDS Handle, TLAPS

Gone == {"destructor", "arrived", "destroyed"}
Places == {"none", "push_back", "count_down", "run", "steal", "wait", "main_coro", "close"} \cup Gone
Starting == {"push_back", "count_down"}
BlockingOn == {"wake_up_one", "write", "wait", "used"}
MainPlaces == {"construct", "sync", "ready", "join", "done"} \cup BlockingOn

Types ==
  /\ mainpc \in MainPlaces /\ started \in 0..NumWorkers /\ sync \in {0, 1}
  /\ workers \in Seq(Workers) /\ hpc \in [Workers -> Places]
  /\ victims \in [Workers -> SUBSET Workers] /\ woken \in [Workers -> BOOLEAN]
  /\ hclosed \in BOOLEAN /\ queued \in BOOLEAN /\ blocked_on \in BOOLEAN /\ ended \in BOOLEAN
  /\ towake \in [Workers \cup {MainThread} -> Seq(Workers)] /\ target \in Workers \cup {MainThread}
  /\ mainpc = "write" => target \in Workers
  /\ raced \subseteq MainPlaces /\ dangling \subseteq {"worker", "block_on", "destructor"}

\* The threads are started one at a time: the one that is not done with its
\* constructor is the last one, and the latch says so.
StartsInTurn ==
  /\ \A w \in Workers : hpc[w] = "none" <=> w > started
  /\ \A w \in Workers : hpc[w] \in Starting => mainpc = "sync" /\ sync = 1 /\ w = started
  /\ mainpc = "construct" => started < NumWorkers
  /\ mainpc = "sync" => started > 0 /\ (sync = 1 => hpc[started] \in Starting)
  /\ mainpc \notin {"construct", "sync"} => started = NumWorkers

\* Those that are done with push_back are in workers_, by their indices.
InPlace ==
  /\ \A i \in 1..Len(workers) : workers[i] = i
  /\ \A w \in Workers : w <= Len(workers) <=> hpc[w] \notin {"none", "push_back"}
  /\ \A w \in Workers : victims[w] \subseteq 1..Len(workers)

\* What is destroyed waits for everybody to leave, and nobody leaves before
\* the runtime is closed, by its main coroutine or by its destructor.
LeavesTogether ==
  /\ (\E v \in Workers : hpc[v] = "destroyed") => \A w \in Workers : hpc[w] \in {"arrived", "destroyed"}
  /\ \A w \in Workers : hpc[w] \in Gone => hclosed
  /\ \A w \in Workers : towake[w] # <<>> => hpc[w] = "close"
  /\ hclosed => ended \/ mainpc \in {"join", "done"}
  /\ blocked_on => towake[MainThread] = <<>>
  /\ mainpc \in BlockingOn <=> blocked_on /\ mainpc \notin {"join", "done"}
  /\ mainpc \notin {"join", "done"} => towake[MainThread] = <<>> /\ "destructor" \notin dangling
  /\ mainpc = "used" => hclosed

HandleInv ==
  Types /\ StartsInTurn /\ InPlace /\ LeavesTogether /\ RacesOnlyAtStart /\ NoUseOfDestroyed

\* A worker that is past its constructor may go anywhere else in its code.
LEMMA RunningMoves ==
  ASSUME NumWorkers \in Nat \ {0}, Types, StartsInTurn, InPlace,
         NEW w \in Workers, hpc[w] \notin {"none"} \cup Starting,
         NEW l \in Places \ ({"none"} \cup Starting), hpc' = [hpc EXCEPT ![w] = l],
         UNCHANGED <<mainpc, started, sync, workers, victims>>
  PROVE  StartsInTurn' /\ InPlace'
<1> USE DEF Workers
<1>1. hpc'[w] = l /\ \A v \in Workers : v # w => hpc'[v] = hpc[v]
  BY Zenon DEF Types
<1>2. mainpc = "sync" => started \in Workers
  BY DEF Types, StartsInTurn
<1>3. StartsInTurn'
  BY <1>1, <1>2, Zenon DEF StartsInTurn, Starting
<1>4. InPlace'
  BY <1>1, Zenon DEF InPlace, Starting
<1>5. QED
  BY <1>3, <1>4, Zenon

\* One that has not arrived may do so while the Workers are alive, and leaves
\* its loop only once the runtime is closed.
LEMMA LivingMoves ==
  ASSUME Types, LeavesTogether,
         NEW w \in Workers, hpc[w] \notin {"arrived", "destroyed"}, towake[w] = <<>>,
         NEW l \in Places \ {"destroyed"}, l \in Gone => hclosed, hpc' = [hpc EXCEPT ![w] = l],
         UNCHANGED <<mainpc, hclosed, towake, ended, blocked_on, dangling>>
  PROVE  LeavesTogether'
<1>1. hpc'[w] = l /\ \A v \in Workers : v # w => hpc'[v] = hpc[v]
  BY Zenon DEF Types
<1>2. \A v \in Workers : hpc[v] # "destroyed"
  BY Zenon DEF LeavesTogether
<1>3. QED
  BY <1>1, <1>2, Zenon DEF LeavesTogether

\* The invariant is kept by every step of the owner and of the workers.
LEMMA HandleStep ==
  ASSUME NumWorkers \in Nat \ {0}, HandleInv, [Next]_handleVars
  PROVE  HandleInv'
<1> USE DEF Gone, Places, Starting, BlockingOn, MainPlaces, Workers, MainThread, Goto, history, closing
<1>0. Types /\ StartsInTurn /\ InPlace /\ LeavesTogether /\ RacesOnlyAtStart /\ NoUseOfDestroyed
  BY Zenon DEF HandleInv
<1>a. DOMAIN workers = 1..Len(workers) /\ DOMAIN workers \subseteq Workers
  <2>1. DOMAIN workers = 1..Len(workers)
    BY <1>0 DEF Types
  <2>2. ASSUME NEW i \in DOMAIN workers
        PROVE  workers[i] \in Workers /\ workers[i] = i
    <3>1. workers[i] = i
      BY <1>0, <2>1, Zenon DEF InPlace
    <3>2. workers[i] \in Workers
      BY <1>0 DEF Types
    <3>3. QED
      BY <3>1, <3>2, Zenon
  <2>3. QED
    BY <2>1, <2>2, Zenon
<1>b. Changing => mainpc = "sync"
  BY <1>0, Zenon DEF StartsInTurn, Changing
<1>1. CASE StartThread
  <2>0. started + 1 \in Workers /\ hpc[started + 1] = "none"
    BY <1>1, <1>0 DEF Types, StartsInTurn, StartThread
  <2>1. Types'
    BY <1>1, <1>0, <2>0 DEF Types, StartThread
  <2>2. StartsInTurn'
    BY <1>1, <1>0 DEF Types, StartsInTurn, StartThread
  <2>3. InPlace'
    BY <1>1, <1>0 DEF Types, StartsInTurn, InPlace, StartThread
  <2>4. LeavesTogether'
    BY <1>1, <1>0, <2>0, SMTT(60) DEF Types, StartsInTurn, LeavesTogether, StartThread
  <2>5. RacesOnlyAtStart' /\ NoUseOfDestroyed'
    BY <1>1, <1>0, Zenon DEF RacesOnlyAtStart, NoUseOfDestroyed, StartThread
  <2>6. QED
    BY <2>1, <2>2, <2>3, <2>4, <2>5, Zenon DEF HandleInv
<1>2. CASE Synced
  <2>1. Types'
    BY <1>2, <1>0, Zenon DEF Types, Synced
  <2>2. StartsInTurn' /\ InPlace'
    BY <1>2, <1>0 DEF Types, StartsInTurn, InPlace, Synced
  <2>3. LeavesTogether'
    BY <1>2, <1>0, Zenon DEF Types, StartsInTurn, LeavesTogether, Synced
  <2>4. RacesOnlyAtStart' /\ NoUseOfDestroyed'
    BY <1>2, <1>0, Zenon DEF RacesOnlyAtStart, NoUseOfDestroyed, Synced
  <2>5. QED
    BY <2>1, <2>2, <2>3, <2>4, Zenon DEF HandleInv
<1>3. CASE BlockOn
  <2>1. Types'
    BY <1>3, <1>0, Zenon DEF Types, BlockOn
  <2>2. StartsInTurn' /\ InPlace'
    BY <1>3, <1>0, Zenon DEF Types, StartsInTurn, InPlace, BlockOn
  <2>3. LeavesTogether'
    BY <1>3, <1>0, Zenon DEF Types, StartsInTurn, LeavesTogether, BlockOn
  <2>4. RacesOnlyAtStart' /\ NoUseOfDestroyed'
    BY <1>3, <1>0, Zenon DEF Types, LeavesTogether, RacesOnlyAtStart, NoUseOfDestroyed, BlockOn
  <2>5. QED
    BY <2>1, <2>2, <2>3, <2>4, Zenon DEF HandleInv
<1>4. CASE WorkerToNotify
  <2>1. Types'
    BY <1>4, <1>0, Zenon DEF Types, WorkerToNotify
  <2>2. StartsInTurn' /\ InPlace'
    BY <1>4, <1>0, Zenon DEF Types, StartsInTurn, InPlace, WorkerToNotify
  <2>3. LeavesTogether'
    BY <1>4, <1>0, Zenon DEF Types, StartsInTurn, LeavesTogether, WorkerToNotify
  <2>4. RacesOnlyAtStart' /\ NoUseOfDestroyed'
    BY <1>4, <1>0, Zenon DEF RacesOnlyAtStart, NoUseOfDestroyed, WorkerToNotify
  <2>5. QED
    BY <2>1, <2>2, <2>3, <2>4, Zenon DEF HandleInv
<1>5. CASE WakeUpOne
  <2>1. Types'
    BY <1>5, <1>0, Zenon DEF Types, WakeUpOne, Uses
  <2>2. StartsInTurn' /\ InPlace'
    BY <1>5, <1>0, Zenon DEF Types, StartsInTurn, InPlace, WakeUpOne, Uses
  <2>3. LeavesTogether'
    BY <1>5, <1>0, Zenon DEF Types, StartsInTurn, LeavesTogether, WakeUpOne, Uses
  <2>4. RacesOnlyAtStart'
    BY <1>5, <1>0, Zenon DEF Types, StartsInTurn, RacesOnlyAtStart, WakeUpOne, Uses
  <2>5. NoUseOfDestroyed'
    BY <1>5, <1>0, Zenon DEF Types, InPlace, LeavesTogether, NoUseOfDestroyed, WakeUpOne, Uses
  <2>6. QED
    BY <2>1, <2>2, <2>3, <2>4, <2>5, Zenon DEF HandleInv
<1>6. CASE WaitReturns
  <2>1. Types'
    BY <1>6, <1>0, Zenon DEF Types, WaitReturns, Joined
  <2>2. StartsInTurn' /\ InPlace'
    BY <1>6, <1>0, Zenon DEF Types, StartsInTurn, InPlace, WaitReturns, Joined
  <2>3. LeavesTogether'
    BY <1>6, <1>0 DEF Types, StartsInTurn, LeavesTogether, WaitReturns, Joined
  <2>4. RacesOnlyAtStart' /\ NoUseOfDestroyed'
    BY <1>6, <1>0, Zenon DEF RacesOnlyAtStart, NoUseOfDestroyed, WaitReturns, Joined
  <2>5. QED
    BY <2>1, <2>2, <2>3, <2>4, Zenon DEF HandleInv
<1>7. CASE Destructor
  <2>0. towake' \in [Workers \cup {MainThread} -> Seq(Workers)]
    <3>1. workers \in Seq(Workers) /\ <<>> \in Seq(Workers)
      BY <1>0 DEF Types
    <3>2. QED
      BY <1>7, <1>0, <3>1, Zenon DEF Types, Destructor, close
  <2>1. Types'
    BY <1>7, <1>0, <2>0, Zenon DEF Types, Destructor, close
  <2>2. StartsInTurn'
    BY <1>7, <1>0, Zenon DEF Types, StartsInTurn, Destructor, close
  <2>3. InPlace'
    BY <1>7, <1>0, Zenon DEF Types, StartsInTurn, InPlace, Destructor, close
  <2>4. LeavesTogether'
    <3>1. /\ hclosed' /\ mainpc' = "join" /\ \A v \in Workers : towake'[v] = towake[v]
          /\ UNCHANGED <<hpc, ended, blocked_on, dangling>>
      BY <1>7, <1>0 DEF Types, Destructor, close
    <3>2. blocked_on => towake'[MainThread] = <<>>
      BY <1>7, <1>0, Zenon DEF Types, LeavesTogether, Destructor, close
    <3>3. QED
      BY <1>0, <3>1, <3>2, Zenon DEF LeavesTogether
  <2>5. RacesOnlyAtStart' /\ NoUseOfDestroyed'
    BY <1>7, <1>0, Zenon DEF RacesOnlyAtStart, NoUseOfDestroyed, Destructor, close
  <2>6. QED
    BY <2>1, <2>2, <2>3, <2>4, <2>5, Zenon DEF HandleInv
<1>8. CASE Join
  <2>1. Types'
    BY <1>8, <1>0, Zenon DEF Types, Join, Joined
  <2>2. StartsInTurn' /\ InPlace'
    BY <1>8, <1>0, Zenon DEF Types, StartsInTurn, InPlace, Join, Joined
  <2>3. LeavesTogether'
    BY <1>8, <1>0, Zenon DEF Types, StartsInTurn, LeavesTogether, Join, Joined
  <2>4. RacesOnlyAtStart' /\ NoUseOfDestroyed'
    BY <1>8, <1>0, Zenon DEF RacesOnlyAtStart, NoUseOfDestroyed, Join, Joined
  <2>5. QED
    BY <2>1, <2>2, <2>3, <2>4, Zenon DEF HandleInv
<1>9. CASE wake_up_all(MainThread, "destructor")
  <2>0. /\ towake[MainThread] \in Seq(Workers) /\ towake[MainThread] # <<>>
        /\ Head(towake[MainThread]) \in Workers /\ Tail(towake[MainThread]) \in Seq(Workers)
    <3>1. towake[MainThread] \in Seq(Workers) /\ towake[MainThread] # <<>>
      BY <1>9, <1>0, Zenon DEF Types, wake_up_all
    <3> HIDE DEF Workers
    <3>2. QED
      BY <3>1
  <2>1. Types'
    BY <1>9, <1>0, <2>0, SMTT(60) DEF Types, wake_up_all, Uses
  <2>2. StartsInTurn' /\ InPlace'
    BY <1>9, <1>0, Zenon DEF Types, StartsInTurn, InPlace, wake_up_all, Uses
  <2>3. LeavesTogether'
    BY <1>9, <1>0, Zenon DEF Types, StartsInTurn, LeavesTogether, wake_up_all, Uses
  <2>4. RacesOnlyAtStart'
    BY <1>9, <1>0, Zenon DEF Types, StartsInTurn, RacesOnlyAtStart, wake_up_all, Uses
  <2>5. NoUseOfDestroyed'
    BY <1>9, <1>0, Zenon DEF Types, InPlace, LeavesTogether, NoUseOfDestroyed, wake_up_all, Uses
  <2>6. QED
    BY <2>1, <2>2, <2>3, <2>4, <2>5, Zenon DEF HandleInv
<1>10. CASE UNCHANGED handleVars
  <2>1. Types'
    BY <1>10, <1>0 DEF Types, handleVars, Reads, Changing
  <2>2. StartsInTurn' /\ InPlace'
    BY <1>10, <1>0, Zenon DEF Types, StartsInTurn, InPlace, handleVars, Reads, Changing
  <2>3. LeavesTogether'
    BY <1>10, <1>0, Zenon DEF Types, StartsInTurn, LeavesTogether, handleVars, Reads, Changing
  <2>4. RacesOnlyAtStart'
    BY <1>10, <1>0, Zenon DEF Types, StartsInTurn, RacesOnlyAtStart, handleVars, Reads, Changing
  <2>5. NoUseOfDestroyed'
    BY <1>10, <1>0, Zenon DEF Types, InPlace, LeavesTogether, NoUseOfDestroyed, handleVars, Reads,
       Changing
  <2>6. QED
    BY <2>1, <2>2, <2>3, <2>4, <2>5, Zenon DEF HandleInv
<1>11. ASSUME NEW w \in Workers, PushBack(w)
      PROVE  HandleInv'
  <2>1. Types'
    BY <1>11, <1>0 DEF Types, PushBack
  <2>2. StartsInTurn' /\ InPlace'
    BY <1>11, <1>0, SMTT(60) DEF Types, StartsInTurn, InPlace, PushBack
  <2>3. LeavesTogether'
    <3>1. towake[w] = <<>>
      BY <1>11, <1>0, Zenon DEF LeavesTogether, PushBack
    <3>2. QED
      BY <1>11, <1>0, <3>1, LivingMoves, Zenon DEF PushBack
  <2>4. RacesOnlyAtStart' /\ NoUseOfDestroyed'
    BY <1>11, <1>0, Zenon DEF RacesOnlyAtStart, NoUseOfDestroyed, PushBack
  <2>5. QED
    BY <2>1, <2>2, <2>3, <2>4, Zenon DEF HandleInv
<1>12. ASSUME NEW w \in Workers, CountDown(w)
      PROVE  HandleInv'
  <2>0. sync = 1
    BY <1>12, <1>0, Zenon DEF StartsInTurn, CountDown
  <2>1. Types'
    BY <1>12, <1>0, <2>0 DEF Types, CountDown
  <2>2. StartsInTurn'
    BY <1>12, <1>0 DEF Types, StartsInTurn, CountDown
  <2>3. InPlace'
    BY <1>12, <1>0, SMTT(60) DEF Types, StartsInTurn, InPlace, CountDown
  <2>4. LeavesTogether'
    <3>1. towake[w] = <<>>
      BY <1>12, <1>0, Zenon DEF LeavesTogether, CountDown
    <3>2. QED
      BY <1>12, <1>0, <3>1, LivingMoves, Zenon DEF CountDown
  <2>5. RacesOnlyAtStart' /\ NoUseOfDestroyed'
    BY <1>12, <1>0, Zenon DEF RacesOnlyAtStart, NoUseOfDestroyed, CountDown
  <2>6. QED
    BY <2>1, <2>2, <2>3, <2>4, <2>5, Zenon DEF HandleInv
<1>13. ASSUME NEW w \in Workers, Maintenance(w)
      PROVE  HandleInv'
  <2>1. Types'
    BY <1>13, <1>0 DEF Types, Maintenance
  <2>2. StartsInTurn' /\ InPlace'
    BY <1>13, <1>0, RunningMoves, Zenon DEF Maintenance
  <2>3. LeavesTogether'
    <3>1. towake[w] = <<>>
      BY <1>13, <1>0, Zenon DEF LeavesTogether, Maintenance
    <3>2. QED
      BY <1>13, <1>0, <3>1, LivingMoves, Zenon DEF Maintenance
  <2>4. RacesOnlyAtStart' /\ NoUseOfDestroyed'
    BY <1>13, <1>0, Zenon DEF RacesOnlyAtStart, NoUseOfDestroyed, Maintenance
  <2>5. QED
    BY <2>1, <2>2, <2>3, <2>4, Zenon DEF HandleInv
<1>14. ASSUME NEW w \in Workers, StealWork(w)
      PROVE  HandleInv'
  <2>0. raced' \in {raced, raced \cup {"sync"}}
    BY <1>14, <1>b, Zenon DEF StealWork, Reads
  <2>a. victims' \in {victims, [victims EXCEPT ![w] = DOMAIN workers \ {w}]}
    BY <1>14, Zenon DEF StealWork
  <2>b. \A v \in Workers : victims'[v] \subseteq 1..Len(workers)
    <3>1. CASE victims' = victims
      BY <3>1, <1>0, Zenon DEF InPlace
    <3>2. CASE victims' = [victims EXCEPT ![w] = DOMAIN workers \ {w}]
      <4>1. ASSUME NEW v \in Workers
            PROVE  victims'[v] = IF v = w THEN DOMAIN workers \ {w} ELSE victims[v]
        BY <3>2, <1>0, Zenon DEF Types
      <4>2. QED
        BY <4>1, <1>0, <1>a, Zenon DEF InPlace
    <3>3. QED
      BY <3>1, <3>2, <2>a, Zenon
  <2>1. Types'
    BY <1>14, <1>0, <1>a, <2>0, <2>a, SMTT(60) DEF Types, StealWork
  <2>2. StartsInTurn'
    BY <1>14, <1>0, SMTT(60) DEF Types, StartsInTurn, StealWork, Reads, Changing
  <2>3. InPlace'
    <3>1. /\ hpc[w] = "run" /\ hpc'[w] = "steal" /\ \A v \in Workers : v # w => hpc'[v] = hpc[v]
          /\ workers' = workers
      BY <1>14, <1>0, Zenon DEF Types, StealWork
    <3>2. QED
      BY <1>0, <2>b, <3>1, Zenon DEF InPlace
  <2>4. LeavesTogether'
    <3>1. towake[w] = <<>>
      BY <1>14, <1>0, Zenon DEF LeavesTogether, StealWork
    <3>2. QED
      BY <1>14, <1>0, <3>1, LivingMoves, Zenon DEF StealWork
  <2>5. RacesOnlyAtStart'
    BY <1>14, <1>0, <2>0, Zenon DEF Types, StartsInTurn, RacesOnlyAtStart, StealWork
  <2>6. NoUseOfDestroyed'
    BY <1>14, <1>0, Zenon DEF Types, InPlace, LeavesTogether, NoUseOfDestroyed, StealWork, Reads,
       Changing
  <2>7. QED
    BY <2>1, <2>2, <2>3, <2>4, <2>5, <2>6, Zenon DEF HandleInv
<1>15. ASSUME NEW w \in Workers, Poll(w)
      PROVE  HandleInv'
  <2>1. Types'
    BY <1>15, <1>0 DEF Types, Poll
  <2>2. StartsInTurn' /\ InPlace'
    BY <1>15, <1>0, RunningMoves, Zenon DEF Poll
  <2>3. LeavesTogether'
    <3>1. towake[w] = <<>>
      BY <1>15, <1>0, Zenon DEF LeavesTogether, Poll
    <3>2. QED
      BY <1>15, <1>0, <3>1, LivingMoves, Zenon DEF Poll
  <2>4. RacesOnlyAtStart' /\ NoUseOfDestroyed'
    BY <1>15, <1>0, Zenon DEF RacesOnlyAtStart, NoUseOfDestroyed, Poll
  <2>5. QED
    BY <2>1, <2>2, <2>3, <2>4, Zenon DEF HandleInv
<1>16. ASSUME NEW w \in Workers, Sleep(w)
      PROVE  HandleInv'
  <2>0. raced' \in {raced, raced \cup {"sync"}}
    BY <1>16, <1>b, Zenon DEF Sleep, Reads
  <2>1. Types'
    BY <1>16, <1>0, <2>0 DEF Types, Sleep
  <2>2. StartsInTurn' /\ InPlace'
    BY <1>16, <1>0, RunningMoves, Zenon DEF Sleep
  <2>4. LeavesTogether'
    <3>1. towake[w] = <<>>
      BY <1>16, <1>0, Zenon DEF LeavesTogether, Sleep
    <3>2. QED
      BY <1>16, <1>0, <3>1, LivingMoves, Zenon DEF Sleep
  <2>5. RacesOnlyAtStart'
    BY <1>16, <1>0, <2>0, Zenon DEF Types, StartsInTurn, RacesOnlyAtStart, Sleep
  <2>6. NoUseOfDestroyed'
    BY <1>16, <1>0, Zenon DEF Types, InPlace, LeavesTogether, NoUseOfDestroyed, Sleep, Reads,
       Changing
  <2>7. QED
    BY <2>1, <2>2, <2>4, <2>5, <2>6, Zenon DEF HandleInv
<1>17. ASSUME NEW w \in Workers, Wake(w)
      PROVE  HandleInv'
  <2>1. Types'
    BY <1>17, <1>0 DEF Types, Wake
  <2>2. StartsInTurn' /\ InPlace'
    BY <1>17, <1>0, RunningMoves, Zenon DEF Wake
  <2>3. LeavesTogether'
    <3>1. towake[w] = <<>>
      BY <1>17, <1>0, Zenon DEF LeavesTogether, Wake
    <3>2. QED
      BY <1>17, <1>0, <3>1, LivingMoves, Zenon DEF Wake
  <2>4. RacesOnlyAtStart' /\ NoUseOfDestroyed'
    BY <1>17, <1>0, Zenon DEF RacesOnlyAtStart, NoUseOfDestroyed, Wake
  <2>5. QED
    BY <2>1, <2>2, <2>3, <2>4, Zenon DEF HandleInv
<1>18. ASSUME NEW w \in Workers, RunMain(w)
      PROVE  HandleInv'
  <2>1. Types'
    BY <1>18, <1>0, Zenon DEF Types, RunMain
  <2>2. StartsInTurn' /\ InPlace'
    BY <1>18, <1>0, RunningMoves, Zenon DEF RunMain
  <2>3. LeavesTogether'
    <3>1. towake[w] = <<>>
      BY <1>18, <1>0, Zenon DEF LeavesTogether, RunMain
    <3>2. QED
      BY <1>18, <1>0, <3>1, LivingMoves, Zenon DEF RunMain
  <2>4. RacesOnlyAtStart' /\ NoUseOfDestroyed'
    BY <1>18, <1>0, Zenon DEF RacesOnlyAtStart, NoUseOfDestroyed, RunMain
  <2>5. QED
    BY <2>1, <2>2, <2>3, <2>4, Zenon DEF HandleInv
<1>19. ASSUME NEW w \in Workers, MainEnds(w)
      PROVE  HandleInv'
  <2>0. towake' \in [Workers \cup {MainThread} -> Seq(Workers)]
    <3>1. workers \in Seq(Workers) /\ <<>> \in Seq(Workers)
      BY <1>0 DEF Types
    <3>2. QED
      BY <1>19, <1>0, <3>1, Zenon DEF Types, MainEnds, close
  <2>1. Types'
    BY <1>19, <1>0, <2>0, Zenon DEF Types, MainEnds, close
  <2>2. StartsInTurn' /\ InPlace'
    BY <1>19, <1>0, RunningMoves, Zenon DEF MainEnds
  <2>4. LeavesTogether'
    <3>1. /\ hclosed' /\ ended' /\ hpc[w] = "main_coro" /\ hpc'[w] = "close"
          /\ UNCHANGED <<mainpc, blocked_on, dangling>>
      BY <1>19, <1>0, Zenon DEF Types, MainEnds, close
    <3>2. \A v \in Workers : v # w => hpc'[v] = hpc[v] /\ towake'[v] = towake[v]
      BY <1>19, <1>0, Zenon DEF Types, MainEnds, close
    <3>3. towake'[MainThread] = towake[MainThread]
      BY <1>19, <1>0 DEF Types, MainEnds, close
    <3>4. QED
      BY <1>0, <3>1, <3>2, <3>3, Zenon DEF LeavesTogether
  <2>5. RacesOnlyAtStart' /\ NoUseOfDestroyed'
    BY <1>19, <1>0, Zenon DEF RacesOnlyAtStart, NoUseOfDestroyed, MainEnds, close
  <2>6. QED
    BY <2>1, <2>2, <2>4, <2>5, Zenon DEF HandleInv
<1>20. ASSUME NEW w \in Workers, Closed(w)
      PROVE  HandleInv'
  <2>1. Types'
    BY <1>20, <1>0, SMTT(60) DEF Types, Closed
  <2>2. StartsInTurn' /\ InPlace'
    BY <1>20, <1>0, RunningMoves, Zenon DEF Closed
  <2>4. LeavesTogether'
    <3>1. towake[w] = <<>>
      BY <1>20, <1>0, Zenon DEF LeavesTogether, Closed
    <3>2. QED
      BY <1>20, <1>0, <3>1, LivingMoves, Zenon DEF Closed
  <2>5. RacesOnlyAtStart' /\ NoUseOfDestroyed'
    BY <1>20, <1>0, Zenon DEF RacesOnlyAtStart, NoUseOfDestroyed, Closed
  <2>6. QED
    BY <2>1, <2>2, <2>4, <2>5, Zenon DEF HandleInv
<1>21. ASSUME NEW w \in Workers, Arrive(w)
      PROVE  HandleInv'
  <2>1. Types'
    BY <1>21, <1>0 DEF Types, Arrive
  <2>2. StartsInTurn' /\ InPlace'
    BY <1>21, <1>0, RunningMoves, Zenon DEF Arrive
  <2>3. LeavesTogether'
    <3>1. towake[w] = <<>> /\ hclosed
      BY <1>21, <1>0, Zenon DEF LeavesTogether, Arrive
    <3>2. QED
      BY <1>21, <1>0, <3>1, LivingMoves, Zenon DEF Arrive
  <2>4. RacesOnlyAtStart' /\ NoUseOfDestroyed'
    BY <1>21, <1>0, Zenon DEF RacesOnlyAtStart, NoUseOfDestroyed, Arrive
  <2>5. QED
    BY <2>1, <2>2, <2>3, <2>4, Zenon DEF HandleInv
<1>22. ASSUME NEW w \in Workers, Destroy(w)
      PROVE  HandleInv'
  <2>1. Types'
    BY <1>22, <1>0 DEF Types, Destroy
  <2>2. StartsInTurn' /\ InPlace'
    BY <1>22, <1>0, RunningMoves, Zenon DEF Destroy
  <2>3. LeavesTogether'
    BY <1>22, <1>0, Zenon DEF Types, StartsInTurn, LeavesTogether, Destroy
  <2>4. RacesOnlyAtStart' /\ NoUseOfDestroyed'
    BY <1>22, <1>0, Zenon DEF RacesOnlyAtStart, NoUseOfDestroyed, Destroy
  <2>5. QED
    BY <2>1, <2>2, <2>3, <2>4, Zenon DEF HandleInv
<1>23. ASSUME NEW w \in Workers, wake_up_all(w, "worker")
      PROVE  HandleInv'
  <2>0. /\ towake[w] \in Seq(Workers) /\ towake[w] # <<>>
        /\ Head(towake[w]) \in Workers /\ Tail(towake[w]) \in Seq(Workers)
    <3>1. towake[w] \in Seq(Workers) /\ towake[w] # <<>>
      BY <1>23, <1>0, Zenon DEF Types, wake_up_all
    <3> HIDE DEF Workers
    <3>2. QED
      BY <3>1
  <2>a. \A v \in Workers : hpc[v] # "destroyed"
    BY <1>0, <2>0, Zenon DEF LeavesTogether
  <2>1. Types'
    BY <1>23, <1>0, <2>0, <2>a, SMTT(60) DEF Types, wake_up_all, Uses
  <2>2. StartsInTurn'
    BY <1>23, <1>0, Zenon DEF Types, StartsInTurn, wake_up_all, Uses
  <2>3. InPlace'
    BY <1>23, <1>0, Zenon DEF Types, StartsInTurn, InPlace, wake_up_all, Uses
  <2>4. LeavesTogether'
    BY <1>23, <1>0, Zenon DEF Types, StartsInTurn, LeavesTogether, wake_up_all, Uses
  <2>5. RacesOnlyAtStart'
    BY <1>23, <1>0, Zenon DEF Types, StartsInTurn, RacesOnlyAtStart, wake_up_all, Uses
  <2>6. NoUseOfDestroyed'
    BY <1>23, <1>0, <2>0, <2>a, Zenon DEF Types, InPlace, LeavesTogether, NoUseOfDestroyed,
       wake_up_all, Uses
  <2>7. QED
    BY <2>1, <2>2, <2>3, <2>4, <2>5, <2>6, Zenon DEF HandleInv
<1>24. ASSUME NEW w \in Workers, NEW i \in victims[w], StealFrom(w, i)
      PROVE  HandleInv'
  <2>0. workers[i] \in Workers
    BY <1>0, <1>a, <1>24 DEF InPlace, Types
  <2>a. \A v \in Workers : hpc[v] # "destroyed"
    BY <1>0, <1>24, Zenon DEF LeavesTogether, StealFrom
  <2>1. Types'
    BY <1>24, <1>0, <2>0, <2>a, <1>b, SMTT(60) DEF Types, StealFrom, Uses, Reads
  <2>2. StartsInTurn'
    BY <1>24, <1>0, Zenon DEF Types, StartsInTurn, StealFrom, Uses, Reads, Changing
  <2>3. InPlace'
    BY <1>24, <1>0, SMTT(60) DEF Types, StartsInTurn, InPlace, StealFrom, Uses, Reads, Changing
  <2>4. LeavesTogether'
    BY <1>24, <1>0, Zenon DEF Types, StartsInTurn, LeavesTogether, StealFrom, Uses, Reads,
       Changing
  <2>5. RacesOnlyAtStart'
    BY <1>24, <1>0, <1>b, Zenon DEF Types, StartsInTurn, RacesOnlyAtStart, StealFrom, Uses, Reads
  <2>6. NoUseOfDestroyed'
    BY <1>24, <1>0, <2>0, <2>a, Zenon DEF Types, InPlace, LeavesTogether, NoUseOfDestroyed,
       StealFrom, Uses, Reads, Changing
  <2>7. QED
    BY <2>1, <2>2, <2>3, <2>4, <2>5, <2>6, Zenon DEF HandleInv
<1>25. QED
  BY <1>1, <1>2, <1>3, <1>4, <1>5, <1>6, <1>7, <1>8, <1>9, <1>10, <1>11, <1>12, <1>13, <1>14,
     <1>15, <1>16, <1>17, <1>18, <1>19, <1>20, <1>21, <1>22, <1>23, <1>24, Zenon DEF Next, Owner,
     Worker

\* The invariant holds from the start of the constructor on.
LEMMA HandleInvariant ==
  ASSUME NumWorkers \in Nat \ {0}
  PROVE  Spec => []HandleInv
<1>1. Init => HandleInv
  <2> SUFFICES ASSUME Init PROVE HandleInv
    BY Zenon
  <2> USE DEF Init, Gone, Places, Starting, BlockingOn, MainPlaces, Workers, MainThread
  <2>1. Types
    <3>1. /\ hpc \in [Workers -> Places] /\ victims \in [Workers -> SUBSET Workers]
          /\ woken \in [Workers -> BOOLEAN] /\ workers \in Seq(Workers)
      OBVIOUS
    <3>2. towake \in [Workers \cup {MainThread} -> Seq(Workers)]
      <4>1. <<>> \in Seq(Workers)
        OBVIOUS
      <4>2. QED
        BY <4>1, Zenon
    <3>3. /\ mainpc \in MainPlaces /\ started \in 0..NumWorkers /\ sync \in {0, 1}
          /\ target \in Workers \cup {MainThread} /\ mainpc # "write"
      OBVIOUS
    <3>4. hclosed \in BOOLEAN /\ queued \in BOOLEAN /\ blocked_on \in BOOLEAN /\ ended \in BOOLEAN
      BY Zenon
    <3>5. raced \subseteq MainPlaces /\ dangling \subseteq {"worker", "block_on", "destructor"}
      BY Zenon
    <3> HIDE DEF Init, Places, MainPlaces, Workers, MainThread
    <3>6. QED
      BY <3>1, <3>2, <3>3, <3>4, <3>5, Zenon DEF Types
  <2>2. StartsInTurn
    BY DEF StartsInTurn
  <2>3. InPlace
    BY DEF InPlace
  <2>4. LeavesTogether
    BY Zenon DEF LeavesTogether
  <2>5. RacesOnlyAtStart /\ NoUseOfDestroyed
    BY Zenon DEF RacesOnlyAtStart, NoUseOfDestroyed
  <2>6. QED
    BY <2>1, <2>2, <2>3, <2>4, <2>5, Zenon DEF HandleInv
<1>2. HandleInv /\ [Next]_handleVars => HandleInv'
  BY HandleStep, Zenon
<1>3. QED
  BY <1>1, <1>2, PTL DEF Spec

\* However many workers there are, each is in workers_ at the place of its
\* index, so that the asserts of the constructor hold and worker_to_notify
\* names the worker it means.
THEOREM WorkersInPlace ==
  ASSUME NumWorkers \in Nat \ {0}
  PROVE  Spec => []IndexIsPlace
<1>1. HandleInv => IndexIsPlace
  BY DEF HandleInv, Types, InPlace, IndexIsPlace
<1>2. QED
  BY <1>1, HandleInvariant, PTL

\* However many workers there are, the unsynchronised reads of workers_ meet
\* a write only while the constructor of Handle starts threads.
THEOREM StartIsTheOnlyRace ==
  ASSUME NumWorkers \in Nat \ {0}
  PROVE  Spec => []RacesOnlyAtStart
<1>1. HandleInv => RacesOnlyAtStart
  BY Zenon DEF HandleInv
<1>2. QED
  BY <1>1, HandleInvariant, PTL

\* However many workers there are, the latch of ~Worker keeps them alive for
\* each other, and only block_on and ~Handle can meet a destroyed one, in the
\* two cases that the property names.
THEOREM DestroyedIsUnused ==
  ASSUME NumWorkers \in Nat \ {0}
  PROVE  Spec => []NoUseOfDestroyed
<1>1. HandleInv => NoUseOfDestroyed
  BY Zenon DEF HandleInv
<1>2. QED
  BY <1>1, HandleInvariant, PTL
=============================================================================
