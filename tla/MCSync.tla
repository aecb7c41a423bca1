------------------------------- MODULE MCSync -------------------------------
(***************************************************************************)
(* The synchronisation primitives for TLC.  They share nothing, so one     *)
(* behaviour is a program that uses one of them, chosen at the start, and  *)
(* the run explores the sum of their state spaces.                         *)
(***************************************************************************)
EXTENDS Integers, Sequences, FiniteSets

CONSTANTS c1, c2, c3, c4, p1, p2,           \* coroutines
          Nobody, Null, Closed, NoValue, v1, v2

VARIABLES program,
          \* Latch
          lExpected, lHead, lPc, lCursor, lScheduled, lResumes,
          \* Semaphore
          sOwner, sQueue, sCount, sAwaiters, sPc, sUpdate, sHeld,
          \* SharedMutex
          mOwner, mQueue, mState, mCond, mWriterCond, mPc,
          \* ConditionVariable
          vOwner, vQueue, vHead, vNext, vPc, vCur, vNxt, vUnlocking, vItems, vMade,
          \* Channel
          hOwner, hQueue, hBuf, hSenders, hReceivers, hClosed, hCap, hNumSenders, hNumReceivers,
          hPc, hUnlocking, hSends, hResult, hAccepted, hReceived, hFailed,
          \* RingBuffer
          rStart, rEnd, rData, rRet

FourCoros == {c1, c2, c3, c4}

\* Two coroutines arrive and wait, one of them counting for two, one only
\* waits, one only counts.
latch == INSTANCE Latch WITH
  Coros <- FourCoros, Update <- [c \in FourCoros |-> IF c = c3 THEN 0 ELSE IF c = c2 THEN 2 ELSE 1],
  Waits <- {c1, c2, c3}, Expected <- 4,
  expected <- lExpected, head <- lHead, pc <- lPc, cursor <- lCursor, scheduled <- lScheduled,
  resumes <- lResumes

\* Two permits; c1 collects both before it gives them back at once or one by
\* one.
semaphore == INSTANCE Semaphore WITH
  Coros <- FourCoros, Initial <- 2, Most <- [c \in FourCoros |-> IF c = c1 THEN 2 ELSE 1],
  owner <- sOwner, queue <- sQueue, count <- sCount, awaiters <- sAwaiters, pc <- sPc,
  update <- sUpdate, held <- sHeld

\* Four writers.
shared_mutex == INSTANCE SharedMutex WITH
  Writers <- FourCoros, Readers <- {}, READER_MASK <- 3,
  owner <- mOwner, queue <- mQueue, state <- mState, cond <- mCond, writer_cond <- mWriterCond,
  pc <- mPc

\* Two consumers, and two producers that notify under the mutex...
cv_locked == INSTANCE ConditionVariable WITH
  Consumers <- {c1, c2}, Producers <- {p1, p2}, Locked <- {p1, p2}, MaxItems <- 2,
  owner <- vOwner, queue <- vQueue, head <- vHead, next <- vNext, pc <- vPc, cur <- vCur,
  nxt <- vNxt, unlocking <- vUnlocking, items <- vItems, made <- vMade

\* ...or one producer that notifies after the unlock.
cv_unlocked == INSTANCE ConditionVariable WITH
  Consumers <- {c1, c2}, Producers <- {p1}, Locked <- {}, MaxItems <- 3,
  owner <- vOwner, queue <- vQueue, head <- vHead, next <- vNext, pc <- vPc, cur <- vCur,
  nxt <- vNxt, unlocking <- vUnlocking, items <- vItems, made <- vMade

\* Two senders and a receiver that nobody closes.
channel == INSTANCE Channel WITH
  Senders <- {c1, c2}, Receivers <- {c3}, First <- {c1, c3}, Closers <- {}, Caps <- {0, 1},
  MaxSends <- 2,
  owner <- hOwner, queue <- hQueue, buf <- hBuf, waiting_senders <- hSenders,
  waiting_receivers <- hReceivers, is_closed <- hClosed, cap <- hCap,
  num_senders <- hNumSenders, num_receivers <- hNumReceivers, pc <- hPc,
  unlocking <- hUnlocking, sends <- hSends, result <- hResult, accepted <- hAccepted,
  received <- hReceived, failed <- hFailed

ring == INSTANCE RingBuffer WITH
  Values <- {v1, v2}, Capacities <- 0..4,
  start <- rStart, end <- rEnd, data <- rData, ret <- rRet

-----------------------------------------------------------------------------
latchVars == <<lExpected, lHead, lPc, lCursor, lScheduled, lResumes>>
semaphoreVars == <<sOwner, sQueue, sCount, sAwaiters, sPc, sUpdate, sHeld>>
sharedVars == <<mOwner, mQueue, mState, mCond, mWriterCond, mPc>>
cvVars == <<vOwner, vQueue, vHead, vNext, vPc, vCur, vNxt, vUnlocking, vItems, vMade>>
channelVars == <<hOwner, hQueue, hBuf, hSenders, hReceivers, hClosed, hCap, hNumSenders,
                 hNumReceivers, hPc, hUnlocking, hSends, hResult, hAccepted, hReceived, hFailed>>
ringVars == <<rStart, rEnd, rData, rRet>>
vars == <<program, latchVars, semaphoreVars, sharedVars, cvVars, channelVars, ringVars>>

Init ==
  /\ program \in {"latch", "semaphore", "shared_mutex", "cv_locked", "cv_unlocked", "channel",
                  "ring"}
  /\ latch!Init /\ semaphore!Init /\ shared_mutex!Init
  /\ IF program = "cv_unlocked" THEN cv_unlocked!Init ELSE cv_locked!Init
  /\ channel!Init /\ (program # "channel" => hCap = 0)
  /\ ring!Init /\ (program # "ring" => DOMAIN rData = {0})

\* The step A of a program.
Latch(A) ==
  /\ program = "latch" /\ A
  /\ UNCHANGED <<program, semaphoreVars, sharedVars, cvVars, channelVars, ringVars>>
Semaphore(A) ==
  /\ program = "semaphore" /\ A
  /\ UNCHANGED <<program, latchVars, sharedVars, cvVars, channelVars, ringVars>>
SharedMutex(A) ==
  /\ program = "shared_mutex" /\ A
  /\ UNCHANGED <<program, latchVars, semaphoreVars, cvVars, channelVars, ringVars>>
Cv(p, A) ==
  /\ program = p /\ A
  /\ UNCHANGED <<program, latchVars, semaphoreVars, sharedVars, channelVars, ringVars>>
Channel(A) ==
  /\ program = "channel" /\ A
  /\ UNCHANGED <<program, latchVars, semaphoreVars, sharedVars, cvVars, ringVars>>
Ring(A) ==
  /\ program = "ring" /\ A
  /\ UNCHANGED <<program, latchVars, semaphoreVars, sharedVars, cvVars,
                 channelVars>>

Next ==
  \/ Latch(latch!Next) \/ Semaphore(semaphore!Next) \/ SharedMutex(shared_mutex!WriterNext)
  \/ Cv("cv_locked", cv_locked!Next) \/ Cv("cv_unlocked", cv_unlocked!Next)
  \/ Channel(channel!Next) \/ Ring(ring!Next)

Spec == Init /\ [][Next]_vars

\* The fairness of each component, for the program that uses it.
Fairness ==
  /\ \A c \in FourCoros :
       /\ WF_vars(Latch(latch!Step(c)))
       /\ WF_vars(Semaphore(semaphore!acquire(c))) /\ WF_vars(Semaphore(semaphore!release(c)))
       /\ WF_vars(Semaphore(semaphore!Resume(c))) /\ WF_vars(Semaphore(semaphore!ReleaseLock(c)))
       /\ WF_vars(SharedMutex(shared_mutex!Enter(c, "woken", "lock")))
       /\ WF_vars(SharedMutex(shared_mutex!BeginUnlock(c)))
       /\ WF_vars(SharedMutex(shared_mutex!Write(c)))
  /\ \A c \in {c1, c2} :
       /\ WF_vars(Cv("cv_unlocked", cv_unlocked!WaitLock(c)))
       /\ WF_vars(Cv("cv_unlocked", cv_unlocked!WaitDone(c) \/ cv_unlocked!WaitPush(c)))
       /\ WF_vars(Cv("cv_unlocked", cv_unlocked!WaitUnlock(c)))
  /\ WF_vars(Cv("cv_unlocked", cv_unlocked!Produce(p1) \/ cv_unlocked!ProduceNothing(p1)))
  /\ WF_vars(Cv("cv_unlocked", cv_unlocked!Notify(p1)))
  /\ SF_vars(Cv("cv_unlocked", cv_unlocked!NotifyOnePop(p1)))
  /\ \A c \in {c1, c2} : WF_vars(Channel(channel!SendLocked(c)))
  /\ WF_vars(Channel(channel!RecvLock(c3))) /\ WF_vars(Channel(channel!RecvLocked(c3)))
  /\ \A c \in {c1, c2, c3} :
       /\ WF_vars(Channel(channel!PushBack(c))) /\ WF_vars(Channel(channel!Unlock(c)))
       /\ WF_vars(Channel(channel!Resume(c)))

FairSpec == Spec /\ Fairness

-----------------------------------------------------------------------------
\* The variables of every primitive keep their types, and its counters their
\* ranges.
TypeOK ==
  /\ latch!TypeOK /\ semaphore!TypeOK /\ shared_mutex!TypeOK /\ ring!TypeOK /\ channel!TypeOK
  /\ IF program = "cv_unlocked" THEN cv_unlocked!TypeOK ELSE cv_locked!TypeOK

\* Nobody gets past a latch before every update has been counted
\* (latch.hpp:64-66), and only one coroutine ever walks its list.
ReleasedAtZero == latch!ReleasedAtZero

\* No more permits are out than the semaphore was made with, and none is lost
\* (semaphore.hpp:53, 65-72).
PermitsConserved == semaphore!PermitsConserved

\* At most one coroutine has the shared mutex for writing, and when it unlocks
\* the assertion of unlock() holds (shared_mutex.hpp:35).
WriterAlone == shared_mutex!WriterAlone

\* No awaiter of a condition variable is lost and none is linked while it
\* runs, whether producers notify under the mutex or one does after it; with
\* every notification under the mutex, notify_one never follows a null pointer
\* after a failed exchange (condition_variable.hpp:60-64).
AwaitersLinked ==
  IF program = "cv_unlocked" THEN cv_unlocked!AwaitersLinked
  ELSE cv_locked!AwaitersLinked /\ cv_locked!NoNullDereference

\* Whoever waits is released: at a latch, although notify_all loads head_ once
\* and awaiters keep arriving (latch.hpp:28); at a semaphore, whose release
\* finds the awaiters in the order they came; at a shared mutex, where no
\* unlock() misses a writer; for an item, although the producer notifies after
\* the unlock and a consumer may be between its look at the predicate and its
\* push when the item is made; and in a send, as long as somebody receives.
EveryWaitEnds ==
  /\ program = "latch" => latch!EveryWaiterReleased
  /\ semaphore!EveryAcquireReturns
  /\ shared_mutex!NoWriterForgotten
  /\ program = "cv_unlocked" => cv_unlocked!EveryItemConsumed
  /\ channel!EverySendReturns

\* A HeapRingBuffer is a bounded queue: what is pushed is popped once, in
\* order, wherever the positions have wrapped to (ring_buffer_test.cpp:11-35).
ImplementsBoundedQueue == ring!ImplementsBoundedQueue
=============================================================================
