----------------------------- MODULE TaskQueues -----------------------------
(***************************************************************************)
(* The run queues of the multi-thread runtime                              *)
(* (runtime/multi_thread/queue.hpp): one lock-free ring per worker, pushed *)
(* and popped by its owner, half of it stolen by any other worker, and the *)
(* mutex-protected queue they all share.                                   *)
(*                                                                         *)
(* Every atomic access another thread can observe is a step of its own.    *)
(* Ring positions are kept unwrapped; whatever the code computes or        *)
(* compares in uint32_t goes through Sub and Same, modulo WIDTH.  A        *)
(* compare_exchange compares unwrapped heads: no thread sleeps between its *)
(* load and its CAS while the ring is pushed WIDTH times.                  *)
(***************************************************************************)
EXTENDS Integers, Sequences, FiniteSets

CONSTANTS Workers,   \* the worker threads, one LocalQueue each
          CAP,       \* LOCAL_QUEUE_CAPACITY
          WIDTH,     \* 2^32, the values of a uint32_t position
          MaxTasks   \* bound: coroutines handed to the queues

ASSUME CAPAssumption == CAP \in Nat \ {0} /\ CAP % 2 = 0
ASSUME WIDTHAssumption == WIDTH \in Nat /\ WIDTH > CAP /\ WIDTH % CAP = 0
ASSUME WorkersAssumption == IsFiniteSet(Workers) /\ Cardinality(Workers) \in Nat \ {0}
ASSUME MaxTasksAssumption == MaxTasks \in Nat

Tasks == 1..MaxTasks
NoTask == 0

VARIABLES head,     \* head_ of each ring, unpacked: [steal, real]
          tail,     \* tail_ of each ring
          buffer,   \* buffer_ of each ring
          global,   \* tasks_ of the GlobalQueue
          closed,   \* is_closed_ of the GlobalQueue
          pc,       \* where each worker is in the queue code
          snap,     \* its last value loaded from a head_
          victim,   \* the ring it is stealing from
          cnt,      \* its local n
          hand,     \* tasks held in its local variables only
          created,  \* tasks handed to the queues so far
          runs      \* how often each task was returned to be resumed

queueVars == <<head, tail, buffer>>
globalVars == <<global, closed>>
localVars == <<pc, snap, victim, cnt, hand>>
histVars == <<created, runs>>
vars == <<queueVars, globalVars, localVars, histVars>>

\* uint32_t subtraction and comparison of two positions
Sub(a, b) == (a - b) % WIDTH
Same(a, b) == Sub(b, a) = 0

\* idx = pos & MASK
Slot(i) == i % CAP

\* the distance from position i to the next position whose slot is j
Offset(j, i) == (j - i) % CAP

Lesser(a, b) == IF a <= b THEN a ELSE b
Packed(s, r) == [steal |-> s, real |-> r]

-----------------------------------------------------------------------------
Init ==
  /\ head = [w \in Workers |-> Packed(0, 0)]
  /\ tail = [w \in Workers |-> 0]
  /\ buffer = [w \in Workers |-> [i \in 0..CAP - 1 |-> NoTask]]
  /\ global = <<>>
  /\ closed = FALSE
  /\ pc = [w \in Workers |-> "idle"]
  /\ snap = [w \in Workers |-> Packed(0, 0)]
  /\ victim = [w \in Workers |-> w]
  /\ cnt = [w \in Workers |-> 0]
  /\ hand = [w \in Workers |-> <<>>]
  /\ created = 0
  /\ runs = [t \in Tasks |-> 0]

Goto(w, label) == pc' = [pc EXCEPT ![w] = label]

\* Leave the queue code; its local variables die.
Return(w) ==
  /\ Goto(w, "idle")
  /\ snap' = [snap EXCEPT ![w] = Packed(0, 0)]
  /\ victim' = [victim EXCEPT ![w] = w]
  /\ cnt' = [cnt EXCEPT ![w] = 0]
  /\ hand' = [hand EXCEPT ![w] = <<>>]

\* The task is returned to the worker, which resumes it.
Run(t) == runs' = [runs EXCEPT ![t] = @ + 1]

-----------------------------------------------------------------------------
\* GlobalQueue, under its mutex.  A closed queue drops what it is given.
GlobalPush(tasks) == global' = IF closed THEN global ELSE global \o tasks

GlobalClose ==
  /\ ~closed
  /\ closed' = TRUE
  /\ UNCHANGED <<queueVars, global, localVars, histVars>>

\* Shared::next_global_task -> GlobalQueue::pop
GlobalPop(w) ==
  /\ pc[w] \in {"idle", "pop_one"}
  /\ IF global = <<>>
     THEN UNCHANGED <<global, runs>>
     ELSE global' = Tail(global) /\ Run(Head(global))
  /\ Return(w)
  /\ UNCHANGED <<queueVars, closed, created>>

-----------------------------------------------------------------------------
\* LocalQueue::push_back_or_overflow, called by the owner with a new task.
PushBegin(w) ==
  /\ pc[w] = "idle"
  /\ created < MaxTasks
  /\ created' = created + 1
  /\ hand' = [hand EXCEPT ![w] = <<created + 1>>]
  /\ Goto(w, "push")
  /\ UNCHANGED <<queueVars, globalVars, snap, victim, cnt, runs>>

\* mutant: the test is off by one
RoomOffByOne(w) == Sub(tail[w], head[w].steal) <= CAP

HasRoom(w) == Sub(tail[w], head[w].steal) < CAP

PushRoom(w) ==
  /\ pc[w] = "push"
  /\ HasRoom(w)
  /\ Goto(w, "write")
  /\ UNCHANGED <<queueVars, globalVars, snap, victim, cnt, hand, histVars>>

\* The ring is full and a thief is at work: the task goes to the global queue.
PushGlobal(w) ==
  /\ pc[w] = "push"
  /\ ~HasRoom(w)
  /\ ~Same(head[w].steal, head[w].real)
  /\ GlobalPush(hand[w])
  /\ Return(w)
  /\ UNCHANGED <<queueVars, closed, histVars>>

PushFull(w) ==
  /\ pc[w] = "push"
  /\ ~HasRoom(w)
  /\ Same(head[w].steal, head[w].real)
  /\ snap' = [snap EXCEPT ![w] = head[w]]
  /\ Goto(w, "overflow")
  /\ UNCHANGED <<queueVars, globalVars, victim, cnt, hand, histVars>>

PushWrite(w) ==
  /\ pc[w] = "write"
  /\ buffer' = [buffer EXCEPT ![w][Slot(tail[w])] = hand[w][1]]
  /\ tail' = [tail EXCEPT ![w] = @ + 1]
  /\ Return(w)
  /\ UNCHANGED <<head, globalVars, histVars>>

\* push_overflow: claim the older half of the ring...
OverflowCas(w) ==
  /\ pc[w] = "overflow"
  /\ \/ /\ head[w] = Packed(snap[w].real, snap[w].real)
        /\ head' = [head EXCEPT ![w] =
                      Packed(snap[w].real + CAP \div 2, snap[w].real + CAP \div 2)]
        /\ Goto(w, "spill")
     \/ UNCHANGED head /\ Goto(w, "push")
  /\ UNCHANGED <<tail, buffer, globalVars, snap, victim, cnt, hand, histVars>>

\* mutant: one task of the claimed half stays behind
SpillOffByOne(w) ==
  /\ pc[w] = "spill"
  /\ GlobalPush([i \in 1..CAP \div 2 - 1 |-> buffer[w][Slot(snap[w].real + i - 1)]]
                \o hand[w])
  /\ Return(w)
  /\ UNCHANGED <<queueVars, closed, histVars>>

\* ...and move it with the new task to the global queue.
Spill(w) ==
  /\ pc[w] = "spill"
  /\ GlobalPush([i \in 1..CAP \div 2 |-> buffer[w][Slot(snap[w].real + i - 1)]]
                \o hand[w])
  /\ Return(w)
  /\ UNCHANGED <<queueVars, closed, histVars>>

-----------------------------------------------------------------------------
\* LocalQueue::pop.  Each round of its loop tests the head it last loaded.
PopLoad(w) ==
  /\ IF Same(head[w].real, tail[w])
     THEN Return(w)
     ELSE /\ snap' = [snap EXCEPT ![w] = head[w]]
          /\ Goto(w, "pop")
          /\ UNCHANGED <<victim, cnt, hand>>
  /\ UNCHANGED <<queueVars, globalVars, histVars>>

PopBegin(w) ==
  /\ pc[w] = "idle"
  /\ PopLoad(w)

PopCas(w) ==
  /\ pc[w] = "pop"
  /\ \/ /\ head[w] = snap[w]
        /\ head' = [head EXCEPT ![w] =
                      LET next == snap[w].real + 1
                      IN  IF Same(snap[w].steal, snap[w].real)
                          THEN Packed(next, next)
                          ELSE Packed(snap[w].steal, next)]
        /\ Run(buffer[w][Slot(snap[w].real)])
        /\ Return(w)
        /\ UNCHANGED <<tail, buffer, globalVars, created>>
     \/ PopLoad(w)

-----------------------------------------------------------------------------
\* LocalQueue::steal_into, called by w on the ring of v.
StealBegin(w, v) ==
  /\ pc[w] = "idle"
  /\ v # w
  /\ Sub(tail[w], head[w].steal) <= CAP \div 2
  /\ victim' = [victim EXCEPT ![w] = v]
  /\ snap' = [snap EXCEPT ![w] = head[v]]
  /\ Goto(w, "steal_tail")
  /\ UNCHANGED <<queueVars, globalVars, cnt, hand, histVars>>

\* mutant: "Other thread is stealing" is not tested
StealTailAlways(w) ==
  LET k == Sub(tail[victim[w]], snap[w].real)
      n == k - k \div 2
  IN  /\ pc[w] = "steal_tail"
      /\ IF n = 0
         THEN Return(w)
         ELSE /\ cnt' = [cnt EXCEPT ![w] = n]
              /\ Goto(w, "steal_cas")
              /\ UNCHANGED <<snap, victim, hand>>
      /\ UNCHANGED <<queueVars, globalVars, histVars>>

\* steal_into2: half of what lies between the loaded head and the tail,
\* rounded up, unless another thief is at work
StealTail(w) ==
  LET k == Sub(tail[victim[w]], snap[w].real)
      n == k - k \div 2
  IN  /\ pc[w] = "steal_tail"
      /\ IF ~Same(snap[w].steal, snap[w].real) \/ n = 0
         THEN Return(w)
         ELSE /\ cnt' = [cnt EXCEPT ![w] = n]
              /\ Goto(w, "steal_cas")
              /\ UNCHANGED <<snap, victim, hand>>
      /\ UNCHANGED <<queueVars, globalVars, histVars>>

StealCas(w) ==
  LET v == victim[w]
      next == Packed(snap[w].steal, snap[w].real + cnt[w])
  IN  /\ pc[w] = "steal_cas"
      /\ \/ /\ head[v] = snap[w]
            /\ head' = [head EXCEPT ![v] = next]
            /\ snap' = [snap EXCEPT ![w] = next]
            /\ Goto(w, "copy")
         \/ /\ snap' = [snap EXCEPT ![w] = head[v]]
            /\ Goto(w, "steal_tail")
            /\ UNCHANGED head
      /\ UNCHANGED <<tail, buffer, globalVars, victim, cnt, hand, histVars>>

StealCopy(w) ==
  /\ pc[w] = "copy"
  /\ buffer' = [buffer EXCEPT ![w] =
       [j \in 0..CAP - 1 |->
          IF Offset(j, tail[w]) < cnt[w]
          THEN buffer[victim[w]][Slot(snap[w].steal + Offset(j, tail[w]))]
          ELSE buffer[w][j]]]
  /\ Goto(w, "release")
  /\ UNCHANGED <<head, tail, globalVars, snap, victim, cnt, hand, histVars>>

StealRelease(w) ==
  LET v == victim[w]
  IN  /\ pc[w] = "release"
      /\ \/ /\ head[v] = snap[w]
            /\ head' = [head EXCEPT ![v] = Packed(snap[w].real, snap[w].real)]
            /\ Goto(w, "take")
            /\ UNCHANGED snap
         \/ /\ snap' = [snap EXCEPT ![w] = head[v]]
            /\ UNCHANGED <<head, pc>>
      /\ UNCHANGED <<tail, buffer, globalVars, victim, cnt, hand, histVars>>

\* mutant: one task too many is published
StealTakeAll(w) ==
  /\ pc[w] = "take"
  /\ Run(buffer[w][Slot(tail[w] + cnt[w] - 1)])
  /\ tail' = [tail EXCEPT ![w] = @ + cnt[w]]
  /\ Return(w)
  /\ UNCHANGED <<head, buffer, globalVars, created>>

\* steal_into again: the last stolen task is the result, the others are
\* published in the thief's own ring.
StealTake(w) ==
  LET n == cnt[w] - 1
  IN  /\ pc[w] = "take"
      /\ Run(buffer[w][Slot(tail[w] + n)])
      /\ tail' = [tail EXCEPT ![w] = @ + n]
      /\ Return(w)
      /\ UNCHANGED <<head, buffer, globalVars, created>>

-----------------------------------------------------------------------------
\* Worker::get_next_task once next_local_task has found nothing: the global
\* queue is not empty...
PullBegin(w) ==
  /\ pc[w] = "idle"
  /\ Same(head[w].real, tail[w])
  /\ global # <<>>
  /\ Goto(w, "pull_load")
  /\ UNCHANGED <<queueVars, globalVars, snap, victim, cnt, hand, histVars>>

\* mutant: the slots a thief is copying count as free
PullLoadReal(w) ==
  LET room == CAP - Sub(tail[w], head[w].real)
      share == Len(global) \div Cardinality(Workers) + 1
      n == Lesser(room, CAP \div 2)
  IN  /\ pc[w] = "pull_load"
      /\ cnt' = [cnt EXCEPT ![w] = Lesser(share, n)]
      /\ Goto(w, "pull")
      /\ UNCHANGED <<queueVars, globalVars, snap, victim, hand, histVars>>

\* ...and how many tasks to pull is decided from reads no lock protects.
PullLoad(w) ==
  LET room == CAP - Sub(tail[w], head[w].steal)
      share == Len(global) \div Cardinality(Workers) + 1
      n == Lesser(room, CAP \div 2)
  IN  /\ pc[w] = "pull_load"
      /\ IF n = 0
         THEN Goto(w, "pop_one") /\ UNCHANGED cnt
         ELSE /\ cnt' = [cnt EXCEPT ![w] = Lesser(share, n)]
              /\ Goto(w, "pull")
      /\ UNCHANGED <<queueVars, globalVars, snap, victim, hand, histVars>>

\* GlobalQueue::pop_n
PullPop(w) ==
  LET n == Lesser(Len(global), cnt[w])
  IN  /\ pc[w] = "pull"
      /\ global' = SubSeq(global, n + 1, Len(global))
      /\ IF n = 0
         THEN Return(w) /\ UNCHANGED runs
         ELSE /\ Run(global[1])
              /\ IF n = 1
                 THEN Return(w)
                 ELSE /\ hand' = [hand EXCEPT ![w] = SubSeq(global, 2, n)]
                      /\ Goto(w, "batch")
                      /\ UNCHANGED <<snap, victim, cnt>>
      /\ UNCHANGED <<queueVars, closed, created>>

\* LocalQueue::push_batch; it throws when the ring has no room for the batch.
BatchFits(w) == Sub(tail[w], head[w].steal) <= CAP - Len(hand[w])

PullBatch(w) ==
  /\ pc[w] = "batch"
  /\ IF BatchFits(w)
     THEN /\ buffer' = [buffer EXCEPT ![w] =
               [j \in 0..CAP - 1 |->
                  IF Offset(j, tail[w]) < Len(hand[w])
                  THEN hand[w][Offset(j, tail[w]) + 1]
                  ELSE buffer[w][j]]]
          /\ tail' = [tail EXCEPT ![w] = @ + Len(hand[w])]
          /\ Return(w)
     ELSE /\ Goto(w, "throw")
          /\ UNCHANGED <<tail, buffer, snap, victim, cnt, hand>>
  /\ UNCHANGED <<head, globalVars, histVars>>

-----------------------------------------------------------------------------
Step(w) ==
  \/ GlobalPop(w)
  \/ PushBegin(w) \/ PushRoom(w) \/ PushGlobal(w) \/ PushFull(w)
  \/ PushWrite(w) \/ OverflowCas(w) \/ Spill(w)
  \/ PopBegin(w) \/ PopCas(w)
  \/ \E v \in Workers : StealBegin(w, v)
  \/ StealTail(w) \/ StealCas(w) \/ StealCopy(w) \/ StealRelease(w)
  \/ StealTake(w)
  \/ PullBegin(w) \/ PullLoad(w) \/ PullPop(w) \/ PullBatch(w)

Next == GlobalClose \/ \E w \in Workers : Step(w)

Spec == Init /\ [][Next]_vars

-----------------------------------------------------------------------------
Labels == {"idle", "push", "write", "overflow", "spill", "pop", "steal_tail",
           "steal_cas", "copy", "release", "take", "pop_one", "pull_load", "pull",
           "batch", "throw"}

Heads == [steal : Nat, real : Nat]
Handles == Tasks \cup {NoTask}

\* The variables keep their types: positions, counts and sequence lengths never
\* go below zero.
TypeOK ==
  /\ head \in [Workers -> Heads]
  /\ tail \in [Workers -> Nat]
  /\ buffer \in [Workers -> [0..CAP - 1 -> Handles]]
  /\ global \in Seq(Handles)
  /\ closed \in BOOLEAN
  /\ pc \in [Workers -> Labels]
  /\ snap \in [Workers -> Heads]
  /\ victim \in [Workers -> Workers]
  /\ cnt \in [Workers -> Nat]
  /\ hand \in [Workers -> Seq(Handles)]
  /\ created \in 0..MaxTasks
  /\ runs \in [Tasks -> Nat]

\* steal <= real <= tail <= steal + CAP: the ring never holds more than its
\* capacity, the positions a thief still copies included.  The asserts of
\* remaining_slots (queue.hpp:106) and push_overflow (queue.hpp:288) and every
\* unsigned subtraction of the file depend on it.
RingBounds ==
  \A q \in Workers :
    /\ head[q].steal <= head[q].real
    /\ head[q].real <= tail[q]
    /\ tail[q] - head[q].steal <= CAP

\* push_batch never throws in get_next_task (queue.hpp:135-139): the room read
\* before the global queue's mutex is taken is still there afterwards.
BatchNeverOverflows == \A w \in Workers : pc[w] # "throw"

\* The worker is a thief between the CAS that reserves positions of its victim
\* and the CAS that gives their slots back.
Thief(w) == pc[w] \in {"copy", "release"}

\* A ring has one thief at a time, and steal differs from real exactly while
\* it has one: "Other thread is stealing" (queue.hpp:240) is never missed.
OneThief ==
  \A q \in Workers :
    /\ head[q].steal # head[q].real <=> \E w \in Workers : Thief(w) /\ victim[w] = q
    /\ \A w1, w2 \in Workers :
         Thief(w1) /\ Thief(w2) /\ victim[w1] = q /\ victim[w2] = q => w1 = w2

\* The positions of ring q whose slot holds a task waiting to be resumed:
\* published ones, those its thief has reserved and not yet copied, those it
\* has copied itself and not yet published, those push_overflow claimed.
Holding(q) ==
  (head[q].real..tail[q] - 1)
  \cup (UNION {snap[w].steal..snap[w].steal + cnt[w] - 1 :
                 w \in {w \in Workers : pc[w] = "copy" /\ victim[w] = q}})
  \cup (IF pc[q] \in {"release", "take"} THEN tail[q]..tail[q] + cnt[q] - 1 ELSE {})
  \cup (IF pc[q] = "spill"
        THEN snap[q].real..snap[q].real + CAP \div 2 - 1 ELSE {})

\* Every place where a task waits: a ring, the global queue, local variables.
Places ==
  (UNION {{<<"ring", q, i>> : i \in Holding(q)} : q \in Workers})
  \cup {<<"global", "tasks_", i>> : i \in 1..Len(global)}
  \cup (UNION {{<<"hand", w, i>> : i \in 1..Len(hand[w])} : w \in Workers})

TaskAt(p) ==
  CASE p[1] = "ring" -> buffer[p[2]][Slot(p[3])]
    [] p[1] = "global" -> global[p[3]]
    [] p[1] = "hand" -> hand[p[2]][p[3]]

\* No task is resumed twice: it waits in one place at most, and nowhere once
\* it has been returned.
NoTaskDuplicated ==
  /\ \A t \in Tasks : runs[t] <= 1
  /\ \A p \in Places : TaskAt(p) \in Tasks /\ runs[TaskAt(p)] = 0
  /\ \A p1, p2 \in Places : TaskAt(p1) = TaskAt(p2) => p1 = p2

\* No task is lost: until the runtime is closed every task handed to the
\* queues waits somewhere or has been returned to be resumed.
NoTaskLost ==
  ~closed => \A t \in 1..created : runs[t] = 1 \/ \E p \in Places : TaskAt(p) = t

\* Every task that was handed to the queues is resumed once or waits in one
\* place, whatever pushes, pops, steals and overflows overlap.
TasksConserved == NoTaskDuplicated /\ NoTaskLost
=============================================================================
