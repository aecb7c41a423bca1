-------------------------- MODULE TaskQueuesProofs --------------------------
(***************************************************************************)
(* Proofs about the run queues for any number of workers, any even         *)
(* capacity, any width of a position above it and any number of tasks: the *)
(* bounds of every ring, the single thief, that push_batch never throws,   *)
(* and that no task is lost or resumed twice.                              *)
(***************************************************************************)
EXTENDS TaskQueues, TLAPS

Half == CAP \div 2

\* The worker runs LocalQueue::steal_into.
Stealing(w) == pc[w] \in {"steal_tail", "steal_cas", "copy", "release", "take"}

\* What a worker knows of its own ring at each step, and of the head it loaded.
OwnerKnows(w) ==
  /\ pc[w] \in {"push", "write", "overflow", "spill"} => Len(hand[w]) = 1
  /\ pc[w] = "write" => tail[w] - head[w].steal < CAP
  /\ pc[w] = "overflow" => snap[w].steal = snap[w].real /\ tail[w] = snap[w].real + CAP
  /\ pc[w] = "pop" => snap[w].real < tail[w]
  /\ Stealing(w) => tail[w] - head[w].steal <= Half
  /\ pc[w] \in {"copy", "release", "take"} => cnt[w] \in 1..Half
  /\ pc[w] = "pull" => tail[w] - head[w].steal + cnt[w] <= CAP
  /\ pc[w] = "batch" => tail[w] - head[w].steal + Len(hand[w]) <= CAP
  /\ pc[w] # "throw"

\* What a thief knows of the ring of its victim: heads only grow, so the head
\* it loaded is an old one, or still the current one; and while it is copying
\* nobody but itself moves steal.
ThiefKnows(w) ==
  LET q == victim[w]
  IN  /\ pc[w] \in {"steal_tail", "steal_cas"} =>
           /\ snap[w].steal <= snap[w].real
           /\ snap[w].real <= snap[w].steal + CAP
           /\ snap[w].steal <= head[q].steal
           /\ snap[w].real <= head[q].real
      /\ pc[w] = "steal_cas" =>
           /\ snap[w].steal = snap[w].real
           /\ cnt[w] > 0
           /\ head[q] = snap[w] => cnt[w] <= tail[q] - snap[w].real /\ cnt[w] <= Half
      /\ Thief(w) =>
           /\ head[q].steal = snap[w].steal
           /\ snap[w].steal < snap[w].real
           /\ snap[w].real <= head[q].real

IInv ==
  /\ TypeOK
  /\ RingBounds
  /\ OneThief
  /\ \A w \in Workers : OwnerKnows(w) /\ ThiefKnows(w)
-----------------------------------------------------------------------------
\* Sequences of handles, joined and cut, are sequences of handles.
LEMMA Joined ==
  ASSUME NEW s \in Seq(Handles), NEW t \in Seq(Handles)
  PROVE  s \o t \in Seq(Handles)
OBVIOUS

LEMMA Cut ==
  ASSUME NEW s \in Seq(Handles), NEW m \in 1..Len(s) + 1, NEW n \in 0..Len(s)
  PROVE  /\ SubSeq(s, m, n) \in Seq(Handles)
         /\ m <= n => Len(SubSeq(s, m, n)) = n - m + 1
OBVIOUS

\* Arithmetic: positions at most CAP apart are subtracted and compared as if
\* uint32_t had no end.
LEMMA HalfProperties == Half \in Nat \ {0} /\ CAP = 2 * Half
BY CAPAssumption DEF Half

\* A position difference below the width is not changed by the wrap.
LEMMA ModSmall ==
  ASSUME NEW W \in Nat \ {0}, NEW x \in 0..W - 1
  PROVE  x % W = x
OBVIOUS

\* The uint32_t difference of positions at most CAP apart is the true one.
LEMMA SubExact ==
  ASSUME NEW a \in Int, NEW b \in Int, b <= a, a - b <= CAP
  PROVE  Sub(a, b) = a - b
<1>1. WIDTH \in Nat \ {0} /\ a - b \in 0..WIDTH - 1
  BY CAPAssumption, WIDTHAssumption
<1> QED
  BY <1>1, ModSmall, Zenon DEF Sub

\* A uint32_t difference is never negative.
LEMMA SubIsNat ==
  ASSUME NEW a \in Int, NEW b \in Int
  PROVE  Sub(a, b) \in Nat
BY CAPAssumption, WIDTHAssumption DEF Sub

\* Comparing wrapped positions at most CAP apart compares the positions.
LEMMA SameExact ==
  ASSUME NEW a \in Int, NEW b \in Int, a <= b, b - a <= CAP
  PROVE  Same(a, b) <=> a = b
BY SubExact DEF Same

\* What steal_into2 takes, k - k / 2 of k tasks, is at most half a ring
\* (queue.hpp:244-245).
LEMMA HalfOf ==
  ASSUME NEW k \in Nat
  PROVE  /\ k - k \div 2 \in Nat
         /\ k - k \div 2 <= k
         /\ k <= CAP => k - k \div 2 <= Half
BY HalfProperties

\* position & MASK is an index of buffer_.
LEMMA SlotType ==
  ASSUME NEW i \in Int
  PROVE  Slot(i) \in 0..CAP - 1
BY CAPAssumption DEF Slot

\* The distance of two slots is less than CAP.
LEMMA OffsetType ==
  ASSUME NEW i \in Int, NEW j \in Int
  PROVE  Offset(j, i) \in 0..CAP - 1
BY CAPAssumption DEF Offset

-----------------------------------------------------------------------------
\* The types of what belongs to one worker.
Typed ==
  \A w \in Workers :
    /\ head[w] \in Heads /\ head[w].steal \in Nat /\ head[w].real \in Nat
    /\ snap[w] \in Heads /\ snap[w].steal \in Nat /\ snap[w].real \in Nat
    /\ tail[w] \in Nat /\ cnt[w] \in Nat /\ victim[w] \in Workers
    /\ hand[w] \in Seq(Handles) /\ Len(hand[w]) \in Nat /\ pc[w] \in Labels

\* TypeOK gives each worker's variables their types.
LEMMA TypesHold == TypeOK => Typed
<1> SUFFICES ASSUME TypeOK PROVE Typed
  OBVIOUS
<1>1. /\ head \in [Workers -> Heads] /\ snap \in [Workers -> Heads]
      /\ tail \in [Workers -> Nat] /\ cnt \in [Workers -> Nat]
      /\ victim \in [Workers -> Workers] /\ pc \in [Workers -> Labels]
      /\ hand \in [Workers -> Seq(Handles)]
  BY Zenon DEF TypeOK
<1>2. \A h \in Heads : h.steal \in Nat /\ h.real \in Nat
  BY DEF Heads
<1>3. \A s \in Seq(Handles) : Len(s) \in Nat
  OBVIOUS
<1> HIDE DEF Heads
<1> QED
  BY <1>1, <1>2, <1>3, Zenon DEF Typed

\* The same after a step.
LEMMA TypesHoldNext == TypeOK' => Typed'
BY TypesHold, PTL

-----------------------------------------------------------------------------
\* Non-interference.  A step of w touches no local variable and no tail_ of
\* another worker, and positions only advance.
OthersUntouched(w) ==
  \A u \in Workers \ {w} :
    /\ pc'[u] = pc[u] /\ snap'[u] = snap[u] /\ victim'[u] = victim[u]
    /\ cnt'[u] = cnt[u] /\ hand'[u] = hand[u] /\ tail'[u] = tail[u]

Advance ==
  \A q \in Workers :
    /\ head[q].steal <= head'[q].steal
    /\ head[q].real <= head'[q].real
    /\ tail[q] <= tail'[q]

\* What another worker knows survives such a step, if its own reservation does.
LEMMA OthersStable ==
  ASSUME IInv, TypeOK', Advance, NEW w \in Workers, OthersUntouched(w),
         NEW u \in Workers \ {w},
         Thief(u) => head'[victim[u]].steal = head[victim[u]].steal
  PROVE  OwnerKnows(u)' /\ ThiefKnows(u)'
<1>1. /\ pc'[u] = pc[u] /\ snap'[u] = snap[u] /\ victim'[u] = victim[u]
      /\ cnt'[u] = cnt[u] /\ hand'[u] = hand[u] /\ tail'[u] = tail[u]
  BY Zenon DEF OthersUntouched
<1>2. Typed /\ Typed'
  BY TypesHold, TypesHoldNext, Zenon DEF IInv
<1>3. OwnerKnows(u) /\ ThiefKnows(u)
  BY Zenon DEF IInv
<1>4. OwnerKnows(u)'
  <2>1. /\ tail[u] \in Nat /\ cnt[u] \in Nat /\ Len(hand[u]) \in Nat
        /\ head[u].steal \in Nat /\ head'[u].steal \in Nat
        /\ head[u].steal <= head'[u].steal
    BY <1>2, Zenon DEF Typed, Advance
  <2> QED
    BY <1>1, <1>3, <2>1, HalfProperties, SMTT(30) DEF OwnerKnows, Stealing
<1>5. ThiefKnows(u)'
  <2> DEFINE q == victim[u]
  <2>1. /\ q \in Workers /\ head[q] \in Heads /\ head'[q] \in Heads /\ snap[u] \in Heads
        /\ {head[q].steal, head[q].real, head'[q].steal, head'[q].real} \subseteq Nat
        /\ {snap[u].steal, snap[u].real, tail[q], tail'[q], cnt[u]} \subseteq Nat
        /\ head[q].steal <= head'[q].steal /\ head[q].real <= head'[q].real
        /\ tail[q] <= tail'[q]
    BY <1>2, Zenon DEF Typed, Advance
  <2> HIDE DEF q
  <2>2. ASSUME pc[u] \in {"steal_tail", "steal_cas"}, head'[q] = snap[u]
        PROVE  head[q] = snap[u]
    <3>1. snap[u].steal <= head[q].steal /\ snap[u].real <= head[q].real
      BY <1>3, <2>2, Zenon DEF ThiefKnows, q
    <3> QED
      BY <2>1, <2>2, <3>1 DEF Heads
  <2>3. pc[u] \in {"steal_tail", "steal_cas"} =>
           /\ snap[u].steal <= snap[u].real
           /\ snap[u].real <= snap[u].steal + CAP
           /\ snap[u].steal <= head'[q].steal
           /\ snap[u].real <= head'[q].real
    BY <1>3, <2>1 DEF ThiefKnows, q
  <2>4. pc[u] = "steal_cas" =>
           /\ snap[u].steal = snap[u].real
           /\ cnt[u] > 0
           /\ head'[q] = snap[u] => cnt[u] <= tail'[q] - snap[u].real /\ cnt[u] <= Half
    BY <1>3, <2>1, <2>2, HalfProperties DEF ThiefKnows, q
  <2>5. Thief(u) =>
           /\ head'[q].steal = snap[u].steal
           /\ snap[u].steal < snap[u].real
           /\ snap[u].real <= head'[q].real
    BY <1>3, <2>1 DEF ThiefKnows, q
  <2> QED
    BY <1>1, <2>3, <2>4, <2>5, Zenon DEF ThiefKnows, Thief, q
<1> QED
  BY <1>4, <1>5, Zenon

\* The three kinds of steps: on local variables only...
LEMMA LocalStep ==
  ASSUME IInv, TypeOK', NEW w \in Workers, OthersUntouched(w),
         head' = head, tail' = tail, OwnerKnows(w)', ThiefKnows(w)',
         Thief(w)' <=> Thief(w), Thief(w) => victim'[w] = victim[w]
  PROVE  IInv'
<1>1. Advance
  BY TypesHold DEF IInv, Typed, Advance
<1>2. \A u \in Workers : OwnerKnows(u)' /\ ThiefKnows(u)'
  BY <1>1, OthersStable, Zenon
<1>3. RingBounds'
  BY Zenon DEF IInv, RingBounds
<1>4. \A u \in Workers : (Thief(u)' <=> Thief(u)) /\ (Thief(u) => victim'[u] = victim[u])
  BY Zenon DEF OthersUntouched, Thief
<1>5. OneThief'
  BY <1>4, Zenon DEF IInv, OneThief
<1> QED
  BY <1>2, <1>3, <1>5, Zenon DEF IInv

\* ...that publish tasks at the tail and return...
LEMMA TailStep ==
  ASSUME IInv, TypeOK', NEW w \in Workers, OthersUntouched(w),
         head' = head, tail[w] <= tail'[w], tail'[w] - head[w].steal <= CAP,
         pc'[w] = "idle", ~Thief(w)
  PROVE  IInv'
<1>1. Advance
  BY TypesHold DEF IInv, Typed, Advance, OthersUntouched
<1>2. OwnerKnows(w)' /\ ThiefKnows(w)'
  BY Zenon DEF OwnerKnows, ThiefKnows, Stealing, Thief
<1>3. \A u \in Workers : OwnerKnows(u)' /\ ThiefKnows(u)'
  BY <1>1, <1>2, OthersStable, Zenon
<1>4. RingBounds'
  BY TypesHold, TypesHoldNext DEF IInv, Typed, RingBounds, OthersUntouched
<1>5. \A u \in Workers : (Thief(u)' <=> Thief(u)) /\ (Thief(u) => victim'[u] = victim[u])
  BY Zenon DEF OthersUntouched, Thief
<1>6. OneThief'
  BY <1>5, Zenon DEF IInv, OneThief
<1> QED
  BY <1>3, <1>4, <1>6, Zenon DEF IInv

\* ...and that move one head, which takes no reservation from another thief.
LEMMA HeadStep ==
  ASSUME IInv, TypeOK', NEW w \in Workers, OthersUntouched(w), tail' = tail,
         NEW q \in Workers, NEW h \in Heads, head' = [head EXCEPT ![q] = h],
         head[q].steal <= h.steal, head[q].real <= h.real,
         h.steal <= h.real, h.real <= tail[q],
         \A u \in Workers \ {w} : Thief(u) /\ victim[u] = q => h.steal = head[q].steal,
         OneThief', OwnerKnows(w)', ThiefKnows(w)'
  PROVE  IInv'
<1>1. \A p \in Workers : head'[p] = IF p = q THEN h ELSE head[p]
  BY Zenon DEF IInv, TypeOK
<1>2. Advance
  BY <1>1, TypesHold DEF IInv, Typed, Advance
<1>3. \A u \in Workers \ {w} : Thief(u) => head'[victim[u]].steal = head[victim[u]].steal
  BY <1>1, Zenon DEF IInv, TypeOK
<1>4. \A u \in Workers : OwnerKnows(u)' /\ ThiefKnows(u)'
  BY <1>2, <1>3, OthersStable, Zenon
<1>5. RingBounds'
  BY <1>1, TypesHold, TypesHoldNext, CAPAssumption DEF IInv, Typed, RingBounds
<1> QED
  BY <1>4, <1>5, Zenon DEF IInv

-----------------------------------------------------------------------------
\* The variables keep their types, one lemma per building block of the actions.
LEMMA RunType ==
  ASSUME TypeOK, NEW t, Run(t)
  PROVE  runs' \in [Tasks -> Nat]
<1>1. runs \in [Tasks -> Nat] /\ runs' = [runs EXCEPT ![t] = runs[t] + 1]
  BY Zenon DEF TypeOK, Run
<1>2. CASE t \in Tasks
  BY <1>1, <1>2
<1>3. CASE t \notin Tasks
  BY <1>1, <1>3, Zenon
<1> QED
  BY <1>2, <1>3, Zenon

\* A worker that moves on keeps pc well typed.
LEMMA GotoType ==
  ASSUME TypeOK, NEW w \in Workers, NEW label \in Labels, Goto(w, label)
  PROVE  pc' \in [Workers -> Labels]
BY Zenon DEF TypeOK, Goto

\* pack(steal, real) is a head (queue.hpp:328-330).
LEMMA PackedType ==
  ASSUME NEW a \in Nat, NEW b \in Nat
  PROVE  Packed(a, b) \in Heads /\ Packed(a, b).steal = a /\ Packed(a, b).real = b
BY Zenon DEF Packed, Heads

\* Leaving an operation of the queue resets the local variables to their types.
LEMMA ReturnType ==
  ASSUME TypeOK, NEW w \in Workers, Return(w)
  PROVE  /\ pc' \in [Workers -> Labels] /\ snap' \in [Workers -> Heads]
         /\ victim' \in [Workers -> Workers] /\ cnt' \in [Workers -> Nat]
         /\ hand' \in [Workers -> Seq(Handles)]
<1>1. pc' \in [Workers -> Labels]
  BY GotoType, Zenon DEF Return, Labels
<1>2. snap' \in [Workers -> Heads]
  BY PackedType, Zenon DEF Return, TypeOK
<1> QED
  BY <1>1, <1>2 DEF Return, TypeOK

\* GlobalQueue::push and push_batch keep the global queue a sequence of tasks.
LEMMA GlobalPushType ==
  ASSUME TypeOK, NEW tasks \in Seq(Handles), GlobalPush(tasks)
  PROVE  global' \in Seq(Handles)
BY Joined, Zenon DEF TypeOK, GlobalPush

\* The load of head_ and the comparison with tail_ in pop() keep the types.
LEMMA PopLoadType ==
  ASSUME TypeOK, NEW w \in Workers, PopLoad(w)
  PROVE  TypeOK'
<1>1. CASE Return(w)
  BY <1>1, ReturnType, Zenon DEF PopLoad, TypeOK, queueVars, globalVars, histVars
<1>2. CASE ~Return(w)
  <2>1. snap' \in [Workers -> Heads] /\ pc' \in [Workers -> Labels]
    BY <1>2, GotoType, Zenon DEF PopLoad, TypeOK, Labels
  <2> QED
    BY <1>2, <2>1, Zenon DEF PopLoad, TypeOK, queueVars, globalVars, histVars
<1> QED
  BY <1>1, <1>2, Zenon

\* Every step of every worker preserves TypeOK.
LEMMA NextType == IInv /\ [Next]_vars => TypeOK'
<1> SUFFICES ASSUME IInv, [Next]_vars PROVE TypeOK'
  BY Zenon
<1> USE DEF IInv
<1>1. CASE GlobalClose
  BY <1>1, Zenon DEF GlobalClose, TypeOK, queueVars, localVars, histVars
<1>2. ASSUME NEW w \in Workers, GlobalPop(w) PROVE TypeOK'
  <2>1. global' \in Seq(Handles)
    <3>1. global \in Seq(Handles)
      BY Zenon DEF TypeOK
    <3> QED
      BY <1>2, <3>1 DEF GlobalPop
  <2>2. runs' \in [Tasks -> Nat]
    BY <1>2, RunType, Zenon DEF GlobalPop, TypeOK
  <2> QED
    BY <1>2, <2>1, <2>2, ReturnType, Zenon DEF GlobalPop, TypeOK, queueVars
<1>3. ASSUME NEW w \in Workers, PushBegin(w) PROVE TypeOK'
  <2>1. created' \in 0..MaxTasks /\ <<created + 1>> \in Seq(Handles)
    BY <1>3, MaxTasksAssumption DEF PushBegin, TypeOK, Handles, Tasks
  <2>2. hand' \in [Workers -> Seq(Handles)]
    BY <1>3, <2>1, Zenon DEF PushBegin, TypeOK
  <2> QED
    BY <1>3, <2>1, <2>2, GotoType, Zenon DEF PushBegin, TypeOK, queueVars, globalVars, Labels
<1>4. ASSUME NEW w \in Workers, PushRoom(w) PROVE TypeOK'
  BY <1>4, GotoType, Zenon DEF PushRoom, TypeOK, queueVars, globalVars, histVars, Labels
<1>5. ASSUME NEW w \in Workers, PushGlobal(w) PROVE TypeOK'
  <2>1. global' \in Seq(Handles)
    BY <1>5, GlobalPushType, Zenon DEF PushGlobal, TypeOK
  <2> QED
    BY <1>5, <2>1, ReturnType, Zenon DEF PushGlobal, TypeOK, queueVars, histVars
<1>6. ASSUME NEW w \in Workers, PushFull(w) PROVE TypeOK'
  <2>1. snap' \in [Workers -> Heads]
    BY <1>6, Zenon DEF PushFull, TypeOK
  <2> QED
    BY <1>6, <2>1, GotoType, Zenon DEF PushFull, TypeOK, queueVars, globalVars, histVars, Labels
<1>7. ASSUME NEW w \in Workers, PushWrite(w) PROVE TypeOK'
  <2>1. hand[w][1] \in Handles
    BY <1>7 DEF PushWrite, TypeOK, OwnerKnows
  <2>2. buffer' \in [Workers -> [0..CAP - 1 -> Handles]]
    BY <1>7, <2>1, Zenon DEF PushWrite, TypeOK
  <2>3. tail' \in [Workers -> Nat]
    BY <1>7 DEF PushWrite, TypeOK
  <2> QED
    BY <1>7, <2>2, <2>3, ReturnType, Zenon DEF PushWrite, TypeOK, globalVars, histVars
<1>8. ASSUME NEW w \in Workers, OverflowCas(w) PROVE TypeOK'
  <2>1. snap[w].real + CAP \div 2 \in Nat
    BY TypesHold, HalfProperties DEF Typed, Half
  <2>2. head' \in [Workers -> Heads]
    <3>1. head \in [Workers -> Heads]
      BY Zenon DEF TypeOK
    <3>2. Packed(snap[w].real + CAP \div 2, snap[w].real + CAP \div 2) \in Heads
      BY <2>1, PackedType, Zenon
    <3> QED
      BY <1>8, <3>1, <3>2, Zenon DEF OverflowCas
  <2>3. pc' \in [Workers -> Labels]
    BY <1>8, GotoType, Zenon DEF OverflowCas, Labels
  <2> QED
    BY <1>8, <2>2, <2>3, Zenon DEF OverflowCas, TypeOK, globalVars, histVars
<1>9. ASSUME NEW w \in Workers, Spill(w) PROVE TypeOK'
  <2> DEFINE claimed == [i \in 1..CAP \div 2 |-> buffer[w][Slot(snap[w].real + i - 1)]]
  <2>1. claimed \in Seq(Handles)
    <3>1. ASSUME NEW i \in 1..CAP \div 2
          PROVE  buffer[w][Slot(snap[w].real + i - 1)] \in Handles
      <4>1. Slot(snap[w].real + i - 1) \in 0..CAP - 1
        <5>1. snap[w].real + i - 1 \in Int
          BY TypesHold DEF Typed
        <5> QED BY <5>1, SlotType
      <4>2. buffer[w] \in [0..CAP - 1 -> Handles]
        BY Zenon DEF TypeOK
      <4> QED BY <4>1, <4>2, Zenon
    <3>2. CAP \div 2 \in Nat
      BY HalfProperties, Zenon DEF Half
    <3> QED BY <3>1, <3>2
  <2>2. hand[w] \in Seq(Handles)
    BY Zenon DEF TypeOK
  <2> HIDE DEF claimed
  <2>3. claimed \o hand[w] \in Seq(Handles)
    BY <2>1, <2>2, Joined, Zenon
  <2>4. global' \in Seq(Handles)
    BY <1>9, <2>3, GlobalPushType, Zenon DEF Spill, claimed
  <2> QED
    BY <1>9, <2>4, ReturnType, Zenon DEF Spill, TypeOK, queueVars, histVars
<1>10. ASSUME NEW w \in Workers, PopBegin(w) PROVE TypeOK'
  BY <1>10, PopLoadType, Zenon DEF PopBegin
<1>11. ASSUME NEW w \in Workers, PopCas(w) PROVE TypeOK'
  <2>1. CASE PopLoad(w)
    BY <2>1, PopLoadType, Zenon
  <2>2. CASE ~PopLoad(w)
    <3>1. snap[w].real + 1 \in Nat /\ snap[w].steal \in Nat
      BY TypesHold DEF Typed
    <3>2. head' \in [Workers -> Heads]
      <4>1. head \in [Workers -> Heads]
        BY Zenon DEF TypeOK
      <4>2. /\ Packed(snap[w].real + 1, snap[w].real + 1) \in Heads
            /\ Packed(snap[w].steal, snap[w].real + 1) \in Heads
        BY <3>1, PackedType, Zenon
      <4> QED
        BY <1>11, <2>2, <4>1, <4>2, Zenon DEF PopCas
    <3>3. runs' \in [Tasks -> Nat]
      BY <1>11, <2>2, RunType, Zenon DEF PopCas
    <3> QED
      BY <1>11, <2>2, <3>2, <3>3, ReturnType, Zenon DEF PopCas, TypeOK, globalVars
  <2> QED BY <2>1, <2>2
<1>12. ASSUME NEW w \in Workers, NEW v \in Workers, StealBegin(w, v) PROVE TypeOK'
  <2>1. /\ victim' \in [Workers -> Workers] /\ snap' \in [Workers -> Heads]
        /\ pc' \in [Workers -> Labels]
    BY <1>12, GotoType, Zenon DEF StealBegin, TypeOK, Labels
  <2> QED
    BY <1>12, <2>1, Zenon DEF StealBegin, TypeOK, queueVars, globalVars, histVars
<1>13. ASSUME NEW w \in Workers, StealTail(w) PROVE TypeOK'
  <2> DEFINE k == Sub(tail[victim[w]], snap[w].real)
  <2>1. k \in Nat
    <3>1. tail[victim[w]] \in Int /\ snap[w].real \in Int
      BY TypesHold DEF Typed
    <3> QED BY <3>1, SubIsNat, Zenon
  <2> HIDE DEF k
  <2>2. k - k \div 2 \in Nat
    BY <2>1, HalfOf, Zenon
  <2>3. CASE Return(w)
    BY <1>13, <2>3, ReturnType, Zenon DEF StealTail, TypeOK, queueVars, globalVars, histVars
  <2>4. CASE ~Return(w)
    <3>1. cnt' \in [Workers -> Nat] /\ pc' \in [Workers -> Labels]
      BY <1>13, <2>2, <2>4, GotoType, Zenon DEF StealTail, TypeOK, Labels, k
    <3> QED
      BY <1>13, <2>4, <3>1, Zenon DEF StealTail, TypeOK, queueVars, globalVars, histVars
  <2> QED BY <2>3, <2>4
<1>14. ASSUME NEW w \in Workers, StealCas(w) PROVE TypeOK'
  <2>1. /\ snap[w].steal \in Nat /\ snap[w].real + cnt[w] \in Nat
        /\ victim[w] \in Workers /\ head[victim[w]] \in Heads
    BY TypesHold DEF Typed
  <2>2. head' \in [Workers -> Heads] /\ snap' \in [Workers -> Heads]
    <3>1. head \in [Workers -> Heads] /\ snap \in [Workers -> Heads]
      BY Zenon DEF TypeOK
    <3>2. Packed(snap[w].steal, snap[w].real + cnt[w]) \in Heads
      BY <2>1, PackedType, Zenon
    <3> QED
      BY <1>14, <2>1, <3>1, <3>2 DEF StealCas
  <2>3. pc' \in [Workers -> Labels]
    BY <1>14, GotoType, Zenon DEF StealCas, Labels
  <2> QED
    BY <1>14, <2>2, <2>3, Zenon DEF StealCas, TypeOK, globalVars, histVars
<1>15. ASSUME NEW w \in Workers, StealCopy(w) PROVE TypeOK'
  <2>1. ASSUME NEW j \in 0..CAP - 1
        PROVE  buffer[victim[w]][Slot(snap[w].steal + Offset(j, tail[w]))] \in Handles
    <3>1. Offset(j, tail[w]) \in 0..CAP - 1
      <4>1. tail[w] \in Nat
        BY TypesHold, Zenon DEF Typed
      <4>2. tail[w] \in Int /\ j \in Int
        BY <4>1, CAPAssumption
      <4> QED
        BY <4>2, OffsetType, Zenon
    <3>2. Slot(snap[w].steal + Offset(j, tail[w])) \in 0..CAP - 1
      <4>1. snap[w].steal + Offset(j, tail[w]) \in Int
        BY <3>1, TypesHold, CAPAssumption DEF Typed
      <4> QED BY <4>1, SlotType
    <3>3. buffer[victim[w]] \in [0..CAP - 1 -> Handles]
      BY Zenon DEF TypeOK
    <3> QED BY <3>2, <3>3, Zenon
  <2>2. buffer' \in [Workers -> [0..CAP - 1 -> Handles]]
    <3> DEFINE b == [j \in 0..CAP - 1 |->
                       IF Offset(j, tail[w]) < cnt[w]
                       THEN buffer[victim[w]][Slot(snap[w].steal + Offset(j, tail[w]))]
                       ELSE buffer[w][j]]
    <3>1. buffer \in [Workers -> [0..CAP - 1 -> Handles]]
      BY Zenon DEF TypeOK
    <3>2. \A j \in 0..CAP - 1 : b[j] \in Handles
      BY <2>1, <3>1, Zenon
    <3>3. b \in [0..CAP - 1 -> Handles]
      BY <3>2, Zenon
    <3>4. buffer' = [buffer EXCEPT ![w] = b]
      BY <1>15, Zenon DEF StealCopy
    <3> HIDE DEF b
    <3> QED BY <3>1, <3>3, <3>4, Zenon
  <2> QED
    BY <1>15, <2>2, GotoType, Zenon DEF StealCopy, TypeOK, globalVars, histVars, Labels
<1>16. ASSUME NEW w \in Workers, StealRelease(w) PROVE TypeOK'
  <2>1. snap[w].real \in Nat /\ victim[w] \in Workers /\ head[victim[w]] \in Heads
    BY TypesHold, Zenon DEF Typed
  <2>2. head' \in [Workers -> Heads] /\ snap' \in [Workers -> Heads]
    <3>1. head \in [Workers -> Heads] /\ snap \in [Workers -> Heads]
      BY Zenon DEF TypeOK
    <3>2. Packed(snap[w].real, snap[w].real) \in Heads
      BY <2>1, PackedType, Zenon
    <3> QED
      BY <1>16, <2>1, <3>1, <3>2, Zenon DEF StealRelease
  <2>3. pc' \in [Workers -> Labels]
    BY <1>16, GotoType, Zenon DEF StealRelease, TypeOK, Labels
  <2> QED
    BY <1>16, <2>2, <2>3, Zenon DEF StealRelease, TypeOK, globalVars, histVars
<1>17. ASSUME NEW w \in Workers, StealTake(w) PROVE TypeOK'
  <2>1. tail[w] + (cnt[w] - 1) \in Nat
    BY <1>17, TypesHold, HalfProperties DEF StealTake, Typed, OwnerKnows
  <2>2. tail' \in [Workers -> Nat]
    BY <1>17, <2>1, Zenon DEF StealTake, TypeOK
  <2>3. runs' \in [Tasks -> Nat]
    BY <1>17, RunType, Zenon DEF StealTake
  <2> QED
    BY <1>17, <2>2, <2>3, ReturnType, Zenon DEF StealTake, TypeOK, globalVars
<1>18. ASSUME NEW w \in Workers, PullBegin(w) PROVE TypeOK'
  BY <1>18, GotoType, Zenon DEF PullBegin, TypeOK, queueVars, globalVars, histVars, Labels
<1>19. ASSUME NEW w \in Workers, PullLoad(w) PROVE TypeOK'
  <2> DEFINE room == CAP - Sub(tail[w], head[w].steal)
             share == Len(global) \div Cardinality(Workers) + 1
             n == Lesser(room, CAP \div 2)
  <2>1. room \in Nat
    <3>1. /\ tail[w] \in Nat /\ head[w].steal \in Nat
          /\ head[w].steal <= tail[w] /\ tail[w] - head[w].steal <= CAP
      BY TypesHold DEF Typed, RingBounds
    <3>2. Sub(tail[w], head[w].steal) = tail[w] - head[w].steal
      BY <3>1, SubExact
    <3> QED BY <3>1, <3>2, CAPAssumption
  <2>2. share \in Nat
    <3>1. Len(global) \in Nat /\ Cardinality(Workers) \in Nat \ {0}
      BY WorkersAssumption DEF TypeOK
    <3> QED BY <3>1
  <2> HIDE DEF room, share
  <2>3. n \in Nat /\ Lesser(share, n) \in Nat
    BY <2>1, <2>2, HalfProperties, Zenon DEF Lesser, Half
  <2>4. cnt' \in [Workers -> Nat] /\ pc' \in [Workers -> Labels]
    BY <1>19, <2>3, GotoType, Zenon DEF PullLoad, TypeOK, Labels, room, share
  <2> QED
    BY <1>19, <2>4, Zenon DEF PullLoad, TypeOK, queueVars, globalVars, histVars
<1>20. ASSUME NEW w \in Workers, PullPop(w) PROVE TypeOK'
  <2> DEFINE n == Lesser(Len(global), cnt[w])
  <2>1. Len(global) \in Nat /\ n \in Nat /\ n <= Len(global)
    BY TypesHold DEF TypeOK, Typed, Lesser
  <2>2. \A i \in 1..Len(global) : global[i] \in Handles
    BY DEF TypeOK
  <2> HIDE DEF n
  <2>3. global' \in Seq(Handles)
    <3>1. SubSeq(global, n + 1, Len(global)) \in Seq(Handles)
      BY <2>1, <2>2, Cut
    <3> QED BY <1>20, <3>1 DEF PullPop, n
  <2>4. SubSeq(global, 2, n) \in Seq(Handles)
    BY <2>1, <2>2, Cut
  <2>5. runs' \in [Tasks -> Nat]
    BY <1>20, RunType, Zenon DEF PullPop, TypeOK
  <2>6. CASE Return(w)
    BY <1>20, <2>3, <2>5, <2>6, ReturnType, Zenon DEF PullPop, TypeOK, queueVars
  <2>7. CASE ~Return(w)
    <3>1. hand' \in [Workers -> Seq(Handles)] /\ pc' \in [Workers -> Labels]
      BY <1>20, <2>4, <2>7, GotoType, Zenon DEF PullPop, TypeOK, Labels, n
    <3> QED
      BY <1>20, <2>3, <2>5, <2>7, <3>1, Zenon DEF PullPop, TypeOK, queueVars
  <2> QED BY <2>6, <2>7
<1>21. ASSUME NEW w \in Workers, PullBatch(w) PROVE TypeOK'
  <2>1. ASSUME NEW j \in 0..CAP - 1, Offset(j, tail[w]) < Len(hand[w])
        PROVE  hand[w][Offset(j, tail[w]) + 1] \in Handles
    <3>1. Offset(j, tail[w]) \in 0..CAP - 1
      <4>1. tail[w] \in Nat
        BY TypesHold, Zenon DEF Typed
      <4>2. tail[w] \in Int /\ j \in Int
        BY <4>1, CAPAssumption
      <4> QED
        BY <4>2, OffsetType, Zenon
    <3>2. Offset(j, tail[w]) + 1 \in 1..Len(hand[w])
      BY <2>1, <3>1, TypesHold, CAPAssumption DEF Typed
    <3> QED BY <3>2 DEF TypeOK
  <2>2. buffer' \in [Workers -> [0..CAP - 1 -> Handles]]
    <3> DEFINE b == [j \in 0..CAP - 1 |->
                       IF Offset(j, tail[w]) < Len(hand[w])
                       THEN hand[w][Offset(j, tail[w]) + 1]
                       ELSE buffer[w][j]]
    <3>1. buffer \in [Workers -> [0..CAP - 1 -> Handles]]
      BY Zenon DEF TypeOK
    <3>2. b \in [0..CAP - 1 -> Handles]
      BY <2>1, <3>1, Zenon
    <3>3. buffer' = IF BatchFits(w) THEN [buffer EXCEPT ![w] = b] ELSE buffer
      BY <1>21, Zenon DEF PullBatch
    <3> HIDE DEF b
    <3> QED
      BY <3>1, <3>2, <3>3, Zenon
  <2>3. tail' \in [Workers -> Nat]
    <3>1. tail \in [Workers -> Nat] /\ tail[w] \in Nat /\ Len(hand[w]) \in Nat
      BY TypesHold, Zenon DEF TypeOK, Typed
    <3>2. tail[w] + Len(hand[w]) \in Nat
      BY <3>1
    <3> QED
      BY <1>21, <3>1, <3>2, Zenon DEF PullBatch
  <2>4. CASE BatchFits(w)
    BY <1>21, <2>2, <2>3, <2>4, ReturnType, Zenon DEF PullBatch, TypeOK, globalVars, histVars
  <2>5. CASE ~BatchFits(w)
    BY <1>21, <2>2, <2>3, <2>5, GotoType, Zenon DEF PullBatch, TypeOK, globalVars, histVars,
       Labels
  <2> QED BY <2>4, <2>5
<1>22. CASE UNCHANGED vars
  BY <1>22, Zenon DEF vars, queueVars, globalVars, localVars, histVars, TypeOK
<1> QED
  BY <1>1, <1>2, <1>3, <1>4, <1>5, <1>6, <1>7, <1>8, <1>9, <1>10, <1>11, <1>12, <1>13, <1>14,
     <1>15, <1>16, <1>17, <1>18, <1>19, <1>20, <1>21, <1>22, Zenon DEF Next, Step

-----------------------------------------------------------------------------
\* A worker that returns from the queue code knows nothing any more.
LEMMA ReturnUntouched ==
  ASSUME TypeOK, NEW w \in Workers, Return(w),
         \A u \in Workers \ {w} : tail'[u] = tail[u]
  PROVE  OthersUntouched(w) /\ pc'[w] = "idle"
BY Zenon DEF TypeOK, Return, Goto, OthersUntouched

\* A step in which an operation returns without touching a ring preserves IInv.
LEMMA ReturnStep ==
  ASSUME IInv, TypeOK', NEW w \in Workers, Return(w), head' = head, tail' = tail, ~Thief(w)
  PROVE  IInv'
<1>1. OthersUntouched(w) /\ pc'[w] = "idle"
  BY ReturnUntouched, Zenon DEF IInv
<1>2. OwnerKnows(w)' /\ ThiefKnows(w)' /\ ~Thief(w)'
  BY <1>1, Zenon DEF OwnerKnows, ThiefKnows, Stealing, Thief
<1> QED
  BY <1>1, <1>2, LocalStep, Zenon

\* The bounds of the ring of one worker, and what its uint32_t tests mean.
LEMMA RingFacts ==
  ASSUME IInv, NEW w \in Workers
  PROVE  /\ tail[w] \in Nat /\ head[w].steal \in Nat /\ head[w].real \in Nat
         /\ head[w].steal <= head[w].real /\ head[w].real <= tail[w]
         /\ tail[w] - head[w].steal <= CAP
         /\ Sub(tail[w], head[w].steal) = tail[w] - head[w].steal
         /\ Same(head[w].steal, head[w].real) <=> head[w].steal = head[w].real
         /\ Same(head[w].real, tail[w]) <=> head[w].real = tail[w]
<1>1. /\ tail[w] \in Nat /\ head[w].steal \in Nat /\ head[w].real \in Nat
      /\ head[w].steal <= head[w].real /\ head[w].real <= tail[w]
      /\ tail[w] - head[w].steal <= CAP
  BY TypesHold, Zenon DEF IInv, Typed, RingBounds
<1>2. /\ head[w].steal <= tail[w] /\ head[w].real - head[w].steal <= CAP
      /\ tail[w] - head[w].real <= CAP
  BY <1>1, CAPAssumption
<1>3. Sub(tail[w], head[w].steal) = tail[w] - head[w].steal
  BY <1>1, <1>2, SubExact
<1>4. Same(head[w].steal, head[w].real) <=> head[w].steal = head[w].real
  BY <1>1, <1>2, SameExact
<1>5. Same(head[w].real, tail[w]) <=> head[w].real = tail[w]
  BY <1>1, <1>2, SameExact
<1> QED
  BY <1>1, <1>3, <1>4, <1>5, Zenon

\* While nobody else is a thief of ring q, equal halves of its head mean that
\* there is no thief at all.
LEMMA NoThief ==
  ASSUME IInv, NEW q \in Workers, head[q].steal = head[q].real
  PROVE  \A u \in Workers : ~(Thief(u) /\ victim[u] = q)
BY Zenon DEF IInv, OneThief

\* The load of head_ in pop() preserves IInv (queue.hpp:178-185).
LEMMA PopLoadStep ==
  ASSUME IInv, TypeOK', NEW w \in Workers, PopLoad(w), ~Thief(w)
  PROVE  IInv'
<1>1. head' = head /\ tail' = tail
  BY Zenon DEF PopLoad, queueVars
<1>2. CASE Same(head[w].real, tail[w])
  BY <1>1, <1>2, ReturnStep, Zenon DEF PopLoad
<1>3. CASE ~Same(head[w].real, tail[w])
  <2>1. /\ OthersUntouched(w) /\ pc'[w] = "pop" /\ snap'[w] = head[w]
    BY <1>1, <1>3 DEF PopLoad, Goto, OthersUntouched, IInv, TypeOK
  <2>2. head[w].real < tail[w]
    BY <1>3, RingFacts
  <2>3. OwnerKnows(w)' /\ ThiefKnows(w)' /\ ~Thief(w)'
    BY <1>1, <2>1, <2>2, Zenon DEF OwnerKnows, ThiefKnows, Stealing, Thief
  <2> QED
    BY <1>1, <2>1, <2>3, LocalStep, Zenon
<1> QED
  BY <1>2, <1>3, Zenon

\* The pushing, popping and pulling actions keep the invariant.
LEMMA PushPopPull ==
  ASSUME IInv, TypeOK', NEW w \in Workers,
         \/ GlobalPop(w) \/ PushBegin(w) \/ PushRoom(w) \/ PushGlobal(w) \/ PushFull(w)
         \/ PushWrite(w) \/ Spill(w) \/ PopBegin(w)
         \/ PullBegin(w) \/ PullLoad(w) \/ PullPop(w) \/ PullBatch(w)
  PROVE  IInv'
<1> USE DEF queueVars, globalVars, histVars
<1>r. /\ tail[w] \in Nat /\ head[w].steal \in Nat /\ head[w].real \in Nat
      /\ head[w].steal <= head[w].real /\ head[w].real <= tail[w]
      /\ tail[w] - head[w].steal <= CAP
      /\ Sub(tail[w], head[w].steal) = tail[w] - head[w].steal
  BY RingFacts, Zenon
<1>1. CASE GlobalPop(w)
  BY <1>1, ReturnStep, Zenon DEF GlobalPop, Thief
<1>2. CASE PushBegin(w)
  <2>1. OthersUntouched(w) /\ pc'[w] = "push" /\ hand'[w] = <<created + 1>>
    BY <1>2, Zenon DEF PushBegin, Goto, OthersUntouched, IInv, TypeOK
  <2>2. OwnerKnows(w)' /\ ThiefKnows(w)' /\ ~Thief(w)' /\ ~Thief(w)
    BY <1>2, <2>1, Zenon DEF PushBegin, OwnerKnows, ThiefKnows, Stealing, Thief
  <2> QED
    BY <1>2, <2>1, <2>2, LocalStep, Zenon DEF PushBegin
<1>3. CASE PushRoom(w)
  <2>1. OthersUntouched(w) /\ pc'[w] = "write" /\ hand'[w] = hand[w] /\ pc[w] = "push"
    BY <1>3, Zenon DEF PushRoom, Goto, OthersUntouched, IInv, TypeOK
  <2>2. tail'[w] - head'[w].steal < CAP /\ Len(hand'[w]) = 1
    BY <1>3, <2>1, RingFacts, Zenon DEF PushRoom, HasRoom, IInv, OwnerKnows
  <2>3. OwnerKnows(w)' /\ ThiefKnows(w)' /\ ~Thief(w)' /\ ~Thief(w)
    BY <2>1, <2>2, Zenon DEF OwnerKnows, ThiefKnows, Stealing, Thief
  <2> QED
    BY <1>3, <2>1, <2>3, LocalStep, Zenon DEF PushRoom
<1>4. CASE PushGlobal(w)
  BY <1>4, ReturnStep, Zenon DEF PushGlobal, Thief
<1>5. CASE PushFull(w)
  <2>1. /\ OthersUntouched(w) /\ pc'[w] = "overflow" /\ hand'[w] = hand[w] /\ pc[w] = "push"
        /\ snap'[w] = head[w] /\ tail' = tail /\ head' = head
    BY <1>5, Zenon DEF PushFull, Goto, OthersUntouched, IInv, TypeOK
  <2>2. head[w].steal = head[w].real /\ tail[w] = head[w].real + CAP
    <3>1. ~(tail[w] - head[w].steal < CAP) /\ head[w].steal = head[w].real
      BY <1>5, RingFacts, Zenon DEF PushFull, HasRoom
    <3>2. /\ tail[w] \in Nat /\ head[w].steal \in Nat /\ head[w].real \in Nat
          /\ tail[w] - head[w].steal <= CAP
      BY RingFacts, Zenon
    <3> QED
      BY <3>1, <3>2, CAPAssumption
  <2>3. Len(hand'[w]) = 1
    BY <2>1, Zenon DEF IInv, OwnerKnows
  <2>4. OwnerKnows(w)' /\ ThiefKnows(w)' /\ ~Thief(w)' /\ ~Thief(w)
    BY <2>1, <2>2, <2>3, Zenon DEF OwnerKnows, ThiefKnows, Stealing, Thief
  <2> QED
    BY <2>1, <2>4, LocalStep, Zenon
<1>6. CASE PushWrite(w)
  <2>1. /\ tail'[w] = tail[w] + 1 /\ \A u \in Workers \ {w} : tail'[u] = tail[u]
        /\ head' = head /\ ~Thief(w) /\ tail[w] - head[w].steal < CAP
    BY <1>6, Zenon DEF PushWrite, IInv, TypeOK, Thief, OwnerKnows
  <2>2. tail[w] <= tail'[w] /\ tail'[w] - head[w].steal <= CAP
    BY <2>1, <1>r, CAPAssumption
  <2>3. OthersUntouched(w) /\ pc'[w] = "idle"
    BY <1>6, <2>1, ReturnUntouched, Zenon DEF PushWrite, IInv
  <2> QED
    BY <2>1, <2>2, <2>3, TailStep, Zenon
<1>7. CASE Spill(w)
  BY <1>7, ReturnStep, Zenon DEF Spill, Thief
<1>8. CASE PopBegin(w)
  BY <1>8, PopLoadStep, Zenon DEF PopBegin, Thief
<1>9. CASE PullBegin(w)
  <2>1. OthersUntouched(w) /\ pc'[w] = "pull_load"
    BY <1>9, Zenon DEF PullBegin, Goto, OthersUntouched, IInv, TypeOK
  <2>2. OwnerKnows(w)' /\ ThiefKnows(w)' /\ ~Thief(w)' /\ ~Thief(w)
    BY <1>9, <2>1, Zenon DEF PullBegin, OwnerKnows, ThiefKnows, Stealing, Thief
  <2> QED
    BY <1>9, <2>1, <2>2, LocalStep, Zenon DEF PullBegin
<1>10. CASE PullLoad(w)
  <2> DEFINE room == CAP - Sub(tail[w], head[w].steal)
             share == Len(global) \div Cardinality(Workers) + 1
             n == Lesser(room, CAP \div 2)
  <2>1. /\ OthersUntouched(w) /\ head' = head /\ tail' = tail /\ ~Thief(w)
        /\ \/ pc'[w] = "pop_one"
           \/ pc'[w] = "pull" /\ cnt'[w] = Lesser(share, n)
    BY <1>10 DEF PullLoad, Goto, OthersUntouched, IInv, TypeOK, Thief
  <2>2. room = CAP - (tail[w] - head[w].steal)
    BY RingFacts, Zenon
  <2>a. cnt'[w] \in Nat
    BY TypesHoldNext, Zenon DEF Typed
  <2>b. room \in Int /\ CAP \div 2 \in Nat /\ CAP \in Nat
    BY <2>2, <1>r, CAPAssumption
  <2> HIDE DEF room, share
  <2>3. pc'[w] = "pull" => cnt'[w] <= room
    <3>1. pc'[w] = "pull" => cnt'[w] = Lesser(share, n)
      BY <2>1, Zenon
    <3> QED
      BY <2>a, <2>b, <3>1 DEF Lesser
  <2>4. pc'[w] = "pull" => tail'[w] - head'[w].steal + cnt'[w] <= CAP
    <3>1. tail'[w] = tail[w] /\ head'[w].steal = head[w].steal
      BY <2>1, Zenon
    <3>2. /\ tail[w] \in Nat /\ head[w].steal \in Nat
          /\ room = CAP - (tail[w] - head[w].steal)
      BY <1>r, <2>2, Zenon
    <3>3. cnt'[w] <= room => tail[w] - head[w].steal + cnt'[w] <= CAP
      BY <2>a, <2>b, <3>2
    <3> QED
      BY <2>3, <3>1, <3>3, Zenon
  <2>5. OwnerKnows(w)' /\ ThiefKnows(w)' /\ ~Thief(w)'
    BY <2>1, <2>4, Zenon DEF OwnerKnows, ThiefKnows, Stealing, Thief
  <2> QED
    BY <2>1, <2>5, LocalStep, Zenon
<1>11. CASE PullPop(w)
  <2> DEFINE n == Lesser(Len(global), cnt[w])
  <2>1. head' = head /\ tail' = tail /\ ~Thief(w) /\ pc[w] = "pull"
    BY <1>11, Zenon DEF PullPop, Thief
  <2>2. CASE Return(w)
    BY <2>1, <2>2, ReturnStep, Zenon
  <2>3. CASE ~Return(w)
    <3>a. /\ n # 0 /\ n # 1 /\ UNCHANGED <<snap, victim, cnt>>
          /\ hand' = [hand EXCEPT ![w] = SubSeq(global, 2, n)]
          /\ pc' = [pc EXCEPT ![w] = "batch"]
      BY <1>11, <2>3, Zenon DEF PullPop, Goto
    <3>1. OthersUntouched(w) /\ pc'[w] = "batch" /\ hand'[w] = SubSeq(global, 2, n)
      BY <2>1, <3>a, Zenon DEF OthersUntouched, IInv, TypeOK
    <3>b. global \in Seq(Handles) /\ cnt[w] \in Nat
      BY TypesHold, Zenon DEF IInv, TypeOK, Typed
    <3>2. /\ Len(global) \in Nat /\ n \in Nat /\ n <= cnt[w] /\ n <= Len(global)
          /\ cnt[w] \in Nat
      BY <3>b DEF Lesser
    <3> HIDE DEF n
    <3>c. 2 \in 1..Len(global) + 1 /\ n \in 0..Len(global) /\ 2 <= n
      BY <3>2, <3>a
    <3>3. Len(SubSeq(global, 2, n)) = n - 1
      BY <3>2, <3>b, <3>c, Cut
    <3>4. tail[w] - head[w].steal + cnt[w] <= CAP
      BY <2>1, Zenon DEF IInv, OwnerKnows
    <3>5. tail'[w] - head'[w].steal + Len(hand'[w]) <= CAP
      BY <2>1, <3>1, <3>2, <3>3, <3>4, <1>r, CAPAssumption
    <3>6. OwnerKnows(w)' /\ ThiefKnows(w)' /\ ~Thief(w)'
      BY <3>1, <3>5, Zenon DEF OwnerKnows, ThiefKnows, Stealing, Thief
    <3> QED
      BY <2>1, <3>1, <3>6, LocalStep, Zenon
  <2> QED BY <2>2, <2>3
<1>12. CASE PullBatch(w)
  <2>1. /\ head' = head /\ ~Thief(w) /\ Len(hand[w]) \in Nat
        /\ tail[w] - head[w].steal + Len(hand[w]) <= CAP
    BY <1>12, TypesHold, Zenon DEF PullBatch, Thief, IInv, OwnerKnows, Typed
  <2>2. BatchFits(w)
    BY <2>1, <1>r, CAPAssumption DEF BatchFits
  <2>3. /\ tail'[w] = tail[w] + Len(hand[w]) /\ \A u \in Workers \ {w} : tail'[u] = tail[u]
        /\ Return(w)
    BY <1>12, <2>2, Zenon DEF PullBatch, IInv, TypeOK
  <2>4. tail[w] <= tail'[w] /\ tail'[w] - head[w].steal <= CAP
    BY <2>1, <2>3, <1>r, CAPAssumption
  <2>5. OthersUntouched(w) /\ pc'[w] = "idle"
    BY <2>3, ReturnUntouched, Zenon DEF IInv
  <2> QED
    BY <2>1, <2>4, <2>5, TailStep, Zenon
<1> QED
  BY <1>1, <1>2, <1>3, <1>4, <1>5, <1>6, <1>7, <1>8, <1>9, <1>10, <1>11, <1>12, Zenon

\* A head_ is moved without beginning or ending a theft.
LEMMA SameThieves ==
  ASSUME IInv, NEW w \in Workers, OthersUntouched(w), ~Thief(w), ~Thief(w)',
         NEW q \in Workers, NEW h \in Heads, head' = [head EXCEPT ![q] = h],
         head[q].steal = head[q].real <=> h.steal = h.real
  PROVE  OneThief'
<1>1. \A p \in Workers : head'[p] = IF p = q THEN h ELSE head[p]
  BY Zenon DEF IInv, TypeOK
<1>2. \A u \in Workers : (Thief(u)' <=> Thief(u)) /\ (Thief(u) => victim'[u] = victim[u])
  BY Zenon DEF OthersUntouched, Thief
<1>3. \A p \in Workers : head'[p].steal # head'[p].real <=> head[p].steal # head[p].real
  BY <1>1, Zenon
<1>4. OneThief
  BY Zenon DEF IInv
<1>5. ASSUME NEW p \in Workers
      PROVE  (\E u \in Workers : Thief(u)' /\ victim'[u] = p)
             <=> \E u \in Workers : Thief(u) /\ victim[u] = p
  BY <1>2, Zenon
<1>6. ASSUME NEW p \in Workers
      PROVE  head'[p].steal # head'[p].real <=> \E u \in Workers : Thief(u)' /\ victim'[u] = p
  BY <1>3, <1>4, <1>5, Zenon DEF OneThief
<1>7. ASSUME NEW p \in Workers, NEW u \in Workers, NEW v \in Workers,
             Thief(u)', Thief(v)', victim'[u] = p, victim'[v] = p
      PROVE  u = v
  <2>1. Thief(u) /\ Thief(v) /\ victim[u] = p /\ victim[v] = p
    BY <1>2, <1>7, Zenon
  <2> QED
    BY <1>4, <2>1, Zenon DEF OneThief
<1> QED
  BY <1>6, <1>7, Zenon DEF OneThief

\* push_overflow claims the older half: the ring is full and nobody steals.
LEMMA OverflowStep ==
  ASSUME IInv, TypeOK', NEW w \in Workers, OverflowCas(w)
  PROVE  IInv'
<1>1. /\ OthersUntouched(w) /\ tail' = tail /\ hand' = hand /\ pc[w] = "overflow" /\ ~Thief(w)
  BY DEF OverflowCas, Goto, OthersUntouched, IInv, TypeOK, Thief
<1>2. Len(hand[w]) = 1 /\ tail[w] = snap[w].real + CAP
  BY <1>1, Zenon DEF IInv, OwnerKnows
<1>3. CASE head' = head /\ Goto(w, "push")
  <2>1. pc'[w] = "push"
    BY <1>3, Zenon DEF Goto, IInv, TypeOK
  <2>2. OwnerKnows(w)' /\ ThiefKnows(w)' /\ ~Thief(w)'
    BY <1>1, <1>2, <2>1, Zenon DEF OwnerKnows, ThiefKnows, Stealing, Thief
  <2> QED
    BY <1>1, <1>3, <2>2, LocalStep, Zenon
<1>4. CASE /\ head[w] = Packed(snap[w].real, snap[w].real)
           /\ head' = [head EXCEPT ![w] = Packed(snap[w].real + CAP \div 2, snap[w].real + CAP \div 2)]
           /\ Goto(w, "spill")
  <2> DEFINE h == Packed(snap[w].real + CAP \div 2, snap[w].real + CAP \div 2)
  <2>1. snap[w].real \in Nat
    BY TypesHold, Zenon DEF IInv, Typed
  <2>2. /\ h \in Heads /\ h.steal = snap[w].real + Half /\ h.real = snap[w].real + Half
        /\ head[w].steal = snap[w].real /\ head[w].real = snap[w].real
    BY <1>4, <2>1, HalfProperties, SMTT(30) DEF Heads, Packed, Half
  <2> HIDE DEF h
  <2>3. pc'[w] = "spill" /\ head' = [head EXCEPT ![w] = h]
    BY <1>4, Zenon DEF Goto, IInv, TypeOK, h
  <2>4. OwnerKnows(w)' /\ ThiefKnows(w)' /\ ~Thief(w)'
    BY <1>1, <1>2, <2>3, Zenon DEF OwnerKnows, ThiefKnows, Stealing, Thief
  <2>5. OneThief'
    BY <1>1, <2>2, <2>3, <2>4, SameThieves, Zenon
  <2>6. \A u \in Workers : ~(Thief(u) /\ victim[u] = w)
    BY <2>2, NoThief, Zenon
  <2>7. /\ head[w].steal <= h.steal /\ head[w].real <= h.real /\ h.steal <= h.real
        /\ h.real <= tail[w]
    BY <1>2, <2>1, <2>2, HalfProperties
  <2> QED
    BY <1>1, <2>2, <2>3, <2>4, <2>5, <2>6, <2>7, HeadStep, Zenon
<1> QED
  BY <1>3, <1>4, Zenon DEF OverflowCas

\* pop takes the oldest task, and moves steal along when nobody steals.
LEMMA PopStep ==
  ASSUME IInv, TypeOK', NEW w \in Workers, PopCas(w)
  PROVE  IInv'
<1>1. pc[w] = "pop" /\ ~Thief(w) /\ snap[w].real < tail[w]
  BY Zenon DEF PopCas, Thief, IInv, OwnerKnows
<1>2. CASE PopLoad(w)
  BY <1>1, <1>2, PopLoadStep, Zenon
<1>3. CASE ~PopLoad(w)
  <2> DEFINE n == snap[w].real + 1
             h == IF Same(snap[w].steal, snap[w].real) THEN Packed(n, n)
                  ELSE Packed(snap[w].steal, n)
  <2>1. /\ head[w] = snap[w] /\ Return(w) /\ tail' = tail
        /\ head' = [head EXCEPT ![w] = h]
    BY <1>3, Zenon DEF PopCas
  <2>2. OthersUntouched(w) /\ pc'[w] = "idle"
    BY <2>1, ReturnUntouched, Zenon DEF IInv
  <2>3. OwnerKnows(w)' /\ ThiefKnows(w)' /\ ~Thief(w)'
    BY <2>2, Zenon DEF OwnerKnows, ThiefKnows, Stealing, Thief
  <2>4. /\ n \in Nat /\ snap[w].steal \in Nat /\ snap[w].real \in Nat
        /\ snap[w].steal <= snap[w].real
        /\ Same(snap[w].steal, snap[w].real) <=> snap[w].steal = snap[w].real
    BY <2>1, RingFacts
  <2>5. /\ h \in Heads /\ h.real = n
        /\ h.steal = IF snap[w].steal = snap[w].real THEN n ELSE snap[w].steal
    BY <2>4, Zenon DEF Heads, Packed
  <2> HIDE DEF h
  <2>6. /\ head[w].steal <= h.steal /\ head[w].real <= h.real /\ h.steal <= h.real
        /\ h.real <= tail[w] /\ (head[w].steal = head[w].real <=> h.steal = h.real)
    BY <1>1, <2>1, <2>4, <2>5, RingFacts, SMTT(60)
  <2>7. OneThief'
    BY <1>1, <2>1, <2>2, <2>3, <2>5, <2>6, SameThieves, Zenon
  <2>8. \A u \in Workers \ {w} : Thief(u) /\ victim[u] = w => h.steal = head[w].steal
    BY <2>1, <2>5, NoThief, Zenon
  <2> QED
    BY <2>1, <2>2, <2>3, <2>5, <2>6, <2>7, <2>8, HeadStep, Zenon
<1> QED
  BY <1>2, <1>3, Zenon

-----------------------------------------------------------------------------
\* The thief of LocalQueue::steal_into keeps the invariant: before it reserves
\* anything, the bound on n holds only if the head it loaded is still current.
LEMMA StealLoadStep ==
  ASSUME IInv, TypeOK', NEW w \in Workers,
         (\E v \in Workers : StealBegin(w, v)) \/ StealTail(w)
  PROVE  IInv'
<1> USE DEF queueVars, globalVars, histVars
<1>1. ASSUME NEW v \in Workers, StealBegin(w, v) PROVE IInv'
  <2>1. /\ OthersUntouched(w) /\ pc'[w] = "steal_tail" /\ snap'[w] = head[v] /\ victim'[w] = v
        /\ head' = head /\ tail' = tail /\ ~Thief(w)
        /\ Sub(tail[w], head[w].steal) <= CAP \div 2
    <3>1. OthersUntouched(w) /\ pc'[w] = "steal_tail"
      <4>1. /\ pc' = [pc EXCEPT ![w] = "steal_tail"] /\ snap' = [snap EXCEPT ![w] = head[v]]
            /\ victim' = [victim EXCEPT ![w] = v]
            /\ UNCHANGED <<head, tail, cnt, hand>>
        BY <1>1, Zenon DEF StealBegin, Goto
      <4>2. /\ pc \in [Workers -> Labels] /\ snap \in [Workers -> Heads]
            /\ victim \in [Workers -> Workers]
        BY Zenon DEF IInv, TypeOK
      <4> QED
        BY <4>1, <4>2, Zenon DEF OthersUntouched
    <3>2. snap'[w] = head[v] /\ victim'[w] = v
      BY <1>1, Zenon DEF StealBegin, IInv, TypeOK
    <3>3. head' = head /\ tail' = tail /\ ~Thief(w) /\ Sub(tail[w], head[w].steal) <= CAP \div 2
      BY <1>1, Zenon DEF StealBegin, Thief
    <3> QED
      BY <3>1, <3>2, <3>3, Zenon
  <2>2. tail[w] - head[w].steal <= Half
    BY <2>1, RingFacts, Zenon DEF Half
  <2>3. /\ head[v].steal <= head[v].real /\ head[v].real <= head[v].steal + CAP
        /\ head[v].steal \in Nat /\ head[v].real \in Nat
    BY RingFacts, CAPAssumption, SMTT(30)
  <2>4. OwnerKnows(w)'
    BY <2>1, <2>2, Zenon DEF OwnerKnows, Stealing
  <2>5. ThiefKnows(w)' /\ ~Thief(w)'
    BY <2>1, <2>3 DEF ThiefKnows, Thief
  <2> QED
    BY <2>1, <2>4, <2>5, LocalStep, Zenon
<1>2. ASSUME StealTail(w) PROVE IInv'
  <2> DEFINE q == victim[w]
             k == Sub(tail[q], snap[w].real)
             n == k - k \div 2
  <2>1. head' = head /\ tail' = tail /\ ~Thief(w) /\ pc[w] = "steal_tail"
    BY <1>2, Zenon DEF StealTail, Thief
  <2>2. CASE Return(w)
    BY <2>1, <2>2, ReturnStep, Zenon
  <2>3. CASE ~Return(w)
    <3>1. /\ OthersUntouched(w) /\ pc'[w] = "steal_cas" /\ cnt'[w] = n /\ n # 0
          /\ snap'[w] = snap[w] /\ victim'[w] = victim[w]
          /\ Same(snap[w].steal, snap[w].real)
      <4>1. /\ ~(~Same(snap[w].steal, snap[w].real) \/ n = 0)
            /\ cnt' = [cnt EXCEPT ![w] = n] /\ pc' = [pc EXCEPT ![w] = "steal_cas"]
            /\ UNCHANGED <<snap, victim, hand>>
        BY <1>2, <2>3, Zenon DEF StealTail, Goto
      <4> QED
        BY <2>1, <4>1, Zenon DEF OthersUntouched, IInv, TypeOK
    <3>2. /\ q \in Workers /\ snap[w].steal \in Nat /\ snap[w].real \in Nat /\ tail[q] \in Nat
      BY TypesHold, Zenon DEF IInv, Typed
    <3>3. /\ snap[w].steal <= snap[w].real /\ snap[w].real <= snap[w].steal + CAP
          /\ snap[w].steal <= head[q].steal /\ snap[w].real <= head[q].real
          /\ tail[w] - head[w].steal <= Half
      BY <2>1, Zenon DEF IInv, OwnerKnows, ThiefKnows, Stealing
    <3>4. snap[w].steal = snap[w].real
      <4>1. /\ snap[w].steal \in Int /\ snap[w].real \in Int
            /\ snap[w].real - snap[w].steal <= CAP
        BY <3>2, <3>3, CAPAssumption
      <4> QED
        BY <3>1, <3>3, <4>1, SameExact, Zenon
    <3>5. k \in Nat /\ n \in Nat /\ n <= k /\ (k <= CAP => n <= Half)
      <4>0. tail[q] \in Int /\ snap[w].real \in Int
        BY <3>2
      <4>1. k \in Nat
        BY <4>0, SubIsNat, Zenon
      <4> HIDE DEF k
      <4> QED
        BY <4>1, HalfOf, Zenon
    <3>6. ASSUME head[q] = snap[w] PROVE k = tail[q] - snap[w].real /\ k <= CAP
      <4>1. /\ snap[w].real <= tail[q] /\ tail[q] - snap[w].real <= CAP
        BY <3>2, <3>6, RingFacts, CAPAssumption, SMTT(30)
      <4> QED
        BY <3>2, <4>1, SubExact
    <3> HIDE DEF k, n
    <3>7. OwnerKnows(w)' /\ ~Thief(w)'
      BY <2>1, <3>1, <3>3, Zenon DEF OwnerKnows, Stealing, Thief
    <3>8. n > 0 /\ (head[q] = snap[w] => n <= tail[q] - snap[w].real /\ n <= Half)
      BY <3>1, <3>2, <3>5, <3>6, HalfProperties, CAPAssumption, SMTT(60)
    <3>9. victim'[w] = q
      BY <3>1, Zenon
    <3> HIDE DEF q
    <3>10. ThiefKnows(w)'
      BY <2>1, <3>1, <3>3, <3>4, <3>8, <3>9, Zenon DEF ThiefKnows, Thief
    <3> QED
      BY <2>1, <3>1, <3>7, <3>10, LocalStep, Zenon
  <2> QED BY <2>2, <2>3, Zenon
<1> QED
  BY <1>1, <1>2, Zenon

\* The CAS that reserves: the head is the one n was computed from, so nobody
\* else steals and the thief becomes the only one.
LEMMA StealReserveStep ==
  ASSUME IInv, TypeOK', NEW w \in Workers, StealCas(w)
  PROVE  IInv'
<1> DEFINE q == victim[w]
           h == Packed(snap[w].steal, snap[w].real + cnt[w])
<1>1. /\ OthersUntouched(w) /\ tail' = tail /\ pc[w] = "steal_cas" /\ ~Thief(w)
      /\ victim' = victim /\ cnt' = cnt
  BY DEF StealCas, Goto, OthersUntouched, IInv, TypeOK, Thief
<1>2. /\ q \in Workers /\ snap[w].steal \in Nat /\ snap[w].real \in Nat /\ cnt[w] \in Nat
  BY TypesHold, Zenon DEF IInv, Typed
<1>3. /\ snap[w].steal = snap[w].real /\ cnt[w] > 0 /\ tail[w] - head[w].steal <= Half
      /\ head[q] = snap[w] => cnt[w] <= tail[q] - snap[w].real /\ cnt[w] <= Half
  BY <1>1, Zenon DEF IInv, OwnerKnows, ThiefKnows, Stealing
<1>4. \/ /\ head[q] = snap[w] /\ head' = [head EXCEPT ![q] = h]
         /\ snap'[w] = h /\ pc'[w] = "copy"
      \/ head' = head /\ snap'[w] = head[q] /\ pc'[w] = "steal_tail"
  BY <1>2, Zenon DEF StealCas, Goto, IInv, TypeOK
<1>5. CASE head' = head /\ snap'[w] = head[q] /\ pc'[w] = "steal_tail"
  <2>1. /\ head[q].steal <= head[q].real /\ head[q].real <= head[q].steal + CAP
        /\ head[q].steal <= head[q].steal /\ head[q].real <= head[q].real
    BY <1>2, RingFacts, CAPAssumption, SMTT(30)
  <2>2. OwnerKnows(w)'
    BY <1>1, <1>3, <1>5, Zenon DEF OwnerKnows, Stealing
  <2>3. ThiefKnows(w)' /\ ~Thief(w)'
    BY <1>1, <1>5, <2>1, Zenon DEF ThiefKnows, Thief
  <2> HIDE DEF q
  <2> QED
    BY <1>1, <1>5, <2>2, <2>3, LocalStep, Zenon
<1>6. CASE /\ head[q] = snap[w] /\ head' = [head EXCEPT ![q] = h]
           /\ snap'[w] = h /\ pc'[w] = "copy"
  <2>1. h \in Heads /\ h.steal = snap[w].steal /\ h.real = snap[w].real + cnt[w]
    BY <1>2 DEF Packed, Heads
  <2>2. \A p \in Workers : head'[p] = IF p = q THEN h ELSE head[p]
    BY <1>6, Zenon DEF IInv, TypeOK
  <2>3. /\ head[q].steal <= h.steal /\ head[q].real <= h.real /\ h.steal < h.real
        /\ h.steal <= h.real /\ h.real <= tail[q] /\ h.steal = head[q].steal
        /\ head[q].steal = head[q].real /\ cnt[w] \in 1..Half
    <3>1. /\ head[q].steal = snap[w].steal /\ head[q].real = snap[w].real
          /\ head[q].steal \in Nat /\ head[q].real \in Nat /\ tail[q] \in Nat
      BY <1>2, <1>6, RingFacts, Zenon
    <3>2. h.steal = head[q].steal /\ h.real = head[q].real + cnt[w]
      BY <2>1, <3>1, Zenon
    <3>3. /\ head[q].steal = head[q].real /\ cnt[w] > 0 /\ cnt[w] <= Half
          /\ cnt[w] <= tail[q] - head[q].real
      BY <1>3, <1>6, <3>1, Zenon
    <3>4. cnt[w] \in Nat /\ Half \in Nat
      BY <1>2, HalfProperties
    <3> HIDE DEF q, h
    <3> QED
      BY <3>1, <3>2, <3>3, <3>4
  <2> HIDE DEF h
  <2>4. head'[w].steal = head[w].steal
    BY <2>2, <2>3, Zenon
  <2>5. OwnerKnows(w)'
    BY <1>1, <1>3, <1>6, <2>3, <2>4, Zenon DEF OwnerKnows, Stealing
  <2>6. ThiefKnows(w)'
    <3>1. /\ pc'[w] = "copy" /\ victim'[w] = q /\ snap'[w] = h /\ head'[q] = h
      BY <1>1, <1>2, <1>6, <2>2, Zenon
    <3>2. h.real <= h.real
      BY <2>1 DEF Heads
    <3> QED
      BY <2>3, <3>1, <3>2, Zenon DEF ThiefKnows, Thief
  <2>7. \A u \in Workers : ~(Thief(u) /\ victim[u] = q)
    BY <1>2, <2>3, NoThief, Zenon
  <2>8. OneThief'
    <3>1. Thief(w)' /\ victim'[w] = q
      BY <1>1, <1>6, Zenon DEF Thief
    <3>2. \A u \in Workers \ {w} : (Thief(u)' <=> Thief(u)) /\ victim'[u] = victim[u]
      BY <1>1, Zenon DEF OthersUntouched, Thief
    <3>3. \A p \in Workers \ {q} : head'[p] = head[p]
      BY <2>2, Zenon
    <3>4. head'[q].steal # head'[q].real
      BY <1>2, <2>1, <2>2, <2>3
    <3>5. OneThief
      BY Zenon DEF IInv
    <3> HIDE DEF q
    <3>6. ASSUME NEW p \in Workers
          PROVE  /\ head'[p].steal # head'[p].real
                      <=> \E u \in Workers : Thief(u)' /\ victim'[u] = p
                 /\ \A u1, u2 \in Workers :
                      Thief(u1)' /\ Thief(u2)' /\ victim'[u1] = p /\ victim'[u2] = p => u1 = u2
      <4>1. CASE p = q
        BY <2>7, <3>1, <3>2, <3>4, <4>1, Zenon
      <4>2. CASE p # q
        <5>1. head'[p] = head[p]
          BY <3>3, <4>2, Zenon
        <5>2. \A u \in Workers : Thief(u)' /\ victim'[u] = p <=> Thief(u) /\ victim[u] = p
          BY <1>1, <3>1, <3>2, <4>2, Zenon
        <5> QED
          BY <3>5, <5>1, <5>2, Zenon DEF OneThief
      <4> QED
        BY <4>1, <4>2, Zenon
    <3> QED
      BY <3>6, Zenon DEF OneThief
  <2> HIDE DEF q
  <2> QED
    BY <1>1, <1>2, <1>6, <2>1, <2>3, <2>5, <2>6, <2>7, <2>8, HeadStep, Zenon
<1> QED
  BY <1>4, <1>5, <1>6, Zenon

\* While it copies, and until it gives the slots back, the thief is alone.
LEMMA StealCopyStep ==
  ASSUME IInv, TypeOK', NEW w \in Workers, StealCopy(w)
  PROVE  IInv'
<1>1. /\ OthersUntouched(w) /\ head' = head /\ tail' = tail /\ pc[w] = "copy" /\ pc'[w] = "release"
      /\ victim' = victim /\ cnt' = cnt /\ snap' = snap
  BY Zenon DEF StealCopy, Goto, OthersUntouched, IInv, TypeOK
<1>2. OwnerKnows(w)'
  BY <1>1, Zenon DEF IInv, OwnerKnows, Stealing
<1>3. ThiefKnows(w)'
  BY <1>1, Zenon DEF IInv, ThiefKnows, Thief
<1> QED
  BY <1>1, <1>2, <1>3, LocalStep, Zenon DEF Thief

\* The exchange that ends a steal, steal := real, preserves IInv
\* (queue.hpp:267-278).
LEMMA StealReleaseStep ==
  ASSUME IInv, TypeOK', NEW w \in Workers, StealRelease(w)
  PROVE  IInv'
<1> DEFINE q == victim[w]
           h == Packed(snap[w].real, snap[w].real)
<1>1. /\ OthersUntouched(w) /\ tail' = tail /\ pc[w] = "release" /\ Thief(w)
      /\ victim' = victim /\ cnt' = cnt
  BY DEF StealRelease, Goto, OthersUntouched, IInv, TypeOK, Thief
<1>2. q \in Workers /\ snap[w].steal \in Nat /\ snap[w].real \in Nat
  BY TypesHold, Zenon DEF IInv, Typed
<1>3. /\ tail[w] - head[w].steal <= Half /\ cnt[w] \in 1..Half
      /\ head[q].steal = snap[w].steal /\ snap[w].steal < snap[w].real /\ snap[w].real <= head[q].real
  BY <1>1, Zenon DEF IInv, OwnerKnows, ThiefKnows, Stealing
<1>4. \/ /\ head[q] = snap[w] /\ head' = [head EXCEPT ![q] = h] /\ pc'[w] = "take"
      \/ head' = head /\ snap'[w] = head[q] /\ pc'[w] = "release"
  BY <1>2, Zenon DEF StealRelease, Goto, IInv, TypeOK
<1>5. CASE head' = head /\ snap'[w] = head[q] /\ pc'[w] = "release"
  <2>1. /\ head[q].steal < head[q].real /\ head[q].real <= head[q].real
    <3>1. head[q].steal \in Nat /\ head[q].real \in Nat
      BY <1>2, RingFacts, Zenon
    <3> QED
      BY <1>2, <1>3, <3>1
  <2>2. OwnerKnows(w)'
    BY <1>1, <1>3, <1>5, Zenon DEF OwnerKnows, Stealing
  <2>3. ThiefKnows(w)' /\ Thief(w)'
    BY <1>1, <1>5, <2>1, Zenon DEF ThiefKnows, Thief
  <2> HIDE DEF q
  <2> QED
    BY <1>1, <1>5, <2>2, <2>3, LocalStep, Zenon
<1>6. CASE head[q] = snap[w] /\ head' = [head EXCEPT ![q] = h] /\ pc'[w] = "take"
  <2>1. h \in Heads /\ h.steal = snap[w].real /\ h.real = snap[w].real
    BY <1>2, Zenon DEF Packed, Heads
  <2>2. \A p \in Workers : head'[p] = IF p = q THEN h ELSE head[p]
    BY <1>6, Zenon DEF IInv, TypeOK
  <2>3. /\ head[q].steal <= h.steal /\ head[q].real <= h.real
        /\ h.steal <= h.real /\ h.real <= tail[q]
    BY <1>2, <1>3, <1>6, <2>1, RingFacts, Zenon
  <2> HIDE DEF h
  <2>4. head[w].steal <= head'[w].steal
    BY <2>2, <2>3, RingFacts, SMTT(30)
  <2>5. tail'[w] - head'[w].steal <= Half
    <3>1. /\ tail'[w] = tail[w] /\ tail[w] - head[w].steal <= Half
          /\ tail[w] \in Nat /\ head[w].steal \in Nat /\ head'[w].steal \in Nat
      BY <1>1, <1>3, TypesHold, TypesHoldNext, Zenon DEF IInv, Typed
    <3> QED
      BY <2>4, <3>1, HalfProperties
  <2>6. OwnerKnows(w)' /\ ThiefKnows(w)' /\ ~Thief(w)'
    BY <1>1, <1>3, <1>6, <2>5, Zenon DEF OwnerKnows, ThiefKnows, Stealing, Thief
  <2>7. \A u \in Workers \ {w} : ~(Thief(u) /\ victim[u] = q)
    BY <1>1, <1>2, Zenon DEF IInv, OneThief
  <2>8. OneThief'
    <3>1. \A u \in Workers \ {w} : (Thief(u)' <=> Thief(u)) /\ victim'[u] = victim[u]
      BY <1>1, Zenon DEF OthersUntouched, Thief
    <3>2. \A p \in Workers \ {q} : head'[p] = head[p]
      BY <2>2, Zenon
    <3>3. head'[q].steal = head'[q].real
      BY <1>2, <2>1, <2>2, Zenon
    <3>4. OneThief
      BY Zenon DEF IInv
    <3>5. victim[w] = q
      BY Zenon
    <3> HIDE DEF q
    <3>6. ASSUME NEW p \in Workers
          PROVE  head'[p].steal # head'[p].real <=> \E u \in Workers : Thief(u)' /\ victim'[u] = p
      BY <1>1, <2>6, <2>7, <3>1, <3>2, <3>3, <3>4, <3>5, Zenon DEF OneThief
    <3>7. ASSUME NEW p \in Workers, NEW u \in Workers, NEW v \in Workers,
                 Thief(u)', Thief(v)', victim'[u] = p, victim'[v] = p
          PROVE  u = v
      BY <2>6, <3>1, <3>4, <3>7, Zenon DEF OneThief
    <3> QED
      BY <3>6, <3>7, Zenon DEF OneThief
  <2> HIDE DEF q
  <2> QED
    BY <1>1, <1>2, <1>6, <2>1, <2>3, <2>6, <2>7, <2>8, HeadStep, Zenon
<1> QED
  BY <1>4, <1>5, <1>6, Zenon

\* The thief's keeping of the last stolen task, and the publication of the
\* others in its own tail_, preserve IInv (queue.hpp:219-226).
LEMMA StealTakeStep ==
  ASSUME IInv, TypeOK', NEW w \in Workers, StealTake(w)
  PROVE  IInv'
<1>r. /\ tail[w] \in Nat /\ head[w].steal \in Nat /\ head[w].real \in Nat
      /\ head[w].steal <= head[w].real /\ head[w].real <= tail[w]
      /\ tail[w] - head[w].steal <= CAP
      /\ Sub(tail[w], head[w].steal) = tail[w] - head[w].steal
  BY RingFacts, Zenon
<1>1. /\ tail'[w] = tail[w] + (cnt[w] - 1) /\ \A u \in Workers \ {w} : tail'[u] = tail[u]
      /\ head' = head /\ pc[w] = "take" /\ ~Thief(w) /\ Return(w)
  BY Zenon DEF StealTake, IInv, TypeOK, Thief
<1>2. tail[w] - head[w].steal <= Half /\ cnt[w] \in 1..Half
  BY <1>1, Zenon DEF IInv, OwnerKnows, Stealing
<1>3. tail[w] <= tail'[w] /\ tail'[w] - head[w].steal <= CAP
  BY <1>1, <1>2, <1>r, HalfProperties
<1>4. OthersUntouched(w) /\ pc'[w] = "idle"
  BY <1>1, ReturnUntouched, Zenon DEF IInv
<1> QED
  BY <1>1, <1>3, <1>4, TailStep, Zenon

-----------------------------------------------------------------------------
\* The empty queues satisfy the invariant, and every step keeps it.
LEMMA InitIInv == Init => IInv
<1> SUFFICES ASSUME Init PROVE IInv
  OBVIOUS
<1>1. TypeOK
  <2>1. Packed(0, 0) \in Heads /\ NoTask \in Handles /\ "idle" \in Labels
    BY DEF Heads, Packed, Handles, Labels
  <2>2. <<>> \in Seq(Handles) /\ created \in 0..MaxTasks
    BY MaxTasksAssumption DEF Init
  <2>3. buffer \in [Workers -> [0..CAP - 1 -> Handles]]
    BY <2>1 DEF Init
  <2>4. head \in [Workers -> Heads] /\ snap \in [Workers -> Heads]
    BY <2>1, Zenon DEF Init
  <2> QED
    BY <2>1, <2>2, <2>3, <2>4, Zenon DEF Init, TypeOK
<1>2. \A w \in Workers : head[w].steal = 0 /\ head[w].real = 0 /\ tail[w] = 0 /\ pc[w] = "idle"
  BY DEF Init, Packed
<1>3. RingBounds
  BY <1>2, CAPAssumption DEF RingBounds
<1>4. OneThief
  BY <1>2 DEF OneThief, Thief
<1>5. \A w \in Workers : OwnerKnows(w) /\ ThiefKnows(w)
  BY <1>2 DEF OwnerKnows, ThiefKnows, Stealing, Thief
<1> QED
  BY <1>1, <1>3, <1>4, <1>5 DEF IInv

\* Every step of every worker preserves the inductive invariant.
LEMMA NextIInv == IInv /\ [Next]_vars => IInv'
<1> SUFFICES ASSUME IInv, [Next]_vars PROVE IInv'
  OBVIOUS
<1>1. TypeOK'
  BY NextType, SMTT(30)
<1>2. CASE GlobalClose \/ UNCHANGED vars
  BY <1>1, <1>2 DEF GlobalClose, vars, queueVars, localVars, IInv, RingBounds, OneThief,
                    OwnerKnows, ThiefKnows, Stealing, Thief
<1>3. ASSUME NEW w \in Workers, Step(w) PROVE IInv'
  BY <1>1, <1>3, PushPopPull, OverflowStep, PopStep, StealLoadStep, StealReserveStep,
     StealCopyStep, StealReleaseStep, StealTakeStep, Zenon DEF Step
<1> QED
  BY <1>2, <1>3 DEF Next

\* The positions, counts, buffers and queues keep their types.
THEOREM TypeCorrect == Spec => []TypeOK
<1>1. IInv => TypeOK
  BY DEF IInv
<1> QED
  BY <1>1, InitIInv, NextIInv, PTL DEF Spec

\* No ring ever holds more tasks than LOCAL_QUEUE_CAPACITY, nor a head past its
\* tail, whatever the owner and the thieves do: the asserts of queue.hpp:106
\* and queue.hpp:288 hold.
THEOREM RingsAreBounded == Spec => []RingBounds
<1>1. IInv => RingBounds
  BY DEF IInv
<1> QED
  BY <1>1, InitIInv, NextIInv, PTL DEF Spec

\* steal_into2 lets one thief at a time into a ring.
THEOREM ThievesAreAlone == Spec => []OneThief
<1>1. IInv => OneThief
  BY SMTT(30) DEF IInv
<1> QED
  BY <1>1, InitIInv, NextIInv, PTL DEF Spec

\* push_batch never throws: what get_next_task pulls from the global queue
\* always fits in the worker's ring.
THEOREM BatchesFit == Spec => []BatchNeverOverflows
<1>1. IInv => BatchNeverOverflows
  BY DEF IInv, OwnerKnows, BatchNeverOverflows
<1> QED
  BY <1>1, InitIInv, NextIInv, PTL DEF Spec

-----------------------------------------------------------------------------
\* A queue cut in two: what pop_n leaves, and what it takes after the first.
CutAt(s, L, n) ==
  /\ Len(SubSeq(s, n + 1, L)) = L - n
  /\ \A i \in 1..(L - n) : SubSeq(s, n + 1, L)[i] = s[i + n]
  /\ Len(SubSeq(s, 2, n)) = n - 1
  /\ \A i \in 1..(n - 1) : SubSeq(s, 2, n)[i] = s[i + 1]

\* SubSeq does so.
LEMMA CutInTwo ==
  ASSUME NEW s \in Seq(Handles), NEW n \in 1..Len(s)
  PROVE  CutAt(s, Len(s), n)
BY DEF CutAt

\* Where the elements after the first go.
Cuts(L, n) ==
  \A k \in 2..L : /\ k \in Int /\ k # 1 /\ k \in 1..L
                  /\ k <= n => k - 1 \in 1..(n - 1) /\ k - 1 + 1 = k
                  /\ ~(k <= n) => k - n \in 1..(L - n) /\ k - n + n = k

\* The first n - 1 of them move by one, the others by n.
LEMMA CutPositions ==
  ASSUME NEW L \in Nat, NEW n \in Nat, 1 <= n, n <= L
  PROVE  Cuts(L, n)
BY DEF Cuts

\* The empty sequence has no element.
LEMMA NoneIn == Len(<<>>) = 0
OBVIOUS

\* A queue that is not empty: its head, and what is left without it.
HeadAndTail(s) ==
  /\ Len(s) \in Nat /\ 1 \in 1..Len(s)
  /\ Tail(s) = SubSeq(s, 1 + 1, Len(s)) /\ Head(s) = s[1] /\ SubSeq(s, 2, 1) = <<>>

\* Head and Tail are the first element and the other ones.
LEMMA FirstOf ==
  ASSUME NEW s \in Seq(Handles), s # <<>>
  PROVE  HeadAndTail(s)
BY DEF HeadAndTail

\* The lesser of a length and a count.
LEMMA LesserOf ==
  ASSUME NEW s \in Seq(Handles), NEW k \in Nat
  PROVE  /\ Len(s) \in Nat /\ Lesser(Len(s), k) \in Nat
         /\ Lesser(Len(s), k) <= Len(s)
BY DEF Lesser

\* Two distances that add up.
LEMMA LessThanBoth ==
  ASSUME NEW i \in Int, NEW a \in Int, NEW b \in Int, NEW c \in Int
  PROVE  /\ i < a /\ a <= b /\ b <= c => i < c
         /\ a - b < c /\ b <= i => a - i < c
OBVIOUS

\* The numbers of an interval from one are natural.
LEMMA FromOne == \A m \in Nat : \A n \in 1..m : n \in Nat
OBVIOUS

\* Natural numbers are integers.
LEMMA NatIsInt == \A n \in Nat : n \in Int
OBVIOUS

\* A position is a multiple of the capacity and its slot.
LEMMA ModShift ==
  ASSUME NEW C \in Nat \ {0}, NEW i \in Int
  PROVE  \E k \in Int : i = C * k + (i % C)
<1>1. i \div C \in Int /\ i = C * (i \div C) + (i % C)
  OBVIOUS
<1> QED
  BY <1>1, Zenon

\* Positions less than CAP apart have different slots.
LEMMA SlotsDiffer ==
  ASSUME NEW i \in Int, NEW j \in Int, i < j, j - i < CAP
  PROVE  Slot(i) # Slot(j)
<1>1. CAP \in Nat \ {0}
  BY CAPAssumption
<1>2. PICK a \in Int : i = CAP * a + Slot(i)
  BY <1>1, ModShift, Zenon DEF Slot
<1>3. PICK b \in Int : j = CAP * b + Slot(j)
  BY <1>1, ModShift, Zenon DEF Slot
<1> SUFFICES ASSUME Slot(i) = Slot(j) PROVE FALSE
  OBVIOUS
<1>4. Slot(i) \in Int /\ Slot(j) \in Int
  BY SlotType
<1>5. j - i = CAP * (b - a)
  BY <1>1, <1>2, <1>3, <1>4
<1>6. b - a >= 1 \/ b - a <= 0
  OBVIOUS
<1> QED
  BY <1>1, <1>5, <1>6

\* What the copying loops compute: the j-th slot after position i is at offset j.
LEMMA OffsetOfSlot ==
  ASSUME NEW i \in Int, NEW j \in 0..CAP - 1
  PROVE  Offset(Slot(i + j), i) = j
<1>1. CAP \in Nat \ {0}
  BY CAPAssumption
<1>2. i + j \in Int
  BY <1>1
<1>3. PICK a \in Int : i + j = CAP * a + Slot(i + j)
  BY <1>1, <1>2, ModShift, Zenon DEF Slot
<1>4. Slot(i + j) \in Int
  BY <1>2, SlotType
<1>5. Slot(i + j) - i = j + CAP * (-a)
  BY <1>1, <1>3, <1>4
<1>6. \A x \in 0..CAP - 1, k \in Int : (x + CAP * k) % CAP = x
  BY <1>1
<1> QED
  BY <1>5, <1>6 DEF Offset

-----------------------------------------------------------------------------
\* The places where a task waits.
Ring(q, i) == <<"ring", q, i>>
Glob(i) == <<"global", "tasks_", i>>
Hand(w, i) == <<"hand", w, i>>

\* The four reasons why a position of ring q holds a task: it is published; a
\* thief has reserved it; its owner has copied a stolen task there; its owner
\* has claimed it in push_overflow.
Published(q, i) == head[q].real <= i /\ i < tail[q]
Copied(q, i) ==
  \E u \in Workers :
    pc[u] = "copy" /\ victim[u] = q /\ snap[u].steal <= i /\ i < snap[u].steal + cnt[u]
Brought(q, i) == pc[q] \in {"release", "take"} /\ tail[q] <= i /\ i < tail[q] + cnt[q]
Claimed(q, i) == pc[q] = "spill" /\ snap[q].real <= i /\ i < snap[q].real + Half
Held(q, i) == Published(q, i) \/ Copied(q, i) \/ Brought(q, i) \/ Claimed(q, i)

\* Holding is the set of these positions.
LEMMA HoldingIs ==
  ASSUME TypeOK, NEW q \in Workers
  PROVE  \A i : i \in Holding(q) <=> i \in Int /\ Held(q, i)
<1>1. /\ tail[q] \in Nat /\ head[q].real \in Nat /\ snap[q].real \in Nat /\ cnt[q] \in Nat
      /\ \A u \in Workers : snap[u].steal \in Nat /\ cnt[u] \in Nat
  BY TypesHold, Zenon DEF Typed
<1>2. Half \in Nat
  BY HalfProperties
<1>3. \A a, b \in Int : \A i : i \in a..b - 1 <=> i \in Int /\ a <= i /\ i < b
  OBVIOUS
<1> DEFINE A == head[q].real..tail[q] - 1
           C(u) == snap[u].steal..snap[u].steal + cnt[u] - 1
           B == tail[q]..tail[q] + cnt[q] - 1
           D == snap[q].real..snap[q].real + Half - 1
<1>4. \A i : i \in A <=> i \in Int /\ Published(q, i)
  BY <1>1 DEF Published
<1>5. \A u \in Workers : \A i :
        i \in C(u) <=> i \in Int /\ snap[u].steal <= i /\ i < snap[u].steal + cnt[u]
  BY <1>1
<1>6. \A i : i \in B <=> i \in Int /\ tail[q] <= i /\ i < tail[q] + cnt[q]
  BY <1>1
<1>7. \A i : i \in D <=> i \in Int /\ snap[q].real <= i /\ i < snap[q].real + Half
  BY <1>1, <1>2
<1> DEFINE U == UNION {C(u) : u \in {u \in Workers : pc[u] = "copy" /\ victim[u] = q}}
           E == IF pc[q] \in {"release", "take"} THEN B ELSE {}
           F == IF pc[q] = "spill" THEN D ELSE {}
<1>8. Holding(q) = A \cup U \cup E \cup F
  BY DEF Holding, Half
<1> HIDE DEF A, B, C, D
<1>9. \A i : i \in U <=> \E u \in Workers : pc[u] = "copy" /\ victim[u] = q /\ i \in C(u)
  OBVIOUS
<1>10. \A i : i \in U <=> i \in Int /\ Copied(q, i)
  BY <1>5, <1>9, Zenon DEF Copied
<1>11. \A i : i \in E <=> i \in Int /\ Brought(q, i)
  BY <1>6, Zenon DEF Brought
<1>12. \A i : i \in F <=> i \in Int /\ Claimed(q, i)
  BY <1>7, Zenon DEF Claimed
<1> HIDE DEF U, E, F
<1> QED
  BY <1>4, <1>8, <1>10, <1>11, <1>12, Zenon DEF Held

\* Places of different kinds, or at different positions, are different places.
LEMMA RingsDiffer == \A q, i, r, j : Ring(q, i) = Ring(r, j) => q = r /\ i = j
BY DEF Ring

\* ...in the hands of the workers...
LEMMA HandsDiffer == \A u, i, r, j : Hand(u, i) = Hand(r, j) => u = r /\ i = j
BY DEF Hand

\* ...in the global queue...
LEMMA GlobsDiffer == \A i, j : Glob(i) = Glob(j) => i = j
BY DEF Glob

\* ...and across the three kinds.
LEMMA KindsDiffer ==
  /\ \A q, i, j : Ring(q, i) # Glob(j)
  /\ \A q, i, r, j : Ring(q, i) # Hand(r, j)
  /\ \A q, i, j : Hand(q, i) # Glob(j)
BY DEF Ring, Glob, Hand

\* The parts of a place.
LEMMA PlaceParts ==
  /\ \A q, i : Ring(q, i)[1] = "ring" /\ Ring(q, i)[2] = q /\ Ring(q, i)[3] = i
  /\ \A i : Glob(i)[1] = "global" /\ Glob(i)[3] = i
  /\ \A u, i : Hand(u, i)[1] = "hand" /\ Hand(u, i)[2] = u /\ Hand(u, i)[3] = i
BY DEF Ring, Glob, Hand

\* Places, by kind.
PlaceKinds ==
  /\ \A q \in Workers : \A i : Ring(q, i) \in Places <=> i \in Int /\ Held(q, i)
  /\ \A i : Glob(i) \in Places <=> i \in 1..Len(global)
  /\ \A u \in Workers : \A i : Hand(u, i) \in Places <=> i \in 1..Len(hand[u])
  /\ \A p \in Places :
       \/ \E q \in Workers, i \in Int : Held(q, i) /\ p = Ring(q, i)
       \/ \E i \in 1..Len(global) : p = Glob(i)
       \/ \E u \in Workers : \E i \in 1..Len(hand[u]) : p = Hand(u, i)

\* Places holds these and nothing else.
LEMMA PlacesAre == TypeOK => PlaceKinds
<1> SUFFICES ASSUME TypeOK PROVE PlaceKinds
  OBVIOUS
<1>1. \A q \in Workers : \A i : i \in Holding(q) <=> i \in Int /\ Held(q, i)
  BY HoldingIs, Zenon
<1> DEFINE R == UNION {{Ring(q, i) : i \in Holding(q)} : q \in Workers}
           G == {Glob(i) : i \in 1..Len(global)}
           H == UNION {{Hand(u, i) : i \in 1..Len(hand[u])} : u \in Workers}
<1>2. Places = R \cup G \cup H
  BY DEF Places, Ring, Glob, Hand
<1>4. \A p : p \in R <=> \E q \in Workers : \E i \in Holding(q) : p = Ring(q, i)
  OBVIOUS
<1>5. \A p : p \in G <=> \E i \in 1..Len(global) : p = Glob(i)
  OBVIOUS
<1>6. \A p : p \in H <=> \E u \in Workers : \E i \in 1..Len(hand[u]) : p = Hand(u, i)
  OBVIOUS
<1> HIDE DEF R, G, H
<1>7. \A p \in Places :
        \/ \E q \in Workers, i \in Int : Held(q, i) /\ p = Ring(q, i)
        \/ \E i \in 1..Len(global) : p = Glob(i)
        \/ \E u \in Workers : \E i \in 1..Len(hand[u]) : p = Hand(u, i)
  BY <1>1, <1>2, <1>4, <1>5, <1>6, Zenon
<1>8. ASSUME NEW q \in Workers, NEW i PROVE Ring(q, i) \in Places <=> i \in Holding(q)
  <2>1. Ring(q, i) \notin G /\ Ring(q, i) \notin H
    BY <1>5, <1>6, KindsDiffer
  <2>2. i \in Holding(q) => Ring(q, i) \in R
    BY <1>4, Zenon
  <2>3. ASSUME Ring(q, i) \in R PROVE i \in Holding(q)
    <3>1. PICK r \in Workers : \E j \in Holding(r) : Ring(q, i) = Ring(r, j)
      BY <1>4, <2>3, Zenon
    <3>2. PICK j \in Holding(r) : Ring(q, i) = Ring(r, j)
      BY <3>1
    <3>3. q = r /\ i = j
      BY <3>2, RingsDiffer
    <3> QED
      BY <3>2, <3>3, Zenon
  <2> QED
    BY <1>2, <2>1, <2>2, <2>3, Zenon
<1>9. \A i : Glob(i) \in Places <=> i \in 1..Len(global)
  BY <1>2, <1>4, <1>5, <1>6, KindsDiffer, GlobsDiffer
<1>10. \A u \in Workers : \A i : Hand(u, i) \in Places <=> i \in 1..Len(hand[u])
  BY <1>2, <1>4, <1>5, <1>6, KindsDiffer, HandsDiffer
<1>11. \A q \in Workers : \A i : Ring(q, i) \in Places <=> i \in Int /\ Held(q, i)
  BY <1>1, <1>8, Zenon
<1> QED
  BY <1>7, <1>9, <1>10, <1>11, Zenon DEF PlaceKinds

\* The same after a step.
LEMMA PlacesAreNext == TypeOK' => PlaceKinds'
BY PlacesAre, PTL

\* The task at a place.
LEMMA TaskAtIs ==
  /\ \A q, i : TaskAt(Ring(q, i)) = buffer[q][Slot(i)]
  /\ \A i : TaskAt(Glob(i)) = global[i]
  /\ \A u, i : TaskAt(Hand(u, i)) = hand[u][i]
BY PlaceParts DEF TaskAt

\* The same after a step.
LEMMA TaskAtIsNext ==
  /\ \A q, i : TaskAt(Ring(q, i))' = buffer'[q][Slot(i)]
  /\ \A i : TaskAt(Glob(i))' = global'[i]
  /\ \A u, i : TaskAt(Hand(u, i))' = hand'[u][i]
BY PlaceParts DEF TaskAt, Ring, Glob, Hand

\* A task that was not handed to the queues yet is nowhere.
Fresh ==
  /\ \A t \in Tasks : t > created => runs[t] = 0
  /\ \A p \in Places : TaskAt(p) <= created

\* A step moves tasks: what waits at p afterwards waited at M[p], one of the
\* places S, before; N is the inverse of M, total unless the step may drop tasks.
Transfer(S, M, N) ==
  /\ S \subseteq Places
  /\ \A p \in Places' : M[p] \in S /\ N[M[p]] = p /\ TaskAt(p)' = TaskAt(M[p])
  /\ ~closed' => \A s \in S : N[s] \in Places' /\ M[N[s]] = s

\* The step resumes no task, or the one that waited outside S.
Ran(S) ==
  \/ S = Places /\ runs' = runs
  \/ \E r \in Places : S = Places \ {r} /\ Run(TaskAt(r))

\* A step that moves tasks one to one, and counts the one it takes away as
\* resumed, conserves them.
LEMMA Moved ==
  ASSUME TypeOK, Fresh, TasksConserved, NEW S, NEW M, NEW N,
         Transfer(S, M, N), Ran(S), created' = created, closed => closed'
  PROVE  Fresh' /\ TasksConserved'
<1>1. /\ created \in Nat /\ runs \in [Tasks -> Nat]
  BY MaxTasksAssumption DEF TypeOK
<1>2. /\ \A t \in Tasks : runs[t] <= 1 /\ (t > created => runs[t] = 0)
      /\ \A p \in Places : TaskAt(p) \in Tasks /\ runs[TaskAt(p)] = 0 /\ TaskAt(p) <= created
      /\ \A p1, p2 \in Places : TaskAt(p1) = TaskAt(p2) => p1 = p2
      /\ ~closed => \A t \in 1..created : runs[t] = 1 \/ \E p \in Places : TaskAt(p) = t
  BY Zenon DEF Fresh, TasksConserved, NoTaskDuplicated, NoTaskLost
<1>3. /\ S \subseteq Places
      /\ \A p \in Places' : M[p] \in S /\ N[M[p]] = p /\ TaskAt(p)' = TaskAt(M[p])
      /\ ~closed' => \A s \in S : N[s] \in Places' /\ M[N[s]] = s
  BY Zenon DEF Transfer
<1>4. /\ \A t \in Tasks : runs'[t] <= 1 /\ (t > created => runs'[t] = 0)
      /\ \A s \in S : runs'[TaskAt(s)] = 0
      /\ \A t \in Tasks : runs[t] = 1 => runs'[t] = 1
      /\ \A p \in Places : p \in S \/ runs'[TaskAt(p)] = 1
  <2>1. CASE S = Places /\ runs' = runs
    BY <1>2, <2>1, Zenon
  <2>2. ASSUME NEW r \in Places, S = Places \ {r}, Run(TaskAt(r))
        PROVE  <1>4!:
    <3>1. \A t \in Tasks : runs'[t] = IF t = TaskAt(r) THEN runs[t] + 1 ELSE runs[t]
      BY <1>1, <2>2, Zenon DEF Run
    <3>2. TaskAt(r) \in Tasks /\ runs[TaskAt(r)] = 0 /\ ~(TaskAt(r) > created)
      BY <1>1, <1>2 DEF Tasks
    <3>3. runs'[TaskAt(r)] = 1
      BY <3>1, <3>2
    <3>4. \A t \in Tasks : t # TaskAt(r) => runs'[t] = runs[t]
      BY <3>1, Zenon
    <3>5. 1 <= 1
      OBVIOUS
    <3>6. 0 # 1
      OBVIOUS
    <3> QED
      BY <1>2, <2>2, <3>2, <3>3, <3>4, <3>5, <3>6, Zenon
  <2> QED
    BY <2>1, <2>2, Zenon DEF Ran
<1>5. \A p \in Places' : TaskAt(p)' \in Tasks /\ runs'[TaskAt(p)'] = 0 /\ TaskAt(p)' <= created
  <2> TAKE p \in Places'
  <2>1. M[p] \in S /\ M[p] \in Places /\ TaskAt(p)' = TaskAt(M[p])
    BY <1>3, Zenon
  <2>2. TaskAt(M[p]) \in Tasks /\ runs'[TaskAt(M[p])] = 0 /\ TaskAt(M[p]) <= created
    BY <1>2, <1>4, <2>1, Zenon
  <2> QED
    BY <2>1, <2>2, Zenon
<1>6. \A p1, p2 \in Places' : TaskAt(p1)' = TaskAt(p2)' => p1 = p2
  <2> SUFFICES ASSUME NEW p1 \in Places', NEW p2 \in Places', TaskAt(p1)' = TaskAt(p2)'
               PROVE  p1 = p2
    BY Zenon
  <2>1. M[p1] \in Places /\ N[M[p1]] = p1 /\ TaskAt(p1)' = TaskAt(M[p1])
    BY <1>3, Zenon
  <2>2. M[p2] \in Places /\ N[M[p2]] = p2 /\ TaskAt(p2)' = TaskAt(M[p2])
    BY <1>3, Zenon
  <2> QED
    BY <1>2, <2>1, <2>2, Zenon
<1>7. ~closed' => \A t \in 1..created : runs'[t] = 1 \/ \E p \in Places' : TaskAt(p)' = t
  <2> SUFFICES ASSUME ~closed', NEW t \in 1..created, runs'[t] # 1
               PROVE  \E p \in Places' : TaskAt(p)' = t
    BY Zenon
  <2>1. t \in Tasks
    BY <1>1, MaxTasksAssumption DEF TypeOK, Tasks
  <2>2. PICK s \in Places : TaskAt(s) = t
    BY <1>2, <1>4, <2>1, Zenon
  <2>3. s \in S
    BY <1>4, <2>2, Zenon
  <2>4. N[s] \in Places' /\ M[N[s]] = s
    BY <1>3, <2>3, Zenon
  <2>5. PICK p \in Places' : M[p] = s
    BY <2>4, Zenon
  <2>6. TaskAt(p)' = TaskAt(s)
    BY <1>3, <2>5, Zenon
  <2> QED
    BY <2>2, <2>6, Zenon
<1> QED
  BY <1>4, <1>5, <1>6, <1>7, Zenon DEF Fresh, TasksConserved, NoTaskDuplicated, NoTaskLost

\* A step after which each task waits where it waited, the one it takes away
\* excepted, conserves them.
LEMMA Kept ==
  ASSUME TypeOK, Fresh, TasksConserved, NEW S, S \subseteq Places, Places' = S,
         \A p \in S : TaskAt(p)' = TaskAt(p),
         Ran(S), created' = created, closed => closed'
  PROVE  Fresh' /\ TasksConserved'
<1> DEFINE I == [p \in S |-> p]
<1>1. Transfer(S, I, I)
  BY Zenon DEF Transfer
<1> HIDE DEF I
<1> QED
  BY <1>1, Moved, Zenon

\* What a worker knows of the tasks it holds at each step: local variables are
\* empty outside push and push_batch, nobody steals from itself, a thief has
\* reserved exactly the positions it copies, and what push_overflow claimed is
\* the older half of a full ring.
TaskKnows(w) ==
  /\ pc[w] \notin {"push", "write", "overflow", "spill", "batch"} => hand[w] = <<>>
  /\ Stealing(w) => victim[w] # w
  /\ pc[w] = "copy" => snap[w].real = snap[w].steal + cnt[w]
  /\ pc[w] = "spill" => tail[w] = snap[w].real + CAP /\ snap[w].real + Half <= head[w].steal

\* What a step of one worker leaves alone.
LEMMA Frame ==
  ASSUME IInv, NEW w \in Workers, Step(w)
  PROVE  /\ OthersUntouched(w)
         /\ \A u \in Workers \ {w} : buffer'[u] = buffer[u]
         /\ \A q \in Workers : head[q].steal <= head'[q].steal
<1> USE DEF queueVars, globalVars, histVars
<1>a. /\ pc \in [Workers -> Labels] /\ snap \in [Workers -> Heads]
      /\ victim \in [Workers -> Workers] /\ cnt \in [Workers -> Nat]
      /\ hand \in [Workers -> Seq(Handles)] /\ tail \in [Workers -> Nat]
      /\ head \in [Workers -> Heads] /\ buffer \in [Workers -> [0..CAP - 1 -> Handles]]
  BY Zenon DEF IInv, TypeOK
<1>b. \A q \in Workers : head[q].steal <= head[q].steal
  BY RingFacts
<1>p. ASSUME PopLoad(w) PROVE OthersUntouched(w) /\ buffer' = buffer /\ head' = head
  <2>1. CASE Return(w)
    BY <1>p, <1>a, <2>1, ReturnUntouched, Zenon DEF PopLoad, IInv
  <2>2. CASE ~Return(w)
    <3>1. /\ pc' = [pc EXCEPT ![w] = "pop"] /\ \E s : snap' = [snap EXCEPT ![w] = s]
          /\ UNCHANGED <<head, tail, buffer, victim, cnt, hand>>
      BY <1>p, <2>2, Zenon DEF PopLoad, Goto
    <3>2. \A u \in Workers \ {w} : pc'[u] = pc[u]
      BY <1>a, <3>1, Zenon
    <3>3. \A u \in Workers \ {w} : snap'[u] = snap[u]
      BY <1>a, <3>1, Zenon
    <3>4. /\ head' = head /\ tail' = tail /\ buffer' = buffer
          /\ victim' = victim /\ cnt' = cnt /\ hand' = hand
      BY <3>1, Zenon
    <3> QED
      BY <3>2, <3>3, <3>4, Zenon DEF OthersUntouched
  <2> QED
    BY <2>1, <2>2, Zenon
<1>1. ASSUME GlobalPop(w) PROVE OthersUntouched(w) /\ buffer' = buffer /\ head' = head
  BY <1>1, <1>a, Zenon DEF GlobalPop, Goto, Return, OthersUntouched
<1>2. ASSUME PushBegin(w) PROVE OthersUntouched(w) /\ buffer' = buffer /\ head' = head
  BY <1>2, <1>a, Zenon DEF PushBegin, Goto, Return, OthersUntouched
<1>3. ASSUME PushRoom(w) PROVE OthersUntouched(w) /\ buffer' = buffer /\ head' = head
  BY <1>3, <1>a, Zenon DEF PushRoom, Goto, Return, OthersUntouched
<1>4. ASSUME PushGlobal(w) PROVE OthersUntouched(w) /\ buffer' = buffer /\ head' = head
  BY <1>4, <1>a, Zenon DEF PushGlobal, Goto, Return, OthersUntouched
<1>5. ASSUME PushFull(w) PROVE OthersUntouched(w) /\ buffer' = buffer /\ head' = head
  BY <1>5, <1>a, Zenon DEF PushFull, Goto, Return, OthersUntouched
<1>6. ASSUME PushWrite(w)
      PROVE  /\ OthersUntouched(w) /\ head' = head
             /\ \A u \in Workers \ {w} : buffer'[u] = buffer[u]
  BY <1>6, <1>a, Zenon DEF PushWrite, Goto, Return, OthersUntouched
<1>7. ASSUME OverflowCas(w) PROVE OthersUntouched(w) /\ buffer' = buffer
  <2>1. /\ \E l : pc' = [pc EXCEPT ![w] = l] \/ pc' = pc
        /\ \E s : snap' = [snap EXCEPT ![w] = s] \/ snap' = snap
        /\ UNCHANGED <<tail, buffer, victim, cnt, hand>>
    BY <1>7, Zenon DEF OverflowCas, Goto
  <2>2. \A u \in Workers \ {w} : pc'[u] = pc[u]
    BY <1>a, <2>1, Zenon
  <2>3. \A u \in Workers \ {w} : snap'[u] = snap[u]
    BY <1>a, <2>1, Zenon
  <2>4. /\ tail' = tail /\ buffer' = buffer /\ victim' = victim /\ cnt' = cnt
        /\ hand' = hand
    BY <2>1, Zenon
  <2> QED
    BY <2>2, <2>3, <2>4, Zenon DEF OthersUntouched
<1>8. ASSUME Spill(w) PROVE OthersUntouched(w) /\ buffer' = buffer /\ head' = head
  BY <1>8, <1>a, Zenon DEF Spill, Goto, Return, OthersUntouched
<1>9. ASSUME PopBegin(w) PROVE OthersUntouched(w) /\ buffer' = buffer /\ head' = head
  BY <1>9, <1>p, Zenon DEF PopBegin
<1>10. ASSUME PopCas(w) PROVE OthersUntouched(w) /\ buffer' = buffer
  <2>1. CASE PopLoad(w)
    BY <1>p, <2>1, Zenon
  <2>2. CASE ~PopLoad(w)
    BY <1>10, <1>a, <2>2, ReturnUntouched, Zenon DEF PopCas, IInv
  <2> QED
    BY <2>1, <2>2, Zenon
<1>11. ASSUME NEW v \in Workers, StealBegin(w, v)
       PROVE  OthersUntouched(w) /\ buffer' = buffer /\ head' = head
  BY <1>11, <1>a, Zenon DEF StealBegin, Goto, OthersUntouched
<1>12. ASSUME StealTail(w) PROVE OthersUntouched(w) /\ buffer' = buffer /\ head' = head
  <2>1. CASE Return(w)
    BY <1>12, <1>a, <2>1, ReturnUntouched, Zenon DEF StealTail, IInv
  <2>2. CASE ~Return(w)
    <3>1. /\ \E k : cnt' = [cnt EXCEPT ![w] = k]
          /\ pc' = [pc EXCEPT ![w] = "steal_cas"]
          /\ UNCHANGED <<head, tail, buffer, snap, victim, hand>>
      BY <1>12, <2>2, Zenon DEF StealTail, Goto
    <3>2. \A u \in Workers \ {w} : pc'[u] = pc[u]
      BY <1>a, <3>1, Zenon
    <3>3. \A u \in Workers \ {w} : cnt'[u] = cnt[u]
      BY <1>a, <3>1, Zenon
    <3>4. /\ head' = head /\ tail' = tail /\ buffer' = buffer
          /\ snap' = snap /\ victim' = victim /\ hand' = hand
      BY <3>1, Zenon
    <3> QED
      BY <3>2, <3>3, <3>4, Zenon DEF OthersUntouched
  <2> QED
    BY <2>1, <2>2, Zenon
<1>13. ASSUME StealCas(w) PROVE OthersUntouched(w) /\ buffer' = buffer
  <2>1. /\ \E l : pc' = [pc EXCEPT ![w] = l] \/ pc' = pc
        /\ \E s : snap' = [snap EXCEPT ![w] = s] \/ snap' = snap
        /\ UNCHANGED <<tail, buffer, victim, cnt, hand>>
    BY <1>13, Zenon DEF StealCas, Goto
  <2>2. \A u \in Workers \ {w} : pc'[u] = pc[u]
    BY <1>a, <2>1, Zenon
  <2>3. \A u \in Workers \ {w} : snap'[u] = snap[u]
    BY <1>a, <2>1, Zenon
  <2>4. /\ tail' = tail /\ buffer' = buffer /\ victim' = victim /\ cnt' = cnt
        /\ hand' = hand
    BY <2>1, Zenon
  <2> QED
    BY <2>2, <2>3, <2>4, Zenon DEF OthersUntouched
<1>14. ASSUME StealCopy(w)
      PROVE  /\ OthersUntouched(w) /\ head' = head
             /\ \A u \in Workers \ {w} : buffer'[u] = buffer[u]
  BY <1>14, <1>a, Zenon DEF StealCopy, Goto, Return, OthersUntouched
<1>15. ASSUME StealRelease(w) PROVE OthersUntouched(w) /\ buffer' = buffer
  <2>1. /\ \E l : pc' = [pc EXCEPT ![w] = l] \/ pc' = pc
        /\ \E s : snap' = [snap EXCEPT ![w] = s] \/ snap' = snap
        /\ UNCHANGED <<tail, buffer, victim, cnt, hand>>
    BY <1>15, Zenon DEF StealRelease, Goto
  <2>2. \A u \in Workers \ {w} : pc'[u] = pc[u]
    BY <1>a, <2>1, Zenon
  <2>3. \A u \in Workers \ {w} : snap'[u] = snap[u]
    BY <1>a, <2>1, Zenon
  <2>4. /\ tail' = tail /\ buffer' = buffer /\ victim' = victim /\ cnt' = cnt
        /\ hand' = hand
    BY <2>1, Zenon
  <2> QED
    BY <2>2, <2>3, <2>4, Zenon DEF OthersUntouched
<1>16. ASSUME StealTake(w) PROVE OthersUntouched(w) /\ buffer' = buffer /\ head' = head
  BY <1>16, <1>a, Zenon DEF StealTake, Goto, Return, OthersUntouched
<1>17. ASSUME PullBegin(w) PROVE OthersUntouched(w) /\ buffer' = buffer /\ head' = head
  BY <1>17, <1>a, Zenon DEF PullBegin, Goto, Return, OthersUntouched
<1>18. ASSUME PullLoad(w) PROVE OthersUntouched(w) /\ buffer' = buffer /\ head' = head
  BY <1>18, <1>a, Zenon DEF PullLoad, Goto, Return, OthersUntouched
<1>19. ASSUME PullPop(w) PROVE OthersUntouched(w) /\ buffer' = buffer /\ head' = head
  <2>1. CASE Return(w)
    BY <1>19, <1>a, <2>1, ReturnUntouched, Zenon DEF PullPop, IInv
  <2>2. CASE ~Return(w)
    <3>1. /\ \E h : hand' = [hand EXCEPT ![w] = h]
          /\ pc' = [pc EXCEPT ![w] = "batch"]
          /\ UNCHANGED <<head, tail, buffer, snap, victim, cnt>>
      BY <1>19, <2>2, Zenon DEF PullPop, Goto
    <3>2. \A u \in Workers \ {w} : pc'[u] = pc[u]
      BY <1>a, <3>1, Zenon
    <3>3. \A u \in Workers \ {w} : hand'[u] = hand[u]
      BY <1>a, <3>1, Zenon
    <3>4. /\ head' = head /\ tail' = tail /\ buffer' = buffer
          /\ snap' = snap /\ victim' = victim /\ cnt' = cnt
      BY <3>1, Zenon
    <3> QED
      BY <3>2, <3>3, <3>4, Zenon DEF OthersUntouched
  <2> QED
    BY <2>1, <2>2, Zenon
<1>20. ASSUME PullBatch(w)
      PROVE  /\ OthersUntouched(w) /\ head' = head
             /\ \A u \in Workers \ {w} : buffer'[u] = buffer[u]
  <2>1. CASE BatchFits(w)
    <3>1. /\ Return(w) /\ head' = head
          /\ \E b : buffer' = [buffer EXCEPT ![w] = b]
          /\ \E n : tail' = [tail EXCEPT ![w] = n]
      BY <1>20, <2>1, Zenon DEF PullBatch
    <3>2. \A u \in Workers \ {w} : tail'[u] = tail[u] /\ buffer'[u] = buffer[u]
      BY <1>a, <3>1, Zenon
    <3> QED
      BY <3>1, <3>2, ReturnUntouched, Zenon DEF IInv
  <2>2. CASE ~BatchFits(w)
    <3>1. /\ pc' = [pc EXCEPT ![w] = "throw"]
          /\ UNCHANGED <<head, tail, buffer, snap, victim, cnt, hand>>
      BY <1>20, <2>2, Zenon DEF PullBatch, Goto
    <3> QED
      BY <1>a, <3>1, Zenon DEF OthersUntouched
  <2> QED
    BY <2>1, <2>2, Zenon
<1>21. \A q \in Workers : head[q].steal <= head'[q].steal
  <2>1. CASE OverflowCas(w)
    <3>1. CASE head' = head
      BY <1>b, <3>1, Zenon
    <3>2. CASE head' # head
      <4>1. /\ head[w] = Packed(snap[w].real, snap[w].real)
            /\ head' = [head EXCEPT ![w] =
                          Packed(snap[w].real + CAP \div 2, snap[w].real + CAP \div 2)]
        BY <2>1, <3>2, Zenon DEF OverflowCas
      <4>2. head[w].steal = snap[w].real /\ head'[w].steal = snap[w].real + Half
        BY <1>a, <4>1 DEF Packed, Half
      <4>3. head[w].steal <= head'[w].steal
        BY <4>2, HalfProperties, RingFacts
      <4>4. \A q \in Workers \ {w} : head'[q] = head[q]
        BY <1>a, <4>1, Zenon
      <4> QED
        BY <1>b, <4>3, <4>4, Zenon
    <3> QED
      BY <3>1, <3>2, Zenon
  <2>2. CASE PopCas(w)
    <3>1. CASE PopLoad(w)
      BY <1>b, <1>p, <3>1, Zenon
    <3>2. CASE ~PopLoad(w)
      <4>1. /\ head[w] = snap[w]
            /\ head' = [head EXCEPT ![w] = IF Same(snap[w].steal, snap[w].real)
                                          THEN Packed(snap[w].real + 1, snap[w].real + 1)
                                          ELSE Packed(snap[w].steal, snap[w].real + 1)]
        BY <2>2, <3>2, Zenon DEF PopCas
      <4>2. head'[w].steal = snap[w].real + 1 \/ head'[w].steal = snap[w].steal
        BY <1>a, <4>1 DEF Packed
      <4>3. head[w].steal <= head'[w].steal
        BY <4>1, <4>2, RingFacts
      <4>4. \A q \in Workers \ {w} : head'[q] = head[q]
        BY <1>a, <4>1, Zenon
      <4> QED
        BY <1>b, <4>3, <4>4, Zenon
    <3> QED
      BY <3>1, <3>2, Zenon
  <2>3. CASE StealCas(w) \/ StealRelease(w)
    <3>1. CASE head' = head
      BY <1>b, <3>1, Zenon
    <3>2. CASE head' # head
      <4> DEFINE v == victim[w]
      <4>0. v \in Workers
        BY <1>a, Zenon
      <4>1. /\ head[v] = snap[w]
            /\ \/ head' = [head EXCEPT ![v] = Packed(snap[w].steal, snap[w].real + cnt[w])]
               \/ head' = [head EXCEPT ![v] = Packed(snap[w].real, snap[w].real)]
        BY <2>3, <3>2, Zenon DEF StealCas, StealRelease
      <4>2. head'[v].steal = snap[w].steal \/ head'[v].steal = snap[w].real
        BY <1>a, <4>0, <4>1 DEF Packed
      <4>3. head[v].steal <= head'[v].steal
        BY <4>0, <4>1, <4>2, RingFacts
      <4>4. \A q \in Workers \ {v} : head'[q] = head[q]
        BY <1>a, <4>0, <4>1, Zenon
      <4> QED
        BY <1>b, <4>3, <4>4, Zenon
    <3> QED
      BY <3>1, <3>2, Zenon
  <2>4. CASE ~(OverflowCas(w) \/ PopCas(w) \/ StealCas(w) \/ StealRelease(w))
    <3>1. head' = head
      BY <2>4, <1>1, <1>2, <1>3, <1>4, <1>5, <1>6, <1>8, <1>9,
         <1>11, <1>12, <1>14, <1>16, <1>17, <1>18, <1>19, <1>20, Zenon DEF Step
    <3> QED
      BY <1>b, <3>1, Zenon
  <2> QED
    BY <2>1, <2>2, <2>3, <2>4, Zenon
<1>22. OthersUntouched(w) /\ \A u \in Workers \ {w} : buffer'[u] = buffer[u]
  BY <1>1, <1>2, <1>3, <1>4, <1>5, <1>6, <1>7, <1>8, <1>9,
     <1>10, <1>11, <1>12, <1>13, <1>14, <1>15, <1>16, <1>17, <1>18, <1>19, <1>20, Zenon DEF Step
<1> QED
  BY <1>21, <1>22, Zenon

\* What the workers know of their tasks survives every step.
LEMMA KnowsStep ==
  ASSUME IInv, IInv', \A u \in Workers : TaskKnows(u), NEW w \in Workers, Step(w)
  PROVE  \A u \in Workers : TaskKnows(u)'
<1> USE DEF queueVars, globalVars, histVars
<1>a. /\ pc \in [Workers -> Labels] /\ snap \in [Workers -> Heads]
      /\ victim \in [Workers -> Workers] /\ hand \in [Workers -> Seq(Handles)]
      /\ head \in [Workers -> Heads]
  BY Zenon DEF IInv, TypeOK
<1>b. TaskKnows(w)
  OBVIOUS
<1>c. ASSUME Return(w) PROVE TaskKnows(w)'
  BY <1>a, <1>c, Zenon DEF Return, Goto, TaskKnows, Stealing
<1>d. ASSUME PopLoad(w), hand[w] = <<>> PROVE TaskKnows(w)'
  BY <1>a, <1>c, <1>d, Zenon DEF PopLoad, Goto, TaskKnows, Stealing
<1>e. pc'[w] # "throw"
  BY Zenon DEF IInv, OwnerKnows
<1>1. ASSUME GlobalPop(w) PROVE TaskKnows(w)'
  BY <1>1, <1>c, Zenon DEF GlobalPop
<1>2. ASSUME PushBegin(w) PROVE TaskKnows(w)'
  BY <1>2, <1>a, Zenon DEF PushBegin, Goto, TaskKnows, Stealing
<1>3. ASSUME PushRoom(w) PROVE TaskKnows(w)'
  BY <1>3, <1>a, Zenon DEF PushRoom, Goto, TaskKnows, Stealing
<1>4. ASSUME PushGlobal(w) PROVE TaskKnows(w)'
  BY <1>4, <1>c, Zenon DEF PushGlobal
<1>5. ASSUME PushFull(w) PROVE TaskKnows(w)'
  BY <1>5, <1>a, Zenon DEF PushFull, Goto, TaskKnows, Stealing
<1>6. ASSUME PushWrite(w) PROVE TaskKnows(w)'
  BY <1>6, <1>c, Zenon DEF PushWrite
<1>7. ASSUME OverflowCas(w) PROVE TaskKnows(w)'
  <2>1. CASE pc'[w] = "push"
    BY <2>1, Zenon DEF TaskKnows, Stealing
  <2>2. CASE pc'[w] # "push"
    <3>1. /\ head' = [head EXCEPT ![w] =
                        Packed(snap[w].real + CAP \div 2, snap[w].real + CAP \div 2)]
          /\ pc' = [pc EXCEPT ![w] = "spill"] /\ tail' = tail /\ snap' = snap /\ pc[w] = "overflow"
      BY <1>7, <1>a, <2>2, Zenon DEF OverflowCas, Goto
    <3>2. /\ tail[w] = snap[w].real + CAP
      BY <3>1, Zenon DEF IInv, OwnerKnows
    <3>3. head'[w].steal = snap[w].real + Half
      BY <1>a, <3>1 DEF Packed, Half
    <3>4. snap[w].real + Half <= head'[w].steal
      BY <3>3, TypesHold, HalfProperties DEF IInv, Typed
    <3> QED
      BY <1>a, <3>1, <3>2, <3>4, Zenon DEF TaskKnows, Stealing
  <2> QED
    BY <2>1, <2>2, Zenon
<1>8. ASSUME Spill(w) PROVE TaskKnows(w)'
  BY <1>8, <1>c, Zenon DEF Spill
<1>9. ASSUME PopBegin(w) PROVE TaskKnows(w)'
  BY <1>9, <1>b, <1>d, Zenon DEF PopBegin, TaskKnows
<1>10. ASSUME PopCas(w) PROVE TaskKnows(w)'
  BY <1>10, <1>b, <1>c, <1>d, Zenon DEF PopCas, TaskKnows
<1>11. ASSUME NEW v \in Workers, StealBegin(w, v) PROVE TaskKnows(w)'
  BY <1>11, <1>a, <1>b, Zenon DEF StealBegin, Goto, TaskKnows, Stealing
<1>12. ASSUME StealTail(w) PROVE TaskKnows(w)'
  BY <1>12, <1>a, <1>b, <1>c, Zenon DEF StealTail, Goto, TaskKnows, Stealing
<1>13. ASSUME StealCas(w) PROVE TaskKnows(w)'
  <2>0. victim' = victim /\ hand' = hand /\ cnt' = cnt /\ pc[w] = "steal_cas"
    BY <1>13, Zenon DEF StealCas
  <2>1. CASE pc'[w] = "steal_tail"
    BY <1>b, <2>0, <2>1, Zenon DEF TaskKnows, Stealing
  <2>2. CASE pc'[w] # "steal_tail"
    <3>1. /\ snap' = [snap EXCEPT ![w] = Packed(snap[w].steal, snap[w].real + cnt[w])]
          /\ pc' = [pc EXCEPT ![w] = "copy"]
      BY <1>13, <1>a, <2>2, Zenon DEF StealCas, Goto
    <3>2. snap[w].steal = snap[w].real
      BY <2>0, Zenon DEF IInv, ThiefKnows
    <3>3. snap'[w].steal = snap[w].steal /\ snap'[w].real = snap[w].real + cnt[w]
      BY <1>a, <3>1 DEF Packed
    <3>4. snap'[w].real = snap'[w].steal + cnt'[w]
      BY <2>0, <3>2, <3>3, Zenon
    <3> QED
      BY <1>a, <1>b, <2>0, <3>1, <3>4, Zenon DEF TaskKnows, Stealing
  <2> QED
    BY <2>1, <2>2, Zenon
<1>14. ASSUME StealCopy(w) PROVE TaskKnows(w)'
  BY <1>14, <1>a, <1>b, Zenon DEF StealCopy, Goto, TaskKnows, Stealing
<1>15. ASSUME StealRelease(w) PROVE TaskKnows(w)'
  BY <1>15, <1>a, <1>b, Zenon DEF StealRelease, Goto, TaskKnows, Stealing
<1>16. ASSUME StealTake(w) PROVE TaskKnows(w)'
  BY <1>16, <1>c, Zenon DEF StealTake
<1>17. ASSUME PullBegin(w) PROVE TaskKnows(w)'
  BY <1>17, <1>a, <1>b, Zenon DEF PullBegin, Goto, TaskKnows, Stealing
<1>18. ASSUME PullLoad(w) PROVE TaskKnows(w)'
  BY <1>18, <1>a, <1>b, Zenon DEF PullLoad, Goto, TaskKnows, Stealing
<1>19. ASSUME PullPop(w) PROVE TaskKnows(w)'
  BY <1>19, <1>a, <1>b, <1>c, Zenon DEF PullPop, Goto, TaskKnows, Stealing
<1>20. ASSUME PullBatch(w) PROVE TaskKnows(w)'
  BY <1>20, <1>a, <1>c, <1>e, Zenon DEF PullBatch, Goto
<1>21. TaskKnows(w)'
  BY <1>1, <1>2, <1>3, <1>4, <1>5, <1>6, <1>7, <1>8, <1>9,
     <1>10, <1>11, <1>12, <1>13, <1>14, <1>15, <1>16, <1>17, <1>18, <1>19, <1>20, Zenon DEF Step
<1>22. ASSUME NEW u \in Workers \ {w} PROVE TaskKnows(u)'
  <2>1. /\ pc'[u] = pc[u] /\ snap'[u] = snap[u] /\ victim'[u] = victim[u]
        /\ cnt'[u] = cnt[u] /\ hand'[u] = hand[u] /\ tail'[u] = tail[u]
        /\ head[u].steal <= head'[u].steal
    BY Frame, Zenon DEF OthersUntouched
  <2>2. /\ snap[u].real \in Nat /\ head[u].steal \in Nat /\ head'[u].steal \in Nat
    BY TypesHold, TypesHoldNext, Zenon DEF IInv, Typed
  <2>3. snap[u].real + Half <= head[u].steal => snap[u].real + Half <= head'[u].steal
    BY <2>1, <2>2, HalfProperties
  <2>4. TaskKnows(u)
    OBVIOUS
  <2> QED
    BY <2>1, <2>3, <2>4, Zenon DEF TaskKnows, Stealing
<1> QED
  BY <1>21, <1>22, Zenon

\* The tasks of a ring lie within CAP positions: from the oldest one that a
\* thief or push_overflow has not moved yet.
Oldest(q) == IF pc[q] = "spill" THEN snap[q].real ELSE head[q].steal

\* No two tasks of a ring share a slot.
LEMMA Window ==
  ASSUME IInv, \A u \in Workers : TaskKnows(u), NEW q \in Workers
  PROVE  /\ Oldest(q) \in Nat /\ Oldest(q) <= head[q].steal
         /\ \A i \in Int : Held(q, i) => Oldest(q) <= i /\ i < Oldest(q) + CAP
<1>1. /\ head[q].steal \in Nat /\ head[q].real \in Nat /\ tail[q] \in Nat
      /\ snap[q].real \in Nat /\ cnt[q] \in Nat
      /\ head[q].steal <= head[q].real /\ head[q].real <= tail[q]
      /\ tail[q] - head[q].steal <= CAP
  BY RingFacts, TypesHold, Zenon DEF IInv, Typed
<1>2. Half \in Nat \ {0} /\ CAP = 2 * Half
  BY HalfProperties
<1>3. /\ pc[q] = "spill" => /\ tail[q] = snap[q].real + CAP
                            /\ snap[q].real + Half <= head[q].steal
      /\ pc[q] \in {"release", "take"} => tail[q] - head[q].steal <= Half /\ cnt[q] \in 1..Half
  BY Zenon DEF TaskKnows, IInv, OwnerKnows, Stealing
<1>4. Oldest(q) \in Nat /\ Oldest(q) <= head[q].steal /\ tail[q] <= Oldest(q) + CAP
  BY <1>1, <1>2, <1>3 DEF Oldest
<1>5. ASSUME NEW i \in Int, Held(q, i) PROVE Oldest(q) <= i /\ i < Oldest(q) + CAP
  <2>0. Oldest(q) \in Nat /\ Oldest(q) <= head[q].steal /\ tail[q] <= Oldest(q) + CAP
    BY <1>4
  <2>1. CASE Published(q, i)
    BY <1>1, <1>2, <1>4, <2>1 DEF Published
  <2>2. CASE Copied(q, i)
    <3>1. PICK u \in Workers : /\ pc[u] = "copy" /\ victim[u] = q
                               /\ snap[u].steal <= i /\ i < snap[u].steal + cnt[u]
      BY <2>2, Zenon DEF Copied
    <3>2. /\ head[q].steal = snap[u].steal /\ snap[u].real <= head[q].real
          /\ snap[u].real = snap[u].steal + cnt[u]
      BY <3>1, Zenon DEF IInv, ThiefKnows, Thief, TaskKnows
    <3>3. snap[u].real \in Nat
      BY TypesHold, Zenon DEF IInv, Typed
    <3>4. head[q].steal <= i /\ i < snap[u].real
      BY <3>1, <3>2, Zenon
    <3> QED
      BY <1>1, <1>2, <1>4, <3>2, <3>3, <3>4
  <2>3. CASE Brought(q, i)
    <3>1. /\ Oldest(q) = head[q].steal /\ tail[q] - head[q].steal <= Half /\ cnt[q] \in 1..Half
          /\ tail[q] <= i /\ i < tail[q] + cnt[q]
      BY <1>3, <2>3 DEF Brought, Oldest
    <3> QED
      BY <1>1, <1>2, <3>1
  <2>4. CASE Claimed(q, i)
    <3>1. Oldest(q) = snap[q].real /\ snap[q].real <= i /\ i < snap[q].real + Half
      BY <2>4, Zenon DEF Claimed, Oldest
    <3> QED
      BY <1>1, <1>2, <3>1
  <2> QED
    BY <1>5, <2>1, <2>2, <2>3, <2>4, Zenon DEF Held
<1> QED
  BY <1>4, <1>5, Zenon

-----------------------------------------------------------------------------
\* The inductive invariant behind TasksConserved: IInv says which positions a
\* worker owns, TaskKnows what its local variables say of the tasks it moves,
\* and Fresh that the next task number is unused.
CInv == IInv /\ (\A w \in Workers : TaskKnows(w)) /\ Fresh /\ TasksConserved

\* A step that leaves every task in its place conserves them.
LEMMA Still ==
  ASSUME TypeOK, TypeOK', Fresh, TasksConserved,
         \A q \in Workers, i \in Int : Held(q, i)' <=> Held(q, i),
         buffer' = buffer, global' = global, \A u \in Workers : hand'[u] = hand[u],
         runs' = runs, created' = created, closed => closed'
  PROVE  Fresh' /\ TasksConserved'
<1>1. PlaceKinds /\ PlaceKinds'
  BY PlacesAre, PlacesAreNext, Zenon
<1>2. ASSUME NEW p PROVE p \in Places => p \in Places' /\ TaskAt(p)' = TaskAt(p)
  <2>1. ASSUME NEW q \in Workers, NEW i \in Int, Held(q, i), p = Ring(q, i)
        PROVE  p \in Places' /\ TaskAt(p)' = TaskAt(p)
    <3>1. Ring(q, i) \in Places'
      <4>1. Held(q, i)'
        BY <2>1, Zenon
      <4> QED
        BY <1>1, <4>1, Zenon DEF PlaceKinds
    <3>2. TaskAt(Ring(q, i))' = TaskAt(Ring(q, i))
      <4>1. TaskAt(Ring(q, i)) = buffer[q][Slot(i)]
        BY TaskAtIs, Zenon
      <4>2. TaskAt(Ring(q, i))' = buffer'[q][Slot(i)]
        BY TaskAtIsNext, Zenon
      <4>3. buffer'[q][Slot(i)] = buffer[q][Slot(i)]
        BY Zenon
      <4> QED
        BY <4>1, <4>2, <4>3, Zenon
    <3> QED
      BY <2>1, <3>1, <3>2, Zenon
  <2>2. ASSUME NEW i \in 1..Len(global), p = Glob(i)
        PROVE  p \in Places' /\ TaskAt(p)' = TaskAt(p)
    <3>1. Glob(i) \in Places'
      BY <1>1, Zenon DEF PlaceKinds
    <3>2. TaskAt(Glob(i))' = TaskAt(Glob(i))
      <4>1. TaskAt(Glob(i)) = global[i]
        BY TaskAtIs, Zenon
      <4>2. TaskAt(Glob(i))' = global'[i]
        BY TaskAtIsNext, Zenon
      <4>3. global'[i] = global[i]
        BY Zenon
      <4> QED
        BY <4>1, <4>2, <4>3, Zenon
    <3> QED
      BY <2>2, <3>1, <3>2, Zenon
  <2>3. ASSUME NEW u \in Workers, NEW i \in 1..Len(hand[u]), p = Hand(u, i)
        PROVE  p \in Places' /\ TaskAt(p)' = TaskAt(p)
    <3>1. Hand(u, i) \in Places'
      BY <1>1, Zenon DEF PlaceKinds
    <3>2. TaskAt(Hand(u, i))' = TaskAt(Hand(u, i))
      <4>1. TaskAt(Hand(u, i)) = hand[u][i]
        BY TaskAtIs, Zenon
      <4>2. TaskAt(Hand(u, i))' = hand'[u][i]
        BY TaskAtIsNext, Zenon
      <4>3. hand'[u][i] = hand[u][i]
        BY Zenon
      <4> QED
        BY <4>1, <4>2, <4>3, Zenon
    <3> QED
      BY <2>3, <3>1, <3>2, Zenon
  <2> QED
    BY <1>1, <2>1, <2>2, <2>3, Zenon DEF PlaceKinds
<1>3. ASSUME NEW p \in Places' PROVE p \in Places
  <2>1. ASSUME NEW q \in Workers, NEW i \in Int, Held(q, i)', p = Ring(q, i)
        PROVE  p \in Places
    BY <1>1, <2>1, Zenon DEF PlaceKinds
  <2>2. ASSUME NEW i \in 1..Len(global'), p = Glob(i)
        PROVE  p \in Places
    BY <1>1, <2>2, Zenon DEF PlaceKinds
  <2>3. ASSUME NEW u \in Workers, NEW i \in 1..Len(hand'[u]), p = Hand(u, i)
        PROVE  p \in Places
    BY <1>1, <2>3, Zenon DEF PlaceKinds
  <2> QED
    BY <1>1, <2>1, <2>2, <2>3, Zenon DEF PlaceKinds
<1>4. Places' = Places
  BY <1>2, <1>3, Zenon
<1>5. Ran(Places)
  BY Zenon DEF Ran
<1> QED
  BY <1>2, <1>4, <1>5, Kept, Zenon

\* So does a step that resumes the task of one position of a ring.
LEMMA StillBut ==
  ASSUME TypeOK, TypeOK', Fresh, TasksConserved, NEW w \in Workers, NEW r \in Int, Held(w, r),
         \A q \in Workers, i \in Int : Held(q, i)' <=> Held(q, i) /\ ~(q = w /\ i = r),
         Run(buffer[w][Slot(r)]),
         buffer' = buffer, global' = global, \A u \in Workers : hand'[u] = hand[u],
         created' = created, closed => closed'
  PROVE  Fresh' /\ TasksConserved'
<1>1. PlaceKinds /\ PlaceKinds'
  BY PlacesAre, PlacesAreNext, Zenon
<1> DEFINE S == Places \ {Ring(w, r)}
<1>2. ASSUME NEW p PROVE p \in S => p \in Places' /\ TaskAt(p)' = TaskAt(p)
  <2>1. ASSUME NEW q \in Workers, NEW i \in Int, Held(q, i), p = Ring(q, i), p # Ring(w, r)
        PROVE  p \in Places' /\ TaskAt(p)' = TaskAt(p)
    <3>1. Ring(q, i) \in Places'
      <4>1. Held(q, i)'
        BY <2>1, Zenon
      <4> QED
        BY <1>1, <4>1, Zenon DEF PlaceKinds
    <3>2. TaskAt(Ring(q, i))' = TaskAt(Ring(q, i))
      <4>1. TaskAt(Ring(q, i)) = buffer[q][Slot(i)]
        BY TaskAtIs, Zenon
      <4>2. TaskAt(Ring(q, i))' = buffer'[q][Slot(i)]
        BY TaskAtIsNext, Zenon
      <4>3. buffer'[q][Slot(i)] = buffer[q][Slot(i)]
        BY Zenon
      <4> QED
        BY <4>1, <4>2, <4>3, Zenon
    <3> QED
      BY <2>1, <3>1, <3>2, Zenon
  <2>2. ASSUME NEW i \in 1..Len(global), p = Glob(i)
        PROVE  p \in Places' /\ TaskAt(p)' = TaskAt(p)
    <3>1. Glob(i) \in Places'
      BY <1>1, Zenon DEF PlaceKinds
    <3>2. TaskAt(Glob(i))' = TaskAt(Glob(i))
      <4>1. TaskAt(Glob(i)) = global[i]
        BY TaskAtIs, Zenon
      <4>2. TaskAt(Glob(i))' = global'[i]
        BY TaskAtIsNext, Zenon
      <4>3. global'[i] = global[i]
        BY Zenon
      <4> QED
        BY <4>1, <4>2, <4>3, Zenon
    <3> QED
      BY <2>2, <3>1, <3>2, Zenon
  <2>3. ASSUME NEW u \in Workers, NEW i \in 1..Len(hand[u]), p = Hand(u, i)
        PROVE  p \in Places' /\ TaskAt(p)' = TaskAt(p)
    <3>1. Hand(u, i) \in Places'
      BY <1>1, Zenon DEF PlaceKinds
    <3>2. TaskAt(Hand(u, i))' = TaskAt(Hand(u, i))
      <4>1. TaskAt(Hand(u, i)) = hand[u][i]
        BY TaskAtIs, Zenon
      <4>2. TaskAt(Hand(u, i))' = hand'[u][i]
        BY TaskAtIsNext, Zenon
      <4>3. hand'[u][i] = hand[u][i]
        BY Zenon
      <4> QED
        BY <4>1, <4>2, <4>3, Zenon
    <3> QED
      BY <2>3, <3>1, <3>2, Zenon
  <2> QED
    BY <1>1, <2>1, <2>2, <2>3, Zenon DEF PlaceKinds
<1>6. ASSUME NEW p \in Places' PROVE p \in Places
  <2>1. ASSUME NEW q \in Workers, NEW i \in Int, Held(q, i)', p = Ring(q, i)
        PROVE  p \in Places
    BY <1>1, <2>1, Zenon DEF PlaceKinds
  <2>2. ASSUME NEW i \in 1..Len(global'), p = Glob(i)
        PROVE  p \in Places
    BY <1>1, <2>2, Zenon DEF PlaceKinds
  <2>3. ASSUME NEW u \in Workers, NEW i \in 1..Len(hand'[u]), p = Hand(u, i)
        PROVE  p \in Places
    BY <1>1, <2>3, Zenon DEF PlaceKinds
  <2> QED
    BY <1>1, <2>1, <2>2, <2>3, Zenon DEF PlaceKinds
<1>3. ASSUME NEW p PROVE p \in Places' => p \in S
  <2>2. Ring(w, r) \notin Places'
    BY <1>1, Zenon DEF PlaceKinds
  <2> QED
    BY <1>6, <2>2, Zenon
<1>4. Places' = S /\ S \subseteq Places
  BY <1>2, <1>3, Zenon
<1>5. Ran(S)
  <2>1. Ring(w, r) \in Places /\ TaskAt(Ring(w, r)) = buffer[w][Slot(r)]
    BY <1>1, TaskAtIs, Zenon DEF PlaceKinds
  <2> QED
    BY <2>1, Zenon DEF Ran
<1> HIDE DEF S
<1> QED
  BY <1>2, <1>4, <1>5, Kept, Zenon

\* What a thief has reserved is nobody else's business.
LEMMA CopiedElsewhere ==
  ASSUME NEW w \in Workers, OthersUntouched(w), pc[w] # "copy", pc'[w] # "copy"
  PROVE  \A q \in Workers, i \in Int : Copied(q, i)' <=> Copied(q, i)
<1> SUFFICES ASSUME NEW q \in Workers, NEW i \in Int PROVE Copied(q, i)' <=> Copied(q, i)
  BY Zenon
<1>1. \A u \in Workers : (pc'[u] = "copy" <=> pc[u] = "copy")
  BY Zenon DEF OthersUntouched
<1>2. \A u \in Workers : pc[u] = "copy" => /\ victim'[u] = victim[u] /\ snap'[u] = snap[u]
                                           /\ cnt'[u] = cnt[u]
  BY Zenon DEF OthersUntouched
<1> QED
  BY <1>1, <1>2, Zenon DEF Copied

\* The tasks in a ring stay where they are during steps that touch neither the
\* ring nor what is being moved.
LEMMA Quiet ==
  ASSUME NEW w \in Workers, OthersUntouched(w), tail' = tail,
         \A q \in Workers : head'[q].real = head[q].real,
         pc[w] \notin {"copy", "release", "take", "spill"},
         pc'[w] \notin {"copy", "release", "take", "spill"}
  PROVE  \A q \in Workers, i \in Int : Held(q, i)' <=> Held(q, i)
<1> SUFFICES ASSUME NEW q \in Workers, NEW i \in Int PROVE Held(q, i)' <=> Held(q, i)
  BY Zenon
<1>1. Copied(q, i)' <=> Copied(q, i)
  BY CopiedElsewhere, Zenon
<1>2. Published(q, i)' <=> Published(q, i)
  BY Zenon DEF Published
<1>3. Brought(q, i)' <=> Brought(q, i)
  BY Zenon DEF Brought, OthersUntouched
<1>4. Claimed(q, i)' <=> Claimed(q, i)
  BY Zenon DEF Claimed, OthersUntouched
<1> QED
  BY <1>1, <1>2, <1>3, <1>4, Zenon DEF Held

\* A step carries the tasks at a[k] to b[k], and leaves the others of S where
\* they are.
Carries(S, K, a, b) ==
  /\ S \subseteq Places
  /\ \A k \in K : a[k] \in S /\ TaskAt(b[k])' = TaskAt(a[k])
  /\ \A j \in K, k \in K : a[j] = a[k] \/ b[j] = b[k] => j = k
  /\ \A k \in K : b[k] \in S => \E j \in K : b[k] = a[j]
  /\ \A p : p \in Places' <=> \/ p \in S /\ \A k \in K : p # a[k]
                              \/ \E k \in K : p = b[k]
  /\ \A p \in S : (\A k \in K : p # a[k]) => TaskAt(p)' = TaskAt(p)

\* Such a step conserves tasks.
LEMMA Carried ==
  ASSUME TypeOK, Fresh, TasksConserved, NEW S, NEW K, NEW a, NEW b, Carries(S, K, a, b),
         Ran(S), created' = created, closed => closed'
  PROVE  Fresh' /\ TasksConserved'
<1> USE DEF Carries
<1> DEFINE M == [p \in Places' |->
                   IF \E k \in K : p = b[k] THEN a[CHOOSE k \in K : p = b[k]] ELSE p]
           N == [s \in S |-> IF \E k \in K : s = a[k] THEN b[CHOOSE k \in K : s = a[k]] ELSE s]
<1>1. ASSUME NEW k \in K PROVE b[k] \in Places' /\ M[b[k]] = a[k]
  <2>1. b[k] \in Places'
    BY Zenon
  <2>2. (CHOOSE j \in K : b[k] = b[j]) = k
    BY Zenon
  <2> QED
    BY <2>1, <2>2, Zenon
<1>2. ASSUME NEW k \in K PROVE a[k] \in S /\ N[a[k]] = b[k]
  <2>1. a[k] \in S
    BY Zenon
  <2>2. (CHOOSE j \in K : a[k] = a[j]) = k
    BY Zenon
  <2> QED
    BY <2>1, <2>2, Zenon
<1>3. ASSUME NEW p \in S, \A k \in K : p # a[k]
      PROVE  p \in Places' /\ M[p] = p /\ N[p] = p /\ TaskAt(p)' = TaskAt(p)
  <2>1. p \in Places'
    BY <1>3, Zenon
  <2>2. ASSUME NEW k \in K, p = b[k] PROVE FALSE
    <3>1. PICK j \in K : b[k] = a[j]
      BY <2>2, Zenon
    <3> QED
      BY <1>3, <2>2, <3>1, Zenon
  <2> QED
    BY <1>3, <2>1, <2>2, Zenon
<1> HIDE DEF M, N
<1>4. ASSUME NEW p \in Places' PROVE M[p] \in S /\ N[M[p]] = p /\ TaskAt(p)' = TaskAt(M[p])
  <2>1. ASSUME NEW k \in K, p = b[k]
        PROVE  M[p] \in S /\ N[M[p]] = p /\ TaskAt(p)' = TaskAt(M[p])
    <3>1. M[p] = a[k] /\ a[k] \in S /\ N[a[k]] = p
      BY <1>1, <1>2, <2>1, Zenon
    <3>2. TaskAt(b[k])' = TaskAt(a[k])
      BY Zenon
    <3>3. TaskAt(p)' = TaskAt(b[k])'
      BY <2>1
    <3> QED
      BY <3>1, <3>2, <3>3, Zenon
  <2>2. ASSUME p \in S, \A k \in K : p # a[k]
        PROVE  M[p] \in S /\ N[M[p]] = p /\ TaskAt(p)' = TaskAt(M[p])
    BY <1>3, <2>2, Zenon
  <2> QED
    BY <2>1, <2>2, Zenon
<1>5. ASSUME NEW s \in S PROVE N[s] \in Places' /\ M[N[s]] = s
  <2>1. ASSUME NEW k \in K, s = a[k]
        PROVE  N[s] \in Places' /\ M[N[s]] = s
    BY <1>1, <1>2, <2>1, Zenon
  <2>2. ASSUME \A k \in K : s # a[k]
        PROVE  N[s] \in Places' /\ M[N[s]] = s
    BY <1>3, <2>2, Zenon
  <2> QED
    BY <2>1, <2>2, Zenon
<1>6. Transfer(S, M, N)
  BY <1>4, <1>5, Zenon DEF Transfer
<1> QED
  BY <1>6, Moved, Zenon

\* A closed global queue may drop what it is given.
LEMMA Dropped ==
  ASSUME TypeOK, Fresh, TasksConserved, closed, closed', Places' \subseteq Places,
         \A p \in Places' : TaskAt(p)' = TaskAt(p), runs' = runs, created' = created
  PROVE  Fresh' /\ TasksConserved'
<1> DEFINE M == [p \in Places |-> p]
<1>1. Transfer(Places, M, M)
  BY Zenon DEF Transfer
<1>2. Ran(Places)
  BY Zenon DEF Ran
<1> HIDE DEF M
<1> QED
  BY <1>1, <1>2, Moved, Zenon

\* A new task appears in one place.
LEMMA Created ==
  ASSUME TypeOK, Fresh, TasksConserved, NEW h, h \notin Places,
         \A p : p \in Places' <=> p \in Places \/ p = h,
         TaskAt(h)' = created + 1, \A p \in Places : TaskAt(p)' = TaskAt(p),
         created < MaxTasks, created' = created + 1, runs' = runs, closed' = closed
  PROVE  Fresh' /\ TasksConserved'
<1>1. created \in Nat /\ created + 1 \in Tasks /\ created + 1 > created
  BY MaxTasksAssumption DEF TypeOK, Tasks
<1>2. /\ \A t \in Tasks : runs[t] <= 1 /\ (t > created => runs[t] = 0)
      /\ \A p \in Places : TaskAt(p) \in Tasks /\ runs[TaskAt(p)] = 0 /\ TaskAt(p) <= created
      /\ \A p1, p2 \in Places : TaskAt(p1) = TaskAt(p2) => p1 = p2
      /\ ~closed => \A t \in 1..created : runs[t] = 1 \/ \E p \in Places : TaskAt(p) = t
  BY Zenon DEF Fresh, TasksConserved, NoTaskDuplicated, NoTaskLost
<1>3. /\ \A t \in Tasks : t > created + 1 => t > created
      /\ \A t \in Tasks : t <= created => t <= created + 1 /\ t # created + 1
      /\ created + 1 <= created + 1
      /\ \A t : t \in 1..(created + 1) => t \in 1..created \/ t = created + 1
  BY <1>1 DEF Tasks
<1>4. Fresh'
  <2>1. \A t \in Tasks : t > created' => runs'[t] = 0
    BY <1>2, <1>3, Zenon
  <2>2. ASSUME NEW p \in Places' PROVE TaskAt(p)' <= created'
    <3>1. ASSUME p = h PROVE TaskAt(p)' <= created'
      <4>1. TaskAt(p)' = TaskAt(h)'
        BY <3>1
      <4> QED
        BY <1>3, <4>1, Zenon
    <3>2. ASSUME p \in Places PROVE TaskAt(p)' <= created'
      <4>1. TaskAt(p)' = TaskAt(p)
        BY <3>2, Zenon
      <4> QED
        BY <1>2, <1>3, <3>2, <4>1, Zenon
    <3> QED
      BY <3>1, <3>2, Zenon
  <2> QED
    BY <2>1, <2>2, Zenon DEF Fresh
<1>5. ASSUME NEW p \in Places' PROVE TaskAt(p)' \in Tasks /\ runs'[TaskAt(p)'] = 0
  <2>1. ASSUME p = h PROVE TaskAt(p)' \in Tasks /\ runs'[TaskAt(p)'] = 0
    <3>1. TaskAt(p)' = TaskAt(h)'
      BY <2>1
    <3> QED
      BY <1>1, <1>2, <3>1, Zenon
  <2>2. ASSUME p \in Places PROVE TaskAt(p)' \in Tasks /\ runs'[TaskAt(p)'] = 0
    <3>1. TaskAt(p)' = TaskAt(p)
      BY <2>2, Zenon
    <3> QED
      BY <1>2, <2>2, <3>1, Zenon
  <2> QED
    BY <2>1, <2>2, Zenon
<1>6. ASSUME NEW p1 \in Places', NEW p2 \in Places', TaskAt(p1)' = TaskAt(p2)' PROVE p1 = p2
  <2>1. ASSUME NEW p \in Places PROVE TaskAt(p)' # TaskAt(h)'
    <3>1. TaskAt(p)' = TaskAt(p)
      BY Zenon
    <3> QED
      BY <1>2, <1>3, <3>1, Zenon
  <2>2. CASE p1 \in Places /\ p2 \in Places
    <3>1. TaskAt(p1)' = TaskAt(p1) /\ TaskAt(p2)' = TaskAt(p2)
      BY <2>2, Zenon
    <3> QED
      BY <1>2, <1>6, <2>2, <3>1, Zenon
  <2>3. CASE p1 \in Places /\ p2 = h
    <3>1. TaskAt(p2)' = TaskAt(h)'
      BY <2>3
    <3> QED
      BY <1>6, <2>1, <2>3, <3>1, Zenon
  <2>4. CASE p1 = h /\ p2 \in Places
    <3>1. TaskAt(p1)' = TaskAt(h)'
      BY <2>4
    <3> QED
      BY <1>6, <2>1, <2>4, <3>1, Zenon
  <2> QED
    BY <2>2, <2>3, <2>4, Zenon
<1>7. ASSUME ~closed', NEW t \in 1..created'
      PROVE  runs'[t] = 1 \/ \E p \in Places' : TaskAt(p)' = t
  <2>1. CASE t = created + 1
    BY <2>1, Zenon
  <2>2. CASE t \in 1..created
    <3>1. runs[t] = 1 \/ \E p \in Places : TaskAt(p) = t
      BY <1>2, <1>7, <2>2, Zenon
    <3>2. CASE runs[t] = 1
      BY <3>2, Zenon
    <3>3. CASE \E p \in Places : TaskAt(p) = t
      <4>1. PICK p \in Places : TaskAt(p) = t
        BY <3>3, Zenon
      <4>2. TaskAt(p)' = t
        BY <4>1, Zenon
      <4> QED
        BY <4>2, Zenon
    <3> QED
      BY <3>1, <3>2, <3>3, Zenon
  <2> QED
    BY <1>3, <2>1, <2>2, Zenon
<1> QED
  BY <1>2, <1>4, <1>5, <1>6, <1>7, Zenon DEF TasksConserved, NoTaskDuplicated, NoTaskLost

\* A step that only looks at the queues, or only changes its worker's notes.
LEMMA LookingKeeps ==
  ASSUME CInv, TypeOK', NEW w \in Workers, OthersUntouched(w),
         UNCHANGED <<head, tail, buffer, global, closed, created, runs>>,
         hand'[w] = hand[w],
         pc[w] \notin {"copy", "release", "take", "spill"},
         pc'[w] \notin {"copy", "release", "take", "spill"}
  PROVE  Fresh' /\ TasksConserved'
<1>1. \A q \in Workers, i \in Int : Held(q, i)' <=> Held(q, i)
  BY Quiet, Zenon
<1>2. \A u \in Workers : hand'[u] = hand[u]
  BY Zenon DEF OthersUntouched
<1>3. TypeOK /\ Fresh /\ TasksConserved
  BY Zenon DEF CInv, IInv
<1> QED
  BY <1>1, <1>2, <1>3, Still, Zenon

\* The steps of that kind.
LEMMA LookingSteps ==
  ASSUME CInv, TypeOK', NEW w \in Workers, OthersUntouched(w),
         \/ PushRoom(w) \/ PushFull(w) \/ PopBegin(w)
         \/ pc[w] = "pop" /\ PopLoad(w)
         \/ \E v \in Workers : StealBegin(w, v)
         \/ StealTail(w) \/ PullBegin(w) \/ PullLoad(w)
         \/ GlobalPop(w) /\ global = <<>>
         \/ OverflowCas(w) /\ pc'[w] # "spill"
         \/ StealCas(w) /\ pc'[w] # "copy"
  PROVE  Fresh' /\ TasksConserved'
<1> USE DEF queueVars, globalVars, histVars
<1>a. /\ pc \in [Workers -> Labels] /\ hand \in [Workers -> Seq(Handles)]
      /\ head \in [Workers -> Heads]
  BY Zenon DEF CInv, IInv, TypeOK
<1>b. TaskKnows(w)
  BY Zenon DEF CInv
<1> DEFINE Looks == /\ UNCHANGED <<head, tail, buffer, global, closed, created, runs>>
                    /\ hand'[w] = hand[w]
                    /\ pc[w] \notin {"copy", "release", "take", "spill"}
                    /\ pc'[w] \notin {"copy", "release", "take", "spill"}
<1>c. ASSUME Return(w) PROVE pc'[w] = "idle" /\ hand'[w] = <<>>
  BY <1>a, <1>c, Zenon DEF Return, Goto
<1>1. ASSUME PushRoom(w) PROVE Looks
  BY <1>a, <1>1, Zenon DEF PushRoom, Goto
<1>2. ASSUME PushFull(w) PROVE Looks
  BY <1>a, <1>2, Zenon DEF PushFull, Goto
<1>3. ASSUME pc[w] \in {"idle", "pop"}, PopLoad(w) PROVE Looks
  <2>1. hand[w] = <<>> /\ pc[w] \notin {"copy", "release", "take", "spill"}
    BY <1>3, <1>b, Zenon DEF TaskKnows
  <2>2. UNCHANGED <<head, tail, buffer, global, closed, created, runs>>
    BY <1>3, Zenon DEF PopLoad
  <2>3. hand'[w] = hand[w] /\ (pc'[w] = "idle" \/ pc'[w] = "pop")
    BY <1>a, <1>c, <1>3, <2>1, Zenon DEF PopLoad, Goto
  <2> QED
    BY <2>1, <2>2, <2>3, Zenon
<1>4. ASSUME PopBegin(w) PROVE Looks
  BY <1>3, <1>4, Zenon DEF PopBegin
<1>5. ASSUME NEW v \in Workers, StealBegin(w, v) PROVE Looks
  BY <1>a, <1>5, Zenon DEF StealBegin, Goto
<1>6. ASSUME StealTail(w) PROVE Looks
  <2>1. hand[w] = <<>> /\ pc[w] \notin {"copy", "release", "take", "spill"}
    BY <1>6, <1>b, Zenon DEF TaskKnows, StealTail
  <2>2. UNCHANGED <<head, tail, buffer, global, closed, created, runs>>
    BY <1>6, Zenon DEF StealTail
  <2>3. hand'[w] = hand[w] /\ (pc'[w] = "idle" \/ pc'[w] = "steal_cas")
    BY <1>a, <1>c, <1>6, <2>1, Zenon DEF StealTail, Goto
  <2> QED
    BY <2>1, <2>2, <2>3, Zenon
<1>7. ASSUME PullBegin(w) PROVE Looks
  BY <1>a, <1>7, Zenon DEF PullBegin, Goto
<1>8. ASSUME PullLoad(w) PROVE Looks
  <2>1. pc'[w] = "pop_one" \/ pc'[w] = "pull"
    BY <1>a, <1>8, Zenon DEF PullLoad, Goto
  <2> QED
    BY <2>1, <1>8, Zenon DEF PullLoad
<1>9. ASSUME GlobalPop(w), global = <<>> PROVE Looks
  <2>1. hand[w] = <<>> /\ pc[w] \notin {"copy", "release", "take", "spill"}
    BY <1>9, <1>b, Zenon DEF TaskKnows, GlobalPop
  <2> QED
    BY <1>c, <1>9, <2>1, Zenon DEF GlobalPop
<1>10. ASSUME OverflowCas(w), pc'[w] # "spill" PROVE Looks
  <2>1. head' = head /\ pc'[w] = "push"
    BY <1>a, <1>10, Zenon DEF OverflowCas, Goto
  <2> QED
    BY <1>10, <2>1, Zenon DEF OverflowCas
<1>11. ASSUME StealCas(w), pc'[w] # "copy" PROVE Looks
  <2>1. head' = head /\ pc'[w] = "steal_tail"
    BY <1>a, <1>11, Zenon DEF StealCas, Goto
  <2> QED
    BY <1>11, <2>1, Zenon DEF StealCas
<1>12. Looks
  BY <1>1, <1>2, <1>3, <1>4, <1>5, <1>6, <1>7, <1>8, <1>9, <1>10, <1>11, Zenon
<1> QED
  BY <1>12, LookingKeeps, Zenon

\* A pop resumes the oldest task of the ring.
LEMMA PopKeeps ==
  ASSUME CInv, TypeOK', NEW w \in Workers, OthersUntouched(w), PopCas(w)
  PROVE  Fresh' /\ TasksConserved'
<1> USE DEF queueVars, globalVars, histVars
<1>1. CASE pc[w] = "pop" /\ PopLoad(w)
  BY <1>1, LookingSteps, Zenon
<1>2. CASE ~PopLoad(w)
  <2> DEFINE r == snap[w].real
  <2>a. /\ pc[w] = "pop" /\ head[w] = snap[w] /\ Return(w) /\ Run(buffer[w][Slot(r)])
        /\ UNCHANGED <<tail, buffer, global, closed, created>>
    BY <1>2, Zenon DEF PopCas
  <2>b. \E s : head' = [head EXCEPT ![w] = Packed(s, r + 1)]
    BY <1>2, Zenon DEF PopCas
  <2>c. /\ pc \in [Workers -> Labels] /\ hand \in [Workers -> Seq(Handles)]
        /\ head \in [Workers -> Heads] /\ TypeOK /\ IInv /\ TaskKnows(w)
        /\ Fresh /\ TasksConserved
    BY Zenon DEF CInv, IInv, TypeOK
  <2>d. r \in Nat /\ tail[w] \in Nat /\ r < tail[w]
    BY <2>a, <2>c, TypesHold, Zenon DEF IInv, OwnerKnows, Typed
  <2>e. /\ head[w].real = r /\ head'[w].real = r + 1
        /\ \A q \in Workers \ {w} : head'[q].real = head[q].real
    BY <2>a, <2>b, <2>c DEF Packed
  <2>f. pc'[w] = "idle" /\ hand'[w] = <<>> /\ hand[w] = <<>>
    BY <2>a, <2>c, Zenon DEF Return, Goto, TaskKnows
  <2>g. Held(w, r)
    <3>1. head[w].real <= r
      BY <2>d, <2>e
    <3> QED
      BY <3>1, <2>d, Zenon DEF Held, Published
  <2>h. ASSUME NEW q \in Workers, NEW i \in Int
        PROVE  Held(q, i)' <=> Held(q, i) /\ ~(q = w /\ i = r)
    <3>1. Copied(q, i)' <=> Copied(q, i)
      BY <2>a, <2>f, CopiedElsewhere, Zenon
    <3>2. Brought(q, i)' <=> Brought(q, i)
      BY <2>a, <2>f, Zenon DEF Brought, OthersUntouched
    <3>3. Claimed(q, i)' <=> Claimed(q, i)
      BY <2>a, <2>f, Zenon DEF Claimed, OthersUntouched
    <3>4. CASE q # w
      BY <2>a, <2>e, <3>1, <3>2, <3>3, <3>4, Zenon DEF Held, Published
    <3>5. CASE q = w
      <4>1. Published(w, i)' <=> Published(w, i) /\ i # r
        BY <2>a, <2>d, <2>e DEF Published
      <4>2. ~Brought(w, i) /\ ~Claimed(w, i)
        BY <2>a, Zenon DEF Brought, Claimed
      <4>3. ~Copied(w, r)
        <5>1. SUFFICES ASSUME NEW u \in Workers, pc[u] = "copy", victim[u] = w,
                              r < snap[u].steal + cnt[u]
                       PROVE  FALSE
          BY Zenon DEF Copied
        <5>2. /\ snap[u].real <= head[w].real /\ snap[u].real = snap[u].steal + cnt[u]
              /\ snap[u].real \in Nat
          BY <2>c, <5>1, TypesHold, Zenon DEF CInv, IInv, ThiefKnows, Thief, TaskKnows, Typed
        <5> QED
          BY <2>d, <2>e, <5>1, <5>2
      <4> QED
        BY <3>1, <3>2, <3>3, <3>5, <4>1, <4>2, <4>3, Zenon DEF Held
    <3> QED
      BY <3>4, <3>5, Zenon
  <2>i. \A u \in Workers : hand'[u] = hand[u]
    BY <2>f, Zenon DEF OthersUntouched
  <2>j. r \in Int
    BY <2>d
  <2> QED
    BY <2>a, <2>c, <2>g, <2>h, <2>i, <2>j, StillBut, Zenon
<1> QED
  BY <1>1, <1>2, Zenon DEF PopCas

\* What the invariants say of one worker.
Facts(w) ==
  /\ TypeOK /\ IInv /\ Fresh /\ TasksConserved
  /\ TaskKnows(w) /\ OwnerKnows(w) /\ ThiefKnows(w)
  /\ pc \in [Workers -> Labels] /\ hand \in [Workers -> Seq(Handles)]
  /\ head \in [Workers -> Heads] /\ tail \in [Workers -> Nat]
  /\ snap \in [Workers -> Heads] /\ cnt \in [Workers -> Nat]
  /\ buffer \in [Workers -> [0..CAP - 1 -> Handles]] /\ global \in Seq(Handles)
  /\ tail[w] \in Nat /\ head[w].steal \in Nat /\ head[w].real \in Nat
  /\ snap[w].steal \in Nat /\ snap[w].real \in Nat /\ cnt[w] \in Nat
  /\ victim[w] \in Workers /\ hand[w] \in Seq(Handles) /\ Len(hand[w]) \in Nat
  /\ head[w].steal <= head[w].real /\ head[w].real <= tail[w]
  /\ tail[w] - head[w].steal <= CAP

\* The invariants say so.
LEMMA Known ==
  ASSUME CInv, NEW w \in Workers
  PROVE  Facts(w)
<1> USE DEF Facts
<1>1. TypeOK /\ IInv /\ Fresh /\ TasksConserved /\ TaskKnows(w) /\ OwnerKnows(w) /\ ThiefKnows(w)
  BY Zenon DEF CInv, IInv
<1>2. /\ pc \in [Workers -> Labels] /\ hand \in [Workers -> Seq(Handles)]
      /\ head \in [Workers -> Heads] /\ tail \in [Workers -> Nat]
      /\ snap \in [Workers -> Heads] /\ cnt \in [Workers -> Nat]
      /\ buffer \in [Workers -> [0..CAP - 1 -> Handles]] /\ global \in Seq(Handles)
  BY <1>1, Zenon DEF TypeOK
<1>3. /\ tail[w] \in Nat /\ head[w].steal \in Nat /\ head[w].real \in Nat
      /\ snap[w].steal \in Nat /\ snap[w].real \in Nat /\ cnt[w] \in Nat
      /\ victim[w] \in Workers /\ hand[w] \in Seq(Handles) /\ Len(hand[w]) \in Nat
  BY <1>1, TypesHold, Zenon DEF Typed
<1>4. /\ head[w].steal <= head[w].real /\ head[w].real <= tail[w]
      /\ tail[w] - head[w].steal <= CAP
  BY <1>1, Zenon DEF IInv, RingBounds
<1> QED
  BY <1>1, <1>2, <1>3, <1>4, Zenon

\* push_overflow claims the older half of the ring: the tasks it claims were
\* published, and no thief has reserved one of them.
LEMMA OverflowKeeps ==
  ASSUME CInv, TypeOK', NEW w \in Workers, OthersUntouched(w), OverflowCas(w)
  PROVE  Fresh' /\ TasksConserved'
<1> USE DEF queueVars, globalVars, histVars
<1>1. CASE pc'[w] # "spill"
  BY <1>1, LookingSteps, Zenon
<1>2. CASE pc'[w] = "spill"
  <2> DEFINE r == snap[w].real
  <2> USE DEF Facts
  <2>k. Facts(w)
    BY Known, Zenon
  <2>a. /\ pc[w] = "overflow" /\ head[w] = Packed(r, r) /\ snap' = snap
        /\ head' = [head EXCEPT ![w] = Packed(r + CAP \div 2, r + CAP \div 2)]
        /\ UNCHANGED <<tail, buffer, global, closed, created, runs, hand>>
    BY <1>2, <2>k, Zenon DEF OverflowCas, Goto
  <2>b. tail[w] = r + CAP /\ r \in Nat /\ tail[w] \in Nat
    BY <2>a, <2>k, Zenon DEF OwnerKnows
  <2>c. Half \in Nat \ {0} /\ CAP = 2 * Half
    BY HalfProperties
  <2>d. /\ head[w].real = r /\ head'[w].real = r + Half
        /\ \A q \in Workers \ {w} : head'[q].real = head[q].real
    BY <2>a, <2>k DEF Packed, Half
  <2>h. ASSUME NEW q \in Workers, NEW i \in Int
        PROVE  Held(q, i)' <=> Held(q, i)
    <3>1. Copied(q, i)' <=> Copied(q, i)
      BY <1>2, <2>a, CopiedElsewhere, Zenon
    <3>2. Brought(q, i)' <=> Brought(q, i)
      BY <1>2, <2>a, Zenon DEF Brought, OthersUntouched
    <3>3. CASE q # w
      <4>1. Claimed(q, i)' <=> Claimed(q, i)
        BY <3>3, Zenon DEF Claimed, OthersUntouched
      <4>2. Published(q, i)' <=> Published(q, i)
        BY <2>a, <2>d, <3>3, Zenon DEF Published
      <4> QED
        BY <3>1, <3>2, <4>1, <4>2, Zenon DEF Held
    <3>4. CASE q = w
      <4>1. Published(w, i) <=> r <= i /\ i < r + CAP
        BY <2>b, <2>d DEF Published
      <4>2. Published(w, i)' <=> r + Half <= i /\ i < r + CAP
        BY <2>a, <2>b, <2>d DEF Published
      <4>3. ~Claimed(w, i) /\ (Claimed(w, i)' <=> r <= i /\ i < r + Half)
        BY <1>2, <2>a DEF Claimed
      <4>4. r <= i /\ i < r + CAP <=> (r + Half <= i /\ i < r + CAP) \/ (r <= i /\ i < r + Half)
        BY <2>b, <2>c
      <4> QED
        BY <3>1, <3>2, <3>4, <4>1, <4>2, <4>3, <4>4, Zenon DEF Held
    <3> QED
      BY <3>3, <3>4, Zenon
  <2>i. \A u \in Workers : hand'[u] = hand[u]
    BY <2>a, Zenon
  <2> QED
    BY <2>a, <2>h, <2>i, <2>k, Still, Zenon
<1> QED
  BY <1>1, <1>2, Zenon

\* A thief reserves the oldest published tasks of its victim: they change from
\* published to copied.
LEMMA ReserveKeeps ==
  ASSUME CInv, TypeOK', NEW w \in Workers, OthersUntouched(w), StealCas(w)
  PROVE  Fresh' /\ TasksConserved'
<1> USE DEF queueVars, globalVars, histVars
<1>1. CASE pc'[w] # "copy"
  BY <1>1, LookingSteps, Zenon
<1>2. CASE pc'[w] = "copy"
  <2> DEFINE v == victim[w]
             s == snap[w].steal
             n == cnt[w]
  <2> USE DEF Facts
  <2>k. Facts(w)
    BY Known, Zenon
  <2>a. /\ pc[w] = "steal_cas" /\ head[v] = snap[w]
        /\ head' = [head EXCEPT ![v] = Packed(s, snap[w].real + n)]
        /\ snap' = [snap EXCEPT ![w] = Packed(s, snap[w].real + n)]
        /\ UNCHANGED <<tail, buffer, global, closed, created, runs, hand, victim, cnt>>
    BY <1>2, <2>k, Zenon DEF StealCas, Goto
  <2>b. /\ s \in Nat /\ n \in Nat /\ snap[w].real = s /\ v \in Workers
        /\ head[v] = snap[w] => n <= tail[v] - snap[w].real
    BY <2>a, <2>k, Zenon DEF ThiefKnows
  <2>c. /\ head[v].real = s /\ head'[v].real = s + n /\ n <= tail[v] - s
        /\ \A q \in Workers \ {v} : head'[q].real = head[q].real
        /\ snap'[w].steal = s
    BY <2>a, <2>b, <2>k DEF Packed
  <2>t. tail[v] \in Nat
    BY <2>k, <2>b, Zenon
  <2>h. ASSUME NEW q \in Workers, NEW i \in Int
        PROVE  Held(q, i)' <=> Held(q, i)
    <3>2. Brought(q, i)' <=> Brought(q, i)
      BY <1>2, <2>a, Zenon DEF Brought, OthersUntouched
    <3>3. Claimed(q, i)' <=> Claimed(q, i)
      BY <1>2, <2>a, Zenon DEF Claimed, OthersUntouched
    <3>4. Copied(q, i)' <=> Copied(q, i) \/ (q = v /\ s <= i /\ i < s + n)
      <4>1. ASSUME NEW u \in Workers
            PROVE  (/\ pc'[u] = "copy" /\ victim'[u] = q
                    /\ snap'[u].steal <= i /\ i < snap'[u].steal + cnt'[u])
                   <=> \/ /\ pc[u] = "copy" /\ victim[u] = q
                          /\ snap[u].steal <= i /\ i < snap[u].steal + cnt[u]
                       \/ u = w /\ q = v /\ s <= i /\ i < s + n
        <5>1. CASE u = w
          BY <1>2, <2>a, <2>c, <5>1, Zenon
        <5>2. CASE u # w
          BY <5>2, Zenon DEF OthersUntouched
        <5> QED
          BY <5>1, <5>2, Zenon
      <4> QED
        BY <4>1, Zenon DEF Copied
    <3>5. CASE q # v
      <4>1. Published(q, i)' <=> Published(q, i)
        BY <2>a, <2>c, <3>5, Zenon DEF Published
      <4> QED
        BY <3>2, <3>3, <3>4, <3>5, <4>1, Zenon DEF Held
    <3>6. CASE q = v
      <4>1. Published(q, i) <=> s <= i /\ i < tail[v]
        BY <2>c, <3>6, Zenon DEF Published
      <4>2. Published(q, i)' <=> s + n <= i /\ i < tail[v]
        BY <2>a, <2>c, <3>6, Zenon DEF Published
      <4>3. s <= i /\ i < tail[v] <=> (s + n <= i /\ i < tail[v]) \/ (s <= i /\ i < s + n)
        BY <2>b, <2>c, <2>t
      <4>4. Published(q, i) <=> Published(q, i)' \/ (q = v /\ s <= i /\ i < s + n)
        BY <3>6, <4>1, <4>2, <4>3, Zenon
      <4> QED
        BY <3>2, <3>3, <3>4, <4>4, Zenon DEF Held
    <3> QED
      BY <3>5, <3>6, Zenon
  <2>i. \A u \in Workers : hand'[u] = hand[u]
    BY <2>a, Zenon
  <2> QED
    BY <2>a, <2>h, <2>i, <2>k, Still, Zenon
<1> QED
  BY <1>1, <1>2, Zenon

\* Giving the slots back moves no task: steal catches up with real.
LEMMA ReleaseKeeps ==
  ASSUME CInv, TypeOK', NEW w \in Workers, OthersUntouched(w), StealRelease(w)
  PROVE  Fresh' /\ TasksConserved'
<1> USE DEF queueVars, globalVars, histVars
<1> USE DEF Facts
<1>k. Facts(w)
  BY Known, Zenon
<1>a. /\ pc[w] = "release" /\ pc'[w] \in {"release", "take"}
      /\ UNCHANGED <<tail, buffer, global, closed, created, runs, hand, cnt>>
  BY <1>k, Zenon DEF StealRelease, Goto
<1>b. \A q \in Workers : head'[q].real = head[q].real
  <2>1. CASE head' = head
    BY <2>1, Zenon
  <2>2. CASE head' # head
    <3>1. /\ head[victim[w]] = snap[w]
          /\ head' = [head EXCEPT ![victim[w]] = Packed(snap[w].real, snap[w].real)]
      BY <2>2, Zenon DEF StealRelease
    <3> QED
      BY <1>k, <3>1 DEF Packed
  <2> QED
    BY <2>1, <2>2, Zenon
<1>h. ASSUME NEW q \in Workers, NEW i \in Int
      PROVE  Held(q, i)' <=> Held(q, i)
  <2>1. Copied(q, i)' <=> Copied(q, i)
    <3>1. pc[w] # "copy" /\ pc'[w] # "copy"
      BY <1>a, Zenon
    <3> QED
      BY <3>1, CopiedElsewhere, Zenon
  <2>2. Brought(q, i)' <=> Brought(q, i)
    BY <1>a, Zenon DEF Brought, OthersUntouched
  <2>3. Claimed(q, i)' <=> Claimed(q, i)
    BY <1>a, Zenon DEF Claimed, OthersUntouched
  <2>4. Published(q, i)' <=> Published(q, i)
    BY <1>a, <1>b, Zenon DEF Published
  <2> QED
    BY <2>1, <2>2, <2>3, <2>4, Zenon DEF Held
<1>i. \A u \in Workers : hand'[u] = hand[u]
  BY <1>a, Zenon
<1> QED
  BY <1>a, <1>h, <1>i, <1>k, Still, Zenon

\* The thief resumes the last task it brought and publishes the others.
LEMMA TakeKeeps ==
  ASSUME CInv, TypeOK', NEW w \in Workers, OthersUntouched(w), StealTake(w)
  PROVE  Fresh' /\ TasksConserved'
<1> USE DEF queueVars, globalVars, histVars
<1> DEFINE n == cnt[w]
           r == tail[w] + (n - 1)
<1> USE DEF Facts
<1>k. Facts(w)
  BY Known, Zenon
<1>a. /\ pc[w] = "take" /\ Run(buffer[w][Slot(r)]) /\ Return(w)
      /\ tail' = [tail EXCEPT ![w] = @ + (n - 1)]
      /\ UNCHANGED <<head, buffer, global, closed, created>>
  BY Zenon DEF StealTake
<1>b. /\ n \in 1..Half /\ tail[w] \in Nat /\ hand[w] = <<>>
      /\ head[w].real \in Nat /\ head[w].real <= tail[w]
  BY <1>a, <1>k, Zenon DEF OwnerKnows, TaskKnows
<1>c. Half \in Nat
  BY HalfProperties
<1>d. tail'[w] = tail[w] + (n - 1) /\ pc'[w] = "idle" /\ hand'[w] = <<>>
  BY <1>a, <1>k, Zenon DEF Return, Goto
<1>e. /\ r \in Int /\ tail[w] <= r /\ r < tail[w] + n
  BY <1>b, <1>c
<1>f. Held(w, r)
  BY <1>a, <1>e, Zenon DEF Held, Brought
<1>h. ASSUME NEW q \in Workers, NEW i \in Int
      PROVE  Held(q, i)' <=> Held(q, i) /\ ~(q = w /\ i = r)
  <2>1. Copied(q, i)' <=> Copied(q, i)
    <3>1. pc[w] # "copy" /\ pc'[w] # "copy"
      BY <1>a, <1>d, Zenon
    <3> QED
      BY <3>1, CopiedElsewhere, Zenon
  <2>2. Claimed(q, i)' <=> Claimed(q, i)
    BY <1>a, <1>d, Zenon DEF Claimed, OthersUntouched
  <2>3. CASE q # w
    <3>1. Published(q, i)' <=> Published(q, i)
      BY <1>a, <2>3, Zenon DEF Published, OthersUntouched
    <3>2. Brought(q, i)' <=> Brought(q, i)
      BY <2>3, Zenon DEF Brought, OthersUntouched
    <3> QED
      BY <2>1, <2>2, <2>3, <3>1, <3>2, Zenon DEF Held
  <2>4. CASE q = w
    <3>1. ~Claimed(w, i) /\ ~Claimed(w, i)' /\ ~Brought(w, i)'
      BY <1>a, <1>d, Zenon DEF Claimed, Brought
    <3>2. Brought(w, i) <=> tail[w] <= i /\ i < tail[w] + n
      BY <1>a, Zenon DEF Brought
    <3>3. Published(w, i)' <=> head[w].real <= i /\ i < tail[w] + (n - 1)
      BY <1>a, <1>d, Zenon DEF Published
    <3>4. Published(w, i) <=> head[w].real <= i /\ i < tail[w]
      BY Zenon DEF Published
    <3>5. (head[w].real <= i /\ i < tail[w] + (n - 1))
          <=> ((head[w].real <= i /\ i < tail[w]) \/ (tail[w] <= i /\ i < tail[w] + n)) /\ i # r
      BY <1>b, <1>c
    <3>6. ASSUME Copied(w, i) PROVE i # r
      <4>1. PICK u \in Workers : pc[u] = "copy" /\ victim[u] = w /\ i < snap[u].steal + cnt[u]
        BY <3>6, Zenon DEF Copied
      <4>2. /\ snap[u].real <= head[w].real /\ snap[u].real = snap[u].steal + cnt[u]
            /\ snap[u].real \in Nat
        BY <1>k, <4>1, TypesHold, Zenon DEF CInv, IInv, ThiefKnows, Thief, TaskKnows, Typed
      <4>3. i < snap[u].real
        BY <4>1, <4>2, Zenon
      <4> QED
        BY <1>b, <1>e, <4>2, <4>3
    <3> HIDE DEF n, r
    <3>7. Published(w, i)' <=> (Published(w, i) \/ Brought(w, i)) /\ i # r
      BY <3>2, <3>3, <3>4, <3>5, Zenon
    <3> QED
      BY <2>1, <2>4, <3>1, <3>6, <3>7, Zenon DEF Held
  <2> QED
    BY <2>3, <2>4, Zenon
<1>i. \A u \in Workers : hand'[u] = hand[u]
  BY <1>b, <1>d, Zenon DEF OthersUntouched
<1> HIDE DEF n, r
<1> QED
  BY <1>a, <1>e, <1>f, <1>h, <1>i, <1>k, StillBut, Zenon

\* What there is at each kind of place, before and after a step.
LEMMA Rings ==
  ASSUME TypeOK, TypeOK', NEW q \in Workers, NEW i \in Int
  PROVE  /\ Ring(q, i) \in Places <=> Held(q, i)
         /\ Ring(q, i) \in Places' <=> Held(q, i)'
         /\ TaskAt(Ring(q, i)) = buffer[q][Slot(i)]
         /\ TaskAt(Ring(q, i))' = buffer'[q][Slot(i)]
<1>1. PlaceKinds /\ PlaceKinds'
  BY PlacesAre, PlacesAreNext, Zenon
<1>2. Ring(q, i) \in Places <=> Held(q, i)
  BY <1>1, Zenon DEF PlaceKinds
<1>3. Ring(q, i) \in Places' <=> Held(q, i)'
  BY <1>1, Zenon DEF PlaceKinds
<1>4. TaskAt(Ring(q, i))' = buffer'[q][Slot(i)]
  BY TaskAtIsNext, Zenon
<1> QED
  BY <1>2, <1>3, <1>4, TaskAtIs, Zenon

\* ...in the global queue...
LEMMA Globs ==
  ASSUME TypeOK, TypeOK', NEW i
  PROVE  /\ Glob(i) \in Places <=> i \in 1..Len(global)
         /\ Glob(i) \in Places' <=> i \in 1..Len(global')
         /\ TaskAt(Glob(i)) = global[i]
         /\ TaskAt(Glob(i))' = global'[i]
<1>1. PlaceKinds /\ PlaceKinds'
  BY PlacesAre, PlacesAreNext, Zenon
<1>2. Glob(i) \in Places <=> i \in 1..Len(global)
  BY <1>1, Zenon DEF PlaceKinds
<1>3. Glob(i) \in Places' <=> i \in 1..Len(global')
  BY <1>1, Zenon DEF PlaceKinds
<1>4. TaskAt(Glob(i))' = global'[i]
  BY TaskAtIsNext, Zenon
<1> QED
  BY <1>2, <1>3, <1>4, TaskAtIs, Zenon

\* ...and in the hands of a worker.
LEMMA Hands ==
  ASSUME TypeOK, TypeOK', NEW u \in Workers, NEW i
  PROVE  /\ Hand(u, i) \in Places <=> i \in 1..Len(hand[u])
         /\ Hand(u, i) \in Places' <=> i \in 1..Len(hand'[u])
         /\ TaskAt(Hand(u, i)) = hand[u][i]
         /\ TaskAt(Hand(u, i))' = hand'[u][i]
<1>1. PlaceKinds /\ PlaceKinds'
  BY PlacesAre, PlacesAreNext, Zenon
<1>2. Hand(u, i) \in Places <=> i \in 1..Len(hand[u])
  BY <1>1, Zenon DEF PlaceKinds
<1>3. Hand(u, i) \in Places' <=> i \in 1..Len(hand'[u])
  BY <1>1, Zenon DEF PlaceKinds
<1>4. TaskAt(Hand(u, i))' = hand'[u][i]
  <2>1. \A x, j : TaskAt(Hand(x, j))' = hand'[x][j]
    BY TaskAtIsNext, Zenon
  <2> QED
    BY <2>1, Zenon
<1> QED
  BY <1>2, <1>3, <1>4, TaskAtIs, Zenon

\* A place whose content and whose occupation do not change.
LEMMA RingStays ==
  ASSUME TypeOK, TypeOK', NEW q \in Workers, NEW i \in Int, Held(q, i)' <=> Held(q, i),
         Held(q, i) => buffer'[q][Slot(i)] = buffer[q][Slot(i)]
  PROVE  /\ Ring(q, i) \in Places <=> Ring(q, i) \in Places'
         /\ Ring(q, i) \in Places => TaskAt(Ring(q, i))' = TaskAt(Ring(q, i))
BY Rings, Zenon

\* A global queue the step leaves alone keeps its tasks.
LEMMA GlobStays ==
  ASSUME TypeOK, TypeOK', NEW i, global' = global
  PROVE  /\ Glob(i) \in Places <=> Glob(i) \in Places'
         /\ TaskAt(Glob(i))' = TaskAt(Glob(i))
BY Globs, Zenon

\* So does the hand of a worker.
LEMMA HandStays ==
  ASSUME TypeOK, TypeOK', NEW u \in Workers, NEW i, hand'[u] = hand[u]
  PROVE  /\ Hand(u, i) \in Places <=> Hand(u, i) \in Places'
         /\ TaskAt(Hand(u, i))' = TaskAt(Hand(u, i))
<1>1. TaskAt(Hand(u, i)) = hand[u][i] /\ TaskAt(Hand(u, i))' = hand'[u][i]
  BY Hands, Zenon
<1>2. /\ Hand(u, i) \in Places <=> i \in 1..Len(hand[u])
      /\ Hand(u, i) \in Places' <=> i \in 1..Len(hand'[u])
  BY Hands, Zenon
<1>3. 1..Len(hand'[u]) = 1..Len(hand[u])
  BY Zenon
<1> QED
  BY <1>1, <1>2, <1>3, Zenon

\* There are no other places.
LEMMA AllKinds ==
  ASSUME TypeOK, TypeOK', NEW p, p \in Places \/ p \in Places'
  PROVE  \/ \E q \in Workers, i \in Int : p = Ring(q, i)
         \/ \E i : p = Glob(i)
         \/ \E u \in Workers : \E i : p = Hand(u, i)
<1>1. PlaceKinds /\ PlaceKinds'
  BY PlacesAre, PlacesAreNext, Zenon
<1>2. CASE p \in Places
  <2>1. \/ \E q \in Workers, i \in Int : Held(q, i) /\ p = Ring(q, i)
        \/ \E i \in 1..Len(global) : p = Glob(i)
        \/ \E u \in Workers : \E i \in 1..Len(hand[u]) : p = Hand(u, i)
    BY <1>1, <1>2, Zenon DEF PlaceKinds
  <2> QED
    BY <2>1, Zenon
<1>3. CASE p \in Places'
  <2>1. \/ \E q \in Workers, i \in Int : Held(q, i)' /\ p = Ring(q, i)
        \/ \E i \in 1..Len(global') : p = Glob(i)
        \/ \E u \in Workers : \E i \in 1..Len(hand'[u]) : p = Hand(u, i)
    BY <1>1, <1>3, Zenon DEF PlaceKinds
  <2> QED
    BY <2>1, Zenon
<1> QED
  BY <1>2, <1>3, Zenon

\* A new task starts in the hand of the worker that pushes it.
LEMMA BeginKeeps ==
  ASSUME CInv, TypeOK', NEW w \in Workers, OthersUntouched(w), PushBegin(w)
  PROVE  Fresh' /\ TasksConserved'
<1> USE DEF queueVars, globalVars, histVars
<1> USE DEF Facts
<1>k. Facts(w)
  BY Known, Zenon
<1>a. /\ pc[w] = "idle" /\ pc'[w] = "push" /\ hand'[w] = <<created + 1>> /\ hand[w] = <<>>
      /\ UNCHANGED <<head, tail, buffer, global, closed, runs>>
      /\ created < MaxTasks /\ created' = created + 1
  BY <1>k, Zenon DEF PushBegin, Goto, TaskKnows
<1>b. \A q \in Workers, i \in Int : Held(q, i)' <=> Held(q, i)
  <2>1. \A q \in Workers : head'[q].real = head[q].real
    BY <1>a, Zenon
  <2> QED
    BY <1>a, <2>1, Quiet, Zenon
<1>c. \A u \in Workers \ {w} : hand'[u] = hand[u]
  BY Zenon DEF OthersUntouched
<1>d. Len(hand[w]) = 0 /\ Len(hand'[w]) = 1 /\ hand'[w][1] = created + 1
  BY <1>a
<1>e. /\ \A i : i \notin 1..0
      /\ \A i : i \in 1..1 <=> i = 1
  OBVIOUS
<1>f. Hand(w, 1) \notin Places
  BY <1>d, <1>e, <1>k, Hands, Zenon
<1>g. Hand(w, 1) \in Places' /\ TaskAt(Hand(w, 1))' = created + 1
  BY <1>d, <1>e, <1>k, Hands, Zenon
<1> DEFINE Fits(p) == /\ p \in Places => p \in Places' /\ TaskAt(p)' = TaskAt(p)
                      /\ p \in Places' => p \in Places \/ p = Hand(w, 1)
<1>h. ASSUME NEW p PROVE Fits(p)
  <2>1. ASSUME NEW q \in Workers, NEW i \in Int, p = Ring(q, i) PROVE Fits(p)
    <3>1. /\ Ring(q, i) \in Places <=> Ring(q, i) \in Places'
          /\ Ring(q, i) \in Places => TaskAt(Ring(q, i))' = TaskAt(Ring(q, i))
      BY <1>a, <1>b, <1>k, RingStays, Zenon
    <3> QED
      BY <2>1, <3>1, Zenon
  <2>2. ASSUME NEW i, p = Glob(i) PROVE Fits(p)
    <3>1. /\ Glob(i) \in Places <=> Glob(i) \in Places'
          /\ TaskAt(Glob(i))' = TaskAt(Glob(i))
      BY <1>a, <1>k, GlobStays, Zenon
    <3> QED
      BY <2>2, <3>1, Zenon
  <2>3. ASSUME NEW u \in Workers, NEW i, p = Hand(u, i) PROVE Fits(p)
    <3>1. CASE u # w
      <4>0. hand'[u] = hand[u]
        BY <1>c, <3>1, Zenon
      <4>1. /\ Hand(u, i) \in Places <=> Hand(u, i) \in Places'
            /\ TaskAt(Hand(u, i))' = TaskAt(Hand(u, i))
        BY <1>k, <4>0, HandStays, Zenon
      <4> QED
        BY <2>3, <4>1, Zenon
    <3>2. CASE u = w
      <4>1. Hand(w, i) \notin Places
        BY <1>d, <1>e, <1>k, Hands, Zenon
      <4>2. Hand(w, i) \in Places' => i = 1
        BY <1>d, <1>e, <1>k, Hands, Zenon
      <4> QED
        BY <2>3, <3>2, <4>1, <4>2, Zenon
    <3> QED
      BY <3>1, <3>2, Zenon
  <2>4. ASSUME p \in Places \/ p \in Places'
        PROVE  \/ \E q \in Workers, i \in Int : p = Ring(q, i)
               \/ \E i : p = Glob(i)
               \/ \E u \in Workers : \E i : p = Hand(u, i)
    BY <1>k, <2>4, AllKinds, Zenon
  <2> HIDE DEF Fits
  <2>5. p \notin Places /\ p \notin Places' => Fits(p)
    BY Zenon DEF Fits
  <2> QED
    BY <2>1, <2>2, <2>3, <2>4, <2>5, Zenon
<1>i. \A p : p \in Places' <=> p \in Places \/ p = Hand(w, 1)
  BY <1>g, <1>h, Zenon
<1>j. \A p \in Places : TaskAt(p)' = TaskAt(p)
  BY <1>h, Zenon
<1> QED
  BY <1>a, <1>f, <1>g, <1>i, <1>j, <1>k, Created, Zenon

\* A place that is neither a source nor a destination of a step that carries
\* the tasks at a[k] to b[k] is left alone.
Settles(p, S, K, a, b) ==
  /\ p \in Places' => (\E k \in K : p = b[k]) \/ (p \in S /\ \A k \in K : p # a[k])
  /\ p \in S /\ (\A k \in K : p # a[k]) => p \in Places' /\ TaskAt(p)' = TaskAt(p)

\* Carried, with the places told apart by their kinds.
LEMMA CarriedKinds ==
  ASSUME TypeOK, TypeOK', Fresh, TasksConserved, NEW S, NEW K, NEW a, NEW b, S \subseteq Places,
         \A k \in K : a[k] \in S /\ b[k] \in Places' /\ TaskAt(b[k])' = TaskAt(a[k]),
         \A j \in K, k \in K : a[j] = a[k] \/ b[j] = b[k] => j = k,
         \A k \in K : b[k] \in S => \E j \in K : b[k] = a[j],
         \A q \in Workers, i \in Int : Settles(Ring(q, i), S, K, a, b),
         \A i : Settles(Glob(i), S, K, a, b),
         \A u \in Workers : \A i : Settles(Hand(u, i), S, K, a, b),
         Ran(S), created' = created, closed => closed'
  PROVE  Fresh' /\ TasksConserved'
<1>1. ASSUME NEW p, p \in Places \/ p \in Places' PROVE Settles(p, S, K, a, b)
  <2>1. \/ \E q \in Workers, i \in Int : p = Ring(q, i)
        \/ \E i : p = Glob(i)
        \/ \E u \in Workers : \E i : p = Hand(u, i)
    BY <1>1, AllKinds, Zenon
  <2>2. ASSUME NEW q \in Workers, NEW i \in Int, p = Ring(q, i) PROVE Settles(p, S, K, a, b)
    <3>1. Settles(Ring(q, i), S, K, a, b)
      BY Zenon
    <3> QED
      BY <2>2, <3>1, Zenon
  <2>3. ASSUME NEW i, p = Glob(i) PROVE Settles(p, S, K, a, b)
    <3>1. Settles(Glob(i), S, K, a, b)
      BY Zenon
    <3> QED
      BY <2>3, <3>1, Zenon
  <2>4. ASSUME NEW u \in Workers, NEW i, p = Hand(u, i) PROVE Settles(p, S, K, a, b)
    <3>1. Settles(Hand(u, i), S, K, a, b)
      BY Zenon
    <3> QED
      BY <2>4, <3>1, Zenon
  <2> QED
    BY <2>1, <2>2, <2>3, <2>4, Zenon
<1>2. ASSUME NEW p PROVE p \in Places' <=> \/ p \in S /\ \A k \in K : p # a[k]
                                          \/ \E k \in K : p = b[k]
  <2>1. CASE p \notin Places /\ p \notin Places'
    BY <2>1, Zenon
  <2>2. CASE p \in Places \/ p \in Places'
    <3>1. Settles(p, S, K, a, b)
      BY <1>1, <2>2, Zenon
    <3>2. (\E k \in K : p = b[k]) => p \in Places'
      BY Zenon
    <3> QED
      BY <3>1, <3>2, Zenon DEF Settles
  <2> QED
    BY <2>1, <2>2, Zenon
<1>3. ASSUME NEW p \in S, \A k \in K : p # a[k] PROVE TaskAt(p)' = TaskAt(p)
  <2>1. Settles(p, S, K, a, b)
    BY <1>1, Zenon
  <2> QED
    BY <1>3, <2>1, Zenon DEF Settles
<1>4. \A k \in K : a[k] \in S /\ TaskAt(b[k])' = TaskAt(a[k])
  BY Zenon
<1>5. \A p \in S : (\A k \in K : p # a[k]) => TaskAt(p)' = TaskAt(p)
  BY <1>3, Zenon
<1>6. \A p : p \in Places' <=> \/ p \in S /\ \A k \in K : p # a[k]
                               \/ \E k \in K : p = b[k]
  BY <1>2, Zenon
<1>7. Carries(S, K, a, b)
  BY <1>4, <1>5, <1>6, Zenon DEF Carries
<1> QED
  BY <1>7, Carried, Zenon

\* Tasks leave the head of the global queue: the first is resumed, the next
\* n - 1 are in the worker's hand, the others move up.
LEMMA Pulled ==
  ASSUME CInv, TypeOK', NEW w \in Workers, OthersUntouched(w),
         UNCHANGED <<head, tail, buffer, closed, created>>,
         pc[w] \notin {"copy", "release", "take", "spill"},
         pc'[w] \notin {"copy", "release", "take", "spill"},
         NEW L, L = Len(global), NEW n \in 1..L,
         global' = SubSeq(global, n + 1, L), hand[w] = <<>>,
         hand'[w] = SubSeq(global, 2, n), Run(global[1])
  PROVE  Fresh' /\ TasksConserved'
<1> USE DEF Facts
<1>k. Facts(w)
  BY Known, Zenon
<1>l. L \in Nat /\ n \in Nat /\ 1 <= n /\ n <= L
  BY <1>k
<1>1. /\ Len(global') = L - n /\ \A i \in 1..(L - n) : global'[i] = global[i + n]
      /\ Len(hand'[w]) = n - 1 /\ \A i \in 1..(n - 1) : hand'[w][i] = global[i + 1]
      /\ Len(hand[w]) = 0
  <2>1. global \in Seq(Handles) /\ Len(<<>>) = 0
    BY <1>k, NoneIn, Zenon
  <2>2. CutAt(global, L, n)
    BY <2>1, CutInTwo, Zenon
  <2>3. Len(global') = L - n /\ \A i \in 1..(L - n) : global'[i] = global[i + n]
    BY <2>2, Zenon DEF CutAt
  <2>4. Len(hand'[w]) = n - 1 /\ \A i \in 1..(n - 1) : hand'[w][i] = global[i + 1]
    BY <2>2, Zenon DEF CutAt
  <2> QED
    BY <2>1, <2>3, <2>4, Zenon
<1>2. \A q \in Workers, i \in Int : Held(q, i)' <=> Held(q, i)
  <2>1. \A q \in Workers : head'[q].real = head[q].real
    BY Zenon
  <2> QED
    BY <2>1, Quiet, Zenon
<1>3. \A u \in Workers \ {w} : hand'[u] = hand[u]
  BY Zenon DEF OthersUntouched
<1>d. /\ \A x, y : Hand(w, x) = Hand(w, y) => x = y
      /\ \A x, y : Glob(x) = Glob(y) => x = y
  BY HandsDiffer, GlobsDiffer
<1> DEFINE K == 2..L
           a == [k \in K |-> Glob(k)]
           b == [k \in K |-> IF k <= n THEN Hand(w, k - 1) ELSE Glob(k - n)]
           S == Places \ {Glob(1)}
<1>4. \A k \in K : /\ k \in Int /\ k # 1 /\ k \in 1..L
                   /\ k <= n => k - 1 \in 1..(n - 1) /\ k - 1 + 1 = k
                   /\ ~(k <= n) => k - n \in 1..(L - n) /\ k - n + n = k
  BY <1>l, CutPositions, Zenon DEF Cuts
<1>e. \A k \in K : /\ a[k] = Glob(k)
                   /\ k <= n => b[k] = Hand(w, k - 1)
                   /\ ~(k <= n) => b[k] = Glob(k - n)
  BY Zenon
<1> HIDE DEF a, b
<1>5. ASSUME NEW k \in K PROVE a[k] \in S /\ b[k] \in Places' /\ TaskAt(b[k])' = TaskAt(a[k])
  <2>1. a[k] = Glob(k) /\ Glob(k) \in Places /\ Glob(k) # Glob(1) /\ TaskAt(Glob(k)) = global[k]
    <3>1. k \in 1..L /\ k # 1
      BY <1>4, Zenon
    <3> QED
      BY <1>d, <1>e, <1>k, <3>1, Globs, Zenon
  <2>2. CASE k <= n
    <3>1. k - 1 \in 1..(n - 1) /\ k - 1 + 1 = k
      BY <1>4, <2>2, Zenon
    <3>2. b[k] = Hand(w, k - 1) /\ hand'[w][k - 1] = global[k]
      BY <1>1, <1>e, <2>2, <3>1, Zenon
    <3>3. Hand(w, k - 1) \in Places' /\ TaskAt(Hand(w, k - 1))' = hand'[w][k - 1]
      <4>1. k - 1 \in 1..Len(hand'[w])
        BY <1>1, <3>1, Zenon
      <4> QED
        BY <1>k, <4>1, Hands, Zenon
    <3>4. TaskAt(b[k])' = TaskAt(Hand(w, k - 1))'
      BY <3>2
    <3> QED
      BY <2>1, <3>2, <3>3, <3>4, Zenon
  <2>3. CASE ~(k <= n)
    <3>1. k - n \in 1..(L - n) /\ k - n + n = k
      BY <1>4, <2>3, Zenon
    <3>2. b[k] = Glob(k - n) /\ global'[k - n] = global[k]
      BY <1>1, <1>e, <2>3, <3>1, Zenon
    <3>3. Glob(k - n) \in Places' /\ TaskAt(Glob(k - n))' = global'[k - n]
      <4>1. k - n \in 1..Len(global')
        BY <1>1, <3>1, Zenon
      <4> QED
        BY <1>k, <4>1, Globs, Zenon
    <3>4. TaskAt(b[k])' = TaskAt(Glob(k - n))'
      BY <3>2
    <3> QED
      BY <2>1, <3>2, <3>3, <3>4, Zenon
  <2> QED
    BY <2>2, <2>3, Zenon
<1>6. ASSUME NEW j \in K, NEW k \in K, a[j] = a[k] \/ b[j] = b[k] PROVE j = k
  <2>1. CASE a[j] = a[k]
    <3>1. Glob(j) = Glob(k)
      BY <1>e, <2>1, Zenon
    <3> QED
      BY <1>d, <3>1, Zenon
  <2>2. CASE b[j] = b[k]
    <3>1. j - 1 = k - 1 \/ j - n = k - n
      <4>1. \/ Hand(w, j - 1) = Hand(w, k - 1) \/ Hand(w, j - 1) = Glob(k - n)
            \/ Glob(j - n) = Hand(w, k - 1) \/ Glob(j - n) = Glob(k - n)
        BY <1>e, <2>2, Zenon
      <4> QED
        <5>1. Hand(w, j - 1) # Glob(k - n) /\ Hand(w, k - 1) # Glob(j - n)
          BY KindsDiffer, Zenon
        <5>2. Hand(w, j - 1) = Hand(w, k - 1) => j - 1 = k - 1
          BY <1>d, Zenon
        <5>3. Glob(j - n) = Glob(k - n) => j - n = k - n
          BY <1>d, Zenon
        <5> QED
          BY <4>1, <5>1, <5>2, <5>3, Zenon
    <3> QED
      BY <1>l, <3>1
  <2> QED
    BY <1>6, <2>1, <2>2, Zenon
<1>7. ASSUME NEW k \in K, b[k] \in S PROVE \E j \in K : b[k] = a[j]
  <2>1. CASE k <= n
    <3>1. b[k] = Hand(w, k - 1)
      BY <1>e, <2>1, Zenon
    <3>2. k - 1 \notin 1..0
      BY <1>l
    <3>3. Hand(w, k - 1) \notin Places
      BY <1>1, <1>k, <3>2, Hands, Zenon
    <3> QED
      BY <1>7, <3>1, <3>3, Zenon
  <2>2. CASE ~(k <= n)
    <3>1. b[k] = Glob(k - n)
      BY <1>e, <2>2, Zenon
    <3>2. k - n \in 1..L /\ k - n # 1
      BY <1>7, <1>k, <3>1, Globs, Zenon
    <3>3. k - n \in K
      BY <1>l, <3>2
    <3> QED
      BY <1>e, <3>1, <3>3, Zenon
  <2> QED
    BY <2>1, <2>2, Zenon
<1>8. ASSUME NEW q \in Workers, NEW i \in Int PROVE Settles(Ring(q, i), S, K, a, b)
  <2>1. /\ Ring(q, i) \in Places <=> Ring(q, i) \in Places'
        /\ Ring(q, i) \in Places => TaskAt(Ring(q, i))' = TaskAt(Ring(q, i))
    BY <1>2, <1>k, RingStays, Zenon
  <2>2. Ring(q, i) # Glob(1) /\ \A k \in K : Ring(q, i) # a[k]
    <3>1. \A k : Ring(q, i) # Glob(k)
      BY KindsDiffer, Zenon
    <3>2. \A k \in K : a[k] = Glob(k)
      BY <1>e, Zenon
    <3> QED
      BY <3>1, <3>2, Zenon
  <2> HIDE DEF K
  <2> QED
    BY <2>1, <2>2, Zenon DEF Settles
<1>9. ASSUME NEW i PROVE Settles(Glob(i), S, K, a, b)
  <2>1. Glob(i) \in Places => Glob(i) = Glob(1) \/ \E k \in K : Glob(i) = a[k]
    <3>1. i \in 1..L => i = 1 \/ i \in K
      BY <1>l
    <3> QED
      BY <1>e, <1>k, <3>1, Globs, Zenon
  <2>2. Glob(i) \in Places' => \E k \in K : Glob(i) = b[k]
    <3>1. ASSUME i \in 1..(L - n) PROVE i + n \in K /\ ~(i + n <= n) /\ i + n - n = i
      BY <1>l, <3>1
    <3>2. ASSUME i \in 1..(L - n) PROVE b[i + n] = Glob(i)
      <4>1. b[i + n] = Glob(i + n - n) /\ i + n - n = i
        BY <1>e, <3>1, <3>2
      <4> QED
        BY <4>1, Zenon
    <3> QED
      BY <1>1, <1>k, <3>1, <3>2, Globs, Zenon
  <2> HIDE DEF K
  <2> QED
    BY <2>1, <2>2, Zenon DEF Settles
<1>10. ASSUME NEW u \in Workers, NEW i PROVE Settles(Hand(u, i), S, K, a, b)
  <2>1. Hand(u, i) # Glob(1) /\ \A k \in K : Hand(u, i) # a[k]
    <3>1. \A k : Hand(u, i) # Glob(k)
      BY KindsDiffer, Zenon
    <3>2. \A k \in K : a[k] = Glob(k)
      BY <1>e, Zenon
    <3> QED
      BY <3>1, <3>2, Zenon
  <2>2. CASE u # w
    <3>0. hand'[u] = hand[u]
      BY <1>3, <2>2, Zenon
    <3>1. /\ Hand(u, i) \in Places <=> Hand(u, i) \in Places'
          /\ TaskAt(Hand(u, i))' = TaskAt(Hand(u, i))
      BY <1>k, <3>0, HandStays, Zenon
    <3> HIDE DEF K
    <3> QED
      BY <2>1, <3>1, Zenon DEF Settles
  <2>3. CASE u = w
    <3>1. Hand(w, i) \notin Places
      <4>1. i \notin 1..0
        OBVIOUS
      <4> QED
        BY <1>1, <1>k, <4>1, Hands, Zenon
    <3>2. ASSUME Hand(w, i) \in Places' PROVE \E k \in K : Hand(w, i) = b[k]
      <4>1. i \in 1..(n - 1)
        BY <1>1, <1>k, <3>2, Hands, Zenon
      <4>2. PICK k \in K : k = i + 1 /\ k <= n /\ k - 1 = i
        BY <1>l, <4>1
      <4>3. b[k] = Hand(w, k - 1)
        BY <1>e, <4>2, Zenon
      <4> QED
        BY <4>2, <4>3, Zenon
    <3> HIDE DEF K
    <3> QED
      BY <2>3, <3>1, <3>2, Zenon DEF Settles
  <2> QED
    BY <2>2, <2>3, Zenon
<1>11. Ran(S)
  <2>1. 1 \in 1..L
    BY <1>l
  <2>2. Glob(1) \in Places /\ TaskAt(Glob(1)) = global[1]
    BY <1>k, <2>1, Globs, Zenon
  <2> QED
    BY <2>2, Zenon DEF Ran
<1>12. S \subseteq Places /\ created' = created /\ (closed => closed')
  BY Zenon
<1> HIDE DEF K, S
<1> QED
  BY <1>5, <1>6, <1>7, <1>8, <1>9, <1>10, <1>11, <1>12, <1>k, CarriedKinds, Zenon

\* Tasks of the ring, m of them from position r, and the one in the worker's
\* hand are appended to the global queue, or dropped when it is closed.
LEMMA Appended ==
  ASSUME CInv, TypeOK', NEW w \in Workers, OthersUntouched(w),
         UNCHANGED <<buffer, closed, created, runs>>,
         NEW m \in Nat, NEW r \in Int, NEW L, L = Len(global),
         \A i \in Int : r <= i /\ i < r + m => Held(w, i),
         \A q \in Workers, i \in Int :
           Held(q, i)' <=> Held(q, i) /\ ~(q = w /\ r <= i /\ i < r + m),
         Len(hand[w]) = 1, hand'[w] = <<>>,
         closed => global' = global,
         ~closed => /\ Len(global') = L + m + 1
                    /\ \A i \in 1..L : global'[i] = global[i]
                    /\ \A k \in 1..m : global'[L + k] = buffer[w][Slot(r + k - 1)]
                    /\ global'[L + m + 1] = hand[w][1]
  PROVE  Fresh' /\ TasksConserved'
<1> USE DEF Facts
<1>k. Facts(w)
  BY Known, Zenon
<1>l. L \in Nat /\ Len(hand'[w]) = 0
  BY <1>k
<1>3. \A u \in Workers \ {w} : hand'[u] = hand[u]
  BY Zenon DEF OthersUntouched
<1>n. /\ \A i : i \notin 1..0
      /\ \A i : i \in 1..1 <=> i = 1
  OBVIOUS
<1>h. \A i : Hand(w, i) \notin Places'
  BY <1>k, <1>l, <1>n, Hands, Zenon
<1>r. ASSUME NEW q \in Workers, NEW i \in Int, Ring(q, i) \in Places'
      PROVE  Ring(q, i) \in Places /\ TaskAt(Ring(q, i))' = TaskAt(Ring(q, i))
  <2>1. Held(q, i)' /\ Held(q, i)
    BY <1>k, <1>r, Rings, Zenon
  <2>2. Held(q, i)' <=> Held(q, i)
    BY <2>1, Zenon
  <2>3. buffer'[q][Slot(i)] = buffer[q][Slot(i)]
    BY Zenon
  <2> QED
    BY <1>k, <1>r, <2>2, <2>3, RingStays, Zenon
<1>o. ASSUME NEW u \in Workers \ {w}, NEW i
      PROVE  /\ Hand(u, i) \in Places <=> Hand(u, i) \in Places'
             /\ TaskAt(Hand(u, i))' = TaskAt(Hand(u, i))
  <2>1. hand'[u] = hand[u] /\ u \in Workers
    BY <1>3, Zenon
  <2> QED
    BY <1>k, <2>1, HandStays, Zenon
<1>1. CASE closed
  <2>1. ASSUME NEW p \in Places' PROVE p \in Places /\ TaskAt(p)' = TaskAt(p)
    <3>1. \/ \E q \in Workers, i \in Int : p = Ring(q, i)
          \/ \E i : p = Glob(i)
          \/ \E u \in Workers : \E i : p = Hand(u, i)
      BY <1>k, AllKinds, Zenon
    <3>2. ASSUME NEW q \in Workers, NEW i \in Int, p = Ring(q, i)
          PROVE  p \in Places /\ TaskAt(p)' = TaskAt(p)
      <4>1. Ring(q, i) \in Places /\ TaskAt(Ring(q, i))' = TaskAt(Ring(q, i))
        BY <1>r, <3>2, Zenon
      <4> QED
        BY <3>2, <4>1, Zenon
    <3>3. ASSUME NEW i, p = Glob(i) PROVE p \in Places /\ TaskAt(p)' = TaskAt(p)
      <4>1. /\ Glob(i) \in Places <=> Glob(i) \in Places'
            /\ TaskAt(Glob(i))' = TaskAt(Glob(i))
        BY <1>1, <1>k, GlobStays, Zenon
      <4> QED
        BY <3>3, <4>1, Zenon
    <3>4. ASSUME NEW u \in Workers, NEW i, p = Hand(u, i)
          PROVE  p \in Places /\ TaskAt(p)' = TaskAt(p)
      <4>1. u # w
        BY <1>h, <3>4, Zenon
      <4>2. /\ Hand(u, i) \in Places <=> Hand(u, i) \in Places'
            /\ TaskAt(Hand(u, i))' = TaskAt(Hand(u, i))
        BY <1>o, <4>1, Zenon
      <4> QED
        BY <3>4, <4>2, Zenon
    <3> QED
      BY <3>1, <3>2, <3>3, <3>4, Zenon
  <2>2. Places' \subseteq Places /\ \A p \in Places' : TaskAt(p)' = TaskAt(p)
    BY <2>1, Zenon
  <2> QED
    BY <1>1, <1>k, <2>2, Dropped, Zenon
<1>2. CASE ~closed
  <2> DEFINE K == 1..(m + 1)
             a == [k \in K |-> IF k <= m THEN Ring(w, r + k - 1) ELSE Hand(w, 1)]
             b == [k \in K |-> Glob(L + k)]
  <2>e. \A k \in K : /\ k <= m => a[k] = Ring(w, r + k - 1)
                     /\ ~(k <= m) => a[k] = Hand(w, 1)
                     /\ b[k] = Glob(L + k)
    BY Zenon
  <2>d. /\ \A x, y : Ring(w, x) = Ring(w, y) => x = y
        /\ \A x, y : Glob(x) = Glob(y) => x = y
        /\ \A x, y : Ring(w, x) # Hand(w, y)
    BY RingsDiffer, GlobsDiffer, KindsDiffer
  <2>4. \A k \in K : /\ L + k \in 1..(L + m + 1) /\ L + k \notin 1..L
                     /\ k <= m => /\ k \in 1..m /\ r + k - 1 \in Int
                                  /\ r <= r + k - 1 /\ r + k - 1 < r + m
                     /\ ~(k <= m) => k = m + 1 /\ L + k = L + m + 1
    BY <1>l
  <2> HIDE DEF a, b
  <2>5. ASSUME NEW k \in K
        PROVE  a[k] \in Places /\ b[k] \in Places' /\ TaskAt(b[k])' = TaskAt(a[k])
    <3>1. b[k] = Glob(L + k) /\ Glob(L + k) \in Places' /\ TaskAt(Glob(L + k))' = global'[L + k]
      <4>1. L + k \in 1..Len(global')
        BY <1>2, <2>4, Zenon
      <4> QED
        BY <1>k, <2>e, <4>1, Globs, Zenon
    <3>2. TaskAt(b[k])' = TaskAt(Glob(L + k))'
      BY <3>1
    <3>3. CASE k <= m
      <4>1. a[k] = Ring(w, r + k - 1) /\ Held(w, r + k - 1) /\ r + k - 1 \in Int
        BY <2>4, <2>e, <3>3, Zenon
      <4>2. /\ Ring(w, r + k - 1) \in Places
            /\ TaskAt(Ring(w, r + k - 1)) = buffer[w][Slot(r + k - 1)]
        BY <1>k, <4>1, Rings, Zenon
      <4>3. global'[L + k] = buffer[w][Slot(r + k - 1)]
        BY <1>2, <2>4, <3>3, Zenon
      <4> QED
        BY <3>1, <3>2, <4>1, <4>2, <4>3, Zenon
    <3>4. CASE ~(k <= m)
      <4>1. a[k] = Hand(w, 1) /\ L + k = L + m + 1
        BY <2>4, <2>e, <3>4, Zenon
      <4>2. Hand(w, 1) \in Places /\ TaskAt(Hand(w, 1)) = hand[w][1]
        <5>1. 1 \in 1..Len(hand[w])
          BY <1>n, Zenon
        <5>2. \A i : Hand(w, i) \in Places <=> i \in 1..Len(hand[w])
          BY <1>k, Hands, Zenon
        <5>3. \A i : TaskAt(Hand(w, i)) = hand[w][i]
          BY TaskAtIs, Zenon
        <5> QED
          BY <5>1, <5>2, <5>3, Zenon
      <4>3. global'[L + k] = hand[w][1]
        BY <1>2, <4>1, Zenon
      <4> QED
        BY <3>1, <3>2, <4>1, <4>2, <4>3, Zenon
    <3> QED
      BY <3>3, <3>4, Zenon
  <2>6. ASSUME NEW j \in K, NEW k \in K, a[j] = a[k] \/ b[j] = b[k] PROVE j = k
    <3>1. CASE a[j] = a[k]
      <4>1. CASE j <= m /\ k <= m
        <5>1. r + j - 1 = r + k - 1
          <6>1. Ring(w, r + j - 1) = Ring(w, r + k - 1)
            BY <2>e, <3>1, <4>1, Zenon
          <6> QED
            BY <2>d, <6>1, Zenon
        <5> QED
          BY <5>1
      <4>2. CASE ~(j <= m) /\ ~(k <= m)
        BY <2>4, <4>2, Zenon
      <4>3. CASE j <= m /\ ~(k <= m)
        <5>1. Ring(w, r + j - 1) = Hand(w, 1)
          BY <2>e, <3>1, <4>3, Zenon
        <5> QED
          BY <2>d, <5>1, Zenon
      <4>4. CASE ~(j <= m) /\ k <= m
        <5>1. Ring(w, r + k - 1) = Hand(w, 1)
          BY <2>e, <3>1, <4>4, Zenon
        <5> QED
          BY <2>d, <5>1, Zenon
      <4> QED
        BY <4>1, <4>2, <4>3, <4>4, Zenon
    <3>2. CASE b[j] = b[k]
      <4>1. L + j = L + k
        <5>1. Glob(L + j) = Glob(L + k)
          BY <2>e, <3>2, Zenon
        <5> QED
          BY <2>d, <5>1, Zenon
      <4> QED
        BY <1>l, <4>1
    <3> QED
      BY <2>6, <3>1, <3>2, Zenon
  <2>7. ASSUME NEW k \in K PROVE b[k] \notin Places
    <3>1. b[k] = Glob(L + k) /\ L + k \notin 1..Len(global)
      BY <2>4, <2>e, Zenon
    <3>2. Glob(L + k) \notin Places
      BY <1>k, <3>1, Globs, Zenon
    <3> QED
      BY <3>1, <3>2, Zenon
  <2>8. ASSUME NEW q \in Workers, NEW i \in Int PROVE Settles(Ring(q, i), Places, K, a, b)
    <3>1. ASSUME Ring(q, i) \in Places' PROVE \A k \in K : Ring(q, i) # a[k]
      <4> SUFFICES ASSUME NEW k \in K, Ring(q, i) = a[k] PROVE FALSE
        BY Zenon
      <4>1. CASE k <= m
        <5>1. Ring(q, i) = Ring(w, r + k - 1)
          BY <2>e, <4>1, Zenon
        <5>2. q = w /\ i = r + k - 1
          BY <5>1, RingsDiffer
        <5>3. r <= i /\ i < r + m
          BY <2>4, <4>1, <5>2, Zenon
        <5>4. ~Held(q, i)'
          BY <5>2, <5>3, Zenon
        <5> QED
          BY <1>k, <3>1, <5>4, Rings, Zenon
      <4>2. CASE ~(k <= m)
        <5>1. Ring(q, i) = Hand(w, 1)
          BY <2>e, <4>2, Zenon
        <5> QED
          BY <5>1, KindsDiffer
      <4> QED
        BY <4>1, <4>2, Zenon
    <3>2. ASSUME Ring(q, i) \in Places, \A k \in K : Ring(q, i) # a[k]
          PROVE  Ring(q, i) \in Places' /\ TaskAt(Ring(q, i))' = TaskAt(Ring(q, i))
      <4>1. ~(q = w /\ r <= i /\ i < r + m)
        <5> SUFFICES ASSUME q = w, r <= i, i < r + m PROVE FALSE
          BY Zenon
        <5>1. PICK k \in K : k = i - r + 1 /\ k <= m /\ r + k - 1 = i
          OBVIOUS
        <5> QED
          BY <2>e, <3>2, <5>1, Zenon
      <4>2. Held(q, i)
        BY <1>k, <3>2, Rings, Zenon
      <4>3. Held(q, i)'
        BY <4>1, <4>2, Zenon
      <4>4. Ring(q, i) \in Places'
        BY <1>k, <4>3, Rings, Zenon
      <4> QED
        BY <1>r, <4>4, Zenon
    <3> HIDE DEF K
    <3> QED
      BY <1>r, <3>1, <3>2, Zenon DEF Settles
  <2>9. ASSUME NEW i PROVE Settles(Glob(i), Places, K, a, b)
    <3>1. ASSUME i \in 1..L
          PROVE  Glob(i) \in Places' /\ TaskAt(Glob(i))' = TaskAt(Glob(i)) /\ Glob(i) \in Places
      <4>1. i \in 1..Len(global') /\ global'[i] = global[i]
        <5>1. i \in 1..(L + m + 1)
          BY <1>l, <3>1
        <5> QED
          BY <1>2, <3>1, <5>1, Zenon
      <4> QED
        BY <1>k, <3>1, <4>1, Globs, Zenon
    <3>2. ASSUME i \in 1..(L + m + 1), i \notin 1..L PROVE \E k \in K : Glob(i) = b[k]
      <4>1. PICK k \in K : i = L + k
        BY <1>l, <3>2
      <4> QED
        BY <2>e, <4>1, Zenon
    <3>3. \A k \in K : Glob(i) # a[k]
      <4>1. \A x, y : Ring(x, y) # Glob(i) /\ Hand(x, y) # Glob(i)
        BY KindsDiffer
      <4>2. ASSUME NEW k \in K, Glob(i) = a[k] PROVE FALSE
        <5>1. Ring(w, r + k - 1) = Glob(i) \/ Hand(w, 1) = Glob(i)
          BY <2>e, <4>2, Zenon
        <5> QED
          BY <4>1, <5>1, Zenon
      <4> QED
        BY <4>2, Zenon
    <3>4. /\ Glob(i) \in Places <=> i \in 1..L
          /\ Glob(i) \in Places' <=> i \in 1..(L + m + 1)
      BY <1>2, <1>k, Globs, Zenon
    <3> HIDE DEF K
    <3> QED
      BY <3>1, <3>2, <3>3, <3>4, Zenon DEF Settles
  <2>10. ASSUME NEW u \in Workers, NEW i PROVE Settles(Hand(u, i), Places, K, a, b)
    <3>1. CASE u # w
      <4>1. /\ Hand(u, i) \in Places <=> Hand(u, i) \in Places'
            /\ TaskAt(Hand(u, i))' = TaskAt(Hand(u, i))
        BY <1>o, <3>1, Zenon
      <4>2. \A k \in K : Hand(u, i) # a[k]
        <5>1. \A x : Ring(w, x) # Hand(u, i)
          BY KindsDiffer
        <5>2. Hand(u, i) # Hand(w, 1)
          BY <3>1, HandsDiffer
        <5>3. \A k \in K : a[k] = Ring(w, r + k - 1) \/ a[k] = Hand(w, 1)
          BY <2>e, Zenon
        <5> QED
          BY <5>1, <5>2, <5>3, Zenon
      <4> HIDE DEF K
      <4> QED
        BY <4>1, <4>2, Zenon DEF Settles
    <3>2. CASE u = w
      <4>1. Hand(w, i) \notin Places'
        BY <1>h, Zenon
      <4>2. Hand(w, i) \in Places => \E k \in K : Hand(w, i) = a[k]
        <5>1. Hand(w, i) \in Places => i = 1
          BY <1>k, <1>n, Hands, Zenon
        <5>2. PICK k \in K : k = m + 1 /\ ~(k <= m)
          OBVIOUS
        <5> QED
          BY <2>e, <5>1, <5>2, Zenon
      <4> HIDE DEF K
      <4> QED
        BY <3>2, <4>1, <4>2, Zenon DEF Settles
    <3> QED
      BY <3>1, <3>2, Zenon
  <2>11. Ran(Places) /\ Places \subseteq Places /\ created' = created /\ (closed => closed')
    BY Zenon DEF Ran
  <2>12. \A k \in K : b[k] \in Places => \E j \in K : b[k] = a[j]
    BY <2>7, Zenon
  <2> HIDE DEF K
  <2> QED
    BY <2>5, <2>6, <2>8, <2>9, <2>10, <2>11, <2>12, <1>k, CarriedKinds, Zenon
<1> QED
  BY <1>1, <1>2, Zenon

\* The n tasks in the hand of w go to its ring, from position t on.
Stores(w, t, n) ==
  /\ t \in Int /\ n = Len(hand[w]) /\ hand'[w] = <<>>
  /\ \A u \in Workers \ {w} : buffer'[u] = buffer[u]
  /\ UNCHANGED <<global, closed, created, runs>>
  /\ \A i \in Int : Held(w, i) => i < t /\ buffer'[w][Slot(i)] = buffer[w][Slot(i)]
  /\ \A k \in 1..n : buffer'[w][Slot(t + k - 1)] = hand[w][k]
  /\ \A q \in Workers, i \in Int :
       Held(q, i)' <=> Held(q, i) \/ (q = w /\ t <= i /\ i < t + n)

\* Such a step conserves tasks.
LEMMA Stored ==
  ASSUME CInv, TypeOK', NEW w \in Workers, OthersUntouched(w),
         NEW t, NEW n, Stores(w, t, n)
  PROVE  Fresh' /\ TasksConserved'
<1> USE DEF Stores
<1> USE DEF Facts
<1>k. Facts(w)
  BY Known, Zenon
<1>l. n \in Nat /\ Len(hand'[w]) = 0 /\ \A i : i \notin 1..0
  BY <1>k
<1> DEFINE K == 1..n
           a == [k \in K |-> Hand(w, k)]
           b == [k \in K |-> Ring(w, t + k - 1)]
<1>e. \A k \in K : a[k] = Hand(w, k) /\ b[k] = Ring(w, t + k - 1)
  BY Zenon
<1>d. /\ \A x, y : Ring(w, x) = Ring(w, y) => x = y
      /\ \A x, y : Hand(w, x) = Hand(w, y) => x = y
  BY RingsDiffer, HandsDiffer
<1>4. \A k \in K : t + k - 1 \in Int /\ t <= t + k - 1 /\ t + k - 1 < t + n /\ ~(t + k - 1 < t)
  BY <1>l
<1> HIDE DEF a, b
<1>5. ASSUME NEW k \in K PROVE a[k] \in Places /\ b[k] \in Places' /\ TaskAt(b[k])' = TaskAt(a[k])
  <2>1. a[k] = Hand(w, k) /\ b[k] = Ring(w, t + k - 1)
    BY <1>e, Zenon
  <2>2. Hand(w, k) \in Places /\ TaskAt(Hand(w, k)) = hand[w][k]
    BY <1>k, Hands, Zenon
  <2>3. t + k - 1 \in Int /\ Held(w, t + k - 1)'
    BY <1>4, Zenon
  <2>4. /\ Ring(w, t + k - 1) \in Places'
        /\ TaskAt(Ring(w, t + k - 1))' = buffer'[w][Slot(t + k - 1)]
    BY <1>k, <2>3, Rings, Zenon
  <2>5. TaskAt(b[k])' = TaskAt(Ring(w, t + k - 1))'
    BY <2>1
  <2>6. buffer'[w][Slot(t + k - 1)] = hand[w][k]
    BY Zenon
  <2> QED
    BY <2>1, <2>2, <2>4, <2>5, <2>6, Zenon
<1>6. ASSUME NEW j \in K, NEW k \in K, a[j] = a[k] \/ b[j] = b[k] PROVE j = k
  <2>1. CASE a[j] = a[k]
    <3>1. Hand(w, j) = Hand(w, k)
      BY <1>e, <2>1, Zenon
    <3> QED
      BY <1>d, <3>1, Zenon
  <2>2. CASE b[j] = b[k]
    <3>1. Ring(w, t + j - 1) = Ring(w, t + k - 1)
      BY <1>e, <2>2, Zenon
    <3>2. t + j - 1 = t + k - 1
      BY <1>d, <3>1, Zenon
    <3> QED
      BY <3>2
  <2> QED
    BY <1>6, <2>1, <2>2, Zenon
<1>7. ASSUME NEW k \in K PROVE b[k] \notin Places
  <2>1. b[k] = Ring(w, t + k - 1)
    BY <1>e, Zenon
  <2>2. t + k - 1 \in Int /\ ~Held(w, t + k - 1)
    BY <1>4, Zenon
  <2>3. Ring(w, t + k - 1) \notin Places
    BY <1>k, <2>2, Rings, Zenon
  <2> QED
    BY <2>1, <2>3, Zenon
<1>8. ASSUME NEW q \in Workers, NEW i \in Int PROVE Settles(Ring(q, i), Places, K, a, b)
  <2>1. \A k \in K : Ring(q, i) # a[k]
    <3>1. \A k : Ring(q, i) # Hand(w, k)
      BY KindsDiffer
    <3>2. \A k \in K : a[k] = Hand(w, k)
      BY <1>e, Zenon
    <3> QED
      BY <3>1, <3>2, Zenon
  <2>2. ASSUME Held(q, i) PROVE /\ Ring(q, i) \in Places /\ Ring(q, i) \in Places'
                               /\ TaskAt(Ring(q, i))' = TaskAt(Ring(q, i))
    <3>1. Held(q, i)' <=> Held(q, i)
      BY <2>2, Zenon
    <3>2. buffer'[q][Slot(i)] = buffer[q][Slot(i)]
      BY <2>2, Zenon
    <3>3. Ring(q, i) \in Places
      BY <1>k, <2>2, Rings, Zenon
    <3> QED
      BY <1>k, <3>1, <3>2, <3>3, RingStays, Zenon
  <2>3. ASSUME ~Held(q, i), Ring(q, i) \in Places' PROVE \E k \in K : Ring(q, i) = b[k]
    <3>1. Held(q, i)'
      BY <1>k, <2>3, Rings, Zenon
    <3>2. q = w /\ t <= i /\ i < t + n
      BY <2>3, <3>1, Zenon
    <3>3. PICK k \in K : t + k - 1 = i
      <4>1. i - t + 1 \in K /\ t + (i - t + 1) - 1 = i
        BY <1>l, <3>2
      <4> QED
        BY <4>1
    <3> QED
      BY <1>e, <3>2, <3>3, Zenon
  <2>4. Ring(q, i) \in Places <=> Held(q, i)
    BY <1>k, Rings, Zenon
  <2> HIDE DEF K
  <2> QED
    BY <2>1, <2>2, <2>3, <2>4, Zenon DEF Settles
<1>9. ASSUME NEW i PROVE Settles(Glob(i), Places, K, a, b)
  <2>1. /\ Glob(i) \in Places <=> Glob(i) \in Places'
        /\ TaskAt(Glob(i))' = TaskAt(Glob(i))
    BY <1>k, GlobStays, Zenon
  <2>2. \A k \in K : Glob(i) # a[k]
    <3>1. \A k : Hand(w, k) # Glob(i)
      BY KindsDiffer
    <3>2. \A k \in K : a[k] = Hand(w, k)
      BY <1>e, Zenon
    <3> QED
      BY <3>1, <3>2, Zenon
  <2> HIDE DEF K
  <2> QED
    BY <2>1, <2>2, Zenon DEF Settles
<1>10. ASSUME NEW u \in Workers, NEW i PROVE Settles(Hand(u, i), Places, K, a, b)
  <2>1. CASE u # w
    <3>0. hand'[u] = hand[u]
      BY <2>1, Zenon DEF OthersUntouched
    <3>1. /\ Hand(u, i) \in Places <=> Hand(u, i) \in Places'
          /\ TaskAt(Hand(u, i))' = TaskAt(Hand(u, i))
      BY <1>k, <3>0, HandStays, Zenon
    <3>2. \A k \in K : Hand(u, i) # a[k]
      <4>1. \A k : Hand(u, i) # Hand(w, k)
        BY <2>1, HandsDiffer
      <4>2. \A k \in K : a[k] = Hand(w, k)
        BY <1>e, Zenon
      <4> QED
        BY <4>1, <4>2, Zenon
    <3> HIDE DEF K
    <3> QED
      BY <3>1, <3>2, Zenon DEF Settles
  <2>2. CASE u = w
    <3>1. Hand(w, i) \notin Places'
      BY <1>k, <1>l, Hands, Zenon
    <3>2. Hand(w, i) \in Places => \E k \in K : Hand(w, i) = a[k]
      <4>1. Hand(w, i) \in Places => i \in K
        BY <1>k, Hands, Zenon
      <4> QED
        BY <1>e, <4>1, Zenon
    <3> HIDE DEF K
    <3> QED
      BY <2>2, <3>1, <3>2, Zenon DEF Settles
  <2> QED
    BY <2>1, <2>2, Zenon
<1>11. Ran(Places) /\ Places \subseteq Places /\ created' = created /\ (closed => closed')
  BY Zenon DEF Ran
<1>12. \A k \in K : b[k] \in Places => \E j \in K : b[k] = a[j]
  BY <1>7, Zenon
<1> HIDE DEF K
<1> QED
  BY <1>5, <1>6, <1>8, <1>9, <1>10, <1>11, <1>12, <1>k, CarriedKinds, Zenon

\* The n tasks of the ring of v from position s on are copied to the ring of w
\* from position t on; the positions of v stop being held.
Steals(w, v, s, t, n) ==
  /\ v \in Workers /\ v # w /\ s \in Int /\ t \in Int /\ n \in Nat
  /\ \A u \in Workers \ {w} : buffer'[u] = buffer[u]
  /\ UNCHANGED <<global, closed, created, runs, hand>>
  /\ \A i \in Int : Held(w, i) => i < t /\ buffer'[w][Slot(i)] = buffer[w][Slot(i)]
  /\ \A i \in Int : s <= i /\ i < s + n => Held(v, i)
  /\ \A k \in 0..(n - 1) : buffer'[w][Slot(t + k)] = buffer[v][Slot(s + k)]
  /\ \A q \in Workers, i \in Int :
       Held(q, i)' <=> \/ Held(q, i) /\ ~(q = v /\ s <= i /\ i < s + n)
                       \/ q = w /\ t <= i /\ i < t + n

\* Such a step conserves tasks.
LEMMA Stolen ==
  ASSUME CInv, TypeOK', NEW w \in Workers,
         NEW v, NEW s, NEW t, NEW n, Steals(w, v, s, t, n)
  PROVE  Fresh' /\ TasksConserved'
<1> USE DEF Steals
<1> USE DEF Facts
<1>k. Facts(w)
  BY Known, Zenon
<1> DEFINE K == 0..(n - 1)
           a == [k \in K |-> Ring(v, s + k)]
           b == [k \in K |-> Ring(w, t + k)]
<1>e. \A k \in K : a[k] = Ring(v, s + k) /\ b[k] = Ring(w, t + k)
  BY Zenon
<1>d. /\ \A x, y : Ring(w, x) = Ring(w, y) => x = y
      /\ \A x, y : Ring(v, x) = Ring(v, y) => x = y
  BY RingsDiffer
<1>4. \A k \in K : /\ t + k \in Int /\ t <= t + k /\ t + k < t + n /\ ~(t + k < t)
                   /\ s + k \in Int /\ s <= s + k /\ s + k < s + n
  OBVIOUS
<1> HIDE DEF a, b
<1>5. ASSUME NEW k \in K PROVE a[k] \in Places /\ b[k] \in Places' /\ TaskAt(b[k])' = TaskAt(a[k])
  <2>1. a[k] = Ring(v, s + k) /\ b[k] = Ring(w, t + k)
    BY <1>e, Zenon
  <2>2. s + k \in Int /\ Held(v, s + k)
    BY <1>4, Zenon
  <2>3. t + k \in Int /\ Held(w, t + k)'
    BY <1>4, Zenon
  <2>4. Ring(v, s + k) \in Places /\ TaskAt(Ring(v, s + k)) = buffer[v][Slot(s + k)]
    BY <1>k, <2>2, Rings, Zenon
  <2>5. Ring(w, t + k) \in Places' /\ TaskAt(Ring(w, t + k))' = buffer'[w][Slot(t + k)]
    BY <1>k, <2>3, Rings, Zenon
  <2>6. TaskAt(b[k])' = TaskAt(Ring(w, t + k))'
    BY <2>1
  <2>7. buffer'[w][Slot(t + k)] = buffer[v][Slot(s + k)]
    BY Zenon
  <2> QED
    BY <2>1, <2>4, <2>5, <2>6, <2>7, Zenon
<1>6. ASSUME NEW j \in K, NEW k \in K, a[j] = a[k] \/ b[j] = b[k] PROVE j = k
  <2>1. CASE a[j] = a[k]
    <3>1. Ring(v, s + j) = Ring(v, s + k)
      BY <1>e, <2>1, Zenon
    <3>2. s + j = s + k
      BY <1>d, <3>1, Zenon
    <3> QED
      BY <3>2
  <2>2. CASE b[j] = b[k]
    <3>1. Ring(w, t + j) = Ring(w, t + k)
      BY <1>e, <2>2, Zenon
    <3>2. t + j = t + k
      BY <1>d, <3>1, Zenon
    <3> QED
      BY <3>2
  <2> QED
    BY <1>6, <2>1, <2>2, Zenon
<1>7. ASSUME NEW k \in K PROVE b[k] \notin Places
  <2>1. b[k] = Ring(w, t + k)
    BY <1>e, Zenon
  <2>2. t + k \in Int /\ ~Held(w, t + k)
    BY <1>4, Zenon
  <2>3. Ring(w, t + k) \notin Places
    BY <1>k, <2>2, Rings, Zenon
  <2> QED
    BY <2>1, <2>3, Zenon
<1>8. ASSUME NEW q \in Workers, NEW i \in Int PROVE Settles(Ring(q, i), Places, K, a, b)
  <2>1. ASSUME NEW k \in K, Ring(q, i) = a[k] PROVE q = v /\ s <= i /\ i < s + n
    <3>1. Ring(q, i) = Ring(v, s + k)
      BY <1>e, <2>1, Zenon
    <3>2. q = v /\ i = s + k
      BY <3>1, RingsDiffer
    <3> QED
      BY <1>4, <3>2, Zenon
  <2>2. ASSUME q = v, s <= i, i < s + n PROVE \E k \in K : Ring(q, i) = a[k]
    <3>1. PICK k \in K : s + k = i
      <4>1. i - s \in K /\ s + (i - s) = i
        BY <2>2
      <4> QED
        BY <4>1
    <3> QED
      BY <1>e, <2>2, <3>1, Zenon
  <2>3. ASSUME q = w, t <= i, i < t + n PROVE \E k \in K : Ring(q, i) = b[k]
    <3>1. PICK k \in K : t + k = i
      <4>1. i - t \in K /\ t + (i - t) = i
        BY <2>3
      <4> QED
        BY <4>1
    <3> QED
      BY <1>e, <2>3, <3>1, Zenon
  <2>4. ASSUME Held(q, i), ~(q = v /\ s <= i /\ i < s + n)
        PROVE  Ring(q, i) \in Places' /\ TaskAt(Ring(q, i))' = TaskAt(Ring(q, i))
    <3>1. Held(q, i)' <=> Held(q, i)
      BY <2>4, Zenon
    <3>2. buffer'[q][Slot(i)] = buffer[q][Slot(i)]
      BY <2>4, Zenon
    <3>3. Ring(q, i) \in Places
      BY <1>k, <2>4, Rings, Zenon
    <3> QED
      BY <1>k, <3>1, <3>2, <3>3, RingStays, Zenon
  <2>5. /\ Ring(q, i) \in Places <=> Held(q, i)
        /\ Ring(q, i) \in Places' <=> Held(q, i)'
    BY <1>k, Rings, Zenon
  <2>6. Held(q, i)' <=> \/ Held(q, i) /\ ~(q = v /\ s <= i /\ i < s + n)
                        \/ q = w /\ t <= i /\ i < t + n
    BY Zenon
  <2> HIDE DEF K
  <2> QED
    BY <2>1, <2>2, <2>3, <2>4, <2>5, <2>6, Zenon DEF Settles
<1>9. ASSUME NEW i PROVE Settles(Glob(i), Places, K, a, b)
  <2>1. /\ Glob(i) \in Places <=> Glob(i) \in Places'
        /\ TaskAt(Glob(i))' = TaskAt(Glob(i))
    BY <1>k, GlobStays, Zenon
  <2>2. \A k \in K : Glob(i) # a[k]
    <3>1. \A k : Ring(v, k) # Glob(i)
      BY KindsDiffer
    <3>2. \A k \in K : a[k] = Ring(v, s + k)
      BY <1>e, Zenon
    <3> QED
      BY <3>1, <3>2, Zenon
  <2> HIDE DEF K
  <2> QED
    BY <2>1, <2>2, Zenon DEF Settles
<1>10. ASSUME NEW u \in Workers, NEW i PROVE Settles(Hand(u, i), Places, K, a, b)
  <2>0. hand'[u] = hand[u]
    BY Zenon
  <2>1. /\ Hand(u, i) \in Places <=> Hand(u, i) \in Places'
        /\ TaskAt(Hand(u, i))' = TaskAt(Hand(u, i))
    BY <1>k, <2>0, HandStays, Zenon
  <2>2. \A k \in K : Hand(u, i) # a[k]
    <3>1. \A k : Ring(v, k) # Hand(u, i)
      BY KindsDiffer
    <3>2. \A k \in K : a[k] = Ring(v, s + k)
      BY <1>e, Zenon
    <3> QED
      BY <3>1, <3>2, Zenon
  <2> HIDE DEF K
  <2> QED
    BY <2>1, <2>2, Zenon DEF Settles
<1>11. Ran(Places) /\ Places \subseteq Places /\ created' = created /\ (closed => closed')
  BY Zenon DEF Ran
<1>12. \A k \in K : b[k] \in Places => \E j \in K : b[k] = a[j]
  BY <1>7, Zenon
<1> HIDE DEF K
<1> QED
  BY <1>5, <1>6, <1>8, <1>9, <1>10, <1>11, <1>12, <1>k, CarriedKinds, Zenon

\* The copying loops, which fill n slots from position t on, do not touch the
\* slot of a position less than CAP - n before t.
LEMMA Ahead ==
  ASSUME NEW i \in Int, NEW t \in Int, NEW n \in Nat, i < t, n <= i + CAP - t
  PROVE  ~(Offset(Slot(i), t) < n)
<1>1. CAP \in Nat \ {0}
  BY CAPAssumption
<1>2. PICK a \in Int : i = CAP * a + Slot(i)
  BY <1>1, ModShift, Zenon DEF Slot
<1>3. Slot(i) \in Int
  BY SlotType
<1> DEFINE j == i + CAP - t
<1>4. j \in 0..CAP - 1
  BY <1>1
<1>5. Slot(i) - t = j + CAP * (-a - 1)
  BY <1>1, <1>2, <1>3
<1>6. \A x \in 0..CAP - 1, k \in Int : (x + CAP * k) % CAP = x
  BY <1>1
<1>7. -a - 1 \in Int
  OBVIOUS
<1> HIDE DEF j
<1>8. Offset(Slot(i), t) = j
  BY <1>4, <1>5, <1>6, <1>7, Zenon DEF Offset
<1>9. Offset(Slot(i), t) = i + CAP - t
  BY <1>8, Zenon DEF j
<1> QED
  BY <1>1, <1>9

\* Appending a sequence of handles to another.
LEMMA AppendFacts ==
  ASSUME NEW s \in Seq(Handles), NEW x \in Seq(Handles)
  PROVE  /\ Len(s) \in Nat /\ Len(s \o x) = Len(s) + Len(x)
         /\ \A i \in 1..Len(s) : (s \o x)[i] = s[i]
         /\ \A k \in 1..Len(x) : (s \o x)[Len(s) + k] = x[k]
OBVIOUS

\* What a worker that is about to store tasks holds in its ring.
LEMMA OwnRing ==
  ASSUME CInv, NEW w \in Workers, pc[w] \in {"write", "batch", "copy"}
  PROVE  \A i \in Int : Held(w, i) => head[w].steal <= i /\ i < tail[w]
<1> USE DEF Facts
<1>k. Facts(w)
  BY Known, Zenon
<1> SUFFICES ASSUME NEW i \in Int, Held(w, i) PROVE head[w].steal <= i /\ i < tail[w]
  BY Zenon
<1>0. \A u \in Workers : TaskKnows(u)
  BY Zenon DEF CInv
<1>1. Oldest(w) = head[w].steal
  BY Zenon DEF Oldest
<1>2. head[w].steal <= i
  BY <1>0, <1>1, <1>k, Window, Zenon
<1>3. CASE Published(w, i)
  BY <1>2, <1>3, Zenon DEF Published
<1>4. CASE Copied(w, i)
  <2>1. PICK u \in Workers : pc[u] = "copy" /\ victim[u] = w /\ i < snap[u].steal + cnt[u]
    BY <1>4, Zenon DEF Copied
  <2>2. /\ snap[u].real <= head[w].real /\ snap[u].real = snap[u].steal + cnt[u]
        /\ snap[u].real \in Nat
    BY <1>0, <1>k, <2>1, TypesHold, Zenon DEF IInv, ThiefKnows, Thief, TaskKnows, Typed
  <2>3. i < snap[u].real
    BY <2>1, <2>2, Zenon
  <2>a. /\ tail[w] \in Int /\ head[w].real \in Int /\ snap[u].real \in Int
        /\ head[w].real <= tail[w]
    BY <1>k, <2>2, NatIsInt, Zenon
  <2>4. i < tail[w]
    BY <2>a, <2>2, <2>3, LessThanBoth, Zenon
  <2> QED
    BY <1>2, <2>4, Zenon
<1>5. ~Brought(w, i) /\ ~Claimed(w, i)
  BY Zenon DEF Brought, Claimed
<1> QED
  BY <1>3, <1>4, <1>5, Zenon DEF Held

\* GlobalQueue::pop resumes the first task of the global queue.
LEMMA GlobalPopKeeps ==
  ASSUME CInv, TypeOK', NEW w \in Workers, OthersUntouched(w), GlobalPop(w)
  PROVE  Fresh' /\ TasksConserved'
<1> USE DEF queueVars, globalVars, histVars
<1> USE DEF Facts
<1>k. Facts(w)
  BY Known, Zenon
<1>1. CASE global = <<>>
  BY <1>1, LookingSteps, Zenon
<1>2. CASE global # <<>>
  <2>1. /\ pc[w] \in {"idle", "pop_one"} /\ Return(w)
        /\ global' = Tail(global) /\ Run(Head(global))
        /\ UNCHANGED <<head, tail, buffer, closed, created>>
    BY <1>2, Zenon DEF GlobalPop
  <2>2. pc'[w] = "idle" /\ hand'[w] = <<>> /\ hand[w] = <<>>
    BY <1>k, <2>1, Zenon DEF Return, Goto, TaskKnows
  <2>3. /\ Len(global) \in Nat /\ 1 \in 1..Len(global)
        /\ Tail(global) = SubSeq(global, 1 + 1, Len(global))
        /\ Head(global) = global[1]
        /\ SubSeq(global, 2, 1) = <<>>
    BY <1>2, <1>k, FirstOf, Zenon DEF HeadAndTail
  <2>4. /\ global' = SubSeq(global, 1 + 1, Len(global)) /\ hand'[w] = SubSeq(global, 2, 1)
        /\ Run(global[1])
    BY <2>1, <2>2, <2>3, Zenon
  <2>5. /\ pc[w] \notin {"copy", "release", "take", "spill"}
        /\ pc'[w] \notin {"copy", "release", "take", "spill"}
    BY <2>1, <2>2, Zenon
  <2> QED
    BY <2>1, <2>2, <2>3, <2>4, <2>5, Pulled, Zenon
<1> QED
  BY <1>1, <1>2, Zenon

\* GlobalQueue::pop_n resumes the first and keeps the next ones in hand.
LEMMA PullPopKeeps ==
  ASSUME CInv, TypeOK', NEW w \in Workers, OthersUntouched(w), PullPop(w)
  PROVE  Fresh' /\ TasksConserved'
<1> USE DEF queueVars, globalVars, histVars
<1> DEFINE n == Lesser(Len(global), cnt[w])
<1> USE DEF Facts
<1>k. Facts(w)
  BY Known, Zenon
<1>1. n \in Nat /\ n <= Len(global) /\ Len(global) \in Nat
  BY <1>k, LesserOf, Zenon
<1>2. /\ pc[w] = "pull" /\ global' = SubSeq(global, n + 1, Len(global))
      /\ UNCHANGED <<head, tail, buffer, closed, created>>
      /\ hand[w] = <<>>
  BY <1>k, Zenon DEF PullPop, TaskKnows
<1>3. /\ n = 0 => Return(w) /\ runs' = runs
      /\ n # 0 => Run(global[1])
      /\ n = 1 => Return(w)
      /\ n # 0 /\ n # 1 => hand' = [hand EXCEPT ![w] = SubSeq(global, 2, n)] /\ Goto(w, "batch")
  BY Zenon DEF PullPop
<1>4. Return(w) => pc'[w] = "idle" /\ hand'[w] = <<>>
  BY <1>k, Zenon DEF Return, Goto
<1>5. Goto(w, "batch") => pc'[w] = "batch"
  BY <1>k, Zenon DEF Goto
<1>6. /\ pc[w] \notin {"copy", "release", "take", "spill"}
      /\ pc'[w] \notin {"copy", "release", "take", "spill"}
  BY <1>2, <1>3, <1>4, <1>5, Zenon
<1> HIDE DEF n
<1>7. CASE n = 0
  <2>1. global' = global
    BY <1>2, <1>7, <1>k
  <2>2. hand'[w] = hand[w] /\ runs' = runs
    BY <1>2, <1>3, <1>4, <1>7, Zenon
  <2> QED
    BY <1>2, <1>6, <2>1, <2>2, LookingKeeps, Zenon
<1>8. CASE n # 0
  <2>1. n \in 1..Len(global)
    BY <1>1, <1>8
  <2>2. SubSeq(global, 2, 1) = <<>>
    BY <1>k
  <2>3. hand'[w] = SubSeq(global, 2, n)
    BY <1>3, <1>4, <1>8, <1>k, <2>2, Zenon
  <2> QED
    BY <1>2, <1>3, <1>6, <1>8, <2>1, <2>3, Pulled, Zenon
<1> QED
  BY <1>7, <1>8, Zenon

\* The task that found the ring full goes to the global queue.
LEMMA PushGlobalKeeps ==
  ASSUME CInv, TypeOK', NEW w \in Workers, OthersUntouched(w), PushGlobal(w)
  PROVE  Fresh' /\ TasksConserved'
<1> USE DEF queueVars, globalVars, histVars
<1> USE DEF Facts
<1>k. Facts(w)
  BY Known, Zenon
<1>1. /\ pc[w] = "push" /\ Return(w) /\ GlobalPush(hand[w])
      /\ UNCHANGED <<head, tail, buffer, closed, created, runs>>
  BY Zenon DEF PushGlobal
<1>2. pc'[w] = "idle" /\ hand'[w] = <<>> /\ Len(hand[w]) = 1
  BY <1>1, <1>k, Zenon DEF Return, Goto, OwnerKnows
<1>3. \A i \in Int : ~(0 <= i /\ i < 0 + 0)
  OBVIOUS
<1>4. \A q \in Workers, i \in Int : Held(q, i)' <=> Held(q, i)
  <2>1. \A q \in Workers : head'[q].real = head[q].real
    BY <1>1, Zenon
  <2>2. /\ pc[w] \notin {"copy", "release", "take", "spill"}
        /\ pc'[w] \notin {"copy", "release", "take", "spill"}
    BY <1>1, <1>2, Zenon
  <2> QED
    BY <1>1, <2>1, <2>2, Quiet, Zenon
<1>5. /\ \A i \in Int : 0 <= i /\ i < 0 + 0 => Held(w, i)
      /\ \A q \in Workers, i \in Int :
           Held(q, i)' <=> Held(q, i) /\ ~(q = w /\ 0 <= i /\ i < 0 + 0)
  BY <1>3, <1>4, Zenon
<1>6. closed => global' = global
  BY <1>1, Zenon DEF GlobalPush
<1>7. ASSUME ~closed PROVE /\ Len(global') = Len(global) + 0 + 1
                           /\ \A i \in 1..Len(global) : global'[i] = global[i]
                           /\ \A k \in 1..0 : global'[Len(global) + k] = buffer[w][Slot(0 + k - 1)]
                           /\ global'[Len(global) + 0 + 1] = hand[w][1]
  <2>1. global' = global \o hand[w]
    BY <1>1, <1>7, Zenon DEF GlobalPush
  <2>a. /\ Len(global) \in Nat /\ Len(global \o hand[w]) = Len(global) + Len(hand[w])
        /\ \A i \in 1..Len(global) : (global \o hand[w])[i] = global[i]
        /\ \A k \in 1..Len(hand[w]) : (global \o hand[w])[Len(global) + k] = hand[w][k]
    <3>1. global \in Seq(Handles) /\ hand[w] \in Seq(Handles)
      BY <1>k, Zenon
    <3> QED
      BY <3>1, AppendFacts, Zenon
  <2>2. Len(global) \in Nat /\ Len(global') = Len(global) + 1
    BY <1>2, <2>1, <2>a, Zenon
  <2>3. \A i \in 1..Len(global) : global'[i] = global[i]
    BY <2>1, <2>a, Zenon
  <2>4. 1 \in 1..1 /\ \A k : k \notin 1..0
    OBVIOUS
  <2>5. global'[Len(global) + 1] = hand[w][1]
    BY <1>2, <2>1, <2>4, <2>a, Zenon
  <2>6. Len(global) + 0 + 1 = Len(global) + 1
    BY <2>2
  <2> QED
    BY <2>2, <2>3, <2>4, <2>5, <2>6, Zenon
<1>8. 0 \in Nat /\ 0 \in Int
  OBVIOUS
<1> QED
  BY <1>1, <1>2, <1>5, <1>6, <1>7, <1>8, Appended, Zenon

\* push_overflow moves the half it claimed, and the new task, to the global
\* queue; nobody else holds a position of that half.
LEMMA SpillKeeps ==
  ASSUME CInv, TypeOK', NEW w \in Workers, OthersUntouched(w), Spill(w)
  PROVE  Fresh' /\ TasksConserved'
<1> USE DEF queueVars, globalVars, histVars
<1> DEFINE r == snap[w].real
           new == [i \in 1..CAP \div 2 |-> buffer[w][Slot(snap[w].real + i - 1)]]
<1> USE DEF Facts
<1>k. Facts(w)
  BY Known, Zenon
<1>1. /\ pc[w] = "spill" /\ Return(w) /\ GlobalPush(new \o hand[w])
      /\ UNCHANGED <<head, tail, buffer, closed, created, runs>>
  BY Zenon DEF Spill
<1>2. /\ pc'[w] = "idle" /\ hand'[w] = <<>> /\ Len(hand[w]) = 1
      /\ r + Half <= head[w].steal /\ r \in Nat
  BY <1>1, <1>k, Zenon DEF Return, Goto, OwnerKnows, TaskKnows
<1>3. Half \in Nat /\ Half = CAP \div 2 /\ CAP = 2 * Half
  BY HalfProperties DEF Half
<1>4. \A i \in Int : r <= i /\ i < r + Half => Held(w, i)
  BY <1>1, Zenon DEF Held, Claimed
<1>5. ASSUME NEW q \in Workers, NEW i \in Int
      PROVE  Held(q, i)' <=> Held(q, i) /\ ~(q = w /\ r <= i /\ i < r + Half)
  <2>1. Copied(q, i)' <=> Copied(q, i)
    <3>1. pc[w] # "copy" /\ pc'[w] # "copy"
      BY <1>1, <1>2, Zenon
    <3> QED
      BY <3>1, CopiedElsewhere, Zenon
  <2>2. Published(q, i)' <=> Published(q, i)
    BY <1>1, Zenon DEF Published
  <2>3. Brought(q, i)' <=> Brought(q, i)
    BY <1>1, <1>2, Zenon DEF Brought, OthersUntouched
  <2>4. CASE q # w
    <3>1. Claimed(q, i)' <=> Claimed(q, i)
      BY <2>4, Zenon DEF Claimed, OthersUntouched
    <3> QED
      BY <2>1, <2>2, <2>3, <2>4, <3>1, Zenon DEF Held
  <2>5. CASE q = w
    <3>1. ~Claimed(q, i)' /\ ~Brought(q, i) /\ (Claimed(q, i) <=> r <= i /\ i < r + Half)
      BY <1>1, <1>2, <2>5, Zenon DEF Claimed, Brought
    <3>2. ASSUME Published(q, i) PROVE ~(i < r + Half)
      <4>1. head[w].real <= i
        BY <2>5, <3>2, Zenon DEF Published
      <4>2. head[w].steal <= head[w].real /\ head[w].steal \in Nat /\ head[w].real \in Nat
        BY <1>k, Zenon
      <4> HIDE DEF r
      <4> QED
        BY <1>2, <1>3, <4>1, <4>2
    <3>3. ASSUME Copied(q, i) PROVE ~(i < r + Half)
      <4>1. PICK u \in Workers : pc[u] = "copy" /\ victim[u] = w /\ snap[u].steal <= i
        BY <2>5, <3>3, Zenon DEF Copied
      <4>2. head[w].steal = snap[u].steal
        BY <1>k, <4>1, Zenon DEF IInv, ThiefKnows, Thief
      <4>3. head[w].steal <= i
        BY <4>1, <4>2, Zenon
      <4>4. head[w].steal \in Nat
        BY <1>k, Zenon
      <4> HIDE DEF r
      <4> QED
        BY <1>2, <1>3, <4>3, <4>4
    <3> HIDE DEF r
    <3> QED
      BY <2>1, <2>2, <2>3, <2>5, <3>1, <3>2, <3>3, Zenon DEF Held
  <2> QED
    BY <2>4, <2>5, Zenon
<1>6. closed => global' = global
  BY <1>1, Zenon DEF GlobalPush
<1>7. /\ new \in Seq(Handles) /\ Len(new) = Half
      /\ \A k \in 1..Half : new[k] = buffer[w][Slot(r + k - 1)]
  <2>1. \A k \in 1..Half : r + k - 1 \in Int
    BY <1>2, <1>3
  <2>2. \A k \in 1..Half : Slot(r + k - 1) \in 0..CAP - 1
    BY <2>1, SlotType, Zenon
  <2>3. buffer[w] \in [0..CAP - 1 -> Handles]
    BY <1>k, Zenon
  <2>4. \A k \in 1..Half : buffer[w][Slot(r + k - 1)] \in Handles
    BY <2>2, <2>3, Zenon
  <2>5. new = [k \in 1..Half |-> buffer[w][Slot(r + k - 1)]]
    BY <1>3, Zenon
  <2> HIDE DEF new, r
  <2>6. \A k \in 1..Half : new[k] = buffer[w][Slot(r + k - 1)]
    BY <2>5, Zenon
  <2>7. new \in [1..Half -> Handles]
    BY <2>4, <2>5, Zenon
  <2>8. new \in Seq(Handles) /\ Len(new) = Half
    BY <1>3, <2>7
  <2> QED
    BY <2>6, <2>8, Zenon
<1>8. ASSUME ~closed
      PROVE  /\ Len(global') = Len(global) + Half + 1
             /\ \A i \in 1..Len(global) : global'[i] = global[i]
             /\ \A k \in 1..Half : global'[Len(global) + k] = buffer[w][Slot(r + k - 1)]
             /\ global'[Len(global) + Half + 1] = hand[w][1]
  <2> DEFINE x == new \o hand[w]
  <2>1. global' = global \o x
    BY <1>1, <1>8, Zenon DEF GlobalPush
  <2>2. hand[w] \in Seq(Handles) /\ global \in Seq(Handles) /\ new \in Seq(Handles)
    BY <1>k, <1>7, Zenon
  <2> HIDE DEF new, r
  <2>3. x \in Seq(Handles)
    BY <2>2, Joined, Zenon
  <2>a. /\ Len(new) \in Nat /\ Len(new \o hand[w]) = Len(new) + Len(hand[w])
        /\ \A i \in 1..Len(new) : (new \o hand[w])[i] = new[i]
        /\ \A k \in 1..Len(hand[w]) : (new \o hand[w])[Len(new) + k] = hand[w][k]
    BY <2>2, AppendFacts, Zenon
  <2>4. Len(x) = Half + 1
    BY <1>2, <1>7, <2>a, Zenon
  <2>5. \A k \in 1..Half : x[k] = new[k]
    BY <1>7, <2>a, Zenon
  <2>6. 1 \in 1..1 /\ Half + 1 \in 1..(Half + 1) /\ \A k \in 1..Half : k \in 1..(Half + 1)
    BY <1>3
  <2>7. x[Half + 1] = hand[w][1]
    BY <1>2, <1>7, <2>6, <2>a, Zenon
  <2> HIDE DEF x
  <2>b. /\ Len(global) \in Nat /\ Len(global \o x) = Len(global) + Len(x)
        /\ \A i \in 1..Len(global) : (global \o x)[i] = global[i]
        /\ \A k \in 1..Len(x) : (global \o x)[Len(global) + k] = x[k]
    BY <2>2, <2>3, AppendFacts, Zenon
  <2>8. Len(global) \in Nat /\ Len(global') = Len(global) + (Half + 1)
    BY <2>1, <2>4, <2>b, Zenon
  <2>9. \A i \in 1..Len(global) : global'[i] = global[i]
    BY <2>1, <2>b, Zenon
  <2>10. \A k \in 1..(Half + 1) : global'[Len(global) + k] = x[k]
    BY <2>1, <2>4, <2>b, Zenon
  <2>11. Len(global) + (Half + 1) = Len(global) + Half + 1
    BY <1>3, <2>8
  <2>12. \A k \in 1..Half : global'[Len(global) + k] = buffer[w][Slot(r + k - 1)]
    BY <1>7, <2>5, <2>6, <2>10, Zenon
  <2>13. global'[Len(global) + (Half + 1)] = hand[w][1]
    BY <2>6, <2>7, <2>10, Zenon
  <2> QED
    BY <2>8, <2>9, <2>11, <2>12, <2>13, Zenon
<1>9. r \in Int
  BY <1>2
<1> HIDE DEF r, new
<1> QED
  BY <1>1, <1>2, <1>3, <1>4, <1>5, <1>6, <1>8, <1>9, Appended, Zenon

\* A push stores the task in a slot no held position uses.
LEMMA PushWriteKeeps ==
  ASSUME CInv, TypeOK', NEW w \in Workers, OthersUntouched(w), PushWrite(w)
  PROVE  Fresh' /\ TasksConserved'
<1> USE DEF queueVars, globalVars, histVars
<1> DEFINE t == tail[w]
<1> USE DEF Facts
<1>k. Facts(w)
  BY Known, Zenon
<1>1. /\ pc[w] = "write" /\ Return(w)
      /\ buffer' = [buffer EXCEPT ![w][Slot(t)] = hand[w][1]]
      /\ tail' = [tail EXCEPT ![w] = @ + 1]
      /\ UNCHANGED <<head, global, closed, created, runs>>
  BY Zenon DEF PushWrite
<1>2. /\ pc'[w] = "idle" /\ hand'[w] = <<>> /\ Len(hand[w]) = 1
      /\ t - head[w].steal < CAP /\ tail'[w] = t + 1
  BY <1>1, <1>k, Zenon DEF Return, Goto, OwnerKnows
<1>3. t \in Int /\ Slot(t) \in 0..CAP - 1 /\ CAP \in Nat
  BY <1>k, SlotType, CAPAssumption
<1>4. /\ \A u \in Workers \ {w} : buffer'[u] = buffer[u]
      /\ buffer'[w][Slot(t)] = hand[w][1]
      /\ \A j \in 0..CAP - 1 : j # Slot(t) => buffer'[w][j] = buffer[w][j]
  BY <1>1, <1>3, <1>k, Zenon
<1>5. ASSUME NEW i \in Int, Held(w, i)
      PROVE  i < t /\ buffer'[w][Slot(i)] = buffer[w][Slot(i)]
  <2>1. head[w].steal <= i /\ i < t
    BY <1>1, <1>5, OwnRing, Zenon
  <2>a. t \in Int /\ head[w].steal \in Int /\ CAP \in Int
    BY <1>3, <1>k, NatIsInt, Zenon
  <2>2. t - i < CAP
    BY <1>2, <2>a, <2>1, LessThanBoth, Zenon
  <2>3. Slot(i) # Slot(t) /\ Slot(i) \in 0..CAP - 1
    BY <1>3, <2>1, <2>2, SlotsDiffer, SlotType, Zenon
  <2> QED
    BY <1>4, <2>1, <2>3, Zenon
<1>6. \A k \in 1..Len(hand[w]) : buffer'[w][Slot(t + k - 1)] = hand[w][k]
  <2>1. \A k \in 1..1 : k = 1 /\ t + k - 1 = t
    BY <1>3
  <2> QED
    BY <1>2, <1>4, <2>1, Zenon
<1>7. ASSUME NEW q \in Workers, NEW i \in Int
      PROVE  Held(q, i)' <=> Held(q, i) \/ (q = w /\ t <= i /\ i < t + Len(hand[w]))
  <2>1. Copied(q, i)' <=> Copied(q, i)
    <3>1. pc[w] # "copy" /\ pc'[w] # "copy"
      BY <1>1, <1>2, Zenon
    <3> QED
      BY <3>1, CopiedElsewhere, Zenon
  <2>2. Claimed(q, i)' <=> Claimed(q, i)
    BY <1>1, <1>2, Zenon DEF Claimed, OthersUntouched
  <2>3. Brought(q, i)' <=> Brought(q, i)
    BY <1>1, <1>2, Zenon DEF Brought, OthersUntouched
  <2>4. CASE q # w
    <3>1. Published(q, i)' <=> Published(q, i)
      BY <1>1, <2>4, Zenon DEF Published, OthersUntouched
    <3> QED
      BY <2>1, <2>2, <2>3, <2>4, <3>1, Zenon DEF Held
  <2>5. CASE q = w
    <3>1. Published(q, i)' <=> head[w].real <= i /\ i < t + 1
      BY <1>1, <1>2, <2>5, Zenon DEF Published
    <3>2. Published(q, i) <=> head[w].real <= i /\ i < t
      BY <2>5, Zenon DEF Published
    <3>3. head[w].real <= i /\ i < t + 1 <=> (head[w].real <= i /\ i < t) \/ (t <= i /\ i < t + 1)
      <4>1. t \in Int /\ head[w].real \in Int /\ head[w].real <= t
        BY <1>3, <1>k, NatIsInt, Zenon
      <4> HIDE DEF t, Facts
      <4> QED
        BY <4>1
    <3> HIDE DEF t
    <3>4. Published(q, i)' <=> Published(q, i) \/ (q = w /\ t <= i /\ i < t + Len(hand[w]))
      BY <1>2, <2>5, <3>1, <3>2, <3>3, Zenon
    <3> QED
      BY <2>1, <2>2, <2>3, <3>4, Zenon DEF Held
  <2> QED
    BY <2>4, <2>5, Zenon
<1> HIDE DEF t
<1>8. Stores(w, t, Len(hand[w]))
  BY <1>1, <1>2, <1>3, <1>4, <1>5, <1>6, <1>7, Zenon DEF Stores
<1> QED
  BY <1>8, Stored, Zenon

\* push_batch stores the pulled tasks in slots no held position uses.
LEMMA PullBatchKeeps ==
  ASSUME CInv, TypeOK', NEW w \in Workers, OthersUntouched(w), PullBatch(w)
  PROVE  Fresh' /\ TasksConserved'
<1> USE DEF queueVars, globalVars, histVars
<1> DEFINE t == tail[w]
           n == Len(hand[w])
<1> USE DEF Facts
<1>k. Facts(w)
  BY Known, Zenon
<1>0. pc[w] = "batch"
  BY Zenon DEF PullBatch
<1>1. t - head[w].steal + n <= CAP /\ Sub(t, head[w].steal) = t - head[w].steal
  BY <1>0, <1>k, RingFacts, Zenon DEF OwnerKnows
<1>c. CAP \in Nat
  BY CAPAssumption
<1>2. BatchFits(w)
  <2>1. t \in Nat /\ n \in Nat /\ head[w].steal \in Nat
    BY <1>k, Zenon
  <2>2. t - head[w].steal <= CAP - n
    BY <1>1, <1>c, <2>1
  <2> QED
    BY <1>1, <2>2, Zenon DEF BatchFits
<1>3. /\ Return(w)
      /\ buffer' = [buffer EXCEPT ![w] =
            [j \in 0..CAP - 1 |-> IF Offset(j, t) < n THEN hand[w][Offset(j, t) + 1]
                                  ELSE buffer[w][j]]]
      /\ tail' = [tail EXCEPT ![w] = @ + n]
      /\ UNCHANGED <<head, global, closed, created, runs>>
  BY <1>2, Zenon DEF PullBatch
<1>4. pc'[w] = "idle" /\ hand'[w] = <<>> /\ tail'[w] = t + n
  BY <1>3, <1>k, Zenon DEF Return, Goto
<1>5. /\ \A u \in Workers \ {w} : buffer'[u] = buffer[u]
      /\ \A j \in 0..CAP - 1 : /\ Offset(j, t) < n => buffer'[w][j] = hand[w][Offset(j, t) + 1]
                               /\ ~(Offset(j, t) < n) => buffer'[w][j] = buffer[w][j]
  BY <1>3, <1>k, Zenon
<1>6. t \in Int /\ t \in Nat /\ n \in Nat /\ head[w].steal \in Nat /\ head[w].steal <= head[w].real
      /\ head[w].real \in Nat /\ head[w].real <= t
  BY <1>k
<1> HIDE DEF t, n
<1>7. ASSUME NEW i \in Int, Held(w, i)
      PROVE  i < t /\ buffer'[w][Slot(i)] = buffer[w][Slot(i)]
  <2>1. head[w].steal <= i /\ i < t
    BY <1>0, <1>7, OwnRing, Zenon DEF t
  <2>2. n <= i + CAP - t
    BY <1>1, <1>6, <1>c, <2>1
  <2>3. ~(Offset(Slot(i), t) < n) /\ Slot(i) \in 0..CAP - 1
    BY <1>6, <2>1, <2>2, Ahead, SlotType, Zenon
  <2> QED
    BY <1>5, <2>1, <2>3, Zenon
<1>8. ASSUME NEW k \in 1..n PROVE buffer'[w][Slot(t + k - 1)] = hand[w][k]
  <2>1. /\ k - 1 \in 0..CAP - 1 /\ k - 1 < n /\ t + (k - 1) = t + k - 1 /\ t + (k - 1) \in Int
        /\ (k - 1) + 1 = k
    BY <1>1, <1>6, <1>c
  <2>2. Offset(Slot(t + (k - 1)), t) = k - 1
    BY <1>6, <2>1, OffsetOfSlot, Zenon
  <2>3. Slot(t + (k - 1)) \in 0..CAP - 1
    BY <2>1, SlotType, Zenon
  <2>4. buffer'[w][Slot(t + (k - 1))] = hand[w][(k - 1) + 1]
    BY <1>5, <2>1, <2>2, <2>3, Zenon
  <2> QED
    BY <2>1, <2>4, Zenon
<1>9. ASSUME NEW q \in Workers, NEW i \in Int
      PROVE  Held(q, i)' <=> Held(q, i) \/ (q = w /\ t <= i /\ i < t + n)
  <2>1. Copied(q, i)' <=> Copied(q, i)
    <3>1. pc[w] # "copy" /\ pc'[w] # "copy"
      BY <1>0, <1>4, Zenon
    <3> QED
      BY <3>1, CopiedElsewhere, Zenon
  <2>2. Claimed(q, i)' <=> Claimed(q, i)
    BY <1>0, <1>4, Zenon DEF Claimed, OthersUntouched
  <2>3. Brought(q, i)' <=> Brought(q, i)
    BY <1>0, <1>4, Zenon DEF Brought, OthersUntouched
  <2>4. CASE q # w
    <3>1. Published(q, i)' <=> Published(q, i)
      BY <1>3, <2>4, Zenon DEF Published, OthersUntouched
    <3> QED
      BY <2>1, <2>2, <2>3, <2>4, <3>1, Zenon DEF Held
  <2>5. CASE q = w
    <3>1. Published(q, i)' <=> head[w].real <= i /\ i < t + n
      BY <1>3, <1>4, <2>5, Zenon DEF Published
    <3>2. Published(q, i) <=> head[w].real <= i /\ i < t
      BY <2>5, Zenon DEF Published, t
    <3>3. head[w].real <= i /\ i < t + n <=> (head[w].real <= i /\ i < t) \/ (t <= i /\ i < t + n)
      BY <1>6
    <3>4. Published(q, i)' <=> Published(q, i) \/ (q = w /\ t <= i /\ i < t + n)
      BY <2>5, <3>1, <3>2, <3>3, Zenon
    <3> QED
      BY <2>1, <2>2, <2>3, <3>4, Zenon DEF Held
  <2> QED
    BY <2>4, <2>5, Zenon
<1>10. n = Len(hand[w])
  BY Zenon DEF n
<1>11. Stores(w, t, n)
  BY <1>3, <1>4, <1>5, <1>6, <1>7, <1>8, <1>9, <1>10, Zenon DEF Stores
<1> QED
  BY <1>11, Stored, Zenon

\* The thief copies the tasks it reserved, in their order, to free slots of its
\* own ring; from then on they are in its ring and not in the victim's.
LEMMA CopyKeeps ==
  ASSUME CInv, TypeOK', NEW w \in Workers, OthersUntouched(w), StealCopy(w)
  PROVE  Fresh' /\ TasksConserved'
<1> USE DEF queueVars, globalVars, histVars
<1> DEFINE v == victim[w]
           s == snap[w].steal
           t == tail[w]
           n == cnt[w]
<1> USE DEF Facts
<1>k. Facts(w)
  BY Known, Zenon
<1>1. /\ pc[w] = "copy" /\ Goto(w, "release")
      /\ buffer' = [buffer EXCEPT ![w] =
            [j \in 0..CAP - 1 |-> IF Offset(j, t) < n THEN buffer[v][Slot(s + Offset(j, t))]
                                  ELSE buffer[w][j]]]
      /\ UNCHANGED <<head, tail, global, closed, created, runs, hand, snap, victim, cnt>>
  BY Zenon DEF StealCopy
<1>2. pc'[w] = "release"
  BY <1>1, <1>k, Zenon DEF Goto
<1>c. CAP = 2 * Half /\ CAP \in Nat /\ Half \in Nat
  BY HalfProperties
<1>3. /\ n \in 1..Half /\ t - head[w].steal <= Half /\ v # w /\ v \in Workers
      /\ head[v].steal = s /\ snap[w].real <= head[v].real /\ snap[w].real = s + n
  BY <1>1, <1>k, Zenon DEF OwnerKnows, TaskKnows, ThiefKnows, Thief, Stealing
<1>4. /\ s \in Int /\ t \in Int /\ head[w].steal \in Nat
      /\ head[w].real \in Nat /\ snap[w].real \in Nat
      /\ head[w].steal <= head[w].real /\ head[w].real <= t
  BY <1>k, NatIsInt, Zenon
<1>5. head[v].real \in Nat /\ tail[v] \in Nat /\ head[v].real <= tail[v]
  BY <1>3, <1>k, RingFacts, Zenon
<1>6. /\ \A u \in Workers \ {w} : buffer'[u] = buffer[u]
      /\ \A j \in 0..CAP - 1 :
           /\ Offset(j, t) < n => buffer'[w][j] = buffer[v][Slot(s + Offset(j, t))]
           /\ ~(Offset(j, t) < n) => buffer'[w][j] = buffer[w][j]
  BY <1>1, <1>k, Zenon
<1>n. n \in Nat
  BY <1>3, <1>c, FromOne, Zenon
<1>7. ASSUME NEW i \in Int, Held(w, i)
      PROVE  i < t /\ buffer'[w][Slot(i)] = buffer[w][Slot(i)]
  <2>1. head[w].steal <= i /\ i < t
    BY <1>1, <1>7, OwnRing, Zenon
  <2> HIDE DEF v, s, t, n
  <2>2. n <= i + CAP - t
    BY <1>3, <1>4, <1>c, <2>1
  <2>3. ~(Offset(Slot(i), t) < n) /\ Slot(i) \in 0..CAP - 1
    BY <1>4, <1>n, <2>1, <2>2, Ahead, SlotType, Zenon
  <2> QED
    BY <1>6, <2>1, <2>3, Zenon
<1>8. \A i \in Int : s <= i /\ i < s + n => Held(v, i)
  BY <1>1, Zenon DEF Held, Copied
<1>9. ASSUME NEW k \in 0..(n - 1) PROVE buffer'[w][Slot(t + k)] = buffer[v][Slot(s + k)]
  <2> HIDE DEF v, s, t, n
  <2>1. k \in 0..CAP - 1 /\ k < n /\ t + k \in Int
    BY <1>3, <1>4, <1>c
  <2>2. Offset(Slot(t + k), t) = k
    BY <1>4, <2>1, OffsetOfSlot, Zenon
  <2>3. Slot(t + k) \in 0..CAP - 1
    BY <2>1, SlotType, Zenon
  <2> QED
    BY <1>6, <2>1, <2>2, <2>3, Zenon
<1>10. ASSUME NEW q \in Workers, NEW i \in Int
       PROVE  Held(q, i)' <=> \/ Held(q, i) /\ ~(q = v /\ s <= i /\ i < s + n)
                              \/ q = w /\ t <= i /\ i < t + n
  <2>1. Published(q, i)' <=> Published(q, i)
    BY <1>1, Zenon DEF Published
  <2>2. Claimed(q, i)' <=> Claimed(q, i)
    BY <1>1, <1>2, Zenon DEF Claimed, OthersUntouched
  <2>3. Brought(q, i)' <=> Brought(q, i) \/ (q = w /\ t <= i /\ i < t + n)
    <3>1. CASE q = w
      BY <1>1, <1>2, <3>1, Zenon DEF Brought
    <3>2. CASE q # w
      BY <3>2, Zenon DEF Brought, OthersUntouched
    <3> QED
      BY <3>1, <3>2, Zenon
  <2>4. \A u \in Workers : u # w => (pc'[u] = "copy" <=> pc[u] = "copy")
    BY Zenon DEF OthersUntouched
  <2>5. Copied(q, i)' <=> \E u \in Workers : /\ u # w /\ pc[u] = "copy" /\ victim[u] = q
                                             /\ snap[u].steal <= i /\ i < snap[u].steal + cnt[u]
    BY <1>1, <1>2, <2>4, Zenon DEF Copied
  <2>6. Copied(q, i) <=> Copied(q, i)' \/ (q = v /\ s <= i /\ i < s + n)
    BY <1>1, <2>5, Zenon DEF Copied
  <2>7. ASSUME q = v, s <= i, i < s + n
        PROVE  ~Published(q, i) /\ ~Claimed(q, i) /\ ~Brought(q, i) /\ ~Copied(q, i)'
    <3>1. ~Published(q, i)
      <4>1. SUFFICES ASSUME head[v].real <= i PROVE FALSE
        BY <2>7, Zenon DEF Published
      <4> HIDE DEF v, s, t, n
      <4> QED
        BY <1>3, <1>4, <1>5, <1>c, <2>7, <4>1
    <3>2. ~Claimed(q, i)
      <4>1. SUFFICES ASSUME pc[v] = "spill", i < snap[v].real + Half PROVE FALSE
        BY <2>7, Zenon DEF Claimed
      <4>2. snap[v].real + Half <= head[v].steal
        BY <1>3, <4>1, Zenon DEF CInv, TaskKnows
      <4>3. snap[v].real \in Nat
        BY <1>3, <1>k, TypesHold, Zenon DEF Typed
      <4> HIDE DEF v, s, t, n
      <4> QED
        BY <1>3, <1>4, <1>c, <2>7, <4>1, <4>2, <4>3
    <3>3. ~Brought(q, i)
      <4>1. SUFFICES ASSUME tail[v] <= i PROVE FALSE
        BY <2>7, Zenon DEF Brought
      <4> HIDE DEF v, s, t, n
      <4> QED
        BY <1>3, <1>4, <1>5, <1>c, <2>7, <4>1
    <3>4. ~Copied(q, i)'
      <4>1. SUFFICES ASSUME NEW u \in Workers, u # w, pc[u] = "copy", victim[u] = v PROVE FALSE
        BY <2>5, <2>7, Zenon
      <4>2. Thief(u) /\ Thief(w) /\ victim[w] = v
        BY <1>1, <4>1, Zenon DEF Thief
      <4> QED
        BY <1>3, <1>k, <4>1, <4>2, Zenon DEF IInv, OneThief
    <3> QED
      BY <3>1, <3>2, <3>3, <3>4, Zenon
  <2> HIDE DEF v, s, t, n
  <2> QED
    BY <2>1, <2>2, <2>3, <2>6, <2>7, Zenon DEF Held
<1> HIDE DEF v, s, t, n
<1>11. Steals(w, v, s, t, n)
  BY <1>1, <1>3, <1>4, <1>6, <1>7, <1>8, <1>9, <1>10, <1>n, Zenon DEF Steals
<1> QED
  BY <1>11, Stolen, Zenon

\* The empty queues hold no task.
LEMMA InitCInv == Init => CInv
<1> SUFFICES ASSUME Init PROVE CInv
  OBVIOUS
<1>1. IInv /\ TypeOK
  BY InitIInv, Zenon DEF IInv
<1>2. \A w \in Workers : /\ head[w].real = 0 /\ tail[w] = 0 /\ pc[w] = "idle"
                         /\ hand[w] = <<>>
  BY DEF Init, Packed
<1>3. \A w \in Workers : TaskKnows(w)
  BY <1>2 DEF TaskKnows, Stealing, Thief
<1>4. \A q \in Workers, i \in Int : ~Held(q, i)
  <2> TAKE q \in Workers, i \in Int
  <2>1. ~Published(q, i)
    BY <1>2 DEF Published
  <2>2. ~Copied(q, i) /\ ~Brought(q, i) /\ ~Claimed(q, i)
    BY <1>2 DEF Copied, Brought, Claimed
  <2> QED
    BY <2>1, <2>2, Zenon DEF Held
<1>5. global = <<>> /\ created = 0 /\ \A t \in Tasks : runs[t] = 0
  BY Zenon DEF Init
<1>6. \A i : i \notin 1..Len(<<>>)
  OBVIOUS
<1>7. Places = {}
  <2>1. \A u \in Workers : \A i : i \notin 1..Len(hand[u])
    BY <1>2, <1>6, Zenon
  <2>2. \A i : i \notin 1..Len(global)
    BY <1>5, <1>6, Zenon
  <2>3. \A p : p \notin Places
    BY <1>1, <1>4, <2>1, <2>2, PlacesAre, Zenon DEF PlaceKinds
  <2> QED
    BY <2>3, Zenon
<1>8. 0 <= 1 /\ 1..0 = {}
  OBVIOUS
<1>9. Fresh
  BY <1>5, <1>7, Zenon DEF Fresh
<1>10. TasksConserved
  BY <1>5, <1>7, <1>8, Zenon DEF TasksConserved, NoTaskDuplicated, NoTaskLost
<1> QED
  BY <1>1, <1>3, <1>9, <1>10, Zenon DEF CInv

\* A step of a worker conserves the tasks.
LEMMA StepKeeps ==
  ASSUME CInv, TypeOK', NEW w \in Workers, Step(w)
  PROVE  Fresh' /\ TasksConserved'
<1>1. IInv
  BY Zenon DEF CInv
<1>2. OthersUntouched(w)
  BY <1>1, Frame, Zenon
<1>3. ASSUME \/ PushRoom(w) \/ PushFull(w) \/ PopBegin(w)
             \/ \E v \in Workers : StealBegin(w, v)
             \/ StealTail(w) \/ PullBegin(w) \/ PullLoad(w)
      PROVE  Fresh' /\ TasksConserved'
  BY <1>2, <1>3, LookingSteps, Zenon
<1>4. ASSUME GlobalPop(w) \/ PushBegin(w) \/ PushGlobal(w) \/ PushWrite(w) \/ PopCas(w)
      PROVE  Fresh' /\ TasksConserved'
  BY <1>2, <1>4, GlobalPopKeeps, BeginKeeps, PushGlobalKeeps, PushWriteKeeps, PopKeeps, Zenon
<1>5. ASSUME OverflowCas(w) \/ Spill(w) \/ PullPop(w) \/ PullBatch(w)
      PROVE  Fresh' /\ TasksConserved'
  BY <1>2, <1>5, OverflowKeeps, SpillKeeps, PullPopKeeps, PullBatchKeeps, Zenon
<1>6. ASSUME StealCas(w) \/ StealCopy(w) \/ StealRelease(w) \/ StealTake(w)
      PROVE  Fresh' /\ TasksConserved'
  BY <1>2, <1>6, ReserveKeeps, CopyKeeps, ReleaseKeeps, TakeKeeps, Zenon
<1> QED
  BY <1>3, <1>4, <1>5, <1>6, Zenon DEF Step

\* Closing the global queue moves nothing.
LEMMA CloseKeeps ==
  ASSUME CInv, IInv', GlobalClose \/ UNCHANGED vars
  PROVE  CInv'
<1>1. /\ UNCHANGED <<head, tail, buffer, global, pc, snap, victim, cnt, hand, created, runs>>
      /\ closed => closed'
  BY SMT DEF GlobalClose, vars, queueVars, localVars, histVars, globalVars
<1>2. \A w \in Workers : TaskKnows(w)'
  BY <1>1, Zenon DEF CInv, TaskKnows, Stealing, Thief
<1>3. \A q \in Workers, i \in Int : Held(q, i)' <=> Held(q, i)
  <2> TAKE q \in Workers, i \in Int
  <2>1. /\ Published(q, i)' <=> Published(q, i)
        /\ Brought(q, i)' <=> Brought(q, i)
        /\ Claimed(q, i)' <=> Claimed(q, i)
    BY <1>1, Zenon DEF Published, Brought, Claimed
  <2>2. Copied(q, i)' <=> Copied(q, i)
    BY <1>1, SMT DEF Copied
  <2> QED
    BY <2>1, <2>2, Zenon DEF Held
<1>4. TypeOK /\ TypeOK' /\ Fresh /\ TasksConserved
  BY Zenon DEF CInv, IInv
<1>5. /\ buffer' = buffer /\ global' = global /\ runs' = runs /\ created' = created
      /\ \A u \in Workers : hand'[u] = hand[u]
  BY <1>1, Zenon
<1>6. Fresh' /\ TasksConserved'
  BY <1>1, <1>3, <1>4, <1>5, Still, Zenon
<1> QED
  BY <1>2, <1>6, Zenon DEF CInv

\* Every step conserves the tasks.
LEMMA NextCInv == CInv /\ [Next]_vars => CInv'
<1> SUFFICES ASSUME CInv, [Next]_vars PROVE CInv'
  BY Zenon
<1>1. IInv /\ \A w \in Workers : TaskKnows(w)
  BY Zenon DEF CInv
<1>2. IInv' /\ TypeOK'
  BY <1>1, NextIInv, Zenon DEF IInv
<1>3. CASE GlobalClose \/ UNCHANGED vars
  BY <1>2, <1>3, CloseKeeps, Zenon
<1>4. ASSUME NEW w \in Workers, Step(w) PROVE CInv'
  <2>1. \A u \in Workers : TaskKnows(u)'
    BY <1>1, <1>2, <1>4, KnowsStep, Zenon
  <2>2. Fresh' /\ TasksConserved'
    BY <1>2, <1>4, StepKeeps, Zenon
  <2> QED
    BY <1>2, <2>1, <2>2, Zenon DEF CInv
<1> QED
  BY <1>3, <1>4, Zenon DEF Next

\* push_back_or_overflow, pop, steal_into, push_batch and the global queue
\* never lose a task and never hand one out twice, whatever their atomic steps
\* interleave to: every task waits in one place or was resumed once.
THEOREM TasksAreConserved == Spec => []TasksConserved
<1>1. CInv => TasksConserved
  BY Zenon DEF CInv
<1> QED
  BY <1>1, InitCInv, NextCInv, PTL DEF Spec
=============================================================================
