---------------------------- MODULE MutexProofs ----------------------------
(***************************************************************************)
(* Proofs about sync::Mutex for any set of coroutines.                     *)
(***************************************************************************)
EXTENDS Mutex, SequenceTheorems, TLAPS

\* Some unlock() is between schedule_local and the step over its awaiter.
Popping == \E c \in Coros : pc[c] = "pop"

\* The inductive invariant, one conjunct per idea.

\* The lock has an owner exactly while it is not free, and only the owner is
\* past lock(); "pop" is the tail of unlock() after the hand-off.
OwnerInv ==
  /\ free => owner = Nobody /\ lifo = <<>> /\ fifo = <<>>
  /\ ~free => owner \in Coros /\ Holds(owner)
  /\ \A c \in Coros : Holds(c) => owner = c

\* What unlock() knows of the two lists at each of its steps.
UnlockInv ==
  \A c \in Coros :
    /\ pc[c] = "exchange" => lifo # <<>> /\ fifo = <<>>
    /\ pc[c] = "schedule" => fifo # <<>>
    /\ pc[c] = "pop" => fifo # <<>> /\ owner = Head(fifo) /\ pc[owner] = "ready"
    /\ pc[c] = "pop" => \A d \in Coros : pc[d] = "pop" => d = c

\* The coroutine is in one of the lists and not yet scheduled.
ListsInv ==
  /\ \A i \in 1..Len(lifo) : pc[lifo[i]] = "waiting"
  /\ \A i \in 1..Len(fifo) : (Popping /\ i = 1) \/ pc[fifo[i]] = "waiting"
  /\ \A i, j \in 1..Len(lifo) : lifo[i] = lifo[j] => i = j
  /\ \A i, j \in 1..Len(fifo) : fifo[i] = fifo[j] => i = j
  /\ \A i \in 1..Len(lifo), j \in 1..Len(fifo) : lifo[i] # fifo[j]
  /\ \A c \in Coros : pc[c] = "waiting" =>
       \/ \E i \in 1..Len(lifo) : lifo[i] = c
       \/ \E i \in 1..Len(fifo) : fifo[i] = c

IInv == TypeOK /\ OwnerInv /\ UnlockInv /\ ListsInv
-----------------------------------------------------------------------------
\* Reversal keeps the awaiters of a list.
LEMMA ReverseProperties ==
  ASSUME NEW S, NEW s \in Seq(S)
  PROVE  /\ Reverse(s) \in Seq(S)
         /\ Len(Reverse(s)) = Len(s)
         /\ \A i \in 1..Len(s) : Reverse(s)[i] = s[Len(s) - i + 1]
BY DEF Reverse

\* What a list looks like after a new awaiter became its head.
LEMMA ConsProperties ==
  ASSUME NEW S, NEW s \in Seq(S), NEW c \in S
  PROVE  /\ <<c>> \o s \in Seq(S)
         /\ Len(<<c>> \o s) = Len(s) + 1
         /\ (<<c>> \o s)[1] = c
         /\ \A i \in 1..Len(s) : (<<c>> \o s)[i + 1] = s[i]
         /\ \A i \in 2..Len(s) + 1 : (<<c>> \o s)[i] = s[i - 1]
<1>1. <<c>> \in Seq(S) /\ Len(<<c>>) = 1 /\ <<c>>[1] = c
  OBVIOUS
<1> QED
  BY <1>1, ConcatProperties, LenProperties

\* A new awaiter at the head of the lifo list is the last one to be served.
LEMMA ReverseCons ==
  ASSUME NEW S, NEW s \in Seq(S), NEW c \in S
  PROVE  Reverse(<<c>> \o s) = Append(Reverse(s), c)
<1> DEFINE t == <<c>> \o s
           l == Reverse(t)
           r == Append(Reverse(s), c)
           n == Len(s)
<1>1. /\ t \in Seq(S) /\ Len(t) = n + 1 /\ n \in Nat
      /\ t[1] = c /\ \A i \in 2..n + 1 : t[i] = s[i - 1]
  BY ConsProperties, LenProperties
<1>2. /\ Reverse(s) \in Seq(S) /\ Len(Reverse(s)) = n
      /\ \A i \in 1..n : Reverse(s)[i] = s[n - i + 1]
  BY ReverseProperties, Zenon
<1>3. /\ r \in Seq(S) /\ Len(r) = n + 1 /\ r[n + 1] = c
      /\ \A i \in 1..n : r[i] = Reverse(s)[i]
  BY <1>2, AppendProperties
<1> HIDE DEF t
<1>4. /\ l \in Seq(S) /\ Len(l) = n + 1
      /\ \A i \in 1..n + 1 : l[i] = t[n + 1 - i + 1]
  BY <1>1, ReverseProperties, SMTT(60)
<1> HIDE DEF l, r, n
<1>5. ASSUME NEW i \in 1..n + 1 PROVE l[i] = r[i]
  <2>1. CASE i = n + 1
    BY <1>1, <1>3, <1>4, <2>1
  <2>2. CASE i # n + 1
    <3>1. i \in 1..n /\ n + 1 - i + 1 \in 2..n + 1
      BY <1>1, <2>2
    <3>2. l[i] = s[n + 1 - i + 1 - 1]
      BY <1>1, <1>4, <3>1, SMTT(60)
    <3>3. r[i] = s[n - i + 1]
      BY <1>2, <1>3, <3>1, Zenon
    <3>4. n + 1 - i + 1 - 1 = n - i + 1
      BY <1>1, <3>1
    <3> QED BY <3>2, <3>3, <3>4
  <2> QED BY <2>1, <2>2
<1>6. Len(l) = Len(r) /\ \A i \in 1..Len(l) : l[i] = r[i]
  BY <1>3, <1>4, <1>5, Zenon
<1>7. l = r
  BY <1>3, <1>4, <1>6, SeqEqual, Zenon
<1> QED
  BY <1>7, Zenon DEF l, r, t

\* The initial state satisfies the invariant.
LEMMA InitIInv == Init => IInv
BY CorosAssumption DEF Init, IInv, TypeOK, OwnerInv, UnlockInv, ListsInv, Holds, Labels

\* The invariant is inductive.
LEMMA NextIInv == IInv /\ [Next]_vars => IInv'
<1> SUFFICES ASSUME IInv, [Next]_vars PROVE IInv'
  BY Zenon
<1> USE CorosAssumption DEF IInv
<1>1. ASSUME NEW c \in Coros, LockLoad(c) PROVE IInv'
  <2>1. TypeOK'
    BY <1>1 DEF LockLoad, Goto, TypeOK, Labels, state
  <2>2. OwnerInv'
    BY <1>1, Zenon DEF LockLoad, Goto, TypeOK, Labels, state, OwnerInv, UnlockInv, Holds
  <2>3. UnlockInv'
    BY <1>1 DEF LockLoad, Goto, TypeOK, Labels, state, OwnerInv, UnlockInv, Holds
  <2>4. ListsInv'
    BY <1>1 DEF LockLoad, Goto, TypeOK, Labels, state, OwnerInv, UnlockInv, ListsInv, Holds,
       Popping
  <2> QED BY <2>1, <2>2, <2>3, <2>4
<1>2. ASSUME NEW c \in Coros, LockFree(c) PROVE IInv'
  <2>1. TypeOK'
    BY <1>2, Zenon DEF LockFree, Goto, TypeOK, Labels, state
  <2>2. OwnerInv'
    BY <1>2 DEF LockFree, Goto, TypeOK, Labels, state, OwnerInv, UnlockInv, Holds
  <2>3. UnlockInv'
    BY <1>2 DEF LockFree, Goto, TypeOK, Labels, state, OwnerInv, UnlockInv, Holds
  <2>4. ListsInv'
    BY <1>2 DEF LockFree, Goto, TypeOK, Labels, state, OwnerInv, UnlockInv, ListsInv, Holds,
       Popping
  <2> QED BY <2>1, <2>2, <2>3, <2>4
<1>3. ASSUME NEW c \in Coros, LockEnqueue(c) PROVE IInv'
  <2>1. TypeOK'
    BY <1>3 DEF LockEnqueue, Goto, TypeOK, Labels, state
  <2>2. OwnerInv'
    BY <1>3, Zenon DEF LockEnqueue, Goto, TypeOK, Labels, state, OwnerInv, UnlockInv, Holds
  <2>3. UnlockInv'
    BY <1>3 DEF LockEnqueue, Goto, TypeOK, Labels, state, OwnerInv, UnlockInv, Holds
  <2>4. ListsInv'
    <3>1. /\ Len(lifo') = Len(lifo) + 1 /\ lifo'[1] = c
          /\ \A i \in 2..Len(lifo') : lifo'[i] = lifo[i - 1]
          /\ \A i \in 1..Len(lifo) : lifo'[i + 1] = lifo[i]
          /\ Len(lifo) \in Nat /\ Len(fifo) \in Nat
      BY <1>3, ConsProperties, LenProperties DEF LockEnqueue, TypeOK
    <3>2. /\ \A i \in 1..Len(lifo) : lifo[i] # c
          /\ \A i \in 1..Len(fifo) : fifo[i] # c
      BY <1>3, SMTT(60) DEF LockEnqueue, TypeOK, ListsInv, UnlockInv, Popping
    <3>3. /\ fifo' = fifo /\ Popping' = Popping
          /\ \A d \in Coros : pc'[d] = IF d = c THEN "waiting" ELSE pc[d]
      BY <1>3, Zenon DEF LockEnqueue, Goto, TypeOK, Popping
    <3>4. \A i \in 1..Len(lifo') : pc'[lifo'[i]] = "waiting"
      <4> SUFFICES ASSUME NEW i \in 1..Len(lifo') PROVE pc'[lifo'[i]] = "waiting"
        BY Zenon
      <4>1. CASE i = 1
        BY <3>1, <3>3, <4>1, Zenon
      <4>2. CASE i # 1
        <5>1. i - 1 \in 1..Len(lifo) /\ lifo'[i] = lifo[i - 1]
          BY <3>1, <4>2
        <5>2. lifo[i - 1] \in Coros
          BY <5>1 DEF TypeOK
        <5> QED BY <3>3, <5>1, <5>2, Zenon DEF ListsInv
      <4> QED BY <4>1, <4>2, Zenon
    <3>5. \A i \in 1..Len(fifo') : (Popping' /\ i = 1) \/ pc'[fifo'[i]] = "waiting"
      BY <3>3 DEF TypeOK, ListsInv
    <3>6. \A i, j \in 1..Len(lifo') : lifo'[i] = lifo'[j] => i = j
      <4> SUFFICES ASSUME NEW i \in 1..Len(lifo'), NEW j \in 1..Len(lifo'),
                          lifo'[i] = lifo'[j]
                   PROVE  i = j
        BY Zenon
      <4>1. \A k \in 1..Len(lifo') :
              k = 1 \/ (k - 1 \in 1..Len(lifo) /\ lifo'[k] = lifo[k - 1])
        BY <3>1
      <4>2. CASE i = 1 \/ j = 1
        BY <3>1, <3>2, <4>1, <4>2, SMTT(20)
      <4>3. CASE i # 1 /\ j # 1
        <5>1. i - 1 \in 1..Len(lifo) /\ j - 1 \in 1..Len(lifo) /\ lifo[i - 1] = lifo[j - 1]
          BY <4>1, <4>3, Zenon
        <5>2. i - 1 = j - 1
          BY <5>1, Zenon DEF ListsInv
        <5> QED BY <5>1, <5>2
      <4> QED BY <4>2, <4>3
    <3>7. ASSUME NEW i \in 1..Len(lifo'), NEW j \in 1..Len(fifo') PROVE lifo'[i] # fifo'[j]
      <4>1. CASE i = 1
        BY <3>1, <3>2, <3>3, <4>1, Zenon
      <4>2. CASE i # 1
        <5>1. i - 1 \in 1..Len(lifo) /\ lifo'[i] = lifo[i - 1]
          BY <3>1, <4>2
        <5> QED BY <3>3, <5>1 DEF ListsInv
      <4> QED BY <4>1, <4>2
    <3>8. ASSUME NEW d \in Coros, pc'[d] = "waiting"
          PROVE  \/ \E i \in 1..Len(lifo') : lifo'[i] = d
                 \/ \E i \in 1..Len(fifo') : fifo'[i] = d
      <4>1. CASE d = c
        BY <3>1, <4>1
      <4>2. CASE \E i \in 1..Len(lifo) : lifo[i] = d
        BY <3>1, <4>2
      <4>3. CASE \E i \in 1..Len(fifo) : fifo[i] = d
        BY <3>3, <4>3, Zenon
      <4> QED BY <3>3, <3>8, <4>1, <4>2, <4>3 DEF ListsInv
    <3> QED
      BY <3>3, <3>4, <3>5, <3>6, <3>7, <3>8 DEF ListsInv
  <2> QED BY <2>1, <2>2, <2>3, <2>4
<1>4. ASSUME NEW c \in Coros, LockRetry(c) PROVE IInv'
  <2>1. TypeOK'
    BY <1>4 DEF LockRetry, Goto, TypeOK, Labels, state
  <2>2. OwnerInv'
    BY <1>4, Zenon DEF LockRetry, Goto, TypeOK, Labels, state, OwnerInv, UnlockInv, Holds
  <2>3. UnlockInv'
    BY <1>4, Zenon DEF LockRetry, Goto, TypeOK, Labels, state, OwnerInv, UnlockInv, Holds
  <2>4. ListsInv'
    BY <1>4 DEF LockRetry, Goto, TypeOK, Labels, state, OwnerInv, UnlockInv, ListsInv, Holds,
       Popping
  <2> QED BY <2>1, <2>2, <2>3, <2>4
<1>5. ASSUME NEW c \in Coros, UnlockFree(c) PROVE IInv'
  <2>1. TypeOK'
    BY <1>5, Zenon DEF UnlockFree, Goto, TypeOK, Labels, state
  <2>2. OwnerInv'
    BY <1>5 DEF UnlockFree, Goto, TypeOK, Labels, state, OwnerInv, UnlockInv, Holds
  <2>3. UnlockInv'
    BY <1>5, Zenon DEF UnlockFree, Goto, TypeOK, Labels, state, OwnerInv, UnlockInv, Holds
  <2>4. ListsInv'
    BY <1>5 DEF UnlockFree, Goto, TypeOK, Labels, state, OwnerInv, UnlockInv, ListsInv, Holds,
       Popping
  <2> QED BY <2>1, <2>2, <2>3, <2>4
<1>6. ASSUME NEW c \in Coros, UnlockSeesAwaiters(c) PROVE IInv'
  <2>1. TypeOK'
    BY <1>6, Zenon DEF UnlockSeesAwaiters, Goto, TypeOK, Labels, state
  <2>2. OwnerInv'
    BY <1>6, Zenon DEF UnlockSeesAwaiters, Goto, TypeOK, Labels, state, OwnerInv, UnlockInv, Holds
  <2>3. UnlockInv'
    BY <1>6, Zenon DEF UnlockSeesAwaiters, Goto, TypeOK, Labels, state, OwnerInv, UnlockInv, Holds
  <2>4. ListsInv'
    BY <1>6 DEF UnlockSeesAwaiters, Goto, TypeOK, Labels, state, OwnerInv, UnlockInv, ListsInv,
       Holds, Popping
  <2> QED BY <2>1, <2>2, <2>3, <2>4
<1>7. ASSUME NEW c \in Coros, UnlockExchange(c) PROVE IInv'
  <2>1. TypeOK'
    <3>1. fifo' \in Seq(Coros)
      BY <1>7, ReverseProperties, Zenon DEF UnlockExchange, TypeOK
    <3>2. free' = FALSE /\ lifo' = <<>> /\ UNCHANGED <<snap, owner>>
      BY <1>7, Zenon DEF UnlockExchange
    <3>3. pc' \in [Coros -> Labels]
      BY <1>7, Zenon DEF UnlockExchange, Goto, TypeOK, Labels
    <3>4. lifo' \in Seq(Coros)
      BY <3>2, EmptySeq, Zenon
    <3> QED
      BY <3>1, <3>2, <3>3, <3>4, Zenon DEF TypeOK
  <2>2. OwnerInv'
    BY <1>7, Zenon DEF UnlockExchange, Goto, TypeOK, Labels, state, OwnerInv, UnlockInv, Holds
  <2>3. UnlockInv'
    <3>1. fifo' # <<>>
      BY <1>7, ReverseProperties DEF UnlockExchange, TypeOK, UnlockInv
    <3> QED
      BY <1>7, <3>1, Zenon DEF UnlockExchange, Goto, TypeOK, OwnerInv, UnlockInv, Holds
  <2>4. ListsInv'
    <3> DEFINE n == Len(lifo)
    <3>1. /\ Len(fifo') = n /\ n \in Nat
          /\ \A i \in 1..n : fifo'[i] = lifo[n - i + 1]
          /\ lifo' = <<>> /\ Len(lifo') = 0 /\ fifo = <<>>
      BY <1>7, ReverseProperties, LenProperties, Zenon DEF UnlockExchange, TypeOK, UnlockInv
    <3> HIDE DEF n
    <3>2. \A d \in Coros : pc'[d] = IF d = c THEN "schedule" ELSE pc[d]
      BY <1>7, Zenon DEF UnlockExchange, Goto, TypeOK
    <3>3. ASSUME NEW i \in 1..n
          PROVE  n - i + 1 \in 1..n /\ lifo[i] \in Coros /\ fifo'[n - i + 1] = lifo[i]
      <4>1. n - i + 1 \in 1..n /\ n - (n - i + 1) + 1 = i
        BY <3>1
      <4>2. fifo'[n - i + 1] = lifo[n - (n - i + 1) + 1]
        BY <3>1, <4>1, Zenon
      <4>3. lifo[i] \in Coros
        BY DEF TypeOK, n
      <4> QED
        BY <4>1, <4>2, <4>3, Zenon
    <3>4. \A i \in 1..n : pc'[fifo'[i]] = "waiting"
      <4> SUFFICES ASSUME NEW i \in 1..n PROVE pc'[lifo[n - i + 1]] = "waiting"
        BY <3>1
      <4>1. n - i + 1 \in 1..Len(lifo)
        BY <3>3, Zenon DEF n
      <4>2. lifo[n - i + 1] \in Coros
        BY <4>1 DEF TypeOK
      <4>3. pc[lifo[n - i + 1]] = "waiting"
        BY <4>1, Zenon DEF ListsInv
      <4> QED
        BY <1>7, <3>2, <4>2, <4>3, Zenon DEF UnlockExchange
    <3>5. \A i, j \in 1..n : fifo'[i] = fifo'[j] => i = j
      <4> SUFFICES ASSUME NEW i \in 1..n, NEW j \in 1..n, fifo'[i] = fifo'[j] PROVE i = j
        BY Zenon
      <4>1. lifo[n - i + 1] = lifo[n - j + 1]
        BY <3>1, Zenon
      <4>2. n - i + 1 = n - j + 1
        BY <3>3, <4>1, Zenon DEF ListsInv, n
      <4> QED BY <3>1, <4>2
    <3>6. \A d \in Coros : pc'[d] = "waiting" => \E i \in 1..n : fifo'[i] = d
      <4> SUFFICES ASSUME NEW d \in Coros, pc'[d] = "waiting"
                   PROVE  \E i \in 1..n : fifo'[i] = d
        BY Zenon
      <4>1. PICK i \in 1..n : lifo[i] = d
        BY <3>1, <3>2 DEF ListsInv, n
      <4> QED
        BY <3>3, <4>1, Zenon
    <3> QED
      BY <3>1, <3>4, <3>5, <3>6 DEF ListsInv
  <2> QED BY <2>1, <2>2, <2>3, <2>4
<1>8. ASSUME NEW c \in Coros, UnlockOrdered(c) PROVE IInv'
  <2>1. TypeOK'
    BY <1>8, Zenon DEF UnlockOrdered, Goto, TypeOK, Labels, state
  <2>2. OwnerInv'
    BY <1>8, Zenon DEF UnlockOrdered, Goto, TypeOK, Labels, state, OwnerInv, UnlockInv, Holds
  <2>3. UnlockInv'
    BY <1>8, Zenon DEF UnlockOrdered, Goto, TypeOK, Labels, state, OwnerInv, UnlockInv, Holds
  <2>4. ListsInv'
    BY <1>8, SMTT(60) DEF UnlockOrdered, Goto, TypeOK, Labels, state, OwnerInv, UnlockInv,
       ListsInv, Holds, Popping
  <2> QED BY <2>1, <2>2, <2>3, <2>4
<1>9. ASSUME NEW c \in Coros, UnlockSchedule(c) PROVE IInv'
  <2>1. TypeOK'
    BY <1>9, HeadTailProperties, Zenon DEF UnlockSchedule, TypeOK, Labels, UnlockInv
  <2>2. OwnerInv'
    BY <1>9 DEF UnlockSchedule, Goto, TypeOK, Labels, state, OwnerInv, UnlockInv, Holds
  <2>3. UnlockInv'
    BY <1>9 DEF UnlockSchedule, Goto, TypeOK, Labels, state, OwnerInv, UnlockInv, Holds
  <2>4. ListsInv'
    <3>1. /\ fifo' = fifo /\ lifo' = lifo /\ Len(fifo) \in Nat \ {0} /\ Head(fifo) = fifo[1]
          /\ pc[fifo[1]] \in {"waiting", "ready"}
      BY <1>9, LenProperties DEF UnlockSchedule, TypeOK, UnlockInv, ListsInv, Popping
    <3>2. ~Popping
      BY <1>9, Zenon DEF UnlockSchedule, Popping, UnlockInv, OwnerInv, Holds
    <3>3. Popping'
      BY <1>9, <2>1, <3>1, Zenon DEF UnlockSchedule, Popping, TypeOK
    <3>4. \A d \in Coros :
            pc'[d] = IF d = fifo[1] THEN "ready" ELSE IF d = c THEN "pop" ELSE pc[d]
      BY <1>9, <3>1, Zenon DEF UnlockSchedule, TypeOK
    <3>5. /\ \A i \in 1..Len(lifo) : lifo[i] \in Coros /\ lifo[i] # fifo[1] /\ lifo[i] # c
          /\ \A i \in 2..Len(fifo) : fifo[i] \in Coros /\ fifo[i] # fifo[1] /\ fifo[i] # c
      BY <1>9, <3>1, <3>2, SMTT(60) DEF UnlockSchedule, TypeOK, ListsInv
    <3>6. /\ \A i \in 1..Len(lifo) : pc'[lifo[i]] = "waiting"
          /\ \A i \in 1..Len(fifo) : i = 1 \/ pc'[fifo[i]] = "waiting"
      BY <3>1, <3>2, <3>4, <3>5 DEF ListsInv
    <3>7. \A d \in Coros : pc'[d] = "waiting" => pc[d] = "waiting"
      BY <3>4, Zenon
    <3> QED
      BY <3>1, <3>3, <3>6, <3>7 DEF ListsInv
  <2> QED BY <2>1, <2>2, <2>3, <2>4
<1>10. ASSUME NEW c \in Coros, UnlockPop(c) PROVE IInv'
  <2>1. TypeOK'
    BY <1>10, HeadTailProperties, Zenon DEF UnlockPop, Goto, TypeOK, Labels, UnlockInv
  <2>2. OwnerInv'
    BY <1>10 DEF UnlockPop, Goto, TypeOK, Labels, state, OwnerInv, UnlockInv, Holds
  <2>3. UnlockInv'
    BY <1>10 DEF UnlockPop, Goto, TypeOK, Labels, state, OwnerInv, UnlockInv, Holds
  <2>4. ListsInv'
    <3> DEFINE n == Len(fifo)
    <3>1. /\ n \in Nat \ {0} /\ lifo' = lifo /\ Len(fifo') = n - 1
          /\ \A i \in 1..n - 1 : fifo'[i] = fifo[i + 1]
          /\ \A i \in 2..n : fifo[i] = fifo'[i - 1]
      BY <1>10, LenProperties, HeadTailProperties DEF UnlockPop, TypeOK, UnlockInv
    <3>2. \A d \in Coros : pc'[d] = IF d = c THEN "out" ELSE pc[d]
      BY <1>10, Zenon DEF UnlockPop, Goto, TypeOK
    <3>3. /\ \A i \in 1..Len(lifo) : lifo[i] \in Coros /\ pc[lifo[i]] = "waiting"
          /\ \A i \in 2..n : fifo[i] \in Coros /\ pc[fifo[i]] = "waiting"
          /\ pc[c] = "pop" /\ pc[fifo[1]] = "ready"
      BY <1>10, <3>1 DEF UnlockPop, TypeOK, ListsInv, UnlockInv
    <3>4. /\ \A i \in 1..Len(lifo') : pc'[lifo'[i]] = "waiting"
          /\ \A i \in 1..Len(fifo') : pc'[fifo'[i]] = "waiting"
      <4>1. ASSUME NEW i \in 1..Len(lifo) PROVE pc'[lifo[i]] = "waiting"
        BY <3>2, <3>3
      <4>2. ASSUME NEW i \in 1..n - 1 PROVE pc'[fifo'[i]] = "waiting"
        <5>1. i + 1 \in 2..n /\ fifo'[i] = fifo[i + 1]
          BY <3>1
        <5>2. fifo[i + 1] \in Coros /\ fifo[i + 1] # c /\ pc[fifo[i + 1]] = "waiting"
          BY <3>3, <5>1, Zenon
        <5> QED BY <3>2, <5>1, <5>2
      <4> QED
        BY <3>1, <4>1, <4>2, Zenon
    <3>5. \A i, j \in 1..Len(fifo') : fifo'[i] = fifo'[j] => i = j
      BY <3>1 DEF ListsInv
    <3>6. \A i \in 1..Len(lifo'), j \in 1..Len(fifo') : lifo'[i] # fifo'[j]
      BY <3>1 DEF ListsInv
    <3>7. ASSUME NEW d \in Coros, pc'[d] = "waiting"
          PROVE  \/ \E i \in 1..Len(lifo') : lifo'[i] = d
                 \/ \E i \in 1..Len(fifo') : fifo'[i] = d
      <4>1. pc[d] = "waiting"
        BY <3>2, <3>7, Zenon
      <4>2. CASE \E i \in 1..Len(lifo) : lifo[i] = d
        BY <3>1, <4>2, Zenon
      <4>3. CASE \E i \in 1..n : fifo[i] = d
        <5> PICK i \in 1..n : fifo[i] = d
          BY <4>3, Zenon
        <5>1. i # 1
          BY <3>3, <4>1, Zenon
        <5>2. i - 1 \in 1..Len(fifo') /\ fifo'[i - 1] = d
          BY <3>1, <5>1, SMTT(20)
        <5> QED BY <5>2
      <4> QED BY <4>1, <4>2, <4>3 DEF ListsInv
    <3> QED
      BY <3>1, <3>4, <3>5, <3>6, <3>7 DEF ListsInv
  <2> QED BY <2>1, <2>2, <2>3, <2>4
<1>11. ASSUME NEW c \in Coros, Resume(c) PROVE IInv'
  <2>1. TypeOK'
    BY <1>11, Zenon DEF Resume, Goto, TypeOK, Labels, state
  <2>2. OwnerInv'
    BY <1>11, Zenon DEF Resume, Goto, TypeOK, Labels, state, OwnerInv, UnlockInv, Holds
  <2>3. UnlockInv'
    BY <1>11 DEF Resume, Goto, TypeOK, Labels, state, OwnerInv, UnlockInv, Holds
  <2>4. ListsInv'
    BY <1>11, SMTT(60) DEF Resume, Goto, TypeOK, Labels, state, OwnerInv, UnlockInv, ListsInv,
       Holds, Popping
  <2> QED BY <2>1, <2>2, <2>3, <2>4
<1>12. CASE UNCHANGED vars
  BY <1>12 DEF vars, TypeOK, OwnerInv, UnlockInv, ListsInv, Holds, Popping
<1> QED
  BY <1>1, <1>2, <1>3, <1>4, <1>5, <1>6, <1>7, <1>8, <1>9, <1>10, <1>11, <1>12, Zenon DEF Next,
     LockStep, UnlockStep

-----------------------------------------------------------------------------
\* The variables keep their types.
THEOREM TypeCorrect == Spec => []TypeOK
<1>1. IInv => TypeOK
  BY Zenon DEF IInv
<1> QED
  BY InitIInv, NextIInv, <1>1, PTL DEF Spec

\* Two coroutines never hold the lock together, however the compare_exchange
\* loops of lock() and unlock() interleave, for any number of coroutines.
THEOREM MutexIsExclusive == Spec => []MutualExclusion
<1>1. IInv => MutualExclusion
  BY Zenon DEF IInv, OwnerInv, MutualExclusion
<1> QED
  BY InitIInv, NextIInv, <1>1, PTL DEF Spec

\* The assertions of unlock() hold: mutex.hpp:89, 106 and 113.
THEOREM UnlockAssertsHold == Spec => []UnlockAsserts
<1>1. IInv => UnlockAsserts
  BY CorosAssumption, Zenon DEF IInv, TypeOK, OwnerInv, UnlockInv, UnlockAsserts, Holds
<1> QED
  BY InitIInv, NextIInv, <1>1, PTL DEF Spec

-----------------------------------------------------------------------------
\* The mutex implements FifoLock, with Queued for its queue.

\* The awaiters in fifo_awaiters_ that are not scheduled yet.
Ordered == IF Popping THEN Tail(fifo) ELSE fifo

\* The reversal loop of unlock() leaves an empty list empty (mutex.hpp:109-112).
LEMMA ReverseEmpty == Reverse(<<>>) = <<>>
BY DEF Reverse

\* An awaiter pushed on state_ goes to the end of the abstract queue.
LEMMA ConcatAppend ==
  ASSUME NEW S, NEW s \in Seq(S), NEW t \in Seq(S), NEW c \in S
  PROVE  s \o Append(t, c) = Append(s \o t, c)
<1> DEFINE u == <<c>>
<1>1. u \in Seq(S)
  OBVIOUS
<1>2. s \o t \in Seq(S)
  BY ConcatProperties, Zenon
<1>3. Append(t, c) = t \o u /\ Append(s \o t, c) = (s \o t) \o u
  BY <1>2, AppendIsConcat, Zenon
<1> HIDE DEF u
<1>4. (s \o t) \o u = s \o (t \o u)
  BY <1>1, ConcatAssociative, SMTT(20)
<1> QED
  BY <1>3, <1>4, Zenon

\* The awaiter unlock() takes from fifo_awaiters_ is the first of the abstract
\* queue, and what is left is the rest of it.
LEMMA HeadTailConcat ==
  ASSUME NEW S, NEW s \in Seq(S), NEW t \in Seq(S), s # <<>>
  PROVE  /\ s \o t # <<>>
         /\ Head(s \o t) = Head(s)
         /\ Tail(s \o t) = Tail(s) \o t
<1> DEFINE u == s \o t
           l == Tail(u)
           r == Tail(s) \o t
           m == Len(s)
           n == Len(t)
<1>1. /\ u \in Seq(S) /\ Len(u) = m + n /\ m \in Nat \ {0} /\ n \in Nat
      /\ \A i \in 1..m + n : u[i] = IF i <= m THEN s[i] ELSE t[i - m]
  BY ConcatProperties, LenProperties
<1>2. /\ Tail(s) \in Seq(S) /\ Len(Tail(s)) = m - 1
      /\ \A i \in 1..m - 1 : Tail(s)[i] = s[i + 1]
  BY HeadTailProperties, Zenon
<1>3. /\ r \in Seq(S) /\ Len(r) = m - 1 + n
      /\ \A i \in 1..m - 1 + n : r[i] = IF i <= m - 1 THEN Tail(s)[i] ELSE t[i - (m - 1)]
  BY <1>2, ConcatProperties
<1>4. u # <<>> /\ Head(u) = u[1] /\ Head(s) = s[1]
  BY <1>1
<1> HIDE DEF u
<1>5. /\ l \in Seq(S) /\ Len(l) = m + n - 1
      /\ \A i \in 1..m + n - 1 : l[i] = u[i + 1]
  BY <1>1, <1>4, HeadTailProperties
<1> HIDE DEF l, r, m, n
<1>6. ASSUME NEW i \in 1..m + n - 1 PROVE l[i] = r[i]
  <2>1. i + 1 \in 1..m + n /\ i \in 1..m - 1 + n /\ i - (m - 1) = i + 1 - m
    BY <1>1
  <2>2. l[i] = IF i + 1 <= m THEN s[i + 1] ELSE t[i + 1 - m]
    BY <1>1, <1>5, <2>1, SMTT(60)
  <2>3. r[i] = IF i <= m - 1 THEN s[i + 1] ELSE t[i + 1 - m]
    BY <1>1, <1>2, <1>3, <2>1
  <2> QED
    BY <1>1, <2>2, <2>3
<1>7. Len(l) = Len(r)
  BY <1>1, <1>3, <1>5, SMTT(60)
<1>8. \A i \in 1..Len(l) : l[i] = r[i]
  BY <1>5, <1>6, Zenon
<1>9. l = r
  BY <1>3, <1>5, <1>7, <1>8, SeqEqual, Zenon
<1>10. u[1] = s[1]
  BY <1>1
<1> QED
  BY <1>4, <1>9, <1>10, Zenon DEF l, r, u

\* Queued is the ordered awaiters followed by the new ones, oldest first.
LEMMA QueuedIsConcat ==
  IInv => /\ Queued = Ordered \o Reverse(lifo)
          /\ Ordered \in Seq(Coros) /\ Reverse(lifo) \in Seq(Coros)
<1> SUFFICES ASSUME IInv
             PROVE  /\ Queued = Ordered \o Reverse(lifo)
                    /\ Ordered \in Seq(Coros) /\ Reverse(lifo) \in Seq(Coros)
  BY Zenon
<1>1. Queued = Ordered \o Reverse(lifo)
  BY Zenon DEF Queued, Ordered, Popping
<1>2. Ordered \in Seq(Coros)
  BY HeadTailProperties, Zenon DEF IInv, TypeOK, UnlockInv, Ordered, Popping
<1>3. Reverse(lifo) \in Seq(Coros)
  BY ReverseProperties, Zenon DEF IInv, TypeOK
<1> QED
  BY <1>1, <1>2, <1>3, Zenon

\* The ordered awaiters: each of them waits, once, and is not in the new list.
LEMMA OrderedProperties ==
  ASSUME IInv
  PROVE  /\ Len(Ordered) \in Nat
         /\ \A i \in 1..Len(Ordered) :
              /\ Ordered[i] \in Coros /\ pc[Ordered[i]] = "waiting"
              /\ \A j \in 1..Len(lifo) : Ordered[i] # lifo[j]
         /\ \A i, j \in 1..Len(Ordered) : Ordered[i] = Ordered[j] => i = j
         /\ \A c \in Coros : pc[c] = "waiting" =>
              \/ \E i \in 1..Len(lifo) : lifo[i] = c
              \/ \E i \in 1..Len(Ordered) : Ordered[i] = c
<1>1. CASE ~Popping
  <2>1. Ordered = fifo
    BY <1>1, Zenon DEF Ordered
  <2> QED
    BY <1>1, <2>1, LenProperties DEF IInv, TypeOK, ListsInv
<1>2. CASE Popping
  <2> DEFINE n == Len(fifo)
  <2>1. /\ n \in Nat \ {0} /\ Len(Ordered) = n - 1 /\ pc[fifo[1]] = "ready"
        /\ \A i \in 1..n - 1 : Ordered[i] = fifo[i + 1]
    BY <1>2, LenProperties, HeadTailProperties DEF IInv, TypeOK, UnlockInv, Ordered, Popping
  <2>2. /\ \A i \in 1..Len(lifo), j \in 1..n : lifo[i] # fifo[j]
        /\ \A i, j \in 1..n : fifo[i] = fifo[j] => i = j
        /\ \A i \in 2..n : fifo[i] \in Coros /\ pc[fifo[i]] = "waiting"
    BY <1>2, <2>1 DEF IInv, TypeOK, ListsInv
  <2>3. \A c \in Coros : pc[c] = "waiting" =>
              \/ \E i \in 1..Len(lifo) : lifo[i] = c
              \/ \E i \in 1..n : fifo[i] = c
    BY Zenon DEF IInv, ListsInv
  <2> HIDE DEF n
  <2>4. \A i \in 1..n - 1 : i + 1 \in 2..n /\ i + 1 \in 1..n
    BY <2>1
  <2>5. \A i \in 1..Len(Ordered) :
              /\ Ordered[i] \in Coros /\ pc[Ordered[i]] = "waiting"
              /\ \A j \in 1..Len(lifo) : Ordered[i] # lifo[j]
    <3> SUFFICES ASSUME NEW i \in 1..n - 1
                 PROVE  /\ Ordered[i] \in Coros /\ pc[Ordered[i]] = "waiting"
                        /\ \A j \in 1..Len(lifo) : Ordered[i] # lifo[j]
      BY <2>1, Zenon
    <3>1. Ordered[i] = fifo[i + 1] /\ i + 1 \in 2..n /\ i + 1 \in 1..n
      BY <2>1, <2>4, Zenon
    <3> QED BY <2>2, <3>1
  <2>6. ASSUME NEW i \in 1..n - 1, NEW j \in 1..n - 1, Ordered[i] = Ordered[j] PROVE i = j
    <3>1. fifo[i + 1] = fifo[j + 1]
      BY <2>1, <2>6, Zenon
    <3>2. i + 1 = j + 1
      BY <2>2, <2>4, <3>1, Zenon
    <3> QED BY <2>1, <3>2
  <2>7. ASSUME NEW c \in Coros, pc[c] = "waiting", NEW i \in 1..n, fifo[i] = c
        PROVE  \E j \in 1..Len(Ordered) : Ordered[j] = c
    <3>1. i # 1
      BY <2>1, <2>7, Zenon
    <3>2. i - 1 \in 1..Len(Ordered) /\ Ordered[i - 1] = fifo[i - 1 + 1] /\ i - 1 + 1 = i
      BY <2>1, <3>1
    <3> QED BY <2>7, <3>2
  <2> QED
    BY <2>1, <2>3, <2>5, <2>6, <2>7
<1> QED
  BY <1>1, <1>2, Zenon

\* No awaiter is lost or queued twice: a coroutine is suspended in lock()
\* exactly if it is in one of the two lists, once.
THEOREM AwaitersAreQueued == Spec => []AwaitersQueued
<1>1. IInv => AwaitersQueued
  <2> SUFFICES ASSUME IInv PROVE AwaitersQueued
    BY Zenon
  <2> DEFINE r == Reverse(lifo)
             k == Len(Ordered)
             n == Len(lifo)
             q == Queued
  <2>1. /\ Len(q) = k + n /\ k \in Nat /\ n \in Nat /\ DOMAIN q = 1..k + n
        /\ \A i \in 1..k + n : q[i] = IF i <= k THEN Ordered[i] ELSE r[i - k]
    <3> DEFINE o == Ordered
               u == o \o r
    <3>1. o \in Seq(Coros) /\ r \in Seq(Coros) /\ Len(r) = n /\ q = u
      BY QueuedIsConcat, ReverseProperties, Zenon DEF IInv, TypeOK
    <3>2. k \in Nat /\ n \in Nat
      BY <3>1, LenProperties, Zenon DEF IInv, TypeOK
    <3> HIDE DEF o, r, q, n
    <3>3. /\ u \in Seq(Coros) /\ Len(u) = k + n
          /\ \A i \in 1..k + n : u[i] = IF i <= k THEN o[i] ELSE r[i - k]
      BY <3>1, ConcatProperties, Zenon DEF o
    <3> HIDE DEF u
    <3>4. DOMAIN u = 1..k + n
      BY <3>3, LenProperties, Zenon
    <3> QED BY <3>1, <3>2, <3>3, <3>4 DEF o
  <2>2. \A i \in 1..n : r[i] = lifo[n - i + 1] /\ n - i + 1 \in 1..n
    <3>1. \A i \in 1..n : r[i] = lifo[n - i + 1]
      BY ReverseProperties, Zenon DEF IInv, TypeOK
    <3>2. \A i \in 1..n : n - i + 1 \in 1..n
      BY <2>1
    <3> QED BY <3>1, <3>2
  <2>3. /\ \A i, j \in 1..n : lifo[i] = lifo[j] => i = j
        /\ \A i \in 1..n : lifo[i] \in Coros /\ pc[lifo[i]] = "waiting"
    BY DEF IInv, TypeOK, ListsInv
  <2>4. /\ \A i \in 1..k : /\ Ordered[i] \in Coros /\ pc[Ordered[i]] = "waiting"
                          /\ \A j \in 1..n : Ordered[i] # lifo[j]
        /\ \A i, j \in 1..k : Ordered[i] = Ordered[j] => i = j
        /\ \A c \in Coros : pc[c] = "waiting" =>
             (\E i \in 1..n : lifo[i] = c) \/ (\E i \in 1..k : Ordered[i] = c)
    BY OrderedProperties, Zenon
  <2> HIDE DEF r, k, n, q
  <2>5. ASSUME NEW i \in 1..k + n
        PROVE  \/ i \in 1..k /\ q[i] = Ordered[i]
               \/ /\ i \in k + 1..k + n
                  /\ n - (i - k) + 1 \in 1..n /\ q[i] = lifo[n - (i - k) + 1]
    <3>1. CASE i <= k
      BY <2>1, <3>1
    <3>2. CASE ~(i <= k)
      <4>1. i - k \in 1..n
        BY <2>1, <3>2
      <4> QED BY <2>1, <2>2, <3>2, <4>1, SMTT(20)
    <3> QED BY <3>1, <3>2
  <2>6. \A i \in DOMAIN q : q[i] \in Coros /\ pc[q[i]] = "waiting"
    BY <2>1, <2>3, <2>4, <2>5
  <2>7. ASSUME NEW c \in Coros, pc[c] = "waiting" PROVE \E i \in DOMAIN q : q[i] = c
    <3>1. ASSUME NEW i \in 1..k, Ordered[i] = c PROVE \E j \in DOMAIN q : q[j] = c
      <4>1. i \in 1..k + n /\ q[i] = c
        BY <2>1, <3>1
      <4> QED BY <2>1, <4>1
    <3>2. ASSUME NEW i \in 1..n, lifo[i] = c PROVE \E j \in DOMAIN q : q[j] = c
      <4> DEFINE j == k + (n - i + 1)
      <4>1. j \in 1..k + n /\ ~(j <= k) /\ j - k = n - i + 1 /\ n - i + 1 \in 1..n
            /\ n - (n - i + 1) + 1 = i
        BY <2>1
      <4>2. q[j] = r[n - i + 1]
        BY <2>1, <4>1, Zenon
      <4>3. r[n - i + 1] = lifo[n - (n - i + 1) + 1]
        BY <2>2, <4>1, Zenon
      <4>4. q[j] = c
        BY <3>2, <4>1, <4>2, <4>3, Zenon
      <4> QED BY <2>1, <4>1, <4>4
    <3> QED BY <2>4, <2>7, <3>1, <3>2
  <2>8. ASSUME NEW i \in DOMAIN q, NEW j \in DOMAIN q, q[i] = q[j] PROVE i = j
    <3>0. i \in 1..k + n /\ j \in 1..k + n
      BY <2>1, Zenon
    <3>1. CASE i \in 1..k /\ j \in 1..k
      BY <2>1, <2>4, <2>8, <3>0, <3>1
    <3>2. CASE i \in k + 1..k + n /\ j \in k + 1..k + n
      <4>1. /\ n - (i - k) + 1 \in 1..n /\ q[i] = lifo[n - (i - k) + 1]
            /\ n - (j - k) + 1 \in 1..n /\ q[j] = lifo[n - (j - k) + 1]
        BY <2>1, <2>5, <3>0, <3>2, SMTT(60)
      <4>2. n - (i - k) + 1 = n - (j - k) + 1
        BY <2>3, <2>8, <4>1, Zenon
      <4> QED BY <2>1, <3>0, <4>2
    <3>3. CASE i \in 1..k /\ j \in k + 1..k + n
      BY <2>1, <2>4, <2>5, <2>8, <3>0, <3>3
    <3>4. CASE i \in k + 1..k + n /\ j \in 1..k
      BY <2>1, <2>4, <2>5, <2>8, <3>0, <3>4
    <3> QED BY <2>1, <3>0, <3>1, <3>2, <3>3, <3>4, SMTT(20)
  <2> QED
    BY <2>6, <2>7, <2>8, Zenon DEF AwaitersQueued, q
<1> QED
  BY InitIInv, NextIInv, <1>1, PTL DEF Spec

\* A step that leaves the lists, and who is popping, alone leaves Queued alone.
LEMMA QueuedUnchanged ==
  ASSUME fifo' = fifo, lifo' = lifo, Popping' <=> Popping
  PROVE  Queued' = Queued
BY Zenon DEF Queued, Popping

\* Every step of the mutex is a step of FifoLock, or none.
LEMMA StepRefines == IInv /\ [Next]_vars => [Promise!Next]_(Promise!lockVars)
<1> SUFFICES ASSUME IInv, [Next]_vars PROVE [Promise!Next]_(Promise!lockVars)
  BY Zenon
<1> USE CorosAssumption
<1>1. ASSUME NEW c \in Coros,
             LockLoad(c) \/ LockRetry(c) \/ UnlockSeesAwaiters(c) \/ UnlockOrdered(c) \/ Resume(c)
      PROVE  UNCHANGED Promise!lockVars
  <2>1. fifo' = fifo /\ lifo' = lifo /\ owner' = owner
    BY <1>1, Zenon DEF LockLoad, LockRetry, UnlockSeesAwaiters, UnlockOrdered, Resume
  <2>2. Popping' <=> Popping
    BY <1>1, Zenon DEF LockLoad, LockRetry, UnlockSeesAwaiters, UnlockOrdered, Resume, Goto,
       Popping, IInv, TypeOK
  <2> QED
    BY <2>1, <2>2, QueuedUnchanged, Zenon DEF Promise!lockVars
<1>2. ASSUME NEW c \in Coros, LockFree(c) PROVE Promise!Acquire(c)
  <2>1. fifo' = fifo /\ lifo' = lifo /\ owner' = c /\ owner = Nobody
    BY <1>2 DEF LockFree, state, IInv, TypeOK, OwnerInv
  <2>2. Popping' <=> Popping
    BY <1>2, Zenon DEF LockFree, Goto, Popping, IInv, TypeOK
  <2> QED
    BY <2>1, <2>2, QueuedUnchanged, Zenon DEF Promise!Acquire
<1>3. ASSUME NEW c \in Coros, LockEnqueue(c) PROVE Promise!Enqueue(c)
  <2>1. fifo' = fifo /\ lifo' = <<c>> \o lifo /\ owner' = owner /\ owner # Nobody
    BY <1>3, Zenon DEF LockEnqueue, state, IInv, TypeOK, OwnerInv
  <2>2. Popping' <=> Popping
    BY <1>3, Zenon DEF LockEnqueue, Goto, Popping, IInv, TypeOK
  <2>3. Ordered' = Ordered /\ Queued' = Ordered' \o Reverse(lifo')
    BY <2>1, <2>2, Zenon DEF Ordered, Queued, Popping
  <2>4. Reverse(lifo') = Append(Reverse(lifo), c)
    BY <2>1, ReverseCons, Zenon DEF IInv, TypeOK
  <2>5. Ordered \o Append(Reverse(lifo), c) = Append(Ordered \o Reverse(lifo), c)
    <3>1. Ordered \in Seq(Coros) /\ Reverse(lifo) \in Seq(Coros)
      BY QueuedIsConcat, Zenon
    <3> QED
      BY <3>1, ConcatAppend
  <2>6. Queued' = Append(Queued, c)
    BY <2>3, <2>4, <2>5, QueuedIsConcat, Zenon
  <2> QED
    BY <2>1, <2>6, Zenon DEF Promise!Enqueue
<1>4. ASSUME NEW c \in Coros, UnlockFree(c) PROVE Promise!Release(c)
  <2>1. /\ fifo' = fifo /\ lifo' = lifo /\ owner' = Nobody /\ owner = c
        /\ fifo = <<>> /\ ~free /\ state = Locking
    BY <1>4, Zenon DEF UnlockFree, state, IInv, TypeOK, OwnerInv, Holds
  <2>2. lifo = <<>>
    BY <2>1, HeadTailProperties DEF state, IInv, TypeOK
  <2>3. ~Popping /\ ~Popping'
    BY <1>4, <2>1, Zenon DEF UnlockFree, Goto, Popping, IInv, TypeOK, UnlockInv
  <2>4. Queued = <<>> /\ Queued' = Queued
    BY <2>1, <2>2, <2>3, ReverseEmpty, ConcatEmptySeq, EmptySeq, QueuedUnchanged, Zenon DEF
       Queued, Popping
  <2> QED
    BY <2>1, <2>4, Zenon DEF Promise!Release
<1>5. ASSUME NEW c \in Coros, UnlockExchange(c) PROVE UNCHANGED Promise!lockVars
  <2>1. fifo' = Reverse(lifo) /\ lifo' = <<>> /\ owner' = owner /\ fifo = <<>>
    BY <1>5, Zenon DEF UnlockExchange, IInv, UnlockInv
  <2>2. ~Popping /\ ~Popping'
    BY <1>5, <2>1, Zenon DEF UnlockExchange, Goto, Popping, IInv, TypeOK, UnlockInv
  <2>3. Queued = <<>> \o Reverse(lifo) /\ Queued' = Reverse(lifo) \o Reverse(<<>>)
    BY <2>1, <2>2, Zenon DEF Queued, Popping
  <2>4. Queued' = Queued
    BY <2>3, QueuedIsConcat, ReverseEmpty, ConcatEmptySeq, Zenon
  <2> QED
    BY <2>1, <2>4, Zenon DEF Promise!lockVars
<1>6. ASSUME NEW c \in Coros, UnlockSchedule(c) PROVE Promise!Release(c)
  <2>1. /\ fifo' = fifo /\ lifo' = lifo /\ owner' = Head(fifo) /\ owner = c
        /\ fifo # <<>> /\ fifo \in Seq(Coros)
    BY <1>6, Zenon DEF UnlockSchedule, IInv, TypeOK, OwnerInv, UnlockInv, Holds
  <2>2. ~Popping
    BY <1>6, Zenon DEF UnlockSchedule, Popping, IInv, UnlockInv, OwnerInv, Holds
  <2>3. Popping'
    <3>1. Head(fifo) # c
      BY <1>6, <2>1, <2>2 DEF UnlockSchedule, IInv, ListsInv
    <3> QED
      BY <1>6, <2>1, <3>1, Zenon DEF UnlockSchedule, Popping, IInv, TypeOK
  <2>4. Queued = fifo \o Reverse(lifo) /\ Queued' = Tail(fifo) \o Reverse(lifo)
    BY <2>1, <2>2, <2>3, Zenon DEF Queued, Popping
  <2>5. Queued # <<>> /\ Head(Queued) = Head(fifo) /\ Tail(Queued) = Queued'
    BY <2>1, <2>4, QueuedIsConcat, HeadTailConcat, Zenon
  <2> QED
    BY <2>1, <2>5, Zenon DEF Promise!Release
<1>7. ASSUME NEW c \in Coros, UnlockPop(c) PROVE UNCHANGED Promise!lockVars
  <2>1. fifo' = Tail(fifo) /\ lifo' = lifo /\ owner' = owner /\ Popping
    BY <1>7, Zenon DEF UnlockPop, Popping
  <2>2. ~Popping'
    BY <1>7, Zenon DEF UnlockPop, Goto, Popping, IInv, TypeOK, UnlockInv
  <2>3. Queued' = Queued
    BY <2>1, <2>2, Zenon DEF Queued, Popping
  <2> QED
    BY <2>1, <2>3, Zenon DEF Promise!lockVars
<1>8. CASE UNCHANGED vars
  BY <1>8, Zenon DEF vars, Queued, Promise!lockVars
<1> QED
  BY <1>1, <1>2, <1>3, <1>4, <1>5, <1>6, <1>7, <1>8, Zenon DEF Next, LockStep, UnlockStep,
     Promise!Next, Promise!Lock

\* The promise of sync::Mutex, for any set of coroutines: first come, first
\* served, by direct hand-off (unlock() never leaves the lock free while an
\* awaiter is queued).
THEOREM MutexImplementsFifoLock == Spec => ImplementsFifoLock
<1>1. Init => Promise!Init
  BY ReverseEmpty, ConcatEmptySeq, EmptySeq, Zenon DEF Init, Promise!Init, Queued
<1> QED
  BY <1>1, InitIInv, NextIInv, StepRefines, PTL DEF Spec, ImplementsFifoLock, Promise!Spec

=============================================================================
