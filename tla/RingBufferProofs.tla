-------------------------- MODULE RingBufferProofs --------------------------
(***************************************************************************)
(* A HeapRingBuffer is a bounded first-in first-out queue, for every       *)
(* capacity and wherever its two positions have wrapped to.                *)
(***************************************************************************)
EXTENDS RingBuffer, FiniteSetTheorems, TLAPS

\* A vector of n slots and two positions in it, the number of values that they
\* enclose, and these values.
Stored == Values \cup {NoValue}
Ring(d, n, s, e) ==
  n \in Nat \ {0} /\ d \in [0..n - 1 -> Stored] /\ s \in 0..n - 1 /\ e \in 0..n - 1
Number(n, s, e) == IF e < s THEN e - s + n ELSE e - s
Place(n, s, i) == IF s + i < n THEN s + i ELSE s + i - n
Enclosed(d, n, s, e) == [i \in 1..Number(n, s, e) |-> d[Place(n, s, i - 1)]]
Lists(q, d, n, s, e) ==
  /\ q \in Seq(Stored) /\ Len(q) = Number(n, s, e) /\ Number(n, s, e) \in Nat
  /\ \A i \in 1..Number(n, s, e) : q[i] = d[Place(n, s, i - 1)]
After(n, p) == IF p + 1 = n THEN 0 ELSE p + 1

\* The two positions are slots of a vector that keeps its length.
N == length(data)
Slots == Ring(data, N, start, end)

-----------------------------------------------------------------------------
\* A number below twice the length is brought into the vector by one
\* subtraction at most.
LEMMA Wrap ==
  ASSUME NEW n \in Nat \ {0}, NEW x, x \in 0..2 * n - 1
  PROVE  (x < n => x % n = x) /\ (~(x < n) => x % n = x - n)
<1>1. CASE x < n
  BY <1>1
<1>2. CASE ~(x < n)
  <2>1. PICK y \in 0..n - 1 : x = y + n
    <3>1. x - n \in 0..n - 1 /\ x = (x - n) + n
      BY <1>2
    <3> QED
      BY <3>1
  <2>2. (y + n) % n = y
    OBVIOUS
  <2> QED
    BY <1>2, <2>1, <2>2
<1> QED
  BY <1>1, <1>2

\* What the code computes with a modulus.
LEMMA Moduli ==
  ASSUME NEW n \in Nat \ {0}, NEW s \in 0..n - 1, NEW e \in 0..n - 1
  PROVE  /\ (e - s + n) % n = Number(n, s, e) /\ Number(n, s, e) \in 0..n - 1
         /\ (e + 1) % n = After(n, e) /\ After(n, e) \in 0..n - 1
<1>1. e - s + n \in 0..2 * n - 1 /\ e + 1 \in 0..2 * n - 1
  OBVIOUS
<1>2. /\ e - s + n < n => (e - s + n) % n = e - s + n
      /\ ~(e - s + n < n) => (e - s + n) % n = e - s + n - n
  BY <1>1, Wrap
<1>3. (e + 1 < n => (e + 1) % n = e + 1) /\ (~(e + 1 < n) => (e + 1) % n = e + 1 - n)
  BY <1>1, Wrap
<1>4. (e - s + n) % n = Number(n, s, e) /\ Number(n, s, e) \in 0..n - 1
  BY <1>2 DEF Number
<1>5. (e + 1) % n = After(n, e) /\ After(n, e) \in 0..n - 1
  BY <1>3 DEF After
<1> QED
  BY <1>4, <1>5

LEMMA Places ==
  ASSUME NEW n \in Nat \ {0}, NEW s \in 0..n - 1, NEW i \in 1..n - 1
  PROVE  (s + i - 1) % n = Place(n, s, i - 1) /\ Place(n, s, i - 1) \in 0..n - 1
<1>1. s + i - 1 \in 0..2 * n - 1
  OBVIOUS
<1>2. (s + i - 1 < n => (s + i - 1) % n = s + i - 1)
      /\ (~(s + i - 1 < n) => (s + i - 1) % n = s + i - 1 - n)
  BY <1>1, Wrap
<1> QED
  BY <1>2 DEF Place

\* The enclosed values are a sequence.
LEMMA EnclosedIs ==
  ASSUME NEW d, NEW n, NEW s, NEW e, Ring(d, n, s, e)
  PROVE  Lists(Enclosed(d, n, s, e), d, n, s, e)
<1> DEFINE m == Number(n, s, e)
           at(i) == d[Place(n, s, i - 1)]
<1>1. n \in Nat \ {0} /\ s \in 0..n - 1 /\ e \in 0..n - 1 /\ d \in [0..n - 1 -> Stored]
  BY Zenon DEF Ring
<1>2. m \in 0..n - 1
  BY <1>1, Moduli, Zenon
<1> HIDE DEF m
<1>3. m \in Nat /\ \A i \in 1..m : i \in 1..n - 1
  BY <1>1, <1>2
<1>4. \A i \in 1..m : Place(n, s, i - 1) \in 0..n - 1
  BY <1>1, <1>3, Places, Zenon
<1>5. \A i \in 1..m : at(i) \in Stored
  BY <1>1, <1>4
<1>6. Enclosed(d, n, s, e) = [i \in 1..m |-> at(i)]
  BY Zenon DEF Enclosed, m
<1> HIDE DEF at
<1>7. /\ Enclosed(d, n, s, e) \in Seq(Stored) /\ Len(Enclosed(d, n, s, e)) = m
      /\ \A i \in 1..m : Enclosed(d, n, s, e)[i] = at(i)
  BY <1>3, <1>5, <1>6
<1> QED
  BY <1>3, <1>7, Zenon DEF at, m, Lists

\* The buffer's contents are the values its positions enclose.
LEMMA ContentsAre ==
  ASSUME NEW d, NEW n, NEW s, NEW e, Ring(d, n, s, e)
  PROVE  [i \in 1..(e - s + n) % n |-> d[(s + i - 1) % n]] = Enclosed(d, n, s, e)
<1>1. n \in Nat \ {0} /\ s \in 0..n - 1 /\ e \in 0..n - 1
  BY Zenon DEF Ring
<1>2. (e - s + n) % n = Number(n, s, e) /\ Number(n, s, e) \in 0..n - 1
  BY <1>1, Moduli, Zenon
<1>3. \A i \in 1..Number(n, s, e) : i \in 1..n - 1
  BY <1>1, <1>2
<1>4. \A i \in 1..Number(n, s, e) : (s + i - 1) % n = Place(n, s, i - 1)
  BY <1>1, <1>3, Places, Zenon
<1> QED
  BY <1>2, <1>4, Zenon DEF Enclosed

-----------------------------------------------------------------------------
\* Sequences with the same values at the same places are the same.
LEMMA SameSeq ==
  ASSUME NEW p \in Seq(Stored), NEW q \in Seq(Stored), Len(p) = Len(q),
         \A i \in 1..Len(p) : p[i] = q[i]
  PROVE  p = q
  OBVIOUS

LEMMA Appended ==
  ASSUME NEW q \in Seq(Stored), NEW v \in Stored
  PROVE  /\ Append(q, v) \in Seq(Stored) /\ Len(Append(q, v)) = Len(q) + 1
         /\ \A i \in 1..Len(q) : Append(q, v)[i] = q[i]
         /\ Append(q, v)[Len(q) + 1] = v
  OBVIOUS

LEMMA TailOf ==
  ASSUME NEW q \in Seq(Stored), Len(q) > 0
  PROVE  /\ Tail(q) \in Seq(Stored) /\ Len(Tail(q)) = Len(q) - 1 /\ Head(q) = q[1] /\ q # <<>>
         /\ \A i \in 1..Len(q) - 1 : Tail(q)[i] = q[i + 1]
  OBVIOUS

\* Full and empty, by the number of values.
LEMMA FullAndEmpty ==
  ASSUME NEW n \in Nat \ {0}, NEW s \in 0..n - 1, NEW e \in 0..n - 1
  PROVE  (After(n, e) = s <=> Number(n, s, e) = n - 1) /\ (s = e <=> Number(n, s, e) = 0)
  BY DEF After, Number

\* A slot gets another value.
Overwrites(f, d, n, e, v) ==
  /\ f \in [0..n - 1 -> Stored] /\ f[e] = v
  /\ \A j \in 0..n - 1 : j # e => f[j] = d[j]

\* A sequence has one value more.
Extends(p, q, v) == p = Append(q, v)

\* A value more: it comes after the others, whose slots are left alone.
LEMMA OneMore ==
  ASSUME NEW d, NEW n, NEW s, NEW e, Ring(d, n, s, e), After(n, e) # s,
         NEW v \in Values, NEW f, Overwrites(f, d, n, e, v)
  PROVE  /\ Ring(f, n, s, After(n, e))
         /\ Extends(Enclosed(f, n, s, After(n, e)), Enclosed(d, n, s, e), v)
<1> DEFINE m == Number(n, s, e)
           b == After(n, e)
           p == Enclosed(f, n, s, b)
           q == Enclosed(d, n, s, e)
           r == Append(q, v)
<1>1. /\ n \in Nat \ {0} /\ s \in 0..n - 1 /\ e \in 0..n - 1
      /\ d \in [0..n - 1 -> Stored] /\ v \in Stored
  BY Zenon DEF Ring, Stored
<1>2. b \in 0..n - 1
  BY <1>1, Moduli, Zenon
<1> HIDE DEF b
<1>3. /\ f \in [0..n - 1 -> Stored] /\ f[e] = v
      /\ \A j \in 0..n - 1 : j # e => f[j] = d[j]
  BY Zenon DEF Overwrites
<1>4. Ring(f, n, s, b)
  BY <1>1, <1>2, <1>3, Zenon DEF Ring
<1>5. /\ q \in Seq(Stored) /\ Len(q) = m /\ m \in Nat
      /\ \A i \in 1..m : q[i] = d[Place(n, s, i - 1)]
  <2>1. Lists(q, d, n, s, e)
    BY EnclosedIs, Zenon
  <2> QED
    BY <2>1, Zenon DEF Lists
<1>6. /\ p \in Seq(Stored) /\ Len(p) = Number(n, s, b)
      /\ \A i \in 1..Number(n, s, b) : p[i] = f[Place(n, s, i - 1)]
  <2>1. Lists(p, f, n, s, b)
    BY <1>4, EnclosedIs, Zenon
  <2> QED
    BY <2>1, Zenon DEF Lists
<1>7. /\ Number(n, s, b) = m + 1 /\ Place(n, s, m) = e
      /\ \A i \in 1..m : Place(n, s, i - 1) \in 0..n - 1 /\ Place(n, s, i - 1) # e
  BY <1>1 DEF After, Number, Place, b
<1> HIDE DEF p, q, m
<1>8. /\ r \in Seq(Stored) /\ Len(r) = m + 1
      /\ \A i \in 1..m : r[i] = q[i]
      /\ r[m + 1] = v
  BY <1>1, <1>5, Appended
<1> HIDE DEF r
<1>9. \A i \in 1..m : p[i] = r[i]
  <2>1. \A i \in 1..m : i \in 1..m + 1
    BY <1>5
  <2>2. ASSUME NEW i \in 1..m PROVE p[i] = r[i]
    <3>1. p[i] = f[Place(n, s, i - 1)]
      BY <1>6, <1>7, <2>1, Zenon
    <3>2. f[Place(n, s, i - 1)] = d[Place(n, s, i - 1)]
      BY <1>3, <1>7, Zenon
    <3> QED
      BY <1>5, <1>8, <3>1, <3>2, Zenon
  <2> QED
    BY <2>2, Zenon
<1>10. p[m + 1] = r[m + 1]
  <2>1. PICK k \in 1..m + 1 : k = m + 1 /\ k - 1 = m
    BY <1>5
  <2>2. p[k] = f[Place(n, s, k - 1)]
    BY <1>6, <1>7, Zenon
  <2>3. p[k] = f[Place(n, s, m)]
    BY <2>1, <2>2, Zenon
  <2> QED
    BY <1>3, <1>7, <1>8, <2>1, <2>3, Zenon
<1>11. \A i \in 1..Len(p) : p[i] = r[i]
  <2>1. \A i \in 1..m + 1 : i \in 1..m \/ i = m + 1
    BY <1>5
  <2> QED
    BY <1>6, <1>7, <1>9, <1>10, <2>1, Zenon
<1>12. p = r
  BY <1>6, <1>7, <1>8, <1>11, SameSeq, Zenon
<1> QED
  BY <1>4, <1>12, Zenon DEF p, q, r, b, Extends

\* A value less: the others come one place nearer.
LEMMA OneLess ==
  ASSUME NEW d, NEW n, NEW s, NEW e, Ring(d, n, s, e), s # e
  PROVE  /\ Ring(d, n, After(n, s), e) /\ Enclosed(d, n, s, e) # <<>>
         /\ Head(Enclosed(d, n, s, e)) = d[s]
         /\ Enclosed(d, n, After(n, s), e) = Tail(Enclosed(d, n, s, e))
<1> DEFINE m == Number(n, s, e)
           p == Enclosed(d, n, After(n, s), e)
           q == Enclosed(d, n, s, e)
<1>1. n \in Nat \ {0} /\ s \in 0..n - 1 /\ e \in 0..n - 1
  BY Zenon DEF Ring
<1>2. After(n, s) \in 0..n - 1
  BY <1>1, Moduli, Zenon
<1>3. Ring(d, n, After(n, s), e)
  BY <1>2, Zenon DEF Ring
<1>4. /\ q \in Seq(Stored) /\ Len(q) = m /\ m \in Nat
      /\ \A i \in 1..m : q[i] = d[Place(n, s, i - 1)]
  <2>1. Lists(q, d, n, s, e)
    BY EnclosedIs, Zenon
  <2> QED
    BY <2>1, Zenon DEF Lists
<1>5. /\ p \in Seq(Stored) /\ Len(p) = Number(n, After(n, s), e)
      /\ \A i \in 1..Number(n, After(n, s), e) : p[i] = d[Place(n, After(n, s), i - 1)]
  <2>1. Lists(p, d, n, After(n, s), e)
    BY <1>3, EnclosedIs, Zenon
  <2> QED
    BY <2>1, Zenon DEF Lists
<1>6. /\ Number(n, After(n, s), e) = m - 1 /\ m > 0 /\ Place(n, s, 0) = s
      /\ \A i \in 1..m - 1 : Place(n, After(n, s), i - 1) = Place(n, s, i)
  BY <1>1 DEF After, Number, Place
<1> HIDE DEF p, q, m
<1>7. /\ Tail(q) \in Seq(Stored) /\ Len(Tail(q)) = m - 1 /\ Head(q) = q[1] /\ q # <<>>
      /\ \A i \in 1..m - 1 : Tail(q)[i] = q[i + 1]
  BY <1>4, <1>6, TailOf
<1>8. q[1] = d[s]
  <2>1. 1 \in 1..m /\ 1 - 1 = 0
    BY <1>4, <1>6
  <2> QED
    BY <1>4, <1>6, <2>1, Zenon
<1>9. \A i \in 1..Len(p) : p[i] = Tail(q)[i]
  <2>2. ASSUME NEW i \in 1..m - 1 PROVE p[i] = Tail(q)[i]
    <3>1. p[i] = d[Place(n, s, i)]
      BY <1>5, <1>6, Zenon
    <3>2. PICK j \in 1..m : j = i + 1 /\ j - 1 = i
      BY <1>4
    <3>3. q[j] = d[Place(n, s, j - 1)]
      BY <1>4, Zenon
    <3>4. q[i + 1] = d[Place(n, s, i)]
      BY <3>2, <3>3, Zenon DEF Extends
    <3> QED
      BY <1>7, <3>1, <3>4, Zenon
  <2> QED
    BY <1>5, <1>6, <2>2, Zenon
<1>10. p = Tail(q)
  BY <1>5, <1>6, <1>7, <1>9, SameSeq, Zenon
<1> QED
  BY <1>3, <1>7, <1>8, <1>10, Zenon DEF p, q

-----------------------------------------------------------------------------
LEMMA ContentsOf ==
  ASSUME Slots PROVE Contents = Enclosed(data, N, start, end)
<1>1. Contents = [i \in 1..(end - start + N) % N |-> data[(start + i - 1) % N]]
  BY Zenon DEF Contents, size, N
<1> QED
  BY <1>1, ContentsAre, SMT DEF Slots

\* The same after a step.
LEMMA ContentsNext ==
  ASSUME Slots' PROVE Contents' = Enclosed(data', N', start', end')
<1>1. Contents' = [i \in 1..(end' - start' + N') % N' |-> data'[(start' + i - 1) % N']]
  BY Zenon DEF Contents, size, N
<1>2. Ring(data', N', start', end')
  BY Zenon DEF Slots, Ring
<1> QED
  BY <1>1, <1>2, ContentsAre, SMT

\* A vector that keeps its indices keeps its length.
LEMMA SameLength == ASSUME DOMAIN data' = DOMAIN data PROVE N' = N /\ capacity' = capacity
  BY Zenon DEF N, length, capacity

LEMMA InitRefines ==
  ASSUME Capacities \subseteq Nat, Init
  PROVE  Slots /\ Promise!Init
<1>1. PICK c \in Capacities : data = Vector(c + 1)
  BY Zenon DEF Init
<1>2. c \in Nat
  BY <1>1
<1>3. DOMAIN data = 0..c /\ data \in [0..c -> Stored]
  BY <1>1, <1>2 DEF Vector, Stored
<1>4. Cardinality(0..c) = c + 1
  BY <1>2, FS_Interval
<1>5. N = c + 1
  BY <1>3, <1>4, Zenon DEF N, length
<1>6. N \in Nat \ {0} /\ 0 \in 0..N - 1 /\ N - 1 = c
  BY <1>2, <1>5
<1>7. capacity = c
  BY <1>6, Zenon DEF capacity, N
<1>8. Slots
  BY <1>3, <1>6, Zenon DEF Init, Slots, Ring
<1>9. Contents = <<>>
  <2>1. Contents = Enclosed(data, N, 0, 0)
    BY <1>8, ContentsOf, Zenon DEF Init
  <2>2. Ring(data, N, 0, 0)
    BY <1>8, Zenon DEF Init, Slots
  <2>3. /\ Enclosed(data, N, 0, 0) \in Seq(Stored)
        /\ Len(Enclosed(data, N, 0, 0)) = Number(N, 0, 0)
    <3>1. Lists(Enclosed(data, N, 0, 0), data, N, 0, 0)
      BY <2>2, EnclosedIs, Zenon
    <3> QED
      BY <3>1, Zenon DEF Lists
  <2>4. Number(N, 0, 0) = 0
    BY DEF Number
  <2> QED
    BY <2>1, <2>3, <2>4
<1> QED
  BY <1>7, <1>8, <1>9, Zenon DEF Init, Promise!Init

\* Which values the buffer has tells whether it is full or empty.
LEMMA FillAndEmpty ==
  ASSUME Slots
  PROVE  /\ Len(Contents) \in Nat /\ Len(Contents) <= capacity
         /\ is_fill <=> Len(Contents) = capacity
         /\ is_fill <=> After(N, end) = start
         /\ is_empty <=> Contents = <<>>
<1>1. N \in Nat \ {0} /\ start \in 0..N - 1 /\ end \in 0..N - 1
  BY Zenon DEF Slots, Ring
<1>2. /\ Contents \in Seq(Stored) /\ Len(Contents) = Number(N, start, end)
  <2>1. Lists(Enclosed(data, N, start, end), data, N, start, end)
    BY EnclosedIs, Zenon DEF Slots
  <2> QED
    BY <2>1, ContentsOf, Zenon DEF Lists
<1>3. Number(N, start, end) \in 0..N - 1 /\ (end + 1) % N = After(N, end)
  BY <1>1, Moduli, Zenon
<1>4. /\ After(N, end) = start <=> Number(N, start, end) = N - 1
      /\ start = end <=> Number(N, start, end) = 0
  BY <1>1, FullAndEmpty, SMT
<1>5. capacity = N - 1
  BY Zenon DEF capacity, N
<1>6. is_fill <=> After(N, end) = start
  BY <1>3, Zenon DEF is_fill, N
<1>7. is_empty <=> Len(Contents) = 0
  BY <1>2, <1>4, Zenon DEF is_empty
<1>8. Len(Contents) = 0 <=> Contents = <<>>
  BY <1>2
<1>9. Len(Contents) \in Nat /\ Len(Contents) <= N - 1
  BY <1>1, <1>2, <1>3
<1> QED
  BY <1>2, <1>4, <1>5, <1>6, <1>7, <1>8, <1>9, Zenon

\* push appends, or says that the buffer is full (ring_buffer.hpp:90-97).
LEMMA PushRefines ==
  ASSUME Slots, NEW v \in Values, push(v) PROVE Slots' /\ Promise!Push(v)
<1>r. Ring(data, N, start, end)
  BY Zenon DEF Slots
<1>1. CASE is_fill
  <2>1. ret' = FALSE /\ start' = start /\ end' = end /\ data' = data
    BY <1>1, Zenon DEF push
  <2>2. Slots' /\ Contents' = Contents /\ capacity' = capacity
    BY <2>1, Zenon DEF Slots, Ring, Contents, size, capacity, N, length
  <2>3. Len(Contents) = capacity
    BY <1>1, FillAndEmpty, Zenon
  <2> QED
    BY <2>1, <2>2, <2>3, Zenon DEF Promise!Push
<1>2. CASE ~is_fill
  <2>1. /\ data' = [data EXCEPT ![end] = v] /\ end' = (end + 1) % N /\ start' = start
        /\ ret' = TRUE
    BY <1>2, Zenon DEF push, N
  <2>2. N \in Nat \ {0} /\ end \in 0..N - 1
    BY <1>r, Zenon DEF Ring
  <2>3. end' = After(N, end)
    BY <2>1, <2>2, Moduli, Zenon
  <2>4. N' = N /\ capacity' = capacity
    <3>1. DOMAIN data' = DOMAIN data
      BY <2>1
    <3> QED
      BY <3>1, SameLength, Zenon
  <2>5. After(N, end) # start
    BY <1>2, FillAndEmpty, Zenon
  <2>6. /\ Ring(data', N, start, After(N, end))
        /\ Enclosed(data', N, start, After(N, end)) = Append(Enclosed(data, N, start, end), v)
    <3>1. Overwrites(data', data, N, end, v)
      <4>1. data \in [0..N - 1 -> Stored] /\ v \in Stored
        BY <1>r, Zenon DEF Ring, Stored
      <4> QED
        BY <2>1, <2>2, <4>1 DEF Overwrites
    <3>2. Ring(data', N, start, After(N, end))
      BY <1>r, <2>5, <3>1, OneMore, Zenon
    <3>3. Extends(Enclosed(data', N, start, After(N, end)), Enclosed(data, N, start, end), v)
      BY <1>r, <2>5, <3>1, OneMore, Zenon
    <3> QED
      BY <3>2, <3>3, Zenon DEF Extends
  <2>7. Slots'
    BY <2>1, <2>3, <2>4, <2>6, Zenon DEF Slots, Ring
  <2>8. Contents' = Append(Contents, v)
    <3>1. Contents' = Enclosed(data', N', start', end')
      BY <2>7, ContentsNext, Zenon
    <3> QED
      BY <2>1, <2>3, <2>4, <2>6, <3>1, ContentsOf, Zenon
  <2>9. Len(Contents) < capacity
    <3>1. N - 1 \in Int /\ capacity = N - 1
      BY <2>2 DEF capacity, N
    <3>2. Len(Contents) \in Nat /\ Len(Contents) <= capacity /\ Len(Contents) # capacity
      BY <1>2, FillAndEmpty, Zenon
    <3> QED
      BY <3>1, <3>2
  <2> QED
    BY <2>1, <2>4, <2>7, <2>8, <2>9, Zenon DEF Promise!Push
<1> QED
  BY <1>1, <1>2, Zenon

\* pop takes the first value, or says that there is none
\* (ring_buffer.hpp:100-107).
LEMMA PopRefines ==
  ASSUME Slots, pop PROVE Slots' /\ Promise!Pop
<1>r. Ring(data, N, start, end)
  BY Zenon DEF Slots
<1>1. CASE is_empty
  <2>1. ret' = NoValue /\ start' = start /\ end' = end /\ data' = data
    BY <1>1, Zenon DEF pop
  <2>2. Slots' /\ Contents' = Contents /\ capacity' = capacity
    BY <2>1, Zenon DEF Slots, Ring, Contents, size, capacity, N, length
  <2>3. Contents = <<>>
    BY <1>1, FillAndEmpty, Zenon
  <2> QED
    BY <2>1, <2>2, <2>3, Zenon DEF Promise!Pop
<1>2. CASE ~is_empty
  <2>1. ret' = data[start] /\ start' = (start + 1) % N /\ end' = end /\ data' = data
    BY <1>2, Zenon DEF pop, N
  <2>2. N \in Nat \ {0} /\ start \in 0..N - 1 /\ start # end
    BY <1>2, <1>r, Zenon DEF Ring, is_empty
  <2>3. start' = After(N, start)
    BY <2>1, <2>2, Moduli, Zenon
  <2>4. N' = N /\ capacity' = capacity
    BY <2>1, SameLength, Zenon
  <2>5. /\ Ring(data, N, After(N, start), end) /\ Enclosed(data, N, start, end) # <<>>
        /\ Head(Enclosed(data, N, start, end)) = data[start]
        /\ Enclosed(data, N, After(N, start), end) = Tail(Enclosed(data, N, start, end))
    BY <1>r, <2>2, OneLess, Zenon
  <2>6. Slots'
    BY <2>1, <2>3, <2>4, <2>5, Zenon DEF Slots, Ring
  <2>7. Contents' = Enclosed(data', N', start', end')
    BY <2>6, ContentsNext, Zenon
  <2>8. Contents = Enclosed(data, N, start, end)
    BY ContentsOf, Zenon
  <2>9. Contents' = Tail(Contents) /\ ret' = Head(Contents) /\ Contents # <<>>
    BY <2>1, <2>3, <2>4, <2>5, <2>7, <2>8, Zenon
  <2> QED
    BY <2>4, <2>6, <2>9, Zenon DEF Promise!Pop
<1> QED
  BY <1>1, <1>2, Zenon

LEMMA StepRefines ==
  Slots /\ [Next]_vars => Slots' /\ [Promise!Next]_(Promise!queueVars)
<1> SUFFICES ASSUME Slots, [Next]_vars PROVE Slots' /\ [Promise!Next]_(Promise!queueVars)
  OBVIOUS
<1>1. CASE pop
  BY <1>1, PopRefines, Zenon DEF Promise!Next
<1>2. ASSUME NEW v \in Values, push(v) PROVE Slots' /\ [Promise!Next]_(Promise!queueVars)
  BY <1>2, PushRefines, Zenon DEF Promise!Next
<1>3. CASE UNCHANGED vars
  BY <1>3, Zenon DEF vars, Slots, Ring, Contents, size, capacity, N, length, Promise!queueVars
<1> QED
  BY <1>1, <1>2, <1>3, Zenon DEF Next

\* A HeapRingBuffer of any capacity is a bounded queue: what is pushed is popped
\* once and in order, wherever start_ and end_ have wrapped to, and both stay in
\* the vector (ring_buffer.hpp:62-107).
THEOREM RingBufferImplementsBoundedQueue ==
  ASSUME Capacities \subseteq Nat PROVE Spec => ImplementsBoundedQueue
<1>1. Init => Slots /\ Promise!Init
  BY InitRefines, Zenon
<1> QED
  BY <1>1, StepRefines, PTL DEF Spec, ImplementsBoundedQueue, Promise!Spec
=============================================================================
