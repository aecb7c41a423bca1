--------------------------- MODULE BufWriterProofs ---------------------------
(***************************************************************************)
(* A buffered writer passes on what it took, in order, for every capacity  *)
(* and all sizes of writes, whatever the sink takes at a time and wherever *)
(* it fails.                                                               *)
(***************************************************************************)
EXTENDS BufWriter, TLAPS

\* n bytes from the one after a.
Bytes(a, n) == [i \in 1..n |-> a + i]

LEMMA BytesAre ==
  ASSUME NEW a \in Int, NEW n \in Nat
  PROVE  /\ Bytes(a, n) \in Seq(Int) /\ Len(Bytes(a, n)) = n /\ DOMAIN Bytes(a, n) = 1..n
         /\ \A i \in 1..n : Bytes(a, n)[i] = a + i
  BY DEF Bytes

\* Two sequences with the same elements are the same.
LEMMA SameSeq ==
  ASSUME NEW S, NEW p \in Seq(S), NEW q \in Seq(S), Len(p) = Len(q),
         \A i \in 1..Len(p) : p[i] = q[i]
  PROVE  p = q
  OBVIOUS

\* Concatenation, element by element.
LEMMA Joint ==
  ASSUME NEW S, NEW p \in Seq(S), NEW q \in Seq(S)
  PROVE  /\ p \o q \in Seq(S) /\ Len(p \o q) = Len(p) + Len(q) /\ Len(p) \in Nat /\ Len(q) \in Nat
         /\ \A i \in 1..Len(p) : (p \o q)[i] = p[i]
         /\ \A i \in 1..Len(p) + Len(q) : i > Len(p) => (p \o q)[i] = q[i - Len(p)]
  OBVIOUS

LEMMA Associates ==
  ASSUME NEW S, NEW p \in Seq(S), NEW q \in Seq(S), NEW r \in Seq(S)
  PROVE  (p \o q) \o r = p \o (q \o r)
  OBVIOUS

LEMMA JoinNothing ==
  ASSUME NEW S, NEW p \in Seq(S) PROVE p \o <<>> = p /\ <<>> \o p = p
  OBVIOUS

\* The first n and the others.
LEMMA Parts ==
  ASSUME NEW S, NEW p \in Seq(S), NEW n \in 0..Len(p)
  PROVE  /\ SubSeq(p, 1, n) \in Seq(S) /\ SubSeq(p, n + 1, Len(p)) \in Seq(S)
         /\ Len(SubSeq(p, 1, n)) = n /\ Len(SubSeq(p, n + 1, Len(p))) = Len(p) - n
         /\ SubSeq(p, 1, n) \o SubSeq(p, n + 1, Len(p)) = p
         /\ n = 0 => SubSeq(p, 1, n) = <<>> /\ SubSeq(p, n + 1, Len(p)) = p
         /\ n = Len(p) => SubSeq(p, 1, n) = p /\ SubSeq(p, n + 1, Len(p)) = <<>>
<1>1. /\ SubSeq(p, 1, n) \in Seq(S) /\ SubSeq(p, n + 1, Len(p)) \in Seq(S)
      /\ Len(SubSeq(p, 1, n)) = n /\ Len(SubSeq(p, n + 1, Len(p))) = Len(p) - n
      /\ Len(p) \in Nat
  OBVIOUS
<1>2. SubSeq(p, 1, n) \o SubSeq(p, n + 1, Len(p)) = p
  <2> DEFINE a == SubSeq(p, 1, n)
             b == SubSeq(p, n + 1, Len(p))
  <2>1. /\ \A i \in 1..n : a[i] = p[i]
        /\ \A i \in 1..Len(p) - n : b[i] = p[n + i]
    OBVIOUS
  <2> HIDE DEF a, b
  <2>2. /\ a \o b \in Seq(S) /\ Len(a \o b) = Len(a) + Len(b)
        /\ \A i \in 1..Len(a) : (a \o b)[i] = a[i]
        /\ \A i \in 1..Len(a) + Len(b) : i > Len(a) => (a \o b)[i] = b[i - Len(a)]
    BY <1>1, Joint, Zenon DEF a, b
  <2>3. Len(a) = n /\ Len(b) = Len(p) - n
    BY <1>1, Zenon DEF a, b
  <2>4. Len(a \o b) = Len(p)
    BY <1>1, <2>2, <2>3
  <2>5. ASSUME NEW i \in 1..Len(p) PROVE (a \o b)[i] = p[i]
    <3>1. CASE i <= n
      BY <1>1, <2>1, <2>2, <2>3, <3>1
    <3>2. CASE i > n
      <4>1. (a \o b)[i] = b[i - n] /\ i - n \in 1..Len(p) - n /\ n + (i - n) = i
        BY <1>1, <2>2, <2>3, <3>2
      <4> QED
        BY <2>1, <4>1
    <3>3. i <= n \/ i > n
      BY <1>1
    <3> QED
      BY <3>1, <3>2, <3>3, Zenon
  <2>6. a \o b = p
    BY <2>2, <2>4, <2>5, SameSeq, Zenon
  <2> QED
    BY <2>6, Zenon DEF a, b
<1>3. \A q \in Seq(S) : Len(q) = 0 => q = <<>>
  OBVIOUS
<1>4. ASSUME n = 0 PROVE SubSeq(p, 1, n) = <<>> /\ SubSeq(p, n + 1, Len(p)) = p
  <2>1. SubSeq(p, 1, n) = <<>>
    BY <1>1, <1>3, <1>4, Zenon
  <2> QED
    BY <1>1, <1>2, <2>1, JoinNothing, Zenon
<1>5. ASSUME n = Len(p) PROVE SubSeq(p, 1, n) = p /\ SubSeq(p, n + 1, Len(p)) = <<>>
  <2>1. Len(SubSeq(p, n + 1, Len(p))) = 0
    BY <1>1, <1>5
  <2>2. SubSeq(p, n + 1, Len(p)) = <<>>
    BY <1>1, <1>3, <2>1, Zenon
  <2> QED
    BY <1>1, <1>2, <2>2, JoinNothing, Zenon
<1> QED
  BY <1>1, <1>2, <1>4, <1>5, Zenon

\* The first n of a concatenation.
LEMMA FirstOfJoint ==
  ASSUME NEW S, NEW p \in Seq(S), NEW q \in Seq(S), NEW n \in 0..Len(p) + Len(q)
  PROVE  /\ n <= Len(p) => SubSeq(p \o q, 1, n) = SubSeq(p, 1, n)
         /\ n >= Len(p) => SubSeq(p \o q, 1, n) = p \o SubSeq(q, 1, n - Len(p))
  OBVIOUS

LEMMA BytesJoin ==
  ASSUME NEW a \in Int, NEW m \in Nat, NEW n \in Nat
  PROVE  Bytes(a, m) \o Bytes(a + m, n) = Bytes(a, m + n)
  BY DEF Bytes

LEMMA BytesParts ==
  ASSUME NEW a \in Int, NEW n \in Nat, NEW m \in 0..n
  PROVE  /\ SubSeq(Bytes(a, n), 1, m) = Bytes(a, m)
         /\ SubSeq(Bytes(a, n), m + 1, n) = Bytes(a + m, n - m)
  BY DEF Bytes

\* The same, for sequences of bytes.
LEMMA PartsOfBytes ==
  \A p \in Seq(Int) : \A n \in 0..Len(p) :
     /\ SubSeq(p, 1, n) \in Seq(Int) /\ SubSeq(p, n + 1, Len(p)) \in Seq(Int)
     /\ Len(SubSeq(p, 1, n)) = n /\ Len(SubSeq(p, n + 1, Len(p))) = Len(p) - n
     /\ SubSeq(p, 1, n) \o SubSeq(p, n + 1, Len(p)) = p
     /\ n = 0 => SubSeq(p, 1, n) = <<>> /\ SubSeq(p, n + 1, Len(p)) = p
     /\ n = Len(p) => SubSeq(p, 1, n) = p /\ SubSeq(p, n + 1, Len(p)) = <<>>
  BY Parts, Zenon
LEMMA FirstOfBytes ==
  \A p, q \in Seq(Int) : \A n \in 0..Len(p) + Len(q) :
     /\ n <= Len(p) => SubSeq(p \o q, 1, n) = SubSeq(p, 1, n)
     /\ n >= Len(p) => SubSeq(p \o q, 1, n) = p \o SubSeq(q, 1, n - Len(p))
  BY FirstOfJoint, Zenon
LEMMA BytesAssociate ==
  \A p, q, r \in Seq(Int) : (p \o q) \o r = p \o (q \o r)
  OBVIOUS

LEMMA LesserOf ==
  ASSUME NEW a \in Nat, NEW b \in Nat
  PROVE  Min({a, b}) \in Nat /\ Min({a, b}) = IF a <= b THEN a ELSE b
  BY DEF Min

-----------------------------------------------------------------------------
\* The sizes a caller may ask for and the room of the buffer.  Nobody writes
\* nothing: of such a write WriteMakesProgress could not hold.
Sane == WCapacity \in Nat /\ WSizes \subseteq Nat \ {0}

Kinds ==
  /\ w_start \in Nat /\ counted \in Nat /\ made \in Nat /\ wret \in Int
  /\ held \in Seq(Int) /\ sink \in Seq(Int) /\ accepted \in Seq(Int) /\ buf \in Seq(Int)
  /\ wop.size \in Nat /\ wop.size <= made
  /\ bpc \in {"idle", "write", "flush"}

\* Where an operation is: the caller's bytes that are not taken yet are the
\* last ones made, those before them that are taken are counted, and only a
\* write_all goes into a second round.
Base == made - wop.size
Midway ==
  /\ bpc # "write" => counted = 0
  /\ bpc = "write" => /\ counted <= wop.size /\ wop.size > 0
                      /\ buf = Bytes(Base + counted, wop.size - counted)
                      /\ wop.kind \in {"write", "write_all"}
                      /\ wop.kind = "write" => counted = 0
  /\ bpc = "flush" => wop.kind = "flush"

Ordered == sink \o held = accepted \o Bytes(Base, counted)

WInv ==
  Kinds /\ Midway /\ Ordered /\ WBufferFits /\ WriteMakesProgress /\ FlushEmpties

LEMMA InitWInv == ASSUME Sane, Init PROVE WInv
<1>1. Kinds
  BY DEF Init, Kinds
<1>2. Midway
  BY Zenon DEF Init, Midway
<1>3. Ordered
  BY DEF Init, Ordered, Bytes
<1>4. WBufferFits
  BY DEF Init, WBufferFits, Sane
<1>5. WriteMakesProgress /\ FlushEmpties
  <2>1. wop.kind = "none"
    BY DEF Init
  <2> QED
    BY <2>1, Zenon DEF WriteMakesProgress, FlushEmpties
<1> QED
  BY <1>1, <1>2, <1>3, <1>4, <1>5, Zenon DEF WInv

\* A record of the two fields.
LEMMA OpIs ==
  ASSUME NEW k, NEW n, wop' = [kind |-> k, size |-> n]
  PROVE  wop'.kind = k /\ wop'.size = n
  OBVIOUS

\* Return adds what was taken to what the writer says it took.
LEMMA Returned ==
  ASSUME Kinds, NEW r \in Int, NEW n \in 0..wop.size, Return(r, n), UNCHANGED <<wop, made>>,
         w_start' \in Nat, held' \in Seq(Int), sink' \in Seq(Int),
         sink' \o held' = accepted \o Bytes(Base, n)
  PROVE  Kinds' /\ Midway' /\ Ordered' /\ bpc' = "idle" /\ wret' = r
<1>1. /\ bpc' = "idle" /\ wret' = r /\ counted' = 0 /\ buf' = <<>>
      /\ accepted' = accepted \o Bytes(Base, n) /\ Base' = Base
  BY Zenon DEF Return, Bytes, Base
<1>2. Base \in Nat /\ n \in Nat
  <2>1. made \in Nat /\ wop.size \in Nat /\ wop.size <= made
    BY Zenon DEF Kinds
  <2> QED
    BY <2>1 DEF Base
<1>3. accepted' \in Seq(Int) /\ <<>> \in Seq(Int) /\ 0 \in Nat
  BY <1>1, <1>2, BytesAre, Joint DEF Kinds
<1>4. Kinds'
  BY <1>1, <1>3, Zenon DEF Kinds
<1>5. Midway'
  BY <1>1, Zenon DEF Midway
<1>6. Bytes(Base, 0) = <<>>
  BY <1>2 DEF Bytes
<1>7. Ordered'
  <2>1. accepted' \o <<>> = accepted'
    BY <1>3, JoinNothing, Zenon
  <2>2. Bytes(Base, counted)' = <<>>
    BY <1>1, <1>6, Zenon DEF Bytes
  <2> QED
    BY <1>1, <2>1, <2>2, Zenon DEF Ordered
<1> QED
  BY <1>1, <1>4, <1>5, <1>7, Zenon

LEMMA BeginWriteKeeps ==
  ASSUME Sane, WInv, NEW k \in {"write", "write_all"}, NEW n \in WSizes, BeginWrite(k, n)
  PROVE  WInv'
<1> DEFINE bytes == Bytes(made, n)
<1>k. Kinds /\ Midway /\ Ordered /\ WBufferFits
  BY Zenon DEF WInv
<1>t. n \in Nat /\ n > 0 /\ WCapacity \in Nat
  BY DEF Sane
<1>1. /\ bpc = "idle" /\ made' = made + n /\ wop' = [kind |-> k, size |-> n]
      /\ UNCHANGED <<w_start, sink, counted>>
      /\ counted = 0
  BY <1>k, Zenon DEF BeginWrite, Midway
<1>2. wop'.kind = k /\ wop'.size = n
  BY <1>1, OpIs, Zenon
<1>3. made' \in Nat /\ wop'.size <= made' /\ Base' = made /\ Base' + 0 = made /\ n - 0 = n
      /\ made \in Nat /\ made \in Int /\ Base \in Int
  BY <1>k, <1>t, <1>1, <1>2 DEF Kinds, Base
<1>4. bytes \in Seq(Int) /\ Len(bytes) = n
  BY <1>t, <1>3, BytesAre, Zenon
<1>5. Bytes(Base, 0) = <<>> /\ Bytes(made, 0) = <<>>
  BY <1>3 DEF Bytes
<1>6. sink \o held = accepted
  BY <1>k, <1>1, <1>5, JoinNothing, Zenon DEF Ordered, Kinds
<1>7. CASE room(w_start, held) >= n
  <2>1. /\ held' = held \o bytes /\ wret' = n /\ accepted' = accepted \o bytes
        /\ bpc' = "idle" /\ buf' = buf
    BY <1>1, <1>7, Zenon DEF BeginWrite, Bytes
  <2> HIDE DEF bytes
  <2>2. /\ held' \in Seq(Int) /\ accepted' \in Seq(Int) /\ Len(held') = Len(held) + n
        /\ Len(held) \in Nat
    BY <1>k, <1>4, <2>1, Joint, Zenon DEF Kinds
  <2>3. Kinds'
    BY <1>k, <1>t, <1>1, <1>2, <1>3, <2>1, <2>2 DEF Kinds
  <2>4. Midway'
    BY <1>1, <2>1, Zenon DEF Midway
  <2>5. Ordered'
    <3>1. sink \o (held \o bytes) = accepted \o bytes
      <4>1. (sink \o held) \o bytes = sink \o (held \o bytes)
        <5>1. sink \in Seq(Int) /\ held \in Seq(Int) /\ bytes \in Seq(Int)
          BY <1>k, <1>4, Zenon DEF Kinds
        <5> QED
          BY <5>1, BytesAssociate, Zenon
      <4> QED
        BY <1>6, <4>1, Zenon
    <3>2. Bytes(Base, counted)' = <<>>
      BY <1>1, <1>3, <1>5, Zenon DEF Bytes
    <3> QED
      BY <1>1, <2>1, <2>2, <3>1, <3>2, JoinNothing, Zenon DEF Ordered
  <2>6. WBufferFits'
    BY <1>k, <1>t, <1>1, <1>7, <2>2 DEF WBufferFits, room, Kinds
  <2>7. WriteMakesProgress'
    BY <1>t, <1>2, <2>1 DEF WriteMakesProgress
  <2>8. FlushEmpties'
    BY <1>2, Zenon DEF FlushEmpties
  <2> QED
    BY <2>3, <2>4, <2>5, <2>6, <2>7, <2>8, Zenon DEF WInv
<1>8. CASE ~(room(w_start, held) >= n)
  <2>1. bpc' = "write" /\ buf' = bytes /\ UNCHANGED <<held, wret, accepted>>
    BY <1>1, <1>8, Zenon DEF BeginWrite, Bytes
  <2>2. Kinds'
    BY <1>k, <1>t, <1>1, <1>2, <1>3, <1>4, <2>1 DEF Kinds
  <2>3. Midway'
    <3>1. buf' = Bytes(Base + counted, wop.size - counted)'
      BY <1>1, <1>2, <1>3, <2>1, Zenon DEF Bytes
    <3>2. counted' <= wop'.size /\ wop'.size > 0
      BY <1>t, <1>1, <1>2
    <3> QED
      BY <1>1, <1>2, <2>1, <3>1, <3>2, Zenon DEF Midway
  <2>4. Ordered'
    <3>2. Bytes(Base, counted)' = <<>>
      BY <1>1, <1>3, <1>5, Zenon DEF Bytes
    <3> QED
      BY <1>k, <1>1, <1>6, <2>1, <3>2, JoinNothing, Zenon DEF Ordered, Kinds
  <2>5. WBufferFits' /\ WriteMakesProgress' /\ FlushEmpties'
    BY <1>k, <1>1, <2>1, Zenon DEF WBufferFits, WriteMakesProgress, FlushEmpties
  <2> QED
    BY <2>2, <2>3, <2>4, <2>5, Zenon DEF WInv
<1> QED
  BY <1>7, <1>8, Zenon

\* A round in which the sink takes n bytes: what is left of the buffer and of
\* the caller's bytes still follows what the sink has.
LEMMA Round ==
  ASSUME Kinds, Midway, Ordered, bpc = "write", NEW n \in 1..Len(held) + Len(buf),
         NEW len, len = Min({n, Len(held)})
  PROVE  LET h == SubSeq(held, len + 1, Len(held))
             b == SubSeq(buf, n - len + 1, Len(buf))
             result == counted + n - len
         IN  /\ len \in 0..Len(held) /\ n - len \in 0..Len(buf) /\ (len < Len(held) => len = n)
             /\ h \in Seq(Int) /\ b \in Seq(Int)
             /\ Len(h) = Len(held) - len /\ Len(b) = Len(buf) - (n - len)
             /\ result \in 0..wop.size /\ b = Bytes(Base + result, wop.size - result)
             /\ Len(b) = wop.size - result
             /\ sink \o SubSeq(held \o buf, 1, n) \in Seq(Int)
             /\ (sink \o SubSeq(held \o buf, 1, n)) \o h = accepted \o Bytes(Base, result)
<1> DEFINE h == SubSeq(held, len + 1, Len(held))
           b == SubSeq(buf, n - len + 1, Len(buf))
           m == n - len
           result == counted + n - len
           s == sink \o SubSeq(held \o buf, 1, n)
           f == SubSeq(held, 1, len)
           g == SubSeq(buf, 1, m)
<1>k. /\ held \in Seq(Int) /\ buf \in Seq(Int) /\ sink \in Seq(Int) /\ accepted \in Seq(Int)
      /\ Len(held) \in Nat /\ Len(buf) \in Nat /\ counted \in Nat /\ wop.size \in Nat
      /\ counted <= wop.size /\ Base \in Int /\ n \in Nat
      /\ buf = Bytes(Base + counted, wop.size - counted)
  <2>1. /\ held \in Seq(Int) /\ buf \in Seq(Int) /\ sink \in Seq(Int) /\ accepted \in Seq(Int)
        /\ counted \in Nat /\ wop.size \in Nat /\ counted <= wop.size /\ made \in Nat
        /\ buf = Bytes(Base + counted, wop.size - counted)
    BY Zenon DEF Kinds, Midway
  <2>2. Len(held) \in Nat /\ Len(buf) \in Nat /\ Base \in Int
    BY <2>1 DEF Base
  <2>3. n \in Nat
    BY <2>2
  <2> QED
    BY <2>1, <2>2, <2>3, Zenon
<1>1. /\ len \in 0..Len(held) /\ m \in 0..Len(buf) /\ (len < Len(held) => len = n)
      /\ (len = n \/ len = Len(held)) /\ len <= n
  <2>1. len \in Nat /\ len = IF n <= Len(held) THEN n ELSE Len(held)
    BY <1>k, LesserOf, Zenon
  <2>2. n <= Len(held) + Len(buf)
    BY <1>k
  <2>3. CASE n <= Len(held)
    <3>1. len = n
      BY <2>1, <2>3, Zenon
    <3> QED
      BY <1>k, <2>3, <3>1
  <2>4. CASE ~(n <= Len(held))
    <3>1. len = Len(held)
      BY <2>1, <2>4, Zenon
    <3>2. \A i, j, k \in Nat : i <= j + k /\ ~(i <= j) => i - j \in 0..k /\ j \in 0..j /\ j <= i
                                  /\ ~(j < j)
      OBVIOUS
    <3> QED
      BY <1>k, <2>2, <2>4, <3>1, <3>2, Zenon
  <2> QED
    BY <2>3, <2>4, Zenon
<1>2. Len(buf) = wop.size - counted /\ wop.size - counted \in Nat /\ Base + counted \in Int
  <2>1. wop.size - counted \in Nat /\ Base + counted \in Int
    BY <1>k
  <2> QED
    BY <1>k, <2>1, BytesAre, Zenon
<1>3. result \in 0..wop.size /\ result = counted + m /\ wop.size - result = (wop.size - counted) - m
      /\ Base + result = (Base + counted) + m /\ m \in Nat /\ len \in Nat
  <2>1. m \in Nat /\ len \in Nat /\ m <= Len(buf) /\ Base \in Int
    BY <1>k, <1>1
  <2>2. result = counted + m
    BY <1>k, <2>1
  <2> HIDE DEF m, result
  <2> QED
    BY <1>k, <1>2, <2>1, <2>2
<1>4. /\ f \in Seq(Int) /\ h \in Seq(Int) /\ Len(h) = Len(held) - len /\ f \o h = held
      /\ (len = Len(held) => f = held /\ h = <<>>)
  BY <1>k, <1>1, PartsOfBytes, Zenon
<1>5. /\ g \in Seq(Int) /\ b \in Seq(Int) /\ Len(b) = Len(buf) - m /\ g \o b = buf
      /\ (m = 0 => g = <<>>)
  BY <1>k, <1>1, PartsOfBytes, Zenon
<1>6. g = Bytes(Base + counted, m) /\ b = Bytes(Base + result, wop.size - result)
  <2>1. m \in 0..(wop.size - counted)
    BY <1>1, <1>2
  <2>2. /\ SubSeq(Bytes(Base + counted, wop.size - counted), 1, m) = Bytes(Base + counted, m)
        /\ SubSeq(Bytes(Base + counted, wop.size - counted), m + 1, wop.size - counted)
           = Bytes((Base + counted) + m, (wop.size - counted) - m)
    BY <1>2, <2>1, BytesParts, Zenon
  <2> QED
    BY <1>k, <1>2, <1>3, <2>2, Zenon
<1>7. SubSeq(held \o buf, 1, n) = f \o g
  <2>1. CASE len = n
    <3>1. m = 0 /\ n <= Len(held) /\ n \in 0..Len(held) + Len(buf)
      BY <1>k, <1>1, <2>1
    <3>2. SubSeq(held \o buf, 1, n) = SubSeq(held, 1, n)
      <4>1. held \in Seq(Int) /\ buf \in Seq(Int)
        BY <1>k, Zenon
      <4> QED
        BY <3>1, <4>1, FirstOfBytes, Zenon
    <3>3. SubSeq(held, 1, n) = f
      BY <2>1, Zenon
    <3> QED
      BY <1>4, <1>5, <3>1, <3>2, <3>3, JoinNothing, Zenon
  <2>2. CASE len = Len(held)
    <3>1. n >= Len(held) /\ n \in 0..Len(held) + Len(buf) /\ n - Len(held) = m
      <4>1. n - Len(held) = m
        BY <2>2, Zenon
      <4>2. Len(held) <= n
        BY <1>1, <2>2, Zenon
      <4> HIDE DEF m
      <4>3. \A i, j, k \in Nat : i \in 1..j + k /\ j <= i => i >= j /\ i \in 0..j + k
        OBVIOUS
      <4> QED
        BY <1>k, <4>1, <4>2, <4>3, Zenon
    <3>2. SubSeq(held \o buf, 1, n) = held \o SubSeq(buf, 1, n - Len(held))
      BY <1>k, <3>1, FirstOfBytes, Zenon
    <3> QED
      BY <1>4, <2>2, <3>1, <3>2, Zenon
  <2> QED
    BY <1>1, <2>1, <2>2, Zenon
<1>8. f \o g \in Seq(Int) /\ sink \o (f \o g) \in Seq(Int)
  <2>1. f \o g \in Seq(Int)
    BY <1>4, <1>5, Joint, Zenon
  <2> QED
    BY <1>k, <2>1, Joint, Zenon
<1> HIDE DEF h, b, f, g, m
<1>9. (f \o g) \o h = held \o g
  <2>1. CASE len = n
    <3>1. g = <<>>
      BY <1>5, <1>1, <2>1 DEF m
    <3> QED
      BY <1>k, <1>4, <3>1, JoinNothing, Zenon
  <2>2. CASE len = Len(held)
    BY <1>4, <1>8, <2>2, JoinNothing, Zenon
  <2> QED
    BY <1>1, <2>1, <2>2, Zenon
<1>10. (sink \o (f \o g)) \o h = accepted \o Bytes(Base, result)
  <2>1. (sink \o (f \o g)) \o h = sink \o (held \o g)
    <3>1. sink \in Seq(Int) /\ (f \o g) \in Seq(Int) /\ h \in Seq(Int)
      BY <1>k, <1>4, <1>8, Zenon
    <3>2. (sink \o (f \o g)) \o h = sink \o ((f \o g) \o h)
      BY <3>1, BytesAssociate, Zenon
    <3> QED
      BY <1>9, <3>2, Zenon
  <2>2. sink \o (held \o g) = (sink \o held) \o g
    <3>1. sink \in Seq(Int) /\ held \in Seq(Int) /\ g \in Seq(Int)
      BY <1>k, <1>5, Zenon
    <3> QED
      BY <3>1, BytesAssociate, Zenon
  <2>3. (sink \o held) \o g = (accepted \o Bytes(Base, counted)) \o g
    BY Zenon DEF Ordered
  <2>4. Bytes(Base, counted) \in Seq(Int)
    BY <1>k, BytesAre, Zenon
  <2>5. (accepted \o Bytes(Base, counted)) \o g = accepted \o (Bytes(Base, counted) \o g)
    <3>1. accepted \in Seq(Int) /\ g \in Seq(Int)
      BY <1>k, <1>5, Zenon
    <3> QED
      BY <2>4, <3>1, BytesAssociate, Zenon
  <2>6. Bytes(Base, counted) \o g = Bytes(Base, result)
    <3>1. Bytes(Base, counted) \o Bytes(Base + counted, m) = Bytes(Base, counted + m)
      BY <1>k, <1>3, BytesJoin, Zenon
    <3> QED
      BY <1>3, <1>6, <3>1, Zenon
  <2> QED
    BY <2>1, <2>2, <2>3, <2>5, <2>6, Zenon
<1>11. Len(b) = wop.size - result
  BY <1>k, <1>2, <1>3, <1>5
<1> QED
  BY <1>1, <1>3, <1>4, <1>5, <1>6, <1>7, <1>8, <1>10, <1>11, Zenon DEF h, b, m

LEMMA WriteKeeps ==
  ASSUME Sane, WInv, NEW n, Write(n) PROVE WInv'
<1> DEFINE len == Min({n, Len(held)})
           h == SubSeq(held, len + 1, Len(held))
           b == SubSeq(buf, n - len + 1, Len(buf))
           result == counted + n - len
           more == Min({room(0, h), Len(b)})
           s == sink \o SubSeq(held \o buf, 1, n)
<1>k. Kinds /\ Midway /\ Ordered /\ WBufferFits /\ WCapacity \in Nat
  BY Zenon DEF WInv, Sane
<1>1. /\ bpc = "write" /\ n \in 1..Len(held) + Len(buf) /\ sink' = s /\ w_start' = 0
      /\ UNCHANGED <<wop, made>>
      /\ IF wop.kind = "write" \/ Fits(h, b)
         THEN held' = h \o SubSeq(b, 1, more) /\ Return(result + more, result + more)
         ELSE held' = h /\ buf' = b /\ counted' = result /\ UNCHANGED <<bpc, wret, accepted>>
  BY Zenon DEF Write
<1>2. /\ len \in 0..Len(held) /\ n - len \in 0..Len(buf) /\ (len < Len(held) => len = n)
      /\ h \in Seq(Int) /\ b \in Seq(Int)
      /\ Len(h) = Len(held) - len /\ Len(b) = Len(buf) - (n - len)
      /\ result \in 0..wop.size /\ b = Bytes(Base + result, wop.size - result)
      /\ Len(b) = wop.size - result
      /\ s \in Seq(Int) /\ s \o h = accepted \o Bytes(Base, result)
  BY <1>k, <1>1, Round, Zenon
<1>3. /\ wop.kind \in {"write", "write_all"} /\ (wop.kind = "write" => counted = 0)
      /\ accepted \in Seq(Int) /\ held \in Seq(Int) /\ buf \in Seq(Int)
  BY <1>k, <1>1, Zenon DEF Kinds, Midway
<1>4. Len(held) \in Nat /\ Len(buf) \in Nat /\ Len(h) \in Nat /\ Len(b) \in Nat
  <2>1. \A q \in Seq(Int) : Len(q) \in Nat
    OBVIOUS
  <2> QED
    BY <1>2, <1>3, <2>1, Zenon
<1>5. /\ wop.size \in Nat /\ wop.size > 0 /\ made \in Nat /\ counted \in Nat /\ w_start \in Nat
      /\ w_start + Len(held) <= WCapacity
  BY <1>k, <1>1, Zenon DEF Kinds, Midway, WBufferFits
<1>b. Base \in Int
  BY <1>5 DEF Base
<1>n. n \in Nat /\ n > 0 /\ len \in Nat /\ len <= Len(held) /\ len <= n
  <2>1. len \in 0..Len(held) /\ n - len \in 0..Len(buf)
    BY <1>2, Zenon
  <2> HIDE DEF len
  <2> QED
    BY <1>1, <1>4, <2>1
<1>r. result = counted + (n - len) /\ result <= wop.size /\ result \in Nat
  BY <1>2, <1>5, <1>n
<1>c. room(0, h) = WCapacity - Len(h)
  BY <1>k, <1>4 DEF room
<1>d. room(0, h) \in Nat
  <2>1. Len(h) <= Len(held) /\ Len(held) <= WCapacity
    <3>1. Len(h) = Len(held) - len
      BY <1>2, Zenon
    <3> HIDE DEF h, len
    <3> QED
      BY <1>k, <1>4, <1>5, <1>n, <3>1
  <2> HIDE DEF h
  <2> QED
    BY <1>k, <1>4, <1>c, <2>1
<1>m. more \in Nat /\ more = IF room(0, h) <= Len(b) THEN room(0, h) ELSE Len(b)
  BY <1>4, <1>d, LesserOf, Zenon
<1>l. Len(h) = Len(held) - len /\ Len(b) = wop.size - result /\ (len < Len(held) => len = n)
  BY <1>2, Zenon
<1> HIDE DEF len, h, b, result, more, s
\* The sizes, as numbers.
<1>s. PICK C \in Nat, hd \in Nat, hh \in Nat, bb \in Nat, rm \in Nat, z \in Nat, ct \in Nat,
           ln \in Nat, mo \in Nat, re \in Nat :
        /\ C = WCapacity /\ hd = Len(held) /\ hh = Len(h) /\ bb = Len(b) /\ rm = room(0, h)
        /\ z = wop.size /\ ct = counted /\ ln = len /\ mo = more /\ re = result
  BY <1>k, <1>4, <1>5, <1>d, <1>m, <1>n, <1>r, Zenon
<1>t. /\ z > 0 /\ hd <= C /\ ln <= hd /\ ln <= n /\ n \in Nat /\ n > 0 /\ re = ct + (n - ln)
      /\ re <= z /\ rm = C - hh /\ hh = hd - ln /\ bb = z - re /\ (ln < hd => ln = n)
  <2>1. hd <= C
    BY <1>k, <1>4, <1>5, <1>s
  <2> QED
    BY <1>5, <1>c, <1>l, <1>n, <1>r, <1>s, <2>1, Zenon
<1>u. (rm <= bb /\ mo = rm) \/ (~(rm <= bb) /\ mo = bb)
  BY <1>m, <1>s, Zenon
<1>v. /\ re \in Nat /\ mo <= bb /\ mo <= rm /\ mo \in 0..bb /\ re + mo \in 0..z /\ re + mo \in Int
      /\ z - re \in Nat /\ mo \in 0..(z - re) /\ 0 + (hh + mo) <= C /\ 0 + hh <= C
      /\ (rm >= bb => re + mo = z)
  BY <1>t, <1>u
<1>w. ct = 0 => re + mo > 0
  <2>1. rm = (C - hd) + ln
    BY <1>t
  <2>2. CASE n = ln
    <3>1. rm > 0 /\ (ct = 0 => bb > 0)
      BY <1>t, <2>1, <2>2
    <3> QED
      BY <1>t, <1>u, <3>1
  <2>3. CASE n # ln
    BY <1>t, <1>u, <2>3
  <2> QED
    BY <2>2, <2>3, Zenon
<1>6. /\ more \in 0..Len(b) /\ result + more \in 0..wop.size /\ result + more \in Int
      /\ wop.size - result \in Nat /\ result \in Nat /\ more \in 0..(wop.size - result)
      /\ 0 + (Len(h) + more) <= WCapacity /\ 0 + Len(h) <= WCapacity
      /\ (room(0, h) >= Len(b) => result + more = wop.size)
      /\ (counted = 0 => result + more > 0)
  BY <1>s, <1>v, <1>w, Zenon
<1>e. Base + result \in Int
  BY <1>b, <1>6
<1>7. CASE wop.kind = "write" \/ Fits(h, b)
  <2> DEFINE c == SubSeq(b, 1, more)
  <2>1. held' = h \o c /\ Return(result + more, result + more)
    BY <1>1, <1>7, Zenon
  <2>2. c \in Seq(Int) /\ Len(c) = more
    BY <1>2, <1>6, PartsOfBytes, Zenon
  <2>3. c = Bytes(Base + result, more)
    BY <1>2, <1>6, <1>e, BytesParts, Zenon
  <2> HIDE DEF c
  <2>4. held' \in Seq(Int) /\ Len(held') = Len(h) + more
    BY <1>2, <2>1, <2>2, Joint, Zenon
  <2>5. sink' \o held' = accepted \o Bytes(Base, result + more)
    <3>1. Bytes(Base, result) \in Seq(Int)
      BY <1>6, <1>b, BytesAre, Zenon
    <3>2. s \o (h \o c) = (s \o h) \o c
      <4>1. s \in Seq(Int) /\ h \in Seq(Int)
        BY <1>2, Zenon
      <4> QED
        BY <2>2, <4>1, BytesAssociate, Zenon
    <3>3. (accepted \o Bytes(Base, result)) \o c = accepted \o (Bytes(Base, result) \o c)
      <4>1. accepted \in Seq(Int) /\ c \in Seq(Int)
        BY <1>3, <2>2, Zenon
      <4> QED
        BY <3>1, <4>1, BytesAssociate, Zenon
    <3>4. Bytes(Base, result) \o c = Bytes(Base, result + more)
      <4>1. result \in Nat /\ more \in Nat
        BY <1>6, <1>m, Zenon
      <4>2. Bytes(Base, result) \o Bytes(Base + result, more) = Bytes(Base, result + more)
        BY <1>b, <4>1, BytesJoin, Zenon
      <4> QED
        BY <2>3, <4>2, Zenon
    <3> QED
      BY <1>1, <1>2, <2>1, <3>2, <3>3, <3>4, Zenon
  <2>6. Kinds' /\ Midway' /\ Ordered' /\ bpc' = "idle" /\ wret' = result + more
    <3>1. w_start' \in Nat /\ sink' \in Seq(Int)
      BY <1>1, <1>2
    <3> QED
      BY <1>k, <1>1, <1>6, <2>1, <2>4, <2>5, <3>1, Returned, Zenon
  <2>7. WBufferFits'
    BY <1>1, <1>6, <2>4, Zenon DEF WBufferFits
  <2>8. WriteMakesProgress'
    <3>1. wop.kind = "write_all" => result + more = wop.size
      BY <1>6, <1>7, Zenon DEF Fits
    <3>2. wop.kind = "write" => result + more > 0
      BY <1>3, <1>6, Zenon
    <3> QED
      BY <1>1, <2>6, <3>1, <3>2, Zenon DEF WriteMakesProgress
  <2>9. FlushEmpties'
    BY <1>1, <1>3, Zenon DEF FlushEmpties
  <2> QED
    BY <2>6, <2>7, <2>8, <2>9, Zenon DEF WInv
<1>8. CASE ~(wop.kind = "write" \/ Fits(h, b))
  <2>1. held' = h /\ buf' = b /\ counted' = result /\ UNCHANGED <<bpc, wret, accepted>>
    BY <1>1, <1>8, Zenon
  <2>2. Kinds'
    <3>1. 0 \in Nat
      OBVIOUS
    <3> QED
      BY <1>k, <1>1, <1>2, <1>6, <2>1, <3>1, Zenon DEF Kinds
  <2>3. Base' = Base
    BY <1>1, Zenon DEF Base
  <2>4. Midway'
    <3>1. result <= wop.size /\ wop.size > 0
      BY <1>r, <1>5, Zenon
    <3>2. buf' = Bytes(Base + counted, wop.size - counted)'
      BY <1>1, <1>2, <2>1, <2>3, Zenon DEF Bytes
    <3> QED
      BY <1>1, <1>3, <1>8, <2>1, <3>1, <3>2, Zenon DEF Midway
  <2>5. Ordered'
    <3>1. Bytes(Base, counted)' = Bytes(Base, result)
      BY <2>1, <2>3, Zenon DEF Bytes
    <3> QED
      BY <1>1, <1>2, <2>1, <3>1, Zenon DEF Ordered
  <2>6. WBufferFits'
    BY <1>1, <1>6, <2>1, Zenon DEF WBufferFits
  <2>7. WriteMakesProgress' /\ FlushEmpties'
    BY <1>1, <2>1, Zenon DEF WriteMakesProgress, FlushEmpties
  <2> QED
    BY <2>2, <2>4, <2>5, <2>6, <2>7, Zenon DEF WInv
<1> QED
  BY <1>7, <1>8, Zenon

LEMMA BeginFlushKeeps == ASSUME WInv, BeginFlush PROVE WInv'
<1>k. Kinds /\ Midway /\ Ordered /\ WBufferFits
  BY Zenon DEF WInv
<1>1. /\ bpc = "idle" /\ bpc' = "flush" /\ wop' = [kind |-> "flush", size |-> 0]
      /\ UNCHANGED <<w_start, held, sink, buf, made, counted, accepted, wret>> /\ counted = 0
  BY <1>k, Zenon DEF BeginFlush, Midway
<1>2. wop'.kind = "flush" /\ wop'.size = 0
  BY <1>1, OpIs, Zenon
<1>3. Base \in Int /\ Base' \in Int /\ 0 <= made
  BY <1>k, <1>1, <1>2 DEF Kinds, Base
<1>4. Kinds'
  BY <1>k, <1>1, <1>2, <1>3 DEF Kinds
<1>5. Midway'
  BY <1>1, <1>2, Zenon DEF Midway
<1>6. Ordered'
  <2>1. Bytes(Base, counted) = <<>> /\ Bytes(Base, counted)' = <<>>
    BY <1>1, <1>3 DEF Bytes
  <2> QED
    BY <1>k, <1>1, <2>1, Zenon DEF Ordered
<1>7. WBufferFits' /\ WriteMakesProgress' /\ FlushEmpties'
  BY <1>k, <1>1, Zenon DEF WBufferFits, WriteMakesProgress, FlushEmpties
<1> QED
  BY <1>4, <1>5, <1>6, <1>7, Zenon DEF WInv

LEMMA FlushKeeps == ASSUME Sane, WInv, NEW n, Flush(n) PROVE WInv'
<1> DEFINE f == SubSeq(held, 1, n)
           h == SubSeq(held, n + 1, Len(held))
<1>k. Kinds /\ Midway /\ Ordered /\ WBufferFits
  BY Zenon DEF WInv
<1>1. /\ bpc = "flush" /\ n \in 1..Len(held) /\ sink' = sink \o f /\ held' = h
      /\ UNCHANGED <<wop, made>>
      /\ IF n = Len(held) THEN w_start' = 0 /\ Return(0, 0)
         ELSE w_start' = w_start + n /\ UNCHANGED <<bpc, wret, counted, accepted, buf>>
  BY Zenon DEF Flush
<1>2. /\ held \in Seq(Int) /\ sink \in Seq(Int) /\ accepted \in Seq(Int) /\ counted = 0
      /\ wop.kind = "flush" /\ wop.size \in Nat /\ w_start \in Nat
  BY <1>k, <1>1, Zenon DEF Kinds, Midway
<1>3. Len(held) \in Nat /\ n \in 0..Len(held) /\ n \in Nat /\ Base \in Int /\ 0 \in 0..wop.size
      /\ 0 \in Int /\ 0 \in Nat
  <2>1. made \in Nat /\ Len(held) \in Nat
    BY <1>k, <1>2 DEF Kinds
  <2>2. Base \in Int
    BY <1>2, <2>1 DEF Base
  <2> QED
    BY <1>1, <1>2, <2>1, <2>2
<1>4. /\ f \in Seq(Int) /\ h \in Seq(Int) /\ Len(h) = Len(held) - n /\ f \o h = held
      /\ (n = Len(held) => h = <<>>)
  BY <1>2, <1>3, PartsOfBytes, Zenon
<1> HIDE DEF f, h
<1>5. sink' \o held' = accepted \o Bytes(Base, 0) /\ sink' \in Seq(Int)
  <2>1. (sink \o f) \o h = sink \o (f \o h)
    <3>1. sink \in Seq(Int) /\ f \in Seq(Int) /\ h \in Seq(Int)
      BY <1>2, <1>4, Zenon
    <3> QED
      BY <3>1, BytesAssociate, Zenon
  <2>2. sink \o f \in Seq(Int)
    BY <1>2, <1>4, Joint, Zenon
  <2> QED
    BY <1>k, <1>1, <1>2, <1>4, <2>1, <2>2, Zenon DEF Ordered
<1>6. CASE n = Len(held)
  <2>1. w_start' = 0 /\ Return(0, 0) /\ held' = <<>>
    BY <1>1, <1>4, <1>6, Zenon
  <2>2. Kinds' /\ Midway' /\ Ordered' /\ bpc' = "idle" /\ wret' = 0
    BY <1>k, <1>1, <1>3, <1>4, <1>5, <2>1, Returned, Zenon
  <2>3. WBufferFits'
    <3>1. Len(held') = 0
      BY <2>1
    <3>2. 0 + 0 <= WCapacity
      BY DEF Sane
    <3> QED
      BY <2>1, <3>1, <3>2, Zenon DEF WBufferFits
  <2>4. WriteMakesProgress'
    BY <1>1, <1>2, Zenon DEF WriteMakesProgress
  <2>5. sink' = accepted'
    <3>1. Bytes(Base, 0) = <<>>
      BY <1>3 DEF Bytes
    <3>2. sink' = accepted
      BY <1>2, <1>5, <2>1, <3>1, JoinNothing, Zenon
    <3>3. accepted' = accepted \o Bytes(Base, 0)
      BY <2>1, Zenon DEF Return, Bytes, Base
    <3> QED
      BY <1>2, <3>1, <3>2, <3>3, JoinNothing, Zenon
  <2>6. FlushEmpties'
    BY <2>1, <2>5, Zenon DEF FlushEmpties
  <2> QED
    BY <2>2, <2>3, <2>4, <2>6, Zenon DEF WInv
<1>7. CASE n # Len(held)
  <2>1. w_start' = w_start + n /\ UNCHANGED <<bpc, wret, counted, accepted, buf>>
    BY <1>1, <1>7, Zenon
  <2>2. w_start' \in Nat /\ (w_start + n) + (Len(held) - n) = w_start + Len(held)
    BY <1>2, <1>3, <2>1
  <2>3. Kinds'
    BY <1>k, <1>1, <1>4, <1>5, <2>1, <2>2, Zenon DEF Kinds
  <2>4. Midway'
    BY <1>k, <1>1, <2>1, Zenon DEF Midway
  <2>5. Ordered'
    <3>1. Bytes(Base, counted)' = Bytes(Base, 0)
      BY <1>1, <1>2, <2>1, Zenon DEF Bytes, Base
    <3> QED
      BY <1>5, <2>1, <3>1, Zenon DEF Ordered
  <2>6. WBufferFits'
    BY <1>k, <1>1, <1>4, <2>1, <2>2, Zenon DEF WBufferFits
  <2>7. WriteMakesProgress' /\ FlushEmpties'
    BY <1>1, <2>1, Zenon DEF WriteMakesProgress, FlushEmpties
  <2> QED
    BY <2>3, <2>4, <2>5, <2>6, <2>7, Zenon DEF WInv
<1> QED
  BY <1>6, <1>7, Zenon

LEMMA SinkFailsKeeps == ASSUME WInv, SinkFails PROVE WInv'
<1>k. Kinds /\ Midway /\ Ordered /\ WBufferFits
  BY Zenon DEF WInv
<1>1. bpc # "idle" /\ Return(Failed, counted) /\ UNCHANGED <<w_start, held, sink, wop, made>>
  BY Zenon DEF SinkFails
<1>2. counted \in 0..wop.size /\ Failed \in Int
  <2>1. counted \in Nat /\ wop.size \in Nat /\ (bpc = "write" => counted <= wop.size)
        /\ (bpc # "write" => counted = 0)
    BY <1>k, Zenon DEF Kinds, Midway
  <2> QED
    BY <2>1 DEF Failed
<1>3. sink' \o held' = accepted \o Bytes(Base, counted)
  BY <1>k, <1>1, Zenon DEF Ordered
<1>4. Kinds' /\ Midway' /\ Ordered' /\ bpc' = "idle" /\ wret' = Failed
  BY <1>k, <1>1, <1>2, <1>3, Returned, Zenon DEF Kinds
<1>5. WBufferFits' /\ WriteMakesProgress' /\ FlushEmpties'
  BY <1>k, <1>1, <1>4, Zenon DEF WBufferFits, WriteMakesProgress, FlushEmpties, Failed
<1> QED
  BY <1>4, <1>5, Zenon DEF WInv

LEMMA NextWInv == ASSUME Sane, WInv, [Next]_writerVars PROVE WInv'
<1>1. ASSUME NEW n \in WSizes, BeginWrite("write", n) \/ BeginWrite("write_all", n) PROVE WInv'
  BY <1>1, BeginWriteKeeps, Zenon
<1>2. CASE BeginFlush
  BY <1>2, BeginFlushKeeps, Zenon
<1>3. CASE SinkFails
  BY <1>3, SinkFailsKeeps, Zenon
<1>4. ASSUME NEW n, Write(n) \/ Flush(n) PROVE WInv'
  BY <1>4, WriteKeeps, FlushKeeps, Zenon
<1>5. CASE UNCHANGED writerVars
  <2>1. Kinds' /\ Midway'
    BY <1>5, Zenon DEF WInv, writerVars, Kinds, Midway, Base, Bytes
  <2>2. Ordered' /\ WBufferFits' /\ WriteMakesProgress' /\ FlushEmpties'
    BY <1>5, Zenon DEF WInv, writerVars, Ordered, Base, Bytes, WBufferFits, WriteMakesProgress,
       FlushEmpties
  <2> QED
    BY <2>1, <2>2, Zenon DEF WInv
<1> QED
  BY <1>1, <1>2, <1>3, <1>4, <1>5, Zenon DEF Next

\* A BufWriter passes on, in order, the bytes it said it took, its buffer is
\* never overfilled, write_all takes everything and write something, and a
\* flush leaves nothing behind, for every capacity, whatever the sink takes at
\* a time and wherever it fails (impl_buf_write.hpp, buffer.hpp).
THEOREM WriterKeepsFaith ==
  ASSUME Sane
  PROVE  Spec => [](WrittenInOrder /\ WBufferFits /\ WriteMakesProgress /\ FlushEmpties)
<1>1. Init => WInv
  BY InitWInv, Zenon
<1>2. WInv /\ [Next]_writerVars => WInv'
  BY NextWInv, Zenon
<1>3. WInv => WrittenInOrder /\ WBufferFits /\ WriteMakesProgress /\ FlushEmpties
  BY Zenon DEF WInv, Ordered, Bytes, Base, WrittenInOrder
<1> QED
  BY <1>1, <1>2, <1>3, PTL DEF Spec
=============================================================================
