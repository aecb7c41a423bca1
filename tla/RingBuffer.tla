----------------------------- MODULE RingBuffer -----------------------------
(***************************************************************************)
(* util::HeapRingBuffer (common/util/ring_buffer.hpp), the buffer of a     *)
(* Channel: a vector of one slot more than its capacity, and two positions *)
(* in it that are equal when it is empty.                                  *)
(***************************************************************************)
EXTENDS Integers, Sequences, FiniteSets

CONSTANTS Values, Capacities, NoValue

VARIABLES start,  \* start_
          end,    \* end_
          data,   \* data_, indexed from 0
          ret     \* what the last operation returned

vars == <<start, end, data, ret>>

Vector(n) == [i \in 0..n - 1 |-> NoValue]
length(d) == Cardinality(DOMAIN d)

Init ==
  /\ start = 0
  /\ end = 0
  /\ \E c \in Capacities : data = Vector(c + 1)
  /\ ret = NoValue

is_empty == start = end

\* mutant: no slot is kept free
FillsEverySlot == end + 1 = start + length(data)

is_fill == (end + 1) % length(data) = start
size == (end - start + length(data)) % length(data)
capacity == length(data) - 1

\* The positions are indices of the vector; anything else is out of bounds.
InBounds == start \in DOMAIN data /\ end \in DOMAIN data

push(v) ==
  /\ InBounds
  /\ IF is_fill
     THEN ret' = FALSE /\ UNCHANGED <<end, data>>
     ELSE /\ data' = [data EXCEPT ![end] = v]
          /\ end' = (end + 1) % length(data)
          /\ ret' = TRUE
  /\ UNCHANGED start

\* mutant: the position runs past the end of the vector
pop_unwrapped ==
  /\ InBounds
  /\ IF is_empty
     THEN ret' = NoValue /\ UNCHANGED start
     ELSE ret' = data[start] /\ start' = start + 1
  /\ UNCHANGED <<end, data>>

pop ==
  /\ InBounds
  /\ IF is_empty
     THEN ret' = NoValue /\ UNCHANGED start
     ELSE ret' = data[start] /\ start' = (start + 1) % length(data)
  /\ UNCHANGED <<end, data>>

\* resize moves the contents to the front of a new vector, in one or two
\* pieces; an empty buffer keeps its positions.
resize(c) ==
  LET n == c + 1
      moved == IF start < end THEN end - start
               ELSE IF start > end THEN end + length(data) - start
               ELSE 0
  IN  /\ InBounds
      /\ \/ n = length(data) /\ ret' = TRUE /\ UNCHANGED <<start, end, data>>
         \/ n # length(data) /\ n < size /\ ret' = FALSE /\ UNCHANGED <<start, end, data>>
         \/ /\ n # length(data) /\ n >= size
            /\ data' = [i \in 0..n - 1 |->
                          IF i < moved THEN data[(start + i) % length(data)] ELSE NoValue]
            /\ end' = IF is_empty THEN end ELSE moved
            /\ start' = IF is_empty THEN start ELSE 0
            /\ ret' = TRUE

Next == pop \/ \E v \in Values : push(v)

Spec == Init /\ [][Next]_vars

\* The same with resize, which no other part of the library calls.
ResizeSpec == Init /\ [][Next \/ \E c \in Capacities : resize(c)]_vars

-----------------------------------------------------------------------------
\* The positions stay in the vector, which the unchecked data_[end_++] and
\* data_[start_++] depend on (ring_buffer.hpp:76, 83, 94, 104).
TypeOK ==
  /\ InBounds
  /\ \A i \in DOMAIN data : data[i] \in Values \cup {NoValue}
  /\ ret \in Values \cup {NoValue} \cup BOOLEAN

Contents == [i \in 1..size |-> data[(start + i - 1) % length(data)]]

\* The buffer is a bounded queue: what is pushed is popped once, in order,
\* wherever the positions have wrapped to (ring_buffer_test.cpp:11-35, 37-81).
Promise == INSTANCE BoundedQueue WITH queue <- Contents, cap <- capacity
ImplementsBoundedQueue == Promise!Spec
=============================================================================
