------------------------------ MODULE BufReader ------------------------------
(***************************************************************************)
(* A buffered reader (io/impl/impl_buf_read.hpp, io/buf/buffer.hpp,        *)
(* io/buf/reader.hpp) over a source that gives what it likes of the bytes  *)
(* it has: short reads, errors, and 0 at its end.  A byte is the position  *)
(* it has in the source, so that order and loss can be seen; Text[i] is    *)
(* the character there.                                                    *)
(***************************************************************************)
EXTENDS Integers, Sequences, SequencesExt

CONSTANTS Text, Capacity,
          Sizes,        \* sizes of the buffers that read and read_exact get
          Flags,        \* end flags for read_until, sequences of characters
          MaxErrors     \* errors of the source

VARIABLES r_pos, content,   \* of the StreamBuffer: r_pos_ and what is in [r_pos_, w_pos_)
          unread,           \* the first byte the source still has
          rpc,              \* idle, direct, fill or until
          op,               \* the operation: its kind, its size or end flag
          want,             \* the bytes of the caller's buffer not yet filled
          taken,            \* the bytes given to the caller, by all operations
          from,             \* how many there were when the operation began
          ret,              \* its result
          errors,           \* errors of the source so far
          cuts              \* where read_until emptied the buffer without a match

readerVars == <<r_pos, content, unread, rpc, op, want, taken, from, ret, errors, cuts>>

NoOp == [kind |-> "none", size |-> 0, flag |-> <<>>]
None == [ok |-> TRUE, value |-> 0]
Ok(n) == [ok |-> TRUE, value |-> n]
Eof == [ok |-> FALSE, value |-> 0]
IoError == [ok |-> FALSE, value |-> 1]

Init ==
  /\ r_pos = 0 /\ content = <<>> /\ unread = 1
  /\ rpc = "idle" /\ op = NoOp /\ want = 0
  /\ taken = <<>> /\ from = 0 /\ ret = None /\ errors = 0 /\ cuts = {}

-----------------------------------------------------------------------------
(* StreamBuffer                                                            *)

w_remaining(pos, c) == Capacity - pos - Len(c)

\* write_to: the front of the buffer goes to the caller; an empty buffer is
\* reset.
write_to(pos, c, n) ==
  LET len == Min({Len(c), n})
  IN /\ taken' = taken \o SubSeq(c, 1, len)
     /\ content' = SubSeq(c, len + 1, Len(c))
     /\ r_pos' = IF len = Len(c) THEN 0 ELSE pos + len

\* The position and the length of the first end flag in the buffer.
FlagAt(c, flag) == {i \in 1..Len(c) - Len(flag) + 1 : \A j \in DOMAIN flag : Text[c[i + j - 1]] = flag[j]}
find_flag(c, flag) == IF FlagAt(c, flag) = {} THEN 0 ELSE Min(FlagAt(c, flag)) + Len(flag) - 1

\* What the source may return for a read of len bytes.
Counts(len) ==
  IF len = 0 \/ unread > Len(Text) THEN {0} ELSE 1..Min({len, Len(Text) - unread + 1})
Bytes(n) == [i \in 1..n |-> unread + i - 1]

Done(r) == rpc' = "idle" /\ ret' = r /\ UNCHANGED <<op, from, cuts>>
SourceFails == errors < MaxErrors /\ errors' = errors + 1 /\ UNCHANGED unread

-----------------------------------------------------------------------------
(* read and read_exact                                                     *)

Begin(o) == rpc = "idle" /\ op' = o /\ from' = Len(taken) /\ cuts' = {}

\* The predicate of real_read.
Satisfied(o, c) == IF o.kind = "read_exact" THEN Len(c) >= o.size ELSE c # <<>>

BeginRead(kind, n) ==
  LET o == [kind |-> kind, size |-> n, flag |-> <<>>]
  IN /\ Begin(o)
     /\ IF Capacity < n
        THEN write_to(r_pos, content, n) /\ want' = n - Min({Len(content), n})
             /\ rpc' = "direct" /\ ret' = None
        ELSE /\ want' = n
             /\ IF Satisfied(o, content)
                THEN /\ write_to(r_pos, content, n) /\ rpc' = "idle"
                     /\ ret' = Ok(Min({Len(content), n}))
                ELSE rpc' = "fill" /\ ret' = None /\ UNCHANGED <<r_pos, content, taken>>
  /\ UNCHANGED <<unread, errors>>

\* A buffer larger than the stream's own is read into directly.  read_exact
\* goes on to the loop below when that fails.
Direct ==
  /\ rpc = "direct"
  /\ \/ /\ SourceFails /\ UNCHANGED <<want, taken>>
        /\ IF op.kind = "read" THEN Done(IoError) ELSE rpc' = "fill" /\ UNCHANGED <<ret, op, from, cuts>>
     \/ \E n \in Counts(want) :
          /\ taken' = taken \o Bytes(n) /\ unread' = unread + n /\ want' = want - n
          /\ IF op.kind = "read" THEN Done(Ok(op.size - want'))
             ELSE IF n = 0 THEN rpc' = "fill" /\ UNCHANGED <<ret, op, from, cuts>>
             ELSE IF want' = 0 THEN Done(Ok(op.size))
             ELSE UNCHANGED <<rpc, ret, op, from, cuts>>
          /\ UNCHANGED errors
  /\ UNCHANGED <<r_pos, content>>

\* The loop of real_read: make room, fill the buffer, see if it is enough.
Compacted == IF w_remaining(r_pos, content) < want THEN 0 ELSE r_pos
Fill ==
  /\ rpc = "fill" /\ UNCHANGED want
  /\ \/ SourceFails /\ Done(IoError) /\ r_pos' = Compacted /\ UNCHANGED <<content, taken>>
     \/ \E n \in Counts(w_remaining(Compacted, content)) :
          LET c == content \o Bytes(n)
              stop == Satisfied(op, c) \/ n = 0
          IN /\ unread' = unread + n /\ UNCHANGED errors
             /\ IF op.kind = "read_exact" /\ n = 0
                THEN r_pos' = Compacted /\ content' = c /\ Done(Eof) /\ UNCHANGED taken
                ELSE IF stop
                THEN write_to(Compacted, c, want) /\ Done(Ok(Min({Len(c), want})))
                ELSE r_pos' = Compacted /\ content' = c /\ UNCHANGED <<rpc, op, from, ret, taken, cuts>>

-----------------------------------------------------------------------------
(* read_until, read_line, consume and fill_buf                             *)

\* With the flag in the buffer the operation ends; otherwise the buffer goes
\* to the caller as it is and is filled again.
Scan(flag, cut) ==
  LET len == find_flag(content, flag)
  IN IF len > 0
     THEN /\ taken' = taken \o SubSeq(content, 1, len)
          /\ content' = SubSeq(content, len + 1, Len(content)) /\ r_pos' = r_pos + len
          /\ rpc' = "idle" /\ ret' = Ok(Len(taken') - from') /\ cuts' = cut
     ELSE /\ taken' = taken \o content /\ content' = <<>> /\ r_pos' = 0
          /\ rpc' = "until" /\ ret' = None /\ cuts' = cut \cup {Len(taken')}

BeginUntil(flag) ==
  /\ rpc = "idle" /\ op' = [kind |-> "read_until", size |-> 0, flag |-> flag]
  /\ from' = Len(taken) /\ Scan(flag, {}) /\ UNCHANGED <<unread, want, errors>>

Until ==
  /\ rpc = "until" /\ UNCHANGED want
  /\ \/ SourceFails /\ Done(IoError) /\ UNCHANGED <<r_pos, content, taken>>
     \/ \E n \in Counts(Capacity) :
          /\ unread' = unread + n /\ content' = content \o Bytes(n)
          /\ IF n = 0 THEN Done(Ok(Len(taken) - from)) ELSE rpc' = "scan" /\ UNCHANGED <<ret, op, from, cuts>>
          /\ UNCHANGED <<r_pos, taken, errors>>

ScanAgain ==
  /\ rpc = "scan" /\ UNCHANGED <<op, from>> /\ Scan(op.flag, cuts)
  /\ UNCHANGED <<unread, want, errors>>

consume(n) ==
  /\ Begin(NoOp)
  /\ LET len == Min({n, Len(content)})
     IN /\ taken' = taken \o SubSeq(content, 1, len) /\ r_pos' = r_pos + len
        /\ content' = SubSeq(content, len + 1, Len(content))
  /\ ret' = None /\ UNCHANGED <<unread, rpc, want, errors>>

fill_buf ==
  /\ Begin(NoOp)
  /\ \/ SourceFails /\ ret' = IoError /\ UNCHANGED content
     \/ \E n \in Counts(w_remaining(r_pos, content)) :
          unread' = unread + n /\ content' = content \o Bytes(n) /\ ret' = None /\ UNCHANGED errors
  /\ UNCHANGED <<r_pos, rpc, want, taken>>

Next ==
  \/ \E n \in Sizes : BeginRead("read", n) \/ BeginRead("read_exact", n) \/ consume(n)
  \/ \E flag \in Flags : BeginUntil(flag)
  \/ Direct \/ Fill \/ Until \/ ScanAgain \/ fill_buf

Spec == Init /\ [][Next]_readerVars

\* The source answers every read.
Fairness == WF_readerVars(Direct \/ Fill \/ Until \/ ScanAgain)

-----------------------------------------------------------------------------
\* No byte is lost, given twice or out of order, whichever operations follow
\* one another: what the callers got and what the buffer holds is what the
\* source gave.  Bytes that an operation had put into the caller's buffer before
\* the source failed count as given, although the caller gets the error and
\* not their number (impl_buf_read.hpp:71, 105-117).
BytesInOrder == taken \o content = [i \in 1..unread - 1 |-> i]

\* The positions of the buffer stay inside it, so that w_remaining never
\* wraps around (buffer.hpp:65-68).
BufferFits == r_pos >= 0 /\ w_remaining(r_pos, content) >= 0

Returned(kind) == rpc = "idle" /\ op.kind = kind

\* read_exact that succeeds has filled the caller's buffer: through the
\* stream's buffer, past it, or partly from it (impl_buf_read.hpp:104-111,
\* 143-145).
ReadExactFills ==
  Returned("read_exact") /\ ret.ok => Len(taken) - from = op.size

\* An operation that succeeds returns the number of bytes it gave, those that it
\* moved out of the buffer before it went to the source included
\* (impl_buf_read.hpp:110, 115).
CountsAreTrue ==
  \A kind \in {"read", "read_exact", "read_until"} :
    Returned(kind) /\ ret.ok => ret.value = Len(taken) - from

\* A result of 0 from read, and the end-of-file error of read_exact, are the
\* end of the source, unless the source failed before.
EofIsReal ==
  /\ Returned("read") /\ ret = Ok(0) => unread > Len(Text) /\ content = <<>>
  /\ Returned("read_exact") /\ ret = Eof /\ errors = 0 => unread > Len(Text)

Whole(i, flag) == ~\E c \in cuts : i <= c /\ c < i + Len(flag) - 1
\* read_until returns everything up to the first end flag, or all that is
\* left, however the source cuts its bytes up.  The flags that it misses are
\* those of which a part was read, and handed to the caller, before the rest
\* (impl_buf_read.hpp:67-86).
UntilEndsAtFlag ==
  Returned("read_until") /\ ret.ok =>
    LET flags == {i \in FlagAt([j \in 1..Len(Text) |-> j], op.flag) : i > from /\ Whole(i, op.flag)}
    IN Len(taken) = IF flags = {} THEN Len(Text) ELSE Min(flags) + Len(op.flag) - 1

\* Every read returns, read_exact also after an error in the middle.
EveryReadReturns == rpc # "idle" ~> rpc = "idle"
=============================================================================
