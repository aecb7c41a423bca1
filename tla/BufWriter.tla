------------------------------ MODULE BufWriter ------------------------------
(***************************************************************************)
(* A buffered writer (io/impl/impl_buf_write.hpp, io/buf/buffer.hpp,       *)
(* io/buf/writer.hpp) over a sink that takes what it likes of the bytes it *)
(* is given: short writes, none, or an error.  The bytes a caller writes   *)
(* are numbered, so that order and loss can be seen.                       *)
(***************************************************************************)
EXTENDS Integers, Sequences, FiniteSetsExt

CONSTANTS WCapacity,
          WSizes,       \* sizes of the buffers that are written
          MaxWritten,   \* bytes all the writes have together
          MaxFaults     \* errors and writes of nothing by the sink

VARIABLES w_start, held,   \* of the StreamBuffer: r_pos_ and what is in [r_pos_, w_pos_)
          sink,            \* the bytes the sink has
          bpc,             \* idle, write or flush
          wop,             \* the operation: its kind and its size
          buf,             \* the bytes of the caller that are not taken yet
          made,            \* bytes the callers have made so far
          counted,         \* result of real_write so far
          accepted,        \* the bytes the writer says it has taken
          wret, faults     \* result of the operation, faults of the sink

writerVars == <<w_start, held, sink, bpc, wop, buf, made, counted, accepted, wret, faults>>

Init ==
  /\ w_start = 0 /\ held = <<>> /\ sink = <<>>
  /\ bpc = "idle" /\ wop = [kind |-> "none", size |-> 0] /\ buf = <<>> /\ made = 0
  /\ counted = 0 /\ accepted = <<>> /\ wret = 0 /\ faults = 0

room(start, h) == WCapacity - start - Len(h)

Failed == -1

\* The operation returns; on an error the caller does not know what was taken.
Return(r, n) ==
  /\ bpc' = "idle" /\ wret' = r /\ counted' = 0
  /\ accepted' = accepted \o [i \in 1..n |-> made - wop.size + i] /\ buf' = <<>>

\* real_write: what fits goes to the buffer.
BeginWrite(kind, n) ==
  /\ bpc = "idle" /\ made + n <= MaxWritten
  /\ made' = made + n /\ wop' = [kind |-> kind, size |-> n]
  /\ LET bytes == [i \in 1..n |-> made + i]
     IN IF room(w_start, held) >= n
        THEN held' = held \o bytes /\ wret' = n /\ accepted' = accepted \o bytes
             /\ UNCHANGED <<bpc, buf>>
        ELSE bpc' = "write" /\ buf' = bytes /\ UNCHANGED <<held, wret, accepted>>
  /\ UNCHANGED <<w_start, sink, counted, faults>>

\* One round of the loop: the sink gets the buffer and the caller's bytes;
\* what it took is dropped and the buffer compacted.  The loop ends when the
\* rest fits, or after one round of write(); the rest goes to the buffer.
Fits(h, b) == room(0, h) >= Len(b)
Write(n) ==
  /\ bpc = "write" /\ n \in 1..Len(held) + Len(buf)
  /\ sink' = sink \o SubSeq(held \o buf, 1, n)
  /\ w_start' = 0
  /\ LET len == Min({n, Len(held)})
         h == SubSeq(held, len + 1, Len(held))
         b == SubSeq(buf, n - len + 1, Len(buf))
         result == counted + n - len
         more == Min({room(0, h), Len(b)})
     IN IF wop.kind = "write" \/ Fits(h, b)
        THEN held' = h \o SubSeq(b, 1, more) /\ Return(result + more, result + more)
        ELSE held' = h /\ buf' = b /\ counted' = result /\ UNCHANGED <<bpc, wret, accepted>>
  /\ UNCHANGED <<wop, made, faults>>

BeginFlush ==
  /\ bpc = "idle" /\ held # <<>> /\ bpc' = "flush" /\ wop' = [kind |-> "flush", size |-> 0]
  /\ UNCHANGED <<w_start, held, sink, buf, made, counted, accepted, wret, faults>>

\* mutant: what a short write left is dropped
FlushForgets(n) ==
  /\ bpc = "flush" /\ n \in 1..Len(held)
  /\ sink' = sink \o SubSeq(held, 1, n) /\ held' = <<>> /\ w_start' = 0 /\ Return(0, 0)
  /\ UNCHANGED <<wop, made, faults>>
Flush(n) ==
  /\ bpc = "flush" /\ n \in 1..Len(held)
  /\ sink' = sink \o SubSeq(held, 1, n) /\ held' = SubSeq(held, n + 1, Len(held))
  /\ IF n = Len(held) THEN w_start' = 0 /\ Return(0, 0)
     ELSE w_start' = w_start + n /\ UNCHANGED <<bpc, wret, counted, accepted, buf>>
  /\ UNCHANGED <<wop, made, faults>>

\* The sink fails or takes nothing (WriteZero): the operation returns.
SinkFails ==
  /\ bpc # "idle" /\ faults < MaxFaults /\ faults' = faults + 1
  /\ Return(Failed, counted) /\ UNCHANGED <<w_start, held, sink, wop, made>>

Next ==
  \/ \E n \in WSizes : BeginWrite("write", n) \/ BeginWrite("write_all", n)
  \/ BeginFlush \/ SinkFails
  \/ \E n \in 1..WCapacity + MaxWritten : Write(n) \/ Flush(n)

Spec == Init /\ [][Next]_writerVars

\* The sink answers every write.
Fairness == WF_writerVars(SinkFails \/ \E n \in 1..WCapacity + MaxWritten : Write(n) \/ Flush(n))

-----------------------------------------------------------------------------
\* The bytes the sink has and the buffer holds are the bytes the writer said
\* it took, in the order they were written, whatever the sink took at a time
\* and wherever an operation failed.
WrittenInOrder ==
  LET now == [i \in 1..counted |-> made - wop.size + i]
  IN sink \o held = accepted \o now

\* The buffer is never overfilled (buffer.hpp:65-68).
WBufferFits == w_start + Len(held) <= WCapacity

\* write_all that succeeds has taken everything, and write at least one byte,
\* so that a caller who writes in a loop makes progress.
WriteMakesProgress ==
  bpc = "idle" /\ wret # Failed =>
    /\ wop.kind = "write_all" => wret = wop.size
    /\ wop.kind = "write" => wret > 0

\* A flush that succeeds leaves nothing in the buffer.
FlushEmpties == bpc = "idle" /\ wop.kind = "flush" /\ wret # Failed => held = <<>> /\ sink = accepted

\* Every write and every flush returns.
EveryWriteReturns == bpc # "idle" ~> bpc = "idle"
=============================================================================
