----------------------------- MODULE FileLogger -----------------------------
(***************************************************************************)
(* The asynchronous log file (log/logger.hpp, log/buffer.hpp): log() fills *)
(* a buffer under mutex_, a thread writes full buffers to the file and     *)
(* gives them back empty.  It swaps buffers under mutex_ too, but walks    *)
(* full_buffers_ without it, so that log() may push a buffer between any   *)
(* two of its steps; the two lists stay well formed here.  The thread is   *)
(* started before running_ is initialised and may see any value in it.     *)
(*                                                                         *)
(* A buffer is the sequence of its messages; PerBuffer fit in one.         *)
(***************************************************************************)
EXTENDS Integers, Sequences, SequencesExt

CONSTANTS MaxMessages, PerBuffer, max_buffer_list_size

VARIABLES current,     \* current_buffer_
          empties,     \* empty_buffers_
          fulls,       \* full_buffers_
          running,     \* running_: unset, yes or no
          lpc, at,     \* where the thread is, and in which buffer of fulls
          file,        \* the messages that were written
          logged,      \* the number of messages so far
          window,      \* messages in buffers pushed between the thread's walk and its splice
          dropped,     \* messages in buffers the thread dropped with a notice
          early,       \* the thread left its loop although nobody had stopped it
          overrun      \* a message was written to a buffer without room

loggerVars == <<current, empties, fulls, running, lpc, at, file, logged, window, dropped, early, overrun>>

Init ==
  /\ current = <<>> /\ empties = <<>> /\ fulls = <<>> /\ running = "unset"
  /\ lpc = "while" /\ at = 1
  /\ file = <<>> /\ logged = 0 /\ window = {} /\ dropped = {} /\ early = FALSE /\ overrun = FALSE

Messages(bs) == UNION {ToSet(bs[i]) : i \in DOMAIN bs}
HasRoom(b) == Len(b) < PerBuffer

\* The rest of the constructor: running_ and two empty buffers.
Construct ==
  /\ running = "unset" /\ running' = "yes" /\ empties' = empties \o <<<<>>, <<>>>>
  /\ UNCHANGED <<current, fulls, lpc, at, file, logged, window, dropped, early, overrun>>

\* The current buffer is pushed to full_buffers_ and an empty one, or a new
\* one, takes its place.
NextBuffer == IF empties # <<>> THEN Head(empties) ELSE <<>>
\* mutant: the current buffer is not put with the full ones
SwapLoses == fulls' = fulls /\ empties' = IF empties # <<>> THEN Tail(empties) ELSE <<>>
Swap == fulls' = Append(fulls, current) /\ empties' = IF empties # <<>> THEN Tail(empties) ELSE <<>>

\* log(), of any thread
log ==
  /\ running = "yes" /\ logged < MaxMessages /\ logged' = logged + 1
  /\ IF HasRoom(current)
     THEN current' = Append(current, logged') /\ UNCHANGED <<empties, fulls, window, overrun>>
     ELSE /\ Swap /\ current' = Append(NextBuffer, logged')
          /\ overrun' = (overrun \/ ~HasRoom(NextBuffer))
          /\ window' = IF lpc \in {"shrink", "splice"} THEN window \cup ToSet(current) ELSE window
  /\ UNCHANGED <<running, lpc, at, file, dropped, early>>

-----------------------------------------------------------------------------
(* work()                                                                  *)

While ==
  /\ lpc = "while"
  /\ lpc' \in (IF running # "no" THEN {"wait"} ELSE {}) \cup (IF running # "yes" THEN {"last"} ELSE {})
  /\ early' = (lpc' = "last" /\ running # "no")
  /\ UNCHANGED <<current, empties, fulls, running, at, file, logged, window, dropped, overrun>>

\* wait_for() ends with a full buffer or after 3 ms; both ways the current
\* buffer is taken.
WaitFor ==
  /\ lpc = "wait" /\ Swap /\ current' = NextBuffer /\ lpc' = "trim"
  /\ UNCHANGED <<running, at, file, logged, window, dropped, early, overrun>>

\* resize(2) when there are too many buffers, with a notice on std::cerr
Trim ==
  /\ lpc = "trim" /\ lpc' = "write" /\ at' = 1
  /\ IF Len(fulls) > max_buffer_list_size
     THEN /\ dropped' = dropped \cup Messages(SubSeq(fulls, 3, Len(fulls)))
          /\ fulls' = SubSeq(fulls, 1, 2)
     ELSE UNCHANGED <<fulls, dropped>>
  /\ UNCHANGED <<current, empties, running, file, logged, window, early, overrun>>

Emptied(b) == <<>>
Write ==
  /\ lpc = "write" /\ at <= Len(fulls)
  /\ file' = file \o fulls[at] /\ fulls' = [fulls EXCEPT ![at] = Emptied(@)]
  /\ at' = at + 1
  /\ UNCHANGED <<current, empties, running, lpc, logged, window, dropped, early, overrun>>

WriteEnd ==
  /\ lpc = "write" /\ at > Len(fulls) /\ lpc' = "shrink"
  /\ UNCHANGED <<current, empties, fulls, running, at, file, logged, window, dropped, early, overrun>>

\* resize(2) of what was written, then flush
Shrink ==
  /\ lpc = "shrink" /\ lpc' = "splice"
  /\ fulls' = IF Len(fulls) > 2 THEN SubSeq(fulls, 1, 2) ELSE fulls
  /\ UNCHANGED <<current, empties, running, at, file, logged, window, dropped, early, overrun>>

Splice ==
  /\ lpc = "splice" /\ lpc' = "while" /\ empties' = empties \o fulls /\ fulls' = <<>>
  /\ UNCHANGED <<current, running, at, file, logged, window, dropped, early, overrun>>

\* After the loop the rest is written, the current buffer last.
WriteRest ==
  /\ lpc = "last" /\ lpc' = "done"
  /\ file' = file \o FlattenSeq(fulls) \o current
  /\ fulls' = IF current = <<>> THEN fulls ELSE Append(fulls, current)
  /\ UNCHANGED <<current, empties, running, at, logged, window, dropped, early, overrun>>

\* The destructor: no log() is under way, it waits for the thread.
Destruct ==
  /\ running = "yes" /\ running' = "no"
  /\ UNCHANGED <<current, empties, fulls, lpc, at, file, logged, window, dropped, early, overrun>>

Work == While \/ WaitFor \/ Trim \/ Write \/ WriteEnd \/ Shrink \/ Splice \/ WriteRest

Next == Construct \/ log \/ Work \/ Destruct

Spec == Init /\ [][Next]_loggerVars

\* The thread runs.
Fairness == WF_loggerVars(Work)

-----------------------------------------------------------------------------
\* Buffers are handed back and forth and each message is written at most once.
WrittenOnce == IsInjective(file)

\* A message that was logged gets to the file, at the latest when the logger
\* is destroyed.  It may miss it only if its buffer was pushed after the
\* thread's walk and before its splice, neither under the mutex, if it was
\* dropped with a notice, or if the thread saw running_ before it was set
\* (logger.hpp:206-249).
LoggedReachesFile ==
  []<>(early \/ overrun
       \/ \A m \in 1..logged : Contains(file, m) \/ m \in window \cup dropped)

\* At any time a message is in the file, in a buffer that will be written, or
\* in one of the cases above: no swap, trim, walk or splice drops another.
NothingMissing ==
  ~overrun =>
    \A m \in 1..logged :
      \/ Contains(file, m) \/ Contains(current, m) \/ m \in Messages(fulls)
      \/ m \in window \cup dropped
=============================================================================
