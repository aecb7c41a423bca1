------------------------------ MODULE Channel ------------------------------
(***************************************************************************)
(* sync::Channel (sync/channel.hpp and sync/channel/): senders and         *)
(* receivers meet in a bounded buffer and in two lists of waiting awaiters.*)
(* All of this is done under mutex_, taken here at its promise FifoLock,   *)
(* except destroy(), which the last sender or receiver that goes away runs *)
(* without it.  buf_ is taken at its promise, BoundedQueue.                *)
(*                                                                         *)
(* Every coroutine has a handle (a Sender or a Receiver) of its own, as in *)
(* tests/channel_test.cpp.                                                 *)
(***************************************************************************)
EXTENDS Naturals, Sequences, FiniteSets, Functions

CONSTANTS Senders, Receivers,
          First,     \* the coroutines that make() gives its two handles to
          Closers,   \* the coroutines that close their handle sooner or later
          Caps,      \* the capacities that buf_ may be made with
          MaxSends,  \* bound: values that each sender sends
          Nobody, Closed  \* the owner of a free lock; Error::ClosedChannel

Coros == Senders \cup Receivers
Values == Senders \X (1..MaxSends)

ASSUME ChannelAssumption ==
  /\ IsFiniteSet(Senders) /\ IsFiniteSet(Receivers)
  /\ Senders \cap Receivers = {} /\ Closers \subseteq Coros
  /\ Cardinality(First \cap Senders) = 1 /\ Cardinality(First \cap Receivers) = 1
  /\ Nobody \notin Coros /\ Closed \notin Values
  /\ Caps \subseteq Nat /\ MaxSends \in Nat

VARIABLES owner, queue,                          \* mutex_
          buf, waiting_senders, waiting_receivers, is_closed,
          cap,                                   \* the capacity of buf_
          num_senders, num_receivers,
          pc,
          unlocking,   \* coroutines whose await_suspend has still to unlock
          sends,       \* the sends that each sender has begun
          result,      \* result_ of each receiver's awaiter
          accepted,    \* history: the values whose send succeeded
          received,    \* history: what each receiver's recv returned
          failed       \* history: the coroutines that were told Closed

lockVars == <<owner, queue>>
chanVars == <<buf, waiting_senders, waiting_receivers, is_closed>>
countVars == <<num_senders, num_receivers, cap>>
historyVars == <<accepted, received, failed>>
vars == <<lockVars, chanVars, countVars, pc, unlocking, sends, result, historyVars>>

mutex == INSTANCE FifoLock

Init ==
  /\ mutex!Init
  /\ buf = <<>> /\ waiting_senders = <<>> /\ waiting_receivers = <<>>
  /\ is_closed = FALSE
  /\ cap \in Caps
  /\ num_senders = 1 /\ num_receivers = 1
  /\ pc = [c \in Coros |-> IF c \in First THEN "out" ELSE "no_handle"]
  /\ unlocking = {}
  /\ sends = [s \in Senders |-> 0]
  /\ result = [r \in Receivers |-> Closed]
  /\ accepted = {}
  /\ received = [r \in Receivers |-> <<>>]
  /\ failed = {}

Goto(c, label) == pc' = [pc EXCEPT ![c] = label]
HasLock(c) == owner = c /\ c \notin unlocking

\* The value a sender is sending.
Value(s) == <<s, sends[s]>>

-----------------------------------------------------------------------------
\* Sender(const Sender &) and Receiver(const Receiver &), for another coroutine
Copy(c, d) ==
  /\ pc[c] = "out" /\ pc[d] = "no_handle"
  /\ \/ {c, d} \subseteq Senders /\ num_senders' = num_senders + 1 /\ UNCHANGED num_receivers
     \/ {c, d} \subseteq Receivers /\ num_receivers' = num_receivers + 1 /\ UNCHANGED num_senders
  /\ Goto(d, "out")
  /\ UNCHANGED <<lockVars, chanVars, cap, unlocking, sends, result, historyVars>>

\* close() of a handle: sub_sender or sub_receiver, the last of which destroys
Close(c) ==
  /\ pc[c] = "out" /\ c \in Closers
  /\ IF c \in Senders
     THEN num_senders' = num_senders - 1 /\ UNCHANGED num_receivers
     ELSE num_receivers' = num_receivers - 1 /\ UNCHANGED num_senders
  /\ Goto(c, IF (c \in Senders /\ num_senders = 1) \/ (c \in Receivers /\ num_receivers = 1)
             THEN "destroy" ELSE "closed")
  /\ UNCHANGED <<lockVars, chanVars, cap, unlocking, sends, result, historyVars>>

\* destroy(), without the mutex: only the first one does anything...
Destroy(c) ==
  /\ pc[c] = "destroy"
  /\ is_closed' = TRUE
  /\ Goto(c, IF is_closed THEN "closed" ELSE "wake")
  /\ UNCHANGED <<lockVars, buf, waiting_senders, waiting_receivers, countVars, unlocking, sends,
                 result, historyVars>>

\* ...which schedules everybody it finds in the lists...
DestroyWake(c) ==
  /\ pc[c] = "wake"
  /\ pc' = [d \in Coros |-> IF d = c THEN "clear"
                            ELSE IF d \in Range(waiting_senders \o waiting_receivers)
                            THEN "scheduled" ELSE pc[d]]
  /\ UNCHANGED <<lockVars, chanVars, countVars, unlocking, sends, result, historyVars>>

\* ...and clears them.
DestroyClear(c) ==
  /\ pc[c] = "clear"
  /\ waiting_senders' = <<>> /\ waiting_receivers' = <<>>
  /\ Goto(c, "closed")
  /\ UNCHANGED <<lockVars, buf, is_closed, countVars, unlocking, sends, result, historyVars>>

-----------------------------------------------------------------------------
\* send(value): co_await mutex_.lock(), then SendAwaiter::await_suspend
SendLock(s) ==
  /\ pc[s] = "out" /\ sends[s] < MaxSends
  /\ mutex!Lock(s)
  /\ sends' = [sends EXCEPT ![s] = @ + 1]
  /\ Goto(s, "send")
  /\ UNCHANGED <<chanVars, countVars, unlocking, result, historyVars>>

\* mutant: the receiver stays in the list
SendToReceiverKept(s) ==
  LET r == Head(waiting_receivers)
  IN  /\ pc[s] = "send" /\ HasLock(s)
      /\ waiting_receivers # <<>>
      /\ result' = [result EXCEPT ![r] = Value(s)]
      /\ pc' = [pc EXCEPT ![r] = "scheduled", ![s] = "out"]
      /\ accepted' = accepted \cup {Value(s)}
      /\ mutex!Release(s)
      /\ UNCHANGED <<chanVars, countVars, unlocking, sends, received, failed>>

\* A receiver waits: it is given the value and scheduled.
SendToReceiver(s) ==
  LET r == Head(waiting_receivers)
  IN  /\ pc[s] = "send" /\ HasLock(s)
      /\ waiting_receivers # <<>>
      /\ waiting_receivers' = Tail(waiting_receivers)
      /\ result' = [result EXCEPT ![r] = Value(s)]
      /\ pc' = [pc EXCEPT ![r] = "scheduled", ![s] = "out"]
      /\ accepted' = accepted \cup {Value(s)}
      /\ mutex!Release(s)
      /\ UNCHANGED <<buf, waiting_senders, is_closed, countVars, unlocking, sends, received, failed>>

\* There is room in the buffer.
SendToBuffer(s) ==
  /\ pc[s] = "send" /\ HasLock(s)
  /\ waiting_receivers = <<>> /\ Len(buf) < cap
  /\ buf' = Append(buf, Value(s))
  /\ accepted' = accepted \cup {Value(s)}
  /\ mutex!Release(s)
  /\ Goto(s, "out")
  /\ UNCHANGED <<waiting_senders, waiting_receivers, is_closed, countVars, unlocking, sends, result,
                 received, failed>>

\* There is none: is_closed_ is read, and the sender fails or decides to wait.
SendWhenFull(s) ==
  /\ pc[s] = "send" /\ HasLock(s)
  /\ waiting_receivers = <<>> /\ Len(buf) = cap
  /\ IF is_closed
     THEN mutex!Release(s) /\ Goto(s, "out") /\ failed' = failed \cup {s}
     ELSE Goto(s, "push") /\ UNCHANGED <<lockVars, failed>>
  /\ UNCHANGED <<chanVars, countVars, unlocking, sends, result, accepted, received>>

-----------------------------------------------------------------------------
\* recv(): co_await mutex_.lock(), then RecvAwaiter::await_suspend
RecvLock(r) ==
  /\ pc[r] = "out"
  /\ mutex!Lock(r)
  /\ result' = [result EXCEPT ![r] = Closed]
  /\ Goto(r, "recv")
  /\ UNCHANGED <<chanVars, countVars, unlocking, sends, historyVars>>

Receive(r, v) == received' = [received EXCEPT ![r] = Append(@, v)]

\* A sender waits: its value is taken before those of the buffer.
RecvFromSender(r) ==
  LET s == Head(waiting_senders)
  IN  /\ pc[r] = "recv" /\ HasLock(r)
      /\ waiting_senders # <<>>
      /\ waiting_senders' = Tail(waiting_senders)
      /\ pc' = [pc EXCEPT ![s] = "scheduled", ![r] = "out"]
      /\ accepted' = accepted \cup {Value(s)}
      /\ Receive(r, Value(s))
      /\ mutex!Release(r)
      /\ UNCHANGED <<buf, waiting_receivers, is_closed, countVars, unlocking, sends, result, failed>>

\* mutant: the buffer comes first
RecvBufferFirst(r) ==
  /\ pc[r] = "recv" /\ HasLock(r)
  /\ buf # <<>>
  /\ buf' = Tail(buf)
  /\ Receive(r, Head(buf))
  /\ mutex!Release(r)
  /\ Goto(r, "out")
  /\ UNCHANGED <<waiting_senders, waiting_receivers, is_closed, countVars, unlocking, sends, result,
                 accepted, failed>>

\* No sender waits: the oldest value of the buffer is taken.
RecvFromBuffer(r) ==
  /\ pc[r] = "recv" /\ HasLock(r)
  /\ waiting_senders = <<>> /\ buf # <<>>
  /\ buf' = Tail(buf)
  /\ Receive(r, Head(buf))
  /\ mutex!Release(r)
  /\ Goto(r, "out")
  /\ UNCHANGED <<waiting_senders, waiting_receivers, is_closed, countVars, unlocking, sends, result,
                 accepted, failed>>

\* Nothing to take: is_closed_ is read, and the receiver fails or decides to wait.
RecvWhenEmpty(r) ==
  /\ pc[r] = "recv" /\ HasLock(r)
  /\ waiting_senders = <<>> /\ buf = <<>>
  /\ IF is_closed
     THEN mutex!Release(r) /\ Goto(r, "out") /\ failed' = failed \cup {r}
     ELSE Goto(r, "push") /\ UNCHANGED <<lockVars, failed>>
  /\ UNCHANGED <<chanVars, countVars, unlocking, sends, result, accepted, received>>

-----------------------------------------------------------------------------
\* The decision is carried out, whatever destroy() has done meanwhile...
PushBack(c) ==
  /\ pc[c] = "push"
  /\ IF c \in Senders
     THEN waiting_senders' = Append(waiting_senders, c) /\ UNCHANGED waiting_receivers
     ELSE waiting_receivers' = Append(waiting_receivers, c) /\ UNCHANGED waiting_senders
  /\ unlocking' = unlocking \cup {c}
  /\ Goto(c, "suspended")
  /\ UNCHANGED <<lockVars, buf, is_closed, countVars, sends, result, historyVars>>

\* ...and the lock_guard unlocks; destroy() may have scheduled c by now.
Unlock(c) ==
  /\ c \in unlocking
  /\ unlocking' = unlocking \ {c}
  /\ mutex!Release(c)
  /\ UNCHANGED <<chanVars, countVars, pc, sends, result, historyVars>>

\* await_resume: the awaiter was given a value, or its value was taken, or
\* result_ is still what it was made with.
Resume(c) ==
  /\ pc[c] = "scheduled"
  /\ IF (c \in Senders /\ Value(c) \notin accepted) \/ (c \in Receivers /\ result[c] = Closed)
     THEN failed' = failed \cup {c} /\ UNCHANGED received
     ELSE /\ UNCHANGED failed
          /\ IF c \in Receivers THEN Receive(c, result[c]) ELSE UNCHANGED received
  /\ Goto(c, "out")
  /\ UNCHANGED <<lockVars, chanVars, countVars, unlocking, sends, result, accepted>>

-----------------------------------------------------------------------------
SendLocked(s) == SendToReceiver(s) \/ SendToBuffer(s) \/ SendWhenFull(s)
RecvLocked(r) == RecvFromSender(r) \/ RecvFromBuffer(r) \/ RecvWhenEmpty(r)
Destroying(c) == Destroy(c) \/ DestroyWake(c) \/ DestroyClear(c)

Next ==
  \/ \E s \in Senders : SendLock(s) \/ SendLocked(s)
  \/ \E r \in Receivers : RecvLock(r) \/ RecvLocked(r)
  \/ \E c \in Coros : \/ PushBack(c) \/ Unlock(c) \/ Resume(c) \/ Close(c) \/ Destroying(c)
                      \/ \E d \in Coros : Copy(c, d)

Spec == Init /\ [][Next]_vars

\* Workers run what is scheduled and what they have begun; receivers go on
\* receiving, and the closers close.
FairSpec ==
  /\ Spec
  /\ \A s \in Senders : WF_vars(SendLocked(s))
  /\ \A r \in Receivers : WF_vars(RecvLock(r)) /\ WF_vars(RecvLocked(r))
  /\ \A c \in Coros : /\ WF_vars(PushBack(c)) /\ WF_vars(Unlock(c)) /\ WF_vars(Resume(c))
                      /\ WF_vars(Destroying(c)) /\ SF_vars(Close(c))

-----------------------------------------------------------------------------
\* The variables keep their types, and the buffer its capacity.
TypeOK ==
  /\ owner \in Coros \cup {Nobody} /\ queue \in Seq(Coros)
  /\ cap \in Caps
  /\ buf \in Seq(Values) /\ Len(buf) <= cap
  /\ waiting_senders \in Seq(Senders) /\ waiting_receivers \in Seq(Receivers)
  /\ is_closed \in BOOLEAN
  /\ num_senders \in 0..Cardinality(Senders) /\ num_receivers \in 0..Cardinality(Receivers)
  /\ pc \in [Coros -> {"no_handle", "out", "send", "recv", "push", "suspended", "scheduled",
                       "destroy", "wake", "clear", "closed"}]
  /\ unlocking \subseteq Coros
  /\ sends \in [Senders -> 0..MaxSends]
  /\ result \in [Receivers -> Values \cup {Closed}]
  /\ accepted \subseteq Values /\ failed \subseteq Coros
  /\ \A r \in Receivers : received[r] \in Seq(Values)

Count(seq, v) == Cardinality({i \in DOMAIN seq : seq[i] = v})

\* The places a value is in: the buffer, what recv has returned, and what a
\* receiver that is scheduled will return.
Places(v) ==
  Count(buf, v)
    + Cardinality({p \in Receivers \X (1..Cardinality(Values)) :
                      p[2] \in DOMAIN received[p[1]] /\ received[p[1]][p[2]] = v})
    + Cardinality({r \in Receivers : pc[r] = "scheduled" /\ result[r] = v})

\* A value whose send succeeded is in one place, any other in none: nothing is
\* lost or delivered twice, whoever closes when (channel.hpp:24-42, 67-84).
ValuesConserved == \A v \in Values : Places(v) = IF v \in accepted THEN 1 ELSE 0

\* Nobody waits for what is there: senders wait only when the buffer is full,
\* receivers only when it is empty, and never both.
WaitersHaveReason ==
  /\ waiting_senders # <<>> => Len(buf) = cap /\ waiting_receivers = <<>>
  /\ waiting_receivers # <<>> => buf = <<>>

\* ClosedChannel is the truth: a receiver that is told so has no sender left
\* and nothing to take, a sender has no receiver left.
FailsOnlyWhenAlone ==
  /\ \A r \in failed \cap Receivers : num_senders = 0 /\ buf = <<>> /\ waiting_senders = <<>>
  /\ \A s \in failed \cap Senders : num_receivers = 0

\* A value whose send succeeded is in one place or was received once, and
\* ClosedChannel is said only to who has nobody left to talk to and nothing
\* left to take, whoever closes when (channel.hpp:24-42, 67-84).
ChannelTellsTheTruth == TypeOK /\ ValuesConserved /\ FailsOnlyWhenAlone

\* Every send returns as long as somebody receives.
EverySendReturns == \A s \in Senders : pc[s] \in {"send", "push", "suspended"} ~> pc[s] = "out"

\* Every recv returns once the senders have closed.
EveryRecvReturns == \A r \in Receivers : pc[r] \in {"recv", "push", "suspended"} ~> pc[r] = "out"
=============================================================================
