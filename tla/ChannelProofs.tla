--------------------------- MODULE ChannelProofs ---------------------------
(***************************************************************************)
(* A channel tells the truth, for every number of senders and receivers,   *)
(* every capacity and whoever closes when: who waits has a reason to, who  *)
(* is told that the channel is closed has nobody left to talk to, and every*)
(* value whose send succeeded is in one place.                             *)
(***************************************************************************)
EXTENDS Channel, FiniteSetTheorems, TLAPS

Labels == {"no_handle", "out", "send", "recv", "push", "suspended", "scheduled", "destroy", "wake",
           "clear", "closed"}

Types ==
  /\ cap \in Nat /\ buf \in Seq(Senders \X (0..MaxSends)) /\ Len(buf) <= cap
  /\ waiting_senders \in Seq(Senders) /\ waiting_receivers \in Seq(Receivers)
  /\ pc \in [Coros -> Labels] /\ sends \in [Senders -> 0..MaxSends]

\* A coroutine that has decided to wait still holds the mutex, and what it
\* has seen is still so: destroy(), which does not take the mutex, can only
\* make the lists empty.
PushKnows ==
  \A c \in Coros : pc[c] = "push" =>
    /\ HasLock(c)
    /\ c \in Senders => waiting_receivers = <<>> /\ Len(buf) = cap
    /\ c \in Receivers => waiting_senders = <<>> /\ buf = <<>>

IInv == Types /\ PushKnows /\ WaitersHaveReason

\* A new channel has nobody who waits.
LEMMA InitIInv == Init => IInv
  BY ChannelAssumption DEF Init, IInv, Types, PushKnows, HasLock, WaitersHaveReason, Coros, Labels

\* Append, Head and Tail, as the lists are used.
LEMMA Lists ==
  ASSUME NEW S, NEW s \in Seq(S), NEW e \in S
  PROVE  /\ Append(s, e) \in Seq(S) /\ Append(s, e) # <<>> /\ Len(Append(s, e)) = Len(s) + 1
         /\ s # <<>> => /\ Head(s) \in S /\ Tail(s) \in Seq(S)
                        /\ Len(Tail(s)) = Len(s) - 1 /\ Len(s) > 0
  BY SMTT(60)

\* The lists, the buffer and the decisions to wait are left alone by what
\* takes the mutex or counts handles.
LEMMA Elsewhere ==
  ASSUME IInv, UNCHANGED <<buf, waiting_senders, waiting_receivers, cap>>,
         sends' \in [Senders -> 0..MaxSends], pc' \in [Coros -> Labels],
         \A c \in Coros : pc'[c] = "push" => pc[c] = "push" /\ HasLock(c)'
  PROVE  IInv'
  BY Zenon DEF IInv, Types, PushKnows, HasLock, WaitersHaveReason, Coros, Labels

\* Every step keeps IInv.
LEMMA Step == ASSUME IInv, [Next]_vars PROVE IInv'
<1> USE ChannelAssumption DEF Coros, Labels
<1>0. Types /\ PushKnows /\ WaitersHaveReason
  BY Zenon DEF IInv
<1>1. ASSUME NEW c \in Coros, NEW l \in Labels, l # "push", Goto(c, l), UNCHANGED unlocking,
             \A d \in Coros : pc[d] = "push" => HasLock(d)'
      PROVE  /\ pc' \in [Coros -> Labels]
             /\ \A d \in Coros : pc'[d] = "push" => pc[d] = "push" /\ HasLock(d)'
  BY <1>0, <1>1, Zenon DEF Goto, Types
<1>2. ASSUME NEW c \in Coros, mutex!Lock(c), UNCHANGED unlocking, NEW d \in Coros, pc[d] = "push"
      PROVE  HasLock(d)'
  BY <1>0, <1>2, Zenon DEF PushKnows, HasLock, mutex!Lock, mutex!Acquire, mutex!Enqueue, Coros
<1>3. ASSUME NEW s \in Senders, SendLock(s) PROVE IInv'
  <2>1. s \in Coros
    BY Zenon DEF Coros
  <2>2. sends' \in [Senders -> 0..MaxSends]
    BY <1>0, <1>3 DEF SendLock, Types
  <2>3. QED
    BY <1>1, <1>2, <1>3, <2>1, <2>2, Elsewhere, Zenon DEF SendLock, chanVars, countVars, HasLock
<1>4. ASSUME NEW r \in Receivers, RecvLock(r) PROVE IInv'
  <2>1. r \in Coros
    BY Zenon DEF Coros
  <2>2. QED
    BY <1>0, <1>1, <1>2, <1>4, <2>1, Elsewhere, Zenon DEF RecvLock, chanVars, countVars, Types,
       HasLock
\* Whoever has the mutex is the only one who can have decided to wait.
<1>5. ASSUME NEW c \in Coros, HasLock(c), pc[c] # "push", NEW d \in Coros
      PROVE  pc[d] # "push"
  BY <1>0, <1>5, Zenon DEF PushKnows, HasLock
<1>6. ASSUME NEW s \in Senders, SendToReceiver(s) PROVE IInv'
  <2>1. s \in Coros /\ \A d \in Coros : pc[d] # "push"
    BY <1>5, <1>6, Zenon DEF SendToReceiver, Coros
  <2>2. /\ Tail(waiting_receivers) \in Seq(Receivers)
        /\ buf = <<>> /\ waiting_senders = <<>>
    BY <1>0, <1>6, Lists DEF SendToReceiver, Types, WaitersHaveReason
  <2>3. /\ pc' \in [Coros -> Labels]
        /\ \A d \in Coros : pc'[d] # "push"
    BY <1>0, <1>6, <2>1, Zenon DEF SendToReceiver, Types
  <2>4. QED
    BY <1>0, <1>6, <2>2, <2>3, Zenon DEF SendToReceiver, countVars, IInv, Types, PushKnows,
       HasLock, WaitersHaveReason
<1>7. ASSUME NEW s \in Senders, SendToBuffer(s) PROVE IInv'
  <2>1. s \in Coros /\ \A d \in Coros : pc[d] # "push"
    BY <1>5, <1>7, Zenon DEF SendToBuffer, Coros
  <2>2. /\ pc' \in [Coros -> Labels]
        /\ \A d \in Coros : pc'[d] # "push"
    BY <1>0, <1>7, <2>1, Zenon DEF SendToBuffer, Goto, Types
  <2>3. waiting_senders = <<>>
    BY <1>0, <1>7 DEF SendToBuffer, WaitersHaveReason, Types
  <2>4. buf' \in Seq(Senders \X (0..MaxSends)) /\ Len(buf') <= cap
    BY <1>0, <1>7 DEF SendToBuffer, Types, Value
  <2>5. QED
    BY <1>0, <1>7, <2>2, <2>3, <2>4, Zenon DEF SendToBuffer, countVars, IInv, Types, PushKnows,
       HasLock, WaitersHaveReason
<1>8. ASSUME NEW s \in Senders, SendWhenFull(s) PROVE IInv'
  <2>1. s \in Coros /\ s \notin Receivers /\ \A d \in Coros : pc[d] # "push"
    BY <1>5, <1>8, Zenon DEF SendWhenFull, Coros
  <2>2. /\ pc' \in [Coros -> Labels]
        /\ \A d \in Coros : pc'[d] = "push" => d = s /\ HasLock(s)'
    BY <1>0, <1>8, <2>1, Zenon DEF SendWhenFull, Goto, Types, HasLock, lockVars
  <2>3. QED
    BY <1>0, <1>8, <2>1, <2>2, Zenon DEF SendWhenFull, chanVars, countVars, IInv, Types,
       PushKnows, HasLock, WaitersHaveReason
<1>9. ASSUME NEW r \in Receivers, RecvFromSender(r) PROVE IInv'
  <2>1. r \in Coros /\ \A d \in Coros : pc[d] # "push"
    BY <1>5, <1>9, Zenon DEF RecvFromSender, Coros
  <2>2. /\ Tail(waiting_senders) \in Seq(Senders)
        /\ Len(buf) = cap /\ waiting_receivers = <<>>
    BY <1>0, <1>9, Lists DEF RecvFromSender, Types, WaitersHaveReason
  <2>3. /\ pc' \in [Coros -> Labels]
        /\ \A d \in Coros : pc'[d] # "push"
    BY <1>0, <1>9, <2>1, Zenon DEF RecvFromSender, Types
  <2>4. QED
    BY <1>0, <1>9, <2>2, <2>3, Zenon DEF RecvFromSender, countVars, IInv, Types, PushKnows,
       HasLock, WaitersHaveReason
<1>10. ASSUME NEW r \in Receivers, RecvFromBuffer(r) PROVE IInv'
  <2>1. r \in Coros /\ \A d \in Coros : pc[d] # "push"
    BY <1>5, <1>10, Zenon DEF RecvFromBuffer, Coros
  <2>2. /\ pc' \in [Coros -> Labels]
        /\ \A d \in Coros : pc'[d] # "push"
    BY <1>0, <1>10, <2>1, Zenon DEF RecvFromBuffer, Goto, Types
  <2>3. waiting_receivers = <<>> /\ buf' \in Seq(Senders \X (0..MaxSends)) /\ Len(buf') <= cap
    BY <1>0, <1>10 DEF RecvFromBuffer, WaitersHaveReason, Types
  <2>4. QED
    BY <1>0, <1>10, <2>2, <2>3, Zenon DEF RecvFromBuffer, countVars, IInv, Types, PushKnows,
       HasLock, WaitersHaveReason
<1>11. ASSUME NEW r \in Receivers, RecvWhenEmpty(r) PROVE IInv'
  <2>1. r \in Coros /\ r \notin Senders /\ \A d \in Coros : pc[d] # "push"
    BY <1>5, <1>11, Zenon DEF RecvWhenEmpty, Coros
  <2>2. /\ pc' \in [Coros -> Labels]
        /\ \A d \in Coros : pc'[d] = "push" => d = r /\ HasLock(r)'
    BY <1>0, <1>11, <2>1, Zenon DEF RecvWhenEmpty, Goto, Types, HasLock, lockVars
  <2>3. QED
    BY <1>0, <1>11, <2>1, <2>2, Zenon DEF RecvWhenEmpty, chanVars, countVars, IInv, Types,
       PushKnows, HasLock, WaitersHaveReason
<1>12. ASSUME NEW c \in Coros, PushBack(c) PROVE IInv'
  <2>1. \A d \in Coros : d # c => pc[d] # "push"
    BY <1>0, <1>12, Zenon DEF PushBack, PushKnows, HasLock
  <2>2. /\ pc' \in [Coros -> Labels]
        /\ \A d \in Coros : pc'[d] # "push"
    BY <1>0, <1>12, <2>1, Zenon DEF PushBack, Goto, Types
  <2>3. CASE c \in Senders
    <3>1. /\ waiting_receivers = <<>> /\ Len(buf) = cap
          /\ Append(waiting_senders, c) \in Seq(Senders)
      BY <1>0, <1>12, <2>3, Lists, Zenon DEF PushBack, PushKnows, Types
    <3>2. QED
      BY <1>0, <1>12, <2>2, <2>3, <3>1, Zenon DEF PushBack, countVars, IInv, Types, PushKnows,
         HasLock, WaitersHaveReason
  <2>4. CASE c \in Receivers
    <3>1. /\ waiting_senders = <<>> /\ buf = <<>> /\ c \notin Senders
          /\ Append(waiting_receivers, c) \in Seq(Receivers)
      BY <1>0, <1>12, <2>4, Lists, Zenon DEF PushBack, PushKnows, Types
    <3>2. QED
      BY <1>0, <1>12, <2>2, <3>1, Zenon DEF PushBack, countVars, IInv, Types, PushKnows, HasLock,
         WaitersHaveReason
  <2>5. QED
    BY <2>3, <2>4, Zenon DEF Coros
<1>13. ASSUME NEW c \in Coros, Unlock(c) PROVE IInv'
  <2>1. \A d \in Coros : pc[d] # "push"
    BY <1>0, <1>13, Zenon DEF Unlock, mutex!Release, PushKnows, HasLock
  <2>2. QED
    BY <1>0, <1>13, <2>1, Elsewhere, Zenon DEF Unlock, chanVars, countVars, Types
<1>14. ASSUME NEW c \in Coros, Resume(c) PROVE IInv'
  BY <1>0, <1>1, <1>14, Elsewhere, Zenon DEF Resume, lockVars, chanVars, countVars, Types,
     PushKnows, HasLock
<1>15. ASSUME NEW c \in Coros, Close(c) PROVE IInv'
  BY <1>0, <1>1, <1>15, Elsewhere, Zenon DEF Close, lockVars, chanVars, Types, PushKnows, HasLock
\* destroy() moves nobody to the lists, whoever holds the mutex.
<1>16. ASSUME NEW c \in Coros, Destroying(c) PROVE IInv'
  <2>1. CASE Destroy(c)
    BY <1>0, <1>1, <2>1, Elsewhere, Zenon DEF Destroy, lockVars, countVars, Types, PushKnows,
       HasLock
  <2>2. CASE DestroyWake(c)
    <3>1. /\ pc' \in [Coros -> Labels]
          /\ \A d \in Coros : pc'[d] = "push" => pc[d] = "push"
      BY <1>0, <2>2, Zenon DEF DestroyWake, Types
    <3>2. QED
      BY <1>0, <2>2, <3>1, Elsewhere, Zenon DEF DestroyWake, lockVars, chanVars, countVars, Types,
         PushKnows, HasLock
  <2>3. CASE DestroyClear(c)
    <3>1. /\ pc' \in [Coros -> Labels]
          /\ \A d \in Coros : pc'[d] = "push" => pc[d] = "push"
      BY <1>0, <2>3, Zenon DEF DestroyClear, Goto, Types
    <3>2. QED
      BY <1>0, <2>3, <3>1 DEF DestroyClear, lockVars, countVars, IInv, Types, PushKnows, HasLock,
         WaitersHaveReason
  <2>4. QED
    BY <1>16, <2>1, <2>2, <2>3, Zenon DEF Destroying
<1>17. ASSUME NEW c \in Coros, NEW d \in Coros, Copy(c, d) PROVE IInv'
  BY <1>0, <1>1, <1>17, Elsewhere, Zenon DEF Copy, lockVars, chanVars, Types, PushKnows, HasLock
<1>18. CASE UNCHANGED vars
  BY <1>0, <1>18, Elsewhere, Zenon DEF vars, Types, PushKnows, HasLock, lockVars, chanVars,
     countVars
<1>19. QED
  BY <1>3, <1>4, <1>6, <1>7, <1>8, <1>9, <1>10, <1>11, <1>12, <1>13, <1>14, <1>15, <1>16, <1>17,
     <1>18, Zenon DEF Next, SendLocked, RecvLocked

\* A sender waits only beside a full buffer and no waiting receiver, and a
\* receiver only beside an empty one, although destroy() empties the lists
\* without the mutex (channel.hpp:24-42, 67-84, 138).
THEOREM WaitingIsJustified == Spec => []WaitersHaveReason
<1>1. IInv => WaitersHaveReason
  BY Zenon DEF IInv
<1>2. QED
  BY InitIInv, Step, <1>1, PTL DEF Spec

-----------------------------------------------------------------------------
\* The types of what IInv does not mention.
Kinds ==
  /\ owner \in Coros \cup {Nobody} /\ queue \in Seq(Coros) /\ cap \in Caps
  /\ buf \in Seq(Values) /\ is_closed \in BOOLEAN /\ unlocking \subseteq Coros
  /\ result \in [Receivers -> Values \cup {Closed}]
  /\ accepted \subseteq Values /\ failed \subseteq Coros
  /\ received \in [Receivers -> Seq(Values)]

\* The coroutines of S that have a handle, of which the two counters keep count.
Live == {"out", "send", "recv", "push", "suspended", "scheduled"}
Living(S) == {c \in S : pc[c] \in Live}
Gone(S) == \A c \in S : pc[c] \notin Live
Counting ==
  num_senders = Cardinality(Living(Senders)) /\ num_receivers = Cardinality(Living(Receivers))

\* destroy() runs when one side is gone, and past its first line only once.
InDestroy(c) == pc[c] \in {"wake", "clear"}
Destroyed ==
  /\ is_closed => Gone(Senders) \/ Gone(Receivers)
  /\ \A c \in Coros : pc[c] \in {"destroy", "wake", "clear"} => Gone(Senders) \/ Gone(Receivers)
  /\ \A c \in Coros : InDestroy(c) => is_closed
  /\ \A c, d \in Coros : InDestroy(c) /\ InDestroy(d) => c = d

\* Who is in a list is suspended, once.  Only between the two loops of destroy()
\* are there others, and then nobody is left to look for them.
Clearing == \E c \in Coros : pc[c] = "clear"
Once(list) ==
  /\ \A i \in 1..Len(list) : pc[list[i]] = "suspended"
  /\ \A i, j \in 1..Len(list) : list[i] = list[j] => i = j
Listed ==
  /\ Once(waiting_senders) \/ (Clearing /\ Gone(Receivers))
  /\ Once(waiting_receivers) \/ (Clearing /\ Gone(Senders))

\* A value is not accepted before its send is over, and no result was given to
\* a receiver that is not scheduled.
Sending ==
  /\ \A s \in Senders : pc[s] \in {"send", "push", "suspended"} =>
       sends[s] >= 1 /\ Value(s) \notin accepted
  /\ \A v \in accepted : v[2] <= sends[v[1]]
Receiving == \A r \in Receivers : pc[r] \in {"recv", "push", "suspended"} => result[r] = Closed

\* Who was told Closed, or will be, has nobody left to talk to.
Told ==
  /\ \A r \in Receivers : r \in failed \/ (pc[r] = "scheduled" /\ result[r] = Closed)
       => Gone(Senders) /\ buf = <<>> /\ waiting_senders = <<>>
  /\ \A s \in Senders : s \in failed \/ (pc[s] = "scheduled" /\ Value(s) \notin accepted)
       => Gone(Receivers)

RInv == IInv /\ Kinds /\ Counting /\ Destroyed /\ Listed /\ Sending /\ Receiving /\ Told

-----------------------------------------------------------------------------
\* Tail, element by element.
Tailed(s, t) ==
  /\ Len(s) \in Nat /\ Len(s) >= 1 /\ Len(t) = Len(s) - 1
  /\ \A i \in 1..Len(t) : t[i] = s[i + 1] /\ i + 1 \in 1..Len(s) /\ i + 1 # 1

\* Tail drops the first.
LEMMA TailIs ==
  ASSUME NEW S, NEW s \in Seq(S), s # <<>>
  PROVE  Tailed(s, Tail(s)) /\ Head(s) \in S /\ Head(s) = s[1] /\ 1 \in 1..Len(s)
         /\ Tail(s) \in Seq(S)
  BY DEF Tailed

\* Append, element by element.
Appended(s, t, e) ==
  /\ Len(s) \in Nat /\ Len(t) = Len(s) + 1 /\ t[Len(t)] = e
  /\ \A i \in 1..Len(t) : i = Len(t) \/ (i \in 1..Len(s) /\ t[i] = s[i])
  /\ \A i \in 1..Len(s) : i \in 1..Len(t) /\ t[i] = s[i] /\ i # Len(t)

\* Append adds one at the end.
LEMMA AppendIs ==
  ASSUME NEW S, NEW s \in Seq(S), NEW e \in S
  PROVE  Appended(s, Append(s, e), e) /\ Append(s, e) \in Seq(S)
  BY DEF Appended

\* The mutex keeps its types.
LEMMA LockTypes ==
  ASSUME owner \in Coros \cup {Nobody}, queue \in Seq(Coros), NEW c \in Coros,
         mutex!Lock(c) \/ mutex!Release(c) \/ UNCHANGED lockVars
  PROVE  owner' \in Coros \cup {Nobody} /\ queue' \in Seq(Coros)
<1>1. CASE mutex!Lock(c)
  BY <1>1, AppendIs, Zenon DEF mutex!Lock, mutex!Acquire, mutex!Enqueue
<1>2. CASE mutex!Release(c)
  <2>1. queue # <<>> => Head(queue) \in Coros /\ Tail(queue) \in Seq(Coros)
    BY TailIs, Zenon
  <2> QED
    BY <1>2, <2>1, Zenon DEF mutex!Release
<1>3. CASE UNCHANGED lockVars
  BY <1>3, Zenon DEF lockVars
<1> QED
  BY <1>1, <1>2, <1>3, Zenon

\* Who holds the mutex or waits in a list is alive.
LEMMA Alive ==
  ASSUME NEW c \in Coros, pc[c] \in Live
  PROVE  /\ c \in Senders => ~Gone(Senders)
         /\ c \in Receivers => ~Gone(Receivers)
  BY Zenon DEF Gone

\* A step that neither makes nor closes a handle leaves the sides as they are.
LEMMA SameSides ==
  ASSUME Counting, \A c \in Coros : pc'[c] \in Live <=> pc[c] \in Live,
         num_senders' = num_senders, num_receivers' = num_receivers
  PROVE  Counting' /\ (Gone(Senders)' <=> Gone(Senders)) /\ (Gone(Receivers)' <=> Gone(Receivers))
<1>1. Senders \subseteq Coros /\ Receivers \subseteq Coros
  BY Zenon DEF Coros
<1>2. Living(Senders)' = Living(Senders) /\ Living(Receivers)' = Living(Receivers)
  BY <1>1 DEF Living
<1> QED
  BY <1>1, <1>2, Zenon DEF Counting, Gone

-----------------------------------------------------------------------------
\* What a step has to leave alone for each part of the invariant.
SidesStay ==
  /\ Gone(Senders) => Gone(Senders)'
  /\ Gone(Receivers) => Gone(Receivers)'
DestroyersStay ==
  /\ is_closed' = is_closed
  /\ \A c \in Coros : /\ pc'[c] = "destroy" => pc[c] = "destroy"
                      /\ pc'[c] \in {"wake", "clear"} => pc[c] \in {"wake", "clear"}
ListsStay ==
  /\ waiting_senders' = waiting_senders /\ waiting_receivers' = waiting_receivers
  /\ \A c \in Coros : /\ pc[c] = "suspended" => pc'[c] = "suspended"
                      /\ pc[c] = "clear" => pc'[c] = "clear"
SendersStay ==
  /\ accepted' = accepted /\ sends' = sends
  /\ \A s \in Senders : pc'[s] \in {"send", "push", "suspended"}
                          => pc[s] \in {"send", "push", "suspended"}
ReceiversStay ==
  \A r \in Receivers : pc'[r] \in {"recv", "push", "suspended"} =>
    pc[r] \in {"recv", "push", "suspended"} /\ result'[r] = result[r]
TellsR(r) == r \in failed \/ (pc[r] = "scheduled" /\ result[r] = Closed)
TellsS(s) == s \in failed \/ (pc[s] = "scheduled" /\ Value(s) \notin accepted)
NothingLeft == Gone(Senders) /\ buf = <<>> /\ waiting_senders = <<>>
ToldStay ==
  /\ \A r \in Receivers : TellsR(r)' => TellsR(r) \/ NothingLeft
  /\ \A s \in Senders : TellsS(s)' => TellsS(s) \/ Gone(Receivers)
  /\ NothingLeft => NothingLeft'

\* Then the part is kept.
LEMMA DestroyedStays == Destroyed /\ SidesStay /\ DestroyersStay => Destroyed'
<1> SUFFICES ASSUME Destroyed, SidesStay, DestroyersStay PROVE Destroyed'
  BY Zenon
<1>1. is_closed => Gone(Senders)' \/ Gone(Receivers)'
  BY Zenon DEF Destroyed, SidesStay
<1>2. \A c \in Coros : pc'[c] \in {"destroy", "wake", "clear"}
                         => pc[c] \in {"destroy", "wake", "clear"}
  BY Zenon DEF DestroyersStay
<1>3. \A c \in Coros : pc'[c] \in {"destroy", "wake", "clear"} => Gone(Senders)' \/ Gone(Receivers)'
  BY <1>2, Zenon DEF Destroyed, SidesStay
<1>4. \A c \in Coros : InDestroy(c)' => InDestroy(c)
  BY Zenon DEF DestroyersStay, InDestroy
<1>5. is_closed' = is_closed
  BY Zenon DEF DestroyersStay
<1> QED
  BY <1>1, <1>3, <1>4, <1>5, Zenon DEF Destroyed

\* The same for the lists...
LEMMA ListedStays == Types /\ Listed /\ SidesStay /\ ListsStay => Listed'
<1> SUFFICES ASSUME Types, Listed, SidesStay, ListsStay PROVE Listed'
  BY Zenon
<1>1. Clearing => Clearing'
  BY Zenon DEF Clearing, ListsStay
<1>2. /\ \A i \in 1..Len(waiting_senders) : waiting_senders[i] \in Coros
      /\ \A i \in 1..Len(waiting_receivers) : waiting_receivers[i] \in Coros
  BY DEF Types, Coros
<1>3. Once(waiting_senders) => Once(waiting_senders)'
  BY <1>2, Zenon DEF Once, ListsStay
<1>4. Once(waiting_receivers) => Once(waiting_receivers)'
  BY <1>2, Zenon DEF Once, ListsStay
<1> QED
  BY <1>1, <1>3, <1>4, Zenon DEF Listed, SidesStay

\* ...the values being sent...
LEMMA SendingStays == Sending /\ SendersStay => Sending'
  BY Zenon DEF Sending, SendersStay, Value

\* ...the results...
LEMMA ReceivingStays == Receiving /\ ReceiversStay => Receiving'
  BY Zenon DEF Receiving, ReceiversStay

\* ...and what was told.
LEMMA ToldStays == Told /\ SidesStay /\ ToldStay => Told'
<1> SUFFICES ASSUME Told, SidesStay, ToldStay PROVE Told'
  BY Zenon
<1>1. \A r \in Receivers : TellsR(r)' => NothingLeft'
  BY Zenon DEF Told, ToldStay, TellsR, NothingLeft
<1>2. \A s \in Senders : TellsS(s)' => Gone(Receivers)'
  BY Zenon DEF Told, ToldStay, TellsS, SidesStay
<1> QED
  BY <1>1, <1>2, Zenon DEF Told, TellsR, TellsS, NothingLeft

\* What RInv says at once.
Known ==
  /\ IInv /\ Types /\ PushKnows /\ WaitersHaveReason
  /\ Kinds /\ Counting /\ Destroyed /\ Listed /\ Sending /\ Receiving /\ Told
  /\ pc \in [Coros -> Labels] /\ Senders \subseteq Coros /\ Receivers \subseteq Coros
  /\ Senders \cap Receivers = {}

\* It does.
LEMMA KnownIs == RInv => Known
  BY ChannelAssumption, Zenon DEF RInv, Known, IInv, Types, Coros

\* The parts of RInv that IInv does not have.
Rest == Kinds /\ Counting /\ Destroyed /\ Listed /\ Sending /\ Receiving /\ Told

\* One coroutine moves.
LEMMA Moves ==
  ASSUME Known, NEW c \in Coros, NEW l, Goto(c, l)
  PROVE  pc'[c] = l /\ \A d \in Coros : d # c => pc'[d] = pc[d]
  BY Zenon DEF Known, Goto

\* A coroutine that stays alive moves: the sides stay.
LEMMA SidesAre ==
  ASSUME Known, NEW c \in Coros, pc[c] \in Live, pc'[c] \in Live,
         \A d \in Coros : d # c => pc'[d] = pc[d],
         num_senders' = num_senders, num_receivers' = num_receivers
  PROVE  Counting' /\ SidesStay
<1>1. \A d \in Coros : pc'[d] \in Live <=> pc[d] \in Live
  BY Zenon
<1> QED
  BY <1>1, SameSides, Zenon DEF Known, SidesStay

-----------------------------------------------------------------------------
\* send() and recv() wait for the mutex.
LEMMA SendLockKeeps == ASSUME Known, NEW s \in Senders, SendLock(s) PROVE Rest'
<1> USE DEF SendLock, chanVars, countVars, historyVars
<1>1. s \in Coros /\ pc[s] = "out" /\ s \notin Receivers /\ sends \in [Senders -> 0..MaxSends]
  BY Zenon DEF Known, Types
<1>2. pc'[s] = "send" /\ \A d \in Coros : d # s => pc'[d] = pc[d]
  BY <1>1, Moves, Zenon
<1>3. Counting' /\ SidesStay
  BY <1>1, <1>2, SidesAre, Zenon DEF Live
<1>4. Kinds'
  <2>1. owner' \in Coros \cup {Nobody} /\ queue' \in Seq(Coros)
    BY <1>1, LockTypes, Zenon DEF Known, Kinds
  <2> QED
    BY <2>1, Zenon DEF Known, Kinds
<1>5. Destroyed'
  BY <1>2, <1>3, DestroyedStays, Zenon DEF Known, DestroyersStay
<1>6. Listed'
  BY <1>1, <1>2, <1>3, ListedStays, Zenon DEF Known, ListsStay
<1>7. Sending'
  <2>1. /\ sends'[s] = sends[s] + 1 /\ sends[s] \in Nat
        /\ \A d \in Senders : d # s => sends'[d] = sends[d]
    BY <1>1
  <2>2. /\ \A v \in accepted : v[2] <= sends[v[1]]
        /\ \A v \in accepted : v[1] \in Senders /\ v[2] \in Nat
    BY ChannelAssumption DEF Known, Sending, Kinds, Values
  <2>3. \A v \in accepted : v[2] <= sends'[v[1]] /\ (v[1] = s => v[2] # sends'[s])
    BY <2>1, <2>2
  <2>4. Value(s)' \notin accepted /\ sends'[s] >= 1
    BY <2>1, <2>3 DEF Value
  <2>5. \A d \in Senders : d # s => (pc'[d] = pc[d] /\ Value(d)' = Value(d) /\ sends'[d] = sends[d])
    BY <1>2, <2>1, Zenon DEF Value, Known
  <2> QED
    BY <2>3, <2>4, <2>5, Zenon DEF Known, Sending
<1>8. Receiving'
  BY <1>1, <1>2, ReceivingStays, Zenon DEF Known, ReceiversStay
<1>9. Told'
  <2>1. \A r \in Receivers : TellsR(r)' => TellsR(r)
    BY <1>1, <1>2, Zenon DEF TellsR, Known
  <2>2. \A d \in Senders : TellsS(d)' => TellsS(d)
    <3>1. \A d \in Senders : d # s => sends'[d] = sends[d]
      BY <1>1, Zenon
    <3>2. ASSUME NEW d \in Senders, d # s PROVE TellsS(d)' => TellsS(d)
      <4>1. pc'[d] = pc[d] /\ Value(d)' = Value(d)
        BY <1>2, <3>1, <3>2, Zenon DEF Known, Value
      <4> QED
        BY <4>1, Zenon DEF TellsS
    <3>3. TellsS(s)' => TellsS(s)
      BY <1>2, Zenon DEF TellsS
    <3> QED
      BY <3>2, <3>3, Zenon
  <2> QED
    BY <1>3, <2>1, <2>2, ToldStays, Zenon DEF Known, ToldStay, NothingLeft, SidesStay
<1> QED
  BY <1>3, <1>4, <1>5, <1>6, <1>7, <1>8, <1>9, Zenon DEF Rest

\* recv() clears its result first.
LEMMA RecvLockKeeps == ASSUME Known, NEW r \in Receivers, RecvLock(r) PROVE Rest'
<1> USE DEF RecvLock, chanVars, countVars, historyVars
<1>1. r \in Coros /\ pc[r] = "out" /\ r \notin Senders
  BY Zenon DEF Known
<1>2. pc'[r] = "recv" /\ \A d \in Coros : d # r => pc'[d] = pc[d]
  BY <1>1, Moves, Zenon
<1>3. Counting' /\ SidesStay
  BY <1>1, <1>2, SidesAre, Zenon DEF Live
<1>0. result'[r] = Closed /\ \A d \in Receivers : d # r => result'[d] = result[d]
  BY Zenon DEF Known, Kinds
<1>4. Kinds'
  <2>1. owner' \in Coros \cup {Nobody} /\ queue' \in Seq(Coros)
    BY <1>1, LockTypes, Zenon DEF Known, Kinds
  <2>2. result' \in [Receivers -> Values \cup {Closed}]
    BY Zenon DEF Known, Kinds
  <2> QED
    BY <2>1, <2>2, Zenon DEF Known, Kinds
<1>5. Destroyed'
  BY <1>2, <1>3, DestroyedStays, Zenon DEF Known, DestroyersStay
<1>6. Listed'
  BY <1>1, <1>2, <1>3, ListedStays, Zenon DEF Known, ListsStay
<1>7. Sending'
  BY <1>1, <1>2, SendingStays, Zenon DEF Known, SendersStay
<1>8. Receiving'
  BY <1>0, <1>2, Zenon DEF Known, Receiving
<1>9. Told'
  <2>1. \A d \in Receivers : TellsR(d)' => TellsR(d)
    BY <1>0, <1>2, Zenon DEF TellsR, Known
  <2>2. \A d \in Senders : TellsS(d)' => TellsS(d)
    BY <1>1, <1>2, Zenon DEF TellsS, Known, Value
  <2> QED
    BY <1>3, <2>1, <2>2, ToldStays, Zenon DEF Known, ToldStay, NothingLeft, SidesStay
<1> QED
  BY <1>3, <1>4, <1>5, <1>6, <1>7, <1>8, <1>9, Zenon DEF Rest

\* A decision at a full or an empty buffer: a failure is the truth.
LEMMA SendWhenFullKeeps == ASSUME Known, NEW s \in Senders, SendWhenFull(s) PROVE Rest'
<1> USE DEF SendWhenFull, chanVars, countVars, lockVars
<1>1. s \in Coros /\ pc[s] = "send" /\ s \notin Receivers
  BY Zenon DEF Known
<1>2. /\ pc'[s] \in {"out", "push"} /\ \A d \in Coros : d # s => pc'[d] = pc[d]
  BY <1>1, Moves, Zenon
<1>3. Counting' /\ SidesStay
  BY <1>1, <1>2, SidesAre, Zenon DEF Live
<1>4. Kinds'
  <2>1. owner' \in Coros \cup {Nobody} /\ queue' \in Seq(Coros)
    BY <1>1, LockTypes, Zenon DEF Known, Kinds
  <2>2. failed' \subseteq Coros
    BY <1>1, Zenon DEF Known, Kinds
  <2> QED
    BY <2>1, <2>2, Zenon DEF Known, Kinds
<1>5. Destroyed'
  BY <1>2, <1>3, DestroyedStays, Zenon DEF Known, DestroyersStay
<1>6. Listed'
  BY <1>1, <1>2, <1>3, ListedStays, Zenon DEF Known, ListsStay
<1>7. Sending'
  BY <1>1, <1>2, SendingStays, Zenon DEF Known, SendersStay
<1>8. Receiving'
  BY <1>1, <1>2, ReceivingStays, Zenon DEF Known, ReceiversStay
<1>9. Told'
  <2>1. \A d \in Receivers : TellsR(d)' => TellsR(d)
    BY <1>1, <1>2, Zenon DEF TellsR, Known
  <2>2. is_closed => Gone(Receivers)
    BY <1>1, Alive, Zenon DEF Known, Destroyed, Live
  <2>3. s \in failed' => s \in failed \/ Gone(Receivers)
    BY <2>2, Zenon
  <2>4. \A d \in Senders : d \in failed' => d \in failed \/ Gone(Receivers)
    BY <2>3, Zenon
  <2>5. \A d \in Senders : TellsS(d)' => TellsS(d) \/ Gone(Receivers)
    BY <1>2, <2>4, Zenon DEF TellsS, Known, Value
  <2> QED
    BY <1>3, <2>1, <2>5, ToldStays, Zenon DEF Known, ToldStay, NothingLeft, SidesStay
<1> QED
  BY <1>3, <1>4, <1>5, <1>6, <1>7, <1>8, <1>9, Zenon DEF Rest

\* The same for a receiver.
LEMMA RecvWhenEmptyKeeps == ASSUME Known, NEW r \in Receivers, RecvWhenEmpty(r) PROVE Rest'
<1> USE DEF RecvWhenEmpty, chanVars, countVars, lockVars
<1>1. r \in Coros /\ pc[r] = "recv" /\ r \notin Senders
  BY Zenon DEF Known
<1>2. /\ pc'[r] \in {"out", "push"} /\ \A d \in Coros : d # r => pc'[d] = pc[d]
  BY <1>1, Moves, Zenon
<1>3. Counting' /\ SidesStay
  BY <1>1, <1>2, SidesAre, Zenon DEF Live
<1>4. Kinds'
  <2>1. owner' \in Coros \cup {Nobody} /\ queue' \in Seq(Coros)
    BY <1>1, LockTypes, Zenon DEF Known, Kinds
  <2>2. failed' \subseteq Coros
    BY <1>1, Zenon DEF Known, Kinds
  <2> QED
    BY <2>1, <2>2, Zenon DEF Known, Kinds
<1>5. Destroyed'
  BY <1>2, <1>3, DestroyedStays, Zenon DEF Known, DestroyersStay
<1>6. Listed'
  BY <1>1, <1>2, <1>3, ListedStays, Zenon DEF Known, ListsStay
<1>7. Sending'
  BY <1>1, <1>2, SendingStays, Zenon DEF Known, SendersStay
<1>8. Receiving'
  BY <1>1, <1>2, ReceivingStays, Zenon DEF Known, ReceiversStay
<1>9. Told'
  <2>1. is_closed => NothingLeft
    BY <1>1, Alive, Zenon DEF Known, Destroyed, Live, NothingLeft
  <2>2. \A d \in Receivers : d \in failed' => d \in failed \/ NothingLeft
    BY <2>1, Zenon
  <2>3. \A d \in Receivers : TellsR(d)' => TellsR(d) \/ NothingLeft
    BY <1>2, <2>2, Zenon DEF TellsR, Known
  <2>4. \A d \in Senders : d \in failed' => d \in failed
    BY <1>1, Zenon
  <2>5. \A d \in Senders : TellsS(d)' => TellsS(d)
    BY <1>1, <1>2, <2>4, Zenon DEF TellsS, Known, Value
  <2> QED
    BY <1>3, <2>3, <2>5, ToldStays, Zenon DEF Known, ToldStay, NothingLeft, SidesStay
<1> QED
  BY <1>3, <1>4, <1>5, <1>6, <1>7, <1>8, <1>9, Zenon DEF Rest

\* The value that a sender sends is a new one.
LEMMA NewValue ==
  ASSUME Known, NEW s \in Senders, pc[s] \in {"send", "push", "suspended"}
  PROVE  /\ Value(s) \in Values /\ Value(s) # Closed /\ Value(s) \notin accepted
         /\ Value(s)[1] = s /\ Value(s)[2] = sends[s] /\ sends[s] \in Nat
<1>1. sends[s] \in 0..MaxSends /\ sends[s] >= 1 /\ Value(s) \notin accepted
  BY Zenon DEF Known, Types, Sending
<1>2. Value(s) \in Values
  BY <1>1, ChannelAssumption DEF Value, Values
<1> QED
  BY <1>1, <1>2, ChannelAssumption DEF Value

\* Sends that stay as they are, and one that is over.
LEMMA SentOne ==
  ASSUME Known, NEW s \in Senders, pc[s] \in {"send", "push", "suspended"},
         accepted' = accepted \cup {Value(s)}, sends' = sends,
         pc'[s] \notin {"send", "push", "suspended"},
         \A d \in Senders : pc'[d] \in {"send", "push", "suspended"}
                              => pc[d] \in {"send", "push", "suspended"}
  PROVE  Sending'
<1>1. Value(s)[2] <= sends[Value(s)[1]]
  BY NewValue
<1>2. \A d \in Senders : d # s => Value(d) # Value(s)
  BY DEF Value
<1>3. \A v \in accepted' : v[2] <= sends'[v[1]]
  BY <1>1, Zenon DEF Known, Sending
<1>4. \A d \in Senders : pc'[d] \in {"send", "push", "suspended"} =>
        sends[d] >= 1 /\ Value(d) \notin accepted'
  BY <1>2, Zenon DEF Known, Sending
<1> QED
  BY <1>3, <1>4, Zenon DEF Sending, Value

\* There is room: the value goes to the buffer.
LEMMA SendToBufferKeeps == ASSUME Known, NEW s \in Senders, SendToBuffer(s) PROVE Rest'
<1> USE DEF SendToBuffer, countVars
<1>1. s \in Coros /\ pc[s] = "send" /\ s \notin Receivers
  BY Zenon DEF Known
<1>2. pc'[s] = "out" /\ \A d \in Coros : d # s => pc'[d] = pc[d]
  BY <1>1, Moves, Zenon
<1>3. Counting' /\ SidesStay
  BY <1>1, <1>2, SidesAre, Zenon DEF Live
<1>4. Kinds'
  <2>1. owner' \in Coros \cup {Nobody} /\ queue' \in Seq(Coros)
    BY <1>1, LockTypes, Zenon DEF Known, Kinds
  <2>2. buf' \in Seq(Values) /\ accepted' \subseteq Values
    BY <1>1, NewValue, AppendIs, Zenon DEF Known, Kinds
  <2> QED
    BY <2>1, <2>2, Zenon DEF Known, Kinds
<1>5. Destroyed'
  BY <1>2, <1>3, DestroyedStays, Zenon DEF Known, DestroyersStay
<1>6. Listed'
  BY <1>1, <1>2, <1>3, ListedStays, Zenon DEF Known, ListsStay
<1>7. Sending'
  <2>1. \A d \in Senders : pc'[d] \in {"send", "push", "suspended"}
                             => pc[d] \in {"send", "push", "suspended"}
    BY <1>2, Zenon DEF Known
  <2> QED
    BY <1>1, <1>2, <2>1, SentOne, Zenon
<1>8. Receiving'
  BY <1>1, <1>2, ReceivingStays, Zenon DEF Known, ReceiversStay
<1>9. Told'
  <2>1. \A d \in Receivers : TellsR(d)' => TellsR(d)
    BY <1>1, <1>2, Zenon DEF TellsR, Known
  <2>2. \A d \in Senders : TellsS(d)' => TellsS(d)
    BY <1>2, Zenon DEF TellsS, Known, Value
  <2>3. ~NothingLeft
    BY <1>1, Alive, Zenon DEF NothingLeft, Live
  <2> QED
    BY <1>3, <2>1, <2>2, <2>3, ToldStays, Zenon DEF Known, ToldStay
<1> QED
  BY <1>3, <1>4, <1>5, <1>6, <1>7, <1>8, <1>9, Zenon DEF Rest

\* The oldest value of the buffer is received.
LEMMA RecvFromBufferKeeps == ASSUME Known, NEW r \in Receivers, RecvFromBuffer(r) PROVE Rest'
<1> USE DEF RecvFromBuffer, countVars
<1>1. r \in Coros /\ pc[r] = "recv" /\ r \notin Senders
  BY Zenon DEF Known
<1>2. pc'[r] = "out" /\ \A d \in Coros : d # r => pc'[d] = pc[d]
  BY <1>1, Moves, Zenon
<1>3. Counting' /\ SidesStay
  BY <1>1, <1>2, SidesAre, Zenon DEF Live
<1>4. Kinds'
  <2>1. owner' \in Coros \cup {Nobody} /\ queue' \in Seq(Coros)
    BY <1>1, LockTypes, Zenon DEF Known, Kinds
  <2>2. buf' \in Seq(Values) /\ Head(buf) \in Values
    BY TailIs, Zenon DEF Known, Kinds
  <2>3. Append(received[r], Head(buf)) \in Seq(Values)
    BY <2>2, AppendIs, Zenon DEF Known, Kinds
  <2>4. received' \in [Receivers -> Seq(Values)]
    BY <2>3, Zenon DEF Known, Kinds, Receive
  <2> QED
    BY <2>1, <2>2, <2>4, Zenon DEF Known, Kinds
<1>5. Destroyed'
  BY <1>2, <1>3, DestroyedStays, Zenon DEF Known, DestroyersStay
<1>6. Listed'
  BY <1>1, <1>2, <1>3, ListedStays, Zenon DEF Known, ListsStay
<1>7. Sending'
  BY <1>1, <1>2, SendingStays, Zenon DEF Known, SendersStay
<1>8. Receiving'
  BY <1>1, <1>2, ReceivingStays, Zenon DEF Known, ReceiversStay
<1>9. Told'
  <2>1. \A d \in Receivers : TellsR(d)' => TellsR(d)
    BY <1>2, Zenon DEF TellsR, Known
  <2>2. \A d \in Senders : TellsS(d)' => TellsS(d)
    BY <1>1, <1>2, Zenon DEF TellsS, Known, Value
  <2>3. ~NothingLeft
    BY Zenon DEF NothingLeft
  <2> QED
    BY <1>3, <2>1, <2>2, <2>3, ToldStays, Zenon DEF Known, ToldStay
<1> QED
  BY <1>3, <1>4, <1>5, <1>6, <1>7, <1>8, <1>9, Zenon DEF Rest

\* The lock_guard unlocks.
LEMMA UnlockKeeps == ASSUME Known, NEW c \in Coros, Unlock(c) PROVE Rest'
<1> USE DEF Unlock, chanVars, countVars, historyVars
<1>1. owner' \in Coros \cup {Nobody} /\ queue' \in Seq(Coros)
  BY LockTypes, Zenon DEF Known, Kinds
<1>2. unlocking' \subseteq Coros
  BY Zenon DEF Known, Kinds
<1>3. Kinds'
  BY <1>1, <1>2, Zenon DEF Known, Kinds
<1> QED
  BY <1>3, Zenon DEF Rest, Known, Counting, Living, Destroyed, Gone, InDestroy, Listed, Once,
     Clearing, Sending, Value, Receiving, Told

\* A scheduled coroutine goes on.
LEMMA ResumeKeeps == ASSUME Known, NEW c \in Coros, Resume(c) PROVE Rest'
<1> USE DEF Resume, chanVars, countVars, lockVars
<1>1. pc[c] = "scheduled"
  BY Zenon
<1>2. pc'[c] = "out" /\ \A d \in Coros : d # c => pc'[d] = pc[d]
  BY <1>1, Moves, Zenon
<1>3. Counting' /\ SidesStay
  BY <1>1, <1>2, SidesAre, Zenon DEF Live
<1>4. Kinds'
  <2>1. failed' \subseteq Coros
    BY Zenon DEF Known, Kinds
  <2>2. received' \in [Receivers -> Seq(Values)]
    <3>1. CASE UNCHANGED received
      BY <3>1, Zenon DEF Known, Kinds
    <3>2. CASE c \in Receivers /\ result[c] # Closed /\ Receive(c, result[c])
      <4>1. result[c] \in Values /\ received[c] \in Seq(Values)
        BY <3>2, Zenon DEF Known, Kinds
      <4>2. Append(received[c], result[c]) \in Seq(Values)
        BY <4>1, AppendIs, Zenon
      <4> QED
        BY <3>2, <4>2, Zenon DEF Known, Kinds, Receive
    <3> QED
      BY <3>1, <3>2, Zenon
  <2> QED
    BY <2>1, <2>2, Zenon DEF Known, Kinds
<1>5. Destroyed'
  BY <1>2, <1>3, DestroyedStays, Zenon DEF Known, DestroyersStay
<1>6. Listed'
  BY <1>1, <1>2, <1>3, ListedStays, Zenon DEF Known, ListsStay
<1>7. Sending'
  BY <1>1, <1>2, SendingStays, Zenon DEF Known, SendersStay
<1>8. Receiving'
  BY <1>1, <1>2, ReceivingStays, Zenon DEF Known, ReceiversStay
<1>9. Told'
  <2>1. c \in failed' => \/ c \in failed \/ (c \in Senders /\ TellsS(c))
                         \/ (c \in Receivers /\ TellsR(c))
    BY <1>1, Zenon DEF TellsS, TellsR
  <2>2. \A d \in Coros : d # c => (d \in failed' => d \in failed)
    BY Zenon
  <2>3. \A d \in Receivers : TellsR(d)' => TellsR(d)
    BY <1>2, <2>1, <2>2, Zenon DEF TellsR, Known
  <2>4. \A d \in Senders : TellsS(d)' => TellsS(d)
    BY <1>2, <2>1, <2>2, Zenon DEF TellsS, Known, Value
  <2> QED
    BY <1>3, <2>3, <2>4, ToldStays, Zenon DEF Known, ToldStay, NothingLeft, SidesStay
<1> QED
  BY <1>3, <1>4, <1>5, <1>6, <1>7, <1>8, <1>9, Zenon DEF Rest

\* The empty list is in order.
LEMMA OnceEmpty == Once(<<>>) /\ Once(<<>>)'
  BY DEF Once

\* A suspended coroutine joins a list.
LEMMA OnceMore ==
  ASSUME NEW S, NEW list \in Seq(S), NEW c \in S, NEW new, new = Append(list, c),
         Once(list), pc[c] # "suspended", pc'[c] = "suspended",
         \A d \in S : d # c => pc'[d] = pc[d]
  PROVE  Once(new)'
<1>1. Appended(list, new, c) /\ \A i \in 1..Len(list) : list[i] \in S
  BY AppendIs
<1>2. \A i \in 1..Len(list) : list[i] # c
  BY Zenon DEF Once
<1>a. \A i \in 1..Len(new) : \/ i = Len(new) /\ new[i] = c
                             \/ i \in 1..Len(list) /\ new[i] = list[i]
  BY <1>1, Zenon DEF Appended
<1>b. \A i \in 1..Len(list) : pc'[list[i]] = "suspended"
  BY <1>1, <1>2, Zenon DEF Once
<1>c. \A i, j \in 1..Len(list) : list[i] = list[j] => i = j
  BY Zenon DEF Once
<1>3. ASSUME NEW i \in 1..Len(new) PROVE pc'[new[i]] = "suspended"
  <2>1. CASE new[i] = c
    BY <2>1, Zenon
  <2>2. CASE i \in 1..Len(list) /\ new[i] = list[i]
    BY <1>b, <2>2, Zenon
  <2> QED
    BY <1>a, <2>1, <2>2, Zenon
<1>4. ASSUME NEW i \in 1..Len(new), NEW j \in 1..Len(new), new[i] = new[j] PROVE i = j
  <2>1. CASE i = Len(new) /\ new[i] = c
    BY <1>2, <1>4, <1>a, <2>1, Zenon
  <2>2. CASE i \in 1..Len(list) /\ new[i] = list[i]
    BY <1>2, <1>4, <1>a, <1>c, <2>2, Zenon
  <2> QED
    BY <1>a, <2>1, <2>2, Zenon
<1> QED
  BY <1>3, <1>4, Zenon DEF Once

\* The first of a list leaves it.
LEMMA OnceLess ==
  ASSUME NEW S, NEW list \in Seq(S), list # <<>>, NEW new, new = Tail(list),
         Once(list), \A d \in S : d # Head(list) => (pc[d] = "suspended" => pc'[d] = "suspended")
  PROVE  Once(new)'
<1>1. /\ Tailed(list, new) /\ Head(list) = list[1] /\ 1 \in 1..Len(list)
      /\ \A i \in 1..Len(list) : list[i] \in S
  BY TailIs
<1>2. \A i \in 1..Len(new) : i + 1 \in 1..Len(list) /\ new[i] = list[i + 1] /\ i + 1 # 1
  BY <1>1, Zenon DEF Tailed
<1>3. \A i \in 1..Len(new) : new[i] # Head(list)
  BY <1>1, <1>2, Zenon DEF Once
<1>4. ASSUME NEW i \in 1..Len(new) PROVE pc'[new[i]] = "suspended"
  <2>1. i + 1 \in 1..Len(list) /\ new[i] = list[i + 1] /\ new[i] # Head(list)
    BY <1>2, <1>3, Zenon
  <2>2. pc[list[i + 1]] = "suspended" /\ list[i + 1] \in S
    BY <1>1, <2>1, Zenon DEF Once
  <2> QED
    BY <2>1, <2>2, Zenon
<1>5. \A i, j \in 1..Len(new) : new[i] = new[j] => i = j
  <2> SUFFICES ASSUME NEW i \in 1..Len(new), NEW j \in 1..Len(new), new[i] = new[j] PROVE i = j
    BY Zenon
  <2>a. i + 1 \in 1..Len(list) /\ j + 1 \in 1..Len(list) /\ list[i + 1] = list[j + 1]
    BY <1>2, Zenon
  <2>1. i + 1 = j + 1
    BY <2>a, Zenon DEF Once
  <2>2. Len(new) \in Int
    BY <1>1 DEF Tailed
  <2> QED
    BY <2>1, <2>2
<1> QED
  BY <1>4, <1>5, Zenon DEF Once

\* Whoever clears the lists goes on doing so.
LEMMA StillClearing ==
  ASSUME Clearing, \A d \in Coros : pc[d] = "clear" => pc'[d] = "clear"
  PROVE  Clearing'
  BY Zenon DEF Clearing

\* A coroutine that decided to wait joins its list.
LEMMA PushBackKeeps == ASSUME Known, NEW c \in Coros, PushBack(c) PROVE Rest'
<1> USE DEF PushBack, countVars, lockVars, historyVars
<1>1. pc[c] = "push"
  BY Zenon
<1>2. pc'[c] = "suspended" /\ \A d \in Coros : d # c => pc'[d] = pc[d]
  BY <1>1, Moves, Zenon
<1>3. Counting' /\ SidesStay
  BY <1>1, <1>2, SidesAre, Zenon DEF Live
<1>4. Kinds'
  <2>1. unlocking' \subseteq Coros
    BY Zenon DEF Known, Kinds
  <2> QED
    BY <2>1, Zenon DEF Known, Kinds
<1>5. Destroyed'
  BY <1>2, <1>3, DestroyedStays, Zenon DEF Known, DestroyersStay
<1>6. Listed'
  <2>1. Clearing => Clearing'
    BY <1>1, <1>2, StillClearing, Zenon
  <2>2. waiting_senders \in Seq(Senders) /\ waiting_receivers \in Seq(Receivers)
    BY Zenon DEF Known, Types
  <2>3. \A i \in 1..Len(waiting_senders) : waiting_senders[i] \in Coros
    BY <2>2 DEF Coros
  <2>4. \A i \in 1..Len(waiting_receivers) : waiting_receivers[i] \in Coros
    BY <2>2 DEF Coros
  <2>5. CASE c \in Senders
    <3>1. waiting_senders' = Append(waiting_senders, c) /\ waiting_receivers' = waiting_receivers
      BY <2>5, Zenon
    <3>2. \A d \in Senders : d # c => pc'[d] = pc[d]
      BY <1>2, Zenon DEF Known
    <3>3. Once(waiting_senders) => Once(waiting_senders)'
      BY <1>1, <1>2, <2>2, <2>5, <3>1, <3>2, OnceMore, Zenon
    <3>4. Once(waiting_receivers) => Once(waiting_receivers)'
      BY <1>1, <1>2, <2>4, <3>1, Zenon DEF Once
    <3> QED
      BY <1>3, <2>1, <3>3, <3>4, Zenon DEF Known, Listed, SidesStay
  <2>6. CASE c \in Receivers /\ c \notin Senders
    <3>1. waiting_receivers' = Append(waiting_receivers, c) /\ waiting_senders' = waiting_senders
      BY <2>6, Zenon
    <3>2. \A d \in Receivers : d # c => pc'[d] = pc[d]
      BY <1>2, Zenon DEF Known
    <3>3. Once(waiting_receivers) => Once(waiting_receivers)'
      BY <1>1, <1>2, <2>2, <2>6, <3>1, <3>2, OnceMore, Zenon
    <3>4. Once(waiting_senders) => Once(waiting_senders)'
      BY <1>1, <1>2, <2>3, <3>1, Zenon DEF Once
    <3> QED
      BY <1>3, <2>1, <3>3, <3>4, Zenon DEF Known, Listed, SidesStay
  <2> QED
    BY <2>5, <2>6, Zenon DEF Coros
<1>7. Sending'
  BY <1>1, <1>2, SendingStays, Zenon DEF Known, SendersStay
<1>8. Receiving'
  BY <1>1, <1>2, ReceivingStays, Zenon DEF Known, ReceiversStay
<1>9. Told'
  <2>1. \A d \in Receivers : TellsR(d)' => TellsR(d)
    BY <1>2, Zenon DEF TellsR, Known
  <2>2. \A d \in Senders : TellsS(d)' => TellsS(d)
    BY <1>2, Zenon DEF TellsS, Known, Value
  <2>3. c \in Senders => ~NothingLeft
    BY <1>1, Alive, Zenon DEF NothingLeft, Live
  <2>4. NothingLeft => NothingLeft'
    BY <1>3, <2>3, Zenon DEF NothingLeft, SidesStay
  <2> QED
    BY <1>3, <2>1, <2>2, <2>4, ToldStays, Zenon DEF Known, ToldStay
<1> QED
  BY <1>3, <1>4, <1>5, <1>6, <1>7, <1>8, <1>9, Zenon DEF Rest

\* A waiting receiver is given the value.
LEMMA SendToReceiverKeeps == ASSUME Known, NEW s \in Senders, SendToReceiver(s) PROVE Rest'
<1> DEFINE r == Head(waiting_receivers)
<1> USE DEF SendToReceiver, countVars
<1>0. waiting_receivers \in Seq(Receivers) /\ waiting_receivers # <<>>
  BY Zenon DEF Known, Types
<1>1. s \in Coros /\ pc[s] = "send" /\ s \notin Receivers
  BY Zenon DEF Known
<1>a. r \in Receivers /\ r = waiting_receivers[1] /\ 1 \in 1..Len(waiting_receivers)
  BY <1>0, TailIs, Zenon
<1>b. ~Gone(Senders)
  BY <1>1, Alive, Zenon DEF Live
<1>c. Once(waiting_receivers)
  BY <1>b, Zenon DEF Known, Listed
<1>d. pc[r] = "suspended" /\ r \in Coros /\ r # s
  BY <1>1, <1>a, <1>c, Zenon DEF Once, Known
<1>e. pc' = [pc EXCEPT ![r] = "scheduled", ![s] = "out"]
  BY Zenon
<1>f. result' = [result EXCEPT ![r] = Value(s)]
  BY Zenon
<1>g. /\ waiting_receivers' = Tail(waiting_receivers) /\ waiting_senders' = waiting_senders
      /\ is_closed' = is_closed
  BY Zenon
<1>i. accepted' = accepted \cup {Value(s)} /\ sends' = sends /\ failed' = failed /\ buf' = buf
  BY Zenon
<1> HIDE DEF r
<1>2. /\ pc'[s] = "out" /\ pc'[r] = "scheduled"
      /\ \A d \in Coros : d # s /\ d # r => pc'[d] = pc[d]
  BY <1>1, <1>d, <1>e, Zenon DEF Known
<1>3. Counting' /\ SidesStay
  <2>1. \A d \in Coros : pc'[d] \in Live <=> pc[d] \in Live
    BY <1>1, <1>2, <1>d, Zenon DEF Live
  <2> QED
    BY <2>1, SameSides, Zenon DEF Known, SidesStay
<1>h. /\ Value(s) \in Values /\ Value(s) # Closed
  BY <1>1, NewValue, Zenon
<1>j. result'[r] = Value(s) /\ \A d \in Receivers : d # r => result'[d] = result[d]
  BY <1>a, <1>f, Zenon DEF Known, Kinds
<1>4. Kinds'
  <2>1. owner' \in Coros \cup {Nobody} /\ queue' \in Seq(Coros)
    BY <1>1, LockTypes, Zenon DEF Known, Kinds
  <2>2. accepted' \subseteq Values
    BY <1>h, <1>i, Zenon DEF Known, Kinds
  <2>3. result' \in [Receivers -> Values \cup {Closed}]
    BY <1>a, <1>f, <1>h, Zenon DEF Known, Kinds
  <2> QED
    BY <2>1, <2>2, <2>3, Zenon DEF Known, Kinds
<1>5. Destroyed'
  BY <1>2, <1>3, <1>g, DestroyedStays, Zenon DEF Known, DestroyersStay
<1>6. Listed'
  <2>1. waiting_senders = <<>>
    BY <1>0, Zenon DEF Known, WaitersHaveReason
  <2>2. \A d \in Receivers : d # r => (pc[d] = "suspended" => pc'[d] = "suspended")
    BY <1>1, <1>2, Zenon DEF Known
  <2>3. Once(waiting_receivers)'
    BY <1>0, <1>c, <1>g, <2>2, OnceLess, Zenon DEF r
  <2>4. Once(waiting_senders)'
    <3>1. \A i : i \notin 1..Len(waiting_senders')
      BY <1>g, <2>1
    <3> QED
      BY <3>1, Zenon DEF Once
  <2> QED
    BY <2>3, <2>4, Zenon DEF Listed
<1>7. Sending'
  <2>1. \A d \in Senders : pc'[d] \in {"send", "push", "suspended"}
                             => pc[d] \in {"send", "push", "suspended"}
    BY <1>2, Zenon DEF Known
  <2> QED
    BY <1>1, <1>2, <1>i, <2>1, SentOne, Zenon
<1>8. Receiving'
  BY <1>1, <1>2, <1>j, ReceivingStays, Zenon DEF Known, ReceiversStay
<1>9. Told'
  <2>1. \A d \in Receivers : TellsR(d)' => TellsR(d)
    BY <1>1, <1>2, <1>h, <1>i, <1>j, Zenon DEF TellsR, Known
  <2>2. \A d \in Senders : d # r
    BY <1>a, Zenon DEF Known
  <2>3. \A d \in Senders : TellsS(d)' => TellsS(d)
    BY <1>2, <1>i, <2>2, Zenon DEF TellsS, Known, Value
  <2>4. ~NothingLeft
    BY <1>b, Zenon DEF NothingLeft
  <2> QED
    BY <1>3, <2>1, <2>3, <2>4, ToldStays, Zenon DEF Known, ToldStay
<1> QED
  BY <1>3, <1>4, <1>5, <1>6, <1>7, <1>8, <1>9, Zenon DEF Rest

\* The empty list has no element.
LEMMA NoneIn == ASSUME NEW list, list = <<>> PROVE \A i : i \notin 1..Len(list)
  OBVIOUS

\* A waiting sender's value is received.
LEMMA RecvFromSenderKeeps == ASSUME Known, NEW r \in Receivers, RecvFromSender(r) PROVE Rest'
<1> DEFINE s == Head(waiting_senders)
<1> USE DEF RecvFromSender, countVars
<1>0. waiting_senders \in Seq(Senders) /\ waiting_senders # <<>>
  BY Zenon DEF Known, Types
<1>1. r \in Coros /\ pc[r] = "recv" /\ r \notin Senders
  BY Zenon DEF Known
<1>a. s \in Senders /\ s = waiting_senders[1] /\ 1 \in 1..Len(waiting_senders)
  BY <1>0, TailIs, Zenon
<1>b. ~Gone(Receivers)
  BY <1>1, Alive, Zenon DEF Live
<1>c. Once(waiting_senders)
  BY <1>b, Zenon DEF Known, Listed
<1>d. pc[s] = "suspended" /\ s \in Coros /\ r # s
  BY <1>1, <1>a, <1>c, Zenon DEF Once, Known
<1>e. pc' = [pc EXCEPT ![s] = "scheduled", ![r] = "out"]
  BY Zenon
<1>f. received' = [received EXCEPT ![r] = Append(@, Value(s))]
  BY Zenon DEF Receive
<1>g. /\ waiting_senders' = Tail(waiting_senders) /\ waiting_receivers' = waiting_receivers
      /\ is_closed' = is_closed
  BY Zenon
<1>i. /\ accepted' = accepted \cup {Value(s)} /\ sends' = sends /\ failed' = failed
      /\ buf' = buf /\ result' = result
  BY Zenon
<1> HIDE DEF s
<1>2. /\ pc'[r] = "out" /\ pc'[s] = "scheduled"
      /\ \A d \in Coros : d # s /\ d # r => pc'[d] = pc[d]
  BY <1>1, <1>d, <1>e, Zenon DEF Known
<1>3. Counting' /\ SidesStay
  <2>1. \A d \in Coros : pc'[d] \in Live <=> pc[d] \in Live
    BY <1>1, <1>2, <1>d, Zenon DEF Live
  <2> QED
    BY <2>1, SameSides, Zenon DEF Known, SidesStay
<1>h. Value(s) \in Values
  BY <1>a, <1>d, NewValue, Zenon
<1>4. Kinds'
  <2>1. owner' \in Coros \cup {Nobody} /\ queue' \in Seq(Coros)
    BY <1>1, LockTypes, Zenon DEF Known, Kinds
  <2>2. accepted' \subseteq Values
    BY <1>h, <1>i, Zenon DEF Known, Kinds
  <2>3. Append(received[r], Value(s)) \in Seq(Values)
    BY <1>h, AppendIs, Zenon DEF Known, Kinds
  <2>4. received' \in [Receivers -> Seq(Values)]
    BY <1>f, <2>3, Zenon DEF Known, Kinds
  <2> QED
    BY <2>1, <2>2, <2>4, Zenon DEF Known, Kinds
<1>5. Destroyed'
  BY <1>2, <1>3, <1>g, DestroyedStays, Zenon DEF Known, DestroyersStay
<1>6. Listed'
  <2>1. waiting_receivers = <<>>
    BY <1>0, Zenon DEF Known, WaitersHaveReason
  <2>2. \A d \in Senders : d # s => (pc[d] = "suspended" => pc'[d] = "suspended")
    BY <1>1, <1>2, Zenon DEF Known
  <2>3. Once(waiting_senders)'
    BY <1>0, <1>c, <1>g, <2>2, OnceLess, Zenon DEF s
  <2>4. Once(waiting_receivers)'
    <3>1. \A i : i \notin 1..Len(waiting_receivers')
      BY <1>g, <2>1, NoneIn, Zenon
    <3> QED
      BY <3>1, Zenon DEF Once
  <2> QED
    BY <2>3, <2>4, Zenon DEF Listed
<1>7. Sending'
  <2>1. \A d \in Senders : pc'[d] \in {"send", "push", "suspended"}
                             => pc[d] \in {"send", "push", "suspended"}
    BY <1>1, <1>2, Zenon DEF Known
  <2> QED
    BY <1>2, <1>a, <1>d, <1>i, <2>1, SentOne, Zenon
<1>8. Receiving'
  BY <1>1, <1>2, <1>i, <1>d, <1>a, ReceivingStays, Zenon DEF Known, ReceiversStay
<1>9. Told'
  <2>0. \A d \in Receivers : d # s
    BY <1>a, Zenon DEF Known
  <2>1. \A d \in Receivers : TellsR(d)' => TellsR(d)
    BY <1>1, <1>2, <1>i, <2>0, Zenon DEF TellsR, Known
  <2>2. <<s, sends'[s]>> \in accepted'
    BY <1>i, Zenon DEF Value
  <2>3. ASSUME NEW d \in Senders, TellsS(d)' PROVE TellsS(d)
    <3>1. CASE d = s
      <4>1. <<d, sends'[d]>> \in accepted'
        BY <2>2, <3>1, Zenon
      <4> QED
        BY <1>i, <2>3, <4>1, Zenon DEF TellsS, Value
    <3>2. CASE d # s
      BY <1>1, <1>2, <1>i, <2>3, <3>2, Zenon DEF TellsS, Known, Value
    <3> QED
      BY <3>1, <3>2, Zenon
  <2>4. ~NothingLeft
    BY <1>0, Zenon DEF NothingLeft
  <2> QED
    BY <1>3, <2>1, <2>3, <2>4, ToldStays, Zenon DEF Known, ToldStay
<1> QED
  BY <1>3, <1>4, <1>5, <1>6, <1>7, <1>8, <1>9, Zenon DEF Rest

\* The copy of a handle is one more, on a side that is not gone.
LEMMA OneMore ==
  ASSUME NEW S, IsFiniteSet(S), NEW d \in S, pc[d] \notin Live, pc'[d] \in Live,
         \A e \in S : e # d => pc'[e] = pc[e]
  PROVE  Cardinality(Living(S))' = Cardinality(Living(S)) + 1
<1>1. Living(S)' = Living(S) \cup {d} /\ d \notin Living(S)
  BY Zenon DEF Living
<1>2. IsFiniteSet(Living(S))
  BY FS_Subset, Zenon DEF Living
<1> QED
  BY <1>1, <1>2, FS_AddElement, Zenon

\* A handle that is closed is one less, and when it was the last its side is gone.
LEMMA OneLess ==
  ASSUME NEW S, IsFiniteSet(S), NEW d \in S, pc[d] \in Live, pc'[d] \notin Live,
         \A e \in S : e # d => pc'[e] = pc[e]
  PROVE  /\ Cardinality(Living(S))' = Cardinality(Living(S)) - 1
         /\ Cardinality(Living(S)) = 1 => Gone(S)'
<1>1. Living(S)' = Living(S) \ {d} /\ d \in Living(S)
  BY Zenon DEF Living
<1>2. IsFiniteSet(Living(S))
  BY FS_Subset, Zenon DEF Living
<1>3. Cardinality(Living(S))' = Cardinality(Living(S)) - 1
  BY <1>1, <1>2, FS_RemoveElement, Zenon
<1>4. ASSUME Cardinality(Living(S)) = 1 PROVE Gone(S)'
  <2>1. PICK x : Living(S) = {x}
    BY <1>2, <1>4, FS_Singleton, Zenon
  <2>2. Living(S)' = {}
    BY <1>1, <2>1, Zenon
  <2> QED
    BY <2>2, Zenon DEF Living, Gone
<1> QED
  BY <1>3, <1>4, Zenon

\* The sides are what they are as long as nobody on them moves.
LEMMA SideStays ==
  ASSUME NEW S, \A e \in S : pc'[e] = pc[e]
  PROVE  Living(S)' = Living(S) /\ (Gone(S)' <=> Gone(S))
<1>1. Living(S)' = Living(S)
  BY Zenon DEF Living
<1> QED
  BY <1>1, Zenon DEF Gone

\* A handle is copied.
LEMMA CopyKeeps == ASSUME Known, NEW c \in Coros, NEW d \in Coros, Copy(c, d) PROVE Rest'
<1> USE DEF Copy, lockVars, chanVars, historyVars
<1>1. pc[c] = "out" /\ pc[d] = "no_handle"
  BY Zenon
<1>2. pc'[d] = "out" /\ \A e \in Coros : e # d => pc'[e] = pc[e]
  BY <1>1, Moves, Zenon
<1>f. IsFiniteSet(Senders) /\ IsFiniteSet(Receivers)
  BY ChannelAssumption, Zenon
<1>l. pc[d] \notin Live /\ pc'[d] \in Live /\ pc[c] \in Live
  BY <1>1, <1>2, Zenon DEF Live
<1>3. Counting' /\ SidesStay
  <2>1. CASE {c, d} \subseteq Senders /\ num_senders' = num_senders + 1 /\ UNCHANGED num_receivers
    <3>1. \A e \in Senders : e # d => pc'[e] = pc[e]
      BY <1>2, Zenon DEF Known
    <3>2. \A e \in Receivers : pc'[e] = pc[e]
      BY <1>2, <2>1, Zenon DEF Known
    <3>3. Cardinality(Living(Senders))' = Cardinality(Living(Senders)) + 1
      BY <1>f, <1>l, <2>1, <3>1, OneMore, Zenon
    <3>4. Living(Receivers)' = Living(Receivers) /\ (Gone(Receivers)' <=> Gone(Receivers))
      BY <3>2, SideStays, Zenon
    <3>5. ~Gone(Senders)
      BY <1>l, <2>1, Zenon DEF Gone
    <3> QED
      BY <2>1, <3>3, <3>4, <3>5, Zenon DEF Known, Counting, SidesStay
  <2>2. CASE {c, d} \subseteq Receivers /\ num_receivers' = num_receivers + 1
             /\ UNCHANGED num_senders
    <3>1. \A e \in Receivers : e # d => pc'[e] = pc[e]
      BY <1>2, Zenon DEF Known
    <3>2. \A e \in Senders : pc'[e] = pc[e]
      BY <1>2, <2>2, Zenon DEF Known
    <3>3. Cardinality(Living(Receivers))' = Cardinality(Living(Receivers)) + 1
      BY <1>f, <1>l, <2>2, <3>1, OneMore, Zenon
    <3>4. Living(Senders)' = Living(Senders) /\ (Gone(Senders)' <=> Gone(Senders))
      BY <3>2, SideStays, Zenon
    <3>5. ~Gone(Receivers)
      BY <1>l, <2>2, Zenon DEF Gone
    <3> QED
      BY <2>2, <3>3, <3>4, <3>5, Zenon DEF Known, Counting, SidesStay
  <2> QED
    BY <2>1, <2>2, Zenon
<1>4. Kinds'
  BY Zenon DEF Known, Kinds
<1>5. Destroyed'
  BY <1>2, <1>3, DestroyedStays, Zenon DEF Known, DestroyersStay
<1>6. Listed'
  BY <1>1, <1>2, <1>3, ListedStays, Zenon DEF Known, ListsStay
<1>7. Sending'
  BY <1>1, <1>2, SendingStays, Zenon DEF Known, SendersStay
<1>8. Receiving'
  BY <1>1, <1>2, ReceivingStays, Zenon DEF Known, ReceiversStay
<1>9. Told'
  <2>1. \A e \in Receivers : TellsR(e)' => TellsR(e)
    BY <1>2, Zenon DEF TellsR, Known
  <2>2. \A e \in Senders : TellsS(e)' => TellsS(e)
    BY <1>2, Zenon DEF TellsS, Known, Value
  <2> QED
    BY <1>3, <2>1, <2>2, ToldStays, Zenon DEF Known, ToldStay, NothingLeft, SidesStay
<1> QED
  BY <1>3, <1>4, <1>5, <1>6, <1>7, <1>8, <1>9, Zenon DEF Rest

\* A handle is closed; whoever closes the last of its side goes to destroy().
LEMMA CloseKeeps == ASSUME Known, NEW c \in Coros, Close(c) PROVE Rest'
<1> USE DEF Close, lockVars, chanVars, historyVars
<1>1. pc[c] = "out"
  BY Zenon
<1>2. pc'[c] \in {"destroy", "closed"} /\ \A e \in Coros : e # c => pc'[e] = pc[e]
  BY <1>1, Moves, Zenon
<1>a. pc'[c] = "destroy" => \/ c \in Senders /\ num_senders = 1
                            \/ c \in Receivers /\ num_receivers = 1
  BY Zenon DEF Goto, Known
<1>f. IsFiniteSet(Senders) /\ IsFiniteSet(Receivers)
  BY ChannelAssumption, Zenon
<1>l. pc[c] \in Live /\ pc'[c] \notin Live
  BY <1>1, <1>2, Zenon DEF Live
<1>3. /\ Counting' /\ SidesStay
      /\ pc'[c] = "destroy" => Gone(Senders)' \/ Gone(Receivers)'
  <2>1. CASE c \in Senders
    <3>0. c \notin Receivers
      BY <2>1, Zenon DEF Known
    <3>1. \A e \in Senders : e # c => pc'[e] = pc[e]
      BY <1>2, Zenon DEF Known
    <3>2. \A e \in Receivers : pc'[e] = pc[e]
      BY <1>2, <3>0, Zenon DEF Known
    <3>3. /\ Cardinality(Living(Senders))' = Cardinality(Living(Senders)) - 1
          /\ Cardinality(Living(Senders)) = 1 => Gone(Senders)'
      BY <1>f, <1>l, <2>1, <3>1, OneLess, Zenon
    <3>4. Living(Receivers)' = Living(Receivers) /\ (Gone(Receivers)' <=> Gone(Receivers))
      BY <3>2, SideStays, Zenon
    <3>5. ~Gone(Senders)
      BY <1>l, <2>1, Zenon DEF Gone
    <3> QED
      BY <1>a, <2>1, <3>0, <3>3, <3>4, <3>5, Zenon DEF Known, Counting, SidesStay
  <2>2. CASE c \in Receivers
    <3>0. c \notin Senders
      BY <2>2, Zenon DEF Known
    <3>1. \A e \in Receivers : e # c => pc'[e] = pc[e]
      BY <1>2, Zenon DEF Known
    <3>2. \A e \in Senders : pc'[e] = pc[e]
      BY <1>2, <3>0, Zenon DEF Known
    <3>3. /\ Cardinality(Living(Receivers))' = Cardinality(Living(Receivers)) - 1
          /\ Cardinality(Living(Receivers)) = 1 => Gone(Receivers)'
      BY <1>f, <1>l, <2>2, <3>1, OneLess, Zenon
    <3>4. Living(Senders)' = Living(Senders) /\ (Gone(Senders)' <=> Gone(Senders))
      BY <3>2, SideStays, Zenon
    <3>5. ~Gone(Receivers)
      BY <1>l, <2>2, Zenon DEF Gone
    <3> QED
      BY <1>a, <2>2, <3>0, <3>3, <3>4, <3>5, Zenon DEF Known, Counting, SidesStay
  <2> QED
    BY <2>1, <2>2, Zenon DEF Coros
<1>4. Kinds'
  BY Zenon DEF Known, Kinds
<1>5. Destroyed'
  <2>1. is_closed' => Gone(Senders)' \/ Gone(Receivers)'
    BY <1>3, Zenon DEF Known, Destroyed, SidesStay
  <2>2. ASSUME NEW e \in Coros, pc'[e] \in {"destroy", "wake", "clear"}
        PROVE  Gone(Senders)' \/ Gone(Receivers)'
    <3>1. CASE e = c
      BY <1>2, <1>3, <2>2, <3>1, Zenon
    <3>2. CASE e # c
      BY <1>2, <1>3, <2>2, <3>2, Zenon DEF Known, Destroyed, SidesStay
    <3> QED
      BY <3>1, <3>2, Zenon
  <2>3. \A e \in Coros : InDestroy(e)' => InDestroy(e)
    BY <1>2, Zenon DEF InDestroy
  <2> QED
    BY <2>1, <2>2, <2>3, Zenon DEF Known, Destroyed
<1>6. Listed'
  BY <1>1, <1>2, <1>3, ListedStays, Zenon DEF Known, ListsStay
<1>7. Sending'
  BY <1>1, <1>2, SendingStays, Zenon DEF Known, SendersStay
<1>8. Receiving'
  BY <1>1, <1>2, ReceivingStays, Zenon DEF Known, ReceiversStay
<1>9. Told'
  <2>1. \A e \in Receivers : TellsR(e)' => TellsR(e)
    BY <1>2, Zenon DEF TellsR, Known
  <2>2. \A e \in Senders : TellsS(e)' => TellsS(e)
    BY <1>2, Zenon DEF TellsS, Known, Value
  <2> QED
    BY <1>3, <2>1, <2>2, ToldStays, Zenon DEF Known, ToldStay, NothingLeft, SidesStay
<1> QED
  BY <1>3, <1>4, <1>5, <1>6, <1>7, <1>8, <1>9, Zenon DEF Rest

\* destroy() begins: the flag is set, and only the first one goes on.
LEMMA DestroyKeeps == ASSUME Known, NEW c \in Coros, Destroy(c) PROVE Rest'
<1> USE DEF Destroy, lockVars, countVars, historyVars
<1>1. pc[c] = "destroy"
  BY Zenon
<1>2. pc'[c] \in {"closed", "wake"} /\ \A e \in Coros : e # c => pc'[e] = pc[e]
  BY <1>1, Moves, Zenon
<1>a. pc'[c] = "wake" => ~is_closed
  BY Zenon DEF Goto, Known
<1>3. Counting' /\ SidesStay
  <2>1. \A d \in Coros : pc'[d] \in Live <=> pc[d] \in Live
    BY <1>1, <1>2, Zenon DEF Live
  <2> QED
    BY <2>1, SameSides, Zenon DEF Known, SidesStay
<1>4. Kinds'
  BY Zenon DEF Known, Kinds
<1>5. Destroyed'
  <2>1. Gone(Senders)' \/ Gone(Receivers)'
    BY <1>1, <1>3, Zenon DEF Known, Destroyed, SidesStay
  <2>2. \A e \in Coros : InDestroy(e)' => (InDestroy(e) /\ e # c) \/ (e = c /\ ~is_closed)
    BY <1>2, <1>a, Zenon DEF InDestroy
  <2>3. \A e \in Coros : InDestroy(e) => is_closed
    BY Zenon DEF Known, Destroyed
  <2>4. \A e, d \in Coros : InDestroy(e) /\ InDestroy(d) => e = d
    BY Zenon DEF Known, Destroyed
  <2>5. \A e, d \in Coros : InDestroy(e)' /\ InDestroy(d)' => e = d
    BY <2>2, <2>3, <2>4, Zenon
  <2> QED
    BY <2>1, <2>5, Zenon DEF Destroyed
<1>6. Listed'
  BY <1>1, <1>2, <1>3, ListedStays, Zenon DEF Known, ListsStay
<1>7. Sending'
  BY <1>1, <1>2, SendingStays, Zenon DEF Known, SendersStay
<1>8. Receiving'
  BY <1>1, <1>2, ReceivingStays, Zenon DEF Known, ReceiversStay
<1>9. Told'
  <2>1. \A e \in Receivers : TellsR(e)' => TellsR(e)
    BY <1>2, Zenon DEF TellsR, Known
  <2>2. \A e \in Senders : TellsS(e)' => TellsS(e)
    BY <1>2, Zenon DEF TellsS, Known, Value
  <2> QED
    BY <1>3, <2>1, <2>2, ToldStays, Zenon DEF Known, ToldStay, NothingLeft, SidesStay
<1> QED
  BY <1>3, <1>4, <1>5, <1>6, <1>7, <1>8, <1>9, Zenon DEF Rest

\* Who is found in one of two lists.
LEMMA InOneOf ==
  ASSUME NEW S, NEW T, NEW a \in Seq(S), NEW b \in Seq(T), NEW d
  PROVE  d \in Range(a \o b) => \/ \E i \in 1..Len(a) : a[i] = d
                                \/ \E i \in 1..Len(b) : b[i] = d
<1>1. a \in Seq(S \cup T) /\ b \in Seq(S \cup T)
  OBVIOUS
<1> SUFFICES ASSUME d \in Range(a \o b)
             PROVE  (\E i \in 1..Len(a) : a[i] = d) \/ (\E i \in 1..Len(b) : b[i] = d)
  OBVIOUS
<1>2. PICK i \in DOMAIN (a \o b) : (a \o b)[i] = d
  BY Zenon DEF Range
<1>3. /\ Len(a) \in Nat /\ Len(b) \in Nat /\ i \in 1..(Len(a) + Len(b))
      /\ (a \o b)[i] = IF i <= Len(a) THEN a[i] ELSE b[i - Len(a)]
  BY <1>1, <1>2
<1>4. CASE i <= Len(a)
  <2>1. i \in 1..Len(a)
    BY <1>3, <1>4
  <2> QED
    BY <1>2, <1>3, <1>4, <2>1, Zenon
<1>5. CASE ~(i <= Len(a))
  <2>1. i - Len(a) \in 1..Len(b)
    BY <1>3, <1>5
  <2> QED
    BY <1>2, <1>3, <1>5, <2>1, Zenon
<1> QED
  BY <1>4, <1>5, Zenon

\* Who is in a list is alive; the lists of both sides are not both in use.
LEMMA InList ==
  ASSUME Known, NEW i
  PROVE  /\ i \in 1..Len(waiting_senders) => waiting_senders[i] \in Senders
         /\ i \in 1..Len(waiting_receivers) => waiting_receivers[i] \in Receivers
         /\ i \in 1..Len(waiting_senders) => waiting_senders # <<>>
         /\ i \in 1..Len(waiting_receivers) => waiting_receivers # <<>>
<1>1. waiting_senders \in Seq(Senders) /\ waiting_receivers \in Seq(Receivers)
  BY Zenon DEF Known, Types
<1> QED
  BY <1>1

\* While destroy() is about to wake them, those in the lists are suspended.
LEMMA InOrder ==
  ASSUME Known, NEW c \in Coros, pc[c] = "wake"
  PROVE  Once(waiting_senders) /\ Once(waiting_receivers)
<1>1. InDestroy(c)
  BY Zenon DEF InDestroy
<1>2. \A e \in Coros : InDestroy(e) => e = c
  BY <1>1, Zenon DEF Known, Destroyed
<1>3. ~Clearing
  BY <1>2, Zenon DEF Clearing, InDestroy
<1> QED
  BY <1>3, Zenon DEF Known, Listed

\* Who is in which list.
InSenders(d) == \E i \in 1..Len(waiting_senders) : waiting_senders[i] = d
InReceivers(d) == \E i \in 1..Len(waiting_receivers) : waiting_receivers[i] = d

\* destroy() schedules nobody but the suspended coroutines it finds in the lists.
LEMMA Woken ==
  ASSUME Known, NEW c \in Coros, DestroyWake(c), NEW d \in Coros, d # c
  PROVE  \/ pc'[d] = pc[d]
         \/ pc'[d] = "scheduled" /\ pc[d] = "suspended" /\ (InSenders(d) \/ InReceivers(d))
<1>1. Once(waiting_senders) /\ Once(waiting_receivers)
  BY InOrder, Zenon DEF DestroyWake
<1>2. waiting_senders \in Seq(Senders) /\ waiting_receivers \in Seq(Receivers)
  BY Zenon DEF Known, Types
<1>3. CASE d \in Range(waiting_senders \o waiting_receivers)
  <2>1. InSenders(d) \/ InReceivers(d)
    BY <1>2, <1>3, InOneOf DEF InSenders, InReceivers
  <2>2. pc[d] = "suspended"
    BY <1>1, <2>1, Zenon DEF InSenders, InReceivers, Once
  <2> QED
    BY <1>3, <2>1, <2>2, Zenon DEF DestroyWake
<1>4. CASE d \notin Range(waiting_senders \o waiting_receivers)
  BY <1>4, Zenon DEF DestroyWake
<1> QED
  BY <1>3, <1>4, Zenon

\* destroy() schedules everybody it finds: they are told the truth.
LEMMA DestroyWakeKeeps == ASSUME Known, NEW c \in Coros, DestroyWake(c) PROVE Rest'
<1> USE DEF DestroyWake, lockVars, chanVars, countVars, historyVars
<1>1. pc[c] = "wake" /\ InDestroy(c) /\ pc'[c] = "clear"
  BY Zenon DEF InDestroy
<1>b. Once(waiting_senders) /\ Once(waiting_receivers)
  BY <1>1, InOrder, Zenon
<1>c. Gone(Senders) \/ Gone(Receivers)
  BY <1>1, Zenon DEF Known, Destroyed
<1>d. ASSUME NEW d, InSenders(d)
      PROVE  d \in Senders /\ d \in Coros /\ pc[d] = "suspended" /\ Gone(Receivers)
  <2>1. d \in Senders /\ d \in Coros /\ pc[d] = "suspended"
    BY <1>b, <1>d, InList, Zenon DEF Once, Known, InSenders
  <2> QED
    BY <1>c, <2>1, Alive, Zenon DEF Live
<1>e. ASSUME NEW d, InReceivers(d)
      PROVE  d \in Receivers /\ d \in Coros /\ pc[d] = "suspended" /\ NothingLeft
  <2>1. d \in Receivers /\ d \in Coros /\ pc[d] = "suspended" /\ waiting_receivers # <<>>
    BY <1>b, <1>e, InList, Zenon DEF Once, Known, InReceivers
  <2>2. Gone(Senders)
    BY <1>c, <2>1, Alive, Zenon DEF Live
  <2> QED
    BY <2>1, <2>2, Zenon DEF Known, WaitersHaveReason, NothingLeft
<1>2. ASSUME NEW d \in Coros, d # c
      PROVE  \/ pc'[d] = pc[d]
             \/ pc'[d] = "scheduled" /\ pc[d] = "suspended" /\ (InSenders(d) \/ InReceivers(d))
  BY <1>2, Woken, Zenon
<1>3. Counting' /\ SidesStay
  <2>1. ASSUME NEW d \in Coros PROVE pc'[d] \in Live <=> pc[d] \in Live
    BY <1>1, <1>2, Zenon DEF Live
  <2> QED
    BY <2>1, SameSides, Zenon DEF Known, SidesStay
<1>4. Kinds'
  BY Zenon DEF Known, Kinds
<1>5. Destroyed'
  BY <1>1, <1>2, <1>3, DestroyedStays, Zenon DEF Known, DestroyersStay
<1>6. Listed'
  <2>1. Clearing'
    BY <1>1, Zenon DEF Clearing
  <2>2. Once(waiting_senders)' \/ Gone(Receivers)'
    <3>1. CASE \E i : i \in 1..Len(waiting_senders)
      BY <1>3, <1>d, <3>1, Zenon DEF InSenders, SidesStay
    <3>2. CASE ~\E i : i \in 1..Len(waiting_senders)
      BY <3>2, Zenon DEF Once
    <3> QED
      BY <3>1, <3>2, Zenon
  <2>3. Once(waiting_receivers)' \/ Gone(Senders)'
    <3>1. CASE \E i : i \in 1..Len(waiting_receivers)
      BY <1>3, <1>e, <3>1, Zenon DEF InReceivers, SidesStay, NothingLeft
    <3>2. CASE ~\E i : i \in 1..Len(waiting_receivers)
      BY <3>2, Zenon DEF Once
    <3> QED
      BY <3>1, <3>2, Zenon
  <2> QED
    BY <2>1, <2>2, <2>3, Zenon DEF Listed
<1>7. Sending'
  BY <1>1, <1>2, SendingStays, Zenon DEF Known, SendersStay
<1>8. Receiving'
  BY <1>1, <1>2, ReceivingStays, Zenon DEF Known, ReceiversStay
<1>9. Told'
  <2>1. ASSUME NEW d \in Receivers, TellsR(d)' PROVE TellsR(d) \/ NothingLeft
    <3>1. d \in Coros /\ ~InSenders(d)
      BY <1>d, Zenon DEF Known
    <3> QED
      BY <1>1, <1>2, <1>e, <2>1, <3>1, Zenon DEF TellsR
  <2>2. ASSUME NEW d \in Senders, TellsS(d)' PROVE TellsS(d) \/ Gone(Receivers)
    <3>1. d \in Coros /\ ~InReceivers(d)
      BY <1>e, Zenon DEF Known
    <3> QED
      BY <1>1, <1>2, <1>d, <2>2, <3>1, Zenon DEF TellsS, Value
  <2> QED
    BY <1>3, <2>1, <2>2, ToldStays, Zenon DEF Known, ToldStay, NothingLeft, SidesStay
<1> QED
  BY <1>3, <1>4, <1>5, <1>6, <1>7, <1>8, <1>9, Zenon DEF Rest

\* destroy() clears the lists.
LEMMA DestroyClearKeeps == ASSUME Known, NEW c \in Coros, DestroyClear(c) PROVE Rest'
<1> USE DEF DestroyClear, lockVars, countVars, historyVars
<1>1. pc[c] = "clear"
  BY Zenon
<1>2. pc'[c] = "closed" /\ \A e \in Coros : e # c => pc'[e] = pc[e]
  BY <1>1, Moves, Zenon
<1>3. Counting' /\ SidesStay
  <2>1. \A d \in Coros : pc'[d] \in Live <=> pc[d] \in Live
    BY <1>1, <1>2, Zenon DEF Live
  <2> QED
    BY <2>1, SameSides, Zenon DEF Known, SidesStay
<1>4. Kinds'
  BY Zenon DEF Known, Kinds
<1>5. Destroyed'
  BY <1>2, <1>3, DestroyedStays, Zenon DEF Known, DestroyersStay
<1>6. Listed'
  <2>1. \A i : i \notin 1..Len(waiting_senders') /\ i \notin 1..Len(waiting_receivers')
    BY NoneIn, Zenon
  <2> QED
    BY <2>1, Zenon DEF Listed, Once
<1>7. Sending'
  BY <1>1, <1>2, SendingStays, Zenon DEF Known, SendersStay
<1>8. Receiving'
  BY <1>1, <1>2, ReceivingStays, Zenon DEF Known, ReceiversStay
<1>9. Told'
  <2>1. \A e \in Receivers : TellsR(e)' => TellsR(e)
    BY <1>2, Zenon DEF TellsR, Known
  <2>2. \A e \in Senders : TellsS(e)' => TellsS(e)
    BY <1>2, Zenon DEF TellsS, Known, Value
  <2> QED
    BY <1>3, <2>1, <2>2, ToldStays, Zenon DEF Known, ToldStay, NothingLeft, SidesStay
<1> QED
  BY <1>3, <1>4, <1>5, <1>6, <1>7, <1>8, <1>9, Zenon DEF Rest

\* A new channel has one sender and one receiver, and nothing happened yet.
LEMMA InitRInv == ASSUME Init PROVE RInv
<1> USE DEF Init
<1>1. IInv
  BY InitIInv, Zenon
<1>a. /\ pc = [c \in Coros |-> IF c \in First THEN "out" ELSE "no_handle"]
      /\ Senders \subseteq Coros /\ Receivers \subseteq Coros
  BY Zenon DEF Coros
<1>2. Kinds
  <2>1. owner \in Coros \cup {Nobody} /\ queue \in Seq(Coros)
    BY DEF mutex!Init
  <2>2. buf \in Seq(Values) /\ <<>> \in Seq(Values)
    OBVIOUS
  <2>3. received \in [Receivers -> Seq(Values)]
    BY <2>2, Zenon
  <2>4. result \in [Receivers -> Values \cup {Closed}]
    BY Zenon
  <2> QED
    BY <2>1, <2>2, <2>3, <2>4, Zenon DEF Kinds
<1>3. Counting
  <2>1. Living(Senders) = First \cap Senders
    BY <1>a, Zenon DEF Living, Live
  <2>2. Living(Receivers) = First \cap Receivers
    BY <1>a, Zenon DEF Living, Live
  <2> QED
    BY <2>1, <2>2, ChannelAssumption, Zenon DEF Counting
<1>4. \A c \in Coros : pc[c] \in {"out", "no_handle"}
  BY <1>a, Zenon
<1>5. Destroyed
  BY <1>4, Zenon DEF Destroyed, InDestroy
<1>6. Listed
  <2>1. \A i : i \notin 1..Len(waiting_senders) /\ i \notin 1..Len(waiting_receivers)
    BY NoneIn, Zenon
  <2> QED
    BY <2>1, Zenon DEF Listed, Once
<1>7. Sending
  BY <1>4, <1>a, Zenon DEF Sending
<1>8. Receiving
  BY <1>4, <1>a, Zenon DEF Receiving
<1>9. Told
  BY <1>4, <1>a, Zenon DEF Told
<1> QED
  BY <1>1, <1>2, <1>3, <1>5, <1>6, <1>7, <1>8, <1>9, Zenon DEF RInv

\* Every step keeps what RInv has beside IInv.
LEMMA NextRest == ASSUME Known, Next PROVE Rest'
<1>1. ASSUME NEW s \in Senders, SendLock(s) \/ SendLocked(s) PROVE Rest'
  BY <1>1, SendLockKeeps, SendToReceiverKeeps, SendToBufferKeeps, SendWhenFullKeeps, Zenon
     DEF SendLocked
<1>2. ASSUME NEW r \in Receivers, RecvLock(r) \/ RecvLocked(r) PROVE Rest'
  BY <1>2, RecvLockKeeps, RecvFromSenderKeeps, RecvFromBufferKeeps, RecvWhenEmptyKeeps, Zenon
     DEF RecvLocked
<1>3. ASSUME NEW c \in Coros, PushBack(c) \/ Unlock(c) \/ Resume(c) \/ Close(c) PROVE Rest'
  BY <1>3, PushBackKeeps, UnlockKeeps, ResumeKeeps, CloseKeeps, Zenon
<1>4. ASSUME NEW c \in Coros, Destroying(c) PROVE Rest'
  BY <1>4, DestroyKeeps, DestroyWakeKeeps, DestroyClearKeeps, Zenon DEF Destroying
<1>5. ASSUME NEW c \in Coros, NEW d \in Coros, Copy(c, d) PROVE Rest'
  BY <1>5, CopyKeeps, Zenon
<1> QED
  BY <1>1, <1>2, <1>3, <1>4, <1>5, Zenon DEF Next

\* The invariant is inductive.
LEMMA NextRInv == ASSUME RInv, [Next]_vars PROVE RInv'
<1>1. Known /\ IInv
  BY KnownIs, Zenon DEF RInv
<1>2. IInv'
  BY <1>1, Step, Zenon
<1>3. CASE Next
  BY <1>1, <1>2, <1>3, NextRest, Zenon DEF Rest, RInv
<1>4. CASE UNCHANGED vars
  <2>1. Kinds'
    BY <1>1, <1>4, Zenon DEF Known, Kinds, vars, lockVars, chanVars, countVars, historyVars
  <2> QED
    BY <1>1, <1>2, <1>4, <2>1, Zenon DEF RInv, Known, Counting, Living, Destroyed, Gone,
       InDestroy, Listed, Once, Clearing, Sending, Value, Receiving, Told, vars, lockVars,
       chanVars, countVars, historyVars
<1> QED
  BY <1>3, <1>4, Zenon

\* A side that is gone is counted as such.
LEMMA NobodyLeft == ASSUME Counting PROVE /\ Gone(Senders) => num_senders = 0
                                          /\ Gone(Receivers) => num_receivers = 0
<1>1. \A S : Gone(S) => Living(S) = {}
  BY Zenon DEF Gone, Living
<1>2. Cardinality({}) = 0
  BY FS_EmptySet, Zenon
<1> QED
  BY <1>1, <1>2, Zenon DEF Counting

\* ClosedChannel is the truth: whoever is told so has nobody left on the other
\* side, and a receiver nothing left to take, although destroy() runs without
\* the mutex and whoever closes or copies when (channel.hpp:24-42, 67-84, 120-148).
THEOREM ClosedIsTheTruth == Spec => []FailsOnlyWhenAlone
<1>1. RInv => FailsOnlyWhenAlone
  <2>1. RInv => Counting /\ Told
    BY Zenon DEF RInv
  <2> QED
    BY <2>1, NobodyLeft, Zenon DEF Told, FailsOnlyWhenAlone
<1>2. Init => RInv
  BY InitRInv, Zenon
<1>3. RInv /\ [Next]_vars => RInv'
  BY NextRInv, Zenon
<1> QED
  BY <1>1, <1>2, <1>3, PTL DEF Spec

\* The numbers of a side's handles lie between none and everybody.
LEMMA CountsBounded ==
  ASSUME Counting
  PROVE  num_senders \in 0..Cardinality(Senders) /\ num_receivers \in 0..Cardinality(Receivers)
<1>1. ASSUME NEW S, IsFiniteSet(S) PROVE Cardinality(Living(S)) \in 0..Cardinality(S)
  <2>1. Living(S) \in SUBSET S
    BY Zenon DEF Living
  <2>2. IsFiniteSet(Living(S)) /\ Cardinality(Living(S)) <= Cardinality(S)
    BY <1>1, <2>1, FS_Subset, Zenon
  <2>3. Cardinality(Living(S)) \in Nat /\ Cardinality(S) \in Nat
    BY <1>1, <2>2, FS_CardinalityType, Zenon
  <2> HIDE DEF Living
  <2> QED
    BY <2>2, <2>3
<1> QED
  BY <1>1, ChannelAssumption, Zenon DEF Counting

\* The variables of a channel keep their types, its buffer its capacity, and
\* its two counters stay between zero and the number of coroutines of a side
\* (channel.hpp:100-148).
THEOREM ChannelTypes == Spec => []TypeOK
<1>1. RInv => TypeOK
  <2> SUFFICES ASSUME RInv PROVE TypeOK
    BY Zenon
  <2>1. Kinds /\ Counting /\ IInv /\ Types
    BY Zenon DEF RInv, IInv
  <2>2. num_senders \in 0..Cardinality(Senders) /\ num_receivers \in 0..Cardinality(Receivers)
    BY <2>1, CountsBounded, Zenon
  <2> QED
    BY <2>1, <2>2, Zenon DEF TypeOK, Kinds, Types, Labels
<1>2. Init => RInv
  BY InitRInv, Zenon
<1>3. RInv /\ [Next]_vars => RInv'
  BY NextRInv, Zenon
<1> QED
  BY <1>1, <1>2, <1>3, PTL DEF Spec

-----------------------------------------------------------------------------
\* Where a value is: in the buffer, received, or given to a receiver that is
\* scheduled and will return it.
InBuf(v) == {i \in DOMAIN buf : buf[i] = v}
Got(v) == {p \in Receivers \X Nat : p[2] \in DOMAIN received[p[1]] /\ received[p[1]][p[2]] = v}
Given(v) == {r \in Receivers : pc[r] = "scheduled" /\ result[r] = v}

\* It is in one place once its send has succeeded, and in none before.
Single(S) == \E x : S = {x}
InOne(v) == \/ Single(InBuf(v)) /\ Got(v) = {} /\ Given(v) = {}
            \/ InBuf(v) = {} /\ Single(Got(v)) /\ Given(v) = {}
            \/ InBuf(v) = {} /\ Got(v) = {} /\ Single(Given(v))
InNone(v) == InBuf(v) = {} /\ Got(v) = {} /\ Given(v) = {}
Kept(v) == IF v \in accepted THEN InOne(v) ELSE InNone(v)
Conserved == \A v \in Values : Kept(v)

\* What is neither put anywhere nor taken away stays.
LEMMA KeptStays ==
  ASSUME NEW v, Kept(v), InBuf(v)' = InBuf(v), Got(v)' = Got(v), Given(v)' = Given(v),
         v \in accepted' <=> v \in accepted
  PROVE  Kept(v)'
  BY Zenon DEF Kept, InOne, InNone

\* The three places depend on what they are read from.
LEMMA PlacesStay ==
  ASSUME NEW v
  PROVE  /\ buf' = buf => InBuf(v)' = InBuf(v)
         /\ received' = received => Got(v)' = Got(v)
         /\ (\A r \in Receivers : /\ pc'[r] = "scheduled" /\ result'[r] = v
                                   => pc[r] = "scheduled" /\ result[r] = v
                                  /\ pc[r] = "scheduled" /\ result[r] = v
                                   => pc'[r] = "scheduled" /\ result'[r] = v)
              => Given(v)' = Given(v)
<1>1. buf' = buf => InBuf(v)' = InBuf(v)
  BY Zenon DEF InBuf
<1>2. received' = received => Got(v)' = Got(v)
  BY Zenon DEF Got
<1>3. ASSUME \A r \in Receivers : /\ pc'[r] = "scheduled" /\ result'[r] = v
                                    => pc[r] = "scheduled" /\ result[r] = v
                                  /\ pc[r] = "scheduled" /\ result[r] = v
                                    => pc'[r] = "scheduled" /\ result'[r] = v
      PROVE  Given(v)' = Given(v)
  BY <1>3, Zenon DEF Given
<1> QED
  BY <1>1, <1>2, <1>3, Zenon

\* A value is appended to a buffer that did not hold it.
LEMMA Buffered ==
  ASSUME buf \in Seq(Values), NEW w \in Values, buf' = Append(buf, w)
  PROVE  /\ InBuf(w) = {} => Single(InBuf(w)')
         /\ \A v : v # w => InBuf(v)' = InBuf(v)
<1>1. /\ DOMAIN buf = 1..Len(buf) /\ DOMAIN buf' = 1..Len(buf') /\ Len(buf) \in Nat
      /\ Appended(buf, buf', w) /\ Len(buf') \in 1..Len(buf')
  BY AppendIs DEF Appended
<1>2. ASSUME InBuf(w) = {} PROVE InBuf(w)' = {Len(buf')}
  <2>1. \A i \in 1..Len(buf) : buf[i] # w
    BY <1>1, <1>2, Zenon DEF InBuf
  <2> QED
    BY <1>1, <2>1, Zenon DEF InBuf, Appended
<1>3. ASSUME NEW v, v # w PROVE InBuf(v)' = InBuf(v)
  <2>1. ASSUME NEW i PROVE (i \in 1..Len(buf') /\ buf'[i] = v) <=> (i \in 1..Len(buf) /\ buf[i] = v)
    BY <1>1, <1>3, Zenon DEF Appended
  <2> QED
    BY <1>1, <2>1, Zenon DEF InBuf
<1> QED
  BY <1>2, <1>3, Zenon DEF Single

\* The first value leaves the buffer.
LEMMA Unbuffered ==
  ASSUME buf \in Seq(Values), buf # <<>>, buf' = Tail(buf), NEW w, w = Head(buf)
  PROVE  /\ 1 \in InBuf(w) /\ (Single(InBuf(w)) => InBuf(w)' = {})
         /\ \A v : InBuf(v) = {} => InBuf(v)' = {}
         /\ \A v : v # w /\ Single(InBuf(v)) => Single(InBuf(v)')
<1>1. /\ DOMAIN buf = 1..Len(buf) /\ DOMAIN buf' = 1..Len(buf') /\ Len(buf) \in Nat
      /\ Len(buf') = Len(buf) - 1 /\ 1 \in 1..Len(buf) /\ buf[1] = w
      /\ \A i \in 1..Len(buf') : buf'[i] = buf[i + 1] /\ i + 1 \in 1..Len(buf) /\ i + 1 # 1
      /\ \A i \in 1..Len(buf) : i # 1 => i - 1 \in 1..Len(buf') /\ i - 1 + 1 = i
      /\ \A i \in 1..Len(buf') : i \in Nat
  BY TailIs DEF Tailed
<1>2. ASSUME NEW v, NEW i PROVE i \in InBuf(v)' => i + 1 \in InBuf(v) /\ i + 1 # 1 /\ i \in Nat
  BY <1>1, Zenon DEF InBuf
<1>3. ASSUME NEW v, NEW i PROVE i \in InBuf(v) /\ i # 1 => i - 1 \in InBuf(v)'
  BY <1>1, Zenon DEF InBuf
<1>4. 1 \in InBuf(w) /\ \A v : v # w => 1 \notin InBuf(v)
  BY <1>1, Zenon DEF InBuf
<1>5. ASSUME Single(InBuf(w)) PROVE InBuf(w)' = {}
  <2>1. \A i \in InBuf(w) : i = 1
    BY <1>4, <1>5, Zenon DEF Single
  <2>2. \A i : i \notin InBuf(w)'
    BY <1>2, <2>1, Zenon
  <2> QED
    BY <2>2, Zenon
<1>6. ASSUME NEW v, InBuf(v) = {} PROVE InBuf(v)' = {}
  <2>1. \A i : i \notin InBuf(v)'
    BY <1>2, <1>6, Zenon
  <2> QED
    BY <2>1, Zenon
<1>7. ASSUME NEW v, v # w, Single(InBuf(v)) PROVE Single(InBuf(v)')
  <2>1. PICK x : InBuf(v) = {x}
    BY <1>7, Zenon DEF Single
  <2>2. x # 1 /\ x - 1 \in InBuf(v)'
    BY <1>3, <1>4, <1>7, <2>1, Zenon
  <2>3. ASSUME NEW i, i \in InBuf(v)' PROVE i = x - 1
    <3>1. i + 1 = x /\ i \in Nat
      BY <1>2, <2>1, <2>3, Zenon
    <3> QED
      BY <3>1
  <2>4. InBuf(v)' = {x - 1}
    BY <2>2, <2>3, Zenon
  <2> QED
    BY <2>4, Zenon DEF Single
<1> QED
  BY <1>4, <1>5, <1>6, <1>7, Zenon

\* A value is received that was not received before.
LEMMA Returned ==
  ASSUME received \in [Receivers -> Seq(Values)], NEW r \in Receivers, NEW w \in Values,
         Receive(r, w)
  PROVE  /\ Got(w) = {} => Single(Got(w)')
         /\ \A v : v # w => Got(v)' = Got(v)
<1> DEFINE old == received[r]
           new == received'[r]
<1>1. /\ old \in Seq(Values) /\ new = Append(old, w)
      /\ \A q \in Receivers : q # r => received'[q] = received[q]
  BY Zenon DEF Receive
<1> HIDE DEF old, new
<1>2. /\ DOMAIN old = 1..Len(old) /\ DOMAIN new = 1..Len(new) /\ Len(new) \in 1..Len(new)
      /\ Appended(old, new, w) /\ Len(new) \in Nat
  BY <1>1, AppendIs DEF Appended
<1>3. ASSUME NEW v, NEW q \in Receivers, NEW i \in Nat, q # r
      PROVE  <<q, i>> \in Got(v)' <=> <<q, i>> \in Got(v)
  BY <1>1, <1>3 DEF Got
<1>4. ASSUME NEW v, NEW i \in Nat
      PROVE  /\ <<r, i>> \in Got(v)' <=> i \in DOMAIN new /\ new[i] = v
             /\ <<r, i>> \in Got(v) <=> i \in DOMAIN old /\ old[i] = v
  BY DEF Got, old, new
<1>5. ASSUME NEW v
      PROVE  /\ \A p \in Got(v) : \E q \in Receivers, i \in Nat : p = <<q, i>>
             /\ \A p \in Got(v)' : \E q \in Receivers, i \in Nat : p = <<q, i>>
  BY DEF Got
<1>6. ASSUME Got(w) = {} PROVE Single(Got(w)')
  <2>1. \A i \in 1..Len(old) : old[i] # w
    <3>1. \A i \in 1..Len(old) : i \in Nat
      OBVIOUS
    <3> QED
      BY <1>2, <1>4, <1>6, <3>1, Zenon
  <2>2. <<r, Len(new)>> \in Got(w)'
    BY <1>2, <1>4, Zenon DEF Appended
  <2>3. ASSUME NEW q \in Receivers, NEW i \in Nat, <<q, i>> \in Got(w)'
        PROVE  <<q, i>> = <<r, Len(new)>>
    <3>1. q = r
      BY <1>3, <1>6, <2>3, Zenon
    <3>2. i \in DOMAIN new /\ new[i] = w
      BY <1>4, <2>3, <3>1, Zenon
    <3>3. i = Len(new)
      BY <1>2, <2>1, <3>2, Zenon DEF Appended
    <3> QED
      BY <3>1, <3>3, Zenon
  <2>5. ASSUME NEW p, p \in Got(w)' PROVE p = <<r, Len(new)>>
    <3>1. PICK q \in Receivers, i \in Nat : p = <<q, i>>
      BY <1>5, <2>5, Zenon
    <3> QED
      BY <2>3, <2>5, <3>1, Zenon
  <2>4. Got(w)' = {<<r, Len(new)>>}
    BY <2>2, <2>5, Zenon
  <2> QED
    BY <2>4, Zenon DEF Single
<1>7. ASSUME NEW v, v # w PROVE Got(v)' = Got(v)
  <2>1. ASSUME NEW q \in Receivers, NEW i \in Nat PROVE <<q, i>> \in Got(v)' <=> <<q, i>> \in Got(v)
    <3>1. CASE q # r
      BY <1>3, <3>1, Zenon
    <3>2. CASE q = r
      <4>1. (i \in DOMAIN new /\ new[i] = v) <=> (i \in DOMAIN old /\ old[i] = v)
        BY <1>2, <1>7, Zenon DEF Appended
      <4> QED
        BY <1>4, <3>2, <4>1, Zenon
    <3> QED
      BY <3>1, <3>2, Zenon
  <2>2. ASSUME NEW p, p \in Got(v) PROVE p \in Got(v)'
    <3>1. PICK q \in Receivers, i \in Nat : p = <<q, i>>
      BY <1>5, <2>2, Zenon
    <3> QED
      BY <2>1, <2>2, <3>1, Zenon
  <2>3. ASSUME NEW p, p \in Got(v)' PROVE p \in Got(v)
    <3>1. PICK q \in Receivers, i \in Nat : p = <<q, i>>
      BY <1>5, <2>3, Zenon
    <3> QED
      BY <2>1, <2>3, <3>1, Zenon
  <2> QED
    BY <2>2, <2>3, Zenon
<1> QED
  BY <1>6, <1>7, Zenon

-----------------------------------------------------------------------------
\* A receiver that holds no value: it is not scheduled, or will return Closed.
Empty(r) == pc[r] # "scheduled" \/ result[r] = Closed
Untouched(r) == \/ pc'[r] = pc[r] /\ result'[r] = result[r]
                \/ Empty(r) /\ Empty(r)'

\* Then no value is given to it or taken from it.
LEMMA GivenStays ==
  ASSUME \A r \in Receivers : Untouched(r), NEW v \in Values
  PROVE  Given(v)' = Given(v)
<1>1. v # Closed
  BY ChannelAssumption, Zenon
<1> QED
  BY <1>1, Zenon DEF Untouched, Empty, Given

\* A step that touches no value keeps all of them.
LEMMA Calm ==
  ASSUME Conserved, \A r \in Receivers : Untouched(r), UNCHANGED <<buf, received, accepted>>
  PROVE  Conserved'
<1> SUFFICES ASSUME NEW v \in Values PROVE Kept(v)'
  BY Zenon DEF Conserved
<1>1. Given(v)' = Given(v)
  BY GivenStays, Zenon
<1>2. InBuf(v)' = InBuf(v) /\ Got(v)' = Got(v)
  BY PlacesStay, Zenon
<1> QED
  BY <1>1, <1>2, KeptStays, Zenon DEF Conserved

\* The steps of that kind.
LEMMA CalmSteps ==
  ASSUME Known, Conserved, NEW c \in Coros,
         \/ c \in Senders /\ (SendLock(c) \/ SendWhenFull(c))
         \/ c \in Receivers /\ (RecvLock(c) \/ RecvWhenEmpty(c))
         \/ PushBack(c) \/ Unlock(c) \/ Close(c) \/ Destroying(c) \/ \E d \in Coros : Copy(c, d)
  PROVE  Conserved'
<1> USE DEF lockVars, chanVars, countVars, historyVars
<1>0. /\ pc \in [Coros -> Labels] /\ Receivers \subseteq Coros
      /\ result \in [Receivers -> Values \cup {Closed}]
  BY Zenon DEF Known, Kinds
<1>1. UNCHANGED <<buf, received, accepted>>
  BY Zenon DEF SendLock, SendWhenFull, RecvLock, RecvWhenEmpty, PushBack, Unlock, Close,
     Destroying, Destroy, DestroyWake, DestroyClear, Copy
<1> SUFFICES ASSUME NEW r \in Receivers PROVE Untouched(r)
  BY <1>1, Calm, Zenon
<1>a. ASSUME NEW d \in Coros, NEW l, l # "scheduled", Goto(d, l), pc[d] # "scheduled",
             r # d => result'[r] = result[r]
      PROVE  Untouched(r)
  <2>1. r # d => pc'[r] = pc[r]
    BY <1>0, <1>a, Zenon DEF Goto
  <2>2. pc'[d] = l
    BY <1>0, <1>a, Zenon DEF Goto
  <2> QED
    BY <1>a, <2>1, <2>2, Zenon DEF Untouched, Empty
<1>2. CASE c \in Senders /\ SendLock(c)
  BY <1>2, <1>a, Zenon DEF SendLock
<1>3. CASE c \in Senders /\ SendWhenFull(c)
  BY <1>3, <1>a, Zenon DEF SendWhenFull
<1>4. CASE c \in Receivers /\ RecvLock(c)
  <2>1. r # c => result'[r] = result[r]
    BY <1>0, <1>4, Zenon DEF RecvLock
  <2> QED
    BY <1>4, <1>a, <2>1, Zenon DEF RecvLock
<1>5. CASE c \in Receivers /\ RecvWhenEmpty(c)
  BY <1>5, <1>a, Zenon DEF RecvWhenEmpty
<1>6. CASE PushBack(c)
  BY <1>6, <1>a, Zenon DEF PushBack
<1>7. CASE Unlock(c)
  BY <1>7, Zenon DEF Unlock, Untouched
<1>8. CASE Close(c)
  BY <1>8, <1>a, Zenon DEF Close
<1>9. CASE Destroy(c)
  BY <1>9, <1>a, Zenon DEF Destroy
<1>10. CASE DestroyClear(c)
  BY <1>10, <1>a, Zenon DEF DestroyClear
<1>11. CASE DestroyWake(c)
  <2>1. result' = result /\ pc[c] = "wake" /\ pc'[c] = "clear"
    BY <1>11, Zenon DEF DestroyWake
  <2>2. CASE r = c
    BY <2>1, <2>2, Zenon DEF Untouched, Empty
  <2>3. CASE r # c
    <3>1. pc'[r] = pc[r] \/ (pc'[r] = "scheduled" /\ pc[r] = "suspended")
      BY <1>0, <1>11, <2>3, Woken, Zenon
    <3>2. pc[r] = "suspended" => result[r] = Closed
      BY Zenon DEF Known, Receiving
    <3> QED
      BY <2>1, <3>1, <3>2, Zenon DEF Untouched, Empty
  <2> QED
    BY <2>2, <2>3, Zenon
<1>12. CASE \E d \in Coros : Copy(c, d)
  BY <1>12, <1>a, Zenon DEF Copy
<1> QED
  BY <1>2, <1>3, <1>4, <1>5, <1>6, <1>7, <1>8, <1>9, <1>10, <1>11, <1>12, Zenon DEF Destroying

\* A value that no place held is put into the buffer.
LEMMA SendToBufferConserves ==
  ASSUME Known, Conserved, NEW s \in Senders, SendToBuffer(s)
  PROVE  Conserved'
<1> USE DEF SendToBuffer
<1>1. /\ Value(s) \in Values /\ Value(s) \notin accepted /\ s \notin Receivers
      /\ buf \in Seq(Values)
  BY NewValue, Zenon DEF Known, Kinds
<1>w. PICK w \in Values : w = Value(s)
  BY <1>1, Zenon
<1>2. /\ buf' = Append(buf, w) /\ accepted' = accepted \cup {w} /\ received' = received
      /\ result' = result /\ w \notin accepted
  BY <1>1, <1>w, Zenon
<1>3. ASSUME NEW r \in Receivers PROVE Untouched(r)
  BY <1>1, <1>2, Zenon DEF Goto, Untouched, Known
<1> SUFFICES ASSUME NEW v \in Values PROVE Kept(v)'
  BY Zenon DEF Conserved
<1>4. Got(v)' = Got(v) /\ Given(v)' = Given(v) /\ Kept(v)
  BY <1>2, <1>3, PlacesStay, GivenStays, Zenon DEF Conserved
<1>5. CASE v = w
  <2>1. InNone(v)
    BY <1>2, <1>4, <1>5, Zenon DEF Kept
  <2>2. Single(InBuf(v)')
    BY <1>1, <1>2, <1>5, <2>1, Buffered, Zenon DEF InNone
  <2> QED
    BY <1>2, <1>4, <1>5, <2>1, <2>2, Zenon DEF Kept, InNone, InOne, Single
<1>6. CASE v # w
  <2>1. InBuf(v)' = InBuf(v)
    BY <1>1, <1>2, <1>6, Buffered, Zenon
  <2> QED
    BY <1>2, <1>4, <1>6, <2>1, KeptStays, Zenon
<1> QED
  BY <1>5, <1>6, Zenon

\* A value that no place held is given to a waiting receiver.
LEMMA SendToReceiverConserves ==
  ASSUME Known, Conserved, NEW s \in Senders, SendToReceiver(s)
  PROVE  Conserved'
<1> USE DEF SendToReceiver
<1>1. /\ Value(s) \in Values /\ Value(s) \notin accepted /\ s \notin Receivers
      /\ s \in Coros /\ result \in [Receivers -> Values \cup {Closed}]
      /\ waiting_receivers \in Seq(Receivers)
  BY NewValue, Zenon DEF Known, Kinds, Types
<1>w. PICK w \in Values : w = Value(s)
  BY <1>1, Zenon
<1>r. PICK r \in Receivers : r = Head(waiting_receivers)
  BY <1>1, TailIs, Zenon
<1>2. /\ accepted' = accepted \cup {w} /\ received' = received /\ buf' = buf
      /\ result' = [result EXCEPT ![r] = w] /\ w \notin accepted
      /\ pc' = [pc EXCEPT ![r] = "scheduled", ![s] = "out"]
  BY <1>1, <1>w, <1>r, Zenon
<1>3. pc[r] = "suspended" /\ r \in Coros /\ r # s
  <2>1. ~Gone(Senders)
    BY <1>1, Alive, Zenon DEF Live
  <2>2. Once(waiting_receivers)
    BY <2>1, Zenon DEF Known, Listed
  <2>3. r = waiting_receivers[1] /\ 1 \in 1..Len(waiting_receivers)
    BY <1>1, <1>r, TailIs, Zenon
  <2> QED
    BY <1>1, <2>2, <2>3, Zenon DEF Once, Known
<1>4. /\ pc'[r] = "scheduled" /\ result'[r] = w
      /\ \A q \in Receivers : q # r => pc'[q] = pc[q] /\ result'[q] = result[q]
  BY <1>1, <1>2, <1>3, Zenon DEF Known
<1> SUFFICES ASSUME NEW v \in Values PROVE Kept(v)'
  BY Zenon DEF Conserved
<1>5. Got(v)' = Got(v) /\ InBuf(v)' = InBuf(v) /\ Kept(v)
  BY <1>2, PlacesStay, Zenon DEF Conserved
<1>6. CASE v = w
  <2>1. InNone(v)
    BY <1>2, <1>5, <1>6, Zenon DEF Kept
  <2>2. Given(v)' = {r}
    BY <1>4, <1>6, <2>1, Zenon DEF InNone, Given
  <2>3. InOne(v)'
    BY <1>5, <2>1, <2>2, Zenon DEF InNone, InOne, Single
  <2> QED
    BY <1>2, <1>6, <2>3, Zenon DEF Kept
<1>7. CASE v # w
  <2>1. Given(v)' = Given(v)
    BY <1>3, <1>4, <1>7, Zenon DEF Given
  <2> QED
    BY <1>2, <1>5, <1>7, <2>1, KeptStays, Zenon
<1> QED
  BY <1>6, <1>7, Zenon

\* A value that no place held is taken from a waiting sender and received.
LEMMA RecvFromSenderConserves ==
  ASSUME Known, Conserved, NEW r \in Receivers, RecvFromSender(r)
  PROVE  Conserved'
<1> USE DEF RecvFromSender
<1>1. /\ r \in Coros /\ r \notin Senders /\ waiting_senders \in Seq(Senders)
      /\ received \in [Receivers -> Seq(Values)]
  BY Zenon DEF Known, Kinds, Types
<1>s. PICK s \in Senders : s = Head(waiting_senders)
  BY <1>1, TailIs, Zenon
<1>3. pc[s] = "suspended" /\ s \in Coros /\ s \notin Receivers
  <2>1. ~Gone(Receivers)
    BY <1>1, Alive, Zenon DEF Live
  <2>2. Once(waiting_senders)
    BY <2>1, Zenon DEF Known, Listed
  <2>3. s = waiting_senders[1] /\ 1 \in 1..Len(waiting_senders)
    BY <1>1, <1>s, TailIs, Zenon
  <2> QED
    BY <1>1, <2>2, <2>3, Zenon DEF Once, Known
<1>w. PICK w \in Values : w = Value(s) /\ w \notin accepted
  BY <1>3, NewValue, Zenon
<1>2. /\ accepted' = accepted \cup {w} /\ Receive(r, w) /\ buf' = buf /\ result' = result
      /\ pc' = [pc EXCEPT ![s] = "scheduled", ![r] = "out"] /\ pc[r] = "recv"
  BY <1>s, <1>w, Zenon
<1>4. ASSUME NEW q \in Receivers PROVE Untouched(q)
  BY <1>1, <1>2, <1>3, Zenon DEF Untouched, Empty, Known
<1> SUFFICES ASSUME NEW v \in Values PROVE Kept(v)'
  BY Zenon DEF Conserved
<1>5. InBuf(v)' = InBuf(v) /\ Given(v)' = Given(v) /\ Kept(v)
  BY <1>2, <1>4, PlacesStay, GivenStays, Zenon DEF Conserved
<1>6. CASE v = w
  <2>1. InNone(v)
    BY <1>w, <1>5, <1>6, Zenon DEF Kept
  <2>2. Single(Got(v)')
    BY <1>1, <1>2, <1>6, <2>1, Returned, Zenon DEF InNone
  <2>3. InOne(v)'
    BY <1>5, <2>1, <2>2, Zenon DEF InNone, InOne, Single
  <2> QED
    BY <1>2, <1>6, <2>3, Zenon DEF Kept
<1>7. CASE v # w
  <2>1. Got(v)' = Got(v)
    BY <1>1, <1>2, <1>7, Returned, Zenon
  <2> QED
    BY <1>2, <1>5, <1>7, <2>1, KeptStays, Zenon
<1> QED
  BY <1>6, <1>7, Zenon

\* The oldest value of the buffer goes from there to its receiver.
LEMMA RecvFromBufferConserves ==
  ASSUME Known, Conserved, NEW r \in Receivers, RecvFromBuffer(r)
  PROVE  Conserved'
<1> USE DEF RecvFromBuffer
<1>1. /\ r \in Coros /\ buf \in Seq(Values) /\ received \in [Receivers -> Seq(Values)]
  BY Zenon DEF Known, Kinds
<1>w. PICK w \in Values : w = Head(buf)
  BY <1>1, TailIs, Zenon
<1>2. /\ accepted' = accepted /\ Receive(r, w) /\ buf' = Tail(buf) /\ result' = result
      /\ pc' = [pc EXCEPT ![r] = "out"] /\ pc[r] = "recv" /\ buf # <<>>
  BY <1>w, Zenon DEF Goto
<1>3. ASSUME NEW q \in Receivers PROVE Untouched(q)
  BY <1>1, <1>2, Zenon DEF Untouched, Empty, Known
<1>4. /\ 1 \in InBuf(w) /\ (Single(InBuf(w)) => InBuf(w)' = {})
      /\ \A v : InBuf(v) = {} => InBuf(v)' = {}
      /\ \A v : v # w /\ Single(InBuf(v)) => Single(InBuf(v)')
  BY <1>1, <1>2, <1>w, Unbuffered, Zenon
<1> SUFFICES ASSUME NEW v \in Values PROVE Kept(v)'
  BY Zenon DEF Conserved
<1>5. Given(v)' = Given(v) /\ Kept(v)
  BY <1>3, GivenStays, Zenon DEF Conserved
<1>6. CASE v = w
  <2>1. v \in accepted /\ Single(InBuf(v)) /\ Got(v) = {} /\ Given(v) = {}
    BY <1>4, <1>5, <1>6, Zenon DEF Kept, InNone, InOne
  <2>2. Single(Got(v)')
    BY <1>1, <1>2, <1>6, <2>1, Returned, Zenon
  <2>3. InBuf(v)' = {}
    BY <1>4, <1>6, <2>1, Zenon
  <2>4. InOne(v)'
    BY <1>5, <2>1, <2>2, <2>3, Zenon DEF InOne, Single
  <2> QED
    BY <1>2, <2>1, <2>4, Zenon DEF Kept
<1>7. CASE v # w
  <2>1. Got(v)' = Got(v)
    BY <1>1, <1>2, <1>7, Returned, Zenon
  <2>2. InNone(v) => InNone(v)'
    BY <1>4, <1>5, <2>1, Zenon DEF InNone
  <2>3. InOne(v) => InOne(v)'
    <3>1. CASE Single(InBuf(v)) /\ Got(v) = {} /\ Given(v) = {}
      <4>1. Single(InBuf(v)')
        BY <1>4, <1>7, <3>1, Zenon
      <4> QED
        BY <1>5, <2>1, <3>1, <4>1, Zenon DEF InOne, Single
    <3>2. CASE InBuf(v) = {}
      <4>1. InBuf(v)' = {}
        BY <1>4, <3>2, Zenon
      <4> QED
        BY <1>5, <2>1, <3>2, <4>1, Zenon DEF InOne, Single
    <3> QED
      BY <3>1, <3>2, Zenon DEF InOne
  <2> QED
    BY <1>2, <1>5, <2>2, <2>3, Zenon DEF Kept
<1> QED
  BY <1>6, <1>7, Zenon

\* A receiver that was given a value returns it.
LEMMA ResumeConserves ==
  ASSUME Known, Conserved, NEW c \in Coros, Resume(c)
  PROVE  Conserved'
<1> USE DEF Resume, chanVars
<1>1. /\ pc[c] = "scheduled" /\ buf' = buf /\ accepted' = accepted /\ result' = result
      /\ pc' = [pc EXCEPT ![c] = "out"] /\ pc \in [Coros -> Labels] /\ Receivers \subseteq Coros
      /\ received \in [Receivers -> Seq(Values)]
      /\ result \in [Receivers -> Values \cup {Closed}]
  BY Zenon DEF Goto, Known, Kinds
<1>2. /\ pc'[c] = "out" /\ \A q \in Receivers : q # c => pc'[q] = pc[q]
  BY <1>1, Zenon
<1>3. CASE c \notin Receivers \/ result[c] = Closed
  <2>1. received' = received
    BY <1>3, Zenon
  <2>2. ASSUME NEW q \in Receivers PROVE Untouched(q)
    BY <1>1, <1>2, <1>3, Zenon DEF Untouched, Empty
  <2> QED
    BY <1>1, <2>1, <2>2, Calm, Zenon
<1>4. CASE c \in Receivers /\ result[c] # Closed
  <2>w. PICK w \in Values : w = result[c]
    BY <1>1, <1>4, Zenon
  <2>1. Receive(c, w)
    BY <1>4, <2>w, Zenon DEF Known
  <2> SUFFICES ASSUME NEW v \in Values PROVE Kept(v)'
    BY Zenon DEF Conserved
  <2>2. InBuf(v)' = InBuf(v) /\ Kept(v)
    BY <1>1, PlacesStay, Zenon DEF Conserved
  <2>3. CASE v = w
    <3>1. c \in Given(v)
      BY <1>1, <1>4, <2>w, <2>3, Zenon DEF Given
    <3>2. v \in accepted /\ InBuf(v) = {} /\ Got(v) = {} /\ Given(v) = {c}
      BY <2>2, <3>1, Zenon DEF Kept, InNone, InOne, Single
    <3>3. Given(v)' = {}
      <4>1. \A q \in Receivers : q # c => ~(pc[q] = "scheduled" /\ result[q] = v)
        BY <3>2, Zenon DEF Given
      <4> QED
        BY <1>1, <1>2, <4>1, Zenon DEF Given
    <3>4. Single(Got(v)')
      BY <1>1, <1>4, <2>1, <2>3, <3>2, Returned, Zenon
    <3>5. InOne(v)'
      BY <2>2, <3>2, <3>3, <3>4, Zenon DEF InOne, Single
    <3> QED
      BY <1>1, <3>2, <3>5, Zenon DEF Kept
  <2>4. CASE v # w
    <3>1. Got(v)' = Got(v)
      BY <1>1, <1>4, <2>1, <2>4, Returned, Zenon
    <3>2. Given(v)' = Given(v)
      BY <1>1, <1>2, <2>4, <2>w, Zenon DEF Given
    <3> QED
      BY <1>1, <2>2, <3>1, <3>2, KeptStays, Zenon
  <2> QED
    BY <2>3, <2>4, Zenon
<1> QED
  BY <1>3, <1>4, Zenon

\* Nothing is anywhere at first.
LEMMA InitConserved == ASSUME Init PROVE Conserved
<1> USE DEF Init
<1> SUFFICES ASSUME NEW v \in Values PROVE Kept(v)
  BY Zenon DEF Conserved
<1>1. \A i : i \notin DOMAIN <<>>
  OBVIOUS
<1>2. InBuf(v) = {}
  BY <1>1, Zenon DEF InBuf
<1>3. Got(v) = {}
  <2>1. \A p \in Receivers \X Nat : p[1] \in Receivers
    OBVIOUS
  <2>2. \A q \in Receivers : received[q] = <<>>
    BY Zenon
  <2> QED
    BY <1>1, <2>1, <2>2, Zenon DEF Got
<1>4. Given(v) = {}
  <2>1. v # Closed
    BY ChannelAssumption, Zenon
  <2> QED
    BY <2>1, Zenon DEF Given
<1> QED
  BY <1>2, <1>3, <1>4, Zenon DEF Kept, InNone

\* Every step keeps each value in its one place.
LEMMA NextConserved == ASSUME RInv, Conserved, [Next]_vars PROVE Conserved'
<1>0. Known /\ Senders \subseteq Coros /\ Receivers \subseteq Coros
  BY KnownIs, Zenon DEF Known
<1>1. ASSUME NEW s \in Senders, SendLock(s) \/ SendLocked(s) PROVE Conserved'
  BY <1>0, <1>1, CalmSteps, SendToBufferConserves, SendToReceiverConserves, Zenon DEF SendLocked
<1>2. ASSUME NEW r \in Receivers, RecvLock(r) \/ RecvLocked(r) PROVE Conserved'
  BY <1>0, <1>2, CalmSteps, RecvFromBufferConserves, RecvFromSenderConserves, Zenon DEF RecvLocked
<1>3. ASSUME NEW c \in Coros, \/ PushBack(c) \/ Unlock(c) \/ Close(c) \/ Destroying(c)
                              \/ \E d \in Coros : Copy(c, d)
      PROVE  Conserved'
  BY <1>0, <1>3, CalmSteps, Zenon
<1>4. ASSUME NEW c \in Coros, Resume(c) PROVE Conserved'
  BY <1>0, <1>4, ResumeConserves, Zenon
<1>5. CASE UNCHANGED vars
  BY <1>5, Calm, Zenon DEF vars, chanVars, historyVars, Untouched
<1>6. CASE Next
  BY <1>1, <1>2, <1>3, <1>4, <1>6, Zenon DEF Next
<1> QED
  BY <1>5, <1>6, Zenon

\* Equal pairs have equal parts.
LEMMA SamePair == ASSUME NEW x, NEW y, NEW z, NEW p, <<x, y>> = p, <<x, z>> = p PROVE y = z
<1>1. <<x, y>> = <<x, z>>
  BY Zenon
<1> QED
  BY <1>1, Zenon

\* What a receiver has received are different values, so that there are at most
\* as many of them as there are values.
LEMMA ReceivedBounded ==
  ASSUME Kinds, Conserved, accepted \subseteq Values, NEW r \in Receivers
  PROVE  /\ Len(received[r]) \in Nat /\ Cardinality(Values) \in Nat
         /\ Len(received[r]) <= Cardinality(Values)
<1> DEFINE f == received[r]
<1>1. f \in Seq(Values)
  BY Zenon DEF Kinds
<1>2. f \in [1..Len(f) -> Values] /\ Len(f) \in Nat /\ \A i \in 1..Len(f) : i \in Nat
  BY <1>1
<1>3. ASSUME NEW i \in 1..Len(f), NEW j \in 1..Len(f), f[i] = f[j] PROVE i = j
  <2>v. PICK v \in Values : v = f[i]
    BY <1>2, Zenon
  <2>1. <<r, i>> \in Got(v) /\ <<r, j>> \in Got(v)
    BY <1>2, <1>3, <2>v DEF Got
  <2>2. Single(Got(v))
    BY <2>1, Zenon DEF Conserved, Kept, InOne, InNone
  <2>x. PICK x : Got(v) = {x}
    BY <2>2, Zenon DEF Single
  <2>3. <<r, i>> = x /\ <<r, j>> = x
    BY <2>1, <2>x, Zenon
  <2> QED
    BY <2>3, SamePair, Zenon
<1> HIDE DEF f
<1>4. f \in Injection(1..Len(f), Values)
  <2>1. DOMAIN f = 1..Len(f)
    BY <1>2, Zenon
  <2> QED
    BY <1>2, <1>3, <2>1, Zenon DEF Injection, IsInjective
<1>5. IsFiniteSet(Values) /\ Cardinality(Values) \in Nat
  <2>1. IsFiniteSet(1..MaxSends)
    BY ChannelAssumption, FS_Interval
  <2>2. IsFiniteSet(Values)
    BY <2>1, ChannelAssumption, FS_Product, Zenon DEF Values
  <2> QED
    BY <2>2, FS_CardinalityType, Zenon
<1>6. Cardinality(1..Len(f)) <= Cardinality(Values)
  BY <1>4, <1>5, FS_Injection, Zenon
<1>7. Cardinality(1..Len(f)) = Len(f)
  <2> HIDE DEF Values
  <2>1. 1 \in Int /\ Len(f) \in Int
    BY <1>2
  <2>2. Cardinality(1..Len(f)) = IF 1 > Len(f) THEN 0 ELSE Len(f) - 1 + 1
    BY <2>1, FS_Interval, Zenon
  <2> QED
    BY <1>2, <2>2
<1> QED
  BY <1>2, <1>5, <1>6, <1>7, Zenon DEF f

\* The pairs that Places counts are all there are.
LEMMA GotIs ==
  ASSUME Kinds, Conserved, accepted \subseteq Values, NEW v
  PROVE  {p \in Receivers \X (1..Cardinality(Values)) :
             p[2] \in DOMAIN received[p[1]] /\ received[p[1]][p[2]] = v} = Got(v)
<1>1. ASSUME NEW q \in Receivers
      PROVE  /\ DOMAIN received[q] = 1..Len(received[q]) /\ Len(received[q]) \in Nat
             /\ Cardinality(Values) \in Nat /\ Len(received[q]) <= Cardinality(Values)
  <2>1. received[q] \in Seq(Values)
    BY Zenon DEF Kinds
  <2> QED
    BY <2>1, ReceivedBounded
<1> DEFINE N == Cardinality(Values)
<1> HIDE DEF N
<1>2. ASSUME NEW q \in Receivers, NEW i, i \in DOMAIN received[q]
      PROVE  i \in 1..N /\ i \in Nat
  BY <1>1, <1>2 DEF N
<1>3. ASSUME NEW p \in Receivers \X (1..N) PROVE p \in Receivers \X Nat
  BY <1>3
<1>4. ASSUME NEW p \in Receivers \X Nat, p[2] \in DOMAIN received[p[1]]
      PROVE  p \in Receivers \X (1..N)
  <2>1. p[1] \in Receivers /\ p = <<p[1], p[2]>>
    OBVIOUS
  <2>2. p[2] \in 1..N
    BY <1>2, <1>4, <2>1, Zenon
  <2> QED
    BY <2>1, <2>2
<1>5. {p \in Receivers \X (1..N) : p[2] \in DOMAIN received[p[1]] /\ received[p[1]][p[2]] = v}
        = Got(v)
  BY <1>3, <1>4, Zenon DEF Got
<1> QED
  BY <1>5, Zenon DEF N

\* One place is one, and none is none.
LEMMA Counted ==
  ASSUME Kinds, Conserved, accepted \subseteq Values
  PROVE  ValuesConserved
<1> SUFFICES ASSUME NEW v \in Values PROVE Places(v) = IF v \in accepted THEN 1 ELSE 0
  BY Zenon DEF ValuesConserved
<1> DEFINE a == Cardinality(InBuf(v))
           b == Cardinality(Got(v))
           c == Cardinality(Given(v))
<1>1. Places(v) = a + b + c
  BY GotIs, Zenon DEF Places, Count, InBuf, Given
<1>2. \A S : (S = {} => Cardinality(S) = 0) /\ (Single(S) => Cardinality(S) = 1)
  BY FS_EmptySet, FS_Singleton, Zenon DEF Single
<1>3. InNone(v) => a = 0 /\ b = 0 /\ c = 0
  BY <1>2, Zenon DEF InNone
<1>4. InOne(v) => \/ a = 1 /\ b = 0 /\ c = 0
                  \/ a = 0 /\ b = 1 /\ c = 0
                  \/ a = 0 /\ b = 0 /\ c = 1
  BY <1>2, Zenon DEF InOne
<1>5. IF v \in accepted THEN InOne(v) ELSE InNone(v)
  BY Zenon DEF Conserved, Kept
<1> HIDE DEF a, b, c
<1> QED
  BY <1>1, <1>3, <1>4, <1>5

\* No value is lost or delivered twice: one whose send succeeded is in the
\* buffer, or was received, or will be returned by one receiver, exactly once,
\* and any other is nowhere, whoever closes when (channel.hpp:24-42, 67-84).
THEOREM ValuesAreConserved == Spec => []ValuesConserved
<1>1. RInv /\ Conserved => ValuesConserved
  BY Counted, Zenon DEF RInv, Kinds
<1>2. Init => RInv /\ Conserved
  BY InitRInv, InitConserved, Zenon
<1>3. RInv /\ Conserved /\ [Next]_vars => RInv' /\ Conserved'
  BY NextRInv, NextConserved, Zenon
<1> QED
  BY <1>1, <1>2, <1>3, PTL DEF Spec

\* What ChannelTellsTheTruth promises of a channel holds in every one of them
\* (channel.hpp:24-42, 67-84, 100-148).
THEOREM ChannelIsTruthful == Spec => []ChannelTellsTheTruth
BY ChannelTypes, ValuesAreConserved, ClosedIsTheTruth, PTL DEF ChannelTellsTheTruth
=============================================================================
