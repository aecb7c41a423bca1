---------------------------- MODULE SharedMutex ----------------------------
(***************************************************************************)
(* sync::SharedMutex (sync/shared_mutex.hpp): a word with a writer flag and*)
(* a count of readers, guarded by a sync::Mutex (taken at its promise,     *)
(* FifoLock), and two condition variables.  Both are notified under the    *)
(* mutex only, so a wait's push and unlock are one step here, and so is    *)
(* what is done under the mutex, its unlock included.                      *)
(***************************************************************************)
EXTENDS Naturals, Sequences, FiniteSets, SequencesExt

CONSTANTS Writers, Readers, Nobody,
          READER_MASK  \* the largest count of readers

Coros == Writers \cup Readers
WRITER_FLAG == READER_MASK + 1

VARIABLES owner, queue,        \* mutex_
          state,               \* state_
          cond, writer_cond,   \* the awaiters of cond_ and writer_cond_, newest first
          pc

lockVars == <<owner, queue>>
vars == <<lockVars, state, cond, writer_cond, pc>>

mutex == INSTANCE FifoLock

Init ==
  /\ mutex!Init
  /\ state = 0
  /\ cond = <<>> /\ writer_cond = <<>>
  /\ pc = [c \in Coros |-> "out"]

has_writer == state >= WRITER_FLAG
count_reader == state % WRITER_FLAG

Goto(c, label) == pc' = [pc EXCEPT ![c] = label]

\* Each operation begins with co_await mutex_.lock(), and so does a wait that
\* was notified.
Enter(c, from, to) ==
  /\ pc[c] = from
  /\ mutex!Lock(c)
  /\ Goto(c, to)
  /\ UNCHANGED <<state, cond, writer_cond>>

BeginLock(w) == Enter(w, "out", "lock") \/ Enter(w, "woken", "lock")
BeginUnlock(w) == Enter(w, "writing", "unlock")
BeginLockShared(r) == Enter(r, "out", "lock_shared") \/ Enter(r, "woken", "lock_shared")

-----------------------------------------------------------------------------
\* lock(): wait while there is a writer...
LockWaits(w) ==
  /\ pc[w] = "lock" /\ owner = w
  /\ has_writer
  /\ cond' = <<w>> \o cond
  /\ Goto(w, "cond")
  /\ mutex!Release(w)
  /\ UNCHANGED <<state, writer_cond>>

\* mutant: the flag is set without a look at it
LockUnguarded(w) ==
  /\ pc[w] = "lock" /\ owner = w
  /\ state' = WRITER_FLAG + count_reader
  /\ Goto(w, "writing")
  /\ mutex!Release(w)
  /\ UNCHANGED <<cond, writer_cond>>

\* ...become the writer, and wait until the readers have gone.
LockFlags(w) ==
  /\ pc[w] = "lock" /\ owner = w
  /\ ~has_writer
  /\ state' = state + WRITER_FLAG
  /\ IF count_reader = 0
     THEN Goto(w, "writing") /\ UNCHANGED writer_cond
     ELSE Goto(w, "writer_cond") /\ writer_cond' = <<w>> \o writer_cond
  /\ mutex!Release(w)
  /\ UNCHANGED cond

\* unlock(): everybody that waits on cond_ is scheduled.
unlock(w) ==
  /\ pc[w] = "unlock" /\ owner = w
  /\ state' = 0
  /\ pc' = [c \in Coros |-> IF c = w THEN "out" ELSE IF c \in ToSet(cond) THEN "woken" ELSE pc[c]]
  /\ cond' = <<>>
  /\ mutex!Release(w)
  /\ UNCHANGED writer_cond

-----------------------------------------------------------------------------
\* lock_shared(): wait while there is a writer or too many readers...
LockSharedWaits(r) ==
  /\ pc[r] = "lock_shared" /\ owner = r
  /\ state >= READER_MASK
  /\ cond' = <<r>> \o cond
  /\ Goto(r, "cond")
  /\ mutex!Release(r)
  /\ UNCHANGED <<state, writer_cond>>

\* ...count as a reader, and unlock...
LockSharedCounts(r) ==
  /\ pc[r] = "lock_shared" /\ owner = r
  /\ state < READER_MASK
  /\ state' = state + 1
  /\ Goto(r, "unlock_again")
  /\ mutex!Release(r)
  /\ UNCHANGED <<cond, writer_cond>>

\* ...and the lock_guard unlocks what is no longer locked, or is another
\* coroutine's lock.  What the program does after that is not modelled, so
\* nobody ever reads here and unlock_shared() has no action.
LockSharedUnlocksAgain(r) ==
  /\ pc[r] = "unlock_again"
  /\ Goto(r, IF owner = Nobody THEN "unlocked_free" ELSE "unlocked_other")
  /\ UNCHANGED <<lockVars, state, cond, writer_cond>>

-----------------------------------------------------------------------------
Write(w) == LockWaits(w) \/ LockFlags(w) \/ unlock(w)
Read(r) == LockSharedWaits(r) \/ LockSharedCounts(r) \/ LockSharedUnlocksAgain(r)

WriterNext == \E w \in Writers : BeginLock(w) \/ BeginUnlock(w) \/ Write(w)
Next == WriterNext \/ \E r \in Readers : BeginLockShared(r) \/ Read(r)

Spec == Init /\ [][Next]_vars

\* Writers alone: a coroutine that is scheduled runs, and one that writes
\* unlocks in the end.
WriterSpec ==
  /\ Init /\ [][WriterNext]_vars
  /\ \A w \in Writers : /\ WF_vars(Enter(w, "woken", "lock"))
                         /\ WF_vars(BeginUnlock(w)) /\ WF_vars(Write(w))

-----------------------------------------------------------------------------
\* The variables keep their types, and the word its width.
TypeOK ==
  /\ owner \in Coros \cup {Nobody} /\ queue \in Seq(Coros)
  /\ state \in 0..WRITER_FLAG + READER_MASK
  /\ cond \in Seq(Coros) /\ writer_cond \in Seq(Writers)
  /\ pc \in [Coros -> {"out", "woken", "lock", "unlock", "lock_shared", "cond", "writer_cond",
                       "writing", "unlock_again", "unlocked_free", "unlocked_other"}]

\* At most one coroutine has the lock for writing, and when it unlocks the
\* assertion of unlock() holds (shared_mutex.hpp:35).
WriterAlone ==
  LET writing == {w \in Writers : pc[w] \in {"writing", "unlock"}}
  IN  Cardinality(writing) <= 1 /\ (writing # {} => state = WRITER_FLAG)

\* A writer that waits on cond_ leaves it: no unlock() misses it.
NoWriterForgotten == \A w \in Writers : pc[w] = "cond" ~> pc[w] # "cond"

\* mutex_ is locked whenever it is unlocked, as Mutex::unlock asserts
\* (mutex.hpp:89).
UnlocksWhatIsLocked == \A c \in Coros : pc[c] # "unlocked_free"
=============================================================================
