----------------------------- MODULE TimerWheel -----------------------------
(***************************************************************************)
(* The timer of a worker: a hierarchy of wheels of SLOT_SIZE slots         *)
(* (runtime/timer/timer.hpp, runtime/timer/wheel.hpp).  A wheel of level 0 *)
(* has a list of entries in each slot, a wheel of level L > 0 a wheel of   *)
(* level L - 1 or null.  The root grows a level when an entry is too far   *)
(* away for it and gives one up when only its slot 0 is used.  Times are   *)
(* ticks of the clock; the wheels count whole milliseconds from start_.    *)
(***************************************************************************)
EXTENDS Integers, Sequences, FiniteSets, FiniteSetsExt

CONSTANTS Entries, SLOT_SIZE, MAX_LEVEL, TicksPerMs,
          MaxTime,     \* bound on the clock and on the times entries are due
          NoWheel      \* a null slot, and the std::monostate of root_wheel_

VARIABLES now,           \* steady_clock::now()
          start,         \* start_
          num_entries,   \* num_entries_
          level, root,   \* root_wheel_
          expiration,    \* expiration_time_ of the entries that exist
          executed       \* the entries whose execute() ran since they were made

wheelVars == <<now, start, num_entries, level, root, expiration, executed>>

Slots == 0..SLOT_SIZE - 1
MS_PER_SLOT(L) == SLOT_SIZE ^ L
MAX_MS(L) == SLOT_SIZE ^ (L + 1)
get_index(L, ms) == (ms \div MS_PER_SLOT(L)) % SLOT_SIZE
time_since_start(t) == (t - start) \div TicksPerMs

NoSlot(L) == IF L = 0 THEN <<>> ELSE NoWheel
NewWheel(L) == [bitmap |-> {}, slots |-> [i \in Slots |-> NoSlot(L)]]
empty(w) == w.bitmap = {}
Put(w, i, s) == [bitmap |-> w.bitmap \cup {i}, slots |-> [w.slots EXCEPT ![i] = s]]
Clear(w, i, L) == [bitmap |-> w.bitmap \ {i}, slots |-> [w.slots EXCEPT ![i] = NoSlot(L)]]

-----------------------------------------------------------------------------
(* Wheel<LEVEL>: each operator returns the wheel after the call.           *)

\* Wheel<0>: the slots are lists of entries.
list_add(w, i, e) == Put(w, i, <<e>> \o w.slots[i])
list_remove(w, i, e) ==
  LET s == SelectSeq(w.slots[i], LAMBDA f : f # e)
  IN IF s = <<>> THEN Clear(w, i, 0) ELSE [w EXCEPT !.slots[i] = s]
list_next(w) == Min(w.bitmap)
list_expire(w, i) == [wheel |-> NewWheel(0), ran |-> w.slots[i]]

RECURSIVE wheel_add(_, _, _, _)
wheel_add(w, L, e, ms) ==
  LET i == get_index(L, ms)
      child == IF w.slots[i] = NoWheel THEN NewWheel(L - 1) ELSE w.slots[i]
  IN IF L = 0 THEN list_add(w, i, e) ELSE Put(w, i, wheel_add(child, L - 1, e, ms))

RECURSIVE wheel_remove(_, _, _, _)
wheel_remove(w, L, e, ms) ==
  LET i == get_index(L, ms)
      child == wheel_remove(w.slots[i], L - 1, e, ms)
  IN IF L = 0 THEN list_remove(w, i, e)
     ELSE IF empty(child) THEN Clear(w, i, L) ELSE [w EXCEPT !.slots[i] = child]

\* mutant: a slot that begins now has not begun
BegunLate(i, L, ms) == i * MS_PER_SLOT(L) < ms
\* The time of slot i has come.
Begun(i, L, ms) == i * MS_PER_SLOT(L) <= ms

\* The first used slot is emptied as long as it has begun; a child that keeps
\* an entry ends the loop.  The result is the wheel and what was executed.
RECURSIVE wheel_expire(_, _, _)
wheel_expire(w, L, ms) ==
  IF empty(w) \/ ~Begun(Min(w.bitmap), L, ms) THEN [wheel |-> w, ran |-> <<>>]
  ELSE LET i == Min(w.bitmap)
           child == IF L = 0 THEN list_expire(w, i)
                    ELSE wheel_expire(w.slots[i], L - 1, ms - i * MS_PER_SLOT(L))
           rest == wheel_expire(Clear(w, i, L), L, ms)
       IN IF empty(child.wheel) THEN [rest EXCEPT !.ran = child.ran \o @]
          ELSE [wheel |-> [w EXCEPT !.slots[i] = child.wheel], ran |-> child.ran]

RECURSIVE wheel_next(_, _)
wheel_next(w, L) ==
  LET i == Min(w.bitmap)
  IN IF L = 0 THEN list_next(w) ELSE i * MS_PER_SLOT(L) + wheel_next(w.slots[i], L - 1)

\* mutant: the bitmap is not shifted with the slots
rotateSlotsOnly(w, L, n) ==
  [w EXCEPT !.slots = [i \in Slots |-> IF i + n < SLOT_SIZE THEN w.slots[i + n] ELSE NoSlot(L)]]
\* The slots move down by n; a slot that nothing moves into is null after it
\* was moved from, and keeps what it has otherwise.
rotate(w, L, n) ==
  [bitmap |-> {i - n : i \in {j \in w.bitmap : j >= n}},
   slots |-> [i \in Slots |-> IF i + n < SLOT_SIZE THEN w.slots[i + n]
                              ELSE IF i >= n THEN NoSlot(L) ELSE w.slots[i]]]

can_level_down(w) == w.bitmap = {0}
level_up(w, L) == Put(NewWheel(L + 1), 0, w)

-----------------------------------------------------------------------------
(* Timer                                                                   *)

RECURSIVE level_up_for(_, _, _)
level_up_for(w, L, ms) ==
  IF ms >= MAX_MS(L) THEN level_up_for(level_up(w, L), L + 1, ms)
  ELSE [level |-> L, root |-> w]

RECURSIVE level_down_if_needed(_, _)
level_down_if_needed(w, L) ==
  IF L > 0 /\ can_level_down(w) THEN level_down_if_needed(w.slots[0], L - 1)
  ELSE [level |-> L, root |-> w]

\* The level of the first wheel: the lowest one the interval fits in.
build_level(ms) == Min({L \in 0..MAX_LEVEL : ms < MAX_MS(L)})

\* The time until the first entry is due, what the worker may sleep.
next_expiration_time == wheel_next(root, level) - time_since_start(now)

SetRoot(r) == level' = r.level /\ root' = r.root
Monostate == [level |-> 0, root |-> NoWheel]

Init ==
  /\ now = 0 /\ start = 0 /\ num_entries = 0
  /\ level = 0 /\ root = NoWheel
  /\ expiration = [e \in Entries |-> 0] /\ executed = {}

Tick == now < MaxTime /\ now' = now + 1 /\ UNCHANGED <<start, num_entries, level, root, expiration, executed>>

\* A time that has passed (PassedTime) or that is too far away (TooLongTime)
\* is refused and changes nothing.
add_entry(e, due) ==
  /\ expiration[e] = 0
  /\ due > now /\ due < start + MAX_MS(MAX_LEVEL) * TicksPerMs
  /\ IF root = NoWheel
     THEN LET ms == (due - now) \div TicksPerMs
              L == build_level(ms)
          IN start' = now /\ SetRoot([level |-> L, root |-> wheel_add(NewWheel(L), L, e, ms)])
     ELSE LET ms == time_since_start(due)
              r == level_up_for(root, level, ms)
          IN SetRoot([r EXCEPT !.root = wheel_add(@, r.level, e, ms)]) /\ UNCHANGED start
  /\ num_entries' = num_entries + 1
  /\ expiration' = [expiration EXCEPT ![e] = due]
  /\ executed' = executed \ {e} /\ UNCHANGED now

remove_entry(e) ==
  /\ expiration[e] # 0
  /\ SetRoot(IF num_entries = 1 THEN Monostate
             ELSE [level |-> level,
                   root |-> wheel_remove(root, level, e, time_since_start(expiration[e]))])
  /\ num_entries' = num_entries - 1
  /\ expiration' = [expiration EXCEPT ![e] = 0]
  /\ UNCHANGED <<now, start, executed>>

\* The slots the root has left behind at the time it is rotated.
Behind == time_since_start(now) \div MS_PER_SLOT(level)

maintenance(w) ==
  IF empty(w) THEN SetRoot(Monostate) /\ UNCHANGED start
  ELSE /\ SetRoot(level_down_if_needed(rotate(w, level, Behind), level))
       /\ start' = start + Behind * MS_PER_SLOT(level) * TicksPerMs

handle_expired_entries ==
  /\ root # NoWheel
  /\ LET done == wheel_expire(root, level, time_since_start(now))
         ran == {done.ran[i] : i \in DOMAIN done.ran}
     IN /\ num_entries' = num_entries - Len(done.ran)
        /\ executed' = executed \cup ran
        /\ expiration' = [e \in Entries |-> IF e \in ran THEN 0 ELSE expiration[e]]
        /\ maintenance(done.wheel)
  /\ UNCHANGED now

Next ==
  \/ Tick
  \/ \E e \in Entries : remove_entry(e) \/ \E due \in 1..MaxTime : add_entry(e, due)
  \/ handle_expired_entries

Spec == Init /\ [][Next]_wheelVars

-----------------------------------------------------------------------------
\* The list an entry would be looked for in, from the root down.
RECURSIVE SlotOf(_, _, _)
SlotOf(w, L, ms) ==
  IF w = NoWheel THEN <<>>
  ELSE LET s == w.slots[get_index(L, ms)] IN IF L = 0 THEN s ELSE SlotOf(s, L - 1, ms)

RECURSIVE CountOf(_, _)
CountOf(w, L) ==
  IF w = NoWheel THEN 0
  ELSE FoldSet(LAMBDA i, n : n + IF L = 0 THEN Len(w.slots[i]) ELSE CountOf(w.slots[i], L - 1),
               0, Slots)

\* bitmap_ says which slots are used, in the wheels below the root as well,
\* and no wheel below the root is empty: countr_zero(bitmap_) never leads to
\* a null slot (wheel.hpp:65-69, 84-88).
RECURSIVE BitmapsMatch(_, _)
BitmapsMatch(w, L) ==
  /\ w.bitmap # {}
  /\ \A i \in Slots : (i \in w.bitmap) <=> (w.slots[i] # NoSlot(L))
  /\ L > 0 => \A i \in w.bitmap : BitmapsMatch(w.slots[i], L - 1)

\* Every entry of the timer is in the slot that remove_entry looks it up in,
\* however the root was rotated, raised and lowered since it was added, the
\* bitmaps lead to it, and num_entries_ counts the entries (wheel.hpp:48-58,
\* timer.hpp:67-87).
EntriesFindable ==
  LET live == {e \in Entries : expiration[e] # 0}
  IN /\ num_entries = Cardinality(live) /\ num_entries = CountOf(root, level)
     /\ (root = NoWheel) <=> (live = {})
     /\ root # NoWheel => BitmapsMatch(root, level)
     /\ \A e \in live : \E i \in DOMAIN SlotOf(root, level, time_since_start(expiration[e])) :
          SlotOf(root, level, time_since_start(expiration[e]))[i] = e

\* The assertions of maintenance and rotate hold whenever the driver polls,
\* however late it does (timer.hpp:137-139, wheel.hpp:91-94).
RotateAsserts ==
  root # NoWheel =>
    LET w == wheel_expire(root, level, time_since_start(now)).wheel
    IN ~empty(w) => Behind < SLOT_SIZE
                    /\ \A i \in Slots : i < Behind => w.slots[i] = NoSlot(level)

\* The time the worker sleeps, next_expiration_time() of the wheel less the
\* time since start_, ends in the millisecond the first entry is due in
\* (timer.hpp:89-101, wheel.hpp:83-88, 200-204).
WakesForFirstEntry ==
  root # NoWheel =>
    time_since_start(now) + next_expiration_time =
      Min({time_since_start(expiration[e]) : e \in {f \in Entries : expiration[f] # 0}})

queue == INSTANCE TimerQueue WITH
  pending <- [e \in {f \in Entries : expiration[f] # 0} |-> expiration[e]], fired <- executed

\* The wheels implement the timer queue: whatever is added, removed and
\* polled, an entry that is due has fired at the next poll and none fires a
\* millisecond early (timer.hpp:36-133).
ImplementsTimerQueue == queue!Spec
=============================================================================
