------------------------------ MODULE Interval ------------------------------
(***************************************************************************)
(* time::Interval: a task that calls tick() in a loop and sleeps until the *)
(* deadline it returns.  The next deadline is computed when tick() is      *)
(* called, before the sleep.                                               *)
(***************************************************************************)
EXTENDS Integers

CONSTANTS
    Period,     \* period_
    MaxClock    \* bound: the last instant

Behaviors == {"Burst", "Delay", "Skip"}

VARIABLES
    instant,        \* steady_clock::now()
    expired_time,   \* expired_time_, the deadline the next tick() returns
    behavior,       \* behavior_
    sleeping,       \* the deadline of the Sleep being awaited, or -1
    anchor          \* the instant the deadlines are counted from

intervalVars == <<instant, expired_time, behavior, sleeping, anchor>>

\* interval and interval_at: the first deadline may be past, now or to come
Init ==
    /\ instant = 0
    /\ expired_time \in 0..(2 * Period + 1)
    /\ behavior \in Behaviors
    /\ sleeping = -1
    /\ anchor = expired_time

\* The remainder of C++, which has the sign of a
Rem(a, b) == IF a < 0 THEN -((-a) % b) ELSE a % b

\* mutant: Skip is Burst
next_timeoutOneBehind ==
    CASE behavior \in {"Burst", "Skip"} -> expired_time + Period
      [] behavior = "Delay" -> instant + Period
next_timeout ==
    CASE behavior = "Burst" -> expired_time + Period
      [] behavior = "Delay" -> instant + Period
      [] behavior = "Skip" -> instant + Period - Rem(instant - expired_time, Period)

Advance ==
    /\ instant < MaxClock
    /\ instant' = instant + 1
    /\ UNCHANGED <<expired_time, behavior, sleeping, anchor>>

tick ==
    /\ sleeping = -1
    /\ sleeping' = expired_time
    /\ expired_time' = next_timeout
    /\ anchor' = IF behavior = "Delay" THEN expired_time' ELSE anchor
    /\ UNCHANGED <<instant, behavior>>

\* The Sleep of a deadline that is past is ready at once
Wake ==
    /\ sleeping # -1 /\ sleeping <= instant
    /\ sleeping' = -1
    /\ UNCHANGED <<instant, expired_time, behavior, anchor>>

\* reset, reset_immediately, reset_after and reset_at
Reset(after) ==
    /\ sleeping = -1
    /\ expired_time' = instant + after
    /\ anchor' = expired_time'
    /\ UNCHANGED <<instant, behavior, sleeping>>

set_missed_tick_behavior(b) ==
    /\ sleeping = -1 /\ b # behavior
    /\ behavior' = b
    /\ UNCHANGED <<instant, expired_time, sleeping, anchor>>

Next ==
    \/ Advance \/ tick \/ Wake
    \/ \E after \in {0, 1, Period} : Reset(after)
    \/ \E b \in Behaviors : set_missed_tick_behavior(b)

Spec == Init /\ [][Next]_intervalVars

-----------------------------------------------------------------------------
\* Burst and Skip keep every deadline a whole number of periods away from the
\* first one, however late or early tick() is called (next_timeout).
OnGrid == (expired_time - anchor) % Period = 0

\* Skip drops the deadlines that were missed: the one a tick leaves behind is
\* still to come, however many periods the caller was late.
SkipsMissed ==
  behavior = "Skip" /\ sleeping = -1 /\ sleeping' # -1 => expired_time' > instant

\* A deadline comes after the one that tick() returned before, although the
\* remainder is negative when tick() is called early.  Only Delay and Skip,
\* asked a whole period or more before their deadline, give it again or go back
\* (interval.hpp:70-75).
DeadlinesAdvance ==
  sleeping = -1 /\ sleeping' # -1 =>
    sleeping' < expired_time' \/ (behavior # "Burst" /\ sleeping' >= instant + Period)
=============================================================================
