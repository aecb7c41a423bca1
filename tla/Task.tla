-------------------------------- MODULE Task --------------------------------
(***************************************************************************)
(* Coroutine frames and the Task objects that own them                     *)
(* (async/coroutine/task.hpp).  A frame is held by a Task object that is a *)
(* local variable or a parameter of another frame, or it was taken, and    *)
(* then it destroys itself when it ends.  One thread runs one frame at a   *)
(* time; the frames it can run next are in ready.                          *)
(***************************************************************************)
EXTENDS Integers, FiniteSets

CONSTANTS Frames, First, NoFrame

VARIABLES fst,        \* none, initial, running, suspended, final or destroyed
          caller,     \* caller_ of the promise
          holder,     \* the frame with the Task object, NoFrame if taken
          params,     \* the frames whose Task is a parameter of their holder
          ex,         \* the frames with an exception in ex_
          empties,    \* the frames that have a Task without a handle
          ready,      \* handles that are scheduled
          active,     \* the frame that runs
          throwing,   \* an exception is on its way in that frame
          terminated  \* std::terminate was called

taskVars == <<fst, caller, holder, params, ex, empties, ready, active, throwing, terminated>>

Live(f) == fst[f] \notin {"none", "destroyed"}

\* The scheduler has the handle of the first coroutine.
Init ==
  /\ fst = [f \in Frames |-> IF f = First THEN "initial" ELSE "none"]
  /\ caller = [f \in Frames |-> NoFrame] /\ holder = [f \in Frames |-> NoFrame]
  /\ params = {} /\ ex = {} /\ empties = {}
  /\ ready = {First} /\ active = NoFrame /\ throwing = FALSE /\ terminated = FALSE

\* The frames that ~Task destroys with those in fs: a frame takes the Task
\* objects in it along.
RECURSIVE WithHeld(_)
WithHeld(fs) ==
  LET held == {f \in Frames : Live(f) /\ holder[f] \in fs}
  IN IF held \subseteq fs THEN fs ELSE WithHeld(fs \cup held)

Destroy(f, fs) == IF f \in fs THEN "destroyed" ELSE fst[f]

Runs(r) == active = r /\ ~throwing /\ ~terminated

\* A coroutine is called: its frame suspends at once, its Task is a local
\* variable of the caller.
Call(r, f) ==
  /\ Runs(r) /\ fst[f] = "none"
  /\ fst' = [fst EXCEPT ![f] = "initial"] /\ holder' = [holder EXCEPT ![f] = r]
  /\ UNCHANGED <<caller, params, ex, empties, ready, active, throwing, terminated>>

\* It is called with a Task that is moved into a parameter, as block_on does.
CallWith(r, f, g) ==
  /\ Runs(r) /\ fst[f] = "none" /\ Live(g) /\ holder[g] = r
  /\ fst' = [fst EXCEPT ![f] = "initial"]
  /\ holder' = [holder EXCEPT ![f] = r, ![g] = f]
  /\ params' = params \cup {g} /\ empties' = empties \cup {r}
  /\ UNCHANGED <<caller, ex, ready, active, throwing, terminated>>

\* co_await of a Task: a frame that has ended gives its result or its
\* exception again, otherwise control goes to it.
Await(r, f) ==
  /\ Runs(r) /\ Live(f) /\ holder[f] = r
  /\ IF fst[f] = "final" THEN throwing' = (f \in ex) /\ UNCHANGED <<fst, caller, active>>
     ELSE /\ caller' = [caller EXCEPT ![f] = r] /\ active' = f
          /\ fst' = [fst EXCEPT ![f] = "running", ![r] = "suspended"]
          /\ UNCHANGED throwing
  /\ UNCHANGED <<holder, params, ex, empties, ready, terminated>>

\* co_await or take() of a Task without a handle throws.
UseEmpty(r) ==
  /\ Runs(r) /\ r \in empties /\ throwing' = TRUE
  /\ UNCHANGED <<fst, caller, holder, params, ex, empties, ready, active, terminated>>

\* mutant: the Task keeps the handle that it gave away
spawnKeeps(r, f) ==
  /\ Runs(r) /\ fst[f] = "initial" /\ holder[f] = r
  /\ ready' = ready \cup {f}
  /\ UNCHANGED <<fst, caller, holder, params, ex, empties, active, throwing, terminated>>
\* spawn(): take() and schedule
spawn(r, f) ==
  /\ Runs(r) /\ fst[f] = "initial" /\ holder[f] = r
  /\ holder' = [holder EXCEPT ![f] = NoFrame] /\ params' = params \ {f}
  /\ empties' = empties \cup {r} /\ ready' = ready \cup {f}
  /\ UNCHANGED <<fst, caller, ex, active, throwing, terminated>>

\* ~Task at the end of a scope, or a move assignment to the Task.
Drop(r, f) ==
  /\ Runs(r) /\ Live(f) /\ holder[f] = r
  /\ fst' = [g \in Frames |-> Destroy(g, WithHeld({f}))]
  /\ UNCHANGED <<caller, holder, params, ex, empties, ready, active, throwing, terminated>>

\* The frame suspends on I/O, a timer or a primitive, which schedules it.
Block(r) ==
  /\ Runs(r) /\ active' = NoFrame /\ fst' = [fst EXCEPT ![r] = "suspended"]
  /\ UNCHANGED <<caller, holder, params, ex, empties, ready, throwing, terminated>>

\* The frame at the bottom of a chain of co_awaits, which waits for an event.
Blocked(f) ==
  fst[f] = "suspended" /\ ~\E g \in Frames : Live(g) /\ caller[g] = f /\ fst[g] # "final"

Wake(f) ==
  /\ Blocked(f) /\ f \notin ready /\ ~terminated /\ ready' = ready \cup {f}
  /\ UNCHANGED <<fst, caller, holder, params, ex, empties, active, throwing, terminated>>

Resume(f) ==
  /\ active = NoFrame /\ f \in ready /\ ~terminated
  /\ ready' = ready \ {f} /\ active' = f /\ fst' = [fst EXCEPT ![f] = "running"]
  /\ UNCHANGED <<caller, holder, params, ex, empties, throwing, terminated>>

Throw(r) ==
  /\ Runs(r) /\ throwing' = TRUE
  /\ UNCHANGED <<fst, caller, holder, params, ex, empties, ready, active, terminated>>

Catch(r) ==
  /\ active = r /\ throwing /\ throwing' = FALSE
  /\ UNCHANGED <<fst, caller, holder, params, ex, empties, ready, active, terminated>>

\* The frame ends, with the exception that nobody caught if there is one: its
\* local Tasks go, and the final awaiter passes control to the caller, where
\* result() throws the exception again, or reports it and destroys the frame.
\* A debug build terminates.
Locals(r) == {f \in Frames \ params : Live(f) /\ holder[f] = r}
Destroyed(r) == WithHeld({r})
HasCaller(r) == caller[r] # NoFrame
End(r) ==
  /\ active = r /\ ~terminated
  /\ IF HasCaller(r)
     THEN /\ fst' = [f \in Frames |-> IF f = r THEN "final" ELSE IF f = caller[r] THEN "running"
                                      ELSE Destroy(f, WithHeld(Locals(r)))]
          /\ active' = caller[r] /\ UNCHANGED <<throwing, terminated>>
          /\ ex' = IF throwing THEN ex \cup {r} ELSE ex
     ELSE /\ fst' = [f \in Frames |-> Destroy(f, Destroyed(r))]
          /\ active' = NoFrame /\ throwing' = FALSE
          /\ terminated' \in IF throwing THEN BOOLEAN ELSE {FALSE}
          /\ UNCHANGED ex
  /\ UNCHANGED <<caller, holder, params, empties, ready>>

Next ==
  \E r \in Frames :
    \/ Block(r) \/ Wake(r) \/ Resume(r) \/ Throw(r) \/ Catch(r) \/ End(r) \/ UseEmpty(r)
    \/ \E f \in Frames : \/ Call(r, f) \/ Await(r, f) \/ spawn(r, f) \/ Drop(r, f)
                         \/ \E g \in Frames : CallWith(r, f, g)

Spec == Init /\ [][Next]_taskVars

-----------------------------------------------------------------------------
\* Nothing refers to a frame that is gone: not the scheduler, not the thread,
\* not caller_ of a frame that has still to end.  A frame that will be
\* resumed by its callee is suspended, so control passes to each once
\* (task.hpp:30-34, 141-144).
NoDanglingFrame ==
  /\ \A f \in ready : fst[f] \in {"initial", "suspended"}
  /\ active # NoFrame => fst[active] = "running"
  /\ \A f \in Frames :
       fst[f] \in {"running", "suspended"} /\ caller[f] # NoFrame => fst[caller[f]] = "suspended"
  /\ Cardinality({f \in Frames : fst[f] = "running"}) <= 1

\* No frame leaks: it is held by a Task in a frame that exists, or it was
\* taken and its handle is with the scheduler, with the thread, with an
\* event or with the frame it awaits (task.hpp:50, 153-157, 203-210).
NoFrameLeaks ==
  \A f \in Frames : Live(f) =>
    IF holder[f] # NoFrame THEN Live(holder[f])
    ELSE fst[f] \in {"running", "suspended"} \/ f \in ready

\* A frame is destroyed before it starts, after it has ended, or by itself:
\* never while it waits for an event that would resume it.
DestroyedAtRest ==
  \A f \in Frames : Live(f) /\ fst'[f] = "destroyed" => fst[f] \in {"initial", "final"} \/ f = active
=============================================================================
