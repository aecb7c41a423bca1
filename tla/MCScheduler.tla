---------------------------- MODULE MCScheduler ----------------------------
(***************************************************************************)
(* Instances of Scheduler for TLC.  The workers are interchangeable; the   *)
(* coroutines are not, since the programs tell them apart.                 *)
(***************************************************************************)
EXTENDS Scheduler, TLC

CONSTANTS w1, w2, main, t1, t2

TwoWorkers == {w1, w2}

\* main spawns two coroutines, which fill a ring that is stolen from.
Spawning == [spawned |-> {t1, t2}, remote |-> {}, io |-> {}, signals |-> FALSE]

\* main spawns one coroutine, and both await an operation.
SpawningIo == [spawned |-> {t1}, remote |-> {}, io |-> {main, t1}, signals |-> FALSE]

\* Another thread resumes a coroutine, and signals interrupt those that wait.
RemoteSignals == [spawned |-> {}, remote |-> {t1}, io |-> {}, signals |-> TRUE]

\* Signals interrupt a worker whose operation is in flight.
IoSignals == [spawned |-> {}, remote |-> {}, io |-> {main}, signals |-> TRUE]

\* The smallest one with an operation, for liveness.
MainIo == [spawned |-> {}, remote |-> {}, io |-> {main}, signals |-> FALSE]

SafetyPrograms == {Spawning, SpawningIo, RemoteSignals, IoSignals}
LivePrograms == {MainIo}

Symmetry == Permutations(Workers)
=============================================================================
