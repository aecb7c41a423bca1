---------------------------- MODULE MCTaskQueues ----------------------------
(***************************************************************************)
(* Instances of TaskQueues for TLC.                                        *)
(***************************************************************************)
EXTENDS TaskQueues, TLC

CONSTANTS w1, w2, w3

TwoWorkers == {w1, w2}
ThreeWorkers == {w1, w2, w3}

Symmetry == Permutations(Workers)
=============================================================================
