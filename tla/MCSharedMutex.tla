--------------------------- MODULE MCSharedMutex ---------------------------
(***************************************************************************)
(* Instances of SharedMutex for TLC.                                       *)
(***************************************************************************)
EXTENDS SharedMutex

CONSTANTS w1, w2, w3, w4, r1
=============================================================================
