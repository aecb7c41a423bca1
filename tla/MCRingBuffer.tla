---------------------------- MODULE MCRingBuffer ----------------------------
(***************************************************************************)
(* Instances of RingBuffer for TLC.                                        *)
(***************************************************************************)
EXTENDS RingBuffer

SmallCapacities == 0..4
=============================================================================
