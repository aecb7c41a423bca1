------------------------------ MODULE MCMutex ------------------------------
(***************************************************************************)
(* Instances of Mutex for TLC.                                             *)
(***************************************************************************)
EXTENDS Mutex

CONSTANTS c1, c2, c3

ThreeCoros == {c1, c2, c3}
=============================================================================
