------------------------------ MODULE MCOpencl ------------------------------
(* Instances of OpenclHasher for TLC.                                      *)
EXTENDS OpenclHasher

CONSTANT d1
=============================================================================
