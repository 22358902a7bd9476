------------------------------- MODULE MCCuda -------------------------------
(* Instances of CudaHasher for TLC.                                        *)
EXTENDS CudaHasher

CONSTANTS d1
=============================================================================
