------------------------------ MODULE MCMiner -------------------------------
(* Constants for checking module Miner with TLC. *)
EXTENDS MinerInv, TLC

CONSTANTS h1, w1, w2, n1, n2, c1, c2, s1, s2

\* Two workers on one hasher: contention inside a hasher.
OneHasher == w1 :> h1 @@ w2 :> h1

\* A single worker.
OneWorker == w1 :> h1

\* Workers of one hasher, and nonces, are alike.
Interchangeable == Permutations(Workers) \cup Permutations(Nonces)

Job(height, checksum, solver, difficulty) ==
    [height |-> height, block_checksum |-> checksum,
     solver_address |-> solver, difficulty |-> difficulty, version |-> 1]

\* A single block.
OneBlock == {Job(1, c1, s1, 1)}

\* A block, and the next one with everything changed.
TwoBlocks == {Job(1, c1, s1, 1), Job(2, c2, s2, 2)}
=============================================================================
