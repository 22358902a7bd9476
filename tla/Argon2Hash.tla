----------------------------- MODULE Argon2Hash -----------------------------
(***************************************************************************)
(* argon2::generate_hashes (hash/argon2/argon2.cpp) for one nonce:         *)
(* initialize_seeds, fill_blocks and encode_hashes.  On a CPU the first    *)
(* and the last use module Blake2b; on a GPU they are kernels of their     *)
(* own, which are not modelled.  Filling is module Argon2Fill.             *)
(*                                                                         *)
(* A byte has Base values.  The digest is any string of bytes: what the    *)
(* hash functions make of the nonce is not modelled.                       *)
(***************************************************************************)
EXTENDS Argon2Fill, Blake2b

CONSTANTS
    Base,           \* values of a byte: 256
    DifficultyBytes,\* bytes of a difficulty: 8
    DigestBytes,    \* ARGON2_RAW_LENGTH: 32
    Pieces,         \* lengths of the pieces of the initial hash
    OutLengths      \* lengths blake2b_long may be asked for

ASSUME HashAssumption ==
    /\ {Base, DifficultyBytes} \subseteq Nat \ {0}
    /\ DigestBytes \in Nat /\ DigestBytes > DifficultyBytes + 2
    /\ Pieces \cup OutLengths \subseteq Nat \ {0}

VARIABLES
    stage,      \* how far generate_hashes is
    difficulty, \* the difficulty of the job, NoDifficulty without a job
    hash,       \* the digest
    accepted    \* the nonce is among the results

hashVars == <<stage, difficulty, hash, accepted>>
allVars == <<vars, blakeVars, hashVars>>

\* What a byte counts with k bytes after it: 2^shift in calc_hash_ceil.
Weight[k \in 0..DifficultyBytes] == IF k = 0 THEN 1 ELSE Base * Weight[k - 1]

MaxDifficulty == Weight[DifficultyBytes] - 1
NoDifficulty == -1
Digests == [1..DigestBytes -> 0..(Base - 1)]

HashInit ==
    /\ Init
    /\ Blake2bInit
    /\ stage = IF device = "cpu" THEN "initial_hash" ELSE "fill"
    /\ difficulty = NoDifficulty
    /\ hash = <<>>
    /\ accepted = FALSE

-----------------------------------------------------------------------------
(* initialize_seeds.                                                       *)

\* __initial_hash: the parameters, the base and the salt in any pieces.
initial_hash ==
    /\ stage = "initial_hash"
    /\ \/ \E n \in Pieces :
             /\ Len(fed) + n <= MaxMessage
             /\ blake2b_update(n) \/ blake2b_update_static(n)
       \/ update_loop
       \/ update_end
       \/ blake2b_final
    /\ UNCHANGED <<vars, hashVars>>

\* The state of the stream is a local variable of the function.
LeaveBlake ==
    /\ bpc' = "idle"
    /\ buf' = <<>>
    /\ rest' = <<>>
    /\ counter' = 0
    /\ compressed' = <<>>
    /\ fed' = <<>>
    /\ outlen' = 0
    /\ toproduce' = 0
    /\ produced' = <<>>

\* __fill_first_blocks expands the digest.
initial_hash_end ==
    /\ stage = "initial_hash"
    /\ bpc = "final"
    /\ LeaveBlake
    /\ stage' = "first_blocks"
    /\ UNCHANGED <<vars, difficulty, hash, accepted>>

fill_first_blocks ==
    /\ stage = "first_blocks"
    /\ \/ bpc = "idle" /\ \E n \in OutLengths : long_begin(n)
       \/ long_loop
       \/ long_last
    /\ UNCHANGED <<vars, hashVars>>

first_blocks_end ==
    /\ stage = "first_blocks"
    /\ bpc = "produced"
    /\ LeaveBlake
    /\ stage' = "fill"
    /\ UNCHANGED <<vars, difficulty, hash, accepted>>

-----------------------------------------------------------------------------
(* fill_blocks.                                                            *)

fill ==
    /\ stage = "fill"
    /\ Next
    /\ UNCHANGED <<blakeVars, hashVars>>

\* A GPU's prehash, filler or posthash fails: no hash is counted.
Fail ==
    /\ stage = "fill"
    /\ device # "cpu"
    /\ stage' = "failed"
    /\ UNCHANGED <<vars, blakeVars, difficulty, hash, accepted>>

-----------------------------------------------------------------------------
(* encode_hashes.                                                          *)

\* Fault: the bytes in reverse order.
difficulty_byte_reversed(d, i) == (d \div Weight[i - 1]) % Base

\* Byte i of a difficulty, the most significant first.
difficulty_byte(d, i) == (d \div Weight[DifficultyBytes - i]) % Base

\* miner::calc_hash_ceil, through hex::encode and hex::decode: two zero bytes
\* and the complement; the empty string before the first job.
hash_ceil(d) ==
    IF d = NoDifficulty THEN <<>>
    ELSE [i \in 1..(DifficultyBytes + 2) |->
            IF i <= 2 THEN 0 ELSE Base - 1 - difficulty_byte(d, i - 2)]

\* __check_hash: the first byte that differs from the ceiling's, which goes on
\* with 0xff, decides.
check_hash(h, ceil) ==
    LET cb(i) == IF i <= Len(ceil) THEN ceil[i] ELSE Base - 1
        Differ == {i \in 1..DigestBytes : cb(i) # h[i]}
    IN  \/ Differ = {}
        \/ \E i \in Differ : cb(i) > h[i] /\ \A j \in Differ : i <= j

encode_hashes ==
    /\ stage = "fill"
    /\ \A l \in Lanes : lpc[l] = "done"
    /\ hash' \in Digests
    /\ difficulty' \in 0..MaxDifficulty \cup {NoDifficulty}
    /\ accepted' = check_hash(hash', hash_ceil(difficulty'))
    /\ stage' = "encoded"
    /\ UNCHANGED <<vars, blakeVars>>

Returned ==
    /\ stage \in {"encoded", "failed"}
    /\ UNCHANGED allVars

HashNext ==
    \/ initial_hash
    \/ initial_hash_end
    \/ fill_first_blocks
    \/ first_blocks_end
    \/ fill
    \/ Fail
    \/ encode_hashes
    \/ Returned

HashSpec == HashInit /\ [][HashNext]_allVars

-----------------------------------------------------------------------------
(* Properties.                                                             *)

\* The number written by the first bytes of a digest, as many as a ceiling has.
Leading(h) ==
    LET n == DifficultyBytes + 2
        Sum[i \in 0..n] == IF i = 0 THEN 0 ELSE Sum[i - 1] * Base + h[i]
    IN  Sum[n]

\* A nonce is a result if and only if the number its digest begins with is at
\* most the complement of the difficulty: the byte-wise construction of the
\* ceiling and the byte-wise comparison agree with arithmetic, at every
\* difficulty.  Without a job every digest passes.
CeilingIsNumeric ==
    stage = "encoded" =>
        (accepted <=> \/ difficulty = NoDifficulty
                      \/ Leading(hash) <= MaxDifficulty - difficulty)
=============================================================================
