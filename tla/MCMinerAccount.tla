--------------------------- MODULE MCMinerAccount ---------------------------
(* Constants for checking module MinerAccount with TLC. *)
EXTENDS MinerAccount, TLC

CONSTANTS p1, p2, wu, wd, w3

Entry(wallet, pool) == [wallet |-> wallet, pool |-> pool]

\* No answer; the developer on a pool of their own.
Urls == {{}, {Entry(w3, p2)}}

\* No file yet: those of an earlier process are reached by a restart.
Files == {{}}

\* The file beside the program: the developer on the user's pool.
Installed == {Entry(wd, AnyPool)}

Extensions == {{}, {"Proxy"}}

\* Checksums are only compared with each other.
ChecksumSymmetry == Permutations(Checksums)
=============================================================================
