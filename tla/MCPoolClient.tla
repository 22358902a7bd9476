---------------------------- MODULE MCPoolClient ----------------------------
(* Constants for checking module PoolClient with TLC. *)
EXTENDS PoolClient

CONSTANTS p1, p2, wu, wd, w3

Entry(wallet, pool) == [wallet |-> wallet, pool |-> pool]

\* No answer, the developer on the user's pool, the developer on a pool of
\* their own or on the user's.
Urls == {{}, {Entry(w3, AnyPool)}, {Entry(w3, p2), Entry(wd, AnyPool)}}

\* No file yet, and one of an earlier run.
Files == {{}, {Entry(w3, p2)}}

NoDocument == {}

Extensions == {{"Details"}, {"Proxy"}}
=============================================================================
