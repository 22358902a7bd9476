----------------------------- MODULE ShareLedger -----------------------------
(***************************************************************************)
(* What the miner promises of a nonce it has found, whatever its threads   *)
(* do: it is submitted to the pool once, or dropped because its block has  *)
(* expired, and never both.                                                *)
(***************************************************************************)
EXTENDS Naturals

CONSTANT Nonces

VARIABLES
    status,     \* of each nonce: "unknown", "found", "sent" or "expired"
    sends       \* how often it was submitted

Init ==
    /\ status = [n \in Nonces |-> "unknown"]
    /\ sends = [n \in Nonces |-> 0]

Find(n) ==
    /\ status[n] = "unknown"
    /\ status' = [status EXCEPT ![n] = "found"]
    /\ UNCHANGED sends

Send(n) ==
    /\ status[n] = "found"
    /\ status' = [status EXCEPT ![n] = "sent"]
    /\ sends' = [sends EXCEPT ![n] = @ + 1]

Drop(n) ==
    /\ status[n] = "found"
    /\ status' = [status EXCEPT ![n] = "expired"]
    /\ UNCHANGED sends

Next == \E n \in Nonces : Find(n) \/ Send(n) \/ Drop(n)

Spec == Init /\ [][Next]_<<status, sends>>
=============================================================================
