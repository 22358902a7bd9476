------------------------------ MODULE Blake2b -------------------------------
(***************************************************************************)
(* hash/argon2/blake2/blake2b.c: a message fed in pieces of any length     *)
(* (blake2b_update, blake2b_update_static, blake2b_final), and the         *)
(* variable-length output of blake2b_long.                                 *)
(*                                                                         *)
(* The compression function is not modelled: what is kept of a call is the *)
(* block it was given, the counter and the flag of the last block, which   *)
(* determine the digest.  A byte of the message is its position in it,     *)
(* Static for one written by blake2b_update_static, Zero for padding.      *)
(***************************************************************************)
EXTENDS Integers, Sequences

CONSTANTS
    BlockBytes,     \* BLAKE2B_BLOCKBYTES: 128
    OutBytes,       \* BLAKE2B_OUTBYTES: 64
    MaxMessage      \* bound on the length of a message

ASSUME Blake2bAssumption ==
    /\ {BlockBytes, MaxMessage} \subseteq Nat \ {0}
    /\ OutBytes \in Nat \ {0} /\ OutBytes % 2 = 0

Static == -1
Zero == 0

VARIABLES
    bpc,        \* where the hash is
    buf,        \* the first buflen bytes of S->buf
    rest,       \* what update has still to take in
    counter,    \* S->t
    compressed, \* the calls of blake2b_compress
    fed,        \* history: the message so far
    outlen,     \* blake2b_long's outlen
    toproduce,  \* its toproduce
    produced    \* bytes it has copied from each digest

streamVars == <<buf, rest, counter, compressed, fed>>
longVars == <<outlen, toproduce, produced>>
blakeVars == <<bpc, streamVars, longVars>>

Blake2bInit ==
    /\ bpc = "idle"
    /\ buf = <<>>
    /\ rest = <<>>
    /\ counter = 0
    /\ compressed = <<>>
    /\ fed = <<>>
    /\ outlen = 0
    /\ toproduce = 0
    /\ produced = <<>>

\* blake2b_increment_counter and blake2b_compress.
compress(block, inc, last) ==
    /\ counter' = counter + inc
    /\ compressed' = Append(compressed, [block |-> block, t |-> counter + inc,
                                         last |-> last])

\* The first n bytes of a piece, and the others.
Front(in, n) == SubSeq(in, 1, n)
Back(in, n) == SubSeq(in, n + 1, Len(in))

\* Fault: a block that is full is compressed at once.
Overflows_full(n) == Len(buf) + n >= BlockBytes

\* "Complete current block"; a block that is just full may be the last.
Overflows(n) == Len(buf) + n > BlockBytes

\* The head of blake2b_update and blake2b_update_static.
update_stream(in) ==
    LET fill == BlockBytes - Len(buf)
    IN  /\ bpc = "idle"
        /\ fed' = fed \o in
        /\ IF Overflows(Len(in))
             THEN /\ compress(buf \o Front(in, fill), BlockBytes, FALSE)
                  /\ buf' = <<>>
                  /\ rest' = Back(in, fill)
                  /\ bpc' = "loop"
             ELSE /\ buf' = buf \o in
                  /\ UNCHANGED <<rest, counter, compressed, bpc>>
        /\ UNCHANGED longVars

\* blake2b_update and blake2b_update_static with n bytes.
blake2b_update(n) == update_stream([i \in 1..n |-> Len(fed) + i])
blake2b_update_static(n) == update_stream([i \in 1..n |-> Static])

\* "Avoid buffer copies when possible".
update_loop ==
    /\ bpc = "loop"
    /\ Len(rest) > BlockBytes
    /\ compress(Front(rest, BlockBytes), BlockBytes, FALSE)
    /\ rest' = Back(rest, BlockBytes)
    /\ UNCHANGED <<bpc, buf, fed, longVars>>

update_end ==
    /\ bpc = "loop"
    /\ Len(rest) <= BlockBytes
    /\ buf' = buf \o rest
    /\ rest' = <<>>
    /\ bpc' = "idle"
    /\ UNCHANGED <<counter, compressed, fed, longVars>>

\* Padded with zeros to a whole block.
Padded(b) == b \o [i \in 1..(BlockBytes - Len(b)) |-> Zero]

blake2b_final ==
    /\ bpc = "idle"
    /\ compress(Padded(buf), Len(buf), TRUE)
    /\ bpc' = "final"
    /\ UNCHANGED <<buf, rest, fed, longVars>>

\* blake2b_long: up to OutBytes at once, else half of the first digest.
long_begin(n) ==
    /\ outlen' = n
    /\ IF n <= OutBytes
         THEN /\ produced' = <<n>>
              /\ toproduce' = 0
              /\ bpc' = "produced"
         ELSE /\ produced' = <<OutBytes \div 2>>
              /\ toproduce' = n - OutBytes \div 2
              /\ bpc' = "long"
    /\ UNCHANGED streamVars

\* Fault: one digest too many is halved.
HalfOnly_full(n) == n >= OutBytes

\* While more than a digest is to be produced, half of one is used.
HalfOnly(n) == n > OutBytes

long_loop ==
    /\ bpc = "long"
    /\ HalfOnly(toproduce)
    /\ produced' = Append(produced, OutBytes \div 2)
    /\ toproduce' = toproduce - OutBytes \div 2
    /\ UNCHANGED <<bpc, outlen, streamVars>>

long_last ==
    /\ bpc = "long"
    /\ ~HalfOnly(toproduce)
    /\ produced' = Append(produced, toproduce)
    /\ toproduce' = 0
    /\ bpc' = "produced"
    /\ UNCHANGED <<outlen, streamVars>>

-----------------------------------------------------------------------------
(* Properties.                                                             *)

CeilDiv(n, d) == (n + d - 1) \div d
Least(a, b) == IF a < b THEN a ELSE b

\* However the message was cut into pieces, the compression function was given
\* its blocks in order, each once with the count of bytes up to its end, and
\* the last one, which is whole or padded, alone with the flag.
StreamAsOneMessage ==
    bpc = "final" =>
        LET n == Len(fed)
            k == IF n = 0 THEN 1 ELSE CeilDiv(n, BlockBytes)
        IN  compressed =
              [i \in 1..k |->
                 [block |-> Padded(SubSeq(fed, (i - 1) * BlockBytes + 1,
                                          Least(i * BlockBytes, n))),
                  t     |-> Least(i * BlockBytes, n),
                  last  |-> i = k]]

\* blake2b_long is Argon2's H': of r = ceil(n / 32) - 2 digests the first half,
\* of one more what is left, which is more than half a digest.
LongOutput ==
    bpc = "produced" =>
        LET half == OutBytes \div 2
            r    == CeilDiv(outlen, half) - 2
        IN  produced = IF outlen <= OutBytes THEN <<outlen>>
                       ELSE [i \in 1..(r + 1) |->
                               IF i <= r THEN half ELSE outlen - r * half]
=============================================================================
