----------------------------- MODULE Argon2Fill -----------------------------
(***************************************************************************)
(* How the memory of one hash is filled: by fill_memory_blocks on a CPU    *)
(* (hash/cpu/argon2_opt/implementation.c), which takes one lane after the  *)
(* other, and by the kernels fill_blocks of OpenCL and CUDA, in which the  *)
(* lanes run side by side and meet at barriers.                            *)
(*                                                                         *)
(* The contents of a block are abstracted to how often it was written; the *)
(* mixing of two blocks into a third is not modelled.  What is modelled is *)
(* which blocks a step reads, when it reads them and when it writes.  The  *)
(* work items of a lane run in step.                                       *)
(***************************************************************************)
EXTENDS Integers, FiniteSets

CONSTANTS
    LaneCount,  \* profile->thr_cost
    SegLength,  \* profile->seg_size
    Passes,     \* profile->tm_cost
    RandRange,  \* values of each half of pseudo_rand: 2^32
    Chunk       \* references CUDA copies to shared memory at a time: 32

ASSUME FillAssumption ==
    /\ {LaneCount, Passes, RandRange, Chunk} \subseteq Nat \ {0}
    /\ SegLength \in Nat /\ SegLength > 2

Lanes == 0..(LaneCount - 1)
LaneLength == 4 * SegLength
Blocks == 0..(LaneCount * LaneLength - 1)
Segments == 4 * Passes      \* of one lane: seg_count / thr_cost

VARIABLES
    device,     \* who fills: "cpu", "opencl" or "cuda"
    lpc,        \* where each lane is
    seg,        \* its segment s
    idx,        \* its index i in the segment
    mem,        \* how often each block was written
    reads,      \* what a lane has read and not used up
    scratch,    \* the lanes' last blocks ready for the sum, and their writes
    out         \* what is summed up in the result

vars == <<device, lpc, seg, idx, mem, reads, scratch, out>>

-----------------------------------------------------------------------------
(* The profile: segments and block_refs of argon2profile_2_2_2048.c.       *)

pass(s) == s \div 4
slice(s) == s % 4

\* Fault: the first segment begins at 0 too.
first_idx_zero(s) == 0

first_idx(s) == IF s = 0 THEN 2 ELSE 0

\* current_idx, previous_idx and seg_type of a row of the segments.
cur_idx(s, lane, i) == lane * LaneLength + slice(s) * SegLength + i
prev_idx(s, lane) ==
    lane * LaneLength
        + ((slice(s) * SegLength + first_idx(s) - 1) % LaneLength)

seg_type(s) == IF s < 2 THEN 0 ELSE 1

\* Fault: the previous block may be referenced.
area_size_previous(s, lane, i, ref_lane) ==
    (IF pass(s) > 0 THEN LaneLength - SegLength ELSE slice(s) * SegLength)
        + (IF lane = ref_lane THEN i ELSE IF i = 0 THEN -1 ELSE 0)

\* The reference area of the data-dependent branch.
area_size(s, lane, i, ref_lane) ==
    (IF pass(s) > 0 THEN LaneLength - SegLength ELSE slice(s) * SegLength)
        + (IF lane = ref_lane THEN i - 1 ELSE IF i = 0 THEN -1 ELSE 0)

relative_position(area, rand) ==
    LET square == (rand * rand) \div RandRange
    IN  area - 1 - (area * square) \div RandRange

\* Where the area begins.
area_start(s) ==
    IF pass(s) > 0 /\ slice(s) < 3 THEN (slice(s) + 1) * SegLength ELSE 0

\* ref_idx of the CPU code and of CUDA.
ref_idx(s, lane, i, ref_lane, rand) ==
    ref_lane * LaneLength
        + ((area_start(s)
              + relative_position(area_size(s, lane, i, ref_lane), rand))
           % LaneLength)

\* ref_idx of the OpenCL kernel: bit operations on two lanes of four segments
\* whose length is a power of two, in two passes.
ref_idx_opencl(s, lane, i, ref_lane, rand) ==
    LET test1 == IF ref_lane = lane THEN 0 ELSE 1
        test2 == IF i < 1 THEN i ELSE 1
        area  == (IF s < 3 THEN s ELSE 3) * SegLength
                    + (IF test1 = 0 THEN i ELSE 0) - (1 - test2 * test1)
        start == IF s \div 4 = 1 /\ s # 7 THEN (s - 3) * SegLength ELSE 0
    IN  ref_lane * LaneLength
            + ((start + relative_position(area, rand)) % LaneLength)

\* A data-independent reference is any row the tables may have: what the
\* formula above gives, in the first segment in the lane itself.
Refs(s, lane, i) ==
    {ref_idx(s, lane, i, r, rand) :
        r \in IF s = 0 THEN {lane} ELSE Lanes, rand \in 0..(RandRange - 1)}

-----------------------------------------------------------------------------

\* Seed blocks: __fill_first_blocks, or the copy at the head of the kernels.
Init ==
    /\ device \in {"cpu", "opencl", "cuda"}
    /\ lpc = [l \in Lanes |-> "begin"]
    /\ seg = [l \in Lanes |-> 0]
    /\ idx = [l \in Lanes |-> 0]
    /\ mem = [b \in Blocks |-> IF b % LaneLength < 2 THEN 1 ELSE 0]
    /\ reads = [l \in Lanes |-> {}]
    /\ scratch = {}
    /\ out = {}

ReadOf(block, i) == [block |-> block, version |-> mem[block], i |-> i]

\* The CPU takes lane after lane, segment by segment.
Turn(l) == device = "cpu" => /\ \A k \in 0..(l - 1) : seg[k] > seg[l]
                             /\ \A k \in Lanes : seg[k] >= seg[l]

\* Fault: CUDA's __syncthreads at the head of a segment is missing.
begin_segment_unsynchronized(l) ==
    /\ lpc[l] = "begin"
    /\ seg[l] < Segments
    /\ Turn(l)
    /\ idx' = [idx EXCEPT ![l] = first_idx(seg[l])]
    /\ reads' = [reads EXCEPT
                  ![l] = {ReadOf(prev_idx(seg[l], l), first_idx(seg[l]))}]
    /\ lpc' = [lpc EXCEPT ![l] = "load"]
    /\ UNCHANGED <<device, seg, mem, scratch, out>>

\* The head of a segment: the previous block is loaded; CUDA synchronizes.
begin_segment(l) ==
    /\ lpc[l] = "begin"
    /\ seg[l] < Segments
    /\ Turn(l)
    /\ idx' = [idx EXCEPT ![l] = first_idx(seg[l])]
    /\ reads' = [reads EXCEPT
                  ![l] = {ReadOf(prev_idx(seg[l], l), first_idx(seg[l]))}]
    /\ lpc' = [lpc EXCEPT ![l] = IF device = "cuda" THEN "sync" ELSE "load"]
    /\ UNCHANGED <<device, seg, mem, scratch, out>>

\* __syncthreads at the head of a segment.
syncthreads ==
    /\ \A l \in Lanes : lpc[l] = "sync"
    /\ lpc' = [l \in Lanes |-> "load"]
    /\ UNCHANGED <<device, seg, idx, mem, reads, scratch, out>>

\* The kernels load the next reference before they store a block, where
\* references come from the table; CUDA not from one chunk to the next.
Prefetches(l) ==
    /\ device # "cpu"
    /\ seg_type(seg[l]) = 0
    /\ idx[l] < SegLength - 1
    /\ device = "cuda" => (idx[l] - first_idx(seg[l]) + 1) % Chunk # 0

\* The reference of this step unless it was loaded before, the block to be
\* overwritten where it is mixed in (with_xor), the next reference.
load(l) ==
    LET s == seg[l]
        i == idx[l]
        Ahead == \E r \in reads[l] : r.i = i /\ r.block # prev_idx(s, l)
        Now  == IF Ahead THEN {{}}
                         ELSE {{ReadOf(b, i)} : b \in Refs(s, l, i)}
        Then == IF Prefetches(l)
                  THEN {{ReadOf(b, i + 1)} : b \in Refs(s, l, i + 1)}
                  ELSE {{}}
        Old  == IF pass(s) = 0 THEN {} ELSE {ReadOf(cur_idx(s, l, i), i)}
    IN  /\ lpc[l] = "load"
        /\ Turn(l)
        /\ \E now \in Now, then \in Then :
              reads' = [reads EXCEPT ![l] = @ \cup now \cup then \cup Old]
        /\ lpc' = [lpc EXCEPT ![l] = "store"]
        /\ UNCHANGED <<device, seg, idx, mem, scratch, out>>

\* Where a lane goes after a block, and what it is at then.
AfterBlock(S) ==
    LET Last(l) == idx[l] + 1 = SegLength
    IN  /\ lpc' = [l \in Lanes |-> IF l \notin S THEN lpc[l]
                                   ELSE IF Last(l) THEN "begin" ELSE "load"]
        /\ idx' = [l \in Lanes |-> IF l \in S THEN (idx[l] + 1) % SegLength
                                             ELSE idx[l]]
        /\ seg' = [l \in Lanes |-> IF l \in S /\ Last(l) THEN seg[l] + 1
                                                        ELSE seg[l]]
        /\ reads' = [l \in Lanes |->
                        {r \in reads[l] : l \in S => r.i > idx[l]}]

\* The block is written; OpenCL's work group then meets at a barrier.
store(l) ==
    /\ lpc[l] = "store"
    /\ mem' = [mem EXCEPT ![cur_idx(seg[l], l, idx[l])] = @ + 1]
    /\ IF device = "opencl"
         THEN /\ lpc' = [lpc EXCEPT ![l] = "barrier"]
              /\ UNCHANGED <<seg, idx, reads>>
         ELSE AfterBlock({l})
    /\ UNCHANGED <<device, scratch, out>>

barrier ==
    /\ \A l \in Lanes : lpc[l] = "barrier"
    /\ AfterBlock(Lanes)
    /\ UNCHANGED <<device, mem, scratch, out>>

\* The last block of a lane is left in shared memory (kernels) or is there in
\* the memory (the row of "final xors").
final_block(l) ==
    /\ lpc[l] = "begin"
    /\ seg[l] = Segments
    /\ scratch' = scratch
         \cup {<<l, mem[cur_idx(seg[l] - 1, l, SegLength - 1)]>>}
    /\ lpc' = [lpc EXCEPT ![l] = "final"]
    /\ UNCHANGED <<device, seg, idx, mem, reads, out>>

\* Fault: the first lane does not wait for the others.
final_sum_early ==
    /\ lpc[0] = "final"
    /\ out = {}
    /\ out' = scratch
    /\ UNCHANGED <<device, lpc, seg, idx, mem, reads, scratch>>

\* After a barrier the first lane adds up the last blocks.
final_sum ==
    /\ \A l \in Lanes : lpc[l] = "final"
    /\ out' = scratch
    /\ lpc' = [l \in Lanes |-> "done"]
    /\ UNCHANGED <<device, seg, idx, mem, reads, scratch>>

Filled ==
    /\ \A l \in Lanes : lpc[l] = "done"
    /\ UNCHANGED vars

Next ==
    \/ \E l \in Lanes :
          begin_segment(l) \/ load(l) \/ store(l) \/ final_block(l)
    \/ syncthreads \/ barrier \/ final_sum \/ Filled

Spec == Init /\ [][Next]_vars

-----------------------------------------------------------------------------
(* Properties.                                                             *)

\* Every block is written at most once in a pass, the seeds counted, and
\* only blocks of this hash are read.
TypeOK ==
    /\ lpc \in [Lanes -> {"begin", "sync", "load", "store", "barrier",
                          "final", "done"}]
    /\ seg \in [Lanes -> 0..Segments]
    /\ idx \in [Lanes -> 0..(SegLength - 1)]
    /\ mem \in [Blocks -> 0..Passes]
    /\ \A l \in Lanes : \A r \in reads[l] : r.block \in Blocks

\* How often block b is written before step i of segment s of lane l when the
\* lanes are filled one after the other.
Sequential(s, l, i, b) ==
    LET lane == b \div LaneLength
        j    == b % LaneLength
        own  == j \div SegLength
        done == \/ own < slice(s)
                \/ own = slice(s) /\ lane < l
                \/ own = slice(s) /\ lane = l /\ j % SegLength < i
                \/ s < 4 /\ j < 2
    IN  IF done THEN pass(s) + 1 ELSE pass(s)

\* Whatever the lanes' speeds, every block a lane reads, early or not, holds
\* what the sequential algorithm would find there, and was written before:
\* GPU and CPU compute the same hash.
ReadsAsSequential ==
    \A l \in Lanes : \A r \in reads[l] :
        r.version > 0 /\ r.version = Sequential(seg[l], l, r.i, r.block)

\* The blocks Argon2 allows as reference: in the lane itself those of the
\* last three slices and of this one so far, but for the previous block; in
\* another lane those of the last three slices, at the start of a slice but
\* for the last of them.
Allowed(s, l, i, ref_lane) ==
    LET before == (slice(s) * SegLength + i - 1) % LaneLength
        Written(j) == \/ j \div SegLength < slice(s)
                      \/ j \div SegLength > slice(s) /\ pass(s) > 0
                      \/ /\ j \div SegLength = slice(s) /\ ref_lane = l
                         /\ j % SegLength < i
    IN  {ref_lane * LaneLength + j :
            j \in {j \in 0..(LaneLength - 1) : Written(j)}
                    \ (IF ref_lane = l \/ i = 0 THEN {before} ELSE {})}

\* The index arithmetic of the CPU and CUDA code reaches exactly the blocks
\* Argon2 allows, and OpenCL's bit operations give the same block for the same
\* random number.
ReferencesAllowed ==
    \A l \in Lanes : lpc[l] = "load" /\ seg_type(seg[l]) = 1 =>
        \A r \in Lanes :
            LET Ref(rand) == ref_idx(seg[l], l, idx[l], r, rand)
            IN  /\ {Ref(rand) : rand \in 0..(RandRange - 1)}
                     = Allowed(seg[l], l, idx[l], r)
                /\ \A rand \in 0..(RandRange - 1) :
                     ref_idx_opencl(seg[l], l, idx[l], r, rand) = Ref(rand)

\* The result is made of the last block of every lane, after its last pass.
ResultOfAllLanes == out \in {{}, Lanes \X {Passes}}
=============================================================================
