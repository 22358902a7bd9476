---------------------------- MODULE Argon2Proofs ----------------------------
(***************************************************************************)
(* Theorems about modules Argon2Fill, Blake2b and Argon2Hash: the lanes    *)
(* read what the sequential algorithm would find, references are exactly   *)
(* the allowed ones, a message may be hashed in pieces, and the ceiling    *)
(* says what its difficulty does.                                          *)
(***************************************************************************)
EXTENDS Argon2Hash, Counting, SequenceTheorems, TLAPS

USE FillAssumption

-----------------------------------------------------------------------------
(* Where a block is: in slot k of its lane, at offset j.                   *)

Slots == 0..3
Offsets == 0..(SegLength - 1)

At(lane, k, j) == lane * LaneLength + k * SegLength + j

\* Quotient and remainder of a sum.
LEMMA DivMod ==
  ASSUME NEW n \in Nat \ {0}, NEW a \in Nat, NEW x \in 0..(n - 1)
  PROVE  (a * n + x) \div n = a /\ (a * n + x) % n = x
  BY SMTT(30)

\* What a quotient leaves.
LEMMA DivRest ==
  ASSUME NEW n \in Nat \ {0}, NEW b \in Nat
  PROVE  b \div n \in Nat /\ b - (b \div n) * n \in 0..(n - 1)
  BY SMTT(30)

\* A segment has more than the two blocks the first one skips.
LEMMA SegLengthType == SegLength \in Nat /\ SegLength > 2
  OBVIOUS

\* A lane has four segments.
LEMMA LaneLengthType == LaneLength \in Nat \ {0} /\ LaneLength = 4 * SegLength
  BY DEF LaneLength

\* A position in a lane.
LEMMA InLane ==
  ASSUME NEW k \in Slots, NEW j \in Offsets
  PROVE  /\ k * SegLength + j \in 0..(LaneLength - 1)
         /\ (k * SegLength + j) \div SegLength = k
         /\ (k * SegLength + j) % SegLength = j
  <1>1. k * SegLength + j \in 0..(LaneLength - 1)
    BY SegLengthType, LaneLengthType DEF Slots, Offsets
  <1>2. SegLength \in Nat \ {0} /\ k \in Nat /\ j \in 0..(SegLength - 1)
    BY SegLengthType DEF Slots, Offsets
  <1> QED
    BY <1>1, <1>2, DivMod

\* An index in a lane lies in one of its segments.
LEMMA LaneExists ==
  ASSUME NEW x \in 0..(LaneLength - 1)
  PROVE  \E k \in Slots, j \in Offsets : x = k * SegLength + j
  <1>1. CASE x < SegLength
    <2>1. 0 \in Slots /\ x \in Offsets /\ x = 0 * SegLength + x
      BY <1>1, SegLengthType, LaneLengthType DEF Slots, Offsets
    <2> QED
      BY <2>1
  <1>2. CASE x >= SegLength /\ x < 2 * SegLength
    <2>1. /\ 1 \in Slots /\ x - SegLength \in Offsets
          /\ x = 1 * SegLength + (x - SegLength)
      BY <1>2, SegLengthType, LaneLengthType DEF Slots, Offsets
    <2> QED
      BY <2>1
  <1>3. CASE x >= 2 * SegLength /\ x < 3 * SegLength
    <2>1. /\ 2 \in Slots /\ x - 2 * SegLength \in Offsets
          /\ x = 2 * SegLength + (x - 2 * SegLength)
      BY <1>3, SegLengthType, LaneLengthType DEF Slots, Offsets
    <2> QED
      BY <2>1
  <1>4. CASE x >= 3 * SegLength
    <2>1. /\ 3 \in Slots /\ x - 3 * SegLength \in Offsets
          /\ x = 3 * SegLength + (x - 3 * SegLength)
      BY <1>4, SegLengthType, LaneLengthType DEF Slots, Offsets
    <2> QED
      BY <2>1
  <1> QED
    BY <1>1, <1>2, <1>3, <1>4, SegLengthType, LaneLengthType

\* A block of lane l.
LEMMA BlockInLane ==
  ASSUME NEW lane \in Lanes, NEW x \in 0..(LaneLength - 1)
  PROVE  /\ lane * LaneLength + x \in Blocks
         /\ (lane * LaneLength + x) \div LaneLength = lane
         /\ (lane * LaneLength + x) % LaneLength = x
  <1>1. lane \in Nat /\ lane <= LaneCount - 1 /\ LaneCount \in Nat
    BY DEF Lanes
  <1> DEFINE ll == LaneLength
  <1>2. ll \in Nat \ {0} /\ x \in 0..(ll - 1)
    BY LaneLengthType
  <1> HIDE DEF ll
  <1>3. lane * ll + x \in 0..(LaneCount * ll - 1)
    <2>1. lane * ll \in Nat
      BY <1>1, <1>2, SMTT(30)
    <2>2. lane * ll + ll <= LaneCount * ll
      BY <1>1, <1>2, SMTT(30)
    <2> DEFINE a == lane * ll
               c == LaneCount * ll
    <2>3. a \in Nat /\ a + ll <= c /\ c \in Nat
      BY <1>1, <1>2, <2>1, <2>2, SMTT(30)
    <2> HIDE DEF a, c
    <2>4. a + x \in 0..(c - 1)
      BY <1>2, <2>3
    <2> QED
      BY <2>4 DEF a, c
  <1>4. (lane * ll + x) \div ll = lane /\ (lane * ll + x) % ll = x
    BY <1>1, <1>2, DivMod
  <1> QED
    BY <1>3, <1>4 DEF ll, Blocks

\* The lane and the index in it of a block, by division.
LEMMA AtBlock ==
  ASSUME NEW lane \in Lanes, NEW k \in Slots, NEW j \in Offsets
  PROVE  /\ At(lane, k, j) \in Blocks
         /\ At(lane, k, j) \div LaneLength = lane
         /\ At(lane, k, j) % LaneLength = k * SegLength + j
         /\ At(lane, k, j) = lane * LaneLength + (k * SegLength + j)
  <1>1. k * SegLength + j \in 0..(LaneLength - 1)
    BY InLane
  <1>2. At(lane, k, j) = lane * LaneLength + (k * SegLength + j)
    <2> DEFINE a == lane * LaneLength
               b == k * SegLength
    <2>1. a \in Nat /\ b \in Nat /\ j \in Nat
      BY SegLengthType, LaneLengthType, SMTT(30) DEF Lanes, Slots, Offsets
    <2> HIDE DEF a, b
    <2>2. a + b + j = a + (b + j)
      BY <2>1
    <2> QED
      BY <2>2 DEF a, b, At
  <1> QED
    BY <1>1, <1>2, BlockInLane

\* Every block has a lane, a segment and an offset.
LEMMA BlockAt ==
  ASSUME NEW b \in Blocks
  PROVE  \E lane \in Lanes, k \in Slots, j \in Offsets : b = At(lane, k, j)
  <1> DEFINE ll == LaneLength
             lane == b \div ll
             x == b - lane * ll
  <1>1. ll \in Nat \ {0} /\ b \in Nat /\ LaneCount \in Nat \ {0}
    BY LaneLengthType DEF Blocks
  <1>2. lane \in Nat /\ x \in 0..(ll - 1) /\ b = lane * ll + x
    <2>1. lane \in Nat /\ x \in 0..(ll - 1)
      BY <1>1, DivRest
    <2>2. lane * ll \in Nat
      BY <1>1, <2>1, SMTT(30)
    <2> QED
      BY <1>1, <2>1, <2>2
  <1>3. b < LaneCount * ll
    <2>1. LaneCount * ll \in Nat
      BY <1>1, SMTT(30)
    <2> QED
      BY <2>1 DEF Blocks
  <1> HIDE DEF ll, lane, x
  <1>4. lane < LaneCount
    <2>1. SUFFICES ASSUME lane >= LaneCount PROVE FALSE
      BY <1>1, <1>2
    <2>2. lane * ll >= LaneCount * ll
      BY <1>1, <1>2, <2>1, SMTT(30)
    <2> QED
      BY <1>1, <1>2, <1>3, <2>2, SMTT(30)
  <1>5. lane \in Lanes
    BY <1>1, <1>2, <1>4 DEF Lanes
  <1>6. PICK k \in Slots, j \in Offsets : x = k * SegLength + j
    BY <1>2, LaneExists DEF ll
  <1>7. b = At(lane, k, j)
    BY <1>2, <1>5, <1>6, AtBlock DEF ll
  <1> QED
    BY <1>5, <1>7

\* No two places are the same block.
LEMMA AtInjective ==
  ASSUME NEW lane \in Lanes, NEW k \in Slots, NEW j \in Offsets,
         NEW lane2 \in Lanes, NEW k2 \in Slots, NEW j2 \in Offsets,
         At(lane, k, j) = At(lane2, k2, j2)
  PROVE  lane = lane2 /\ k = k2 /\ j = j2
  <1>1. lane = lane2 /\ k * SegLength + j = k2 * SegLength + j2
    BY AtBlock
  <1> QED
    BY <1>1, InLane
-----------------------------------------------------------------------------
(* Segments.                                                               *)

\* Pass and slice of the segments, counted through all passes.
LEMMA SegmentParts ==
  ASSUME NEW s \in Nat
  PROVE  /\ pass(s) \in Nat /\ slice(s) \in Slots
         /\ pass(s) = 0 <=> s < 4
         /\ slice(s) < 3 => /\ slice(s + 1) = slice(s) + 1
                            /\ pass(s + 1) = pass(s)
         /\ slice(s) = 3 => slice(s + 1) = 0 /\ pass(s + 1) = pass(s) + 1
         /\ s > 0 /\ slice(s) = 0 => s >= 4
         /\ s = 0 => slice(s) = 0
  BY DEF pass, slice, Slots

\* The filling ends at the end of a pass.
LEMMA SegmentsType ==
  /\ Segments \in Nat /\ Segments >= 4
  /\ pass(Segments) = Passes /\ slice(Segments) = 0
  /\ \A s \in Nat : s < Segments => pass(s) + 1 <= Passes
  BY DEF Segments, pass, slice

\* How often the block at offset j of slot k of a lane is written before step
\* i of segment s of lane l: Sequential, in these terms.
CountAt(s, l, i, lane, k, j) ==
    IF \/ k < slice(s)
       \/ k = slice(s) /\ lane < l
       \/ k = slice(s) /\ lane = l /\ j < i
       \/ s < 4 /\ k = 0 /\ j < 2
      THEN pass(s) + 1 ELSE pass(s)

\* The sequential count of a block by its lane, segment and offset.
LEMMA SequentialAt ==
  ASSUME NEW s \in Nat, NEW l \in Lanes, NEW i \in Nat,
         NEW lane \in Lanes, NEW k \in Slots, NEW j \in Offsets
  PROVE  Sequential(s, l, i, At(lane, k, j)) = CountAt(s, l, i, lane, k, j)
  <1>1. /\ At(lane, k, j) \div LaneLength = lane
        /\ At(lane, k, j) % LaneLength = k * SegLength + j
        /\ (k * SegLength + j) \div SegLength = k
        /\ (k * SegLength + j) % SegLength = j
    BY AtBlock, InLane
  <1>2. k * SegLength + j < 2 <=> k = 0 /\ j < 2
    BY SegLengthType DEF Slots, Offsets
  <1> DEFINE b == At(lane, k, j)
             x == k * SegLength + j
  <1>3. Sequential(s, l, i, b) =
          IF \/ (b % LaneLength) \div SegLength < slice(s)
             \/ (b % LaneLength) \div SegLength = slice(s)
                  /\ b \div LaneLength < l
             \/ (b % LaneLength) \div SegLength = slice(s)
                  /\ b \div LaneLength = l
                  /\ (b % LaneLength) % SegLength < i
             \/ s < 4 /\ b % LaneLength < 2
            THEN pass(s) + 1 ELSE pass(s)
    BY DEF Sequential
  <1>4. /\ b \div LaneLength = lane /\ b % LaneLength = x
        /\ x \div SegLength = k /\ x % SegLength = j
        /\ x < 2 <=> k = 0 /\ j < 2
    BY <1>1, <1>2
  <1> HIDE DEF b, x
  <1>5. Sequential(s, l, i, b) = CountAt(s, l, i, lane, k, j)
    BY <1>3, <1>4, Zenon DEF CountAt
  <1> QED
    BY <1>5 DEF b

\* A count is a number, one more than the pass at most.
LEMMA CountType ==
  ASSUME NEW s \in Nat, NEW l, NEW i, NEW lane, NEW k, NEW j
  PROVE  /\ CountAt(s, l, i, lane, k, j) \in Nat
         /\ CountAt(s, l, i, lane, k, j) >= pass(s)
         /\ CountAt(s, l, i, lane, k, j) <= pass(s) + 1
  BY SegmentParts DEF CountAt

\* Before the third block of the first segment nothing is written but the
\* seeds.
LEMMA CountAtBegin ==
  ASSUME NEW s \in Nat, NEW l \in Lanes, NEW k \in Slots, NEW j \in Offsets
  PROVE  CountAt(s, l, first_idx(s), l, k, j) = CountAt(s, l, 0, l, k, j)
  BY SegmentParts DEF CountAt, first_idx, Lanes, Slots, Offsets

\* A segment done is the next one begun.
LEMMA CountAtEnd ==
  ASSUME NEW s \in Nat, NEW l \in Lanes, NEW k \in Slots, NEW j \in Offsets
  PROVE  CountAt(s, l, SegLength, l, k, j) = CountAt(s + 1, l, 0, l, k, j)
  BY SegmentParts, SegLengthType DEF CountAt, Lanes, Slots, Offsets

\* A store counts for the block at hand and no other.
LEMMA CountAtStore ==
  ASSUME NEW s \in Nat, NEW l \in Lanes, NEW k \in Slots, NEW j \in Offsets,
         NEW i \in Offsets, i >= first_idx(s)
  PROVE  CountAt(s, l, i + 1, l, k, j) =
           IF k = slice(s) /\ j = i THEN CountAt(s, l, i, l, k, j) + 1
                                    ELSE CountAt(s, l, i, l, k, j)
  BY SegmentParts, SegLengthType
     DEF CountAt, first_idx, Lanes, Slots, Offsets

\* Outside the slice at hand, a lane that is in the same segment or at the
\* start of the next one counts the same.
LEMMA CountOfOther ==
  ASSUME NEW s \in Nat, NEW l \in Lanes, NEW i \in Nat,
         NEW r \in Lanes, NEW k \in Slots, NEW j \in Offsets, k # slice(s),
         NEW t \in Nat, NEW p \in Nat, t = s \/ (t = s + 1 /\ p = 0)
  PROVE  CountAt(t, r, p, r, k, j) = CountAt(s, l, i, r, k, j)
  <1>1. CASE t = s
    BY <1>1, SegmentParts DEF CountAt, Lanes, Slots, Offsets
  <1>2. CASE t = s + 1 /\ p = 0
    BY <1>2, SegmentParts DEF CountAt, Lanes, Slots, Offsets
  <1> QED
    BY <1>1, <1>2

-----------------------------------------------------------------------------
(* References.                                                             *)

\* The mapping of a random number is into the area.
LEMMA PositionInArea ==
  ASSUME NEW area \in Nat \ {0}, NEW rand \in 0..(RandRange - 1)
  PROVE  relative_position(area, rand) \in 0..(area - 1)
  <1> DEFINE n == RandRange
             square == (rand * rand) \div n
             q == (area * square) \div n
  <1>1. n \in Nat \ {0} /\ rand \in Nat /\ rand < n
    OBVIOUS
  <1> HIDE DEF n
  <1>2. rand * rand \in Nat /\ rand * rand < n * n
    BY <1>1, SMTT(30)
  <1>3. square \in Nat /\ square < n
    <2> DEFINE p == rand * rand
    <2>1. p \in Nat /\ p < n * n
      BY <1>2
    <2> HIDE DEF p
    <2>2. p \div n \in Nat /\ p \div n < n
      BY <1>1, <2>1, SMTT(30)
    <2> QED
      BY <2>2 DEF p
  <1> HIDE DEF square
  <1>4. area * square \in Nat /\ area * square < area * n
    BY <1>1, <1>3, SMTT(30)
  <1>5. q \in Nat /\ q < area
    <2> DEFINE p == area * square
    <2>1. p \in Nat /\ p < area * n
      BY <1>4
    <2> HIDE DEF p
    <2>2. p \div n \in Nat /\ p \div n < area
      BY <1>1, <2>1, SMTT(30)
    <2> QED
      BY <2>2 DEF p
  <1>6. relative_position(area, rand) = area - 1 - q
    BY DEF relative_position, square, n
  <1> HIDE DEF q
  <1> QED
    BY <1>5, <1>6

\* Going round a lane once at most.
LEMMA OneWrap ==
  ASSUME NEW n \in Nat \ {0}, NEW x \in Nat, x < 2 * n
  PROVE  x % n = IF x < n THEN x ELSE x - n
  <1>1. CASE x < n
    <2>1. 0 * n + x = x /\ x \in 0..(n - 1) /\ 0 \in Nat
      BY <1>1
    <2> QED
      BY <1>1, <2>1, DivMod
  <1>2. CASE x >= n
    <2>1. 1 * n + (x - n) = x /\ x - n \in 0..(n - 1) /\ 1 \in Nat
      BY <1>2
    <2>2. (1 * n + (x - n)) % n = x - n
      BY <2>1, DivMod
    <2> QED
      BY <1>2, <2>1, <2>2
  <1> QED
    BY <1>1, <1>2

\* There is a block to refer to in every step, and the area ends before the
\* previous block.
LEMMA AreaSize ==
  ASSUME NEW s \in Nat, NEW l \in Lanes, NEW i \in Offsets,
         i >= first_idx(s), NEW r \in Lanes, s = 0 => r = l
  PROVE  /\ area_size(s, l, i, r) \in Nat \ {0}
         /\ pass(s) = 0 =>
              area_size(s, l, i, r) <=
                slice(s) * SegLength + (IF r = l THEN i - 1 ELSE 0)
         /\ pass(s) > 0 =>
              area_size(s, l, i, r) <=
                3 * SegLength + (IF r = l THEN i - 1 ELSE 0)
  <1>1. slice(s) \in Slots /\ pass(s) \in Nat
    BY SegmentParts
  <1>2. pass(s) = 0 => s < 4
    BY SegmentParts
  <1>3. pass(s) = 0 /\ slice(s) = 0 => s = 0
    BY <1>2 DEF slice
  <1>4. s = 0 => i >= 2
    BY DEF first_idx
  <1>5. LaneLength - SegLength = 3 * SegLength
    BY SegLengthType DEF LaneLength
  <1> DEFINE base == IF pass(s) > 0 THEN 3 * SegLength
                                    ELSE slice(s) * SegLength
  <1>6. base \in Nat /\ (s # 0 => base >= SegLength)
    BY <1>1, <1>3, SegLengthType DEF Slots
  <1>7. area_size(s, l, i, r)
          = base + (IF l = r THEN i - 1 ELSE IF i = 0 THEN -1 ELSE 0)
    BY <1>5, Zenon DEF area_size
  <1>8. s = 0 => base = 0
    BY SegmentParts, SegLengthType DEF slice
  <1> HIDE DEF base
  <1>9. i \in Nat
    BY SegLengthType DEF Offsets
  <1>10. area_size(s, l, i, r) \in Nat \ {0}
    BY <1>4, <1>6, <1>7, <1>8, <1>9, SegLengthType
  <1>11. area_size(s, l, i, r) <= base + (IF r = l THEN i - 1 ELSE 0)
    BY <1>6, <1>7, <1>9
  <1> QED
    BY <1>1, <1>10, <1>11 DEF base

\* A reference is never in the slice at hand but in the lane's own blocks
\* before the previous one, and in the first pass to no slice to come.
LEMMA RefPlace ==
  ASSUME NEW s \in Nat, NEW l \in Lanes, NEW i \in Offsets,
         i >= first_idx(s), NEW r \in Lanes, s = 0 => r = l,
         NEW rand \in 0..(RandRange - 1)
  PROVE  \E k \in Slots, j \in Offsets :
            /\ ref_idx(s, l, i, r, rand) = At(r, k, j)
            /\ k = slice(s) => r = l /\ j < i - 1
            /\ pass(s) = 0 => k <= slice(s)
  <1> DEFINE area == area_size(s, l, i, r)
             rel == relative_position(area, rand)
             start == area_start(s)
             own == IF r = l THEN i - 1 ELSE 0
             x == start + rel
             p == x % LaneLength
             c == slice(s)
             n == SegLength
  <1>1. area \in Nat \ {0}
    BY AreaSize
  <1>2. rel \in Nat /\ rel < area
    BY <1>1, PositionInArea
  <1>3. c \in Slots /\ pass(s) \in Nat
    BY SegmentParts
  <1>4. i \in Nat /\ i < n /\ n \in Nat /\ n > 2
    BY SegLengthType DEF Offsets
  <1>5. own \in Int /\ own < n - 1 + 1 /\ (r # l => own = 0)
    BY <1>4
  <1>6. /\ pass(s) = 0 => area <= c * n + own
        /\ pass(s) > 0 => area <= 3 * n + own
    BY AreaSize
  <1>7. start = IF pass(s) > 0 /\ c < 3 THEN (c + 1) * n ELSE 0
    BY DEF area_start
  <1>8. LaneLength = 4 * n /\ LaneLength \in Nat \ {0}
    BY LaneLengthType
  <1>9. ref_idx(s, l, i, r, rand) = r * LaneLength + p
    BY DEF ref_idx
  <1>10. own < n /\ own = IF r = l THEN i - 1 ELSE 0
    BY <1>4
  <1> HIDE DEF area, rel, start, own, c, n
  <1> DEFINE cn == c * n
  <1>11. /\ cn \in Nat /\ (c + 1) * n = cn + n
         /\ \/ c = 0 /\ cn = 0
            \/ c = 1 /\ cn = n
            \/ c = 2 /\ cn = 2 * n
            \/ c = 3 /\ cn = 3 * n
    BY <1>3, <1>4 DEF Slots
  <1>12. /\ pass(s) = 0 => area <= cn + own
         /\ start = IF pass(s) > 0 /\ c < 3 THEN cn + n ELSE 0
    BY <1>6, <1>7, <1>11
  <1> HIDE DEF cn
  <1>13. x \in Nat /\ x < 8 * n
    BY <1>1, <1>2, <1>3, <1>4, <1>5, <1>6, <1>10, <1>11, <1>12
  <1>14. p = IF x < 4 * n THEN x ELSE x - 4 * n
    <2>1. x \in Nat /\ x < 2 * LaneLength
      BY <1>4, <1>8, <1>13
    <2> HIDE DEF x
    <2>2. p = IF x < LaneLength THEN x ELSE x - LaneLength
      BY <1>8, <2>1, OneWrap
    <2> QED
      BY <1>8, <2>2
  <1> HIDE DEF p
  <1>15. /\ p \in 0..(LaneLength - 1)
         /\ p >= cn /\ p < cn + n => p - cn < own
         /\ pass(s) = 0 => p < cn + n
    <2>1. CASE pass(s) = 0
      <3>1. x = rel /\ rel < cn + own /\ cn <= 3 * n
        BY <2>1, <1>1, <1>2, <1>4, <1>5, <1>11, <1>12
      <3> HIDE DEF x
      <3>2. p = rel
        BY <3>1, <1>2, <1>4, <1>5, <1>10, <1>11, <1>14
      <3> QED
        BY <3>1, <3>2, <1>2, <1>4, <1>5, <1>8, <1>10, <1>11
    <2>2. CASE pass(s) > 0 /\ c = 3
      <3>1. x = rel /\ rel < cn + own /\ cn = 3 * n
        BY <2>2, <1>1, <1>2, <1>4, <1>5, <1>6, <1>11, <1>12
      <3> HIDE DEF x
      <3>2. p = rel
        BY <3>1, <1>2, <1>4, <1>5, <1>10, <1>14
      <3> QED
        BY <3>1, <3>2, <2>2, <1>2, <1>4, <1>5, <1>8, <1>10
    <2>3. CASE pass(s) > 0 /\ c # 3
      <3>1. x = cn + n + rel /\ rel < 3 * n + own /\ cn <= 2 * n
        BY <2>3, <1>1, <1>2, <1>4, <1>5, <1>6, <1>11, <1>12
      <3>2. x \in Nat
        BY <1>13
      <3> HIDE DEF x
      <3> QED
        BY <3>1, <3>2, <2>3, <1>2, <1>4, <1>5, <1>8, <1>10, <1>11, <1>14
    <2> QED
      BY <2>1, <2>2, <2>3, <1>3
  <1>17. PICK k \in Slots, j \in Offsets : p = k * n + j
    BY <1>15, LaneExists DEF n
  <1>18. j \in Nat /\ j < n /\ k \in Nat /\ k <= 3
    BY SegLengthType DEF Offsets, Slots, n
  <1> HIDE DEF x
  <1>19. ref_idx(s, l, i, r, rand) = At(r, k, j)
    BY <1>9, <1>17, AtBlock DEF n
  <1>20. k = c => j < own
    <2>1. k = c => p = cn + j
      BY <1>17 DEF cn
    <2> QED
      BY <2>1, <1>4, <1>5, <1>11, <1>15, <1>18
  <1>21. k = c => r = l /\ j < i - 1
    BY <1>4, <1>10, <1>18, <1>20
  <1>22. pass(s) = 0 => k <= c
    <2>1. p = k * n + j /\ (k = 0 \/ k = 1 \/ k = 2 \/ k = 3)
      BY <1>17 DEF Slots
    <2>2. pass(s) = 0 => k * n + j < cn + n
      BY <2>1, <1>15
    <2> QED
      BY <2>1, <2>2, <1>4, <1>11, <1>18
  <1> QED
    BY <1>19, <1>21, <1>22 DEF c

\* The block at hand and the one before a segment.
LEMMA CurPlace ==
  ASSUME NEW s \in Nat, NEW l \in Lanes, NEW i \in Offsets
  PROVE  /\ slice(s) \in Slots
         /\ cur_idx(s, l, i) = At(l, slice(s), i)
  BY SegmentParts DEF cur_idx, At

\* The block before a segment is the last one of the segment before.
LEMMA PrevPlace ==
  ASSUME NEW s \in Nat, NEW l \in Lanes
  PROVE  \E k \in Slots, j \in Offsets :
            /\ prev_idx(s, l) = At(l, k, j)
            /\ s = 0 => k = 0 /\ j = 1
            /\ s > 0 => IF slice(s) = 0 THEN k = 3 ELSE k = slice(s) - 1
  <1> DEFINE c == slice(s)
             n == SegLength
             f == first_idx(s)
             y == c * n + f - 1
             p == y % LaneLength
  <1>1. c \in Slots /\ n \in Nat /\ n > 2 /\ LaneLength = 4 * n
    BY SegmentParts, SegLengthType, LaneLengthType
  <1>2. f = IF s = 0 THEN 2 ELSE 0
    BY DEF first_idx
  <1>3. s = 0 => c = 0
    BY SegmentParts
  <1>4. prev_idx(s, l) = l * LaneLength + p
    BY DEF prev_idx
  <1>5. 0 \in Slots /\ 3 \in Slots /\ 1 \in Offsets /\ n - 1 \in Offsets
    BY <1>1 DEF Slots, Offsets
  <1> HIDE DEF c, n, f
  <1>6. CASE s = 0
    <2>1. y = 1
      BY <1>1, <1>2, <1>3, <1>6
    <2>2. p = 0 * n + 1
      BY <1>1, <2>1, OneWrap
    <2>3. prev_idx(s, l) = At(l, 0, 1)
      BY <1>4, <1>5, <2>2, AtBlock DEF n
    <2> QED
      BY <1>5, <1>6, <2>3
  <1>7. CASE s > 0 /\ c = 0
    <2>1. y = -1
      BY <1>1, <1>2, <1>7
    <2>2. p = 3 * n + (n - 1)
      <3>1. \A m \in Nat \ {0} : (-1) % m = m - 1
        BY SMTT(30)
      <3> QED
        BY <1>1, <2>1, <3>1, LaneLengthType
    <2>3. prev_idx(s, l) = At(l, 3, n - 1)
      BY <1>4, <1>5, <2>2, AtBlock DEF n
    <2> QED
      BY <1>5, <1>7, <2>3 DEF c
  <1>8. CASE s > 0 /\ c # 0
    <2>1. c = 1 \/ c = 2 \/ c = 3
      BY <1>1, <1>8 DEF Slots
    <2>2. y \in Nat /\ y < 4 * n /\ y = (c - 1) * n + (n - 1)
      BY <1>1, <1>2, <1>8, <2>1
    <2>3. p = (c - 1) * n + (n - 1)
      <3>1. y \in Nat /\ y < LaneLength /\ y < 2 * LaneLength
        BY <1>1, <2>2
      <3> HIDE DEF y
      <3>2. p = y
        BY <3>1, OneWrap, LaneLengthType
      <3> QED
        BY <2>2, <3>2
    <2>4. c - 1 \in Slots
      BY <2>1 DEF Slots
    <2>5. prev_idx(s, l) = At(l, c - 1, n - 1)
      BY <1>4, <1>5, <2>3, <2>4, AtBlock DEF n
    <2> QED
      BY <1>5, <1>8, <2>4, <2>5 DEF c
  <1> QED
    BY <1>6, <1>7, <1>8

-----------------------------------------------------------------------------
(* The invariant.                                                          *)

\* A lane has begun its segment and not left it.
Active(l) == lpc[l] \in {"load", "store", "barrier"}

\* The step of its segment a lane has come to, its block stored or not.
Pos(l) == IF lpc[l] = "barrier" THEN idx[l] + 1
          ELSE IF Active(l) THEN idx[l] ELSE 0

FillTypes ==
    /\ device \in {"cpu", "opencl", "cuda"}
    /\ lpc \in [Lanes -> {"begin", "sync", "load", "store", "barrier",
                          "final", "done"}]
    /\ seg \in [Lanes -> 0..Segments]
    /\ idx \in [Lanes -> Offsets]
    /\ mem \in [Blocks -> Nat]
    /\ reads \in [Lanes -> SUBSET [block : Blocks, version : Nat,
                                   i : Offsets]]

\* Which places go with which devices, segments and indices.
PlaceOf(l) ==
    /\ Active(l) \/ lpc[l] = "sync" =>
          seg[l] < Segments /\ idx[l] >= first_idx(seg[l])
    /\ lpc[l] = "sync" => device = "cuda" /\ idx[l] = first_idx(seg[l])
    /\ lpc[l] = "barrier" => device = "opencl"
    /\ lpc[l] \in {"final", "done"} => seg[l] = Segments

Places == \A l \in Lanes : PlaceOf(l)

\* No lane begins a segment before all have left the one before, which CUDA
\* ensures at the head of a segment, OpenCL after every block and the CPU by
\* taking turns.
Started(l) == IF Active(l) THEN seg[l] + 1 ELSE seg[l]

InStep ==
    /\ \A k, l \in Lanes : /\ seg[k] <= seg[l] + 1
                           /\ Active(k) => seg[k] <= seg[l]
    /\ device = "cuda" => \A k, l \in Lanes : Started(k) = Started(l)
    /\ device = "opencl" =>
          \A k, l \in Lanes :
              /\ seg[k] = seg[l]
              /\ Active(k) => idx[k] = IF Active(l) THEN idx[l]
                                                    ELSE first_idx(seg[k])

\* Every block was written as often as its own lane's progress says.
MemCount ==
    \A l \in Lanes, k \in Slots, j \in Offsets :
        mem[At(l, k, j)] = CountAt(seg[l], l, Pos(l), l, k, j)

LastBlocks ==
    /\ scratch = {<<l, Passes>> :
                    l \in {m \in Lanes : lpc[m] \in {"final", "done"}}}
    /\ ResultOfAllLanes

FillInv ==
    FillTypes /\ Places /\ InStep /\ MemCount /\ ReadsAsSequential
        /\ LastBlocks

-----------------------------------------------------------------------------
(* The steps of the fill keep the invariant.                               *)

\* Facts about the constants that most steps use.
LEMMA FillConstants ==
  /\ 0 \in Offsets /\ 1 \in Offsets /\ 0 \in 0..Segments
  /\ \A s : first_idx(s) \in Offsets
  /\ \A s \in 0..Segments : s \in Nat
  /\ \A j \in Offsets : j \in Nat /\ j < SegLength
  /\ Lanes \subseteq Nat
  BY SegLengthType, SegmentsType DEF Offsets, first_idx, Lanes

\* Before the filling two blocks of each lane are written.
LEMMA InitFillInv == Init => FillInv
  <1> SUFFICES ASSUME Init PROVE FillInv
    OBVIOUS
  <1> USE DEF Init
  <1>1. FillTypes
    BY FillConstants DEF FillTypes
  <1>2. Places
    BY DEF Places, PlaceOf, Active
  <1>3. InStep
    BY DEF InStep, Active, Started
  <1>4. MemCount
    <2> SUFFICES ASSUME NEW l \in Lanes, NEW k \in Slots, NEW j \in Offsets
                 PROVE  mem[At(l, k, j)] = CountAt(seg[l], l, Pos(l), l, k, j)
      BY DEF MemCount
    <2>1. At(l, k, j) \in Blocks /\ At(l, k, j) % LaneLength = k * SegLength + j
      BY AtBlock
    <2>2. k * SegLength + j < 2 <=> k = 0 /\ j < 2
      BY SegLengthType DEF Slots, Offsets
    <2>3. mem[At(l, k, j)] = IF k = 0 /\ j < 2 THEN 1 ELSE 0
      BY <2>1, <2>2
    <2>4. seg[l] = 0 /\ Pos(l) = 0
      BY DEF Pos, Active
    <2>5. pass(0) = 0 /\ slice(0) = 0
      BY DEF pass, slice
    <2> QED
      BY <2>3, <2>4, <2>5 DEF CountAt, Slots, Offsets, Lanes
  <1>5. ReadsAsSequential
    BY DEF ReadsAsSequential
  <1>6. LastBlocks
    BY DEF LastBlocks, ResultOfAllLanes
  <1> QED
    BY <1>1, <1>2, <1>3, <1>4, <1>5, <1>6 DEF FillInv

\* A lane reads the last block before its segment.
LEMMA PrevRead ==
  ASSUME FillInv, NEW l \in Lanes, lpc[l] = "begin"
  PROVE  LET r == ReadOf(prev_idx(seg[l], l), first_idx(seg[l]))
         IN  /\ r \in [block : Blocks, version : Nat, i : Offsets]
             /\ r.version > 0
             /\ r.version = Sequential(seg[l], l, r.i, r.block)
  <1> DEFINE s == seg[l]
             f == first_idx(s)
  <1>1. s \in Nat /\ f \in Offsets /\ f \in Nat
    BY FillConstants DEF FillInv, FillTypes
  <1>2. PICK k \in Slots, j \in Offsets :
            /\ prev_idx(s, l) = At(l, k, j)
            /\ s = 0 => k = 0 /\ j = 1
            /\ s > 0 => IF slice(s) = 0 THEN k = 3 ELSE k = slice(s) - 1
    BY <1>1, PrevPlace
  <1>3. Pos(l) = 0
    BY DEF Pos, Active
  <1>4. mem[At(l, k, j)] = CountAt(s, l, 0, l, k, j)
    BY <1>3 DEF FillInv, MemCount
  <1>5. CountAt(s, l, f, l, k, j) = CountAt(s, l, 0, l, k, j)
    BY <1>1, CountAtBegin
  <1>6. Sequential(s, l, f, At(l, k, j)) = CountAt(s, l, f, l, k, j)
    BY <1>1, SequentialAt
  <1>7. CountAt(s, l, 0, l, k, j) > 0
    BY <1>1, <1>2, SegmentParts DEF CountAt, Slots
  <1>8. At(l, k, j) \in Blocks /\ mem[At(l, k, j)] \in Nat
    BY AtBlock DEF FillInv, FillTypes
  <1> HIDE DEF s, f
  <1>9. ReadOf(prev_idx(s, l), f) =
          [block |-> At(l, k, j), version |-> mem[At(l, k, j)], i |-> f]
    BY <1>2 DEF ReadOf
  <1> QED
    BY <1>1, <1>4, <1>5, <1>6, <1>7, <1>8, <1>9 DEF s, f

\* A lane that begins a segment has written nothing of it.
LEMMA MemUnchanged ==
  ASSUME FillTypes, MemCount, mem' = mem, seg' = seg,
         \A l \in Lanes : \/ Pos(l)' = Pos(l)
                          \/ Pos(l) = 0 /\ Pos(l)' \in {0, first_idx(seg[l])}
  PROVE  MemCount'
  <1> SUFFICES ASSUME NEW l \in Lanes, NEW k \in Slots, NEW j \in Offsets
               PROVE  mem'[At(l, k, j)]
                        = CountAt(seg'[l], l, Pos(l)', l, k, j)
    BY DEF MemCount
  <1>1. seg[l] \in Nat
    BY FillConstants DEF FillTypes
  <1>2. CountAt(seg[l], l, first_idx(seg[l]), l, k, j)
          = CountAt(seg[l], l, 0, l, k, j)
    BY <1>1, CountAtBegin
  <1>3. mem[At(l, k, j)] = CountAt(seg[l], l, Pos(l), l, k, j)
    BY DEF MemCount
  <1> QED
    BY <1>2, <1>3

\* A lane that begins a segment keeps FillInv.
LEMMA BeginKeeps ==
  ASSUME FillInv, NEW l \in Lanes, begin_segment(l)
  PROVE  FillInv'
  <1> USE DEF begin_segment
  <1> DEFINE r == ReadOf(prev_idx(seg[l], l), first_idx(seg[l]))
  <1>1. /\ r \in [block : Blocks, version : Nat, i : Offsets]
        /\ r.version > 0
        /\ r.version = Sequential(seg[l], l, r.i, r.block)
    BY PrevRead
  <1>2. reads' = [reads EXCEPT ![l] = {r}]
    OBVIOUS
  <1> HIDE DEF r
  <1>3. first_idx(seg[l]) \in Offsets
    BY FillConstants
  <1>4. FillTypes'
    BY <1>1, <1>2, <1>3 DEF FillInv, FillTypes
  <1>5. /\ lpc'[l] = IF device = "cuda" THEN "sync" ELSE "load"
        /\ seg'[l] = seg[l] /\ seg[l] < Segments
        /\ idx'[l] = first_idx(seg[l]) /\ idx'[l] >= first_idx(seg[l])
        /\ mem' = mem /\ device' = device /\ seg' = seg
        /\ \A m \in Lanes : m # l => lpc'[m] = lpc[m] /\ idx'[m] = idx[m]
    <2>1. first_idx(seg[l]) >= first_idx(seg[l])
      BY <1>3, FillConstants
    <2> QED
      BY <2>1 DEF FillInv, FillTypes
  <1>6. Places'
    <2> SUFFICES ASSUME NEW m \in Lanes PROVE PlaceOf(m)'
      BY DEF Places
    <2>1. CASE m = l
      BY <2>1, <1>5 DEF PlaceOf, Active
    <2>2. CASE m # l
      BY <2>2, <1>5 DEF FillInv, Places, PlaceOf, Active
    <2> QED
      BY <2>1, <2>2
  <1>7. InStep'
    <2>1. device = "cpu" => \A m \in Lanes : seg[m] >= seg[l]
      BY DEF Turn
    <2>2. \A m \in Lanes : seg[m] \in Nat
      BY FillConstants DEF FillInv, FillTypes
    <2>3. ~Active(l)
      BY DEF Active
    <2>4. \A m \in Lanes : m # l => (Active(m)' <=> Active(m))
      BY <1>5 DEF Active
    <2>5. Active(l)' <=> device # "cuda"
      BY <1>5 DEF Active
    <2>6. ASSUME NEW k \in Lanes, NEW m \in Lanes
          PROVE  /\ seg'[k] <= seg'[m] + 1
                 /\ Active(k)' => seg'[k] <= seg'[m]
      <3>1. device = "opencl" => seg[k] = seg[m]
        BY DEF FillInv, InStep
      <3>2. device \in {"cpu", "opencl", "cuda"}
        BY DEF FillInv, FillTypes
      <3> QED
        BY <1>5, <2>1, <2>2, <2>4, <2>5, <3>1, <3>2 DEF FillInv, InStep
    <2>7. ASSUME NEW k \in Lanes, NEW m \in Lanes, device = "cuda"
          PROVE  Started(k)' = Started(m)'
      <3>1. \A n \in Lanes : Started(n)' = Started(n)
        BY <1>5, <2>3, <2>4, <2>5, <2>7 DEF Started
      <3> QED
        BY <2>7, <3>1 DEF FillInv, InStep
    <2>8. ASSUME NEW k \in Lanes, NEW m \in Lanes, device = "opencl"
          PROVE  /\ seg'[k] = seg'[m]
                 /\ Active(k)' => idx'[k] = IF Active(m)' THEN idx'[m]
                                            ELSE first_idx(seg'[k])
      <3>1. seg[k] = seg[m] /\ seg[k] = seg[l]
        BY <2>8 DEF FillInv, InStep
      <3>2. \A n \in Lanes : Active(n)' => idx'[n] = first_idx(seg[n])
        BY <2>8, <1>5, <2>3, <2>4 DEF FillInv, InStep
      <3> QED
        BY <1>5, <3>1, <3>2
    <2> QED
      BY <1>5, <2>6, <2>7, <2>8 DEF InStep
  <1>8. MemCount'
    <2>1. Pos(l) = 0 /\ Pos(l)' \in {0, first_idx(seg[l])}
      BY <1>5 DEF Pos, Active
    <2>2. \A m \in Lanes : m # l => Pos(m)' = Pos(m)
      BY <1>5 DEF Pos, Active
    <2> QED
      BY <1>5, <2>1, <2>2, MemUnchanged DEF FillInv
  <1>9. ReadsAsSequential'
    BY <1>1, <1>2, <1>5 DEF FillInv, FillTypes, ReadsAsSequential
  <1>10. LastBlocks'
    BY <1>5 DEF FillInv, LastBlocks, ResultOfAllLanes
  <1> QED
    BY <1>4, <1>6, <1>7, <1>8, <1>9, <1>10 DEF FillInv

\* So does the barrier at the head of a segment.
LEMMA SyncKeeps ==
  ASSUME FillInv, syncthreads
  PROVE  FillInv'
  <1> USE DEF syncthreads
  <1>1. FillTypes'
    BY DEF FillInv, FillTypes
  <1>2. \A l \in Lanes : /\ lpc[l] = "sync" /\ lpc'[l] = "load"
                         /\ ~Active(l) /\ Active(l)'
                         /\ device = "cuda" /\ idx[l] = first_idx(seg[l])
    BY DEF FillInv, Places, PlaceOf, Active
  <1>3. Places'
    BY <1>2 DEF FillInv, Places, PlaceOf, Active
  <1>4. InStep'
    <2>1. \A k, l \in Lanes : seg[k] = seg[l] /\ seg[k] \in Nat
      BY <1>2, FillConstants DEF FillInv, FillTypes, InStep, Started
    <2> QED
      BY <1>2, <2>1 DEF FillInv, InStep, Started
  <1>5. MemCount'
    <2>1. \A l \in Lanes : Pos(l) = 0 /\ Pos(l)' = first_idx(seg[l])
      BY <1>2 DEF Pos, Active
    <2> QED
      BY <2>1, MemUnchanged DEF FillInv
  <1>6. ReadsAsSequential'
    BY DEF FillInv, ReadsAsSequential
  <1>7. LastBlocks'
    BY DEF FillInv, LastBlocks, ResultOfAllLanes
  <1> QED
    BY <1>1, <1>3, <1>4, <1>5, <1>6, <1>7 DEF FillInv

\* A lane hands over its last block once it is filled.
LEMMA FinalBlockKeeps ==
  ASSUME FillInv, NEW l \in Lanes, final_block(l)
  PROVE  FillInv'
  <1> USE DEF final_block
  <1>1. FillTypes'
    BY DEF FillInv, FillTypes
  <1>2. /\ lpc[l] = "begin" /\ lpc'[l] = "final"
        /\ \A m \in Lanes : m # l => lpc'[m] = lpc[m]
        /\ \A m \in Lanes : Active(m)' <=> Active(m)
    BY DEF FillInv, FillTypes, Active
  <1>3. Places'
    BY <1>2 DEF FillInv, Places, PlaceOf
  <1>4. InStep'
    BY <1>2 DEF FillInv, InStep, Started
  <1>5. MemCount'
    <2>1. \A m \in Lanes : Pos(m)' = Pos(m)
      BY <1>2 DEF Pos
    <2> QED
      BY <2>1, MemUnchanged DEF FillInv
  <1>6. ReadsAsSequential'
    BY DEF FillInv, ReadsAsSequential
  <1>7. mem[cur_idx(seg[l] - 1, l, SegLength - 1)] = Passes
    <2> DEFINE s == Segments - 1
               j == SegLength - 1
    <2>1. s \in Nat /\ slice(s) = 3 /\ j \in Offsets /\ 3 \in Slots
      BY SegLengthType DEF Segments, slice, Offsets, Slots
    <2>2. cur_idx(s, l, j) = At(l, 3, j)
      BY <2>1, CurPlace
    <2>3. Pos(l) = 0 /\ seg[l] = Segments
      BY DEF Pos, Active
    <2>4. mem[At(l, 3, j)] = CountAt(Segments, l, 0, l, 3, j)
      BY <2>1, <2>3 DEF FillInv, MemCount
    <2>5. CountAt(Segments, l, 0, l, 3, j) = Passes
      BY <2>1, SegmentsType DEF CountAt
    <2> QED
      BY <2>2, <2>3, <2>4, <2>5
  <1>8. LastBlocks'
    <2>1. scratch' = scratch \cup {<<l, Passes>>}
      BY <1>7
    <2>2. {m \in Lanes : lpc'[m] \in {"final", "done"}}
            = {m \in Lanes : lpc[m] \in {"final", "done"}} \cup {l}
      BY <1>2
    <2> QED
      BY <2>1, <2>2 DEF FillInv, LastBlocks, ResultOfAllLanes
  <1> QED
    BY <1>1, <1>3, <1>4, <1>5, <1>6, <1>8 DEF FillInv

\* The last blocks are added up once every lane has handed over its own.
LEMMA FinalSumKeeps ==
  ASSUME FillInv, final_sum
  PROVE  FillInv'
  <1> USE DEF final_sum
  <1>1. FillTypes'
    BY DEF FillInv, FillTypes
  <1>2. \A m \in Lanes : /\ lpc[m] = "final" /\ lpc'[m] = "done"
                         /\ ~Active(m) /\ ~Active(m)'
    BY DEF Active
  <1>3. Places'
    BY <1>2 DEF FillInv, Places, PlaceOf
  <1>4. InStep'
    BY <1>2 DEF FillInv, InStep, Started
  <1>5. MemCount'
    <2>1. \A m \in Lanes : Pos(m)' = Pos(m)
      BY <1>2 DEF Pos
    <2> QED
      BY <2>1, MemUnchanged DEF FillInv
  <1>6. ReadsAsSequential'
    BY DEF FillInv, ReadsAsSequential
  <1>7. LastBlocks'
    <2>1. /\ {m \in Lanes : lpc[m] \in {"final", "done"}} = Lanes
          /\ {m \in Lanes : lpc'[m] \in {"final", "done"}} = Lanes
      BY <1>2
    <2>2. scratch = {<<m, Passes>> : m \in Lanes}
      BY <2>1 DEF FillInv, LastBlocks
    <2>3. {<<m, Passes>> : m \in Lanes} = Lanes \X {Passes}
      OBVIOUS
    <2> QED
      BY <2>1, <2>2, <2>3 DEF LastBlocks, ResultOfAllLanes
  <1> QED
    BY <1>1, <1>3, <1>4, <1>5, <1>6, <1>7 DEF FillInv

\* What is right about a read of lane l.
GoodRead(l, r) ==
    /\ r \in [block : Blocks, version : Nat, i : Offsets]
    /\ r.version > 0
    /\ r.version = Sequential(seg[l], l, r.i, r.block)

\* A lane in a segment finds every other one in it or at the next one's start.
LEMMA OthersNear ==
  ASSUME FillInv, NEW l \in Lanes, Active(l), NEW r \in Lanes
  PROVE  /\ seg[r] \in Nat /\ Pos(r) \in Nat
         /\ seg[r] = seg[l] \/ (seg[r] = seg[l] + 1 /\ Pos(r) = 0)
  <1>1. seg[r] \in Nat /\ seg[l] \in Nat /\ idx[r] \in Nat
    BY FillConstants DEF FillInv, FillTypes
  <1>2. seg[r] <= seg[l] + 1 /\ seg[l] <= seg[r]
    BY DEF FillInv, InStep
  <1>3. Active(r) => seg[r] <= seg[l]
    BY DEF FillInv, InStep
  <1>4. Pos(r) \in Nat /\ (~Active(r) => Pos(r) = 0)
    BY <1>1 DEF Pos, Active
  <1> QED
    BY <1>1, <1>2, <1>3, <1>4

\* A reference, of this step or of the next, is read as the sequential
\* algorithm has it.
LEMMA RefRead ==
  ASSUME FillInv, NEW l \in Lanes, lpc[l] = "load",
         NEW i \in Offsets, i = idx[l] \/ i = idx[l] + 1,
         NEW b \in Refs(seg[l], l, i)
  PROVE  GoodRead(l, ReadOf(b, i))
  <1> DEFINE s == seg[l]
  <1>1. s \in Nat /\ i \in Nat /\ idx[l] \in Offsets /\ idx[l] \in Nat
    BY FillConstants DEF FillInv, FillTypes
  <1>2. Active(l) /\ idx[l] >= first_idx(s) /\ first_idx(s) \in Nat
    BY FillConstants DEF FillInv, Places, PlaceOf, Active
  <1>3. i >= first_idx(s)
    BY <1>1, <1>2
  <1>4. PICK r \in (IF s = 0 THEN {l} ELSE Lanes), rand \in 0..(RandRange - 1) :
            b = ref_idx(s, l, i, r, rand)
    BY DEF Refs
  <1>5. r \in Lanes /\ (s = 0 => r = l)
    BY <1>4
  <1>6. PICK k \in Slots, j \in Offsets :
            /\ ref_idx(s, l, i, r, rand) = At(r, k, j)
            /\ k = slice(s) => r = l /\ j < i - 1
            /\ pass(s) = 0 => k <= slice(s)
    BY <1>1, <1>3, <1>4, <1>5, RefPlace
  <1>7. b = At(r, k, j)
    BY <1>4, <1>6
  <1>8. b \in Blocks /\ mem[b] \in Nat
    BY <1>5, <1>7, AtBlock DEF FillInv, FillTypes
  <1>9. mem[b] = CountAt(seg[r], r, Pos(r), r, k, j)
    BY <1>5, <1>7 DEF FillInv, MemCount
  <1>10. mem[b] = CountAt(s, l, i, r, k, j)
    <2>1. CASE r = l
      <3>1. Pos(l) = idx[l]
        BY DEF Pos, Active
      <3>2. CASE i = idx[l]
        BY <1>9, <2>1, <3>1, <3>2
      <3>3. CASE i = idx[l] + 1
        <4>1. ~(k = slice(s) /\ j = idx[l])
          BY <1>1, <1>6, <3>3
        <4>2. CountAt(s, l, idx[l] + 1, l, k, j)
                = CountAt(s, l, idx[l], l, k, j)
          <5> DEFINE h == idx[l]
          <5>1. s \in Nat /\ h \in Offsets /\ h >= first_idx(s)
            BY <1>1, <1>2
          <5> HIDE DEF s, h
          <5>2. CountAt(s, l, h + 1, l, k, j) =
                  IF k = slice(s) /\ j = h THEN CountAt(s, l, h, l, k, j) + 1
                                           ELSE CountAt(s, l, h, l, k, j)
            BY <5>1, CountAtStore
          <5> QED
            BY <4>1, <5>2 DEF h
        <4> QED
          BY <1>9, <2>1, <3>1, <3>3, <4>2
      <3> QED
        BY <3>2, <3>3
    <2>2. CASE r # l
      <3>1. k # slice(s)
        BY <1>6, <2>2
      <3>2. /\ seg[r] \in Nat /\ Pos(r) \in Nat
            /\ seg[r] = s \/ (seg[r] = s + 1 /\ Pos(r) = 0)
        BY <1>2, <1>5, OthersNear
      <3>3. CountAt(seg[r], r, Pos(r), r, k, j) = CountAt(s, l, i, r, k, j)
        BY <1>1, <1>5, <3>1, <3>2, CountOfOther
      <3> QED
        BY <1>9, <3>3
    <2> QED
      BY <2>1, <2>2
  <1>11. CountAt(s, l, i, r, k, j) > 0
    <2>1. pass(s) \in Nat /\ slice(s) \in Slots
      BY <1>1, SegmentParts
    <2>2. CASE pass(s) > 0
      BY <1>1, <2>1, <2>2, CountType
    <2>3. CASE pass(s) = 0
      <3>1. k < slice(s) \/ (k = slice(s) /\ r = l /\ j < i)
        BY <1>1, <1>6, <2>1, <2>3 DEF Slots, Offsets
      <3> QED
        BY <2>3, <3>1 DEF CountAt
    <2> QED
      BY <2>1, <2>2, <2>3
  <1>12. Sequential(s, l, i, b) = CountAt(s, l, i, r, k, j)
    BY <1>1, <1>5, <1>7, SequentialAt
  <1> QED
    BY <1>8, <1>10, <1>11, <1>12 DEF GoodRead, ReadOf

\* So is the block that will be overwritten.
LEMMA OldRead ==
  ASSUME FillInv, NEW l \in Lanes, lpc[l] = "load", pass(seg[l]) # 0
  PROVE  GoodRead(l, ReadOf(cur_idx(seg[l], l, idx[l]), idx[l]))
  <1> DEFINE s == seg[l]
             i == idx[l]
             c == slice(s)
             b == cur_idx(s, l, i)
  <1>1. s \in Nat /\ i \in Offsets /\ i \in Nat
    BY FillConstants DEF FillInv, FillTypes
  <1>2. c \in Slots /\ b = At(l, c, i)
    BY <1>1, CurPlace
  <1>3. b \in Blocks /\ mem[b] \in Nat
    BY <1>1, <1>2, AtBlock DEF FillInv, FillTypes
  <1>4. Pos(l) = i
    BY DEF Pos, Active
  <1>5. mem[b] = CountAt(s, l, i, l, c, i)
    BY <1>1, <1>2, <1>4 DEF FillInv, MemCount
  <1>6. CountAt(s, l, i, l, c, i) > 0
    BY <1>1, SegmentParts, CountType
  <1>7. Sequential(s, l, i, b) = CountAt(s, l, i, l, c, i)
    BY <1>1, <1>2, SequentialAt
  <1> HIDE DEF s, i, b, c
  <1>8. GoodRead(l, ReadOf(b, i))
    BY <1>1, <1>3, <1>5, <1>6, <1>7 DEF GoodRead, ReadOf, s
  <1> QED
    BY <1>8 DEF b, s, i

\* The reads a load adds.
LEMMA LoadReads ==
  ASSUME FillInv, NEW l \in Lanes, load(l)
  PROVE  \E new : /\ reads' = [reads EXCEPT ![l] = @ \cup new]
                  /\ \A r \in new : GoodRead(l, r)
  <1> DEFINE s == seg[l]
             i == idx[l]
             Now  == IF \E r \in reads[l] : r.i = i /\ r.block # prev_idx(s, l)
                       THEN {{}}
                       ELSE {{ReadOf(b, i)} : b \in Refs(s, l, i)}
             Then == IF Prefetches(l)
                       THEN {{ReadOf(b, i + 1)} : b \in Refs(s, l, i + 1)}
                       ELSE {{}}
             Old  == IF pass(s) = 0 THEN {}
                                    ELSE {ReadOf(cur_idx(s, l, i), i)}
  <1>1. PICK now \in Now, then \in Then :
          reads' = [reads EXCEPT ![l] = @ \cup now \cup then \cup Old]
    BY DEF load
  <1>2. i \in Offsets /\ i \in Nat
    BY FillConstants DEF FillInv, FillTypes
  <1>3. lpc[l] = "load"
    BY DEF load
  <1>4. \A r \in now : GoodRead(l, r)
    BY <1>1, <1>2, <1>3, RefRead
  <1>5. \A r \in then : GoodRead(l, r)
    <2>1. Prefetches(l) => i + 1 \in Offsets
      BY <1>2, SegLengthType DEF Prefetches, Offsets
    <2> QED
      BY <1>1, <1>3, <2>1, RefRead
  <1>6. \A r \in Old : GoodRead(l, r)
    BY <1>3, OldRead
  <1> HIDE DEF Old, Now, Then
  <1>7. reads' = [reads EXCEPT ![l] = @ \cup (now \cup then \cup Old)]
    BY <1>1 DEF FillInv, FillTypes
  <1>8. \A r \in now \cup then \cup Old : GoodRead(l, r)
    BY <1>4, <1>5, <1>6
  <1> QED
    BY <1>7, <1>8

\* What a lane loads has the content the sequential order gives it.
LEMMA LoadKeeps ==
  ASSUME FillInv, NEW l \in Lanes, load(l)
  PROVE  FillInv'
  <1>1. PICK new : /\ reads' = [reads EXCEPT ![l] = @ \cup new]
                   /\ \A r \in new : GoodRead(l, r)
    BY LoadReads
  <1>2. /\ lpc[l] = "load" /\ lpc' = [lpc EXCEPT ![l] = "store"]
        /\ UNCHANGED <<device, seg, idx, mem, scratch, out>>
    BY DEF load
  <1>3. /\ \A m \in Lanes : m # l => lpc'[m] = lpc[m]
        /\ lpc'[l] = "store" /\ Active(l) /\ Active(l)'
        /\ \A m \in Lanes : Active(m)' <=> Active(m)
    BY <1>2 DEF FillInv, FillTypes, Active
  <1>4. FillTypes'
    BY <1>1, <1>2 DEF FillInv, FillTypes, GoodRead
  <1>5. Places'
    BY <1>2, <1>3 DEF FillInv, Places, PlaceOf
  <1>6. InStep'
    BY <1>2, <1>3 DEF FillInv, InStep, Started
  <1>7. MemCount'
    <2>1. \A m \in Lanes : Pos(m)' = Pos(m)
      BY <1>2, <1>3 DEF Pos
    <2> QED
      BY <1>2, <2>1, MemUnchanged DEF FillInv
  <1>8. ReadsAsSequential'
    BY <1>1, <1>2 DEF FillInv, FillTypes, ReadsAsSequential, GoodRead
  <1>9. LastBlocks'
    BY <1>2, <1>3 DEF FillInv, LastBlocks, ResultOfAllLanes
  <1> QED
    BY <1>4, <1>5, <1>6, <1>7, <1>8, <1>9 DEF FillInv

-----------------------------------------------------------------------------
(* Storing a block and going on.                                           *)

\* Where a lane is after a block, case by case.
LEMMA AfterBlockParts ==
  ASSUME FillInv, NEW S \in SUBSET Lanes, AfterBlock(S)
  PROVE  /\ \A l \in Lanes \ S : /\ lpc'[l] = lpc[l] /\ idx'[l] = idx[l]
                                 /\ seg'[l] = seg[l] /\ reads'[l] = reads[l]
         /\ \A l \in S : idx[l] + 1 = SegLength =>
               lpc'[l] = "begin" /\ idx'[l] = 0 /\ seg'[l] = seg[l] + 1
                  /\ reads'[l] = {}
         /\ \A l \in S : idx[l] + 1 # SegLength =>
               lpc'[l] = "load" /\ idx'[l] = idx[l] + 1 /\ seg'[l] = seg[l]
                  /\ reads'[l] \subseteq reads[l]
  <1>1. \A l \in Lanes \ S : /\ lpc'[l] = lpc[l] /\ idx'[l] = idx[l]
                             /\ seg'[l] = seg[l] /\ reads'[l] = reads[l]
    BY DEF AfterBlock, FillInv, FillTypes
  <1>2. ASSUME NEW l \in S
        PROVE  (idx[l] + 1) % SegLength
                 = IF idx[l] + 1 = SegLength THEN 0 ELSE idx[l] + 1
    <2>1. idx[l] \in Nat /\ idx[l] < SegLength
      BY FillConstants DEF FillInv, FillTypes
    <2> DEFINE x == idx[l] + 1
    <2>2. x \in Nat /\ x <= SegLength /\ x < 2 * SegLength
      BY <2>1, SegLengthType
    <2> HIDE DEF x
    <2>3. SegLength \in Nat \ {0}
      BY SegLengthType
    <2>4. x % SegLength = IF x < SegLength THEN x ELSE x - SegLength
      BY <2>2, <2>3, OneWrap
    <2>5. x % SegLength = IF x = SegLength THEN 0 ELSE x
      BY <2>2, <2>3, <2>4
    <2> QED
      BY <2>5 DEF x
  <1>3. ASSUME NEW l \in S, idx[l] + 1 = SegLength
        PROVE  lpc'[l] = "begin" /\ idx'[l] = 0 /\ seg'[l] = seg[l] + 1
                  /\ reads'[l] = {}
    <2>1. \A r \in reads[l] : ~(r.i > idx[l])
      BY <1>3, FillConstants, SegLengthType DEF FillInv, FillTypes, Offsets
    <2> QED
      BY <1>2, <1>3, <2>1 DEF AfterBlock
  <1>4. ASSUME NEW l \in S, idx[l] + 1 # SegLength
        PROVE  lpc'[l] = "load" /\ idx'[l] = idx[l] + 1 /\ seg'[l] = seg[l]
                  /\ reads'[l] \subseteq reads[l]
    BY <1>2, <1>4 DEF AfterBlock
  <1> QED
    BY <1>1, <1>3, <1>4

\* What holds after it of the lanes in S, which were in a segment, and of the
\* others.
LEMMA AfterBlockKeeps ==
  ASSUME FillInv, NEW S \in SUBSET Lanes, AfterBlock(S),
         \A l \in S : Active(l), device' = device, mem' \in [Blocks -> Nat]
  PROVE  FillTypes' /\ Places' /\ ReadsAsSequential'
  <1>1. \A l \in S : /\ seg[l] \in Nat /\ seg[l] < Segments
                     /\ idx[l] \in Nat /\ idx[l] < SegLength
                     /\ idx[l] >= first_idx(seg[l])
                     /\ first_idx(seg[l]) \in Nat
    BY FillConstants DEF FillInv, FillTypes, Places, PlaceOf
  <1>2. \A l \in S : seg[l] + 1 \in 0..Segments
    BY <1>1, SegmentsType
  <1>3. \A l \in S : idx[l] + 1 # SegLength => idx[l] + 1 \in Offsets
    BY <1>1, SegLengthType DEF Offsets
  <1>4. FillTypes'
    <2>1. /\ lpc' = [l \in Lanes |-> lpc'[l]] /\ idx' = [l \in Lanes |-> idx'[l]]
          /\ seg' = [l \in Lanes |-> seg'[l]]
          /\ reads' = [l \in Lanes |-> reads'[l]]
      BY DEF AfterBlock
    <2>2. ASSUME NEW l \in Lanes
          PROVE  /\ lpc'[l] \in {"begin", "sync", "load", "store", "barrier",
                                 "final", "done"}
                 /\ seg'[l] \in 0..Segments /\ idx'[l] \in Offsets
                 /\ reads'[l] \in SUBSET [block : Blocks, version : Nat,
                                          i : Offsets]
      BY <1>2, <1>3, AfterBlockParts, FillConstants DEF FillInv, FillTypes
    <2> QED
      BY <2>1, <2>2 DEF FillInv, FillTypes
  <1>5. Places'
    <2> SUFFICES ASSUME NEW l \in Lanes PROVE PlaceOf(l)'
      BY DEF Places
    <2>1. CASE l \notin S
      BY <2>1, AfterBlockParts DEF FillInv, Places, PlaceOf, Active
    <2>2. CASE l \in S /\ idx[l] + 1 = SegLength
      BY <2>2, AfterBlockParts DEF PlaceOf, Active
    <2>3. CASE l \in S /\ idx[l] + 1 # SegLength
      BY <2>3, <1>1, AfterBlockParts DEF PlaceOf, Active
    <2> QED
      BY <2>1, <2>2, <2>3
  <1>6. ReadsAsSequential'
    <2> SUFFICES ASSUME NEW l \in Lanes, NEW r \in reads'[l]
                 PROVE  /\ r.version > 0
                        /\ r.version = Sequential(seg'[l], l, r.i, r.block)
      BY DEF ReadsAsSequential, Sequential
    <2>1. r \in reads[l] /\ seg'[l] = seg[l]
      BY AfterBlockParts
    <2> QED
      BY <2>1 DEF FillInv, ReadsAsSequential
  <1> QED
    BY <1>4, <1>5, <1>6

\* A lane's count after a block: that of the step after it.
LEMMA CountAfterBlock ==
  ASSUME FillInv, NEW S \in SUBSET Lanes, AfterBlock(S), NEW l \in S,
         Active(l), NEW k \in Slots, NEW j \in Offsets
  PROVE  CountAt(seg'[l], l, Pos(l)', l, k, j)
           = CountAt(seg[l], l, idx[l] + 1, l, k, j)
  <1>1. seg[l] \in Nat /\ idx[l] \in Nat
    BY FillConstants DEF FillInv, FillTypes
  <1>2. CASE idx[l] + 1 = SegLength
    <2>1. seg'[l] = seg[l] + 1 /\ Pos(l)' = 0
      BY <1>2, AfterBlockParts DEF Pos, Active
    <2> QED
      BY <1>1, <1>2, <2>1, CountAtEnd
  <1>3. CASE idx[l] + 1 # SegLength
    <2>1. seg'[l] = seg[l] /\ Pos(l)' = idx[l] + 1
      BY <1>3, AfterBlockParts DEF Pos, Active
    <2> QED
      BY <2>1
  <1> QED
    BY <1>2, <1>3

\* What a store does to the counts of the blocks.
LEMMA StoreCounts ==
  ASSUME FillInv, NEW l \in Lanes, store(l)
  PROVE  /\ mem' \in [Blocks -> Nat]
         /\ \A k \in Slots, j \in Offsets :
               mem'[At(l, k, j)] = CountAt(seg[l], l, idx[l] + 1, l, k, j)
         /\ \A m \in Lanes, k \in Slots, j \in Offsets :
               m # l => mem'[At(m, k, j)] = mem[At(m, k, j)]
  <1> DEFINE s == seg[l]
             i == idx[l]
             c == slice(s)
  <1>1. s \in Nat /\ i \in Offsets /\ i >= first_idx(s)
    BY FillConstants DEF FillInv, FillTypes, Places, PlaceOf, Active, store
  <1>2. c \in Slots /\ cur_idx(s, l, i) = At(l, c, i)
    BY <1>1, CurPlace
  <1>3. At(l, c, i) \in Blocks
    BY <1>1, <1>2, AtBlock
  <1>4. mem' = [mem EXCEPT ![At(l, c, i)] = @ + 1]
    BY <1>2 DEF store
  <1>5. mem \in [Blocks -> Nat]
    BY DEF FillInv, FillTypes
  <1>6. mem' \in [Blocks -> Nat]
    BY <1>3, <1>4, <1>5
  <1>7. ASSUME NEW k \in Slots, NEW j \in Offsets
        PROVE  mem'[At(l, k, j)] = CountAt(s, l, i + 1, l, k, j)
    <2>1. mem[At(l, k, j)] = CountAt(s, l, i, l, k, j)
      <3>1. Pos(l) = i
        BY DEF Pos, Active, store
      <3> QED
        BY <3>1 DEF FillInv, MemCount
    <2>2. At(l, k, j) \in Blocks
      BY AtBlock
    <2>3. At(l, k, j) = At(l, c, i) <=> k = c /\ j = i
      BY <1>1, <1>2, AtInjective
    <2>4. CountAt(s, l, i + 1, l, k, j) =
            IF k = c /\ j = i THEN CountAt(s, l, i, l, k, j) + 1
                              ELSE CountAt(s, l, i, l, k, j)
      BY <1>1, CountAtStore
    <2> HIDE DEF s, i, c
    <2> QED
      BY <1>3, <1>4, <1>5, <2>1, <2>2, <2>3, <2>4
  <1>8. ASSUME NEW m \in Lanes, NEW k \in Slots, NEW j \in Offsets, m # l
        PROVE  mem'[At(m, k, j)] = mem[At(m, k, j)]
    <2>1. At(m, k, j) # At(l, c, i)
      BY <1>1, <1>2, <1>8, AtInjective
    <2>2. At(m, k, j) \in Blocks
      BY AtBlock
    <2> HIDE DEF s, i, c
    <2> QED
      BY <1>4, <1>5, <2>1, <2>2
  <1> QED
    BY <1>6, <1>7, <1>8

\* OpenCL: the lane waits at the barrier.
LEMMA StoreWaits ==
  ASSUME FillInv, NEW l \in Lanes, store(l), device = "opencl"
  PROVE  FillInv'
  <1>1. /\ lpc[l] = "store" /\ lpc' = [lpc EXCEPT ![l] = "barrier"]
        /\ UNCHANGED <<device, seg, idx, reads, scratch, out>>
    BY DEF store
  <1>2. /\ lpc'[l] = "barrier" /\ \A m \in Lanes : m # l => lpc'[m] = lpc[m]
        /\ \A m \in Lanes : Active(m)' <=> Active(m)
    BY <1>1 DEF FillInv, FillTypes, Active
  <1>3. FillTypes'
    BY <1>1, StoreCounts DEF FillInv, FillTypes
  <1>4. Places'
    BY <1>1, <1>2 DEF FillInv, Places, PlaceOf, Active
  <1>5. InStep'
    BY <1>1, <1>2 DEF FillInv, InStep, Started
  <1>6. MemCount'
    <2> SUFFICES ASSUME NEW m \in Lanes, NEW k \in Slots, NEW j \in Offsets
                 PROVE  mem'[At(m, k, j)]
                          = CountAt(seg'[m], m, Pos(m)', m, k, j)
      BY DEF MemCount
    <2>1. CASE m = l
      <3>1. Pos(l)' = idx[l] + 1
        BY <1>1, <1>2 DEF Pos
      <3> QED
        BY <1>1, <2>1, <3>1, StoreCounts
    <2>2. CASE m # l
      <3>1. Pos(m)' = Pos(m)
        BY <1>1, <1>2, <2>2 DEF Pos
      <3> QED
        BY <1>1, <2>2, <3>1, StoreCounts DEF FillInv, MemCount
    <2> QED
      BY <2>1, <2>2
  <1>7. ReadsAsSequential'
    BY <1>1 DEF FillInv, ReadsAsSequential
  <1>8. LastBlocks'
    BY <1>1, <1>2 DEF FillInv, LastBlocks, ResultOfAllLanes
  <1> QED
    BY <1>3, <1>4, <1>5, <1>6, <1>7, <1>8 DEF FillInv

\* CPU and CUDA: the lane goes on, at the end of a segment to the next one.
LEMMA StoreGoesOn ==
  ASSUME FillInv, NEW l \in Lanes, store(l), device # "opencl"
  PROVE  FillInv'
  <1>1. /\ lpc[l] = "store" /\ AfterBlock({l})
        /\ UNCHANGED <<device, scratch, out>>
    BY DEF store
  <1>2. Active(l)
    BY <1>1 DEF Active
  <1>3. /\ \A m \in Lanes : m # l => /\ lpc'[m] = lpc[m] /\ idx'[m] = idx[m]
                                     /\ seg'[m] = seg[m]
        /\ idx[l] + 1 = SegLength => lpc'[l] = "begin" /\ seg'[l] = seg[l] + 1
        /\ idx[l] + 1 # SegLength => lpc'[l] = "load" /\ seg'[l] = seg[l]
    BY <1>1, AfterBlockParts
  <1>4. \A m \in Lanes : m # l => (Active(m)' <=> Active(m))
    BY <1>3 DEF Active
  <1>5. FillTypes' /\ Places' /\ ReadsAsSequential'
    BY <1>1, <1>2, StoreCounts, AfterBlockKeeps
  <1>6. \A m \in Lanes : seg[m] \in Nat
    BY FillConstants DEF FillInv, FillTypes
  <1>7. InStep'
    <2>1. ASSUME NEW k \in Lanes, NEW m \in Lanes
          PROVE  /\ seg'[k] <= seg'[m] + 1
                 /\ Active(k)' => seg'[k] <= seg'[m]
      <3>1. /\ seg[k] <= seg[m] + 1 /\ seg[l] <= seg[m]
            /\ Active(k) => seg[k] <= seg[m]
        BY <1>2 DEF FillInv, InStep
      <3>2. seg[k] \in Nat /\ seg[m] \in Nat /\ seg[l] \in Nat
        BY <1>6
      <3>3. CASE idx[l] + 1 = SegLength
        <4>1. ~Active(l)' /\ seg'[l] = seg[l] + 1
          BY <1>3, <3>3 DEF Active
        <4> QED
          BY <1>3, <1>4, <3>1, <3>2, <4>1
      <3>4. CASE idx[l] + 1 # SegLength
        <4>1. \A n \in Lanes : seg'[n] = seg[n] /\ (Active(n)' => Active(n))
          BY <1>2, <1>3, <1>4, <3>4
        <4> QED
          BY <3>1, <4>1
      <3> QED
        BY <3>3, <3>4
    <2>2. \A m \in Lanes : Started(m)' = Started(m)
      <3>1. Started(l)' = Started(l)
        BY <1>2, <1>3 DEF Started, Active
      <3> QED
        BY <1>3, <1>4, <3>1 DEF Started
    <2>3. device' = device
      BY <1>1
    <2> QED
      BY <2>1, <2>2, <2>3 DEF FillInv, InStep
  <1>8. MemCount'
    <2> SUFFICES ASSUME NEW m \in Lanes, NEW k \in Slots, NEW j \in Offsets
                 PROVE  mem'[At(m, k, j)]
                          = CountAt(seg'[m], m, Pos(m)', m, k, j)
      BY DEF MemCount
    <2>1. CASE m = l
      <3>1. CountAt(seg'[l], l, Pos(l)', l, k, j)
              = CountAt(seg[l], l, idx[l] + 1, l, k, j)
        BY <1>1, <1>2, CountAfterBlock
      <3> QED
        BY <2>1, <3>1, StoreCounts
    <2>2. CASE m # l
      <3>1. Pos(m)' = Pos(m) /\ seg'[m] = seg[m]
        BY <1>3, <1>4, <2>2 DEF Pos
      <3> QED
        BY <2>2, <3>1, StoreCounts DEF FillInv, MemCount
    <2> QED
      BY <2>1, <2>2
  <1>9. LastBlocks'
    <2>1. {m \in Lanes : lpc'[m] \in {"final", "done"}}
            = {m \in Lanes : lpc[m] \in {"final", "done"}}
      BY <1>1, <1>3
    <2> QED
      BY <1>1, <2>1 DEF FillInv, LastBlocks, ResultOfAllLanes
  <1> QED
    BY <1>5, <1>7, <1>8, <1>9 DEF FillInv

\* The work group leaves the barrier.
LEMMA BarrierKeeps ==
  ASSUME FillInv, barrier
  PROVE  FillInv'
  <1>1. /\ \A l \in Lanes : lpc[l] = "barrier" /\ Active(l)
        /\ AfterBlock(Lanes) /\ UNCHANGED <<device, mem, scratch, out>>
    BY DEF barrier, Active
  <1>2. \A k, l \in Lanes : /\ device = "opencl"
                            /\ seg[k] = seg[l] /\ idx[k] = idx[l]
    BY <1>1 DEF FillInv, Places, PlaceOf, InStep
  <1>3. /\ \A l \in Lanes : idx[l] + 1 = SegLength =>
              lpc'[l] = "begin" /\ seg'[l] = seg[l] + 1
        /\ \A l \in Lanes : idx[l] + 1 # SegLength =>
              lpc'[l] = "load" /\ idx'[l] = idx[l] + 1 /\ seg'[l] = seg[l]
    BY <1>1, AfterBlockParts
  <1>4. FillTypes' /\ Places' /\ ReadsAsSequential'
    BY <1>1, AfterBlockKeeps DEF FillInv, FillTypes
  <1>5. InStep'
    <2>1. ASSUME NEW k \in Lanes, NEW m \in Lanes
          PROVE  /\ device' = "opencl" /\ seg'[k] = seg'[m] /\ seg'[k] \in Nat
                 /\ Active(k)' => idx'[k] = idx'[m] /\ Active(m)'
      <3>1. seg[k] \in Nat
        BY FillConstants DEF FillInv, FillTypes
      <3> QED
        BY <1>1, <1>2, <1>3, <3>1 DEF Active
    <2> QED
      BY <2>1 DEF InStep, Started
  <1>6. MemCount'
    <2> SUFFICES ASSUME NEW m \in Lanes, NEW k \in Slots, NEW j \in Offsets
                 PROVE  mem'[At(m, k, j)]
                          = CountAt(seg'[m], m, Pos(m)', m, k, j)
      BY DEF MemCount
    <2>1. CountAt(seg'[m], m, Pos(m)', m, k, j)
            = CountAt(seg[m], m, idx[m] + 1, m, k, j)
      BY <1>1, CountAfterBlock
    <2>2. Pos(m) = idx[m] + 1
      BY <1>1 DEF Pos
    <2> QED
      BY <1>1, <2>1, <2>2 DEF FillInv, MemCount
  <1>7. LastBlocks'
    <2>1. {m \in Lanes : lpc'[m] \in {"final", "done"}}
            = {m \in Lanes : lpc[m] \in {"final", "done"}}
      BY <1>1, <1>3
    <2> QED
      BY <1>1, <2>1 DEF FillInv, LastBlocks, ResultOfAllLanes
  <1> QED
    BY <1>4, <1>5, <1>6, <1>7 DEF FillInv

\* FillInv is about the variables of Argon2Fill alone.
LEMMA StutterKeeps == FillInv /\ UNCHANGED vars => FillInv'
  BY DEF FillInv, FillTypes, Places, PlaceOf, InStep, MemCount, Pos, Active,
         Started, ReadsAsSequential, LastBlocks, ResultOfAllLanes, vars

\* Every step of the filling keeps FillInv.
LEMMA FillInvStep == FillInv /\ [Next]_vars => FillInv'
  <1> SUFFICES ASSUME FillInv, [Next]_vars PROVE FillInv'
    OBVIOUS
  <1>1. ASSUME NEW l \in Lanes, begin_segment(l) PROVE FillInv'
    BY <1>1, BeginKeeps
  <1>2. ASSUME NEW l \in Lanes, load(l) PROVE FillInv'
    BY <1>2, LoadKeeps
  <1>3. ASSUME NEW l \in Lanes, store(l) PROVE FillInv'
    BY <1>3, StoreWaits, StoreGoesOn
  <1>4. ASSUME NEW l \in Lanes, final_block(l) PROVE FillInv'
    BY <1>4, FinalBlockKeeps
  <1>5. CASE syncthreads
    BY <1>5, SyncKeeps
  <1>6. CASE barrier
    BY <1>6, BarrierKeeps
  <1>7. CASE final_sum
    BY <1>7, FinalSumKeeps
  <1>8. CASE Filled \/ UNCHANGED vars
    BY <1>8, StutterKeeps DEF Filled
  <1> QED
    BY <1>1, <1>2, <1>3, <1>4, <1>5, <1>6, <1>7, <1>8 DEF Next

-----------------------------------------------------------------------------
(* Theorems.                                                               *)

\* generate_hashes fills the memory as module Argon2Fill says, and nothing
\* else in it touches the memory.
THEOREM HashImplementsFill == HashSpec => Spec
  <1>1. HashInit => Init
    BY DEF HashInit
  <1>2. [HashNext]_allVars => [Next]_vars
    BY DEF HashNext, allVars, initial_hash, initial_hash_end,
           fill_first_blocks, first_blocks_end, fill, Fail, encode_hashes,
           Returned
  <1> QED
    BY <1>1, <1>2, PTL DEF HashSpec, Spec

\* FillInv is an invariant of the hash.
LEMMA FillInvariant == HashSpec => []FillInv
  BY HashImplementsFill, InitFillInv, FillInvStep, PTL DEF Spec

\* No block is written more often than there are passes.
LEMMA WritesBounded == FillInv => mem \in [Blocks -> 0..Passes]
  <1> SUFFICES ASSUME FillInv, NEW b \in Blocks PROVE mem[b] \in 0..Passes
    BY DEF FillInv, FillTypes
  <1>1. PICK l \in Lanes, k \in Slots, j \in Offsets : b = At(l, k, j)
    BY BlockAt
  <1>2. mem[b] = CountAt(seg[l], l, Pos(l), l, k, j)
    BY <1>1 DEF FillInv, MemCount
  <1>3. seg[l] \in Nat /\ seg[l] <= Segments /\ Passes \in Nat
    BY FillConstants, SegmentsType DEF FillInv, FillTypes
  <1>4. CASE seg[l] < Segments
    <2>1. pass(seg[l]) + 1 <= Passes /\ pass(seg[l]) \in Nat
      BY <1>3, <1>4, SegmentsType, SegmentParts
    <2> QED
      BY <1>2, <1>3, <2>1, CountType
  <1>5. CASE seg[l] = Segments
    <2>1. Pos(l) = 0
      BY <1>3, <1>5, SegmentsType DEF FillInv, Places, PlaceOf, Pos, Active
    <2>2. CountAt(Segments, l, 0, l, k, j) = Passes
      BY SegmentsType DEF CountAt, Slots, Offsets, Lanes
    <2> QED
      BY <1>2, <1>3, <1>5, <2>1, <2>2
  <1> QED
    BY <1>3, <1>4, <1>5, SegmentsType

\* For any number of lanes, passes and blocks, no block is written more often
\* than there are passes and no step leaves the memory of the hash.
THEOREM FillTypeCorrect == HashSpec => []TypeOK
  <1>1. FillInv => TypeOK
    BY WritesBounded DEF FillInv, FillTypes, TypeOK, Offsets
  <1> QED
    BY <1>1, FillInvariant, PTL

\* The CPU's turns, CUDA's __syncthreads at the head of a segment and OpenCL's
\* barrier after every block each suffice for every block read to be the one
\* the sequential algorithm would read, also when it is read ahead.
THEOREM FillAsSequential == HashSpec => []ReadsAsSequential
  <1>1. FillInv => ReadsAsSequential
    BY DEF FillInv
  <1> QED
    BY <1>1, FillInvariant, PTL

\* The sum is of the last block of every lane, each after its last pass.
THEOREM SumOfAllLanes == HashSpec => []ResultOfAllLanes
  <1>1. FillInv => ResultOfAllLanes
    BY DEF FillInv, LastBlocks
  <1> QED
    BY <1>1, FillInvariant, PTL

-----------------------------------------------------------------------------
(* blake2b_long.                                                           *)

Half == OutBytes \div 2

\* A digest has two halves.
LEMMA HalfType == Half \in Nat \ {0} /\ OutBytes = 2 * Half
  BY Blake2bAssumption DEF Half

\* While there is more to produce than a digest has, halves only were copied,
\* and more than half a digest is left to do.
Halves ==
    LET m == Len(produced)
    IN  /\ produced \in Seq(Nat) /\ m > 0
        /\ \A i \in 1..m : produced[i] = Half
        /\ outlen \in Nat /\ outlen > OutBytes
        /\ toproduce \in Nat /\ toproduce > Half
        /\ outlen = m * Half + toproduce

LongInv == (bpc = "long" => Halves) /\ LongOutput

\* How many digests that are used by half there are before the last.
LEMMA DigestCount ==
  ASSUME NEW h \in Nat \ {0}, NEW m \in Nat, NEW x \in Nat,
         h < x, x <= 2 * h
  PROVE  CeilDiv(m * h + x, h) = m + 2
  <1> DEFINE y == x - h - 1
  <1>1. y \in 0..(h - 1) /\ x = h + y + 1 /\ m + 2 \in Nat
    OBVIOUS
  <1>2. m * h \in Nat /\ (m + 2) * h = m * h + 2 * h
    BY SMTT(30)
  <1>3. m * h + x + h - 1 = (m + 2) * h + y
    <2> DEFINE a == m * h
               c == (m + 2) * h
    <2>1. a \in Nat /\ c = a + 2 * h
      BY <1>2
    <2> HIDE DEF a, c, y
    <2>2. a + x + h - 1 = c + y
      BY <1>1, <2>1
    <2> QED
      BY <2>2 DEF a, c
  <1> HIDE DEF y
  <1>4. ((m + 2) * h + y) \div h = m + 2
    BY <1>1, DivMod
  <1> QED
    BY <1>3, <1>4 DEF CeilDiv

\* The first digest of blake2b_long keeps LongInv.
LEMMA LongBegins ==
  ASSUME LongInv, NEW n \in Nat \ {0}, long_begin(n)
  PROVE  LongInv'
  <1>1. CASE n <= OutBytes
    BY <1>1 DEF long_begin, LongInv, LongOutput
  <1>2. CASE ~(n <= OutBytes)
    <2>1. /\ outlen' = n /\ bpc' = "long" /\ produced' = <<Half>>
          /\ toproduce' = n - Half /\ n > OutBytes
      BY <1>2, HalfType DEF long_begin, Half
    <2>2. /\ produced' \in Seq(Nat) /\ Len(produced') = 1
          /\ produced'[1] = Half
      BY <2>1, HalfType
    <2>3. n = 1 * Half + (n - Half) /\ n - Half \in Nat /\ n - Half > Half
      BY <2>1, HalfType
    <2>4. Halves'
      BY <2>1, <2>2, <2>3, HalfType DEF Halves
    <2> QED
      BY <2>1, <2>4 DEF LongInv, LongOutput
  <1> QED
    BY <1>1, <1>2

\* So does a digest of which half is output.
LEMMA LongGoesOn ==
  ASSUME LongInv, long_loop
  PROVE  LongInv'
  <1> DEFINE m == Len(produced)
  <1>1. /\ bpc' = "long" /\ outlen' = outlen
        /\ produced' = Append(produced, Half)
        /\ toproduce' = toproduce - Half /\ toproduce > 2 * Half
    BY HalfType DEF long_loop, HalfOnly, Half
  <1>2. Halves
    BY DEF LongInv, long_loop
  <1>3. /\ m \in Nat /\ produced' \in Seq(Nat) /\ Len(produced') = m + 1
        /\ \A i \in 1..(m + 1) : produced'[i] = Half
    BY <1>1, <1>2, HalfType DEF Halves
  <1>4. outlen = (m + 1) * Half + (toproduce - Half)
    <2>1. outlen = m * Half + toproduce
      BY <1>2 DEF Halves
    <2>2. m * Half \in Nat /\ (m + 1) * Half = m * Half + Half
      BY <1>3, HalfType, SMTT(30)
    <2> DEFINE a == m * Half
               c == (m + 1) * Half
    <2>3. a \in Nat /\ c = a + Half /\ outlen = a + toproduce
      BY <2>1, <2>2
    <2>4. toproduce \in Nat /\ Half \in Nat
      BY <1>2, HalfType DEF Halves
    <2> HIDE DEF a, c, m
    <2>5. outlen = c + (toproduce - Half)
      BY <2>3, <2>4
    <2> QED
      BY <2>5 DEF c, m
  <1>5. Halves'
    BY <1>1, <1>2, <1>3, <1>4, HalfType DEF Halves
  <1> QED
    BY <1>1, <1>5 DEF LongInv, LongOutput

\* And the last one, of which all that is left is output.
LEMMA LongEnds ==
  ASSUME LongInv, long_last
  PROVE  LongInv'
  <1> DEFINE m == Len(produced)
  <1>1. /\ bpc' = "produced" /\ outlen' = outlen
        /\ produced' = Append(produced, toproduce)
        /\ ~(toproduce > OutBytes)
    BY DEF long_last, HalfOnly
  <1>2. Halves
    BY DEF LongInv, long_last
  <1>3. toproduce \in Nat /\ Half < toproduce /\ toproduce <= 2 * Half
    BY <1>1, <1>2, HalfType DEF Halves
  <1>4. m \in Nat /\ outlen = m * Half + toproduce
    BY <1>2 DEF Halves
  <1>5. CeilDiv(outlen, Half) = m + 2
    BY <1>3, <1>4, HalfType, DigestCount
  <1>6. CeilDiv(outlen, Half) - 2 = m
    BY <1>4, <1>5
  <1>7. toproduce = outlen - m * Half
    <2>1. m * Half \in Nat
      BY <1>4, HalfType, SMTT(30)
    <2> QED
      BY <1>3, <1>4, <2>1
  <1>8. produced' = [i \in 1..(m + 1) |->
                       IF i <= m THEN Half ELSE outlen - m * Half]
    BY <1>1, <1>2, <1>4, <1>7 DEF Halves
  <1>9. outlen > OutBytes /\ outlen \in Nat
    BY <1>2 DEF Halves
  <1>10. LongOutput'
    BY <1>1, <1>6, <1>8, <1>9, HalfType DEF LongOutput, Half
  <1> QED
    BY <1>1, <1>10 DEF LongInv

-----------------------------------------------------------------------------
(* blake2b_update and blake2b_final.                                       *)

\* Call i of the compression function for a whole block of message f.
WholeBlock(f, i) ==
    [block |-> SubSeq(f, (i - 1) * BlockBytes + 1, i * BlockBytes),
     t     |-> i * BlockBytes,
     last  |-> FALSE]

\* The whole blocks were compressed in order, and the buffer and what is to be
\* taken in are the rest of the message.  A buffer is kept until it is known
\* that it is not the last.
Done == Len(compressed) * BlockBytes

StreamTypes ==
    /\ fed \in Seq(Int) /\ buf \in Seq(Int) /\ rest \in Seq(Int)
    /\ Len(compressed) \in Nat
    /\ counter = Done

BlocksSoFar ==
    compressed = [i \in 1..Len(compressed) |-> WholeBlock(fed, i)]

Remainder ==
    /\ Len(fed) = Done + Len(buf) + Len(rest)
    /\ \A i \in 1..Len(buf) : buf[i] = fed[Done + i]
    /\ \A i \in 1..Len(rest) : rest[i] = fed[Done + Len(buf) + i]

Kept ==
    /\ bpc = "idle" => /\ rest = <<>> /\ Len(buf) <= BlockBytes
                       /\ Len(compressed) > 0 => Len(buf) > 0
    /\ bpc = "loop" => buf = <<>> /\ Len(rest) > 0

StreamState == StreamTypes /\ BlocksSoFar /\ Remainder /\ Kept

StreamInv ==
    /\ bpc \in {"idle", "loop"} => StreamState
    /\ StreamAsOneMessage

\* A block of blake2b is not empty.
LEMMA BlockBytesType == BlockBytes \in Nat \ {0}
  BY Blake2bAssumption

\* The whole blocks of a message end within it.
LEMMA BlockEnds ==
  ASSUME NEW m \in Nat, NEW i \in 1..m
  PROVE  /\ (i - 1) * BlockBytes \in Nat
         /\ i * BlockBytes = (i - 1) * BlockBytes + BlockBytes
         /\ i * BlockBytes \in Nat
         /\ i * BlockBytes <= m * BlockBytes /\ m * BlockBytes \in Nat
  BY BlockBytesType, SMTT(30)

\* A part of a sequence, by its length and its elements.
LEMMA SubSeqIs ==
  ASSUME NEW f \in Seq(Int), NEW a \in Nat, NEW z \in Nat,
         1 <= a, a <= z + 1, z <= Len(f),
         NEW b \in Seq(Int), Len(b) = z - a + 1,
         \A i \in 1..Len(b) : b[i] = f[a + i - 1]
  PROVE  SubSeq(f, a, z) = b
  <1> DEFINE q == SubSeq(f, a, z)
  <1>1. \A i \in a..z : f[i] \in Int
    OBVIOUS
  <1>2. /\ q \in Seq(Int) /\ Len(q) = IF a <= z THEN z - a + 1 ELSE 0
        /\ \A i \in 1..(z - a + 1) : q[i] = f[a + i - 1]
    BY <1>1, SubSeqProperties
  <1> HIDE DEF q
  <1>3. Len(q) = Len(b) /\ 1..Len(q) = 1..(z - a + 1)
    BY <1>2
  <1>4. \A i \in 1..Len(q) : q[i] = b[i]
    BY <1>2, <1>3
  <1>5. q = b
    BY <1>2, <1>3, <1>4, SeqEqual
  <1> QED
    BY <1>5 DEF q

\* b is what f has after its first d elements, as far as b goes.
SameFrom(b, f, d) == \A i \in 1..Len(b) : b[i] = f[d + i]

\* The same for the part that follows the first d elements.
LEMMA SubSeqAfter ==
  ASSUME NEW f \in Seq(Int), NEW d \in Nat, NEW b \in Seq(Int),
         d + Len(b) <= Len(f), SameFrom(b, f, d)
  PROVE  SubSeq(f, d + 1, d + Len(b)) = b
  <1> DEFINE n == Len(b)
             len == Len(f)
             a == d + 1
             z == d + n
             q == SubSeq(f, a, z)
  <1>1. /\ n \in Nat /\ len \in Nat /\ z <= len
        /\ \A i \in 1..len : f[i] \in Int
    OBVIOUS
  <1>2. \A i \in 1..n : b[i] = f[d + i]
    BY DEF SameFrom
  <1> HIDE DEF n, len, q
  <1>3. a \in Int /\ z \in Int /\ a..z \subseteq 1..len
    BY <1>1
  <1>4. \A i \in a..z : f[i] \in Int
    BY <1>1, <1>3
  <1> HIDE DEF a, z
  <1>5. /\ q \in Seq(Int) /\ Len(q) = IF a <= z THEN z - a + 1 ELSE 0
        /\ \A i \in 1..(z - a + 1) : q[i] = f[a + i - 1]
    BY <1>3, <1>4, SubSeqProperties DEF q
  <1>6. /\ z - a + 1 = n /\ (IF a <= z THEN z - a + 1 ELSE 0) = n
        /\ \A i \in 1..n : a + i - 1 = d + i
    BY <1>1 DEF a, z
  <1>7. Len(q) = n /\ \A i \in 1..n : q[i] = f[a + i - 1]
    BY <1>5, <1>6, Zenon
  <1>8. \A i \in 1..n : q[i] = b[i]
    BY <1>2, <1>6, <1>7
  <1>9. Len(q) = Len(b) /\ \A i \in 1..Len(q) : q[i] = b[i]
    BY <1>7, <1>8 DEF n
  <1>10. q = b
    BY <1>5, <1>9, SeqEqual
  <1> QED
    BY <1>10 DEF q, a, z, n

\* They do not change when the message grows.
LEMMA WholeBlockGrows ==
  ASSUME NEW f \in Seq(Int), NEW in \in Seq(Int), NEW m \in Nat,
         m * BlockBytes <= Len(f), NEW i \in 1..m
  PROVE  WholeBlock(f \o in, i) = WholeBlock(f, i)
  <1> DEFINE a == (i - 1) * BlockBytes + 1
             z == i * BlockBytes
  <1>1. a \in Nat /\ a >= 1 /\ z \in Nat /\ z <= Len(f)
    <2> DEFINE y == (i - 1) * BlockBytes
               e == m * BlockBytes
    <2>1. y \in Nat /\ z \in Nat /\ z <= e /\ e \in Nat /\ e <= Len(f)
      BY BlockEnds
    <2>2. a = y + 1 /\ Len(f) \in Nat
      OBVIOUS
    <2> HIDE DEF y, e, a, z
    <2> QED
      BY <2>1, <2>2
  <1> HIDE DEF a, z
  <1>2. SubSeq(f \o in, a, z) = SubSeq(f, a, z)
    <2> DEFINE q == SubSeq(f, a, z)
               g == f \o in
    <2>1. a <= z + 1
      <3> DEFINE y == (i - 1) * BlockBytes
      <3>1. y \in Nat /\ z = y + BlockBytes /\ a = y + 1
        BY BlockEnds DEF a, z
      <3> HIDE DEF y
      <3> QED
        BY <3>1, BlockBytesType
    <2>2. /\ q \in Seq(Int) /\ Len(q) = z - a + 1
          /\ \A n \in 1..(z - a + 1) : q[n] = f[a + n - 1]
      <3>1. \A n \in a..z : f[n] \in Int
        BY <1>1
      <3> QED
        BY <1>1, <2>1, <3>1, SubSeqProperties
    <2>3. /\ g \in Seq(Int) /\ Len(g) >= Len(f)
          /\ \A n \in 1..Len(f) : g[n] = f[n]
      OBVIOUS
    <2> HIDE DEF q, g
    <2>4. \A n \in 1..Len(q) : q[n] = g[a + n - 1]
      <3> SUFFICES ASSUME NEW n \in 1..Len(q) PROVE q[n] = g[a + n - 1]
        OBVIOUS
      <3>1. n \in 1..(z - a + 1) /\ a + n - 1 \in 1..Len(f)
        BY <1>1, <2>1, <2>2
      <3>2. q[n] = f[a + n - 1]
        BY <2>2, <3>1
      <3> QED
        BY <2>3, <3>1, <3>2
    <2>5. z <= Len(g) /\ Len(f) \in Nat
      BY <1>1, <2>3
    <2>6. SubSeq(g, a, z) = q
      BY <1>1, <2>1, <2>2, <2>3, <2>4, <2>5, SubSeqIs
    <2> QED
      BY <2>6 DEF q, g
  <1> QED
    BY <1>2 DEF WholeBlock, a, z

\* The next block of the message, compressed.
LEMMA BlockDone ==
  ASSUME NEW f \in Seq(Int), NEW m \in Nat,
         (m + 1) * BlockBytes <= Len(f),
         NEW b \in Seq(Int), Len(b) = BlockBytes,
         \A i \in 1..BlockBytes : b[i] = f[m * BlockBytes + i]
  PROVE  WholeBlock(f, m + 1)
           = [block |-> b, t |-> m * BlockBytes + BlockBytes, last |-> FALSE]
  <1> DEFINE done == m * BlockBytes
             z == (m + 1) * BlockBytes
  <1>1. done \in Nat /\ z = done + BlockBytes /\ BlockBytes \in Nat \ {0}
    BY BlockBytesType, SMTT(30)
  <1>2. z <= Len(f)
    OBVIOUS
  <1>3. \A i \in 1..BlockBytes : b[i] = f[done + i]
    OBVIOUS
  <1>4. m + 1 - 1 = m
    OBVIOUS
  <1> HIDE DEF done, z
  <1>5. SubSeq(f, done + 1, z) = b
    <2>1. Len(b) = BlockBytes
      OBVIOUS
    <2>2. z = done + Len(b) /\ SameFrom(b, f, done)
      BY <1>1, <1>3, <2>1 DEF SameFrom
    <2>3. done + Len(b) <= Len(f)
      BY <1>2, <2>2
    <2>4. SubSeq(f, done + 1, done + Len(b)) = b
      BY <1>1, <2>2, <2>3, SubSeqAfter
    <2> QED
      BY <2>2, <2>4
  <1>6. WholeBlock(f, m + 1) =
          [block |-> SubSeq(f, (m + 1 - 1) * BlockBytes + 1,
                            (m + 1) * BlockBytes),
           t     |-> (m + 1) * BlockBytes,
           last  |-> FALSE]
    BY DEF WholeBlock
  <1>7. /\ (m + 1 - 1) * BlockBytes = done /\ (m + 1) * BlockBytes = z
        /\ m * BlockBytes + BlockBytes = z
    BY <1>1, <1>4 DEF done, z
  <1> QED
    BY <1>5, <1>6, <1>7

\* The elements of a concatenation.
LEMMA ConcatParts ==
  ASSUME NEW f \in Seq(Int), NEW in \in Seq(Int)
  PROVE  /\ f \o in \in Seq(Int) /\ Len(f \o in) = Len(f) + Len(in)
         /\ \A i \in 1..Len(f) : (f \o in)[i] = f[i]
         /\ \A i \in 1..Len(in) : (f \o in)[Len(f) + i] = in[i]
  <1> DEFINE g == f \o in
  <1>1. /\ g \in Seq(Int) /\ Len(g) = Len(f) + Len(in)
        /\ \A i \in 1..(Len(f) + Len(in)) :
              g[i] = IF i <= Len(f) THEN f[i] ELSE in[i - Len(f)]
    BY ConcatProperties
  <1>2. Len(f) \in Nat /\ Len(in) \in Nat
    OBVIOUS
  <1> HIDE DEF g
  <1>3. \A i \in 1..Len(f) : g[i] = f[i]
    BY <1>1, <1>2
  <1>4. ASSUME NEW i \in 1..Len(in) PROVE g[Len(f) + i] = in[i]
    <2> DEFINE h == Len(f) + i
    <2>1. h \in 1..(Len(f) + Len(in)) /\ ~(h <= Len(f)) /\ h - Len(f) = i
      BY <1>2
    <2> HIDE DEF h
    <2>2. g[h] = in[i]
      BY <1>1, <2>1
    <2> QED
      BY <2>2 DEF h
  <1> QED
    BY <1>1, <1>3, <1>4 DEF g

\* Lengths are numbers.
LEMMA DoneType ==
  ASSUME StreamTypes
  PROVE  /\ Done \in Nat /\ Len(fed) \in Nat /\ Len(buf) \in Nat
         /\ Len(rest) \in Nat
         /\ (Len(compressed) + 1) * BlockBytes = Done + BlockBytes
  <1>1. Len(compressed) \in Nat
    BY DEF StreamTypes
  <1> DEFINE m == Len(compressed)
  <1> HIDE DEF m
  <1>2. m * BlockBytes \in Nat /\ (m + 1) * BlockBytes = m * BlockBytes + BlockBytes
    BY <1>1, BlockBytesType, SMTT(30) DEF m
  <1> QED
    BY <1>2 DEF m, Done, StreamTypes

\* A piece cut in two.
LEMMA FrontBack ==
  ASSUME NEW in \in Seq(Int), NEW n \in Nat, n <= Len(in)
  PROVE  /\ Front(in, n) \in Seq(Int) /\ Len(Front(in, n)) = n
         /\ \A i \in 1..n : Front(in, n)[i] = in[i]
         /\ Back(in, n) \in Seq(Int) /\ Len(Back(in, n)) = Len(in) - n
         /\ \A i \in 1..(Len(in) - n) : Back(in, n)[i] = in[n + i]
  <1> DEFINE f == Front(in, n)
             b == Back(in, n)
             len == Len(in)
  <1>1. len \in Nat /\ \A i \in 1..len : in[i] \in Int
    OBVIOUS
  <1>2. \A i \in 1..n : in[i] \in Int
    BY <1>1
  <1>3. /\ f \in Seq(Int) /\ Len(f) = (IF 1 <= n THEN n - 1 + 1 ELSE 0)
        /\ \A i \in 1..(n - 1 + 1) : f[i] = in[1 + i - 1]
    BY <1>2, SubSeqProperties DEF Front
  <1>4. \A i \in (n + 1)..len : in[i] \in Int
    BY <1>1
  <1>5. /\ b \in Seq(Int)
        /\ Len(b) = IF n + 1 <= len THEN len - (n + 1) + 1 ELSE 0
        /\ \A i \in 1..(len - (n + 1) + 1) : b[i] = in[n + 1 + i - 1]
    BY <1>1, <1>4, SubSeqProperties DEF Back
  <1>6. n <= len
    OBVIOUS
  <1> HIDE DEF f, b, len
  <1>7. Len(f) = n /\ n - 1 + 1 = n /\ \A i \in 1..n : 1 + i - 1 = i
    BY <1>3
  <1>8. /\ Len(b) = len - n /\ len - (n + 1) + 1 = len - n
        /\ \A i \in 1..(len - n) : n + 1 + i - 1 = n + i
    BY <1>1, <1>5, <1>6
  <1>9. \A i \in 1..n : f[i] = in[i]
    BY <1>3, <1>7
  <1>10. \A i \in 1..(len - n) : b[i] = in[n + i]
    BY <1>5, <1>8
  <1> QED
    BY <1>3, <1>5, <1>7, <1>8, <1>9, <1>10 DEF f, b, len

\* One more block of the message is compressed.
LEMMA CompressWhole ==
  ASSUME StreamTypes, NEW f \in Seq(Int),
         compressed = [i \in 1..Len(compressed) |-> WholeBlock(f, i)],
         Done + BlockBytes <= Len(f),
         NEW b \in Seq(Int), Len(b) = BlockBytes,
         \A i \in 1..BlockBytes : b[i] = f[Done + i],
         compress(b, BlockBytes, FALSE)
  PROVE  /\ Len(compressed') = Len(compressed) + 1
         /\ Len(compressed') \in Nat
         /\ compressed' = [i \in 1..Len(compressed') |-> WholeBlock(f, i)]
         /\ Done' = Done + BlockBytes
         /\ counter' = Done'
  <1> DEFINE m == Len(compressed)
             w(i) == WholeBlock(f, i)
             c == [i \in 1..(m + 1) |-> w(i)]
             e == [block |-> b, t |-> Done + BlockBytes, last |-> FALSE]
  <1>1. m \in Nat /\ counter = Done /\ (m + 1) * BlockBytes = Done + BlockBytes
    BY DoneType DEF StreamTypes
  <1>2. compressed = [i \in 1..m |-> w(i)]
    OBVIOUS
  <1>3. compressed' = Append(compressed, e) /\ counter' = Done + BlockBytes
    BY <1>1 DEF compress
  <1>4. w(m + 1) = e
    <2>1. (m + 1) * BlockBytes <= Len(f)
      BY <1>1
    <2>2. \A i \in 1..BlockBytes : b[i] = f[m * BlockBytes + i]
      BY DEF Done
    <2> HIDE DEF m
    <2>3. w(m + 1) = [block |-> b, t |-> m * BlockBytes + BlockBytes,
                      last |-> FALSE]
      BY <1>1, <2>1, <2>2, BlockDone
    <2> QED
      BY <2>3 DEF Done, m
  <1> HIDE DEF e, w, m
  <1>5. Append(compressed, e) = c /\ Len(c) = m + 1
    BY <1>1, <1>2, <1>4
  <1> HIDE DEF c
  <1>6. Len(compressed') = m + 1 /\ m + 1 \in Nat
    BY <1>1, <1>3, <1>5
  <1>7. Done' = (m + 1) * BlockBytes
    BY <1>6 DEF Done
  <1> QED
    BY <1>1, <1>3, <1>5, <1>6, <1>7 DEF m, c, w

\* The head of an update: the buffer is filled and compressed, or takes all.
LEMMA UpdateKeeps ==
  ASSUME StreamInv, NEW n \in Nat \ {0},
         blake2b_update(n) \/ blake2b_update_static(n)
  PROVE  StreamInv'
  <1>1. bpc = "idle"
    BY DEF blake2b_update, blake2b_update_static, update_stream
  <1>2. StreamTypes /\ BlocksSoFar /\ Remainder /\ Kept
    BY <1>1 DEF StreamInv, StreamState
  <1>3. /\ fed \in Seq(Int) /\ buf \in Seq(Int) /\ rest = <<>>
        /\ Len(buf) <= BlockBytes
    BY <1>1, <1>2 DEF StreamTypes, Kept
  <1>4. /\ Len(compressed) \in Nat /\ Done \in Nat /\ BlockBytes \in Nat \ {0}
        /\ Len(fed) \in Nat /\ Len(buf) \in Nat /\ counter = Done
    BY <1>2, DoneType, BlockBytesType DEF StreamTypes
  <1>5. Len(fed) = Done + Len(buf)
    <2>1. Len(rest) = 0 /\ Len(fed) = Done + Len(buf) + Len(rest)
      BY <1>2, <1>3 DEF Remainder
    <2> QED
      BY <1>4, <2>1
  <1>6. PICK in \in Seq(Int) : Len(in) = n /\ update_stream(in)
    <2> DEFINE a == [i \in 1..n |-> Len(fed) + i]
               c == [i \in 1..n |-> Static]
    <2>1. a \in [1..n -> Int] /\ c \in [1..n -> Int]
      BY <1>4 DEF Static
    <2>2. a \in Seq(Int) /\ Len(a) = n /\ c \in Seq(Int) /\ Len(c) = n
      BY <2>1
    <2>3. update_stream(a) \/ update_stream(c)
      BY DEF blake2b_update, blake2b_update_static
    <2> HIDE DEF a, c
    <2> QED
      BY <2>2, <2>3
  <1> DEFINE m == Len(compressed)
             room == BlockBytes - Len(buf)
             g == fed \o in
  <1>7. /\ g \in Seq(Int) /\ Len(g) = Len(fed) + n
        /\ \A i \in 1..Len(fed) : g[i] = fed[i]
        /\ \A i \in 1..n : g[Len(fed) + i] = in[i]
    BY <1>3, <1>6, ConcatParts
  <1>8. compressed = [i \in 1..m |-> WholeBlock(g, i)]
    <2>1. compressed = [i \in 1..m |-> WholeBlock(fed, i)]
      BY <1>2 DEF BlocksSoFar
    <2>2. m * BlockBytes <= Len(fed)
      BY <1>4, <1>5 DEF Done
    <2>3. \A i \in 1..m : WholeBlock(g, i) = WholeBlock(fed, i)
      BY <1>3, <1>4, <1>6, <2>2, WholeBlockGrows
    <2> QED
      BY <2>1, <2>3
  <1> HIDE DEF g
  <1>9. \A i \in 1..Len(buf) : buf[i] = g[Done + i]
    <2> SUFFICES ASSUME NEW i \in 1..Len(buf) PROVE buf[i] = g[Done + i]
      OBVIOUS
    <2>1. buf[i] = fed[Done + i]
      BY <1>2 DEF Remainder
    <2>2. Done + i \in 1..Len(fed)
      BY <1>4, <1>5
    <2> QED
      BY <1>7, <2>1, <2>2
  \* The buffer and the piece together, against the message.
  <1>10. LET whole == buf \o in
         IN  /\ whole \in Seq(Int) /\ Len(whole) = Len(buf) + n
             /\ \A i \in 1..(Len(buf) + n) : whole[i] = g[Done + i]
    <2> DEFINE whole == buf \o in
    <2>1. /\ whole \in Seq(Int) /\ Len(whole) = Len(buf) + n
          /\ \A i \in 1..Len(buf) : whole[i] = buf[i]
          /\ \A i \in 1..n : whole[Len(buf) + i] = in[i]
      BY <1>3, <1>6, ConcatParts
    <2> HIDE DEF whole
    <2>2. ASSUME NEW i \in 1..(Len(buf) + n) PROVE whole[i] = g[Done + i]
      <3>1. CASE i <= Len(buf)
        <4>1. i \in 1..Len(buf)
          BY <1>4, <3>1
        <4> QED
          BY <1>9, <2>1, <4>1
      <3>2. CASE i > Len(buf)
        <4> DEFINE h == i - Len(buf)
        <4>1. h \in 1..n /\ Len(buf) + h = i /\ Len(fed) + h = Done + i
          BY <1>4, <1>5, <3>2
        <4> HIDE DEF h
        <4>2. whole[i] = in[h] /\ g[Done + i] = in[h]
          BY <1>7, <2>1, <4>1
        <4> QED
          BY <4>2
      <3> QED
        BY <1>4, <3>1, <3>2
    <2> QED
      BY <2>1, <2>2 DEF whole
  <1>11. CASE Overflows(n)
    <2> DEFINE front == Front(in, room)
               block == buf \o front
               back == Back(in, room)
    <2>1. /\ room \in Nat /\ room <= n /\ n - room > 0
          /\ Len(buf) + room = BlockBytes /\ Len(in) = n
      BY <1>3, <1>4, <1>6, <1>11 DEF Overflows
    <2>2. /\ fed' = g /\ compress(block, BlockBytes, FALSE)
          /\ buf' = <<>> /\ rest' = back /\ bpc' = "loop"
      BY <1>6, <1>11 DEF update_stream, g
    <2> HIDE DEF room
    <2>3. /\ front \in Seq(Int) /\ Len(front) = room
          /\ \A i \in 1..room : front[i] = in[i]
          /\ back \in Seq(Int) /\ Len(back) = n - room
          /\ \A i \in 1..(n - room) : back[i] = in[room + i]
      <3>1. room <= Len(in) /\ Len(in) = n /\ room \in Nat
        BY <2>1
      <3>2. /\ front \in Seq(Int) /\ Len(front) = room
            /\ \A i \in 1..room : front[i] = in[i]
            /\ back \in Seq(Int) /\ Len(back) = Len(in) - room
            /\ \A i \in 1..(Len(in) - room) : back[i] = in[room + i]
        BY <3>1, FrontBack
      <3> HIDE DEF front, back
      <3> QED
        BY <3>1, <3>2
    <2> HIDE DEF front, back
    <2>4. /\ block \in Seq(Int) /\ Len(block) = BlockBytes
          /\ \A i \in 1..Len(buf) : block[i] = buf[i]
          /\ \A i \in 1..room : block[Len(buf) + i] = front[i]
      BY <1>3, <2>1, <2>3, ConcatParts
    <2> HIDE DEF block
    <2>5. ASSUME NEW i \in 1..BlockBytes PROVE block[i] = g[Done + i]
      <3>1. CASE i <= Len(buf)
        <4>1. i \in 1..Len(buf)
          BY <1>4, <3>1
        <4> QED
          BY <1>9, <2>4, <4>1
      <3>2. CASE i > Len(buf)
        <4> DEFINE h == i - Len(buf)
        <4>1. /\ h \in 1..room /\ h \in 1..n /\ Len(buf) + h = i
              /\ Len(fed) + h = Done + i
          BY <1>4, <1>5, <2>1, <3>2
        <4> HIDE DEF h
        <4>2. block[i] = in[h] /\ g[Done + i] = in[h]
          BY <1>7, <2>3, <2>4, <4>1
        <4> QED
          BY <4>2
      <3> QED
        BY <1>4, <3>1, <3>2
    <2>6. Done + BlockBytes <= Len(g)
      BY <1>4, <1>5, <1>7, <2>1
    <2>7. /\ Len(compressed') \in Nat
          /\ compressed' = [i \in 1..Len(compressed') |-> WholeBlock(g, i)]
          /\ Done' = Done + BlockBytes /\ counter' = Done'
      BY <1>2, <1>7, <1>8, <2>2, <2>4, <2>5, <2>6, CompressWhole
    <2>8. buf' \in Seq(Int) /\ Len(buf') = 0
      BY <2>2
    <2>9. StreamTypes'
      BY <1>7, <2>2, <2>3, <2>7, <2>8 DEF StreamTypes
    <2>10. BlocksSoFar'
      BY <2>2, <2>7 DEF BlocksSoFar
    <2>11. Remainder'
      <3>1. Len(g) = Done' + 0 + Len(back)
        <4>1. Done' = Done + BlockBytes /\ Len(back) = n - room
          BY <2>3, <2>7
        <4>2. Len(g) = Done + Len(buf) + n
          BY <1>5, <1>7
        <4>3. (Done + BlockBytes) + 0 + (n - room) = Done + Len(buf) + n
          BY <1>4, <2>1
        <4> QED
          BY <4>1, <4>2, <4>3
      <3>2. ASSUME NEW i \in 1..Len(back) PROVE back[i] = g[Done' + 0 + i]
        <4> DEFINE h == room + i
        <4>1. /\ i \in 1..(n - room) /\ h \in 1..n
              /\ Len(fed) + h = Done' + 0 + i
          <5>1. Done' = Done + BlockBytes /\ Len(back) = n - room
            BY <2>3, <2>7
          <5>2. /\ i \in 1..(n - room) /\ h \in 1..n
                /\ Len(fed) + h = (Done + BlockBytes) + 0 + i
            <6>1. i \in 1..(n - room)
              BY <5>1
            <6>2. h \in 1..n
              BY <2>1, <6>1
            <6>3. i \in Int
              BY <6>1
            <6>4. (Done + Len(buf)) + (room + i) = (Done + BlockBytes) + 0 + i
              <7> DEFINE d == Done
                         x == Len(buf)
              <7>1. d \in Int /\ x \in Int /\ room \in Int /\ x + room = BlockBytes
                BY <1>4, <2>1
              <7> HIDE DEF d, x
              <7>2. (d + x) + (room + i) = (d + (x + room)) + 0 + i
                BY <6>3, <7>1
              <7> QED
                BY <7>1, <7>2 DEF d, x
            <6> QED
              BY <1>5, <6>1, <6>2, <6>4
          <5> QED
            BY <5>1, <5>2
        <4>2. back[i] = in[h]
          BY <2>3, <4>1
        <4> HIDE DEF h
        <4> QED
          BY <1>7, <4>1, <4>2
      <3>3. 1..0 = {}
        OBVIOUS
      <3> QED
        BY <2>2, <2>8, <3>1, <3>2, <3>3 DEF Remainder
    <2>12. Kept'
      BY <2>1, <2>2, <2>3 DEF Kept
    <2> QED
      BY <2>2, <2>9, <2>10, <2>11, <2>12
         DEF StreamInv, StreamState, StreamAsOneMessage
  <1>12. CASE ~Overflows(n)
    <2>1. /\ fed' = g /\ buf' = buf \o in /\ bpc' = "idle"
          /\ rest' = <<>> /\ counter' = counter /\ compressed' = compressed
      BY <1>1, <1>3, <1>6, <1>12 DEF update_stream, g
    <2>2. Len(buf) + n <= BlockBytes
      BY <1>4, <1>12 DEF Overflows
    <2>3. /\ buf' \in Seq(Int) /\ Len(buf') = Len(buf) + n
          /\ \A i \in 1..Len(buf') : buf'[i] = g[Done + i]
      BY <1>10, <2>1
    <2>4. Done' = Done /\ Len(rest') = 0 /\ rest' \in Seq(Int)
      BY <2>1 DEF Done
    <2>5. StreamTypes'
      BY <1>4, <1>7, <2>1, <2>3, <2>4 DEF StreamTypes
    <2>6. BlocksSoFar'
      BY <1>8, <2>1 DEF BlocksSoFar
    <2>7. Remainder'
      <3>1. Len(g) = Done + Len(buf') + 0
        BY <1>4, <1>5, <1>7, <2>3
      <3>2. 1..0 = {}
        OBVIOUS
      <3> QED
        BY <2>1, <2>3, <2>4, <3>1, <3>2 DEF Remainder
    <2>8. Kept'
      BY <1>4, <2>1, <2>2, <2>3 DEF Kept
    <2> QED
      BY <2>1, <2>5, <2>6, <2>7, <2>8
         DEF StreamInv, StreamState, StreamAsOneMessage
  <1> QED
    BY <1>11, <1>12

\* One more block straight from the piece.
LEMMA UpdateLoopKeeps ==
  ASSUME StreamInv, update_loop
  PROVE  StreamInv'
  <1>1. StreamTypes /\ BlocksSoFar /\ Remainder /\ Kept /\ bpc = "loop"
    BY DEF StreamInv, StreamState, update_loop
  <1> DEFINE front == Front(rest, BlockBytes)
             back == Back(rest, BlockBytes)
             len == Len(rest)
  <1>2. /\ fed \in Seq(Int) /\ rest \in Seq(Int) /\ buf = <<>>
        /\ Len(buf) = 0
    BY <1>1 DEF StreamTypes, Kept
  <1>3. /\ Done \in Nat /\ BlockBytes \in Nat \ {0} /\ len \in Nat
        /\ len > BlockBytes
    BY <1>1, DoneType, BlockBytesType DEF update_loop
  <1>4. /\ compress(front, BlockBytes, FALSE) /\ rest' = back
        /\ bpc' = "loop" /\ buf' = buf /\ fed' = fed
    BY <1>1 DEF update_loop
  <1>5. /\ front \in Seq(Int) /\ Len(front) = BlockBytes
        /\ \A i \in 1..BlockBytes : front[i] = rest[i]
        /\ back \in Seq(Int) /\ Len(back) = len - BlockBytes
        /\ \A i \in 1..(len - BlockBytes) : back[i] = rest[BlockBytes + i]
    <2>1. BlockBytes <= Len(rest) /\ BlockBytes \in Nat
      BY <1>3
    <2> QED
      BY <1>2, <2>1, FrontBack, ZenonT(60)
  <1>6. /\ Len(fed) = Done + len
        /\ \A i \in 1..len : rest[i] = fed[Done + i]
    <2>1. /\ Len(fed) = Done + 0 + len
          /\ \A i \in 1..len : rest[i] = fed[Done + 0 + i]
      BY <1>1, <1>2 DEF Remainder
    <2>2. Done + 0 = Done
      BY <1>3
    <2> QED
      BY <2>1, <2>2
  <1> HIDE DEF front, back, len
  <1>7. \A i \in 1..BlockBytes : front[i] = fed[Done + i]
    <2>1. \A i \in 1..BlockBytes : i \in 1..len
      BY <1>3
    <2> QED
      BY <1>5, <1>6, <2>1
  <1>8. Done + BlockBytes <= Len(fed)
    BY <1>3, <1>6
  <1>9. /\ Len(compressed') \in Nat
        /\ compressed' = [i \in 1..Len(compressed') |-> WholeBlock(fed, i)]
        /\ Done' = Done + BlockBytes /\ counter' = Done'
    <2>1. compressed = [i \in 1..Len(compressed) |-> WholeBlock(fed, i)]
      BY <1>1 DEF BlocksSoFar
    <2> QED
      BY <1>1, <1>2, <1>4, <1>5, <1>7, <1>8, <2>1, CompressWhole
  <1>10. StreamTypes'
    BY <1>1, <1>4, <1>5, <1>9 DEF StreamTypes
  <1>11. BlocksSoFar'
    BY <1>4, <1>9 DEF BlocksSoFar
  <1>12. Remainder'
    <2>1. Len(fed) = (Done + BlockBytes) + 0 + (len - BlockBytes)
      BY <1>3, <1>6
    <2>2. ASSUME NEW i \in 1..(len - BlockBytes)
          PROVE  back[i] = fed[(Done + BlockBytes) + 0 + i]
      <3> DEFINE h == BlockBytes + i
      <3>1. h \in 1..len /\ Done + h = (Done + BlockBytes) + 0 + i
        BY <1>3
      <3>2. back[i] = rest[h]
        BY <1>5
      <3> HIDE DEF h
      <3> QED
        BY <1>6, <3>1, <3>2
    <2>3. 1..0 = {}
      OBVIOUS
    <2> QED
      BY <1>2, <1>4, <1>5, <1>9, <2>1, <2>2, <2>3 DEF Remainder
  <1>13. Kept'
    <2>1. Len(back) > 0
      BY <1>3, <1>5
    <2> QED
      BY <1>2, <1>4, <2>1 DEF Kept
  <1> QED
    BY <1>4, <1>10, <1>11, <1>12, <1>13
       DEF StreamInv, StreamState, StreamAsOneMessage

\* The rest of the piece goes to the buffer.
LEMMA UpdateEndKeeps ==
  ASSUME StreamInv, update_end
  PROVE  StreamInv'
  <1>1. StreamTypes /\ BlocksSoFar /\ Remainder /\ Kept /\ bpc = "loop"
    BY DEF StreamInv, StreamState, update_end
  <1>2. /\ rest \in Seq(Int) /\ buf = <<>> /\ Len(buf) = 0 /\ Len(rest) > 0
        /\ Len(rest) <= BlockBytes
    BY <1>1 DEF StreamTypes, Kept, update_end
  <1>3. Done \in Nat /\ Len(rest) \in Nat
    BY <1>1, DoneType
  <1>4. /\ buf' = rest /\ rest' = <<>> /\ bpc' = "idle"
        /\ counter' = counter /\ compressed' = compressed /\ fed' = fed
    <2>1. buf \o rest = rest
      BY <1>2, ConcatEmptySeq
    <2> QED
      BY <2>1 DEF update_end
  <1>5. Done' = Done
    BY <1>4 DEF Done
  <1>6. Len(rest') = 0 /\ rest' \in Seq(Int)
    BY <1>4
  <1>7. StreamTypes'
    BY <1>1, <1>4, <1>5, <1>6 DEF StreamTypes
  <1>8. BlocksSoFar'
    BY <1>1, <1>4 DEF BlocksSoFar
  <1>9. Remainder'
    <2>1. /\ Len(fed) = Done + 0 + Len(rest)
          /\ \A i \in 1..Len(rest) : rest[i] = fed[Done + 0 + i]
      BY <1>1, <1>2 DEF Remainder
    <2>2. Done + 0 = Done /\ Done + Len(rest) + 0 = Done + Len(rest)
      BY <1>3
    <2>3. 1..0 = {}
      OBVIOUS
    <2> QED
      BY <1>4, <1>5, <1>6, <2>1, <2>2, <2>3 DEF Remainder
  <1>10. Kept'
    BY <1>2, <1>4 DEF Kept
  <1> QED
    BY <1>4, <1>7, <1>8, <1>9, <1>10
       DEF StreamInv, StreamState, StreamAsOneMessage

\* A whole block is not padded.
LEMMA PaddedWhole ==
  ASSUME NEW b \in Seq(Int), Len(b) = BlockBytes
  PROVE  Padded(b) = b
  <1>1. BlockBytes - Len(b) = 0
    BY BlockBytesType
  <1>2. Padded(b) = b \o [i \in 1..0 |-> Zero]
    BY <1>1 DEF Padded
  <1>3. [i \in 1..0 |-> Zero] = <<>>
    OBVIOUS
  <1> QED
    BY <1>2, <1>3, ConcatEmptySeq

\* The number of blocks of a message: those before the last, and it.
LEMMA BlockCount ==
  ASSUME NEW m \in Nat, NEW x \in Nat, x <= BlockBytes, m > 0 => x > 0,
         NEW n, n = m * BlockBytes + x
  PROVE  (IF n = 0 THEN 1 ELSE CeilDiv(n, BlockBytes)) = m + 1
  <1> DEFINE w == BlockBytes
             a == m * w
  <1>1. w \in Nat \ {0} /\ a \in Nat /\ (m > 0 => a > 0)
    BY BlockBytesType, SMTT(30)
  <1>2. CASE n = 0
    <2>1. n = a + x
      OBVIOUS
    <2> HIDE DEF a, w
    <2>2. m = 0
      BY <1>1, <1>2, <2>1
    <2> QED
      BY <1>2, <2>2
  <1>3. CASE n # 0
    <2> DEFINE y == x - 1
               z == (m + 1) * w
    <2>1. x > 0
      <3>1. m = 0 => a = 0
        BY <1>1
      <3>2. n = a + x
        OBVIOUS
      <3> HIDE DEF a, w
      <3> QED
        BY <1>1, <1>3, <3>1, <3>2
    <2>2. z = a + w
      BY <1>1, SMTT(30)
    <2>3. n + w - 1 = z + y /\ y \in 0..(w - 1) /\ m + 1 \in Nat
      <3>1. n = a + x /\ x <= w
        OBVIOUS
      <3> HIDE DEF a, w, z
      <3> QED
        BY <1>1, <2>1, <2>2, <3>1
    <2> HIDE DEF y
    <2>4. z + y = (m + 1) * w + y
      OBVIOUS
    <2> HIDE DEF w
    <2>5. ((m + 1) * w + y) \div w = m + 1
      BY <1>1, <2>3, DivMod
    <2> QED
      BY <1>3, <2>3, <2>4, <2>5 DEF CeilDiv, w
  <1> QED
    BY <1>2, <1>3

\* Call i of the compression function for message f, of k calls.
BlockOf(f, i, k) ==
    [block |-> Padded(SubSeq(f, (i - 1) * BlockBytes + 1,
                             Least(i * BlockBytes, Len(f)))),
     t     |-> Least(i * BlockBytes, Len(f)),
     last  |-> i = k]

\* The last call is flagged.
LEMMA BlockOfItself ==
  ASSUME NEW f, NEW j
  PROVE  BlockOf(f, j, j) =
           [block |-> Padded(SubSeq(f, (j - 1) * BlockBytes + 1,
                                    Least(j * BlockBytes, Len(f)))),
            t |-> Least(j * BlockBytes, Len(f)), last |-> TRUE]
  <1>1. (j = j) = TRUE
    OBVIOUS
  <1> QED
    BY <1>1, Zenon DEF BlockOf

\* A whole block before the end of a message is compressed as it is.
LEMMA BlockOfWhole ==
  ASSUME NEW f \in Seq(Int), NEW m \in Nat, m * BlockBytes <= Len(f),
         NEW i \in 1..m
  PROVE  BlockOf(f, i, m + 1) = WholeBlock(f, i)
  <1> DEFINE y == (i - 1) * BlockBytes
             z == i * BlockBytes
             e == m * BlockBytes
             q == SubSeq(f, y + 1, z)
             len == Len(f)
  <1>1. /\ y \in Nat /\ z = y + BlockBytes /\ z \in Nat /\ z <= e
        /\ e \in Nat /\ e <= len /\ len \in Nat
    <2>1. /\ y \in Nat /\ z = y + BlockBytes /\ z \in Nat /\ z <= e
          /\ e \in Nat
      BY BlockEnds, Zenon
    <2>2. e <= len /\ len \in Nat
      OBVIOUS
    <2> QED
      BY <2>1, <2>2
  <1>2. BlockBytes \in Nat \ {0}
    BY BlockBytesType
  <1>3. i # m + 1
    OBVIOUS
  <1> HIDE DEF y, z, e
  <1>4. Least(z, len) = z
    BY <1>1 DEF Least
  <1>5. q \in Seq(Int) /\ Len(q) = BlockBytes
    <2>1. \A n \in (y + 1)..z : f[n] \in Int
      <3>1. \A n \in (y + 1)..z : n \in 1..len
        BY <1>1
      <3> QED
        BY <3>1
    <2>2. /\ q \in Seq(Int)
          /\ Len(q) = IF y + 1 <= z THEN z - (y + 1) + 1 ELSE 0
      BY <1>1, <2>1, SubSeqProperties
    <2>3. y + 1 <= z /\ z - (y + 1) + 1 = BlockBytes
      BY <1>1, <1>2
    <2> HIDE DEF q
    <2> QED
      BY <2>2, <2>3
  <1> HIDE DEF q
  <1>6. Padded(q) = q
    BY <1>5, PaddedWhole
  <1>7. BlockOf(f, i, m + 1) =
          [block |-> Padded(SubSeq(f, y + 1, Least(z, len))),
           t |-> Least(z, len), last |-> i = m + 1]
    BY Zenon DEF BlockOf, y, z, len
  <1>8. WholeBlock(f, i) = [block |-> q, t |-> z, last |-> FALSE]
    BY Zenon DEF WholeBlock, y, z, q
  <1>9. SubSeq(f, y + 1, Least(z, len)) = q
    BY <1>4 DEF q
  <1> QED
    BY <1>3, <1>4, <1>6, <1>7, <1>8, <1>9

\* What is left of a message is compressed padded, as its last block.
LEMMA BlockOfLast ==
  ASSUME NEW f \in Seq(Int), NEW m \in Nat, NEW b \in Seq(Int),
         Len(b) <= BlockBytes, Len(f) = m * BlockBytes + Len(b),
         SameFrom(b, f, m * BlockBytes)
  PROVE  BlockOf(f, m + 1, m + 1) =
           [block |-> Padded(b), t |-> m * BlockBytes + Len(b), last |-> TRUE]
  <1> DEFINE done == m * BlockBytes
             j == m + 1
             z == j * BlockBytes
             len == Len(f)
             x == Len(b)
  <1>1. /\ done \in Nat /\ z = done + BlockBytes /\ BlockBytes \in Nat \ {0}
        /\ (j - 1) * BlockBytes = done
    BY BlockBytesType, SMTT(30)
  <1>2. len = done + x /\ x \in Nat /\ x <= BlockBytes
    OBVIOUS
  <1>3. SameFrom(b, f, done)
    BY Zenon
  <1> HIDE DEF done, j
  <1>4. BlockOf(f, j, j) =
          [block |-> Padded(SubSeq(f, (j - 1) * BlockBytes + 1,
                                   Least(z, len))),
           t |-> Least(z, len), last |-> TRUE]
    BY BlockOfItself
  <1>5. SubSeq(f, done + 1, done + x) = b
    <2>1. done \in Nat /\ done + x <= len
      <3> HIDE DEF x, len
      <3> QED
        BY <1>1, <1>2
    <2> QED
      BY <1>3, <2>1, SubSeqAfter
  <1> HIDE DEF z, len, x
  <1>6. Least(z, len) = done + x
    BY <1>1, <1>2 DEF Least
  <1>7. BlockOf(f, j, j) = [block |-> Padded(b), t |-> done + x, last |-> TRUE]
    BY <1>1, <1>4, <1>5, <1>6
  <1> QED
    BY <1>7 DEF done, j, x

\* The last block, padded and flagged.
LEMMA FinalKeeps ==
  ASSUME StreamInv, blake2b_final
  PROVE  StreamInv'
  <1>1. StreamTypes /\ BlocksSoFar /\ Remainder /\ Kept /\ bpc = "idle"
    BY DEF StreamInv, StreamState, blake2b_final
  <1> DEFINE m == Len(compressed)
             x == Len(buf)
             n == Len(fed)
             k == IF n = 0 THEN 1 ELSE CeilDiv(n, BlockBytes)
             e == [block |-> Padded(buf), t |-> Done + x, last |-> TRUE]
             w(i) == BlockOf(fed, i, m + 1)
  <1>2. /\ fed \in Seq(Int) /\ buf \in Seq(Int) /\ rest = <<>>
        /\ m \in Nat /\ counter = Done /\ x <= BlockBytes
        /\ m > 0 => x > 0
    BY <1>1 DEF StreamTypes, Kept
  <1>3. Done \in Nat /\ x \in Nat /\ n \in Nat
    BY <1>1, DoneType
  <1>4. n = Done + x /\ \A i \in 1..x : buf[i] = fed[Done + i]
    <2>1. Len(rest) = 0 /\ n = Done + x + Len(rest)
      BY <1>1, <1>2 DEF Remainder
    <2>2. \A i \in 1..x : buf[i] = fed[Done + i]
      BY <1>1 DEF Remainder
    <2> QED
      BY <1>3, <2>1, <2>2
  <1>5. Done = m * BlockBytes
    BY DEF Done
  <1>6. k = m + 1
    <2>1. n = m * BlockBytes + x
      BY <1>4, <1>5
    <2> HIDE DEF m, n, x
    <2> QED
      BY <1>2, <1>3, <2>1, BlockCount
  <1>7. compressed = [i \in 1..m |-> w(i)]
    <2>1. compressed = [i \in 1..m |-> WholeBlock(fed, i)]
      BY <1>1 DEF BlocksSoFar
    <2>2. m * BlockBytes <= n
      BY <1>3, <1>4, <1>5
    <2>3. \A i \in 1..m : w(i) = WholeBlock(fed, i)
      <3> HIDE DEF m
      <3> QED
        BY <1>2, <2>2, BlockOfWhole
    <2> HIDE DEF w, m
    <2> QED
      BY <2>1, <2>3
  <1>8. w(m + 1) = e
    <2>1. /\ n = m * BlockBytes + x
          /\ SameFrom(buf, fed, m * BlockBytes)
      BY <1>4, <1>5 DEF SameFrom
    <2> HIDE DEF m
    <2>2. w(m + 1) = [block |-> Padded(buf), t |-> m * BlockBytes + x,
                      last |-> TRUE]
      BY <1>2, <2>1, BlockOfLast
    <2> QED
      BY <1>5, <2>2
  <1>9. compressed' = Append(compressed, e) /\ fed' = fed /\ bpc' = "final"
    BY <1>2 DEF blake2b_final, compress
  <1> HIDE DEF e, w, m
  <1>10. Append(compressed, e) = [i \in 1..(m + 1) |-> w(i)]
    BY <1>2, <1>7, <1>8
  <1>11. compressed' = [i \in 1..k |-> BlockOf(fed, i, k)]
    BY <1>6, <1>9, <1>10 DEF w
  <1> HIDE DEF k
  <1>12. StreamAsOneMessage'
    BY <1>9, <1>11 DEF StreamAsOneMessage, BlockOf, k
  <1> QED
    BY <1>9, <1>12 DEF StreamInv

-----------------------------------------------------------------------------
(* The two uses of BLAKE2b, together.                                      *)

BlakeInv == StreamInv /\ LongInv

\* Where the state of the stream is new, it is that of the empty message.
LEMMA NewStream ==
  ASSUME bpc = "idle", buf = <<>>, rest = <<>>, counter = 0,
         compressed = <<>>, fed = <<>>
  PROVE  BlakeInv
  <1>1. Len(compressed) = 0 /\ Len(fed) = 0 /\ Len(buf) = 0 /\ Len(rest) = 0
    OBVIOUS
  <1>2. Done = 0
    BY <1>1, BlockBytesType DEF Done
  <1>3. 1..0 = {}
    OBVIOUS
  <1>4. StreamTypes
    BY <1>1, <1>2 DEF StreamTypes
  <1>5. BlocksSoFar
    <2>1. <<>> = [i \in 1..0 |-> WholeBlock(fed, i)]
      BY <1>3
    <2> QED
      BY <1>1, <2>1 DEF BlocksSoFar
  <1>6. Remainder
    BY <1>1, <1>2, <1>3 DEF Remainder
  <1>7. Kept
    BY <1>1, BlockBytesType DEF Kept
  <1> QED
    BY <1>4, <1>5, <1>6, <1>7
       DEF BlakeInv, StreamInv, StreamState, StreamAsOneMessage, LongInv,
           LongOutput

\* The initial states satisfy BlakeInv.
LEMMA InitBlakeInv == HashInit => BlakeInv
  BY NewStream DEF HashInit, Blake2bInit

\* The next use of blake2b starts from nothing.
LEMMA LeaveBlakeKeeps == LeaveBlake => BlakeInv'
  <1> SUFFICES ASSUME LeaveBlake PROVE BlakeInv'
    OBVIOUS
  <1>1. /\ bpc' = "idle" /\ buf' = <<>> /\ rest' = <<>> /\ counter' = 0
        /\ compressed' = <<>> /\ fed' = <<>>
    BY DEF LeaveBlake
  <1>2. /\ Len(compressed') = 0 /\ Len(fed') = 0 /\ Len(buf') = 0
        /\ Len(rest') = 0
    BY <1>1
  <1>3. Done' = 0
    BY <1>2, BlockBytesType DEF Done
  <1>4. 1..0 = {}
    OBVIOUS
  <1>5. StreamTypes'
    BY <1>1, <1>2, <1>3 DEF StreamTypes
  <1>6. BlocksSoFar'
    <2>1. <<>> = [i \in 1..0 |-> WholeBlock(fed', i)]
      BY <1>4
    <2> QED
      BY <1>1, <1>2, <2>1 DEF BlocksSoFar
  <1>7. Remainder'
    BY <1>2, <1>3, <1>4 DEF Remainder
  <1>8. Kept'
    BY <1>1, <1>2, BlockBytesType DEF Kept
  <1> QED
    BY <1>1, <1>5, <1>6, <1>7, <1>8
       DEF BlakeInv, StreamInv, StreamState, StreamAsOneMessage, LongInv,
           LongOutput

\* BlakeInv is about the variables of Blake2b alone.
LEMMA BlakeStutter == BlakeInv /\ UNCHANGED blakeVars => BlakeInv'
  BY DEF BlakeInv, StreamInv, StreamState, StreamTypes, BlocksSoFar, Remainder,
         Kept, Done, StreamAsOneMessage, LongInv, Halves, LongOutput,
         blakeVars, streamVars, longVars

\* The stream's steps leave blake2b_long idle, and the other way round.
LEMMA StreamStep ==
  ASSUME BlakeInv, StreamInv', bpc' \in {"idle", "loop", "final"}
  PROVE  BlakeInv'
  BY DEF BlakeInv, LongInv, LongOutput

\* A step of blake2b_long leaves the stream alone.
LEMMA LongStep ==
  ASSUME BlakeInv, LongInv', bpc' \in {"long", "produced"}
  PROVE  BlakeInv'
  BY DEF BlakeInv, StreamInv, StreamAsOneMessage

\* Every step of the hash keeps BlakeInv.
LEMMA BlakeInvStep == BlakeInv /\ [HashNext]_allVars => BlakeInv'
  <1> SUFFICES ASSUME BlakeInv, [HashNext]_allVars PROVE BlakeInv'
    OBVIOUS
  <1>1. StreamInv /\ LongInv
    BY DEF BlakeInv
  <1>2. \A n \in Pieces \cup OutLengths : n \in Nat \ {0}
    BY HashAssumption
  <1>3. CASE initial_hash
    <2>1. ASSUME NEW n \in Pieces, blake2b_update(n) \/ blake2b_update_static(n)
          PROVE  BlakeInv'
      <3>1. StreamInv'
        BY <1>1, <1>2, <2>1, UpdateKeeps
      <3>2. bpc' \in {"idle", "loop"}
        BY <2>1 DEF blake2b_update, blake2b_update_static, update_stream
      <3> QED
        BY <3>1, <3>2, StreamStep
    <2>2. CASE update_loop
      BY <1>1, <2>2, UpdateLoopKeeps, StreamStep DEF update_loop
    <2>3. CASE update_end
      BY <1>1, <2>3, UpdateEndKeeps, StreamStep DEF update_end
    <2>4. CASE blake2b_final
      BY <1>1, <2>4, FinalKeeps, StreamStep DEF blake2b_final
    <2> QED
      BY <1>3, <2>1, <2>2, <2>3, <2>4 DEF initial_hash
  <1>4. CASE initial_hash_end \/ first_blocks_end
    BY <1>4, LeaveBlakeKeeps DEF initial_hash_end, first_blocks_end
  <1>5. CASE fill_first_blocks
    <2>1. ASSUME NEW n \in OutLengths, long_begin(n)
          PROVE  BlakeInv'
      <3>1. LongInv'
        BY <1>1, <1>2, <2>1, LongBegins
      <3>2. bpc' \in {"long", "produced"}
        BY <2>1 DEF long_begin
      <3> QED
        BY <3>1, <3>2, LongStep
    <2>2. CASE long_loop
      BY <1>1, <2>2, LongGoesOn, LongStep DEF long_loop
    <2>3. CASE long_last
      BY <1>1, <2>3, LongEnds, LongStep DEF long_last
    <2> QED
      BY <1>5, <2>1, <2>2, <2>3 DEF fill_first_blocks
  <1>6. CASE fill \/ Fail \/ encode_hashes \/ Returned \/ UNCHANGED allVars
    BY <1>6, BlakeStutter DEF fill, Fail, encode_hashes, Returned, allVars
  <1> QED
    BY <1>3, <1>4, <1>5, <1>6 DEF HashNext

\* BlakeInv is an invariant of the hash.
LEMMA BlakeInvariant == HashSpec => []BlakeInv
  BY InitBlakeInv, BlakeInvStep, PTL DEF HashSpec

\* For any block size and any pieces, the compression function sees the blocks
\* of the message, whole, in order and counted, and the last one flagged.
THEOREM StreamTheorem == HashSpec => []StreamAsOneMessage
  <1>1. BlakeInv => StreamAsOneMessage
    BY DEF BlakeInv, StreamInv
  <1> QED
    BY <1>1, BlakeInvariant, PTL

\* For any length, blake2b_long copies what H' of Argon2 consists of.
THEOREM LongOutputTheorem == HashSpec => []LongOutput
  <1>1. BlakeInv => LongOutput
    BY DEF BlakeInv, LongInv
  <1> QED
    BY <1>1, BlakeInvariant, PTL

-----------------------------------------------------------------------------
(* The index arithmetic of references.                                     *)

\* OpenCL's bit operations give the reference of the CPU code and of CUDA, in
\* the eight segments of two passes and for every random number.
THEOREM OpenclReference ==
  ASSUME NEW s \in 0..7, NEW l \in Lanes, NEW i \in Offsets,
         NEW r \in Lanes, NEW rand \in 0..(RandRange - 1)
  PROVE  ref_idx_opencl(s, l, i, r, rand) = ref_idx(s, l, i, r, rand)
  <1> DEFINE test1 == IF r = l THEN 0 ELSE 1
             test2 == IF i < 1 THEN i ELSE 1
             area  == (IF s < 3 THEN s ELSE 3) * SegLength
                        + (IF test1 = 0 THEN i ELSE 0) - (1 - test2 * test1)
             start == IF s \div 4 = 1 /\ s # 7 THEN (s - 3) * SegLength ELSE 0
  <1>1. i \in Nat /\ SegLength \in Nat
    BY SegLengthType DEF Offsets
  <1>2. s = 0 \/ s = 1 \/ s = 2 \/ s = 3 \/ s = 4 \/ s = 5 \/ s = 6 \/ s = 7
    OBVIOUS
  <1>3. 1 - test2 * test1 = IF r = l THEN 1 ELSE IF i = 0 THEN 1 ELSE 0
    BY <1>1
  <1>4. area = area_size(s, l, i, r)
    <2> DEFINE own == IF l = r THEN i - 1 ELSE IF i = 0 THEN -1 ELSE 0
               base == (IF s < 3 THEN s ELSE 3) * SegLength
    <2>1. base = IF pass(s) > 0 THEN LaneLength - SegLength
                                ELSE slice(s) * SegLength
      BY <1>1, <1>2 DEF pass, slice, LaneLength
    <2>2. base \in Nat
      BY <1>1, <1>2
    <2>3. area_size(s, l, i, r) = base + own
      BY <2>1, Zenon DEF area_size
    <2>4. area = base + (IF r = l THEN i ELSE 0)
                   - (IF r = l THEN 1 ELSE IF i = 0 THEN 1 ELSE 0)
      BY <1>3
    <2> HIDE DEF base, area
    <2> QED
      BY <1>1, <2>2, <2>3, <2>4
  <1>5. start = area_start(s)
    BY <1>1, <1>2 DEF area_start, pass, slice
  <1>6. ref_idx_opencl(s, l, i, r, rand)
          = r * LaneLength + ((start + relative_position(area, rand))
                                % LaneLength)
    BY DEF ref_idx_opencl
  <1> HIDE DEF area, start
  <1> QED
    BY <1>4, <1>5, <1>6 DEF ref_idx

\* At the head of a slice the last block of the slice before is left out.
LEMMA RefNotLast ==
  ASSUME NEW s \in Nat \ {0}, NEW l \in Lanes, NEW r \in Lanes,
         NEW rand \in 0..(RandRange - 1)
  PROVE  (area_start(s) + relative_position(area_size(s, l, 0, r), rand))
           % LaneLength # (slice(s) * SegLength - 1) % LaneLength
  <1> DEFINE area == area_size(s, l, 0, r)
             rel == relative_position(area, rand)
             start == area_start(s)
             n == SegLength
             c == slice(s)
             x == start + rel
  <1>1. c \in Slots /\ pass(s) \in Nat /\ (pass(s) = 0 => c # 0)
    <2>1. pass(s) = 0 => s < 4
      BY SegmentParts
    <2> QED
      BY <2>1, SegmentParts DEF slice
  <1>2. n \in Nat /\ n > 2 /\ LaneLength = 4 * n
    BY SegLengthType, LaneLengthType
  <1> HIDE DEF c
  <1>3. \/ c = 0 \/ c = 1 \/ c = 2 \/ c = 3
    BY <1>1 DEF Slots
  <1>4. area = (IF pass(s) > 0 THEN 3 * n ELSE c * n) - 1
    <2>1. area = (IF pass(s) > 0 THEN LaneLength - SegLength
                                 ELSE c * SegLength) + (-1)
      BY DEF area_size, c
    <2> HIDE DEF area
    <2> QED
      BY <1>2, <1>3, <2>1
  <1>5. area \in Nat \ {0}
    BY <1>1, <1>2, <1>3, <1>4
  <1>6. rel \in Nat /\ rel < area
    BY <1>5, PositionInArea
  <1>7. start = IF pass(s) > 0 /\ c < 3 THEN (c + 1) * n ELSE 0
    BY DEF area_start, c
  <1> HIDE DEF area, rel, start, n
  <1>8. (c * n - 1) % LaneLength = IF c = 0 THEN 4 * n - 1 ELSE c * n - 1
    <2>1. CASE c = 0
      <3>1. \A m \in Nat \ {0} : (-1) % m = m - 1
        BY SMTT(30)
      <3>2. c * n - 1 = -1
        BY <1>2, <2>1
      <3> QED
        BY <1>2, <2>1, <3>1, <3>2, LaneLengthType
    <2>2. CASE c # 0
      <3> DEFINE y == c * n - 1
      <3>1. y \in Nat /\ y < LaneLength /\ y < 2 * LaneLength
        BY <1>2, <1>3, <2>2
      <3> HIDE DEF y
      <3>2. y % LaneLength = y
        BY <3>1, OneWrap, LaneLengthType
      <3> QED
        BY <2>2, <3>2 DEF y
    <2> QED
      BY <2>1, <2>2
  <1>9. x \in Nat /\ x < 2 * LaneLength
    BY <1>1, <1>2, <1>3, <1>4, <1>5, <1>6, <1>7
  <1>10. x % LaneLength = IF x < LaneLength THEN x ELSE x - LaneLength
    <2> HIDE DEF x
    <2> QED
      BY <1>9, OneWrap, LaneLengthType
  <1>11. x % LaneLength # (c * n - 1) % LaneLength
    <2>1. CASE pass(s) = 0
      BY <2>1, <1>1, <1>2, <1>3, <1>4, <1>5, <1>6, <1>7, <1>8, <1>9, <1>10
    <2>2. CASE pass(s) > 0
      <3>1. CASE c = 0
        BY <2>2, <3>1, <1>2, <1>4, <1>5, <1>6, <1>7, <1>8, <1>9, <1>10
      <3>2. CASE c = 1
        BY <2>2, <3>2, <1>2, <1>4, <1>5, <1>6, <1>7, <1>8, <1>9, <1>10
      <3>3. CASE c = 2
        BY <2>2, <3>3, <1>2, <1>4, <1>5, <1>6, <1>7, <1>8, <1>9, <1>10
      <3>4. CASE c = 3
        BY <2>2, <3>4, <1>2, <1>4, <1>5, <1>6, <1>7, <1>8, <1>9, <1>10
      <3> QED
        BY <1>3, <3>1, <3>2, <3>3, <3>4
    <2> QED
      BY <1>1, <2>1, <2>2
  <1> QED
    BY <1>11 DEF x, start, rel, area, n, c

\* For every random number, at every step, for any number of lanes and any
\* length of a segment: the reference is one Argon2 allows.  (That each of
\* those is reached depends on how many random numbers there are.)
THEOREM ReferenceWithin ==
  ASSUME NEW s \in Nat, NEW l \in Lanes, NEW i \in Offsets,
         i >= first_idx(s), NEW r \in Lanes, s = 0 => r = l,
         NEW rand \in 0..(RandRange - 1)
  PROVE  ref_idx(s, l, i, r, rand) \in Allowed(s, l, i, r)
  <1> DEFINE c == slice(s)
             before == (c * SegLength + i - 1) % LaneLength
             Written(y) == \/ y \div SegLength < c
                           \/ y \div SegLength > c /\ pass(s) > 0
                           \/ /\ y \div SegLength = c /\ r = l
                              /\ y % SegLength < i
             p == (area_start(s)
                    + relative_position(area_size(s, l, i, r), rand))
                    % LaneLength
  <1>1. PICK k \in Slots, j \in Offsets :
            /\ ref_idx(s, l, i, r, rand) = At(r, k, j)
            /\ k = c => r = l /\ j < i - 1
            /\ pass(s) = 0 => k <= c
    BY RefPlace
  <1>2. i \in Nat /\ i < SegLength /\ j \in Nat /\ k \in Nat
          /\ c \in Slots /\ c \in Nat /\ pass(s) \in Nat
    BY SegmentParts, FillConstants DEF Slots
  <1> DEFINE x == k * SegLength + j
  <1>3. /\ x \in 0..(LaneLength - 1) /\ x \div SegLength = k
        /\ x % SegLength = j
    BY InLane
  <1>4. /\ ref_idx(s, l, i, r, rand) = r * LaneLength + x
        /\ (r * LaneLength + x) % LaneLength = x
    BY <1>1, <1>3, AtBlock, BlockInLane
  <1>5. Written(x)
    <2>1. \/ k < c \/ (k > c /\ pass(s) > 0) \/ (k = c /\ r = l /\ j < i)
      BY <1>1, <1>2
    <2> QED
      BY <1>3, <2>1
  <1>6. r = l /\ i > 0 => x # before
    <2> SUFFICES ASSUME r = l, i > 0 PROVE x # before
      OBVIOUS
    <2> DEFINE h == i - 1
    <2>1. h \in Offsets
      BY <1>2 DEF Offsets
    <2>2. /\ c * SegLength + h \in 0..(LaneLength - 1)
          /\ (c * SegLength + h) \div SegLength = c
          /\ (c * SegLength + h) % SegLength = h
      BY <1>2, <2>1, InLane
    <2>3. c * SegLength + i - 1 = c * SegLength + h
      <3>1. c * SegLength \in Nat
        BY <1>2, SegLengthType, SMTT(30)
      <3> QED
        BY <1>2, <3>1
    <2> DEFINE y == c * SegLength + h
    <2>4. y \in Nat /\ y < LaneLength /\ y < 2 * LaneLength
      BY <2>2, LaneLengthType
    <2>5. y % LaneLength = y
      <3> HIDE DEF y
      <3> QED
        BY <2>4, OneWrap, LaneLengthType
    <2>6. before = y
      BY <2>3, <2>5
    <2>7. x = y => k = c /\ j = h
      BY <1>3, <2>2
    <2> HIDE DEF x, y, before, c
    <2>8. ~(k = c /\ j = h)
      BY <1>1, <1>2
    <2> QED
      BY <2>6, <2>7, <2>8
  <1>7. i = 0 => x # before
    <2> SUFFICES ASSUME i = 0 PROVE x # before
      OBVIOUS
    <2>1. s \in Nat \ {0}
      BY DEF first_idx
    <2>2. p # (c * SegLength - 1) % LaneLength
      BY <2>1, RefNotLast
    <2>3. c * SegLength + i - 1 = c * SegLength - 1
      <3>1. c * SegLength \in Nat
        BY <1>2, SegLengthType, SMTT(30)
      <3> QED
        BY <3>1
    <2>4. before = (c * SegLength - 1) % LaneLength
      BY <2>3
    <2>5. p = x
      <3>1. ref_idx(s, l, i, r, rand) = r * LaneLength + p
        BY DEF ref_idx
      <3>2. r * LaneLength \in Nat
        <4>1. r \in Nat
          BY FillConstants
        <4> QED
          BY <4>1, LaneLengthType, SMTT(30)
      <3>3. p \in Int
        <4>1. \A e \in Int, m \in Nat \ {0} : e % m \in Int
          OBVIOUS
        <4>2. /\ area_start(s) \in Int
              /\ relative_position(area_size(s, l, i, r), rand) \in Int
          <5>1. relative_position(area_size(s, l, i, r), rand) \in Int
            BY AreaSize, PositionInArea
          <5>2. area_start(s) \in Int
            BY <1>2, SegLengthType DEF area_start, Slots
          <5> QED
            BY <5>1, <5>2
        <4> QED
          BY <4>1, <4>2, LaneLengthType
      <3> DEFINE a == r * LaneLength
      <3>4. a \in Nat /\ a + p = a + x /\ x \in Int
        BY <1>3, <1>4, <3>1, <3>2
      <3> HIDE DEF a, p, x
      <3> QED
        BY <3>3, <3>4
    <2> HIDE DEF p, x, before
    <2> QED
      BY <2>2, <2>4, <2>5
  <1>8. x \in {y \in 0..(LaneLength - 1) : Written(y)}
              \ (IF r = l \/ i = 0 THEN {before} ELSE {})
    <2> HIDE DEF x, before
    <2>1. x \in {y \in 0..(LaneLength - 1) : Written(y)}
      BY <1>3, <1>5
    <2>2. r = l \/ i = 0 => x # before
      BY <1>2, <1>6, <1>7
    <2> QED
      BY <2>1, <2>2
  <1>9. Allowed(s, l, i, r) =
          {r * LaneLength + y :
             y \in {y \in 0..(LaneLength - 1) : Written(y)}
                     \ (IF r = l \/ i = 0 THEN {before} ELSE {})}
    BY DEF Allowed
  <1> HIDE DEF x, before, Written
  <1> QED
    BY <1>4, <1>8, <1>9
-----------------------------------------------------------------------------
(* Every allowed block is reached.                                         *)

\* Bounds of a quotient.
LEMMA QuotientBounds ==
  ASSUME NEW n \in Nat \ {0}, NEW a \in Nat, NEW b \in Nat
  PROVE  /\ a < (b + 1) * n => a \div n <= b
         /\ a >= b * n => a \div n >= b
  <1> DEFINE q == a \div n
  <1>1. q \in Nat /\ a - q * n \in 0..(n - 1)
    BY DivRest
  <1> HIDE DEF q
  <1> DEFINE qn == q * n
             bn == b * n
  <1>2. qn \in Nat /\ bn \in Nat /\ (b + 1) * n = bn + n
    BY <1>1, SMTT(30)
  <1>3. q >= b + 1 => qn >= bn + n
    BY <1>1, SMTT(30)
  <1>4. b >= q + 1 => bn >= qn + n
    BY <1>1, SMTT(30)
  <1>5. qn <= a /\ a < qn + n
    BY <1>1, <1>2
  <1> HIDE DEF qn, bn
  <1>6. a < bn + n => q <= b
    BY <1>1, <1>2, <1>3, <1>5
  <1>7. a >= bn => q >= b
    BY <1>1, <1>2, <1>4, <1>5
  <1> QED
    BY <1>2, <1>6, <1>7 DEF q, bn

\* From one random number to the next the mapped square goes up by two at
\* most, and that of the last one is two short of their number.
LEMMA SquareSteps ==
  ASSUME NEW n \in Nat, n >= 2
  PROVE  /\ \A x \in Nat : (x * x) \div n \in Nat
         /\ \A x \in 0..(n - 2) :
               ((x + 1) * (x + 1)) \div n <= (x * x) \div n + 2
         /\ ((n - 1) * (n - 1)) \div n >= n - 2
  <1>0. n \in Nat \ {0}
    OBVIOUS
  <1>1. ASSUME NEW x \in Nat
        PROVE  /\ x * x \in Nat
               /\ (x * x) \div n \in Nat
               /\ x * x < ((x * x) \div n) * n + n
    <2> DEFINE p == x * x
    <2>1. p \in Nat
      BY SMTT(30)
    <2> HIDE DEF p
    <2>2. p \div n \in Nat /\ p - (p \div n) * n \in 0..(n - 1)
      BY <1>0, <2>1, DivRest
    <2>3. (p \div n) * n \in Nat
      BY <2>2, SMTT(30)
    <2>4. p < (p \div n) * n + n
      BY <2>1, <2>2, <2>3
    <2> QED
      BY <2>1, <2>2, <2>4 DEF p
  <1>2. ASSUME NEW x \in 0..(n - 2)
        PROVE  ((x + 1) * (x + 1)) \div n <= (x * x) \div n + 2
    <2> DEFINE q == (x * x) \div n
               p == x * x
               p1 == (x + 1) * (x + 1)
    <2>1. p \in Nat /\ q \in Nat /\ p < q * n + n
      BY <1>1
    <2>2. p1 \in Nat /\ p1 = p + 2 * x + 1
      BY <2>1, SMTT(30)
    <2> HIDE DEF p, p1, q
    <2>3. q * n \in Nat /\ ((q + 2) + 1) * n = q * n + 3 * n
      BY <2>1, SMTT(30)
    <2>4. p1 < q * n + 3 * n
      <3> DEFINE qn == q * n
      <3>1. qn \in Nat /\ p < qn + n
        BY <2>1, <2>3
      <3> HIDE DEF qn
      <3>2. p1 < qn + 3 * n
        BY <2>1, <2>2, <3>1
      <3> QED
        BY <3>2 DEF qn
    <2>5. p1 < ((q + 2) + 1) * n
      BY <2>3, <2>4
    <2>6. p1 \div n <= q + 2
      <3>1. q + 2 \in Nat
        BY <2>1
      <3> QED
        BY <1>0, <2>2, <2>5, <3>1, QuotientBounds, Zenon
    <2> QED
      BY <2>6 DEF p, p1, q
  <1>3. ((n - 1) * (n - 1)) \div n >= n - 2
    <2> DEFINE p == (n - 1) * (n - 1)
    <2>1. p \in Nat /\ n - 2 \in Nat /\ n \in Nat \ {0}
      BY SMTT(30)
    <2>2. p >= (n - 2) * n
      BY SMTT(30)
    <2> HIDE DEF p
    <2>3. p \div n >= n - 2
      BY <2>1, <2>2, QuotientBounds
    <2> QED
      BY <2>3 DEF p
  <1> QED
    BY <1>1, <1>2, <1>3

\* If there are twice as many random numbers as blocks in the area, every
\* block of the area has one.
LEMMA EveryPosition ==
  ASSUME NEW area \in Nat \ {0}, 2 * area <= RandRange,
         NEW y \in 0..(area - 1)
  PROVE  \E rand \in 0..(RandRange - 1) : relative_position(area, rand) = y
  <1> DEFINE n == RandRange
             sq(x) == (x * x) \div n
             f == [x \in 0..(n - 1) |-> (area * sq(x)) \div n]
  <1>1. n \in Nat /\ n >= 2
    OBVIOUS
  <1>n. n \in Nat \ {0} /\ 2 * area <= n
    OBVIOUS
  <1> HIDE DEF n
  <1>2. /\ \A x \in Nat : sq(x) \in Nat
        /\ \A x \in 0..(n - 2) : sq(x + 1) <= sq(x) + 2
        /\ sq(n - 1) >= n - 2
    BY <1>1, SquareSteps
  <1>3. sq(0) = 0
    <2>1. 0 * 0 = 0 /\ \A m \in Nat \ {0} : 0 \div m = 0
      BY SMTT(30)
    <2> QED
      BY <1>n, <2>1
  <1> HIDE DEF sq
  <1>4. \A x \in 0..(n - 1) : area * sq(x) \in Nat /\ f[x] \in Nat
    <2> SUFFICES ASSUME NEW x \in 0..(n - 1)
                 PROVE  area * sq(x) \in Nat /\ f[x] \in Nat
      OBVIOUS
    <2>1. x \in Nat /\ sq(x) \in Nat
      BY <1>1, <1>2
    <2>2. area * sq(x) \in Nat
      BY <2>1, SMTT(30)
    <2>3. (area * sq(x)) \div n \in Nat
      BY <1>n, <2>2, DivRest
    <2> QED
      BY <2>2, <2>3
  <1>5. f \in [0..(n - 1) -> Int]
    BY <1>4
  <1>6. f[0] = 0
    <2>1. area * 0 = 0 /\ 0 \div n = 0 /\ 0 \in 0..(n - 1)
      BY <1>1, <1>n, SMTT(30)
    <2> QED
      BY <1>3, <2>1
  <1>7. ASSUME NEW x \in 0..(n - 2)
        PROVE  f[x + 1] <= f[x] + 1
    <2>1. x \in 0..(n - 1) /\ x + 1 \in 0..(n - 1) /\ x \in Nat
      BY <1>1
    <2> DEFINE p == area * sq(x)
               p1 == area * sq(x + 1)
               q == p \div n
               qn == q * n
    <2>2. p \in Nat /\ p1 \in Nat /\ sq(x) \in Nat /\ sq(x + 1) \in Nat
      BY <1>2, <1>4, <2>1
    <2>3. p1 <= p + 2 * area
      BY <1>2, <2>2, SMTT(30)
    <2>4. q \in Nat /\ p - qn \in 0..(n - 1)
      <3> HIDE DEF p
      <3> QED
        BY <1>n, <2>2, DivRest
    <2>5. f[x] = q /\ f[x + 1] = p1 \div n
      BY <2>1
    <2> HIDE DEF p, p1, q, f
    <2>6. qn \in Nat /\ ((q + 1) + 1) * n = qn + 2 * n
      BY <1>1, <2>4, SMTT(30)
    <2>7. p1 < qn + 2 * n
      <3> HIDE DEF qn
      <3> QED
        BY <1>n, <2>2, <2>3, <2>4, <2>6
    <2>8. p1 \div n <= q + 1
      <3>1. q + 1 \in Nat /\ p1 < ((q + 1) + 1) * n
        BY <2>4, <2>6, <2>7
      <3> QED
        BY <1>n, <2>2, <3>1, QuotientBounds
    <2> QED
      BY <2>5, <2>8
  <1>8. f[n - 1] >= area - 1
    <2>1. n - 1 \in 0..(n - 1) /\ area - 1 \in Nat
      BY <1>1
    <2> DEFINE p == area * sq(n - 1)
    <2>2. p \in Nat /\ sq(n - 1) \in Nat
      BY <1>1, <1>2, <1>4, <2>1
    <2>3. p >= area * (n - 2)
      BY <1>1, <1>2, <2>2, SMTT(30)
    <2>4. area * (n - 2) >= (area - 1) * n
      BY <1>1, <1>n, SMTT(30)
    <2>5. p >= (area - 1) * n
      BY <1>1, <2>2, <2>3, <2>4, SMTT(30)
    <2>6. f[n - 1] = p \div n
      BY <2>1
    <2> HIDE DEF p, f
    <2>7. p \div n >= area - 1
      BY <1>n, <2>1, <2>2, <2>5, QuotientBounds
    <2> QED
      BY <2>6, <2>7
  <1>9. \E x \in 0..(n - 1) : f[x] = area - 1 - y
    <2> DEFINE m == n - 1
               z == area - 1 - y
    <2>1. m \in Nat /\ z \in Int /\ 0 <= z /\ z <= area - 1 /\ m - 1 = n - 2
      BY <1>1
    <2> HIDE DEF f
    <2>2. f \in [0..m -> Int] /\ f[0] = 0 /\ f[m] >= area - 1
      BY <1>5, <1>6, <1>8
    <2>3. Gradual(f, m)
      BY <1>7, <2>1 DEF Gradual
    <2> HIDE DEF m, z
    <2>4. f[0] <= z /\ f[m] >= z
      BY <2>1, <2>2
    <2>5. m \in Nat /\ z \in Int
      BY <2>1
    <2>6. f \in [0..m -> Int]
      BY <2>2
    <2>7. \E x \in 0..m : f[x] = z
      BY <2>3, <2>4, <2>5, <2>6, StepByStep
    <2> QED
      BY <2>7 DEF m, z
  <1>10. PICK x \in 0..(n - 1) : f[x] = area - 1 - y
    BY <1>9
  <1>11. relative_position(area, x) = area - 1 - f[x]
    BY DEF relative_position, sq, n
  <1>12. relative_position(area, x) = y
    <2> HIDE DEF f
    <2> QED
      BY <1>10, <1>11
  <1> QED
    BY <1>12 DEF n

\* An allowed block, by its place k and j in its lane: in a slice written
\* before, or in this one before the previous block; at the head of a slice it
\* is not the last one of the slice before.
LEMMA AllowedPlace ==
  ASSUME NEW s \in Nat, NEW l \in Lanes, NEW i \in Offsets,
         i >= first_idx(s), NEW r \in Lanes,
         NEW b \in Allowed(s, l, i, r)
  PROVE  \E k \in Slots, j \in Offsets :
            /\ b = r * LaneLength + (k * SegLength + j)
            /\ \/ k < slice(s)
               \/ k > slice(s) /\ pass(s) > 0
               \/ k = slice(s) /\ r = l /\ j < i - 1
            /\ i = 0 => k * SegLength + j #
                          IF slice(s) = 0 THEN 4 * SegLength - 1
                                          ELSE slice(s) * SegLength - 1
  <1> DEFINE c == slice(s)
             before == (c * SegLength + i - 1) % LaneLength
             Written(y) == \/ y \div SegLength < c
                           \/ y \div SegLength > c /\ pass(s) > 0
                           \/ /\ y \div SegLength = c /\ r = l
                              /\ y % SegLength < i
  <1>1. Allowed(s, l, i, r) =
          {r * LaneLength + y :
             y \in {y \in 0..(LaneLength - 1) : Written(y)}
                     \ (IF r = l \/ i = 0 THEN {before} ELSE {})}
    BY DEF Allowed
  <1> HIDE DEF before, Written
  <1>2. PICK x \in 0..(LaneLength - 1) :
            /\ b = r * LaneLength + x
            /\ Written(x)
            /\ r = l \/ i = 0 => x # before
    BY <1>1
  <1>3. PICK k \in Slots, j \in Offsets : x = k * SegLength + j
    BY LaneExists
  <1>4. x \div SegLength = k /\ x % SegLength = j
    BY <1>3, InLane
  <1>5. c \in Slots /\ i \in Nat /\ j \in Nat
    BY SegmentParts, FillConstants
  <1>6. i > 0 => before = c * SegLength + (i - 1)
    <2> SUFFICES ASSUME i > 0 PROVE before = c * SegLength + (i - 1)
      OBVIOUS
    <2> DEFINE h == i - 1
               y == c * SegLength + h
    <2>1. h \in Offsets /\ h \in Int
      BY <1>5 DEF Offsets
    <2>2. y \in 0..(LaneLength - 1)
      BY <1>5, <2>1, InLane
    <2>3. c * SegLength + i - 1 = y
      <3>1. c * SegLength \in Nat
        BY <1>5, SegLengthType, SMTT(30) DEF Slots
      <3> QED
        BY <1>5, <3>1
    <2>4. y \in Nat /\ y < LaneLength /\ y < 2 * LaneLength
      BY <2>2, LaneLengthType
    <2>5. y % LaneLength = y
      <3> HIDE DEF y
      <3> QED
        BY <2>4, OneWrap, LaneLengthType
    <2> QED
      BY <2>3, <2>5 DEF before
  <1>7. i = 0 => before = IF c = 0 THEN 4 * SegLength - 1
                                   ELSE c * SegLength - 1
    <2> SUFFICES ASSUME i = 0
                 PROVE  before = IF c = 0 THEN 4 * SegLength - 1
                                          ELSE c * SegLength - 1
      OBVIOUS
    <2>1. before = (c * SegLength - 1) % LaneLength
      <3>1. c * SegLength \in Nat
        BY <1>5, SegLengthType, SMTT(30) DEF Slots
      <3>2. c * SegLength + i - 1 = c * SegLength - 1
        BY <3>1
      <3> QED
        BY <3>2 DEF before
    <2>2. CASE c = 0
      <3>1. \A m \in Nat \ {0} : (-1) % m = m - 1
        BY SMTT(30)
      <3>2. c * SegLength - 1 = -1
        BY <2>2, SegLengthType
      <3> QED
        BY <2>1, <2>2, <3>1, <3>2, LaneLengthType
    <2>3. CASE c # 0
      <3> DEFINE y == c * SegLength - 1
      <3>1. y \in Nat /\ y < LaneLength /\ y < 2 * LaneLength
        <4>1. c = 1 \/ c = 2 \/ c = 3
          BY <1>5, <2>3 DEF Slots
        <4> QED
          BY <4>1, SegLengthType, LaneLengthType
      <3> HIDE DEF y
      <3>2. y % LaneLength = y
        BY <3>1, OneWrap, LaneLengthType
      <3> QED
        BY <2>1, <2>3, <3>2 DEF y
    <2> QED
      BY <2>2, <2>3
  <1>8. k = c /\ r = l /\ j < i => j < i - 1
    <2> SUFFICES ASSUME k = c, r = l, j < i PROVE j < i - 1
      OBVIOUS
    <2>1. x # c * SegLength + (i - 1)
      BY <1>2, <1>5, <1>6
    <2>2. j # i - 1
      BY <1>3, <2>1
    <2> QED
      BY <1>5, <2>2
  <1>9. k < c \/ (k > c /\ pass(s) > 0) \/ (k = c /\ r = l /\ j < i)
    BY <1>2, <1>4 DEF Written
  <1> HIDE DEF c
  <1>10. i = 0 => k * SegLength + j # IF c = 0 THEN 4 * SegLength - 1
                                               ELSE c * SegLength - 1
    BY <1>2, <1>3, <1>7
  <1> QED
    BY <1>2, <1>3, <1>8, <1>9, <1>10 DEF c

\* Where random numbers are enough every allowed block is referred to by one
\* of them.
LEMMA EveryReference ==
  ASSUME RandRange >= 2 * LaneLength,
         NEW s \in Nat, NEW l \in Lanes, NEW i \in Offsets,
         i >= first_idx(s), NEW r \in Lanes, s = 0 => r = l,
         NEW b \in Allowed(s, l, i, r)
  PROVE  \E rand \in 0..(RandRange - 1) : ref_idx(s, l, i, r, rand) = b
  <1> DEFINE c == slice(s)
             n == SegLength
             area == area_size(s, l, i, r)
             start == area_start(s)
             own == IF l = r THEN i - 1 ELSE IF i = 0 THEN -1 ELSE 0
             base == IF pass(s) > 0 THEN 3 * n ELSE c * n
  <1>1. PICK k \in Slots, j \in Offsets :
            /\ b = r * LaneLength + (k * n + j)
            /\ \/ k < c
               \/ k > c /\ pass(s) > 0
               \/ k = c /\ r = l /\ j < i - 1
            /\ i = 0 => k * n + j # IF c = 0 THEN 4 * n - 1 ELSE c * n - 1
    BY AllowedPlace
  <1>2. /\ c \in Slots /\ pass(s) \in Nat /\ i \in Nat /\ i < n
        /\ j \in Nat /\ j < n /\ n \in Nat /\ n > 2
    BY SegmentParts, FillConstants, SegLengthType
  <1>3. pass(s) = 0 /\ c = 0 => i >= 2
    <2>1. pass(s) = 0 => s < 4
      BY SegmentParts
    <2>2. pass(s) = 0 /\ c = 0 => s = 0
      BY <2>1 DEF slice
    <2> QED
      BY <2>2 DEF first_idx
  <1>4. area = base + own
    <2>1. LaneLength - SegLength = 3 * SegLength
      BY SegLengthType, LaneLengthType
    <2> QED
      BY <2>1, Zenon DEF area_size
  <1>5. start = IF pass(s) > 0 /\ c < 3 THEN (c + 1) * n ELSE 0
    BY DEF area_start
  <1>6. LaneLength = 4 * n /\ LaneLength \in Nat \ {0}
    BY LaneLengthType
  <1> DEFINE cn == c * n
             x == k * n + j
  <1>7. /\ cn \in Nat /\ (c + 1) * n = cn + n
        /\ \/ c = 0 /\ cn = 0
           \/ c = 1 /\ cn = n
           \/ c = 2 /\ cn = 2 * n
           \/ c = 3 /\ cn = 3 * n
    BY <1>2 DEF Slots
  <1>8. /\ x \in Nat /\ x < 4 * n
        /\ k < c => x < cn
        /\ k > c => x >= cn + n
        /\ k = c => x = cn + j
    <2>1. k = 0 \/ k = 1 \/ k = 2 \/ k = 3
      BY DEF Slots
    <2>2. x = k * n + j
      OBVIOUS
    <2> HIDE DEF c, n, x, cn
    <2> QED
      BY <1>2, <1>7, <2>1, <2>2
  <1>9. i = 0 => x # IF c = 0 THEN 4 * n - 1 ELSE cn - 1
    BY <1>1
  <1>10. /\ own \in Int /\ own < n
         /\ own = IF l = r THEN i - 1 ELSE IF i = 0 THEN -1 ELSE 0
    BY <1>2
  <1>11. /\ base = IF pass(s) > 0 THEN 3 * n ELSE cn
         /\ start = IF pass(s) > 0 /\ c < 3 THEN cn + n ELSE 0
    BY <1>5, <1>7
  <1>12. \/ k < c
         \/ k > c /\ pass(s) > 0
         \/ k = c /\ own = i - 1 /\ j < own
    BY <1>1, <1>10
  <1>13. own >= -1 /\ (own = -1 => i = 0)
    BY <1>2, <1>10
  <1>14. k \in Nat /\ k <= 3
    BY DEF Slots
  <1> HIDE DEF c, n, area, start, own, base, cn, x
  <1> DEFINE rel == IF x >= start THEN x - start ELSE x - start + 4 * n
  <1>15. rel \in Nat /\ rel < area
    <2>1. CASE pass(s) = 0 \/ c = 3
      <3>1. start = 0 /\ base = cn /\ k <= c
        BY <2>1, <1>2, <1>7, <1>11, <1>12, <1>14
      <3>2. rel = x
        BY <3>1, <1>8
      <3>3. k < c => x < cn + own
        <4>1. own = -1 /\ c # 0 => x # cn - 1
          BY <1>9, <1>13
        <4>2. own = -1 => c # 0
          BY <2>1, <1>2, <1>3, <1>13
        <4>3. /\ x \in Nat /\ cn \in Nat /\ own \in Int /\ own >= -1
              /\ k < c => x < cn
          BY <1>7, <1>8, <1>10, <1>13
        <4>4. own = -1 => x # cn - 1
          BY <4>1, <4>2
        <4> QED
          BY <4>3, <4>4
      <3>4. k = c => x < cn + own
        BY <1>2, <1>7, <1>8, <1>10, <1>12
      <3> QED
        BY <3>1, <3>2, <3>3, <3>4, <1>2, <1>4, <1>7, <1>8, <1>10, <1>14
           DEF Slots
    <2>2. CASE pass(s) > 0 /\ c # 3
      <3>1. start = cn + n /\ base = 3 * n
        BY <2>2, <1>2, <1>11 DEF Slots
      <3>2. CASE k > c
        <4>1. rel = x - cn - n /\ x >= cn + n
          BY <3>1, <3>2, <1>2, <1>7, <1>8
        <4>2. own = -1 /\ c = 0 => x # 4 * n - 1
          BY <1>9, <1>13
        <4> HIDE DEF rel
        <4> QED
          BY <3>1, <4>1, <4>2, <1>2, <1>4, <1>7, <1>8, <1>10, <1>13
      <3>3. CASE k < c
        <4>1. rel = x + 3 * n - cn /\ x < cn
          BY <3>1, <3>3, <1>2, <1>7, <1>8
        <4>2. own = -1 => x # cn - 1
          BY <3>3, <1>9, <1>13, <1>14
        <4> HIDE DEF rel
        <4> QED
          BY <2>2, <3>1, <4>1, <4>2, <1>2, <1>4, <1>7, <1>8, <1>10, <1>13
      <3>4. CASE k = c
        <4>1. rel = 3 * n + j
          BY <3>1, <3>4, <1>2, <1>7, <1>8
        <4>2. j < own
          BY <3>4, <1>12, <1>2, <1>14
        <4> HIDE DEF rel
        <4> QED
          BY <3>1, <4>1, <4>2, <1>2, <1>4, <1>10
      <3>5. k > c \/ k < c \/ k = c
        BY <1>2, <1>14 DEF Slots
      <3> QED
        BY <3>2, <3>3, <3>4, <3>5
    <2> QED
      BY <2>1, <2>2, <1>2
  <1>16. (start + rel) % LaneLength = x
    <2> DEFINE y == start + rel
    <2>1. start \in Nat /\ start <= 4 * n
      BY <1>2, <1>7, <1>11
    <2>2. y = IF x >= start THEN x ELSE x + 4 * n
      BY <1>2, <1>8, <2>1
    <2> HIDE DEF y
    <2>3. y \in Nat /\ y < 2 * LaneLength
      BY <1>2, <1>6, <1>8, <2>1, <2>2
    <2>4. y % LaneLength = IF y < LaneLength THEN y ELSE y - LaneLength
      BY <1>6, <2>3, OneWrap
    <2>5. y % LaneLength = x
      BY <1>2, <1>6, <1>8, <2>2, <2>4
    <2> QED
      BY <2>5 DEF y
  <1> HIDE DEF rel
  <1>17. area \in Nat \ {0} /\ 2 * area <= RandRange /\ rel \in 0..(area - 1)
    <2>1. area \in Nat \ {0}
      BY AreaSize DEF area
    <2>2. base <= 3 * n /\ base \in Nat
      BY <1>2, <1>7, <1>11
    <2>3. area <= LaneLength
      BY <1>2, <1>4, <1>6, <1>10, <2>2
    <2> QED
      BY <1>6, <1>15, <2>1, <2>3
  <1>18. PICK rand \in 0..(RandRange - 1) : relative_position(area, rand) = rel
    BY <1>17, EveryPosition
  <1>19. ref_idx(s, l, i, r, rand)
           = r * LaneLength + ((start + relative_position(area, rand))
                                 % LaneLength)
    BY DEF ref_idx, start, area
  <1>20. ref_idx(s, l, i, r, rand) = r * LaneLength + x
    BY <1>16, <1>18, <1>19
  <1> QED
    BY <1>1, <1>20 DEF x, n

\* For any number of lanes and any length of a segment, and random numbers at
\* least twice as many as a lane has blocks (there are 2^32 of them), in one
\* or two passes: the index arithmetic of CPU and CUDA reaches exactly the
\* blocks Argon2 allows, and the OpenCL kernel refers to the same block.
THEOREM ReferencesTheorem ==
  ASSUME RandRange >= 2 * LaneLength, Passes <= 2
  PROVE  HashSpec => []ReferencesAllowed
  <1>1. ASSUME FillInv
        PROVE  ReferencesAllowed
    <2> SUFFICES ASSUME NEW l \in Lanes, lpc[l] = "load",
                        seg_type(seg[l]) = 1, NEW r \in Lanes
                 PROVE  /\ {ref_idx(seg[l], l, idx[l], r, rand) :
                               rand \in 0..(RandRange - 1)}
                             = Allowed(seg[l], l, idx[l], r)
                        /\ \A rand \in 0..(RandRange - 1) :
                             ref_idx_opencl(seg[l], l, idx[l], r, rand)
                               = ref_idx(seg[l], l, idx[l], r, rand)
      BY Zenon DEF ReferencesAllowed
    <2> DEFINE s == seg[l]
               i == idx[l]
    <2>1. s \in 0..Segments /\ i \in Offsets
      BY <1>1 DEF FillInv, FillTypes
    <2>2. s < Segments /\ i >= first_idx(s)
      BY <1>1 DEF FillInv, Places, PlaceOf, Active
    <2>3. s \in Nat /\ s # 0
      BY <2>1, SegmentsType DEF seg_type
    <2>4. s \in 0..7
      BY <2>2, <2>3 DEF Segments
    <2> HIDE DEF s, i
    <2>5. \A rand \in 0..(RandRange - 1) :
            ref_idx(s, l, i, r, rand) \in Allowed(s, l, i, r)
      BY <2>1, <2>2, <2>3, ReferenceWithin
    <2>6. \A b \in Allowed(s, l, i, r) :
            \E rand \in 0..(RandRange - 1) : ref_idx(s, l, i, r, rand) = b
      BY <2>1, <2>2, <2>3, EveryReference
    <2>7. \A rand \in 0..(RandRange - 1) :
            ref_idx_opencl(s, l, i, r, rand) = ref_idx(s, l, i, r, rand)
      BY <2>1, <2>4, OpenclReference
    <2>8. {ref_idx(s, l, i, r, rand) : rand \in 0..(RandRange - 1)}
            = Allowed(s, l, i, r)
      BY <2>5, <2>6, Zenon
    <2> QED
      BY <2>7, <2>8 DEF s, i
  <1> QED
    BY <1>1, FillInvariant, PTL

-----------------------------------------------------------------------------
(* The hash ceiling.                                                       *)

\* Bytes of a ceiling.
CeilBytes == DifficultyBytes + 2

\* The constants of bytes.
LEMMA ByteConstants ==
  /\ Base \in Nat \ {0} /\ DifficultyBytes \in Nat \ {0}
  /\ CeilBytes \in Nat /\ CeilBytes = DifficultyBytes + 2
  /\ DigestBytes \in Nat /\ DigestBytes > CeilBytes
  BY HashAssumption DEF CeilBytes

\* The weight of a byte is Base to the number of bytes after it.
LEMMA WeightIs ==
  /\ Weight \in [0..DifficultyBytes -> Nat \ {0}]
  /\ Weight[0] = 1
  /\ \A k \in 1..DifficultyBytes : Weight[k] = Base * Weight[k - 1]
  <1> DEFINE D == DifficultyBytes
             P == Nat \ {0}
             g == [i \in Nat |-> [v \in P |-> Base * v]]
             Is(f) == f = [k \in 0..D |-> IF k = 0 THEN 1 ELSE Base * f[k - 1]]
  <1>1. D \in Nat /\ Base \in P /\ 1 \in P
    BY ByteConstants
  <1>2. \A v \in P : Base * v \in P
    BY <1>1, SMTT(30)
  <1>3. g \in [Nat -> [P -> P]]
    BY <1>2
  <1> HIDE DEF P, g, D
  <1>4. PICK f \in [0..D -> P] : Iterates(f, 1, g, D)
    BY <1>1, <1>3, RecursionExists
  <1>5. ASSUME NEW k \in 0..D, k # 0
        PROVE  f[k] = Base * f[k - 1]
    <2>1. k \in 1..D /\ k - 1 \in 0..D /\ k \in Nat
      BY <1>1, <1>5
    <2>2. f[k] = g[k][f[k - 1]] /\ f[k - 1] \in P
      BY <2>1, <1>4 DEF Iterates
    <2> QED
      BY <2>1, <2>2 DEF g
  <1>6. f[0] = 1
    BY <1>4 DEF Iterates
  <1>7. Is(f)
    BY <1>4, <1>5, <1>6
  <1>8. Is(Weight)
    <2>1. Weight = CHOOSE w : Is(w)
      BY DEF Weight, D
    <2> HIDE DEF Is
    <2> QED
      BY <1>7, <2>1, Zenon
  <1>9. ASSUME NEW k \in 0..D
        PROVE  Weight[k] = f[k]
    <2> DEFINE Q == {i \in Nat : i \in 0..D => Weight[i] = f[i]}
    <2>1. 0 \in Q
      BY <1>1, <1>6, <1>8
    <2>2. ASSUME NEW i \in 0..(D - 1), i \in Q
          PROVE  i + 1 \in Q
      <3>1. /\ i \in 0..D /\ i + 1 \in 0..D /\ i + 1 # 0 /\ (i + 1) - 1 = i
            /\ i + 1 \in Nat
        BY <1>1
      <3>2. Weight[i + 1] = Base * Weight[i]
        BY <1>8, <3>1
      <3>3. f[i + 1] = Base * f[i]
        BY <1>5, <3>1
      <3> QED
        BY <2>2, <3>1, <3>2, <3>3
    <2> HIDE DEF Q
    <2>3. 0..D \subseteq Q
      BY <1>1, <2>1, <2>2, AllNumbers
    <2> QED
      BY <1>1, <2>3 DEF Q
  <1>10. Weight = f
    BY <1>4, <1>8, <1>9
  <1> QED
    BY <1>1, <1>4, <1>5, <1>6, <1>10 DEF D, P

\* f has the numbers that the first bytes of h, one after the other, write.
Numbers(f, h) ==
    /\ f \in [0..CeilBytes -> Int]
    /\ f[0] = 0
    /\ \A i \in 1..CeilBytes : f[i] = f[i - 1] * Base + h[i]

\* Leading is the last of them.
LEMMA LeadingIs ==
  ASSUME NEW h, \A i \in 1..CeilBytes : h[i] \in Int
  PROVE  \E f : Numbers(f, h) /\ Leading(h) = f[CeilBytes]
  <1> DEFINE n == CeilBytes
             g == [i \in Nat |-> [v \in Int |->
                     IF i \in 1..n THEN v * Base + h[i] ELSE 0]]
             Is(f) == f = [i \in 0..n |-> IF i = 0 THEN 0
                                          ELSE f[i - 1] * Base + h[i]]
             sum == CHOOSE f : Is(f)
  <1>1. n \in Nat /\ Base \in Nat /\ 0 \in Int
    BY ByteConstants
  <1>2. \A v \in Int : v * Base \in Int
    BY <1>1, SMTT(30)
  <1>3. g \in [Nat -> [Int -> Int]]
    BY <1>2
  <1> HIDE DEF g, n
  <1>4. PICK f \in [0..n -> Int] : Iterates(f, 0, g, n)
    BY <1>1, <1>3, RecursionExists
  <1>5. ASSUME NEW i \in 0..n, i # 0
        PROVE  f[i] = f[i - 1] * Base + h[i]
    <2>1. i \in 1..n /\ i - 1 \in 0..n /\ i \in Nat
      BY <1>1, <1>5
    <2>2. f[i] = g[i][f[i - 1]] /\ f[i - 1] \in Int
      BY <2>1, <1>4 DEF Iterates
    <2> QED
      BY <2>1, <2>2 DEF g
  <1>6. f[0] = 0
    BY <1>4 DEF Iterates
  <1>7. Is(f)
    BY <1>4, <1>5, <1>6
  <1>8. Is(sum)
    <2> HIDE DEF Is
    <2> QED
      BY <1>7, Zenon
  <1>9. ASSUME NEW k \in 0..n
        PROVE  sum[k] = f[k]
    <2> HIDE DEF sum
    <2> DEFINE Q == {i \in Nat : i \in 0..n => sum[i] = f[i]}
    <2>1. 0 \in Q
      BY <1>1, <1>6, <1>8
    <2>2. ASSUME NEW i \in 0..(n - 1), i \in Q
          PROVE  i + 1 \in Q
      <3>1. /\ i \in 0..n /\ i + 1 \in 0..n /\ i + 1 # 0 /\ (i + 1) - 1 = i
            /\ i + 1 \in Nat
        BY <1>1
      <3>2. sum[i + 1] = sum[i] * Base + h[i + 1]
        BY <1>8, <3>1
      <3>3. f[i + 1] = f[i] * Base + h[i + 1]
        BY <1>5, <3>1
      <3> QED
        BY <2>2, <3>1, <3>2, <3>3
    <2> HIDE DEF Q
    <2>3. 0..n \subseteq Q
      BY <1>1, <2>1, <2>2, AllNumbers
    <2> QED
      BY <1>1, <2>3 DEF Q
  <1>10. Leading(h) = sum[n]
    BY DEF Leading, n, CeilBytes
  <1>11. Numbers(f, h)
    <2>1. \A i \in 1..n : i \in 0..n /\ i # 0
      BY <1>1
    <2>2. \A i \in 1..n : f[i] = f[i - 1] * Base + h[i]
      BY <1>5, <2>1, Zenon
    <2> QED
      BY <1>4, <1>6, <2>2, Zenon DEF Numbers, n
  <1>12. n \in 0..n
    BY <1>1
  <1> QED
    BY <1>9, <1>10, <1>11, <1>12 DEF n

\* The quotient by a smaller weight, from that by the next one and a digit.
LEMMA NextDigit ==
  ASSUME NEW d \in Nat, NEW p \in Nat \ {0}, NEW b \in Nat \ {0}
  PROVE  d \div p = (d \div (b * p)) * b + ((d \div p) % b)
  <1> DEFINE q == d \div p
             t == q \div b
             m == b * p
             qp == q * p
             tb == t * b
  <1>1. q \in Nat /\ d - qp \in 0..(p - 1)
    BY DivRest
  <1>2. qp \in Nat
    BY <1>1, SMTT(30)
  <1>3. d >= qp /\ d < qp + p
    BY <1>1, <1>2
  <1> HIDE DEF qp
  <1>4. t \in Nat /\ q - tb \in 0..(b - 1)
    <2> HIDE DEF q
    <2> QED
      BY <1>1, DivRest
  <1>5. q = tb + (q % b)
    <2>1. tb \in Nat
      BY <1>4, SMTT(30)
    <2> DEFINE x == q - tb
    <2>2. x \in 0..(b - 1) /\ q = tb + x
      BY <1>1, <1>4, <2>1
    <2> HIDE DEF x, q
    <2>3. (tb + x) % b = x
      <3> HIDE DEF t
      <3> QED
        BY <1>4, <2>2, DivMod
    <2> HIDE DEF t, tb
    <2> QED
      BY <2>2, <2>3, Zenon
  <1> HIDE DEF q, t
  <1>6. tb \in Nat /\ tb <= q /\ q + 1 <= tb + b
    <2>1. tb \in Nat
      BY <1>4, SMTT(30)
    <2> HIDE DEF tb
    <2> QED
      BY <1>1, <1>4, <2>1
  <1>7. m \in Nat \ {0}
    BY SMTT(30)
  <1>8. t * m = tb * p /\ (t + 1) * m = (tb + b) * p
    BY <1>4, SMTT(30)
  <1>9. tb * p <= qp /\ qp + p <= (tb + b) * p
    <2> HIDE DEF tb
    <2>1. tb * p <= q * p
      BY <1>1, <1>6, SMTT(30)
    <2>2. (q + 1) * p <= (tb + b) * p
      BY <1>1, <1>6, SMTT(30)
    <2>3. (q + 1) * p = q * p + p
      BY <1>1, SMTT(30)
    <2> QED
      BY <2>1, <2>2, <2>3 DEF qp
  <1>10. t * m \in Nat /\ (t + 1) * m \in Nat
    BY <1>4, <1>7, SMTT(30)
  <1>11. d >= t * m /\ d < (t + 1) * m
    <2> DEFINE u == t * m
               w == (t + 1) * m
    <2>1. u <= qp /\ qp + p <= w /\ u \in Nat /\ w \in Nat
      BY <1>8, <1>9, <1>10
    <2> HIDE DEF u, w
    <2>2. d >= u /\ d < w
      BY <1>2, <1>3, <2>1
    <2> QED
      BY <2>2 DEF u, w
  <1>12. d \div m = t
    <2> HIDE DEF m
    <2>1. d \div m \in Nat /\ d \div m <= t /\ d \div m >= t
      BY <1>4, <1>7, <1>11, QuotientBounds, DivRest
    <2> QED
      BY <1>4, <2>1
  <1> QED
    BY <1>5, <1>12 DEF m, q, tb

\* A difficulty is less than the weight no byte of it has.
LEMMA MaxDifficultyIs ==
  /\ MaxDifficulty \in Nat
  /\ \A d \in 0..MaxDifficulty : d \in Nat /\ d < Weight[DifficultyBytes]
  <1>1. DifficultyBytes \in 0..DifficultyBytes
    BY ByteConstants
  <1>2. Weight[DifficultyBytes] \in Nat \ {0}
    BY <1>1, WeightIs
  <1> QED
    BY <1>2 DEF MaxDifficulty

\* The bytes of a ceiling.
LEMMA CeilBytesAre ==
  ASSUME NEW d \in 0..MaxDifficulty
  PROVE  /\ Len(hash_ceil(d)) = CeilBytes
         /\ \A i \in 1..CeilBytes : hash_ceil(d)[i] \in 0..(Base - 1)
         /\ hash_ceil(d)[1] = 0 /\ hash_ceil(d)[2] = 0
         /\ \A i \in 1..DifficultyBytes :
              hash_ceil(d)[i + 2] =
                Base - 1 - ((d \div Weight[DifficultyBytes - i]) % Base)
  <1> DEFINE D == DifficultyBytes
             c == hash_ceil(d)
             digit(i) == (d \div Weight[D - i]) % Base
  <1>1. /\ Base \in Nat \ {0} /\ D \in Nat \ {0} /\ CeilBytes = D + 2
        /\ CeilBytes \in Nat /\ d \in Nat
    BY ByteConstants, MaxDifficultyIs
  <1>2. d # NoDifficulty
    BY <1>1 DEF NoDifficulty
  <1>3. c = [i \in 1..CeilBytes |->
               IF i <= 2 THEN 0 ELSE Base - 1 - digit(i - 2)]
    BY <1>2 DEF hash_ceil, difficulty_byte, CeilBytes
  <1>4. \A i \in 1..D : digit(i) \in 0..(Base - 1)
    <2> SUFFICES ASSUME NEW i \in 1..D PROVE digit(i) \in 0..(Base - 1)
      OBVIOUS
    <2>1. D - i \in 0..D
      BY <1>1
    <2> DEFINE q == d \div Weight[D - i]
    <2>2. Weight[D - i] \in Nat \ {0}
      BY <2>1, WeightIs
    <2>3. q \in Nat
      BY <1>1, <2>2, DivRest
    <2> HIDE DEF q
    <2>4. q % Base \in 0..(Base - 1)
      BY <1>1, <2>3
    <2> QED
      BY <2>4 DEF q
  <1> HIDE DEF c, digit
  <1>5. Len(c) = CeilBytes
    BY <1>1, <1>3
  <1>6. \A i \in 1..CeilBytes : c[i] \in 0..(Base - 1)
    <2> SUFFICES ASSUME NEW i \in 1..CeilBytes PROVE c[i] \in 0..(Base - 1)
      OBVIOUS
    <2>1. CASE i <= 2
      BY <1>1, <1>3, <2>1
    <2>2. CASE ~(i <= 2)
      <3>1. i - 2 \in 1..D
        BY <1>1, <2>2
      <3> QED
        BY <1>1, <1>3, <1>4, <2>2, <3>1
    <2> QED
      BY <2>1, <2>2
  <1>7. c[1] = 0 /\ c[2] = 0
    BY <1>1, <1>3
  <1>8. \A i \in 1..D : c[i + 2] = Base - 1 - digit(i)
    <2> SUFFICES ASSUME NEW i \in 1..D PROVE c[i + 2] = Base - 1 - digit(i)
      OBVIOUS
    <2>1. i + 2 \in 1..CeilBytes /\ ~(i + 2 <= 2) /\ (i + 2) - 2 = i
      BY <1>1
    <2> QED
      BY <1>3, <2>1
  <1> QED
    BY <1>5, <1>6, <1>7, <1>8, Zenon DEF c, digit

\* The bytes of a ceiling write the complement of the difficulty.
LEMMA CeilNumber ==
  ASSUME NEW d \in 0..MaxDifficulty
  PROVE  \E f : /\ Numbers(f, hash_ceil(d))
                /\ f[CeilBytes] = MaxDifficulty - d
  <1> DEFINE D == DifficultyBytes
             n == CeilBytes
             c == hash_ceil(d)
             prefix(k) == d \div Weight[D - k]
             f == [i \in 0..n |-> IF i < 2 THEN 0
                                  ELSE Weight[i - 2] - 1 - prefix(i - 2)]
  <1>1. /\ Base \in Nat \ {0} /\ D \in Nat \ {0} /\ n = D + 2 /\ n \in Nat
        /\ d \in Nat /\ d < Weight[D]
    BY ByteConstants, MaxDifficultyIs
  <1>2. \A k \in 0..D : Weight[k] \in Nat \ {0} /\ prefix(k) \in Nat
    <2> SUFFICES ASSUME NEW k \in 0..D
                 PROVE  Weight[k] \in Nat \ {0} /\ prefix(k) \in Nat
      OBVIOUS
    <2>1. D - k \in 0..D
      BY <1>1
    <2>2. Weight[k] \in Nat \ {0} /\ Weight[D - k] \in Nat \ {0}
      BY <2>1, WeightIs
    <2> QED
      BY <1>1, <2>2, DivRest
  <1>3. prefix(0) = 0
    <2>1. D - 0 = D /\ D \in 0..D
      BY <1>1
    <2>2. Weight[D] \in Nat \ {0} /\ (0 + 1) * Weight[D] = Weight[D]
      BY <1>2, <2>1
    <2> DEFINE w == Weight[D]
    <2>3. w \in Nat \ {0} /\ 0 \in Nat /\ d < (0 + 1) * w
      BY <1>1, <2>2
    <2> HIDE DEF w
    <2>4. d \div w <= 0 /\ d \div w \in Nat
      BY <1>1, <2>3, QuotientBounds, DivRest
    <2> QED
      BY <2>1, <2>4 DEF w
  <1>4. prefix(D) = d
    <2>1. D - D = 0 /\ Weight[0] = 1 /\ d \div 1 = d
      BY <1>1, WeightIs
    <2> QED
      BY <2>1
  <1>5. ASSUME NEW k \in 1..D
        PROVE  prefix(k) = prefix(k - 1) * Base + (prefix(k) % Base)
    <2>1. D - k \in 0..D /\ D - (k - 1) \in 1..D /\ (D - (k - 1)) - 1 = D - k
      BY <1>1
    <2>2. /\ Weight[D - k] \in Nat \ {0}
          /\ Weight[D - (k - 1)] = Base * Weight[D - k]
      BY <2>1, WeightIs
    <2> DEFINE p == Weight[D - k]
    <2>3. d \div p = (d \div (Base * p)) * Base + ((d \div p) % Base)
      <3> HIDE DEF p
      <3>1. p \in Nat \ {0}
        BY <2>2 DEF p
      <3> QED
        BY <1>1, <3>1, NextDigit
    <2> QED
      BY <2>2, <2>3, Zenon
  <1>6. \A k \in 1..D : c[k + 2] = Base - 1 - (prefix(k) % Base)
    BY CeilBytesAre
  <1>7. c[1] = 0 /\ c[2] = 0
    BY CeilBytesAre
  <1> HIDE DEF c, n, prefix
  <1>8. f \in [0..n -> Int]
    <2> SUFFICES ASSUME NEW i \in 0..n, ~(i < 2)
                 PROVE  Weight[i - 2] - 1 - prefix(i - 2) \in Int
      BY <1>1
    <2>1. i - 2 \in 0..D
      BY <1>1
    <2> QED
      BY <1>2, <2>1
  <1>9. f[0] = 0 /\ f[1] = 0 /\ f[2] = 0
    <2>1. 0 \in 0..n /\ 1 \in 0..n /\ 2 \in 0..n /\ 2 - 2 = 0 /\ Weight[0] = 1
      BY <1>1, WeightIs
    <2> QED
      BY <1>3, <2>1
  <1>10. \A k \in 0..D : f[k + 2] = Weight[k] - 1 - prefix(k)
    <2> SUFFICES ASSUME NEW k \in 0..D
                 PROVE  f[k + 2] = Weight[k] - 1 - prefix(k)
      OBVIOUS
    <2>1. k + 2 \in 0..n /\ ~(k + 2 < 2) /\ (k + 2) - 2 = k
      BY <1>1
    <2> QED
      BY <2>1
  <1> HIDE DEF f
  <1>11. ASSUME NEW i \in 1..n
         PROVE  f[i] = f[i - 1] * Base + c[i]
    <2>1. CASE i = 1 \/ i = 2
      BY <1>1, <1>7, <1>9, <2>1
    <2>2. CASE i # 1 /\ i # 2
      <3> DEFINE k == i - 2
      <3>1. k \in 1..D /\ k - 1 \in 0..D /\ k \in 0..D
              /\ i = k + 2 /\ i - 1 = (k - 1) + 2
        BY <1>1, <2>2
      <3> HIDE DEF k
      <3> DEFINE w == Weight[k - 1]
                 u == prefix(k - 1)
                 x == prefix(k) % Base
      <3>2. Weight[k] = Base * w
        BY <3>1, WeightIs
      <3>3. w \in Nat /\ u \in Nat /\ prefix(k) \in Nat
        BY <1>2, <3>1
      <3>4. x \in Int
        <4> DEFINE y == prefix(k)
        <4> HIDE DEF y
        <4>1. \A z \in Nat : z % Base \in Int
          BY <1>1
        <4> QED
          BY <3>3, <4>1
      <3>5. /\ f[i] = Base * w - 1 - (u * Base + x)
            /\ f[i - 1] = w - 1 - u
            /\ c[i] = Base - 1 - x
        <4>1. prefix(k) = u * Base + x
          BY <1>5, <3>1
        <4>2. /\ f[k + 2] = Weight[k] - 1 - prefix(k)
              /\ f[(k - 1) + 2] = w - 1 - u
              /\ c[k + 2] = Base - 1 - x
          BY <1>6, <1>10, <3>1
        <4> HIDE DEF w, u, x
        <4> QED
          BY <3>1, <3>2, <4>1, <4>2
      <3> HIDE DEF w, u, x
      <3>6. (w - 1 - u) * Base + (Base - 1 - x) = Base * w - 1 - (u * Base + x)
        BY <1>1, <3>3, <3>4, SMTT(30)
      <3> QED
        BY <3>5, <3>6
    <2> QED
      BY <2>1, <2>2
  <1>12. f[n] = MaxDifficulty - d
    <2>1. D \in 0..D /\ n = D + 2
      BY <1>1
    <2> QED
      BY <1>4, <1>10, <2>1 DEF MaxDifficulty
  <1>13. Numbers(f, c)
    BY <1>8, <1>9, <1>11 DEF Numbers, n
  <1> QED
    BY <1>12, <1>13 DEF c, n

\* Numbers of bytes: the first of h and c that differ decide, whatever follows.
LEMMA NumbersInOrder ==
  ASSUME NEW h, NEW c, NEW f, NEW e, Numbers(f, h), Numbers(e, c),
         NEW k \in 1..CeilBytes, f[k] < e[k],
         \A i \in 1..CeilBytes : h[i] \in 0..(Base - 1) /\ c[i] \in 0..(Base - 1)
  PROVE  f[CeilBytes] < e[CeilBytes]
  <1> DEFINE n == CeilBytes
             Q == {i \in Nat : k + i <= n => f[k + i] < e[k + i]}
  <1>1. n \in Nat /\ Base \in Nat \ {0} /\ k \in Nat /\ k <= n
    BY ByteConstants
  <1>2. 0 \in Q
    BY <1>1
  <1>3. ASSUME NEW i \in 0..(n - 1), i \in Q
        PROVE  i + 1 \in Q
    <2> SUFFICES ASSUME k + (i + 1) <= n
                 PROVE  f[k + (i + 1)] < e[k + (i + 1)]
      BY <1>1
    <2> DEFINE j == k + i
               x == f[j]
               y == e[j]
               a == h[j + 1]
               b == c[j + 1]
    <2>1. /\ j \in 0..n /\ j + 1 \in 1..n /\ (j + 1) - 1 = j
          /\ k + (i + 1) = j + 1 /\ j <= n
      BY <1>1
    <2> HIDE DEF n
    <2>2. x < y
      BY <1>3, <2>1
    <2>3. x \in Int /\ y \in Int
      BY <2>1 DEF Numbers, n
    <2>4. a \in 0..(Base - 1) /\ b \in 0..(Base - 1)
      BY <2>1 DEF n
    <2>5. f[j + 1] = x * Base + a /\ e[j + 1] = y * Base + b
      BY <2>1 DEF Numbers, n
    <2> HIDE DEF x, y, a, b, j
    <2>6. x * Base + Base <= y * Base
      BY <1>1, <2>2, <2>3, SMTT(30)
    <2>7. x * Base \in Int /\ y * Base \in Int
      BY <1>1, <2>3, SMTT(30)
    <2> DEFINE xb == x * Base
               yb == y * Base
    <2>8. xb + a < yb + b
      <3>1. xb \in Int /\ yb \in Int /\ xb + Base <= yb
        BY <2>6, <2>7
      <3> HIDE DEF xb, yb
      <3> QED
        BY <1>1, <2>4, <3>1
    <2> QED
      BY <2>1, <2>5, <2>8
  <1> HIDE DEF Q, n
  <1>4. 0..n \subseteq Q
    BY <1>1, <1>2, <1>3, AllNumbers
  <1>5. n - k \in 0..n /\ k + (n - k) = n
    BY <1>1
  <1>6. n - k \in Q
    BY <1>4, <1>5
  <1> QED
    BY <1>1, <1>5, <1>6 DEF Q, n

\* Numbers of the same bytes are the same.
LEMMA NumbersAgree ==
  ASSUME NEW h, NEW c, NEW f, NEW e, Numbers(f, h), Numbers(e, c),
         NEW k \in 0..CeilBytes, \A i \in 1..k : h[i] = c[i]
  PROVE  f[k] = e[k]
  <1> DEFINE Q == {i \in Nat : f[i] = e[i]}
  <1>1. CeilBytes \in Nat /\ k \in Nat
    BY ByteConstants
  <1>2. 0 \in Q
    BY DEF Numbers
  <1>3. ASSUME NEW i \in 0..(k - 1), i \in Q
        PROVE  i + 1 \in Q
    <2>1. /\ i + 1 \in 1..CeilBytes /\ i + 1 \in 1..k /\ (i + 1) - 1 = i
          /\ i + 1 \in Nat
      BY <1>1
    <2>2. f[i + 1] = f[i] * Base + h[i + 1] /\ e[i + 1] = e[i] * Base + c[i + 1]
      BY <2>1 DEF Numbers
    <2> QED
      BY <1>3, <2>1, <2>2
  <1> HIDE DEF Q
  <1>4. 0..k \subseteq Q
    BY <1>1, <1>2, <1>3, AllNumbers
  <1>5. k \in 0..k
    BY <1>1
  <1> QED
    BY <1>4, <1>5 DEF Q

\* One step of the numbers: the first bytes that differ are the numbers' order.
LEMMA FirstByteDecides ==
  ASSUME NEW h, NEW c, NEW f, NEW e, Numbers(f, h), Numbers(e, c),
         NEW k \in 1..CeilBytes, \A i \in 1..(k - 1) : h[i] = c[i],
         \A i \in 1..CeilBytes : h[i] \in 0..(Base - 1) /\ c[i] \in 0..(Base - 1)
  PROVE  /\ h[k] < c[k] => f[CeilBytes] < e[CeilBytes]
         /\ c[k] < h[k] => e[CeilBytes] < f[CeilBytes]
  <1>1. CeilBytes \in Nat /\ k \in Nat /\ k - 1 \in 0..CeilBytes
          /\ Base \in Nat
    BY ByteConstants
  <1>2. f[k - 1] = e[k - 1]
    BY <1>1, NumbersAgree
  <1>3. f[k] = f[k - 1] * Base + h[k] /\ e[k] = e[k - 1] * Base + c[k]
    BY DEF Numbers
  <1>4. f[k - 1] \in Int
    BY <1>1 DEF Numbers
  <1> DEFINE x == f[k - 1] * Base
  <1>5. x \in Int
    BY <1>1, <1>4, SMTT(30)
  <1>6. f[k] = x + h[k] /\ e[k] = x + c[k]
    BY <1>2, <1>3
  <1>7. h[k] \in Int /\ c[k] \in Int
    BY <1>1
  <1> HIDE DEF x
  <1>8. h[k] < c[k] => f[k] < e[k]
    BY <1>5, <1>6, <1>7
  <1>9. c[k] < h[k] => e[k] < f[k]
    BY <1>5, <1>6, <1>7
  <1>10. h[k] < c[k] => f[CeilBytes] < e[CeilBytes]
    BY <1>8, NumbersInOrder
  <1>11. c[k] < h[k] => e[CeilBytes] < f[CeilBytes]
    BY <1>9, NumbersInOrder
  <1> QED
    BY <1>10, <1>11

\* check_hash by the first place at which digest and ceiling differ.
LEMMA CheckAtFirst ==
  ASSUME NEW h \in Digests, NEW c,
         NEW k \in 1..DigestBytes,
         (IF k <= Len(c) THEN c[k] ELSE Base - 1) # h[k],
         \A i \in 1..(k - 1) :
            (IF i <= Len(c) THEN c[i] ELSE Base - 1) = h[i]
  PROVE  check_hash(h, c) <=> (IF k <= Len(c) THEN c[k] ELSE Base - 1) > h[k]
  <1> DEFINE cb(i) == IF i <= Len(c) THEN c[i] ELSE Base - 1
             Differ == {i \in 1..DigestBytes : cb(i) # h[i]}
  <1>1. DigestBytes \in Nat /\ k \in Nat
    BY ByteConstants
  <1>2. check_hash(h, c) <=>
          \/ Differ = {}
          \/ \E i \in Differ : cb(i) > h[i] /\ \A j \in Differ : i <= j
    BY DEF check_hash
  <1>3. cb(k) # h[k] /\ \A i \in 1..(k - 1) : cb(i) = h[i]
    OBVIOUS
  <1> HIDE DEF cb
  <1>4. k \in Differ
    BY <1>3
  <1>5. \A j \in Differ : k <= j
    <2> SUFFICES ASSUME NEW j \in 1..DigestBytes, cb(j) # h[j], j < k
                 PROVE  FALSE
      BY <1>1
    <2>1. j \in 1..(k - 1)
      BY <1>1
    <2> QED
      BY <1>3, <2>1
  <1>6. \A i \in Differ : (\A j \in Differ : i <= j) => i = k
    <2> SUFFICES ASSUME NEW i \in Differ, \A j \in Differ : i <= j PROVE i = k
      OBVIOUS
    <2>1. i <= k /\ k <= i /\ i \in Nat
      BY <1>4, <1>5
    <2> QED
      BY <1>1, <2>1
  <1> HIDE DEF Differ
  <1>7. check_hash(h, c) <=> cb(k) > h[k]
    BY <1>2, <1>4, <1>5, <1>6, Zenon
  <1> QED
    BY <1>7 DEF cb

\* A digest that is the ceiling, and 0xff after it, passes.
LEMMA CheckNoDifference ==
  ASSUME NEW h \in Digests, NEW c,
         \A i \in 1..DigestBytes :
            (IF i <= Len(c) THEN c[i] ELSE Base - 1) = h[i]
  PROVE  check_hash(h, c)
  BY DEF check_hash

\* The first place at which a digest differs from what it is compared with.
LEMMA FirstDifference ==
  ASSUME NEW h, NEW c, NEW k \in 1..DigestBytes,
         (IF k <= Len(c) THEN c[k] ELSE Base - 1) # h[k]
  PROVE  \E m \in 1..DigestBytes :
            /\ (IF m <= Len(c) THEN c[m] ELSE Base - 1) # h[m]
            /\ \A i \in 1..(m - 1) :
                 (IF i <= Len(c) THEN c[i] ELSE Base - 1) = h[i]
  <1> DEFINE cb(i) == IF i <= Len(c) THEN c[i] ELSE Base - 1
             T == {i \in 1..DigestBytes : cb(i) # h[i]}
  <1>1. DigestBytes \in Nat /\ k \in T
    BY ByteConstants
  <1> HIDE DEF cb
  <1>2. PICK m \in T : \A j \in T : m <= j
    <2>1. T \subseteq Nat /\ T # {}
      BY <1>1
    <2> HIDE DEF T
    <2> QED
      BY <2>1, LeastNat
  <1>3. ASSUME NEW i \in 1..(m - 1)
        PROVE  cb(i) = h[i]
    <2>1. i \in 1..DigestBytes /\ ~(m <= i)
      BY <1>1, <1>2
    <2> QED
      BY <1>2, <2>1
  <1>4. m \in 1..DigestBytes /\ cb(m) # h[m]
    BY <1>2
  <1> QED
    BY <1>3, <1>4 DEF cb

\* The byte-wise comparison with a ceiling is the comparison of numbers.
LEMMA CheckIsNumeric ==
  ASSUME NEW h \in Digests, NEW d \in 0..MaxDifficulty
  PROVE  check_hash(h, hash_ceil(d)) <=> Leading(h) <= MaxDifficulty - d
  <1> DEFINE c == hash_ceil(d)
             n == CeilBytes
             cb(i) == IF i <= Len(c) THEN c[i] ELSE Base - 1
  <1>1. /\ n \in Nat /\ n < DigestBytes /\ DigestBytes \in Nat
        /\ Base \in Nat \ {0}
    BY ByteConstants
  <1>2. Len(c) = n /\ \A i \in 1..n : c[i] \in 0..(Base - 1)
    BY CeilBytesAre
  <1>3. \A i \in 1..DigestBytes : h[i] \in 0..(Base - 1)
    BY DEF Digests
  <1>4. \A i \in 1..n : i \in 1..DigestBytes
    BY <1>1
  <1>5. \A i \in 1..n : h[i] \in 0..(Base - 1) /\ c[i] \in 0..(Base - 1)
    BY <1>2, <1>3, <1>4
  <1>6. PICK f : Numbers(f, h) /\ Leading(h) = f[n]
    <2>1. \A i \in 1..n : h[i] \in Int
      BY <1>1, <1>5
    <2> QED
      BY <2>1, LeadingIs
  <1>7. PICK e : Numbers(e, c) /\ e[n] = MaxDifficulty - d
    BY CeilNumber
  <1>8. f[n] \in Int /\ e[n] \in Int /\ n \in 0..n
    BY <1>1, <1>6, <1>7 DEF Numbers
  <1> HIDE DEF c, n
  <1>9. CASE \A i \in 1..DigestBytes : cb(i) = h[i]
    <2>1. check_hash(h, c)
      BY <1>9, CheckNoDifference
    <2>2. \A i \in 1..n : h[i] = c[i]
      BY <1>1, <1>2, <1>4, <1>9
    <2>3. f[n] = e[n]
      BY <1>6, <1>7, <1>8, <2>2, NumbersAgree DEF n
    <2> QED
      BY <1>6, <1>7, <1>8, <2>1, <2>3 DEF c
  <1>10. CASE \E i \in 1..DigestBytes : cb(i) # h[i]
    <2>1. PICK m \in 1..DigestBytes :
              cb(m) # h[m] /\ \A i \in 1..(m - 1) : cb(i) = h[i]
      BY <1>10, FirstDifference
    <2>2. check_hash(h, c) <=> cb(m) > h[m]
      BY <2>1, CheckAtFirst
    <2>3. m \in Nat /\ h[m] \in 0..(Base - 1)
      BY <1>1, <1>3
    <2>4. CASE m <= n
      <3>1. m \in 1..n /\ \A i \in 1..(m - 1) : i \in 1..n
        BY <1>1, <2>3, <2>4
      <3>2. cb(m) = c[m] /\ \A i \in 1..(m - 1) : cb(i) = c[i]
        BY <1>1, <1>2, <2>4, <3>1
      <3>3. \A i \in 1..(m - 1) : h[i] = c[i]
        BY <2>1, <3>2
      <3>4. /\ h[m] < c[m] => f[n] < e[n]
            /\ c[m] < h[m] => e[n] < f[n]
        BY <1>5, <1>6, <1>7, <3>1, <3>3, FirstByteDecides DEF n
      <3>5. /\ h[m] \in Int /\ c[m] \in Int /\ c[m] # h[m]
            /\ check_hash(h, c) <=> c[m] > h[m]
        BY <1>1, <1>5, <2>1, <2>2, <3>1, <3>2
      <3>6. c[m] > h[m] <=> f[n] <= e[n]
        BY <1>8, <3>4, <3>5
      <3> QED
        BY <1>6, <1>7, <3>5, <3>6 DEF c
    <2>5. CASE m > n
      <3>1. cb(m) = Base - 1
        BY <1>1, <1>2, <2>3, <2>5
      <3>2. cb(m) > h[m]
        BY <1>1, <2>1, <2>3, <3>1
      <3>3. \A i \in 1..n : i \in 1..(m - 1) /\ cb(i) = c[i]
        BY <1>1, <1>2, <2>3, <2>5
      <3>4. \A i \in 1..n : h[i] = c[i]
        BY <2>1, <3>3
      <3>5. f[n] = e[n]
        BY <1>6, <1>7, <1>8, <3>4, NumbersAgree DEF n
      <3> QED
        BY <1>6, <1>7, <1>8, <2>2, <3>2, <3>5 DEF c
    <2> QED
      BY <1>1, <2>3, <2>4, <2>5
  <1> QED
    BY <1>9, <1>10

\* Without a job every digest passes.
LEMMA NoJobPasses ==
  ASSUME NEW h \in Digests
  PROVE  check_hash(h, hash_ceil(NoDifficulty))
  <1> DEFINE cb(i) == IF i <= Len(<<>>) THEN <<>>[i] ELSE Base - 1
  <1>1. hash_ceil(NoDifficulty) = <<>>
    BY DEF hash_ceil
  <1>2. DigestBytes \in Nat /\ Base \in Nat \ {0}
    BY ByteConstants
  <1>3. ASSUME NEW i \in 1..DigestBytes
        PROVE  cb(i) = Base - 1 /\ h[i] \in 0..(Base - 1)
    BY <1>2 DEF Digests
  <1> HIDE DEF cb
  <1>4. CASE \A i \in 1..DigestBytes : cb(i) = h[i]
    BY <1>1, <1>4, CheckNoDifference DEF cb
  <1>5. CASE \E i \in 1..DigestBytes : cb(i) # h[i]
    <2>1. PICK m \in 1..DigestBytes :
              cb(m) # h[m] /\ \A i \in 1..(m - 1) : cb(i) = h[i]
      BY <1>5, FirstDifference DEF cb
    <2>2. check_hash(h, <<>>) <=> cb(m) > h[m]
      BY <2>1, CheckAtFirst DEF cb
    <2>3. cb(m) > h[m]
      BY <1>2, <1>3, <2>1
    <2> QED
      BY <1>1, <2>2, <2>3
  <1> QED
    BY <1>4, <1>5

\* A nonce is among the results as its digest and the ceiling of its job say.
Encoded ==
    stage = "encoded" =>
        /\ hash \in Digests
        /\ difficulty \in 0..MaxDifficulty \cup {NoDifficulty}
        /\ accepted = check_hash(hash, hash_ceil(difficulty))

\* For any number of values of a byte and any number of bytes: the bytes
\* calc_hash_ceil writes and the comparison of __check_hash amount to the
\* comparison of the first bytes of the digest, as a number, with the
\* complement of the difficulty.
THEOREM CeilingTheorem == HashSpec => []CeilingIsNumeric
  <1>1. HashInit => Encoded
    BY DEF HashInit, Encoded
  <1>2. Encoded /\ [HashNext]_allVars => Encoded'
    <2> SUFFICES ASSUME Encoded, [HashNext]_allVars PROVE Encoded'
      OBVIOUS
    <2>1. CASE encode_hashes
      BY <2>1 DEF encode_hashes, Encoded
    <2>2. CASE initial_hash \/ fill_first_blocks \/ fill
      <3>1. stage # "encoded" /\ stage' = stage
        BY <2>2 DEF initial_hash, fill_first_blocks, fill, hashVars
      <3> QED
        BY <3>1 DEF Encoded
    <2>3. CASE initial_hash_end \/ first_blocks_end \/ Fail
      <3>1. stage' # "encoded"
        BY <2>3 DEF initial_hash_end, first_blocks_end, Fail
      <3> QED
        BY <3>1 DEF Encoded
    <2>4. CASE Returned \/ UNCHANGED allVars
      <3>1. UNCHANGED hashVars
        BY <2>4 DEF Returned, allVars
      <3> QED
        BY <3>1 DEF hashVars, Encoded
    <2> QED
      BY <2>1, <2>2, <2>3, <2>4 DEF HashNext
  <1>3. Encoded => CeilingIsNumeric
    <2> SUFFICES ASSUME Encoded, stage = "encoded"
                 PROVE  accepted <=> \/ difficulty = NoDifficulty
                                     \/ Leading(hash) <= MaxDifficulty - difficulty
      BY DEF CeilingIsNumeric
    <2>1. hash \in Digests /\ accepted = check_hash(hash, hash_ceil(difficulty))
      BY DEF Encoded
    <2>2. CASE difficulty = NoDifficulty
      <3>1. check_hash(hash, hash_ceil(difficulty))
        BY <2>1, <2>2, NoJobPasses
      <3> QED
        BY <2>1, <2>2, <3>1
    <2>3. CASE difficulty \in 0..MaxDifficulty
      <3>1. difficulty # NoDifficulty
        BY <2>3, MaxDifficultyIs DEF NoDifficulty
      <3>2. check_hash(hash, hash_ceil(difficulty))
              <=> Leading(hash) <= MaxDifficulty - difficulty
        BY <2>1, <2>3, CheckIsNumeric
      <3> QED
        BY <2>1, <3>1, <3>2, Zenon
    <2> QED
      BY <2>2, <2>3 DEF Encoded
  <1> QED
    BY <1>1, <1>2, <1>3, PTL DEF HashSpec
=============================================================================
