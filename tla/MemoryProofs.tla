---------------------------- MODULE MemoryProofs ----------------------------
(***************************************************************************)
(* Theorems about module GpuMemory, for every size of a hash, of a         *)
(* device's memory and of its largest buffer, and for every intensity.     *)
(***************************************************************************)
EXTENDS GpuMemory, TLAPS

USE MemoryAssumption

-----------------------------------------------------------------------------
(* Arithmetic.                                                             *)

\* The quotient is the largest multiple that fits.
LEMMA Quotient ==
  ASSUME NEW n \in Nat, NEW m \in Nat \ {0}
  PROVE  /\ n \div m \in Nat
         /\ m * (n \div m) <= n
         /\ n < m * (n \div m) + m
  BY SMTT(30)

\* Factors can be compared instead of products.
LEMMA FactorOrder ==
  ASSUME NEW m \in Nat \ {0}, NEW a \in Int, NEW b \in Int, m * a < m * b
  PROVE  a < b
  <1>1. SUFFICES ASSUME b <= a PROVE FALSE
    OBVIOUS
  <1>2. m * b <= m * a
    BY <1>1, SMTT(30)
  <1> QED
    BY <1>2

\* Multiplication by a natural number keeps the order.
LEMMA ProductOrder ==
  ASSUME NEW m \in Nat, NEW a \in Int, NEW b \in Int, a <= b
  PROVE  a * m <= b * m
  BY SMTT(30)

-----------------------------------------------------------------------------
(* The number of hashes.                                                   *)

\* The counts and sizes that are asked of a device are numbers.
LEMMA AnswerTypes ==
  ASSUME NEW a \in Answers
  PROVE  /\ a.mem \in Nat
         /\ a.max_alloc \in Nat
         /\ a.intensity \in 0..100
         /\ a.step \in Steps
         /\ a.mem \div 4 <= a.max_alloc
         /\ MemSize <= a.max_alloc
  <1>1. CASE a \in OpenclAnswers
    BY <1>1 DEF OpenclAnswers, Steps
  <1>2. CASE a \in CudaAnswers
    <2>1. /\ a.mem \in Mems
          /\ a.intensity \in Intensities
          /\ a.step = 2
          /\ a.max_alloc = a.mem \div 4
          /\ MemSize <= a.max_alloc
      BY <1>2 DEF CudaAnswers
    <2>2. a.mem \in Nat /\ a.intensity \in 0..100
      BY <2>1
    <2> QED
      BY <2>1, <2>2 DEF Steps
  <1> QED
    BY <1>1, <1>2 DEF Answers

\* The count of hashes is even, and no more than fit the memory, but for the
\* least count the code allows.
LEMMA CountOfHashes ==
  ASSUME NEW max \in Nat, NEW intensity \in 0..100, NEW step \in Steps
  PROVE  /\ thread_count(max, intensity, step) \in Nat
         /\ thread_count(max, intensity, step) % 2 = 0
         /\ \/ thread_count(max, intensity, step) <= max
            \/ thread_count(max, intensity, step) <= 4
  <1> DEFINE share == (max * intensity) \div 100
  <1>1. share \in Nat /\ share <= max
    <2>1. max * intensity \in Nat /\ max * intensity <= max * 100
      BY SMTT(30)
    <2> DEFINE p == max * intensity
    <2>2. p \in Nat /\ p <= max * 100
      BY <2>1
    <2> HIDE DEF p
    <2>3. p \div 100 \in Nat /\ p \div 100 <= max
      BY <2>2
    <2> QED
      BY <2>3 DEF p
  <1>2. thread_count(max, intensity, step) =
          IF (share \div step) * step = 0 /\ intensity > 0 THEN step
          ELSE (share \div step) * step
    BY DEF thread_count
  <1> HIDE DEF share
  <1>3. CASE step = 2
    BY <1>1, <1>2, <1>3
  <1>4. CASE step = 4
    BY <1>1, <1>2, <1>4
  <1> QED
    BY <1>3, <1>4 DEF Steps

\* Six chunks are enough, for an even count of hashes that fit the memory: a
\* buffer may be a quarter of it and holds a hash at least.
LEMMA SixChunks ==
  ASSUME NEW a \in Answers
  PROVE  /\ a.max_alloc \div MemSize \in Nat
         /\ a.max_alloc \div MemSize >= 1
         /\ a.mem \div MemSize < 4 * (a.max_alloc \div MemSize) + 4
  <1> DEFINE t == a.max_alloc \div MemSize
             k == a.mem \div MemSize
  <1>1. /\ a.mem \in Nat /\ a.max_alloc \in Nat
        /\ a.mem \div 4 <= a.max_alloc
        /\ MemSize <= a.max_alloc
    BY AnswerTypes
  <1>2. t \in Nat /\ a.max_alloc < MemSize * t + MemSize
    BY <1>1, Quotient
  <1>3. k \in Nat /\ MemSize * k <= a.mem
    BY <1>1, Quotient
  <1>4. a.mem <= 4 * a.max_alloc + 3
    BY <1>1
  <1> HIDE DEF t, k
  <1>5. t >= 1
    <2>1. MemSize * 1 < MemSize * t + MemSize
      BY <1>1, <1>2
    <2>2. MemSize * t + MemSize = MemSize * (t + 1)
      BY <1>2, SMTT(30)
    <2>3. 1 < t + 1
      BY <1>2, <2>1, <2>2, FactorOrder
    <2> QED
      BY <1>2, <2>3
  <1>6. k < 4 * t + 4
    <2> DEFINE mt == MemSize * t
    <2>1. mt \in Nat /\ a.max_alloc < mt + MemSize
      BY <1>2, SMTT(30)
    <2>2. MemSize * (4 * t + 4) = 4 * mt + 4 * MemSize
      BY <1>2, SMTT(30)
    <2> HIDE DEF mt
    <2>3. a.mem < 4 * mt + 4 * MemSize
      BY <1>1, <1>4, <2>1
    <2>4. MemSize * k < MemSize * (4 * t + 4)
      <3> DEFINE mk == MemSize * k
      <3>1. mk \in Nat /\ mk <= a.mem
        BY <1>3, SMTT(30)
      <3> HIDE DEF mk
      <3>2. mk < 4 * mt + 4 * MemSize
        BY <1>1, <2>1, <2>3, <3>1
      <3> QED
        BY <2>2, <3>2 DEF mk
    <2> QED
      BY <1>2, <1>3, <2>4, FactorOrder
  <1> QED
    BY <1>2, <1>5, <1>6 DEF t, k

-----------------------------------------------------------------------------
(* The inductive invariant.                                                *)

MemoryTypes ==
    /\ pc \in {"size", "chunks", "done"}
    /\ device \in Answers
    /\ threads_per_chunk \in Nat
    /\ threads \in Nat
    /\ left \in Int
    /\ chunk \in 0..6
    /\ size \in [Chunks -> Nat]

\* The count of hashes is even and six chunks are enough for it.
CountFits ==
    /\ threads % 2 = 0
    /\ pc = "size" => chunk = 0
    /\ pc = "chunks" => chunk < 6
    /\ pc = "done" => chunk = 6
    /\ pc # "size" => /\ threads_per_chunk = device.max_alloc \div MemSize
                      /\ threads_per_chunk >= 1
                      /\ threads <= 6 * threads_per_chunk

\* left is what the chunks so far do not hold.
LeftOver ==
    pc # "size" =>
        IF left > 0 THEN left = threads - chunk * threads_per_chunk
                    ELSE threads <= chunk * threads_per_chunk

\* A chunk holds the hashes that fall to it: all that are left when it is
\* reached, or as many as fit a buffer.
ChunkHolds(c) ==
    \A n \in Nat :
        n <= threads_per_chunk /\ n <= threads - c * threads_per_chunk
            => n * MemSize <= size[c]

ChunksHold == pc # "size" => \A c \in Chunks : c < chunk => ChunkHolds(c)

MemoryInv == MemoryTypes /\ CountFits /\ LeftOver /\ ChunksHold

-----------------------------------------------------------------------------

\* The computation of the counts keeps MemoryInv.
LEMMA SizeKeeps ==
  ASSUME MemoryInv, setup_size
  PROVE  MemoryInv'
  <1> DEFINE t == device.max_alloc \div MemSize
             most == device.mem \div MemSize
  <1>1. device \in Answers /\ pc = "size" /\ chunk = 0
    BY DEF MemoryInv, MemoryTypes, CountFits, setup_size
  <1>2. t \in Nat /\ t >= 1 /\ most < 4 * t + 4
    BY <1>1, SixChunks
  <1>3. most \in Nat
    BY <1>1, AnswerTypes, Quotient
  <1>4. device.intensity \in 0..100 /\ device.step \in Steps
    BY <1>1, AnswerTypes
  <1>5. PICK max \in max_threads(device.mem, t) :
          threads' = thread_count(max, device.intensity, device.step)
    BY DEF setup_size
  <1>6. max \in Nat /\ max <= most
    <2>1. max = most \/ (max = most - 1 /\ most > t)
      BY <1>5 DEF max_threads
    <2> HIDE DEF t, most
    <2> QED
      BY <1>2, <1>3, <2>1
  <1>7. /\ threads_per_chunk' = t /\ left' = threads'
        /\ pc' = "chunks" /\ UNCHANGED <<device, chunk, size>>
    BY DEF setup_size
  <1> DEFINE n == thread_count(max, device.intensity, device.step)
  <1>8. n \in Nat /\ n % 2 = 0 /\ (n <= max \/ n <= 4)
    BY <1>4, <1>6, CountOfHashes
  <1>9. threads' = n
    BY <1>5
  <1> HIDE DEF n, most
  <1>10. t' = t
    BY <1>7
  <1>11. t = device.max_alloc \div MemSize
    OBVIOUS
  <1> HIDE DEF t
  <1>12. n <= 6 * t
    BY <1>2, <1>3, <1>6, <1>8
  <1>13. MemoryTypes'
    BY <1>2, <1>7, <1>8, <1>9 DEF MemoryInv, MemoryTypes
  <1>14. CountFits' /\ LeftOver'
    BY <1>1, <1>2, <1>7, <1>8, <1>9, <1>11, <1>12 DEF CountFits, LeftOver
  <1>15. ChunksHold'
    BY <1>1, <1>7 DEF ChunksHold, Chunks
  <1> QED
    BY <1>13, <1>14, <1>15 DEF MemoryInv

\* So does the allocation of a chunk.
LEMMA ChunkKeeps ==
  ASSUME MemoryInv, setup_chunk
  PROVE  MemoryInv'
  <1> DEFINE t == threads_per_chunk
             held == chunk * t
  <1>1. /\ pc = "chunks" /\ chunk \in Chunks /\ chunk \in Nat
        /\ t \in Nat /\ t >= 1 /\ threads \in Nat /\ left \in Int
        /\ size \in [Chunks -> Nat]
    BY DEF setup_chunk, MemoryInv, MemoryTypes, CountFits, Chunks
  <1>a. PICK err \in Errors :
          size' = [size EXCEPT ![chunk] = chunk_bytes(left, err)]
    BY DEF setup_chunk
  <1>2. /\ size' = [size EXCEPT ![chunk] = chunk_bytes(left, err)]
        /\ left' = IF left > 0 THEN left - t ELSE left
        /\ chunk' = chunk + 1
        /\ pc' = IF chunk = 5 THEN "done" ELSE "chunks"
        /\ UNCHANGED <<device, threads_per_chunk, threads>>
    BY <1>a DEF setup_chunk
  <1>3. chunk_bytes(left, err) \in Nat
    <2>1. t * MemSize \in Nat
      BY <1>1, SMTT(30)
    <2>2. left > 0 => left * MemSize \in Nat
      BY <1>1, SMTT(30)
    <2> QED
      BY <1>1, <2>1, <2>2 DEF chunk_bytes
  <1>4. held \in Nat /\ (chunk + 1) * t = held + t
    BY <1>1, SMTT(30)
  <1>5. IF left > 0 THEN left = threads - held ELSE threads <= held
    BY <1>1 DEF MemoryInv, LeftOver
  <1>6. MemoryTypes'
    BY <1>1, <1>2, <1>3 DEF MemoryInv, MemoryTypes, Chunks
  <1>7. CountFits'
    BY <1>1, <1>2 DEF MemoryInv, CountFits, Chunks
  <1>8. LeftOver'
    <2>1. chunk' * threads_per_chunk' = held + t
      BY <1>2, <1>4
    <2> HIDE DEF held
    <2>2. IF left' > 0 THEN left' = threads' - (held + t)
                       ELSE threads' <= held + t
      BY <1>1, <1>2, <1>4, <1>5
    <2> QED
      BY <2>1, <2>2 DEF LeftOver
  <1>9. ASSUME NEW c \in Chunks, c < chunk'
        PROVE  ChunkHolds(c)'
    <2>1. CASE c = chunk
      <3> SUFFICES ASSUME NEW n \in Nat, n <= t, n <= threads - held
                   PROVE  n * MemSize <= chunk_bytes(left, err)
        BY <1>1, <1>2, <2>1 DEF ChunkHolds
      <3> HIDE DEF held
      <3>1. CASE left <= 0
        BY <1>1, <1>4, <1>5, <3>1 DEF chunk_bytes
      <3>2. CASE left >= t
        BY <1>1, <3>2, ProductOrder DEF chunk_bytes
      <3>3. CASE left > 0 /\ left < t
        <4>1. n <= left
          BY <1>1, <1>4, <1>5, <3>3
        <4>2. n * MemSize <= left * MemSize /\ left * MemSize \in Nat
          BY <1>1, <3>3, <4>1, ProductOrder, SMTT(30)
        <4>3. n * MemSize \in Nat
          BY SMTT(30)
        <4> QED
          BY <1>1, <3>3, <4>2, <4>3 DEF chunk_bytes
      <3> QED
        BY <1>1, <3>1, <3>2, <3>3
    <2>2. CASE c # chunk
      <3>1. c < chunk /\ size'[c] = size[c]
        BY <1>1, <1>2, <1>9, <2>2 DEF Chunks
      <3>2. ChunkHolds(c)
        BY <1>1, <3>1 DEF MemoryInv, ChunksHold
      <3> QED
        BY <1>2, <3>1, <3>2 DEF ChunkHolds
    <2> QED
      BY <2>1, <2>2
  <1>10. ChunksHold'
    BY <1>9 DEF ChunksHold
  <1> QED
    BY <1>6, <1>7, <1>8, <1>10 DEF MemoryInv

\* MemoryInv is inductive.
LEMMA MemoryInvariant == Spec => []MemoryInv
  <1>1. Init => MemoryInv
    BY DEF Init, MemoryInv, MemoryTypes, CountFits, LeftOver, ChunksHold
  <1>2. MemoryInv /\ [Next]_vars => MemoryInv'
    <2> SUFFICES ASSUME MemoryInv, [Next]_vars
                 PROVE  MemoryInv'
      OBVIOUS
    <2>1. CASE UNCHANGED vars
      BY <2>1 DEF vars, MemoryInv, MemoryTypes, CountFits, LeftOver,
                  ChunksHold, ChunkHolds
    <2>2. CASE setup_size
      BY <2>2, SizeKeeps
    <2>3. CASE setup_chunk
      BY <2>3, ChunkKeeps
    <2> QED
      BY <2>1, <2>2, <2>3 DEF Next
  <1> QED
    BY <1>1, <1>2, PTL DEF Spec

-----------------------------------------------------------------------------
(* Theorems.                                                               *)

\* The product of an offset and the units of a hash fits an int if the
\* buffer is no larger than an int can address.
LEMMA ProductFits ==
  ASSUME NEW unit \in {8, 16}, NEW offset \in Nat, NEW t \in Nat,
         NEW alloc \in Nat, offset < t, t = alloc \div MemSize,
         alloc <= (MaxInt + 1) * unit
  PROVE  /\ IntProduct(offset, MemSize \div unit) = {offset * (MemSize \div unit)}
         /\ offset * (MemSize \div unit) \in Nat
         /\ (offset * (MemSize \div unit)) * unit = offset * MemSize
  <1> DEFINE q == MemSize \div unit
             p == offset * q
             m == (offset + 1) * MemSize
  <1>1. q \in Nat \ {0} /\ q * unit = MemSize
    <2>1. CASE unit = 8
      BY <2>1
    <2>2. CASE unit = 16
      BY <2>2
    <2> QED
      BY <2>1, <2>2
  <1> HIDE DEF q
  <1>2. p \in Nat
    BY <1>1, SMTT(30)
  <1>3. p * unit = offset * MemSize
    <2>1. p * unit = offset * (q * unit)
      <3>1. CASE unit = 8
        BY <1>1, <3>1, SMTT(30)
      <3>2. CASE unit = 16
        BY <1>1, <3>2, SMTT(30)
      <3> QED
        BY <3>1, <3>2
    <2> QED
      BY <1>1, <2>1
  <1>4. offset * MemSize + MemSize <= alloc
    <2>1. MemSize * t <= alloc
      BY Quotient
    <2>2. (offset + 1) * MemSize <= t * MemSize
      BY ProductOrder
    <2>3. t * MemSize = MemSize * t
      BY SMTT(30)
    <2>4. (offset + 1) * MemSize = offset * MemSize + MemSize
      BY SMTT(30)
    <2>5. offset * MemSize \in Nat /\ MemSize * t \in Nat
      BY SMTT(30)
    <2> QED
      BY <2>1, <2>2, <2>3, <2>4, <2>5
  <1>5. p * unit + unit <= (MaxInt + 1) * unit
    <2>1. unit <= MemSize
      BY <1>1, MemoryAssumption
    <2>2. offset * MemSize \in Nat
      BY SMTT(30)
    <2> HIDE DEF p
    <2> QED
      BY <1>2, <1>3, <1>4, <2>1, <2>2
  <1>6. p <= MaxInt
    <2> HIDE DEF p
    <2>1. CASE unit = 8
      BY <1>2, <1>5, <2>1
    <2>2. CASE unit = 16
      BY <1>2, <1>5, <2>2
    <2> QED
      BY <2>1, <2>2
  <1> QED
    BY <1>2, <1>3, <1>6 DEF IntProduct, q

\* Every hash the kernel computes has its memory in a chunk that was
\* allocated, for all devices and intensities, and finds it where the buffers
\* are no larger than an int can address.
THEOREM MemoryForEveryHash == Spec => []EveryHashHasMemory
  <1>1. MemoryInv => EveryHashHasMemory
    <2> SUFFICES ASSUME MemoryInv, pc = "done", NEW hash \in 0..(threads - 1)
                 PROVE  /\ chunk_index(hash) \in Chunks
                        /\ device.max_alloc <= (MaxInt + 1) * Unit =>
                             \A begin \in memory(hash) :
                                /\ 0 <= begin
                                /\ begin * Unit + MemSize
                                     <= size[chunk_index(hash)]
      BY DEF EveryHashHasMemory
    <2> DEFINE t == threads_per_chunk
               k == hash \div t
               kt == k * t
               offset == hash - kt
    <2>1. /\ t \in Nat \ {0} /\ threads \in Nat /\ threads <= 6 * t
          /\ hash \in Nat /\ hash < threads
          /\ t = device.max_alloc \div MemSize
          /\ device.max_alloc \in Nat
      BY AnswerTypes DEF MemoryInv, MemoryTypes, CountFits
    <2>2. k \in Nat /\ t * k <= hash /\ hash < t * k + t
      BY <2>1, Quotient
    <2>3. kt \in Nat /\ kt <= hash /\ hash < kt + t
      <3>1. kt = t * k
        BY <2>1, <2>2, SMTT(30)
      <3> QED
        BY <2>1, <2>2, <3>1
    <2>4. k < 6
      <3>1. t * k < t * 6
        BY <2>1, <2>2
      <3> QED
        BY <2>1, <2>2, <3>1, FactorOrder
    <2>5. chunk_index(hash) = k /\ chunk_offset(hash) = offset
      BY DEF chunk_index, chunk_offset
    <2>6. k \in Chunks /\ ChunkHolds(k)
      BY <2>2, <2>4 DEF Chunks, MemoryInv, ChunksHold, CountFits
    <2> HIDE DEF k, kt
    <2>7. /\ offset \in Nat
          /\ offset < t
          /\ offset + 1 <= threads - kt
      BY <2>1, <2>3
    <2>8. (offset + 1) * MemSize <= size[k]
      <3>1. offset + 1 \in Nat /\ offset + 1 <= t
        BY <2>1, <2>7
      <3> QED
        BY <2>6, <2>7, <3>1 DEF ChunkHolds, kt
    <2> HIDE DEF offset
    <2>9. ASSUME device.max_alloc <= (MaxInt + 1) * Unit,
                 NEW begin \in memory(hash)
          PROVE  0 <= begin /\ begin * Unit + MemSize <= size[k]
      <3>1. Unit \in {8, 16}
        BY DEF Unit
      <3>2. begin \in IntProduct(offset, MemSize \div Unit)
        BY <2>5, <2>9 DEF memory
      <3> HIDE DEF t
      <3>3. /\ IntProduct(offset, MemSize \div Unit)
                  = {offset * (MemSize \div Unit)}
            /\ offset * (MemSize \div Unit) \in Nat
            /\ (offset * (MemSize \div Unit)) * Unit = offset * MemSize
        BY <2>1, <2>7, <2>9, <3>1, ProductFits
      <3>4. begin = offset * (MemSize \div Unit)
        BY <3>2, <3>3, Zenon
      <3>5. (offset + 1) * MemSize = offset * MemSize + MemSize
        BY <2>7, SMTT(30)
      <3> QED
        BY <2>7, <2>8, <3>3, <3>4, <3>5
    <2> QED
      BY <2>5, <2>6, <2>9
  <1> QED
    BY <1>1, MemoryInvariant, PTL

\* Both halves of the hashes fit the buffers of their threads.
THEOREM HalvesTheorem == Spec => []HalvesFit
  <1>1. MemoryInv => HalvesFit
    BY DEF MemoryInv, MemoryTypes, CountFits, HalvesFit, second_half,
           buffer_hashes
  <1> QED
    BY <1>1, MemoryInvariant, PTL
=============================================================================
