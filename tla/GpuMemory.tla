------------------------------ MODULE GpuMemory ------------------------------
(***************************************************************************)
(* How many hashes a device computes at once and where their memory is:    *)
(* __setup_device_info of opencl_hasher.cpp, the same in cuda_hasher.cpp   *)
(* with cuda_allocate of cuda_kernel.cu, and the addresses the kernel      *)
(* fill_blocks computes.  The memory of all hashes does not fit one        *)
(* buffer, so six chunks are allocated, each as large as is left of it.    *)
(*                                                                         *)
(* The code computes with double.  Its counter, a number of hashes divided *)
(* by those of a chunk, is written here as the number of hashes: the       *)
(* comparisons of the quotient with 0 and 1 and its decrements are exact.  *)
(* Where a quotient is multiplied again the product may come out a little  *)
(* above or below the integer it stands for, which is a choice here.       *)
(***************************************************************************)
EXTENDS Integers, FiniteSets

CONSTANTS
    MemSize,        \* profile->memsize: bytes one hash needs
    MaxInt,         \* the largest int of a kernel, 2^31 - 1
    Mems,           \* memory of a device, max_mem_size or free_mem_size
    MaxAllocs,      \* the largest buffer, max_allocable_mem_size
    Intensities     \* in percent, whole ones

ASSUME MemoryAssumption ==
    /\ MemSize \in Nat \ {0}
    /\ MemSize % 16 = 0
    /\ MaxInt \in Nat
    /\ Mems \subseteq Nat
    /\ MaxAllocs \subseteq Nat
    /\ Intensities \subseteq 0..100

VARIABLES
    pc,
    device,             \* what was asked of the device
    threads_per_chunk,
    threads,            \* profile_info.threads
    left,               \* counter, in hashes: what chunks so far do not hold
    chunk,              \* number of the chunk to allocate next
    size                \* bytes of each memory_chunk_*

vars == <<pc, device, threads_per_chunk, threads, left, chunk, size>>

Chunks == 0..5

\* The count of hashes is a multiple of 4 in OpenCL, of 2 in CUDA.
Steps == {2, 4}

\* OpenCL promises that a buffer may be at least a quarter of the memory.  If
\* no hash fits a buffer the set-up ends with an error.
OpenclAnswers ==
    {a \in [mem : Mems, max_alloc : MaxAllocs, intensity : Intensities,
            step : {4}] :
        /\ a.max_alloc <= a.mem
        /\ a.mem \div 4 <= a.max_alloc
        /\ MemSize <= a.max_alloc}

\* cuda_hasher takes a quarter.
CudaAnswers ==
    {a \in [mem : Mems, max_alloc : {m \div 4 : m \in Mems},
            intensity : Intensities, step : {2}] :
        /\ a.max_alloc = a.mem \div 4
        /\ MemSize <= a.max_alloc}

Answers == OpenclAnswers \cup CudaAnswers

\* __get_device_info.
Init ==
    /\ pc = "size"
    /\ device \in Answers
    /\ threads_per_chunk = 0
    /\ threads = 0
    /\ left = 0
    /\ chunk = 0
    /\ size = [c \in Chunks |-> 0]

\* Fault: not rounded to a multiple.
thread_count_odd(max_threads, intensity, step) ==
    LET t == (max_threads * intensity) \div 100
    IN  IF t = 0 /\ intensity > 0 THEN step ELSE t

\* profile_info.threads of max_threads and the intensity.
thread_count(max_threads, intensity, step) ==
    LET t == (((max_threads * intensity) \div 100) \div step) * step
    IN  IF t = 0 /\ intensity > 0 THEN step ELSE t

\* max_threads: the hashes that fit a memory, by way of the chunks that fit it,
\* or one less if they fit exactly and the product of doubles falls short.
max_threads(mem, per_chunk) ==
    LET most == mem \div MemSize
    IN  {most} \cup {m \in {most - 1} : mem = most * MemSize /\ most > per_chunk}

\* The counts, before the first chunk.
setup_size ==
    /\ pc = "size"
    /\ threads_per_chunk' = device.max_alloc \div MemSize
    /\ \E max \in max_threads(device.mem, threads_per_chunk') :
          threads' = thread_count(max, device.intensity, device.step)
    /\ left' = threads'
    /\ pc' = "chunks"
    /\ UNCHANGED <<device, chunk, size>>

\* What the product chunk_size * counter may come out as: the bytes of n
\* hashes, a little more or a little less.
Errors == {-1, 0, 1}

\* Fault: floor instead of ceil.
chunk_bytes_short(n, err) ==
    IF n <= 0 THEN 1
    ELSE IF n >= threads_per_chunk THEN threads_per_chunk * MemSize
    ELSE n * MemSize - (IF err < 0 THEN 1 ELSE 0)

\* allocated_mem_for_current_chunk when n hashes are left: a whole chunk, or
\* the product with an error err of its rounding, of which ceil makes nothing
\* or one byte.
chunk_bytes(n, err) ==
    IF n <= 0 THEN 1
    ELSE IF n >= threads_per_chunk THEN threads_per_chunk * MemSize
    ELSE n * MemSize + (IF err > 0 THEN 1 ELSE 0)

\* One of the six pieces of code that allocate a chunk.
setup_chunk ==
    /\ pc = "chunks"
    /\ \E err \in Errors :
          size' = [size EXCEPT ![chunk] = chunk_bytes(left, err)]
    /\ left' = IF left > 0 THEN left - threads_per_chunk ELSE left
    /\ chunk' = chunk + 1
    /\ pc' = IF chunk = 5 THEN "done" ELSE "chunks"
    /\ UNCHANGED <<device, threads_per_chunk, threads>>

Next == setup_size \/ setup_chunk \/ (pc = "done" /\ UNCHANGED vars)

Spec == Init /\ [][Next]_vars

\* fill_blocks: chunk_index and chunk_offset of a hash.
chunk_index(hash) == hash \div threads_per_chunk
chunk_offset(hash) == hash - chunk_index(hash) * threads_per_chunk

\* The bytes of what a kernel counts in: ulong with OpenCL, uint4 with CUDA.
Unit == IF device.step = 4 THEN 8 ELSE 16

\* A product of natural numbers in an int: if it does not fit, that depends on
\* the compiler, which may also compute in a wider register.
IntProduct(a, b) ==
    IF a * b <= MaxInt THEN {a * b}
    ELSE {a * b, ((a * b + MaxInt + 1) % (2 * (MaxInt + 1))) - (MaxInt + 1)}

\* Where the memory of a hash begins in its chunk, in units.
memory(hash) == IntProduct(chunk_offset(hash), MemSize \div Unit)

\* CUDA: hashes of each of the two threads, and the hashes its buffers hold.
second_half == threads - threads \div 2
buffer_hashes == threads \div 2

-----------------------------------------------------------------------------
\* The memory of every hash the kernel will compute lies in a chunk that was
\* allocated, whatever the memory, the intensity and the rounding of doubles:
\* six chunks are enough, the last one is large enough, and the address that
\* the kernel computes in an int is right for every buffer limit up to 16 GB
\* with OpenCL and 32 GB with CUDA.  In a larger buffer the product overflows.
EveryHashHasMemory ==
    pc = "done" =>
        \A hash \in 0..(threads - 1) :
            /\ chunk_index(hash) \in Chunks
            /\ device.max_alloc <= (MaxInt + 1) * Unit =>
                 \A begin \in memory(hash) :
                    /\ 0 <= begin
                    /\ begin * Unit + MemSize <= size[chunk_index(hash)]

\* With PARALLEL_CUDA the buffers of a thread hold the hashes of its half.
HalvesFit == second_half <= buffer_hashes
=============================================================================
