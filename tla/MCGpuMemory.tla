----------------------------- MODULE MCGpuMemory -----------------------------
(* Instances of GpuMemory for TLC: sizes around the multiples of MemSize,    *)
(* from one hash to buffers of more than (MaxInt + 1) units.                 *)
EXTENDS GpuMemory

Around(counts) == {n * MemSize + e : n \in counts, e \in {-1, 0, 1}}

SomeMemory == Around({1, 2, 3, 5, 7, 8, 11, 13, 16, 19, 23, 29, 31, 32, 37, 40})
SomeLimits == Around(1..9)
SomeIntensities == {0, 1, 10, 34, 50, 99, 100}
=============================================================================
