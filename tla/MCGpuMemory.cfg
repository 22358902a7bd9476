SPECIFICATION Spec
CONSTANTS
    MemSize = 16
    MaxInt = 7
    Mems <- SomeMemory
    MaxAllocs <- SomeLimits
    Intensities <- SomeIntensities
INVARIANTS
    EveryHashHasMemory
    HalvesFit
