SPECIFICATION Spec
CONSTANTS
    h1 = h1  w1 = w1  w2 = w2  n1 = n1  n2 = n2
    c1 = c1  c2 = c2  s1 = s1  s2 = s2
    Hashers = {h1}
    Workers = {w1, w2}
    HasherOf <- OneHasher
    Nonces = {n1}
    Checksums = {c1, c2}
    NoChecksum = NoChecksum
    Solvers = {s1, s2}
    NoSolver = NoSolver
    Main = Main
    Free = Free
    MaxDifficulty = 3
    PoolJobs <- TwoBlocks
    ThresholdHits = 1
SYMMETRY Interchangeable
INVARIANTS
    TypeOK
    WorkIsOneJob
    NoShareLost
    SubmittedOnce
    SentForItsBlock
    InputsFollowMiner
    NoThreadOutlivesModule
PROPERTIES
    ImplementsLedger
    NoNewWorkWhilePaused
