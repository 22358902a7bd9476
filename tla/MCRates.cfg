SPECIFICATION Spec
CONSTANTS
    Devices = {d1, d2}
    Window = 3
    Rounds = 1
    Batches = {0, 3}
    Threshold = 1
    ThresholdHits = 2
    ReportInterval = 3
    Levels = 2
    StepTime = 6
    SetupTimes = {1, 2}
    Speeds = {0, 1, 4}
    MaxTime = 4
    MaxMarks = 3
INVARIANTS
    RoundsAddUp
    ExitEarned
    BestIsBest
