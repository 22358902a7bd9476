SPECIFICATION FairSpec
CONSTANTS
    d1 = d1
    Devices = {d1}
    Free = Free
    Places = 4
INVARIANTS
    PlacesNotShared
    ResultsComplete
PROPERTIES
    CleanupEndsUnlessFault
