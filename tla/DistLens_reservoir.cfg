SPECIFICATION LiveSpec
CONSTANTS
    t1 = t1  t2 = t2
    Threads <- TwoThreads
    Samples = 2
    Others = {0, 1, 3}
    MaxRecords = 3
INVARIANTS
    LostOnlyByOverlap
    ReservoirSound
    MergedWhole
    FaultOnlyByOverlap
PROPERTIES
    AllCollected
    NeverStuck
