SPECIFICATION RegionSpec
CONSTANTS
    t1 = t1  t2 = t2  t3 = t3
    Threads <- TwoThreads
    NoThread = NoThread
    MinPos = 1
    DefaultLen = 2
    MaxLen = 8
    Sizes <- OneTwo
SYMMETRY Symmetry
INVARIANTS
    AccessSound
    LegitResolves
    GrowDisjoint
