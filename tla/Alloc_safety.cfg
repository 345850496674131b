SPECIFICATION Spec
CONSTANTS
    t1 = t1  t2 = t2  t3 = t3
    s1 = s1  s2 = s2
    Threads <- TwoThreads
    Slabs <- TwoSlabs
    SlabLen = 3
    Null = Null
SYMMETRY Symmetry
INVARIANTS
    NextBlockSound
    EveryBlockAccounted
