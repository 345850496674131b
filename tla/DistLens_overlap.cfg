SPECIFICATION Spec
CONSTANTS
    t1 = t1  t2 = t2
    Threads <- TwoThreads
    Samples = 2
    Others = {0}
    MaxRecords = 3
SYMMETRY Symmetry
INVARIANT CountConserved
