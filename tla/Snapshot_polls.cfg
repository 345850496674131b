SPECIFICATION LiveSpec
CONSTANTS
    t1 = t1  t2 = t2  t3 = t3
    c1 = c1  c2 = c2
    Threads <- TwoThreads
    Cells <- TwoCells
    MaxRecords = 2
    MaxCuts = 1
INVARIANTS
    Conservation
    BoundedDelay
PROPERTIES
    ImplementsDelivery
    AllPublished
