SPECIFICATION Spec
CONSTANTS
    r1 = r1  r2 = r2  r3 = r3  k1 = k1  b1 = b1  b2 = b2  b3 = b3
    None = None
    Regions = {r1, r2, r3}
    Keys = {k1}
    Backends <- ThreeBackends
    Lenses <- SomeLenses
    Contents <- SomeContents
    MaxOptics = 2
    MaxBackends = 2
    Times = {2, 3}
    Created <- SomeTimes
    MaxRecords = 1
    MaxPolls = 2
INVARIANTS
    CountsConserved
    LossExplained
    ElapsedSound
    WindowsTile
    ArraysBounded
PROPERTIES
    StopEnds
CHECK_DEADLOCK FALSE
