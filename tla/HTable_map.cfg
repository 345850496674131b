SPECIFICATION Spec
CONSTANTS
    k1 = k1  k2 = k2  k3 = k3  k4 = k4  k5 = k5
    Null = Null
    Keys <- FiveKeys
    Values = {1, 2}
    Hash <- Hashes
    ProbeWindow = 2
    Reserves = {1, 2}
    MaxCap = 16
INVARIANT TableSound
PROPERTY ImplementsMap
