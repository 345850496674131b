SPECIFICATION Spec
CONSTANTS
    c1 = c1  c2 = c2  n1 = n1
    NoFile = NoFile
    Clients = {c1, c2}
    Names = {n1}
    MaxFiles = 2
    MaxTime = 2
    MaxEvents = 1
SYMMETRY ClientSymmetry
INVARIANTS
    OneOwner
    NoLeftover
    WindowSound
CHECK_DEADLOCK FALSE
