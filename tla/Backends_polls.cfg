SPECIFICATION Spec
CONSTANTS
    t1 = t1  t2 = t2  t3 = t3
    Null = Null
    Tables = {t1, t2, t3}
    Keys = {1, 2}
    Type <- SomeTypes
    Times = {1, 2}
INVARIANTS
    ResponseWhole
    TablesOwned
    DamageBounded
PROPERTIES
    PollEnds
CHECK_DEADLOCK FALSE
