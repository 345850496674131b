SPECIFICATION LiveSpec
CONSTANTS
    t1 = t1  t2 = t2
    l1 = l1  l2 = l2  l3 = l3
    d1 = d1  d2 = d2  d3 = d3
    n1 = n1  n2 = n2  n3 = n3
    Null = Null
    Threads <- OneThread
    Lenses <- TwoLenses
    Nodes <- ThreeNodes
    Names <- TwoNames
    Base <- WholeFile
    StaleFree = FALSE
    PollerDies = FALSE
PROPERTY Reclaimed
