SPECIFICATION CrestSpec
CONSTANTS
    c1 = c1
    None = None
    Wildcards = {":x", ":y"}
    Stars = {"*", "*x"}
    Conns = {c1}
    Resources <- SomeResources
    Requests <- SomeRequests
INVARIANTS
    RoutedToBest
    HandlersGuarded
    BodyWhole
PROPERTIES
    Answered
CHECK_DEADLOCK FALSE
