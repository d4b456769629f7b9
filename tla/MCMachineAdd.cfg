\* The founder idles once every target is added.
SPECIFICATION Spec
CONSTANTS
    None = None
    Targets = {1, 2}
    Slots = {1, 2}
    Subnets = {1, 2, 3}
    Options <- MCOptions
    Scenarios <- MCScenarios
INVARIANTS
    TypeOK
    ReportedStays
    FailedLeavesNoPeer
    CleansUp
PROPERTIES
    EventuallyAdded
CHECK_DEADLOCK FALSE
