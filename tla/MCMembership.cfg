\* The daemons idle once nothing is left to age or to heal.
SPECIFICATION Spec
CONSTANTS
    None = None
    Subnets = {1, 2, 3, 4}
    Settle = 2
    Hysteresis = 2
    StaleAfter = 1
    Scenarios <- MCScenarios
INVARIANTS
    TypeOK
    HealsDiverge
    ReservedIsDisabled
    ClaimIsUse
PROPERTIES
    
    AllParticipate
CHECK_DEADLOCK FALSE
