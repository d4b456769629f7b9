SPECIFICATION Spec
CONSTANTS
    None = None
    n1 = n1
    n2 = n2
    Networks <- TwoNetworks
    Subnets = {"s1", "s2"}
    FirstSubnet = "s1"
    Targets = {"docker", "system"}
    MaxId = 5
    MaxFaults = 1
    MaxStops = 1
    MaxHeals = 1
SYMMETRY Symmetric
INVARIANTS TypeOK RunningServes  BridgeMatches
PROPERTIES ResumeAdopts DownIsDown
