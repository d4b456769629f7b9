SPECIFICATION Spec
CONSTANTS
    None = None
    n1 = n1
    n2 = n2
    Networks <- OneNetwork
    Subnets = {"s1"}
    FirstSubnet = "s1"
    Targets = {"docker"}
    MaxId = 5
    MaxFaults = 1
    MaxStops = 1
    MaxHeals = 0
PROPERTIES RestartUndisturbed
