SPECIFICATION Spec
CONSTANTS
  Services <- MCOneService
  Revisions <- MCRevisions
  RouteSpecs <- MCRouteSpecs
  Ports <- MCPorts
  Instances <- MCInstances
  Inst <- MCInst
  Releases <- MCReleases
  Deployed <- MCDeployed
  Registered <- MCRevisions
  Started = {"i1", "i2"}
  ChanCap = 1
  MaxRetries = 0
  MaxRows = 1
  Consumers = {"gateway"}
  Hosts = {}
  Paths = {}
  Queries = {}
  Ordered = TRUE
  MaxWrites = 2
  MaxFaults = 1
  FaultKinds = {"io", "early", "eof", "gap", "refuse", "query", "restart"}
INVARIANTS TypeOK FreshWhenQuiet
PROPERTIES BackendsWereLive
CHECK_DEADLOCK FALSE
