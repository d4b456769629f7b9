SPECIFICATION Spec
CONSTANTS
  Services <- MCTwoServices
  Revisions <- MCThreeRevisions
  RouteSpecs <- MCRouteSpecs
  Ports <- MCPorts
  Instances <- MCThreeInstances
  Inst <- MCInst
  Releases <- MCTwoReleases
  Deployed <- MCTwoDeployed
  Registered <- MCThreeRevisions
  Started = {"i1", "w"}
  ChanCap = 1
  MaxRetries = 0
  MaxRows = 1
  Consumers = {"gateway"}
  Hosts <- MCHosts
  Paths <- MCPaths
  Queries = {}
  Ordered = FALSE
  MaxWrites = 1
  MaxFaults = 0
  FaultKinds = {}
INVARIANTS  MatchIsUnambiguous
CHECK_DEADLOCK FALSE
