SPECIFICATION FairSpec
CONSTANTS
  Services <- MCOneService
  Revisions <- MCRevisions
  RouteSpecs <- MCRouteSpecs
  Ports <- MCPorts
  Instances <- MCInstances
  Inst <- MCInst
  Releases <- MCReleases
  Deployed <- MCDeployed
  Registered = {"r1"}
  Started = {"i1"}
  ChanCap = 1
  MaxRetries = 1
  MaxRows = 1
  Consumers = {"dns"}
  Hosts = {}
  Paths = {}
  Queries <- MCQueries
  Ordered = FALSE
  MaxWrites = 2
  MaxFaults = 1
  FaultKinds = {"io"}
 
PROPERTIES Converges
CHECK_DEADLOCK FALSE
