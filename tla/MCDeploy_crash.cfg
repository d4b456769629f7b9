SPECIFICATION Spec
CONSTANTS
  d1 = d1
  d2 = d2
  Machines = {1, 2}
  Deploys = {d1, d2}
  Coord <- TwoCoordinators
  Services = {"web", "db"}
  Revisions = {"r1", "r2"}
  Manifests <- Upgrading
  Fleets <- StableFleet
  Crashable = {1}
  Flaky = {}
  SilentLoss = TRUE
INVARIANTS
  
  
  SessionHoldsLock
 
CHECK_DEADLOCK FALSE
