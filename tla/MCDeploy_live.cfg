SPECIFICATION Spec
CONSTANTS
  d1 = d1
  d2 = d2
  Machines = {1, 2}
  Deploys = {d1}
  Coord <- OneDeploy
  Services = {"web", "db"}
  Revisions = {"r1", "r2"}
  Manifests <- Placing
  Fleets <- MovingFleet
  Crashable = {1, 2}
  Flaky = {2}
  SilentLoss = FALSE
INVARIANTS
  TypeOK
  RoutedAreProbed
  ReleasedRevisionsRegistered
PROPERTIES
  
  ApplyEnds
