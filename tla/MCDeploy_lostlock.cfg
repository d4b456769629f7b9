SPECIFICATION Spec
CONSTANTS
  d1 = d1
  d2 = d2
  Machines = {1, 2}
  Deploys = {d1, d2}
  Coord <- OneCoordinator
  Services = {"web", "db"}
  Revisions = {"r1", "r2"}
  Manifests <- Alternating
  Fleets <- RemoteFleet
  Crashable = {2}
  Flaky = {}
  SilentLoss = FALSE
INVARIANT ActiveAreLive
