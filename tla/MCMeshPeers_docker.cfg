SPECIFICATION Spec
CONSTANTS
  ConnTimeout = 1
  DownInterval = 3
  Machines = {"me", "a"}
  Local = "me"
  Records <- MCRecords
  Initial <- MCInitial
  Invited <- MCInvited
  Endpoints = {"s", "x", "y", "nat"}
  Worlds <- MCWorlds
  Rtts = {1}
  None = None
  Docker = TRUE
  MaxWrites = 2
  MaxQueue = 1
  MaxFaults = 0
  MaxChanges = 1
PROPERTIES RotatesOnFailure
