SPECIFICATION FairSpec
CONSTANTS
  ConnTimeout = 1
  DownInterval = 3
  Machines = {"me", "a"}
  Local = "me"
  Records <- MCRecords
  Initial <- MCInitial
  Invited <- MCInvited
  Endpoints = {"s", "x", "y", "nat"}
  Worlds <- MCWorlds
  Rtts = {1}
  None = None
  Docker = FALSE
  MaxWrites = 1
  MaxQueue = 2
  MaxFaults = 1
  MaxChanges = 1
INVARIANTS TypeOK EndpointsInStep  
PROPERTIES RotatesOnFailure 
