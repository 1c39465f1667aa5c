SPECIFICATION Spec
CONSTANTS
  Caller = Caller
  Media = Media
  None = None
  MaxTransfers = 2
  MaxFaults = 1
INVARIANTS
  LastDestinationIsConnected
  ConnectedCallStays
  SlotOfGoneCallerIsFreed
  PartingEndsBoth
CHECK_DEADLOCK FALSE
