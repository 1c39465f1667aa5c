\* Three visitors of a demo link that allows one start, and a write that fails.
CONSTANTS
  p1 = p1
  p2 = p2
  b1 = b1
  b2 = b2
  b3 = b3
  d1 = d1
  Processes <- OneProcess
  Alone = p1
  Browsers <- ThreeBrowsers
  Demos <- ThreeBrowsers
  Dials <- None
  Limit = 3
  MaxStarts = 1
  Reservation = 2
  MintTime = 1
  ConnectTime = 1
  Session = 1
  Grace = 1
  Hour = 3
  MaxFaults = 1
SPECIFICATION Spec
INVARIANTS
  StartsWithinLimit
