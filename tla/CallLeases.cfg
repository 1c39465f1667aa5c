\* A browser and a telephone call contend for one slot, on a JSON file and on
\* PostgreSQL with two processes.
CONSTANTS
  p1 = p1
  p2 = p2
  b1 = b1
  b2 = b2
  b3 = b3
  d1 = d1
  Processes <- TwoProcesses
  Alone = p1
  Browsers <- OneBrowser
  Demos <- OneBrowser
  Dials <- OneDial
  Limit = 1
  MaxStarts = 1
  Reservation = 2
  MintTime = 1
  ConnectTime = 1
  Session = 1
  Grace = 1
  Hour = 3
  MaxFaults = 1
SPECIFICATION FairSpec
INVARIANTS
  LeasesWithinLimit
  LiveCallsAreCounted
  EndedCallsStayFree

  
