\* Two tabs and the sweep; one handler may die.
CONSTANTS
  c1 = c1
  c2 = c2
  w1 = w1
  NoRevision = NoRevision
  Clients <- TwoTabs
  Creator = c1
  Workers <- OneWorker
  Guarded = TRUE
  Timeout = 1
  Lookback = 3
  Interval = 2
  MaxRequests = 2
  MaxCrashes = 1
SPECIFICATION FairSpec
INVARIANTS
  TurnsAreKept
PROPERTIES
  SettledTurnsStay
  SweepSparesActive
  
  
CHECK_DEADLOCK FALSE
