\* Two workers, two contacts, users who pause and resume; no event arrives, one thing goes wrong.
CONSTANTS
  c1 = c1
  c2 = c2
  w1 = w1
  w2 = w2
  NoRun = NoRun
  Rows <- TwoRows
  MaxRetries = 0
  Workers <- TwoWorkers
  BatchSize = 1
  Requests <- AllRequests
  MaxJobs = 2
  MaxEvents = 0
  MaxFaults = 1
CHECK_DEADLOCK FALSE
SYMMETRY CampaignSymmetry
SPECIFICATION Spec
INVARIANTS
  ClaimsAreDisjoint
  CountedRowsAreProcessed
