\* One contact with one retry; one thing goes wrong, events are lost.
CONSTANTS
  c1 = c1
  c2 = c2
  w1 = w1
  w2 = w2
  NoRun = NoRun
  Rows <- OneRow
  MaxRetries = 1
  Workers <- OneWorker
  BatchSize = 1
  Requests <- Starts
  MaxJobs = 1
  MaxEvents = 1
  MaxFaults = 1
CHECK_DEADLOCK FALSE
SPECIFICATION FairSpec
INVARIANTS
  OneCallPerContact
PROPERTIES
  DialedOnce
  
  QueuedRunsAreServed
  RunningCampaignEnds
