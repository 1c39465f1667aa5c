\* Attempts end within the lease; crashes, lost jobs and failed records.
CONSTANTS
  w1 = w1
  w2 = w2
  NoJob = NoJob
  Workers <- TwoWorkers
  MaxAttempts = 3
  Lease = 3
  Backoff <- MCBackoff
  MaxSend = 2
  MaxReclaims = 1
  MaxFaults = 2
SPECIFICATION FairSpec
INVARIANTS
  TypeOK
  OneSenderAtATime
PROPERTIES
  RecordKeepsProgress
  EveryDeliveryEnds
