\* One number, three calls, one prompt callback for each; any release may be cut off.
CONSTANTS
  n1 = n1
  c1 = c1
  c2 = c2
  c3 = c3
  k1 = k1
  k2 = k2
  NoNumber = NoNumber
  StaleTimeout = 2
  MappingTtl = 3
  PoolTtl = 6
  MaxCall = 1
  Numbers <- OneNumber
  Calls <- ThreeCalls
  Callbacks <- TwoCallbacks
  BatchLength = 2
  MaxLate = 0
  Repeated = FALSE
  PromptRelease = TRUE
SPECIFICATION FairSpec

  
PROPERTIES
  PoolRecovers
