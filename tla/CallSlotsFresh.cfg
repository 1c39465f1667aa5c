\* Every attempt has its own run; late and repeated callbacks, Redis errors.
CONSTANTS
  a1 = a1
  a2 = a2
  a3 = a3
  k1 = k1
  o1 = o1
  camp = camp
  NoScope = NoScope
  NoRun = NoRun
  NoSlot = NoSlot
  Orgs <- MCOrgs
  Scopes <- MCScopes
  Runs <- MCAttempts
  Attempts <- MCAttempts
  Callbacks <- OneCallback
  OrgOf <- MCOrgOf
  ScopeOf <- MCScopeOf
  RunOf <- FreshRuns
  OrgLimit <- MCOrgLimit
  ScopeLimit <- MCScopeLimit
  StaleTimeout = 3
  MaxSetup = 1
  MaxCall = 1
  PromptRelease = TRUE
SYMMETRY CampaignSymmetry
SPECIFICATION Spec
INVARIANTS
  LiveCallsWithinLimits
  LiveCallKeepsItsSlot
  FleetCoversOrgs
  CountedSlotIsReachable
  
