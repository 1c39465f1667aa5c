\* Two attempts, one slot, releases that may stall for any time.
CONSTANTS
  a1 = a1
  a2 = a2
  a3 = a3
  k1 = k1
  o1 = o1
  camp = camp
  NoScope = NoScope
  NoRun = NoRun
  NoSlot = NoSlot
  Orgs <- MCOrgs
  Scopes <- MCScopes
  Runs <- TwoAttempts
  Attempts <- TwoAttempts
  Callbacks <- OneCallback
  OrgOf <- MCOrgOf
  ScopeOf <- MCScopeOf
  RunOf <- FreshRuns
  OrgLimit <- OneSlot
  ScopeLimit <- MCScopeLimit
  StaleTimeout = 3
  MaxSetup = 1
  MaxCall = 1
  PromptRelease = FALSE
SPECIFICATION FairSpec
PROPERTIES
  LimitAlwaysClears
  ImplementsAdmission
