\* Two payments whose callbacks overlap and an adjustment that is sent again,
\* on a JSON file and on PostgreSQL with two processes.
CONSTANTS
  p1 = p1
  p2 = p2
  i1 = i1
  i2 = i2
  k1 = k1
  c1 = c1
  c2 = c2
  Processes <- TwoProcesses
  Alone = p1
  Intents <- TwoIntents
  Credits <- TwoCredits
  Keys <- OneKey
  Amounts <- TakeOrGive
  Callbacks <- TwoCallbacks
  MaxReplays = 1
  MaxFaults = 2
SPECIFICATION PaymentsFairSpec
INVARIANTS
  BooksBalance
  OnlyCapturedIsCredited
  AnsweredCreditStays

  
CHECK_DEADLOCK FALSE
