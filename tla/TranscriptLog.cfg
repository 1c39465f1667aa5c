SPECIFICATION Spec
CONSTANTS
  MaxTurns = 3
  MaxTexts = 3
INVARIANTS
  NothingIsHeldBack
  
PROPERTIES
  EventsAreFinal
CHECK_DEADLOCK FALSE
