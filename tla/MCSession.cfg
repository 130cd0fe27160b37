SPECIFICATION Spec
CONSTANTS
  Conns = {1, 2}
  Requests = {1}
  MaxCalls = 3
  MaxRestarts = 1
INVARIANTS
  AnswerBelongs
  PlaceKept
PROPERTIES
  CallsReturn
  
CHECK_DEADLOCK FALSE
