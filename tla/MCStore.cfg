SPECIFICATION Spec
CONSTANTS
  MaxAppends = 3
  MaxOpens = 3
  MaxCheckpoints = 2
  MaxFailures = 1
  CheckpointTorn = FALSE

  
  
  
PROPERTIES
  ImplementsDurableLog
CHECK_DEADLOCK FALSE
