CONSTANTS
  Slot <- MCSlot
  SourceOf <- MCSourceOf
  Baseline <- MCBaseline
  Updates <- MCUpdates
  ComposeLimits <- MCLimits
  MaxSlots = 40
  MaxSources = 2
  MaxUpdates = 4
  MaxGeneration = 2
  MaxPathsPerPair = 1
  MaxPathHops = 2
  Rack = 9
  HeadroomFloor = 1
  U64Max = 15
SPECIFICATION Spec
INVARIANTS
  EligibleRestsOnEligible
  DrainsHold
  
  OverlapIsSeen
CHECK_DEADLOCK FALSE
