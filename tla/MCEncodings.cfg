CONSTANTS
  MaxList = 2
  MaxSnapshotList = 3
  kMaxOwnersPerResource = 2
  kMaxPoolRefs = 2
  RackSize = 2
  Kinds <- MCKinds
  Inputs <- MCInputs
SPECIFICATION Spec
INVARIANTS  DamageIsSeen AcceptedStaysEncodable
CHECK_DEADLOCK FALSE
