CONSTANTS
  Slot <- MCSlot
  SourceOf <- MCSourceOf
  Evidence <- MCEvidence
  MaxSlots = 2
  MaxSources = 1
  MaxLog = 4
SPECIFICATION Spec
INVARIANTS
  StoredIsBest
  RefusedOnlyWhenFull
PROPERTIES
  RecoveryRebuilds
