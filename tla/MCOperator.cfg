SPECIFICATION Spec
CONSTANTS
  Invocations = {1, 2, 3}
  Stories <- MCStories
  Digits = 2
  FirstFences = {8}
  SourceOf <- MCSourceOf
  Slot <- EvidenceCommands
  MaxSlots = 8
  MaxSources = 1
INVARIANTS
  ExitTellsTruth
  LaterDeclarationWins
  LookupFindsAcquire
CHECK_DEADLOCK FALSE
