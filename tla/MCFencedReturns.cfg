SPECIFICATION Spec
SYMMETRY Requests
CONSTANTS
  r1 = r1
  r2 = r2
  Ref <- MCRef
  Rack <- MCRack
  RequestId = {r1, r2}
  MaxLive = 3
  MaxRemembered = 4
  MaxOccupancy = 8
  MinTtl = 1
  MaxTtl = 1
  U64Max = 10
  Slot <- MCSlot
  SourceOf <- MCSourceOf
  MaxSlots = 2
  MaxSources = 2
  Topology <- MCTopology
  AutoCompose = TRUE
  CheckpointEvery = 0
  Evidence <- MCFlap
  Orders <- MCExclusive
  Targets = {"active"}
  Generations = {0}
  MaxNow = 0
  MaxStarts = 3
  MaxRecords = 8
  MaxDeaths = 0
  MaxMoves = 2
  MaxCheckpoints = 0
  MaxFailures = 0
INVARIANTS
  UsableLeasesCompatible
CHECK_DEADLOCK FALSE
