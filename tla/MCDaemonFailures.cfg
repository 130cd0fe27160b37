SPECIFICATION Spec
SYMMETRY Requests
CONSTANTS
  r1 = r1
  r2 = r2
  Ref <- MCRef
  Rack <- MCRack
  RequestId = {r1, r2}
  MaxLive = 3
  MaxRemembered = 4
  MaxOccupancy = 8
  MinTtl = 1
  MaxTtl = 1
  U64Max = 10
  Slot <- MCSlot
  SourceOf <- MCSourceOf
  MaxSlots = 2
  MaxSources = 2
  Topology <- MCTopology
  AutoCompose = TRUE
  CheckpointEvery = 0
  Evidence <- MCJoin
  Orders <- MCExclusive
  Targets = {"active"}
  Generations = {}
  MaxNow = 0
  MaxStarts = 2
  MaxRecords = 5
  MaxDeaths = 1
  MaxMoves = 1
  MaxCheckpoints = 1
  MaxFailures = 1
INVARIANTS
  NothingUsableUnseen
  EpochNamesMembers
  TokensUnique
CHECK_DEADLOCK FALSE
