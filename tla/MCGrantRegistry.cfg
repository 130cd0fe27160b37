SPECIFICATION Spec
CONSTANTS
  r1 = r1
  r2 = r2
  Ref <- MCRef
  Rack <- MCRack
  RequestId = {r1, r2}
  MaxLive = 2
  MaxRemembered = 2
  MaxOccupancy = 8
  MinTtl = 1
  MaxTtl = 2
  U64Max = 3
  Snapshots <- MCSnapshots
  DurableGrants <- MCDurableGrants
  Devices <- MCDevices
  Orders <- MCOrders
  Incarnation = 2
  MaxNow = 1
  MaxFence = 4
INVARIANTS
  CountersExact
  IndexExact
  PoolsExact
  LiveGrantsCompatible
  ValidLeasesCompatible
PROPERTIES
  IssuedWithinCapacity
  RetiredStaysRetired
  ImplementsAuthority
