CONSTANTS
  a1 = a1
  a2 = a2
  k1 = k1
  k2 = k2
  c1 = c1
  c2 = c2
  c3 = c3
  r1 = r1
  r2 = r2
  w1 = w1
  w2 = w2
  NoSlot = NoSlot
  NoContainer = NoContainer
  NoActor = NoActor
  Accounts = {a1}
  Challenges = {k1, k2}
  Containers = {c1, c2}
  Requests = {r1, r2}
  Scanners = {}
  MaxContainers = 1
  Dialects = {"mysql", "other"}
  Faults = {}
  Foreign = {}
SPECIFICATION Spec
SYMMETRY Interchangeable
INVARIANTS
  TypeOK
  CapacityRespected
  RunningWithinCapacity
  RecordedWasHealthy
  OneInstancePerSlot
  NoOrphans
  ScoredIsTornDown
