CONSTANTS
  a1 = a1
  a2 = a2
  r1 = r1
  r2 = r2
  c1 = c1
  c2 = c2
  f1 = f1
  f2 = f2
  fs = fs
  NoContainer = NoContainer
  NoFlag = NoFlag
  NoAccount = NoAccount
  Accounts = {a1, a2}
  Requests = {r1, r2}
  Containers = {c1, c2}
  RandomFlags = {f1, f2}
  StaticFlag = fs
  MaxSwitches = 1
SPECIFICATION Spec
SYMMETRY Interchangeable
INVARIANTS
  TypeOK
  IssuedFlagKept
PROPERTIES
  OwnFlagAccepted
  OnlyOwnFlagScores
  EvidenceIsReuse
CHECK_DEADLOCK FALSE
