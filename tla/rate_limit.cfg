CONSTANTS
  Limit = 2
  Interval = 3
  MaxPerTick = 4
  MaxCount = 9
SPECIFICATION Spec
INVARIANTS
  TypeOK
  ServedWithinTwoWindows
PROPERTIES
  RefusedOnlyOverLimit
