CONSTANTS
  w1 = w1
  w2 = w2
  limit = limit
  caps = caps
  v1 = v1
  Missing = Missing
  Zero = Zero
  Default = Default
  Workers = {w1, w2}
  Keys = {limit, caps}
  SafeKeys = {limit}
  Choices = {v1, Default}
SPECIFICATION Spec
SYMMETRY Interchangeable
INVARIANTS
  TypeOK
  SchemaMatchesModels
  UpgradeIsRepeatable
  LimitsEnforced
  TableMigrated
