CONSTANTS
  f1 = f1
  f2 = f2
  f3 = f3
  Fetches = {f1, f2, f3}
  MaxOpens = 3
SPECIFICATION Spec
INVARIANTS
  TypeOK
  OneCallAtATime
  PanelMatchesInstance
SYMMETRY Interchangeable
