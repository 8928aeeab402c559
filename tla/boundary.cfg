CONSTANTS
  Capabilities = {"NET_ADMIN"}
  Saved <- OneDeparture
  Recreated <- OneFault
  MaxChanges = 2
SPECIFICATION Spec
INVARIANTS
  TypeOK
  PromisedControls
  ProductionImageIsChecked
  ExtrasAllowed
