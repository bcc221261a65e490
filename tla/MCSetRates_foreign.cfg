SPECIFICATION Spec
CONSTANTS
  Requests = {r1, r2}
  Faults = {}
  Others = {"deposit"}
  DepositNonces = {2}
  MaxOthers = 1
SYMMETRY RequestSymmetry
PROPERTIES ReplacesPendingSetrate
CHECK_DEADLOCK FALSE
