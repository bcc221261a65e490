SPECIFICATION Spec
CONSTANTS
  Requests = {r1}
  Faults = {"status"}
  Others = {}
  DepositNonces = {}
  MaxOthers = 0
SYMMETRY RequestSymmetry
INVARIANTS VerdictsTrue
CHECK_DEADLOCK FALSE
