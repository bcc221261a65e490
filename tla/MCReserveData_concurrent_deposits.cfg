SPECIFICATION Spec
CONSTANTS
  Requests = {r1, r2}
  Exchanges = {binance}
  Tokens = {omg}
  Supported <- MCSupported
  Kinds = {"deposit"}
  Faults = {}
SYMMETRY RequestSymmetry
INVARIANTS OneDepositAtATime
CHECK_DEADLOCK FALSE
