SPECIFICATION Spec
CONSTANTS
  Requests = {r1, r2}
  Exchanges = {binance}
  Tokens = {omg}
  Supported <- MCSupported
  Kinds = {"trade", "deposit"}
  Faults = {"reply", "disk"}
SYMMETRY RequestSymmetry
PROPERTIES ExchangeCoherent DepositsCoherent SnapshotMatchesBuckets
CHECK_DEADLOCK FALSE
