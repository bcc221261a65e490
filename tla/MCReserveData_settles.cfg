SPECIFICATION FairSpec
CONSTANTS
  Requests = {r1}
  Exchanges = {binance}
  Tokens = {omg}
  Supported <- MCSupported
  Kinds = {"trade", "deposit", "withdraw"}
  Faults = {}
PROPERTIES PendingSettles CycleEnds
CHECK_DEADLOCK FALSE
