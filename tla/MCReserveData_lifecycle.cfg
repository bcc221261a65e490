SPECIFICATION Spec
CONSTANTS
  Requests = {r1}
  Exchanges = {binance}
  Tokens = {omg}
  Supported <- MCSupported
  Kinds = {"trade", "deposit", "withdraw"}
  Faults = {"reply", "silent", "reject", "node", "status", "disk", "crash"}
INVARIANTS TypeOK BucketsAgree StatusesHonest
PROPERTIES SettledSidesStay
CHECK_DEADLOCK FALSE
