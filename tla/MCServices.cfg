SPECIFICATION MCSpec
CONSTANTS
  Keys <- MCKeys
  SecretOf <- MCSecretOf
  AuthEnabled = TRUE
  Window = 1
  Distances = {1, 2}
  Kinds = {"target", "pwi", "stable"}
  Calls = {c1, c2, c3, c4}
  Values = {none, a, b}
  EmptyValue = none
  MaxClock = 2
  Faults = {"disk", "crash"}
  Addresses = {a1, a2, a3}
  UserIds = {u1, u2}
  Categories = {kyc, other}
  KYC = kyc
  Times = {1}
  NoUser = nobody
  MaxTime = 3
  Expiry = 1
  MaxPeriod = 1
  Exchanges = {e1, e2}
  MaxVersions = 2
  MaxTick = 4
  MaxTimespot = 99
  NoTime = 0
  Venues = {e1}
  Updates = {v1, v2}
  Reports = {r1, r2}
  MaxMoment = 3
SYMMETRY CallSymmetry
INVARIANTS ServicesTypeOK TwoKeys UsersIndexed PendingNotKyced VersionsReadable FlagIsLastStored StatusKept
PROPERTIES ImplementsProposal NoRecordLost
CHECK_DEADLOCK FALSE
