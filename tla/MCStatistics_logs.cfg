SPECIFICATION StatSpec
CONSTANTS
  u1 = u1
  u2 = u2
  w1 = w1
  tok = tok
  res = res
  a1 = a1
  a2 = a2
  kyc = kyc
  other = other
  ETH = ETH
  NoWallet = NoWallet
  Countries = {"VN", ""}
  DeployBlock = 1
  ReorgSafe = 1
  Window = 2
  WordSize = 100000
  MaxBlock = 5
  BlockTxs = 2
  MaxCrashes = 1
  Scenarios <- MCScenarios
  Zones <- MCZones
  Minute = 2
  Hour = 2
  PerMilli = 2
  Tokens = {tok, ETH}
  NoParam = NoParam
  Addresses = {a1, a2}
  UserIds = {}
  Categories = {kyc, other}
  KYC = kyc
  Times = {}
  NoUser = NoUser
  Day = 6
INVARIANTS StatTypeOK StoredLogsCanonical LossConfined VolumesMatchLogs UsersMatchLogs HeatMapComplete CategoryADayOld
CHECK_DEADLOCK FALSE
