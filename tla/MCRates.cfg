SPECIFICATION RatesSpec
CONSTANTS
  Requests = {r1, r2}
  Faults = {"node"}
  Others = {"deposit", "trade"}
  DepositNonces = {1}
  MaxOthers = 1
  zrx = zrx
  omg = omg
  PrTokens = {zrx, omg}
  BulkOf <- MCBulkOf
  Targets <- MCTargets
  FirstBases <- MCFirstBases
  Setters = {s1, s2}
  Unit = 10
  ByteSize = 8
  MaxNonce = 2
  TokenRates = {ra, rb}
  NoData = NoData
  RateDelay = 1
  RatePeriod = 2
  Word = 100
  MaxRateTime = 3
  MaxRateBlock = 3
  Reserves = {v1, v2}
  Rates = {z0, z1}
  NoRates = z0
  RateHead = 3
CONSTRAINT NotCrossed
SYMMETRY RequestSymmetry
INVARIANTS TypeOK VerdictsTrue RatesAsAsked RatesCovered ReserveRatesCovered
PROPERTIES NonceIsUsable
CHECK_DEADLOCK FALSE
