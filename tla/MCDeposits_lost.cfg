SPECIFICATION DepositsSpec
CONSTANTS
  d1 = d1
  d2 = d2
  Deposits = {d1}
  Scenarios <- LostScenarios
  MaxSends = 1
  AmountOf <- MCAmountOf
  MaxCredits = 0
  MaxHour = 1
PROPERTIES LostDepositFails
CHECK_DEADLOCK FALSE
