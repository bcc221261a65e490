SPECIFICATION DepositsSpec
CONSTANTS
  d1 = d1
  d2 = d2
  Deposits = {d1, d2}
  Scenarios <- MCScenarios
  MaxSends = 3
  AmountOf <- MCAmountOf
  MaxCredits = 2
  MaxHour = 3
INVARIANTS DepositsTypeOK DoneIsCredited DoneLeavesNoPending DoneHasOwnEntry
PROPERTIES SentOnce DepositSettles CreditIsSeen
CHECK_DEADLOCK FALSE
