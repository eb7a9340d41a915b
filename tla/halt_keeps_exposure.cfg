CONSTANTS
  A = A  B = B  Stop1 = Stop1  Buy1 = Buy1
  Symbols = {A, B}
  Targets <- MCTargetsOne
  Reserve = 1
  HardGate = FALSE
  SessionsPerMonth = 1
  InitialAccounts <- CashAccount
  NoPlan = NoPlan NoOrder = NoOrder
  MaxDay = 1 MaxRelease = 1 MaxMoves = 2 MaxFaults = 0
SPECIFICATION FairSpec
PROPERTIES RiskOffFlattens
