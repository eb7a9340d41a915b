CONSTANTS
  A = A  B = B  Stop1 = Stop1  Buy1 = Buy1
  Symbols = {A, B}
  Targets <- MCTargetsBoth
  Reserve = 2
  HardGate = TRUE
  SessionsPerMonth = 1
  InitialAccounts <- UpgradedAccounts
  NoPlan = NoPlan NoOrder = NoOrder
  MaxDay = 2 MaxRelease = 2 MaxMoves = 1 MaxFaults = 1
SPECIFICATION Spec
INVARIANTS BuysFunded
PROPERTIES TradesCurrentPlan
