CONSTANTS
  A = A  B = B  Stop1 = Stop1  Buy1 = Buy1
  Symbols = {A, B}
  Targets <- MCTargetsOne
  Reserve = 1
  HardGate = FALSE
  SessionsPerMonth = 1
  InitialAccounts <- CashAccount
  NoPlan = NoPlan NoOrder = NoOrder
  MaxDay = 2 MaxRelease = 1 MaxMoves = 1 MaxFaults = 2
SPECIFICATION FairSpec
PROPERTIES RiskOffStuckOnlyByRepeat PlanSettles
