CONSTANTS
  A = A  B = B  Stop1 = Stop1  Buy1 = Buy1
  Symbols = {A, B}
  Targets <- MCTargets
  Reserve = 1
  HardGate = FALSE
  SessionsPerMonth = 1
  InitialAccounts <- CashAccount
  NoPlan = NoPlan NoOrder = NoOrder
  MaxDay = 2 MaxRelease = 1 MaxMoves = 2 MaxFaults = 1
SPECIFICATION Spec
INVARIANTS TypeOK NoOversell NoSelfCross BuysWithinTarget BuysBelongToPlan SnapshotExact
PROPERTIES RiskOffSurvives OneRebalancePerEpisode
