SPECIFICATION Spec
CONSTANTS
  Symbols <- MCSymbols
  Opens <- MCOpens
  Rankings <- MCRankings
  StartingCash = 1000000
  SlippagePct = 2
  MaxGross = 80
  FloorPct = 60
  Lookback = 3
  SessionsPerMonth = 3
  MaxSessions = 5
INVARIANTS Parity
PROPERTIES OneRankPerEpisode RiskOffUntilFlat
CHECK_DEADLOCK FALSE
