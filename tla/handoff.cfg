SPECIFICATION Spec
CHECK_DEADLOCK FALSE
CONSTANTS
  Releases = {1, 2, 3, 4}
  Universe <- MCUniverse
  Intents = {i}
  MaxMonth = 2
  MaxClose = 2
  MaxTries = 2
  MaxRuns = 2
  MaxActs = 2
  MaxFaults = 1
  None = None
INVARIANTS TypeOK OneOrderPerIntent
PROPERTIES RankedOncePerEpisode LiquidationKept
