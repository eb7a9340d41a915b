SPECIFICATION Spec
CHECK_DEADLOCK FALSE
SYMMETRY Interchangeable
CONSTANTS
  Budget = 4
  OrderCap = 2
  CycleCap = 3
  Funds = 4
  Prices = {1, 2}
  Releases = {r1, r2}
  MaxOrders = 3
  MaxRuns = 3
  MaxMoves = 1
  MaxFaults = 2
INVARIANTS TypeOK KillSwitchLate NothingForgotten
PROPERTIES BuysCovered
