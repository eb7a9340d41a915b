CONSTANTS
  N1 = N1
  Ops = {o1, o2} Existing = {o1} Requests = {r1, r2, r3}
  Keys = {k1, k2} Numbers = {N1} KeyNumber <- MCKeyNumber
  Sessions = {day} Activities = {flow}
  MaxMoves = 1 MaxFaults = 1 None = None
SPECIFICATION Spec
SYMMETRY Interchangeable
INVARIANTS TypeOK OneAccountPerBinding CreatedIsWhatWasAsked MirrorAsNewAsItsGeneration
PROPERTIES VerdictsAreCurrent
CHECK_DEADLOCK FALSE
