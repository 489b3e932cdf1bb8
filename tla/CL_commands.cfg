SPECIFICATION Spec
CONSTANTS
  Drops <- MCDrops
  p1 = p1
  p2 = p2
  p3 = p3
  NoPeriod = NoPeriod
  NoPrint = NoPrint
  Nothing = Nothing
  Torn = Torn
  MaxCaptures = 2
  MaxRows = 5
  MaxMishaps = 1
SYMMETRY SamePeriod
INVARIANTS InventoryKeepsUp NormalizedStaysIncludable NoDoubleCount AssembleSettles
CHECK_DEADLOCK FALSE
