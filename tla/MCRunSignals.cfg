SPECIFICATION LiveSpec
CONSTANTS
  g1 = g1
  a1 = a1
  Signals = {g1, a1}
  Steers = {g1}
  MaxTurns = 2
  MaxFaults = 1
INVARIANTS
  TypeOK
  InOnePlace
  DeliveredInOrder
PROPERTIES
  EverySteerLands
CHECK_DEADLOCK FALSE
