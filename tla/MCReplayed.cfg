SPECIFICATION Spec
CONSTANTS
  g1 = g1
  a1 = a1
  Signals = {g1, a1}
  Steers = {g1}
  MaxTurns = 2
  MaxFaults = 0
INVARIANTS
  ReplayedIsReplayed
CHECK_DEADLOCK FALSE
