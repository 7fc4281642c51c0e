SPECIFICATION LiveSpec
CONSTANTS
  c1 = c1
  p1 = p1
  p2 = p2
  h1 = h1
  h2 = h2
  NoTime = NoTime
  NoProc = NoProc
  Crons = {c1}
  Procs = {p1, p2}
  Handlers = {h1, h2}
  ProcOf <- MCProcOf
  Schedules <- MCSchedules
  Modes <- MCModes
  MaxTime = 2
  MaxEdits = 1
  MaxFaults = 1
INVARIANTS
  TypeOK
  FiresOnce
  SpacedFires
PROPERTIES
  EverySlotFires
CHECK_DEADLOCK FALSE
