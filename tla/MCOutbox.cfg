CONSTANTS
  k1 = k1
  k2 = k2
  p1 = p1
  p2 = p2
  Keys <- MCKeys
  Procs <- MCProcs
  Owner <- MCOwner
  Kinds <- MCKinds
  ClaimMs = 1
  GraceMs = 1
  MaxAttempts = 2
  MaxAcks = 2
  MaxFaults = 2

SPECIFICATION Spec
CHECK_DEADLOCK FALSE

INVARIANTS TypeOK PostedOnce AckedIsShown
PROPERTIES EveryAnswerArrives
