SPECIFICATION Spec
CONSTANTS
  r1 = r1
  r2 = r2
  s1 = s1
  NoKey = NoKey
  Runs = {r1, r2}
  Sessions = {s1}
  Keys = {}
  SessionOf <- MCSessionOf
  KeyOf <- MCKeyOf
  MaxAttempts = 1
  MaxClaims = 1
  LeaseTtl = 1
  MaxWait = 1
  MaxReleases = 0
  MaxRetiring = 1
PROPERTIES
  SessionFifo
CHECK_DEADLOCK FALSE
