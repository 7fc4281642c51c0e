SPECIFICATION Spec
CONSTANTS
  r1 = r1
  r2 = r2
  s1 = s1
  NoKey = NoKey
  Runs = {r1, r2}
  Sessions = {s1}
  Keys = {}
  SessionOf <- MCSessionOf
  KeyOf <- MCKeyOf
  MaxAttempts = 2
  MaxClaims = 3
  LeaseTtl = 1
  MaxWait = 0
  MaxReleases = 1
  MaxRetiring = 2
INVARIANTS
  TypeOK
  OneRunningPerSession
  NewestClaimHolds
  ErrorBudget
  SnapshotsAgree
  ClaimCap
PROPERTIES
  TerminalOnce
  KeepsContract
CHECK_DEADLOCK FALSE
SYMMETRY MCSymmetry
