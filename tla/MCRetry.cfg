SPECIFICATION Spec
CONSTANTS
  r1 = r1
  r2 = r2
  s1 = s1
  w1 = w1
  w2 = w2
  NoKey = NoKey
  NoRun = NoRun
  Runs = {r1}
  Sessions = {s1}
  Keys = {}
  Workers = {w1, w2}
  Inline = {w2}
  SessionOf <- MCSessionOf
  KeyOf <- MCKeyOf
  MaxAttempts = 2
  MaxClaims = 2
  LeaseTtl = 1
  MaxWait = 1
  MaxReleases = 1
  MaxRetiring = 3
  SessionTtl = 2
  MaxGrants = 3
  LeaseLostConsecutive = 2
  MaxFaults = 0
  MaxStops = 0
PROPERTIES
  RetryCanReacquire
