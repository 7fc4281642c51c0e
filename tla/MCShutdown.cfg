SPECIFICATION LiveSpec
CONSTANTS
  r1 = r1
  r2 = r2
  s1 = s1
  w1 = w1
  w2 = w2
  NoKey = NoKey
  NoRun = NoRun
  Runs = {r1}
  Sessions = {s1}
  Keys = {}
  Workers = {w1, w2}
  Inline = {w2}
  SessionOf <- MCSessionOf
  KeyOf <- MCKeyOf
  MaxAttempts = 1
  MaxClaims = 1
  LeaseTtl = 1
  MaxWait = 1
  MaxReleases = 1
  MaxRetiring = 3
  SessionTtl = 2
  MaxGrants = 3
  LeaseLostConsecutive = 1
  MaxFaults = 1
  MaxStops = 1
PROPERTIES
  ExitStrands
  SweepSparesRenewed
  EveryRunEnds
