SPECIFICATION CSpec
CONSTANTS
  s1 = s1
  p1 = p1
  p2 = p2
  t1 = t1
  Sessions = {s1}
  Procs = {p1, p2}
  Turns = {t1}
  SessionTtl = 1
  MaxGrants = 3
  MaxEntries = 3
INVARIANTS
  TypeOK
  NewestGrantHolds
  CTypeOK
  SummariesAdvance
PROPERTIES
  TranscriptFenced
  RequestsServed
CHECK_DEADLOCK FALSE
