SPECIFICATION FairSpec
CONSTANTS
  t1 = t1  t2 = t2  p1 = p1  c1 = c1
  Turns = {t1, t2}
  Posts = {p1}
  Creates = {c1}
  MaxCalls = 1
  MaxMishaps = 2
INVARIANTS TypeOK TranscriptInOrder CommittedIsWhole NoFailedMemory
PROPERTIES TurnsEnd
CHECK_DEADLOCK FALSE
