SPECIFICATION FairSpec
CONSTANTS
  t1 = t1
  t2 = t2
  t3 = t3
  t4 = t4
  c1 = c1
  c2 = c2
  None = None
  Tokens = {t1, t2}
  Calls = {c1, c2}
  MaxKills = 1
INVARIANTS
  TypeOK
  NeverReusesRotated
PROPERTIES
  HydrationEnds
  WaitersResume
