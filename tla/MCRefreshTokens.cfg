SPECIFICATION Spec
CONSTANTS
  u1 = u1
  t1 = t1
  t2 = t2
  t3 = t3
  t4 = t4
  r1 = r1
  r2 = r2
  None = None
  Users = {u1}
  Tokens = {t1, t2, t3, t4}
  Requests = {r1, r2}
  Second = 2
  Grace = 2
  Ttl = 2
  Horizon = 3
  MaxCrashes = 1
SYMMETRY Symmetry
CHECK_DEADLOCK FALSE
INVARIANTS
  TypeOK
  RotatedBeforeSent
  SignedOutStaysOut
PROPERTIES
  RevokedForGood
  RevokedForAReason
