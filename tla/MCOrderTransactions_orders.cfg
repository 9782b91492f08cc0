SPECIFICATION Spec
CONSTANTS
  u1 = u1
  s1 = s1
  s2 = s2
  s3 = s3
  o1 = o1
  o2 = o2
  NoUser = NoUser
  Nobody = Nobody
  Users = {u1}
  Products = {1, 2}
  Orders = {o1, o2}
  Sessions = {s1, s2, s3}
  Ops = {"create", "pay", "cancel", "toggle"}
  MaxQty = 1
  InitStock <- MCStock2
  InitSales <- MCSales
SYMMETRY Symmetry
INVARIANTS
  TypeOK
  CheckoutsDoNotDeadlock
PROPERTY
  Serializable
