SPECIFICATION FairSpec
CONSTANTS
  u1 = u1
  s1 = s1
  s2 = s2
  o1 = o1
  o2 = o2
  NoUser = NoUser
  Nobody = Nobody
  Users = {u1}
  Products = {1, 2}
  Orders = {o1, o2}
  Sessions = {s1, s2}
  Ops = {"fromCart", "add", "patch"}
  MaxQty = 2
  InitStock <- MCStock2
  InitSales <- MCSales
PROPERTIES
  Serializable
  RequestsEnd
