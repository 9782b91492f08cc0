SPECIFICATION PurchaseSpec
CONSTANTS
  None = None
  u1 = u1
  o1 = o1
  o2 = o2
  NoUser = NoUser
  Users = {u1}
  Products = {1, 2}
  Orders = {o1, o2}
  MaxQty = 2
  InitStock <- MCStock
  InitSales <- MCSales
  Requests = {c1, c2}
  Lines = {1, 2}
  Stock <- StockOf
  MaxGivenUp = 1
  MaxChanges = 3
  Skus = {2}
  AddressIds = {a1, a2}
  MaxVersion = 1
  MaxLost = 1
  Ids = {1, 2}
  Texts = {x, y}
SYMMETRY Symmetry
INVARIANTS
  PurchaseTypeOK
  StockConserved
  SalesConserved
  OrderedAsShown
  BusyEnds
  ScreenAgrees
  EditsKept
PROPERTIES
  LinesGrowWithinStock
  RefusedForAReason
