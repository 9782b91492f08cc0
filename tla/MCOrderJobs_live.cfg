SPECIFICATION FairSpec
CONSTANTS
  u1 = u1
  o1 = o1
  k1 = k1
  k2 = k2
  NoUser = NoUser
  Users = {u1}
  Products = {1}
  Orders = {o1}
  MaxQty = 1
  InitStock <- MCStock
  InitSales <- MCSales
  Second = 1
  PayTimeout = 1
  ShipAfter = 1
  CompleteAfter = 1
  Period = 1
  BatchSize = 1
  Ticks = {k1, k2}
  CronDelay = 0
  LastOrder = 0
  Horizon = 8
  MaxFailures = 1
CHECK_DEADLOCK FALSE
PROPERTIES
  TicksEnd
  OrdersSettle
