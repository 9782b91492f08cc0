SPECIFICATION Spec
CONSTANTS
  u1 = u1
  o1 = o1
  o2 = o2
  k1 = k1
  k2 = k2
  NoUser = NoUser
  Users = {u1}
  Products = {1}
  Orders = {o1, o2}
  MaxQty = 1
  InitStock <- MCStock
  InitSales <- MCSales
  Second = 3
  PayTimeout = 3
  ShipAfter = 3
  CompleteAfter = 3
  Period = 3
  BatchSize = 1
  Ticks = {k1, k2}
  CronDelay = 1
  LastOrder = 1
  Horizon = 9
  MaxFailures = 1
SYMMETRY Symmetry
CHECK_DEADLOCK FALSE
INVARIANTS
  Consistent
  Schedule
PROPERTIES
  NeverCancelsEarly
  SweepComplete
