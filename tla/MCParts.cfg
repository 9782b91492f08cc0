SPECIFICATION PartsSpec
CONSTANTS
  None = None
  Ids = {1, 2, 3}
  Texts = {x}
  Sessions = {c1, c2}
  LastSecond = 2
  Products = {1, 2, 3}
  Price <- PriceOf
  CreatedAt <- CreatedOf
  Hits <- HitsOf
  Prefixed <- PrefixedOf
  Sorts = {"comprehensive", "price_asc"}
  Keywords = {k}
  Requests = {c1, c2}
  PageSize = 1
  MaxChanges = 1
  MaxPage = 3
  Orders = {1, 2, 3}
  Seeded = {1, 2}
  Tabs = {"all", "pending"}
  Opened = {1, 2}
  MaxTaps = 3
  Toggles = {c1, c2}
  Boot = Boot
  Users = {u, v}
  MaxKills = 1
  Words = {1, 2, 3}
  SEARCH_HISTORY_LIMIT = 2
  MaxQueue = 2
  Tops = {0, 1, 2}
  Height = 2
  Wait = 2
  BootOrders = {o1, o2}
  InitStock = 1
  MaxAttempts = 2
SYMMETRY Symmetry
INVARIANTS
  PartsTypeOK
  OneDefault
  IndicatorsMatch
  NothingSkipped
  ChoiceKept
  
  HistoryOfSession
  ReportedOnce
  ComesUpWhole
PROPERTIES
  PromotesLatest
  CarriedOutOnce
