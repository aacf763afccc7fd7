SPECIFICATION Spec
CONSTANTS
  Products = {p1, p2}
  Channels = {mostrador}
  Banks = {b1}
  Tables = {s1, s2}
  StockTypes = {"NON_STOCKED", "RECIPE_BASED"}
  Prices = {125, 330}
  FirstPrices = {125}
  None = None
  MaxAdminSteps = 1
  Clerks = {}
  Tickets = {t1, t2}
  Inputs = {10, 15}
  MaxStored = 2
  MaxMovements = 0
  OPERATIONS_SSE = TRUE
  MaxVersion = 3
INVARIANTS
  OrderFollowsTicket
  VersionsAdvanceTogether
  OneOpenOrderPerTable
  EventsAnnounceLatestVersion
  TotalIsSumOfLines
  SubtotalWithinRounding
  PaymentIsCoherent
  ReportsBalance
PROPERTIES
  EveryChangeIsVersioned
  ImplementsTableService
  ConfirmedContentIsFrozen
SYMMETRY Interchangeable
CHECK_DEADLOCK FALSE
