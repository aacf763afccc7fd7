SPECIFICATION Spec
CONSTANTS
  Products = {p1}
  Channels = {mostrador}
  Banks = {}
  Tables = {}
  StockTypes = {"FINISHED_PRODUCT", "NON_STOCKED"}
  Prices = {100}
  FirstPrices = {100, None}
  None = None
  MaxAdminSteps = 1
  Clerks = {k1}
  Tickets = {t1}
  Inputs = {10}
  MaxStored = 2
  MaxMovements = 3
  OPERATIONS_SSE = FALSE
  MaxVersion = 3
INVARIANTS
  ReversalMirrorsSale
SYMMETRY Interchangeable
CHECK_DEADLOCK FALSE
