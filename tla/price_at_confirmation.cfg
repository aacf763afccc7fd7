SPECIFICATION Spec
CONSTANTS
  Products = {p1}
  Channels = {mostrador}
  Banks = {b1}
  Tables = {}
  StockTypes = {"NON_STOCKED"}
  Prices = {100, 300}
  FirstPrices = {100, 300, None}
  None = None
  MaxAdminSteps = 1
  Clerks = {}
  Tickets = {t1}
  Inputs = {10}
  MaxStored = 4
  MaxMovements = 0
  OPERATIONS_SSE = FALSE
  MaxVersion = 4
PROPERTIES
  PriceIsCurrentAtConfirmation
CHECK_DEADLOCK FALSE
