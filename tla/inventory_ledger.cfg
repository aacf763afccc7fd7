SPECIFICATION InventorySpec
CONSTANTS
  Products = {p1}
  Channels = {}
  Banks = {}
  Tables = {}
  StockTypes = {"FINISHED_PRODUCT", "NON_STOCKED"}
  Prices = {}
  FirstPrices = {None}
  None = None
  MaxAdminSteps = 2
  Clerks = {k1, k2}
  Tickets = {}
  Inputs = {10, 15}
  MaxStored = 3
  MaxMovements = 3
INVARIANTS
  LedgerReconstructsStock
  DriftIsBounded
PROPERTIES
  LedgerOnlyGrows
SYMMETRY Interchangeable
CHECK_DEADLOCK FALSE
