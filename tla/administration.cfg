SPECIFICATION Spec
CONSTANTS
  Users = {u1, u2}
  Categories = {cat1, cat2}
  Channels = {ch1, ch2}
  Banks = {b1, b2}
  Tables = {s1, s2}
  Products = {p1, p2}
  Names = {n1, n2, empty}
  Empty = empty
  SeedNames = {n1}
  SeedCommissions = {"PERCENTAGE"}
  None = None
  Undefined = Undefined
  DemoRoles = {"CASHIER"}
  GivenRoles = {"ADMIN", "AUDITOR"}
  GivenCategories = {cat1}
  MaxInstant = 1
  Clients = {c1, c2}
  AUTH_COOKIE = TRUE
  LoginSteps = {"done"}
  MaxRequests = 2
INVARIANTS
  AdminTypeOK
  PermissionsAreCurrent
  AdministratorRemains
  AuditTellsCurrentRow
  KeysAreUnique
  DuplicatesNeedARace
  HistoryIsContiguous
  SeedConverges
PROPERTIES
  FieldsChangeByTheirRequests
SYMMETRY Interchangeable
CHECK_DEADLOCK FALSE
