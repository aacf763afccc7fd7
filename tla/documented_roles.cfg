SPECIFICATION Spec
CONSTANTS
  Users = {u1, u2}
  Categories = {cat1}
  Channels = {ch1}
  Banks = {b1}
  Tables = {s1}
  Products = {p1}
  Names = {n1, n2, empty}
  Empty = empty
  SeedNames = {n1}
  SeedCommissions = {"PERCENTAGE"}
  None = None
  Undefined = Undefined
  DemoRoles = {"CASHIER", "MANAGER", "AUDITOR"}
  GivenRoles = {"AUDITOR"}
  GivenCategories = {cat1}
  MaxInstant = 1
  Clients = {c1, c2}
  AUTH_COOKIE = TRUE
  LoginSteps = {"done"}
  MaxRequests = 1
INVARIANT OnlyDocumentedRoles
SYMMETRY Interchangeable
CHECK_DEADLOCK FALSE
