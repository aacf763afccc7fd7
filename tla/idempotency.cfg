SPECIFICATION Spec
CONSTANTS
  Attempts = {r1, r2}
  Keys = {k1}
  Bodies = {b1, b2}
  None = None
  OPTIMISTIC_VERSIONING = FALSE
  MaxRetries = 1
  MaxExecutions = 2
INVARIANTS
  TypeOK
  OncePerKey
  SuccessIsOfThisCall
PROPERTIES
  RecordsAreFinal
SYMMETRY Interchangeable
CHECK_DEADLOCK FALSE
