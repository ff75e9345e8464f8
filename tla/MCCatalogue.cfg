CONSTANTS
  Requests = {q1, q2}
  Seed <- MCSeed
  Values = {"a", "b"}
  Dates = {0, 1, 2}
SYMMETRY Symmetry
SPECIFICATION Spec
INVARIANTS
  TypeOK
  AccountHasProfile
PROPERTIES
  NoStaleWrite
  RefusedForCause
CHECK_DEADLOCK FALSE
