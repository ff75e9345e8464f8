CONSTANTS
  t1 = t1
  t2 = t2
  c1 = c1
  c2 = c2
  Tabs = {t1, t2}
  Calls = {c1, c2}
  MaxEvents = 1
SPECIFICATION Spec
INVARIANTS
  TypeOK
PROPERTIES
  LogoutEnds
  StaysSignedIn
  CallsSettle
CHECK_DEADLOCK FALSE
