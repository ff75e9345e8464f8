SPECIFICATION SerialSpec
CONSTANTS
  w1 = w1
  w2 = w2
  w3 = w3
  s1 = s1
  s2 = s2
  d1 = d1
  d2 = d2
  f1 = f1
  f2 = f2
  Workers = {w1, w2}
  Students = {s1, s2}
  Departments = {d1, d2}
  Structures = {f1}
  Scope <- MCScopeOne
  Charges = {3}
  Amounts = {1, 2}
  MaxReminders = 1
SYMMETRY MCSymmetry
INVARIANT NeverOverpaid
INVARIANT StatusExact
PROPERTY LedgerSpec
