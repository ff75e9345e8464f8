SPECIFICATION Spec
CONSTANTS
  w1 = w1
  w2 = w2
  w3 = w3
  e1 = e1
  e2 = e2
  s1 = s1
  q1 = q1
  q2 = q2
  Workers = {w1, w2}
  Exams = {e1, e2}
  Students = {s1}
  Questions = {q1, q2}
  Enrolled <- EnrolledInOne
  Moves <- StatusMoves
SYMMETRY Symmetric
CHECK_DEADLOCK FALSE
INVARIANT RecordsResolve
PROPERTIES LostOnlyWithItsOption
