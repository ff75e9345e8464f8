SPECIFICATION OneEachSpec
CONSTANTS
  w1 = w1
  w2 = w2
  e1 = e1
  e2 = e2
  s1 = s1
  s2 = s2
  s3 = s3
  a1 = a1
  a2 = a2
  g1 = g1
  g2 = g2
  Nobody = Nobody
  Workers = {w1, w2}
  Students = {s1, s2, s3}
  Exams = {e1, e2}
  Graded <- Graded23
  Admins = {a1, a2}
  Grades = {g1, g2}
SYMMETRY Symmetric
CHECK_DEADLOCK FALSE
INVARIANTS Decided ToldMeansPublished
PROPERTY ReviewSpec
