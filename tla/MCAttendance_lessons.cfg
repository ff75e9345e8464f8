SPECIFICATION OneLessonSpec
CONSTANTS
  w1 = w1
  w2 = w2
  c1 = c1
  c2 = c2
  d1 = d1
  d2 = d2
  d3 = d3
  s1 = s1
  s2 = s2
  NoLesson = NoLesson
  Workers = {w1, w2}
  Students = {s1, s2}
  Lessons <- ThreeLessons
  Enrolled <- BothInFirst
  Marks = {"present", "absent"}
SYMMETRY Symmetric
CHECK_DEADLOCK FALSE
PROPERTIES MarkedOnce WarnedAtCrossing
