SPECIFICATION OneAdminSpec
CONSTANTS
  r1 = r1
  r2 = r2
  t1 = t1
  t2 = t2
  mon = mon
  x1 = x1
  x2 = x2
  c1 = c1
  w1 = w1
  w2 = w2
  NoSlot = NoSlot
  Workers = {w1, w2}
  Rooms = {r1, r2}
  Teachers = {t1, t2}
  Days = {mon}
  Times = {0, 1, 2}
  Entries = {x1, x2}
  Requests = {c1}
  Payloads <- SomeLessons
  Wishes <- SomeWishes
SYMMETRY Symmetric
CHECK_DEADLOCK FALSE
INVARIANTS NoDoubleBooking RequestsResolve
PROPERTIES ResolvedOnce NoticesInOrder TimetableSpec
