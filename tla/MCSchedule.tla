----------------------------- MODULE MCSchedule -----------------------------
(***************************************************************************)
(* Instances of Schedule for TLC.                                          *)
(***************************************************************************)
EXTENDS Schedule, TLC

CONSTANTS r1, r2, t1, t2, mon, x1, x2, c1, w1, w2

Lesson(r, t, a, b) == [room |-> r, teacher |-> t, day |-> mon, start |-> a, end |-> b]

\* Slots that share a room, a teacher or neither, and overlap or touch.
SomeLessons ==
  {Lesson(r1, t1, 0, 2), Lesson(r2, t1, 1, 2), Lesson(r1, t2, 0, 1)}

Move(R, a, b) == [room |-> R, day |-> {}, start |-> a, end |-> b]

\* Begin later, end earlier, or move to another room.
SomeWishes == {Move({}, {1}, {}), Move({}, {}, {1}), Move({r1}, {}, {})}

\* Ids and threads are interchangeable.
Symmetric ==
  Permutations({x1, x2}) \cup Permutations({w1, w2})
=============================================================================
