----------------------------- MODULE MCAttendance -----------------------------
(***************************************************************************)
(* An instance of Attendance for TLC: class session c1 meets on two dates, *)
(* c2 on one; student s2 is enrolled in c1 only.                           *)
(***************************************************************************)
EXTENDS Attendance, TLC

CONSTANTS c1, c2, d1, d2, d3, s1, s2, w1, w2

ThreeLessons == {<<c1, d1>>, <<c1, d2>>, <<c2, d3>>}
BothInFirst == {<<s1, c1>>, <<s1, c2>>, <<s2, c1>>}
Symmetric == Permutations({w1, w2}) \cup Permutations({d1, d2})
=============================================================================
