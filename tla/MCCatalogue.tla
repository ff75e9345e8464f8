----------------------------- MODULE MCCatalogue -----------------------------
(* Two departments, courses and semesters and two rooms, of which one each *)
(* is referred to; a teacher, a student, a class session in the timetable. *)
(* The constraints on the rows are those of Models, which hold in the      *)
(* database if the migrations build them: Chain says so.                   *)
EXTENDS Catalogue, Chain, TLC

MCSeed ==
  {Row("department", "d1", [name |-> "a", code |-> "a"]),
   Row("department", "d2", [name |-> "c", code |-> "c"]),
   Row("course", "c1", [department_id |-> "d1", code |-> "a"]),
   Row("course", "c2", [department_id |-> "d1", code |-> "c"]),
   Row("semester", "s1", [name |-> "a", start_date |-> 0, end_date |-> 2]),
   Row("semester", "s2", [name |-> "c", start_date |-> 0, end_date |-> 2]),
   Row("room", "r1", [name |-> "a"]),
   Row("room", "r2", [name |-> "c"]),
   Row("user", "t", [email |-> "a", is_active |-> TRUE]),
   Row("teacher", "t", [user_id |-> "t", department_id |-> "d1", first_name |-> "a"]),
   Row("user", "u", [email |-> "c", is_active |-> TRUE]),
   Row("student", "u", [user_id |-> "u", department_id |-> "d1", first_name |-> "c"]),
   Row("class_session", "x", [course_id |-> "c1", teacher_id |-> "t", semester_id |-> "s1"]),
   Row("schedule_entry", "e", [class_session_id |-> "x", room_id |-> "r1", teacher_id |-> "t"])}

Symmetry == Permutations(Requests)
=============================================================================
