------------------------------ MODULE MCResults ------------------------------
(***************************************************************************)
(* An instance of Results for TLC: two exams of a course, one student was  *)
(* graded in the first of them only.                                       *)
(***************************************************************************)
EXTENDS Results, TLC

CONSTANTS e1, e2, s1, s2, s3, a1, a2, g1, g2, w1, w2

Graded23 == {e1, e2} \X {s1, s2, s3} \ {<<e2, s3>>}
Symmetric == Permutations({w1, w2}) \cup Permutations({s1, s2})
               \cup Permutations({g1, g2}) \cup Permutations({a1, a2})
=============================================================================
