------------------------------ MODULE MCExams -------------------------------
(***************************************************************************)
(* The instance of Exams for TLC.  Nobody is enrolled in e2, whose         *)
(* questions are there to have their options selected; a scheduled exam is *)
(* handled like a draft.                                                   *)
(***************************************************************************)
EXTENDS Exams, TLC

CONSTANTS e1, e2, s1, q1, q2, w1, w2, w3

EnrolledInOne == {<<e1, s1>>}
StatusMoves == ({e1} \X (ExamStatus \ {"scheduled"})) \cup ({e2} \X {"draft", "published"})

\* Threads are interchangeable, and so are the ids of questions.
Symmetric == Permutations(Workers) \cup Permutations(Questions)
=============================================================================
