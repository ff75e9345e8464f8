------------------------------- MODULE Exams --------------------------------
(***************************************************************************)
(* Exams, attempts, answers and grades: exam_service.ExamService and       *)
(* grading_service.GradingService over exam_repository.ExamRepository, as  *)
(* request handlers that run in parallel.                                  *)
(*                                                                         *)
(* As in Fees, a worker runs one request at a time in a session of its own *)
(* at READ COMMITTED: a SELECT is a step, the writes take effect together  *)
(* at the commit, and the database refuses there what breaks a foreign key *)
(* or a unique constraint, an error no handler catches (a 500).            *)
(*                                                                         *)
(* A request that is refused changes nothing, so a guard on data left out  *)
(* here (the caller is the creator, the time limit is not exceeded, the    *)
(* marks are in range) only narrows which requests get to the next step.   *)
(***************************************************************************)
EXTENDS Integers, FiniteSets

CONSTANTS
  Workers,    \* threads that run request handlers
  Exams,      \* ids a POST /exams may be given (fresh uuids)
  Students,   \* rows of student
  Questions,  \* ids questions may be given (fresh uuids): bounds the edits
  Enrolled,   \* <<e, s>>: s is enrolled in the class session of e
  Moves       \* <<e, t>>: a PUT of e may ask for status t (a bound on inputs)

Attempts == Exams \X Students

ASSUME EnrolledAssumption == Enrolled \subseteq Attempts
ASSUME QuestionsAssumption == IsFiniteSet(Questions)
ASSUME IdsAssumption == "none" \notin Exams \cup Students

VARIABLES
  status,     \* exam.status; "none" before the row exists, "deleted" after
  questions,  \* ids of the question rows of each exam
  issued,     \* every question id ever committed
  attempt,    \* exam_submission.status; "none" while the row does not exist
  answers,    \* the questions each attempt has an answer row for
  option,     \* the question whose option each answer selects
  grades,     \* those whose answer has a question_grade row
  lost,       \* history: attempts the database has taken an answer from
  req         \* what each worker is doing, and what its session has read

exam == <<status, questions, issued>>
record == <<attempt, answers, option, grades, lost>>
vars == <<exam, record, req>>

EXAM_STATUS_ORDER ==
  [draft |-> 0, scheduled |-> 1, open |-> 2, closed |-> 3, published |-> 4]

ExamStatus == {"draft", "scheduled", "open", "closed", "published"}
Editable == ExamStatus \ {"published"}
AttemptStatus == {"none", "in_progress", "submitted", "graded"}

\* answer.selected_option_id may name an option of any question; Own is an
\* option of the question answered, or none (a written answer).
Own == [q \in Questions |-> q]

Request ==
  [ op        : {"none", "update", "delete", "start", "submit", "grade"},
    pc        : {"idle", "find", "validate", "select", "count", "save", "failed"},
    exam      : Exams \cup {"none"},
    student   : Students \cup {"none"},   \* whose attempt it is about
    loaded    : ExamStatus \cup AttemptStatus,  \* the status it has read
    target    : ExamStatus \cup {"none"}, \* update: the status to write
    questions : SUBSET Questions,         \* of the payload
    options   : [Questions -> Questions], \* submit: the options selected
    old       : SUBSET Questions,         \* rows found: to delete, to regrade
    complete  : BOOLEAN ]                 \* grade: every answer has a grade

Ask(op, pc, e, s) ==
  [op |-> op, pc |-> pc, exam |-> e, student |-> s, loaded |-> "none",
   target |-> "none", questions |-> {}, options |-> Own, old |-> {}, complete |-> FALSE]

NoRequest == Ask("none", "idle", "none", "none")

(***************************************************************************)
(* The type invariant.                                                     *)
(***************************************************************************)
TypeOK ==
  /\ status \in [Exams -> ExamStatus \cup {"none", "deleted"}]
  /\ questions \in [Exams -> SUBSET Questions]
  /\ issued \subseteq Questions
  /\ attempt \in [Attempts -> AttemptStatus]
  /\ answers \in [Attempts -> SUBSET Questions]
  /\ option \in [Attempts -> [Questions -> Questions]]
  /\ grades \in [Attempts -> SUBSET Questions]
  /\ lost \subseteq Attempts
  /\ req \in [Workers -> Request]

Init ==
  /\ status = [e \in Exams |-> "none"]
  /\ questions = [e \in Exams |-> {}]
  /\ issued = {}
  /\ attempt = [a \in Attempts |-> "none"]
  /\ answers = [a \in Attempts |-> {}]
  /\ option = [a \in Attempts |-> Own]
  /\ grades = [a \in Attempts |-> {}]
  /\ lost = {}
  /\ req = [w \in Workers |-> NoRequest]

Idle(w) == req[w].pc \in {"idle", "failed"}
At(w, op, pc) == req[w].op = op /\ req[w].pc = pc
About(w) == <<req[w].exam, req[w].student>>

Start(w, r) == req' = [req EXCEPT ![w] = r]
Finish(w) == req' = [req EXCEPT ![w] = NoRequest]

\* The database refuses the transaction: rolled back, answered with a 500.
Fail(w) ==
  /\ req' = [req EXCEPT ![w] = Ask(req[w].op, "failed", req[w].exam, req[w].student)]
  /\ UNCHANGED <<exam, record>>

-----------------------------------------------------------------------------
(***************************************************************************)
(* POST, PUT and DELETE /exams: the creating teacher, or an admin.         *)
(***************************************************************************)

\* A uuid is given out once, also while its row is not yet committed.
FreshQuestions == Questions \ (issued \cup UNION {req[w].questions : w \in Workers})

\* create_exam: nothing it reads can change under it, so it is one step.
CreateExam(e, Q) ==
  /\ status[e] = "none"
  /\ status' = [status EXCEPT ![e] = "draft"]
  /\ questions' = [questions EXCEPT ![e] = Q]
  /\ issued' = issued \cup Q
  /\ UNCHANGED <<record, req>>

\* Mutant: the status may be set to anything.
AnyStatus(e, t) == status[e] \in Editable

\* update_exam: 409 once published, 422 for a move backward.
MayMoveTo(e, t) ==
  /\ status[e] \in Editable
  /\ EXAM_STATUS_ORDER[status[e]] <= EXAM_STATUS_ORDER[t]

\* The exam is read and checked; a payload with questions replaces them all.
UpdateExam(w, e, t) ==
  /\ Idle(w)
  /\ MayMoveTo(e, t)
  /\ \/ Start(w, [Ask("update", "save", e, "none") EXCEPT !.loaded = status[e], !.target = t])
     \/ \E Q \in SUBSET FreshQuestions :
          Start(w, [Ask("update", "select", e, "none")
                      EXCEPT !.loaded = status[e], !.target = t, !.questions = Q])
  /\ UNCHANGED <<exam, record>>

\* delete_questions_for_exam: the SELECT of the rows to delete.
SelectQuestions(w) ==
  /\ At(w, "update", "select")
  /\ Start(w, [req[w] EXCEPT !.pc = "save", !.old = questions[req[w].exam]])
  /\ UNCHANGED <<exam, record>>

\* answer.selected_option_id is ON DELETE CASCADE: the answers of an attempt
\* that go with the questions Q, because they select an option of one of them.
Naming(a, Q) == {q \in answers[a] : option[a][q] \in Q}

\* The ORM deletes rows one by one, in the order of their uuids, which may be
\* any; a cascade deletes them in one statement.
Orders(Q) ==
  {rank \in [Q -> 1..Cardinality(Q)] : \A p, q \in Q : rank[p] = rank[q] => p = q}
AtOnce(Q) == [q \in Q |-> 0]

\* Mutant: a stored answer does not stop its question from being deleted.
DeletableAlways(Q, rank) == TRUE

\* answer.question_id is ON DELETE RESTRICT: an answer to one of Q must be gone
\* with its option by then.  So is question_grade.answer_id.
Deletable(Q, rank) ==
  \A a \in Attempts :
    /\ \A q \in answers[a] \cap Q : q \in Naming(a, Q) /\ rank[option[a][q]] < rank[q]
    /\ grades[a] \cap Naming(a, Q) = {}

\* What the deletion of Q takes with it.
Cascade(Q) ==
  /\ answers' = [a \in Attempts |-> answers[a] \ Naming(a, Q)]
  /\ option' = [a \in Attempts |->
                  [q \in Questions |-> IF q \in Naming(a, Q) THEN q ELSE option[a][q]]]
  /\ lost' = lost \cup {a \in Attempts : Naming(a, Q) # {}}
  /\ UNCHANGED <<attempt, grades>>

\* The ORM emits an UPDATE only for an attribute that differs from the value
\* it loaded.
Flushed(loaded, new, stored) == IF new = loaded THEN stored ELSE new

\* The commit.  An UPDATE of a row that is gone is an error.
SaveExam(w) ==
  LET e == req[w].exam
  IN /\ At(w, "update", "save")
     /\ \E rank \in Orders(req[w].old) :
        \/ /\ status[e] # "deleted"
           /\ Deletable(req[w].old, rank)
           /\ Cascade(req[w].old)
           /\ status' = [status EXCEPT ![e] = Flushed(req[w].loaded, req[w].target, @)]
           /\ questions' = [questions EXCEPT ![e] = (@ \ req[w].old) \cup req[w].questions]
           /\ issued' = issued \cup req[w].questions
           /\ Finish(w)
        \/ /\ status[e] = "deleted" \/ ~ Deletable(req[w].old, rank)
           /\ Fail(w)

\* delete_exam: 409 once published.
DeleteExam(w, e) ==
  /\ Idle(w)
  /\ status[e] \in Editable
  /\ Start(w, Ask("delete", "save", e, "none"))
  /\ UNCHANGED <<exam, record>>

\* exam_submission.exam_id is ON DELETE RESTRICT.
Attempted(e) == \E s \in Students : attempt[<<e, s>>] # "none"

\* The commit; the questions go with the exam (ON DELETE CASCADE).
CommitDelete(w) ==
  LET e == req[w].exam
  IN /\ At(w, "delete", "save")
     /\ \/ /\ ~ Attempted(e) /\ Deletable(questions[e], AtOnce(questions[e]))
           /\ Cascade(questions[e])
           /\ status' = [status EXCEPT ![e] = "deleted"]
           /\ questions' = [questions EXCEPT ![e] = {}]
           /\ Finish(w)
           /\ UNCHANGED issued
        \/ /\ Attempted(e) \/ ~ Deletable(questions[e], AtOnce(questions[e]))
           /\ Fail(w)

-----------------------------------------------------------------------------
(***************************************************************************)
(* POST /exams/{id}/start and /submit: an enrolled student.                *)
(***************************************************************************)

\* start_exam: the exam is open and the student enrolled.
StartExam(w, e, s) ==
  /\ Idle(w)
  /\ status[e] = "open"
  /\ <<e, s>> \in Enrolled
  /\ Start(w, Ask("start", "find", e, s))
  /\ UNCHANGED <<exam, record>>

\* Mutant: the attempt is inserted without looking for one.
FindAttemptBlind(w) ==
  /\ At(w, "start", "find")
  /\ Start(w, [req[w] EXCEPT !.pc = "save"])
  /\ UNCHANGED <<exam, record>>

\* An attempt that exists is returned (200) or refused (409).
FindAttempt(w) ==
  /\ At(w, "start", "find")
  /\ \/ /\ attempt[About(w)] = "none"
        /\ Start(w, [req[w] EXCEPT !.pc = "save"])
     \/ /\ attempt[About(w)] # "none"
        /\ Finish(w)
  /\ UNCHANGED <<exam, record>>

\* Mutant: the insert replaces an attempt that has appeared in between.
CommitStartOver(w) ==
  /\ At(w, "start", "save")
  /\ status[req[w].exam] # "deleted"
  /\ attempt' = [attempt EXCEPT ![About(w)] = "in_progress"]
  /\ Finish(w)
  /\ UNCHANGED <<exam, answers, option, grades, lost>>

\* The commit: (exam_id, student_id) is unique, and the exam must exist.
CommitStart(w) ==
  /\ At(w, "start", "save")
  /\ \/ /\ attempt[About(w)] = "none"
        /\ status[req[w].exam] # "deleted"
        /\ attempt' = [attempt EXCEPT ![About(w)] = "in_progress"]
        /\ Finish(w)
        /\ UNCHANGED <<exam, answers, option, grades, lost>>
     \/ /\ attempt[About(w)] # "none" \/ status[req[w].exam] = "deleted"
        /\ Fail(w)

\* submit_exam: the exam is open and the student enrolled.  Q are the
\* questions answered, possibly none, picked[q] the one whose option is selected.
SubmitExam(w, e, s, Q, picked) ==
  /\ Idle(w)
  /\ status[e] = "open"
  /\ <<e, s>> \in Enrolled
  /\ Start(w, [Ask("submit", "find", e, s) EXCEPT !.questions = Q,
                 !.options = [q \in Questions |-> IF q \in Q THEN picked[q] ELSE q]])
  /\ UNCHANGED <<exam, record>>

\* Mutant: what has been submitted or graded may be submitted again.
AnyAttempt(a) == attempt[a] # "none"

\* The attempt was started and not submitted yet.
Running(a) == attempt[a] = "in_progress"

ReadAttempt(w) ==
  /\ At(w, "submit", "find")
  /\ \/ Running(About(w)) /\ Start(w, [req[w] EXCEPT !.pc = "validate"])
     \/ ~ Running(About(w)) /\ Finish(w)
  /\ UNCHANGED <<exam, record>>

\* Mutant: the questions answered may be those of another exam.
BelongToSome(Q, e) == \E d \in Exams : Q \subseteq questions[d]

\* valid_question_ids; the options selected are not looked at.
BelongTo(Q, e) == Q \subseteq questions[e]

ValidateAnswers(w) ==
  /\ At(w, "submit", "validate")
  /\ \/ /\ BelongTo(req[w].questions, req[w].exam)
        /\ Start(w, [req[w] EXCEPT !.pc = "save"])
     \/ /\ ~ BelongTo(req[w].questions, req[w].exam)
        /\ Finish(w)
  /\ UNCHANGED <<exam, record>>

\* (submission_id, question_id) is unique in answer; the question and the
\* option selected exist.
Insertable(w) ==
  /\ answers[About(w)] \cap req[w].questions = {}
  /\ BelongTo(req[w].questions, req[w].exam)
  /\ \A q \in req[w].questions : \E e \in Exams : req[w].options[q] \in questions[e]

\* The commit: the answers and mark_submitted.
CommitSubmit(w) ==
  /\ At(w, "submit", "save")
  /\ \/ /\ Insertable(w)
        /\ answers' = [answers EXCEPT ![About(w)] = @ \cup req[w].questions]
        /\ option' = [option EXCEPT ![About(w)] =
             [q \in Questions |-> IF q \in req[w].questions THEN req[w].options[q] ELSE @[q]]]
        /\ attempt' = [attempt EXCEPT ![About(w)] = "submitted"]
        /\ Finish(w)
        /\ UNCHANGED <<exam, grades, lost>>
     \/ /\ ~ Insertable(w)
        /\ Fail(w)

-----------------------------------------------------------------------------
(***************************************************************************)
(* POST /exams/{id}/grade: the creating teacher.                           *)
(***************************************************************************)

\* 409 while the attempt is in progress.
Gradable(a) == attempt[a] \in {"submitted", "graded"}

\* grade_submission: Q are the answers graded by this request, at least one.
GradeSubmission(w, e, s, Q) ==
  /\ Idle(w)
  /\ Q # {}
  /\ Gradable(<<e, s>>)
  /\ Start(w, [Ask("grade", "count", e, s)
                 EXCEPT !.questions = Q, !.loaded = attempt[<<e, s>>]])
  /\ UNCHANGED <<exam, record>>

\* Mutants: only this request's grades are counted; an attempt is complete as
\* soon as one answer is graded.
CompleteOwn(w) ==
  /\ answers[About(w)] # {}
  /\ Cardinality(req[w].questions) >= Cardinality(answers[About(w)])
CompleteSome(w) == answers[About(w)] # {}

\* As many grades as answers, the uncommitted ones of this request included.
Complete(w) ==
  /\ answers[About(w)] # {}
  /\ Cardinality(grades[About(w)] \cup req[w].questions) >= Cardinality(answers[About(w)])

\* The answers of the payload are this attempt's (404); which have a grade
\* already, and whether that makes all of them.
CountGrades(w) ==
  /\ At(w, "grade", "count")
  /\ \/ /\ req[w].questions \subseteq answers[About(w)]
        /\ Start(w, [req[w] EXCEPT !.pc = "save", !.complete = Complete(w),
                                   !.old = grades[About(w)] \cap req[w].questions])
     \/ /\ ~ (req[w].questions \subseteq answers[About(w)])
        /\ Finish(w)
  /\ UNCHANGED <<exam, record>>

\* Mutant: nothing stops a grade of an answer that is gone.
UpsertableGone(w) == (req[w].questions \ req[w].old) \cap grades[About(w)] = {}

\* Grades found are updated, the others inserted; question_grade.answer_id is
\* unique, and the answer exists.
Upsertable(w) == req[w].questions \ req[w].old \subseteq answers[About(w)] \ grades[About(w)]

\* The commit: the grades, and mark_graded when they are complete.
CommitGrades(w) ==
  /\ At(w, "grade", "save")
  /\ \/ /\ Upsertable(w)
        /\ grades' = [grades EXCEPT ![About(w)] = @ \cup req[w].questions]
        /\ attempt' = [attempt EXCEPT ![About(w)] =
                         IF req[w].complete THEN Flushed(req[w].loaded, "graded", @) ELSE @]
        /\ Finish(w)
        /\ UNCHANGED <<exam, answers, option, lost>>
     \/ /\ ~ Upsertable(w)
        /\ Fail(w)

-----------------------------------------------------------------------------
\* The request dies (process stopped, connection lost, deadlock broken by the
\* database): what it had not committed is rolled back.
Abort(w) ==
  /\ ~ Idle(w)
  /\ Finish(w)
  /\ UNCHANGED <<exam, record>>

Manage(w) ==
  \/ \E e \in Exams, t \in ExamStatus : <<e, t>> \in Moves /\ UpdateExam(w, e, t)
  \/ SelectQuestions(w) \/ SaveExam(w)
  \/ \E e \in Exams : DeleteExam(w, e)
  \/ CommitDelete(w)

Sit(w) ==
  \/ \E e \in Exams, s \in Students :
       \/ StartExam(w, e, s)
       \/ \E Q \in SUBSET issued : \E picked \in [Q -> issued] : SubmitExam(w, e, s, Q, picked)
  \/ FindAttempt(w) \/ CommitStart(w)
  \/ ReadAttempt(w) \/ ValidateAnswers(w) \/ CommitSubmit(w)

Grade(w) ==
  \/ \E e \in Exams, s \in Students, Q \in SUBSET issued : GradeSubmission(w, e, s, Q)
  \/ CountGrades(w) \/ CommitGrades(w)

Next ==
  \/ \E e \in Exams, Q \in SUBSET FreshQuestions : CreateExam(e, Q)
  \/ \E w \in Workers : Manage(w) \/ Sit(w) \/ Grade(w) \/ Abort(w)

Spec == Init /\ [][Next]_vars

-----------------------------------------------------------------------------
(***************************************************************************)
(* The same system when every client waits for an answer before it sends   *)
(* its next request about an exam.  Different clients (the students, the   *)
(* creating teacher, an admin) still run in parallel; a deletion may be an *)
(* admin's and so overlaps with everything.                                *)
(***************************************************************************)
SameClient(v, w) ==
  /\ req[v].exam = req[w].exam
  /\ \/ /\ req[v].op \in {"start", "submit"} /\ req[w].op \in {"start", "submit"}
        /\ req[v].student = req[w].student
     \/ req[v].op \in {"update", "grade"} /\ req[w].op \in {"update", "grade"}

SequentialClients ==
  \A v, w \in Workers : v # w /\ ~ Idle(v) /\ ~ Idle(w) => ~ SameClient(v, w)

SequentialSpec == Init /\ [][Next /\ SequentialClients']_vars

-----------------------------------------------------------------------------
(***************************************************************************)
(* What holds whatever runs in parallel.                                   *)
(***************************************************************************)

\* Every answer is to a question its own exam still has and selects an option
\* of a question some exam has, every grade is of an answer, an attempt with
\* answers has been submitted, and an exam with attempts exists: no
\* interleaving of edits, deletions, submissions and grades leaves a row that
\* refers to nothing.
RecordsResolve ==
  \A e \in Exams, s \in Students :
    LET a == <<e, s>>
    IN /\ answers[a] \subseteq questions[e]
       /\ \A q \in answers[a] : \E d \in Exams : option[a][q] \in questions[d]
       /\ grades[a] \subseteq answers[a]
       /\ attempt[a] \in {"none", "in_progress"} => answers[a] = {}
       /\ attempt[a] # "none" => status[e] \in ExamStatus

\* How far the database lets a record be taken apart: no step of anyone removes
\* a grade or reopens an attempt, and an answer goes only while it has no grade,
\* in the commit that removes the question of the option it selects, which is
\* not the question it answers.  What a student answers with the options the
\* question offers, or in writing, is never lost.
LostOnlyWithItsOption ==
  [][\A a \in Attempts :
       /\ grades[a] \subseteq grades'[a]
       /\ attempt[a] \in {"submitted", "graded"} => attempt'[a] \in {"submitted", "graded"}
       /\ \A q \in answers[a] \ answers'[a] :
            /\ q \notin grades[a]
            /\ option[a][q] # q
            /\ \E e \in Exams : option[a][q] \in questions[e] \ questions'[e]]_vars

-----------------------------------------------------------------------------
(***************************************************************************)
(* What holds when clients are sequential.  Under Spec TLC refutes every   *)
(* one of these: each check above is of a row that may have changed by the *)
(* commit.                                                                 *)
(***************************************************************************)

\* The status of an exam never moves backward, and from published on its
\* questions stay as they are (BR-003).
PublishedFrozen ==
  [][\A e \in Exams :
       /\ status[e] = "published" => questions'[e] = questions[e] \/ status'[e] = "deleted"
       /\ status[e] \in ExamStatus /\ status'[e] \in ExamStatus
            => EXAM_STATUS_ORDER[status[e]] <= EXAM_STATUS_ORDER[status'[e]]]_vars

\* Two ways to be stranded.  Once the exam is closed and no submit is under
\* way, an attempt still in progress can never be submitted or graded; one
\* submitted without answers, or left without any, has nothing to grade and is
\* never marked graded.
\* Results of the exam can then never be submitted either.
LeftOpen(a) ==
  /\ status[a[1]] \in {"closed", "published"}
  /\ attempt[a] = "in_progress"
  /\ \A w \in Workers : req[w].op = "submit" /\ ~ Idle(w) => About(w) # a

HandedInEmpty(a) == attempt[a] = "submitted" /\ answers[a] = {}

StrandedForever ==
  [][\A a \in Attempts : /\ LeftOpen(a) => LeftOpen(a)'
                         /\ HandedInEmpty(a) => HandedInEmpty(a)']_vars

\* One submission per attempt: once submitted, it gets no further answer, and
\* the answers it keeps select what they selected.
SubmittedOnce ==
  [][\A a \in Attempts :
       attempt[a] \in {"submitted", "graded"} =>
         /\ answers'[a] \subseteq answers[a]
         /\ \A q \in answers'[a] : option'[a][q] = option[a][q]]_vars

\* An attempt all of whose answers have a grade is marked graded, whatever the
\* order the grades were saved in, unless the database took an answer from it.
GradedIsMarked ==
  \A a \in Attempts \ lost :
    /\ attempt[a] = "submitted"
    /\ answers[a] # {}
    => answers[a] # grades[a]

\* An attempt is marked graded only if it has answers and every one of them
\* has a grade.
MarkedIsGraded ==
  \A a \in Attempts : attempt[a] = "graded" => answers[a] = grades[a] /\ answers[a] # {}

\* A start request never ends in a database error while the exam exists: a
\* repeated start gets the attempt that is there.
StartIdempotent ==
  \A w \in Workers : At(w, "start", "failed") => status[req[w].exam] = "deleted"

=============================================================================
