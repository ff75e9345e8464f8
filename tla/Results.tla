------------------------------ MODULE Results -------------------------------
(***************************************************************************)
(* The final results of one course in one semester, and their review:      *)
(* result_service.ResultService over result_repository.ResultRepository,   *)
(* as request handlers that run in parallel, with the notices they         *)
(* dispatch.  There is one row per student, whichever exam of the course   *)
(* it was submitted for.                                                   *)
(*                                                                         *)
(* Workers, sessions, SELECTs and commits are as in Fees, Exams and        *)
(* Schedule: an UPDATE writes only the columns the handler changed, and an *)
(* INSERT that breaks the unique constraint fails the whole request.       *)
(***************************************************************************)
EXTENDS Integers

CONSTANTS
  Workers,    \* threads that run request handlers
  Students,   \* rows of student
  Exams,      \* the published, fully graded exams of the course
  Graded,     \* <<e, s>>: s is active, enrolled and has a graded attempt at e
  Admins,     \* rows of admin
  Grades,     \* grade letters with their points
  Nobody      \* NULL in a column, or no such row

ASSUME GradedAssumption == Graded \subseteq Exams \X Students
ASSUME NobodyAssumption == Nobody \notin Exams \cup Admins \cup Grades \cup Students

VARIABLES
  result,     \* result[s]: the row of s, or NoResult
  told,       \* the students sent a result_published notice
  req         \* what each worker is doing, and what its session has read

vars == <<result, told, req>>

Row ==
  [ status   : {"none", "submitted", "published", "rejected"},
    grade    : Grades \cup {Nobody},
    exam     : Exams \cup {Nobody},      \* with its submitting teacher
    approver : Admins \cup {Nobody} ]

NoResult == [status |-> "none", grade |-> Nobody, exam |-> Nobody, approver |-> Nobody]

Request ==
  [ op      : {"none", "submit", "approve", "reject"},
    pc      : {"idle", "read", "save", "notify"},
    exam    : Exams \cup {Nobody},
    batch   : [Students -> Grades \cup {Nobody}],  \* submit: the payload
    unread  : SUBSET Students,                      \* of it, not yet validated
    found   : [Students -> Row],                    \* the rows it has read
    student : Students \cup {Nobody},               \* whose row to decide about
    admin   : Admins \cup {Nobody} ]

NoBatch == [s \in Students |-> Nobody]
NoRows == [s \in Students |-> NoResult]

Ask(op, pc) ==
  [op |-> op, pc |-> pc, exam |-> Nobody, batch |-> NoBatch, unread |-> {},
   found |-> NoRows, student |-> Nobody, admin |-> Nobody]

NoRequest == Ask("none", "idle")

(***************************************************************************)
(* The type invariant.                                                     *)
(***************************************************************************)
TypeOK ==
  /\ result \in [Students -> Row]
  /\ told \subseteq Students
  /\ req \in [Workers -> Request]

Init ==
  /\ result = NoRows
  /\ told = {}
  /\ req = [w \in Workers |-> NoRequest]

Idle(w) == req[w].pc = "idle"
At(w, ops, pc) == req[w].op \in ops /\ req[w].pc = pc
Start(w, r) == req' = [req EXCEPT ![w] = r]
Finish(w) == req' = [req EXCEPT ![w] = NoRequest]

-----------------------------------------------------------------------------
(***************************************************************************)
(* POST /results/{examId}/submit: the exam's creating teacher.             *)
(***************************************************************************)
Batch(w) == {s \in Students : req[w].batch[s] # Nobody}

\* Grades for some of the students graded in the exam; nothing is read of
\* the rows yet.
SubmitResults(w, e, b) ==
  /\ Idle(w)
  /\ \A s \in Students : b[s] # Nobody => <<e, s>> \in Graded
  /\ Start(w, [Ask("submit", "read") EXCEPT
       !.exam = e, !.batch = b, !.unread = {s \in Students : b[s] # Nobody}])
  /\ UNCHANGED <<result, told>>

\* Mutant: only what is published blocks another submission.
OpenAlsoSubmitted(s) == result[s].status # "published"

\* There is no row, or it was rejected; else 409.
Open(s) == result[s].status \notin {"submitted", "published"}

\* The validation of one entry of the payload.
ReadResult(w, s) ==
  /\ At(w, {"submit"}, "read")
  /\ s \in req[w].unread
  /\ \/ Open(s) /\ Start(w, [req[w] EXCEPT !.unread = @ \ {s}, !.found[s] = result[s]])
     \/ ~ Open(s) /\ Finish(w)
  /\ UNCHANGED <<result, told>>

\* uq_result_student_course_semester.
Insertable(w) ==
  \A s \in Batch(w) : req[w].found[s] = NoResult => result[s] = NoResult

\* create and update_for_resubmission.
Resubmitted(e, g) == [status |-> "submitted", grade |-> g, exam |-> e, approver |-> Nobody]

\* The columns an UPDATE leaves in a row that may have changed since.
Flushed(loaded, new, stored) == IF new = loaded THEN stored ELSE new

Merged(loaded, new, stored) ==
  [ status   |-> Flushed(loaded.status, new.status, stored.status),
    grade    |-> Flushed(loaded.grade, new.grade, stored.grade),
    exam     |-> Flushed(loaded.exam, new.exam, stored.exam),
    approver |-> Flushed(loaded.approver, new.approver, stored.approver) ]

\* Mutant: a resubmission keeps the admin who rejected the first submission.
WrittenKeepingApprover(w, s) ==
  [Merged(req[w].found[s], Resubmitted(req[w].exam, req[w].batch[s]), result[s])
     EXCEPT !.approver = result[s].approver]

Written(w, s) ==
  Merged(req[w].found[s], Resubmitted(req[w].exam, req[w].batch[s]), result[s])

CommitResults(w) ==
  /\ At(w, {"submit"}, "read")
  /\ req[w].unread = {}
  /\ \/ /\ Insertable(w)
        /\ result' = [s \in Students |-> IF s \in Batch(w) THEN Written(w, s) ELSE result[s]]
     \/ /\ ~ Insertable(w)
        /\ UNCHANGED result
  /\ Finish(w)
  /\ UNCHANGED told

-----------------------------------------------------------------------------
(***************************************************************************)
(* POST /results/{id}/approve: admins.                                     *)
(***************************************************************************)

\* Mutant: a rejected result may still be approved.
AwaitingOrRejected(s) == result[s].status \in {"submitted", "rejected"}

Awaiting(s) == result[s].status = "submitted"

ApproveOrReject(w, a, s) ==
  /\ Idle(w)
  /\ Awaiting(s)
  /\ \E op \in {"approve", "reject"} :
       Start(w, [Ask(op, "save") EXCEPT !.student = s, !.admin = a])
  /\ UNCHANGED <<result, told>>

Outcome(op) == IF op = "approve" THEN "published" ELSE "rejected"

\* mark_approved and mark_rejected: these two columns and no other.
CommitDecision(w) ==
  /\ At(w, {"approve", "reject"}, "save")
  /\ result' = [result EXCEPT
       ![req[w].student].status = Outcome(req[w].op),
       ![req[w].student].approver = req[w].admin]
  /\ \/ req[w].op = "approve" /\ Start(w, [req[w] EXCEPT !.pc = "notify"])
     \/ req[w].op = "reject" /\ Finish(w)
  /\ UNCHANGED told

\* notify_result_published: after the commit, in a transaction of its own.
NotifyResultPublished(w) ==
  /\ At(w, {"approve"}, "notify")
  /\ told' = told \cup {req[w].student}
  /\ Finish(w)
  /\ UNCHANGED result

\* The request dies, is refused for a reason left out here, or its dispatch
\* fails and is only logged: what has not been committed by then is lost.
Abort(w) ==
  /\ ~ Idle(w)
  /\ Finish(w)
  /\ UNCHANGED <<result, told>>

Submitting(w) ==
  \/ \E e \in Exams, b \in [Students -> Grades \cup {Nobody}] : SubmitResults(w, e, b)
  \/ \E s \in Students : ReadResult(w, s)
  \/ CommitResults(w)

Deciding(w) ==
  \/ \E a \in Admins, s \in Students : ApproveOrReject(w, a, s)
  \/ CommitDecision(w)
  \/ NotifyResultPublished(w)

Next == \E w \in Workers : Submitting(w) \/ Deciding(w) \/ Abort(w)

Spec == Init /\ [][Next]_vars

-----------------------------------------------------------------------------
(***************************************************************************)
(* The same system where the course's teacher and the admin each wait for  *)
(* their answers; the two still run in parallel with one another.          *)
(***************************************************************************)
OneEach ==
  \A v, w \in Workers :
    v # w /\ ~ Idle(v) /\ ~ Idle(w) => (req[v].op = "submit") # (req[w].op = "submit")

OneEachSpec == Init /\ [][Next /\ OneEach']_vars

(***************************************************************************)
(* What holds then, and is refuted without that.                           *)
(***************************************************************************)

\* Whoever was told that a result is published still has that result: it
\* has not been withdrawn by a resubmission or a rejection under way.
ToldMeansPublished == \A s \in told : result[s].status = "published"

\* The rows go through the abstract review: what is published or under
\* review never changes, and only what was rejected is submitted again.
Book == [s \in Students |-> [state |-> result[s].status, mark |-> result[s].grade]]

Abstract == INSTANCE Review WITH People <- Students, Marks <- Grades, book <- Book

ReviewSpec == Abstract!Spec

(***************************************************************************)
(* What holds whatever runs in parallel.                                   *)
(***************************************************************************)

\* BR-002: no row is published or rejected without the admin who did it, and
\* a row waiting for a decision does not carry an old one.
Decided ==
  \A s \in Students :
    result[s].status \in {"published", "rejected"} <=> result[s].approver # Nobody
=============================================================================
