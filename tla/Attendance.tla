------------------------------ MODULE Attendance ------------------------------
(***************************************************************************)
(* The attendance register and its low-attendance warnings:                *)
(* attendance_service.AttendanceService over                               *)
(* attendance_repository.AttendanceRepository, as request handlers that    *)
(* run in parallel.  A batch marks one lesson, a class session on a date.  *)
(*                                                                         *)
(* Workers, sessions, SELECTs and commits are as in Fees, Exams and        *)
(* Schedule.                                                               *)
(***************************************************************************)
EXTENDS Integers, FiniteSets

CONSTANTS
  Workers,    \* threads that run request handlers
  Students,   \* rows of student, active
  Lessons,    \* <<class session, date>>, scheduled and not in the future
  Enrolled,   \* <<s, c>>: s is enrolled in the class session c
  Marks,      \* bound: the statuses the requests use
  NoLesson

Status == {"present", "absent", "late", "excused"}

ASSUME LessonsAssumption == IsFiniteSet(Lessons) /\ NoLesson \notin Lessons
ASSUME MarksAssumption == Marks \subseteq Status

VARIABLES
  record,     \* record[s][l]: the status stored for s at l, or "none"
  warned,     \* <<s, l>>: s was sent a warning after the batch of l
  req         \* what each worker is doing, and what its session has read

vars == <<record, warned, req>>

Batches == [Students -> Marks \cup {"none"}]

Request ==
  [ op     : {"none", "mark", "correct"},
    pc     : {"idle", "read", "warn", "save"},
    lesson : Lessons \cup {NoLesson},
    batch  : Batches,               \* mark: the payload; "none" if not in it
    rest   : SUBSET Students,       \* of it, still to be read or reread
    fine   : SUBSET Students,       \* read at 80 % or more before the write
    drop   : SUBSET Students,       \* reread and found to be owed a warning
    target : SUBSET Students,       \* correct: whose record
    loaded : Status \cup {"none"},  \* the status it has read
    wanted : Status \cup {"none"} ] \* the status to store

Empty == [s \in Students |-> "none"]

Ask(op, pc) ==
  [op |-> op, pc |-> pc, lesson |-> NoLesson, batch |-> Empty, rest |-> {},
   fine |-> {}, drop |-> {}, target |-> {}, loaded |-> "none", wanted |-> "none"]

NoRequest == Ask("none", "idle")

(***************************************************************************)
(* The type invariant.  A warning is only ever due to a student who is     *)
(* still to be handled and was not below the threshold before.             *)
(***************************************************************************)
TypeOK ==
  /\ record \in [Students -> [Lessons -> Status \cup {"none"}]]
  /\ warned \subseteq Students \X Lessons
  /\ req \in [Workers -> Request]
  /\ \A w \in Workers : req[w].drop \subseteq req[w].rest \cap req[w].fine

Init ==
  /\ record = [s \in Students |-> [l \in Lessons |-> "none"]]
  /\ warned = {}
  /\ req = [w \in Workers |-> NoRequest]

Idle(w) == req[w].pc = "idle"
At(w, op, pc) == req[w].op = op /\ req[w].pc = pc
Start(w, r) == req' = [req EXCEPT ![w] = r]
Finish(w) == req' = [req EXCEPT ![w] = NoRequest]

-----------------------------------------------------------------------------
(***************************************************************************)
(* The percentage: late counts as attended, excused does not count at all, *)
(* and an empty register is 100 %.                                         *)
(***************************************************************************)
Class(l) == l[1]

Attended(r, L) == Cardinality({l \in L : r[l] \in {"present", "late"}})
Countable(r, L) == Cardinality({l \in L : r[l] \in {"present", "late", "absent"}})

\* Below LOW_ATTENDANCE_THRESHOLD, 80 %, in the lessons L.
Low(r, L) == 100 * Attended(r, L) < 80 * Countable(r, L)

\* Below it in the class session of l: the rows of list_for_student.
ClassOf(l) == {k \in Lessons : Class(k) = Class(l)}
LowIn(s, l) == Low(record[s], ClassOf(l))

-----------------------------------------------------------------------------
(***************************************************************************)
(* POST /attendance: the teacher of the class session.                     *)
(***************************************************************************)
Batch(w) == {s \in Students : req[w].batch[s] # "none"}

\* The check of every entry of the payload, before any write; else 409.
MarkAttendance(w, l, b) ==
  /\ Idle(w)
  /\ b # Empty
  /\ \A s \in Students :
       b[s] # "none" => <<s, Class(l)>> \in Enrolled /\ record[s][l] = "none"
  /\ Start(w, [Ask("mark", "read") EXCEPT
       !.lesson = l, !.batch = b, !.rest = {s \in Students : b[s] # "none"}])
  /\ UNCHANGED <<record, warned>>

\* percentages_before, one SELECT per student.
ReadPercentage(w, s) ==
  /\ At(w, "mark", "read")
  /\ s \in req[w].rest
  /\ Start(w, [req[w] EXCEPT
       !.rest = @ \ {s},
       !.fine = IF LowIn(s, req[w].lesson) THEN @ ELSE @ \cup {s}])
  /\ UNCHANGED <<record, warned>>

\* Mutant: the rows that another batch has inserted are skipped.
InsertableSome(w) == \E s \in Batch(w) : record[s][req[w].lesson] = "none"

\* uq_attendance_record_student_class_session_date; else 409, and no row.
Insertable(w) == \A s \in Batch(w) : record[s][req[w].lesson] = "none"

CommitMarks(w) ==
  /\ At(w, "mark", "read")
  /\ req[w].rest = {}
  /\ \/ /\ Insertable(w)
        /\ record' = [s \in Students |->
             IF s \in Batch(w)
             THEN [record[s] EXCEPT ![req[w].lesson] = req[w].batch[s]]
             ELSE record[s]]
        /\ Start(w, [req[w] EXCEPT !.pc = "warn", !.rest = Batch(w)])
     \/ /\ ~ Insertable(w)
        /\ Finish(w)
        /\ UNCHANGED record
  /\ UNCHANGED warned

\* Mutant: a warning for every mark that leaves the student below 80 %.
StillLow(w, s) == LowIn(s, req[w].lesson)

Dropped(w, s) == s \in req[w].fine /\ LowIn(s, req[w].lesson)

\* What is left to do after the commit.
Continue(w, r) == IF r.rest = {} THEN Finish(w) ELSE Start(w, r)

\* percentage_after, one SELECT per student, in a transaction of its own.
RereadPercentage(w, s) ==
  /\ At(w, "mark", "warn")
  /\ req[w].drop = {}
  /\ s \in req[w].rest
  /\ \/ Dropped(w, s) /\ Start(w, [req[w] EXCEPT !.drop = {s}])
     \/ ~ Dropped(w, s) /\ Continue(w, [req[w] EXCEPT !.rest = @ \ {s}])
  /\ UNCHANGED <<record, warned>>

\* notify_attendance_warning: a dispatch that fails is only logged, and the
\* handler goes on with the next student.
NotifyAttendanceWarning(w) ==
  /\ At(w, "mark", "warn")
  /\ req[w].drop # {}
  /\ \/ warned' = warned \cup (req[w].drop \X {req[w].lesson})
     \/ UNCHANGED warned
  /\ Continue(w, [req[w] EXCEPT !.rest = @ \ req[w].drop, !.drop = {}])
  /\ UNCHANGED record

-----------------------------------------------------------------------------
(***************************************************************************)
(* PUT /attendance/{id}: that teacher, or an admin.                        *)
(***************************************************************************)
UpdateAttendance(w, s, l, m) ==
  /\ Idle(w)
  /\ record[s][l] # "none"
  /\ Start(w, [Ask("correct", "save") EXCEPT
       !.lesson = l, !.target = {s}, !.loaded = record[s][l], !.wanted = m])
  /\ UNCHANGED <<record, warned>>

\* An UPDATE is sent only when the status differs from the one read.
Flushed(w, stored) == IF req[w].wanted = req[w].loaded THEN stored ELSE req[w].wanted

CommitUpdate(w) ==
  /\ At(w, "correct", "save")
  /\ record' = [s \in Students |->
       IF s \in req[w].target
       THEN [record[s] EXCEPT ![req[w].lesson] = Flushed(w, @)]
       ELSE record[s]]
  /\ Finish(w)
  /\ UNCHANGED warned

\* The request dies, or is refused for a reason left out here: what has not
\* been committed by then is lost.
Abort(w) ==
  /\ ~ Idle(w)
  /\ Finish(w)
  /\ UNCHANGED <<record, warned>>

Marking(w) ==
  \/ \E l \in Lessons, b \in Batches : MarkAttendance(w, l, b)
  \/ \E s \in Students : ReadPercentage(w, s)
  \/ CommitMarks(w)
  \/ \E s \in Students : RereadPercentage(w, s)
  \/ NotifyAttendanceWarning(w)

Correcting(w) ==
  \/ \E s \in Students, l \in Lessons, m \in Marks : UpdateAttendance(w, s, l, m)
  \/ CommitUpdate(w)

Next == \E w \in Workers : Marking(w) \/ Correcting(w) \/ Abort(w)

Spec == Init /\ [][Next]_vars

-----------------------------------------------------------------------------
(***************************************************************************)
(* The same system where a class session has one lesson marked at a time:  *)
(* the batch may be sent twice, or in parts, but no other lesson of the    *)
(* class is marked or corrected until it is answered.  Other class         *)
(* sessions run in parallel.                                               *)
(***************************************************************************)
OneLesson ==
  \A v, w \in Workers :
    v # w /\ req[v].op = "mark" /\ ~ Idle(w)
          /\ Class(req[v].lesson) = Class(req[w].lesson)
      => req[w].op = "mark" /\ req[w].lesson = req[v].lesson

OneLessonSpec == Init /\ [][Next /\ OneLesson']_vars

(***************************************************************************)
(* What holds whatever runs in parallel.                                   *)
(***************************************************************************)

GrowsByBatches ==
  \A s \in Students, l \in Lessons :
    record'[s][l] # record[s][l] =>
      \E w \in Workers :
        /\ req[w].lesson = l
        /\ \/ At(w, "correct", "save") /\ s \in req[w].target
           \/ /\ At(w, "mark", "read")
              /\ s \in Batch(w)
              /\ \A t \in Batch(w) :
                   record[t][l] = "none" /\ record'[t][l] = req[w].batch[t]

\* VR-005 and Rule 10: the register grows by whole batches, for a lesson
\* that none of their students had been marked at; what has been marked is
\* changed by a correction of that very record and by nothing else.
MarkedOnce == [][GrowsByBatches]_vars

(***************************************************************************)
(* What holds when one lesson is marked at a time, and is refuted without. *)
(***************************************************************************)

\* Without the record of l the class was attended well enough, with it it is
\* not: the genuine crossing of the threshold.
LowWithout(s, l) == Low(record[s], ClassOf(l) \ {l})
Crossing(s, l) == LowIn(s, l) /\ ~ LowWithout(s, l)

FairlyWarned ==
  /\ \A w \in Workers, s \in Students :
       RereadPercentage(w, s) => (req'[w].drop = {s} <=> Crossing(s, req[w].lesson))
  /\ \A s \in Students, l \in Lessons : <<s, l>> \in warned' \ warned => Crossing(s, l)

\* A student is found to be owed a warning exactly when the lesson marked
\* has taken the student across the threshold, and is sent none otherwise.
WarnedAtCrossing == [][FairlyWarned]_vars
=============================================================================
