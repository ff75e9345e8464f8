# The university management system, in TLA+

This directory models the services of `src/backend/app` that keep the records of
a university: what is owed and paid, who sat which exam, which class is where,
which grades are published, and who attended. Each of these modules describes one
service as the request handlers really run: several at once, each in its own
database session, with nothing locked. Around them stand modules about what all
services share: the catalogue of rows they refer to, the session of a signed-in
browser, the threads and connections requests run on, and the schema with the
migrations that build it. TLC checks the modules on small instances, and TLAPS
proves most of their safety properties for every instance.

Contents:

1. The system and its components
2. How a request handler is modelled
3. The modules, one by one
4. The runs
5. The proofs
6. Disagreements between the code and its documentation
7. What is not modelled
8. The plan

## 1. The system and its components

A FastAPI application over PostgreSQL, with a React client. The endpoint
functions are ordinary (not `async`) functions, so the framework runs them in a
pool of threads. Every request has a SQLAlchemy session of its own
(`db/session.py`): no autoflush, READ COMMITTED, closed at the end of the
request, so that what is not committed is rolled back. Services never use
`SELECT ... FOR UPDATE`, never check a row version, and commit explicitly. Every
service is therefore a *check, then act* program whose checks may be out of date
when it acts; only unique constraints, foreign keys and CHECK constraints are
evaluated at the moment of the write. The repository's integration tests use one
connection and one request at a time, so no test meets an interleaving: that is
where these modules look.

| Component | State | Operations | Hard behaviour | What makes it correct |
|---|---|---|---|---|
| Fees (`fee_service`) | fee structures, invoices, payments | create structure (bills every eligible student), record payment, list overdue accounts, send reminders | balance read before the payment is inserted; status derived from that sum; notices after the commit, one by one | payments never exceed the fee; status agrees with the money; nothing recorded is lost; notices only about what is committed |
| Exams (`exam_service`, `grading_service`) | exams, questions, attempts, answers, grades | create, edit (replaces all questions), delete, start, submit, grade | edits and deletions against running attempts; two submits; two graders; closing under a running attempt | an answer that selects an option of its own question is never lost; published is frozen; one attempt, one submission; graded exactly when everything is marked |
| Schedule (`schedule_service`) | timetable entries, change requests | create, update, delete entry; ask for, approve, reject a change | overlap checked before insert; columns written one by one; a request outlives what it was about | no double booking; valid times; each request decided once; notices in order |
| Results (`result_service`) | one result per student, course and semester | submit a batch, resubmit what was rejected, approve, reject | two decisions, or a decision and a resubmission, at once; rows written column by column | the review is respected; whoever was told of a result has it |
| Attendance (`attendance_service`) | attendance records | mark a batch, correct a record | batch sent twice; percentage read before and after the commit | no batch twice or in part; a warning exactly at the crossing of 80 % |
| Users (`user_service`) | accounts, students, teachers, parents | create, update, deactivate, own profile | account and profile written together; two updates of one row | every account has its profile; an update changes only what it was asked to |
| Class sessions, enrolment | rows only added | create | insertion after a lookup, a deletion in between | references resolve; refusals tell the truth |
| Authentication (`auth_service`) | the id of the one refresh token a user has | login, refresh with rotation, logout, change password | two refreshes with one token; logout against refresh | a logout ends the session; a silent refresh does not |
| Browser session (`apiClient.ts`) | stored tokens, one refresh in flight per page | request, refresh, clear | calls answered 401 early and late; two tabs share the storage but not the flight; lost answers | a valid session is never thrown away; every call ends |
| Login rate limit | window of attempts, in memory | attempt | read, filtered and written back by threads | at most five attempts per window |
| Notifications (`dispatcher.py`, `notification_service`) | notices, read flag | dispatch, list, mark as read | transactions of their own after the business commit; failures only logged | no notice about what did not happen |
| Reference data (`reference_data_service`) | departments, courses, rooms, semesters | create, update, delete | deletion against creation of a dependent row; dates checked against a row loaded earlier | references resolve; no update writes back what it merely loaded |
| Request scheduling (`session.py`, `main.py`) | 40 threads, 15 connections, one event loop | queue, take, hold, commit, close | threads wait for connections whose holders wait for threads; endpoints on the event loop hold up everyone | every request is eventually answered; every connection comes back; the event loop never waits |
| Schema and migrations (`models`, `alembic`) | tables, keys, indexes, enum types; the version | upgrade, downgrade | a command killed half-way; two commands at once; types a dropped table leaves behind | the schema is that of the version, at head that of the models |
| Role checks, error handlers, reports, pages, seeds | none of their own | — | — | — |

How they interact. Results reads exams and attempts: a result can be submitted
only when every attempt at the exam is graded, so an attempt that can never be
graded blocks the exam's results. Fees reads users and enrolments when it bills.
Every service calls the dispatcher after its own commit, and the dispatcher opens
a transaction of its own. All of them share the pool of connections and, through
the database, each other's committed rows. The browser's one refresh in flight
stands between every page and every service: a call answered 401 waits for it.

`PROJECT.json` lists, under `hazards`, the places in the code where these
behaviours bite, each with the properties that watch it or the reason none does
yet.

## 2. How a request handler is modelled

`Fees`, `Exams`, `Schedule`, `Results` and `Attendance` share one idiom.

* `Workers` is the set of threads. `req[w]` is what worker `w` is doing: the
  operation, the program counter, and **what its session has read**. An idle
  worker may start any request. Two workers at different program counters are two
  requests that overlap.
* A `SELECT` is a step: it copies what is committed now into `req[w]`. A check
  that reads and refuses is part of the step that read. Several statements are
  merged into one step only where no other committed row they read matters to
  what they decide.
* A **commit** is one step: everything the handler wrote becomes visible
  together, computed from the values *read earlier* where the code computes it
  from them, and from the row as it is now where the database does (an `INSERT`,
  a column the `UPDATE` leaves out). SQLAlchemy writes a column only if the value
  differs from the one it loaded; the operators `Flushed` and `Merged` say so,
  because otherwise two overlapping updates would mix differently than they do.
* Constraints of the database (unique keys, foreign keys) are guards of the
  commit step, with a disjunct for the failure: 409 where the code catches the
  error, an unhandled 500 where it does not. In both cases the whole transaction
  is undone.
* Notices are steps of their own after the commit, in a transaction of their own
  (`_safe_dispatch`): they may fail and then are only logged.
* `Abort(w)` ends a request at any program counter: the process stops, the
  connection breaks, an exception is raised. The session's work is lost and what
  was committed stays. It is the crash of these modules: nothing but the database
  survives a request, so a restart is every request aborting.
* A request that is refused (validation, role, ownership, not found) changes
  nothing, so a refusal that depends on data the module leaves out is modelled
  by the request not getting to its next step.

Each of the five has two specifications. `Spec` lets everything overlap. The second
one (`SerialSpec`, `SequentialSpec`, `OneAdminSpec`, `OneEachSpec`,
`OneLessonSpec`) has the same actions restricted by a discipline of the
**clients**, `Next /\ Discipline'`: for example that payments of one invoice are
not recorded at the same time. The code does not enforce these disciplines; they
say what an office has to do for the promise to hold, and everything the
discipline does not mention still overlaps. A property is checked under `Spec`
when it holds there. To see that a property needs its discipline, replace the
`SPECIFICATION` line of the run's `.cfg` by `Spec`: TLC then shows the
interleaving that breaks it (section 4 says for which properties).

`Catalogue` uses the same idea in a smaller form (a request looks up, writes in
one transaction, refreshes), and `Alembic` runs whole commands in place of
requests. `Sessions` and `RequestPool` are described in section 3.

**Fairness.** Seven of the modules state safety only and assume no fairness.
`Sessions` and `RequestPool` promise that something happens, and assume weak
fairness of what is already under way, never of anybody's decision:

* `RequestPool`: `WF(Step(r))` for every request `r`. A thread that has its
  connection runs on, a free thread or connection is handed out, the event loop
  returns to its queue, and a wait for a connection ends after the pool's
  timeout of 30 seconds, which `create_engine` in `db/session.py` leaves at its
  default. `Arrive` is not fair: nobody has to send a request. Weak fairness is
  enough for the line of waiting requests because threads are given in order.
* `Sessions`: `WF(Progress(to))` for every call and every tab. A request at the
  server is handled and its answer delivered, unless it is lost. Losing one is
  an event that may happen but need not, so the assumption is that an answer
  arrives or the wait for it is given up. For calls this is the 10 second
  timeout of `apiClient`; the refresh is sent with plain `axios.post`, without a
  timeout, so there it is TCP and the server that must answer or fail. Logins,
  page loads, expiry and what admins do are not fair.

The runs check deadlock except where the configuration says `CHECK_DEADLOCK
FALSE`: where every exam may be deleted, every lesson marked, every request
answered or every call made, there may be nothing left to do, and fresh ids are
bounded. The fees and the migrations never come to rest, and deadlock is checked
there.

## 3. The modules, one by one

`PROJECT.json` maps every definition to the lines it stands for; this section
gives the correspondence in words. Definitions keep the names of the code
(`IssueInvoices`, `MayMoveTo` and so on are names for unnamed blocks of it).
Operators marked *Mutant* in a comment are plausible bugs: each is used once, in
place of the definition that follows it, to see that the property named in
`PROJECT.json` notices.

### Fees, Ledger

`Fees` models `fee_service.FeeService` and `fee_repository.FeeRepository`.

| Variable | Code |
|---|---|
| `active`, `department`, `enrolled` | `user.is_active`, `student.department_id`, the enrolments of the semester billed |
| `charge` | `fee_structure.amount`, 0 before the row exists |
| `status`, `paid` | `invoice.status` and the sum of the invoice's payments |
| `pastDue` | the structures whose due date is before today |
| `feeDue` | committed `fee_due` dispatches of an invoice, at issue and as reminders |

| Action | Code |
|---|---|
| `CreateFeeStructure`, `IssueInvoices` | `create_fee_structure`: the structure is flushed and the eligible students read; structure and invoices are committed together |
| `NotifyFeeDue`, `NotifyFails` | one turn of the dispatch loop, committed or only logged |
| `NotifyOverdueAccounts` | `notify_overdue_accounts`: the list is read once, then the same loop |
| `RecordPayment`, `ReadInvoice`, `SumPayments`, `CommitPayment` | `record_payment`: the lookups; the invoice and its status; the sum and the balance check; payment and status, committed |
| `CreateEnrollment`, `UpdateStudent`, `DueDatePasses` | what other services and the calendar do to the rows read |

Money is counted in whole units (subtraction is exact; see the hazard on binary
fractions). Repeated ids in the payload of the overdue notice are left out. A
dispatch, which notifies the student and the parents in one transaction, is one
notice. One semester is billed.

`Ledger` is the abstract specification: accounts are billed once, a payment is
taken against the balance in one step, and the payment that meets the balance
settles the account. `LedgerSpec` is `Ledger` under the mapping `Books`.

### Exams

`Exams` models `exam_service.ExamService` and `grading_service.GradingService`.

| Variable | Code |
|---|---|
| `status` | `exam.status`; `"none"` before the row, `"deleted"` after |
| `questions`, `issued` | the question rows of an exam, each with its options; every question id ever given out |
| `attempt` | the status of the one `exam_submission` an exam and a student may have |
| `answers`, `grades` | the questions an attempt has an `answer` and a `question_grade` row for |
| `option` | `answer.selected_option_id`, as the question whose option it is; the question answered itself (`Own`) also stands for a written answer, which selects none |
| `lost` | history: the attempts the database has taken an answer from |

| Action | Code |
|---|---|
| `CreateExam` | `create_exam`, one commit of fresh rows |
| `UpdateExam`, `SelectQuestions`, `SaveExam` | `update_exam`: status and monotonicity check on what was loaded; the questions to delete; deletion and re-insertion with the new status |
| `DeleteExam`, `CommitDelete` | `delete_exam`: status checked, then `DELETE` by primary key; refused by the foreign key if there are attempts |
| `StartExam`, `FindAttempt`, `CommitStart` | `start_exam`: exam open; existing attempt returned, or a new row inserted under the unique key |
| `SubmitExam`, `ReadAttempt`, `ValidateAnswers`, `CommitSubmit` | `submit_exam`: exam open; attempt in progress; the questions answered belong to the exam, the options selected are not looked at; answers and new status committed (`Insertable`: unique key, question and option exist) |
| `GradeSubmission`, `CountGrades`, `CommitGrades` | `grade_submission`: attempt gradable; grades and answers counted (`Complete`); grades upserted (`Upsertable`: the answers still exist), status written. A payload has at least one grade (`schemas/grading.py`) |

What deleting questions does is decided by four foreign keys. The options go with
their question (`question_option.question_id`, `CASCADE`), and with an option go
the answers that select it (`answer.selected_option_id`, `CASCADE`; `Naming`,
`Cascade`). An answer to a deleted question refuses the deletion
(`answer.question_id`, `RESTRICT`), and so does a grade of an answer that would go
(`question_grade.answer_id`, `RESTRICT`). `Deletable` is the last two. An edit
deletes its questions row by row, in the order of their uuids, which may be any
(`Orders`): an answer to one of them that selects an option of another is gone in
time if the other comes first. The deletion of an exam takes its questions in one
statement (`AtOnce`).

Left out, as refusals: who created the exam, the time limit, the range of marks.
Enrolment is constant. The read-only views are not there. A deletion by the
teacher does nothing that one by an admin could not.

### Schedule, Timetable

`Schedule` models `schedule_service.ScheduleService` (entries and change
requests). `slot` is the `schedule_entry` rows (room, teacher, day, start, end),
`used` the ids ever given to one, `change` the `schedule_change_request` rows,
`notice` the last notice about each entry, `told` the teachers told the outcome
of each request.

| Action | Code |
|---|---|
| `CreateEntry`, `CheckConflicts`, `CommitCreate` | `create_entry`: values validated; `find_overlapping_entries`; INSERT, refused only by a unique key on equal start times (`Collide`) |
| `UpdateEntry`, `CheckConflicts`, `CommitUpdate`, `Refresh`, `NotifyScheduleChange` | `update_entry`: merged with the row loaded; overlap check; UPDATE of the columns that differ (`Merged`); the row read again for the notice |
| `DeleteEntry`, `CommitDelete`, `NotifyScheduleChange` | `delete_entry`, refused by the foreign key while any change request names the entry |
| `AskChange`, `CommitAsk` | `create_change_request` |
| `ResolveChangeRequest`, `LoadEntry`, `CheckConflicts`, `CommitResolve`, `AnswerTeacher` | `resolve_change_request`: pending; entry loaded and merged with what is asked; overlap check; entry and decision committed; the entry's teacher told |

`Payloads` and `Wishes` bound what requests may ask for. Students and the class
session of an entry are left out: the service books rooms and teachers.

`Timetable` is the abstract specification: bookings appear, move and disappear
one at a time, and no step admits a clash.

### Results, Review

`Results` models `result_service.ResultService` for one course and semester:
`result` is the row of each student (status, grade, the exam it came from with
its submitting teacher, approver), `told` the students sent `result_published`.

| Action | Code |
|---|---|
| `SubmitResults`, `ReadResult`, `CommitResults` | `submit_results`: the batch; one SELECT per student for an existing row, refused unless it is rejected; INSERTs under the unique key (`Insertable`) and column-wise UPDATEs, all in one commit |
| `ApproveOrReject`, `CommitDecision`, `NotifyResultPublished` | `approve_or_reject`: the row must be submitted; UPDATE; the notice after an approval |

The exams are published and fully graded throughout (`Graded` says who has an
attempt), grades are opaque, and the GPA, the pending queue, the transcript and
the list per exam, all of them reads, are left out.

`Review` is the abstract specification: submitted, then published or rejected;
only a rejected result is submitted again, and nothing else ever changes.

### Attendance

`Attendance` models `attendance_service.AttendanceService`. A lesson is a class
session on a date; `record[s][l]` is the status of a student at a lesson, and
`warned` the warnings sent.

| Action | Code |
|---|---|
| `MarkAttendance`, `ReadPercentage`, `CommitMarks` | `mark_attendance`: the batch and its duplicate check; the percentage before, one SELECT per student; all records inserted in one commit or none (unique key, 409) |
| `RereadPercentage`, `NotifyAttendanceWarning` | the loop after the commit: the percentage again, and a warning if it was at least 80 % before and is below now |
| `UpdateAttendance`, `CommitUpdate` | `update_attendance`: the record loaded; UPDATE if the status differs |

The percentage is computed as in the repository: `late` counts as attended,
`excused` counts neither way, and no countable lesson is 100 %. `Low` compares
`100 * attended < 80 * countable`, which is what the division compares, without
fractions. Enrolment, schedule and date are constants; a student listed twice in
one payload is always refused by the unique key and left out.

### Schema, Migrations, Alembic

`Schema` is the ORM's picture of the database: one record per class of
`app/models` with its required and optional columns, foreign keys (with their
`ON DELETE`), enum types, unique keys, indexes and the names of its CHECK
constraints; `Models` is `Base.metadata`. Column types other than enums, and
server defaults, are left out. `Migrations` holds the ten revisions of
`alembic/versions`, each a sequence of DDL statements up and one down, written
from the revision files and not from the models. `Alembic` runs them: `db` is the
committed catalog and the rows of `alembic_version`, `run[p]` the command of
process `p` with its uncommitted additions, removals and locks.

| Action | Code |
|---|---|
| `Start` | `alembic upgrade` or `downgrade` to any version: the recorded version is read and the revisions planned |
| `Overlap` | any command while two rows are recorded: alembic refuses, the revisions overlap |
| `Ddl` | one statement of a revision; it waits for the locks of the other command and fails when it creates what exists or drops what is missing or still used |
| `Stamp` | the row of `alembic_version` inserted, updated or deleted after each revision; it waits for a command that has written the same row |
| `Commit` | the one transaction of `env.py` (`context.begin_transaction`) |
| `Die`, `DeadlockVictim` | the process is killed; PostgreSQL breaks a circle of locks. Both roll everything back |

`alembic_version` has the version as its primary key, so two commands exclude each
other only on the rows both write (`Keys`, `Taken`, `Touches`). A command that
starts on an empty table inserts its first row without looking whether another has
appeared: that is how two rows come to be recorded. `Version` is the newest one.
The table itself is there from the start.

What a statement adds, removes, locks and fails on is in `Statements`, a module of
operators without variables. `Chain` states what the revisions have to be like for
the commands to be safe: no two create the same object, each downgrade drops what
its upgrade created and nothing else, no statement fails when the revisions run one
after the other, and together they build `Models`. These are facts about constants;
TLC evaluates them for the ten revisions at the start of the run `catalogue`, whose
constraints are those of `Models`, and section 5 uses nothing else about the
revisions.

### Catalogue

`Catalogue` models `reference_data_service`, `user_service` and the two creations
of `schedule_service` that only add rows. `rows` are the committed rows, each a
table, an id and the columns that matter; the constraints evaluated on them
(`Fits`, `Referenced`) are read from `Models` of `Schema`, so the two modules
cannot disagree about a foreign key. `req` is what each request has looked up and
is about to write. Every handler of these services has one of three shapes:

| Action | Code |
|---|---|
| `CreateDepartment` ... `CreateSemester`, `CreateStudent`, `CreateTeacher`, `CreateClassSession`, `CreateEnrollment` through `Create`, then `WriteCreate` | lookups (422 when a reference is missing); INSERTs in one transaction; the `IntegrityError` answered as "already exists" or not caught |
| `UpdateDepartment` ... `UpdateSemester`, `UpdateStudent`, `UpdateTeacher`, `DeactivateStudent`, `UpdateMe` through `Update`, then `WriteUpdate` | the rows loaded (404) and the new references looked up (422); an UPDATE of the columns whose value differs from the one loaded (`Dirty`) |
| `DeleteDepartment` ... `DeleteSemester` through `Delete`, then `WriteDelete` | the row loaded (404); a DELETE refused by `RESTRICT` (409) |
| `Refresh` | `session.refresh` after the commit, which fails if the row is gone by then |

A request is sent once, so two requests meet in every order. `Seed` is what the
database holds before, an input: `SeedAssumption` says that it satisfies the
constraints, that its accounts and profiles are paired (seeds and the first admin
are made so), and that its ids are not among the new ones.

### Sessions

`Sessions` composes the server's side of one account (`auth_service`,
`middleware/auth.py`) with the client's (`apiClient.ts`, `tokenStorage.ts`,
`AuthContext.tsx`).

| Variable | Code |
|---|---|
| `account` | `user.current_refresh_token_jti`, whether that token is unexpired, `is_active` |
| `issued`, `live` | tokens given out; access tokens that have not expired |
| `store` | `localStorage`, shared by the tabs |
| `tabs` | per page: whether it shows a user, and `refreshPromise` |
| `calls`, `handlers` | the calls pages make and the requests on their way, at the server, or answered |
| `events`, `causes` | a bound; what has disturbed the session since the last login |

| Action | Code |
|---|---|
| `GetCurrentUser`, `ReadForRefresh`, `ReadForLogin` | the checks of a request, on what it reads |
| `SetRefreshToken`, `ClearRefreshToken` | the commit of login and refresh; that of logout, which clears the token's id and its expiry, an UPDATE only if a token was loaded |
| `Send`, `CallAnswered` | the interceptors: the stored token is attached; a first 401 waits for the tab's refresh or starts it, anything else settles the call |
| `Refreshed`, `RefreshRefused` | the end of `refreshAccessToken`: every waiting call is repeated, or the session is cleared and the login page loaded |
| `Login`, `LoginAnswered`, `Reload`, `Lose` | the login page; a page load, whose requests run on unheard while their answers are dropped (`Abandon`); a lost request or answer: if it had reached the server it still runs there |
| `SetActive`, `AccessTokenExpires`, `RefreshTokenExpires` | an admin; the lifetimes of tokens |

Answers are taken from `handlers` in any order. A login with a wrong password
changes nothing and is left out. A wrong *current* password of `PUT /auth/password`
is answered 401, and `apiClient` excludes only login and refresh from its
interceptor: the call refreshes and is repeated once, and the second 401 is handed
to the page. That is what a call does here whose access token has expired and whose
new one expires before the repetition.

### RequestPool

`RequestPool` models what every request shares. `Plan` lists the jobs of each
kind of request in the order FastAPI runs them: the session, the user, the role,
then the endpoint in a thread and the validation of its response in another (an
answer without a body, 204, has none); or the endpoint on the event loop (`async
def`, the documents of `routers/reports.py` and the like) and then the making of
the document in a thread. A login is counted first, and the health check looks up
nobody. `req[r]` says where the request is, what is left of its plan, and whether
it holds a thread or a connection; `line` is the queue for threads, `loop` the
request that occupies the event loop.

| Action | Code |
|---|---|
| `Arrive`, `Advance` | a request is accepted; its next job is queued |
| `GetThread`, `RunOnLoop` | the thread limiter, in order; an `async` endpoint takes the loop, and until it returns nothing is handed on |
| `GetConnection`, `GiveUp` | the session's first statement takes a connection, or waits, for at most `pool_timeout`; the timeout is caught by the health check and by a notice after a commit (`_safe_dispatch`), after which the endpoint goes on; otherwise it is answered 500 |
| `Commit`, `UseAgain` | the connection goes back at a commit, and is needed again by the refresh or the notices after it |
| `Return` | the job ends, or raises |
| `Answer`, `Close` | a success is answered first and `get_db` closes its session afterwards (FastAPI since 0.118; 0.139.0 is pinned), an error is answered after the close; closing runs in a thread outside the limit |

## 4. The runs

| Run | Specification | Instance | Properties |
|---|---|---|---|
| `fees_concurrent` | `Spec` | 3 workers, 1 student, 1 structure of 2, payments of 1 or 2 | `StatusHonest`, `OverpaymentBounded`, `NoticesFollowCommits`, `BooksOnlyGrow` |
| `fees_serial` | `SerialSpec` | 2 workers, 2 students in 2 departments, 1 structure of 3 | `NeverOverpaid`, `StatusExact`, `LedgerSpec` |
| `exams_concurrent` | `Spec` | 2 workers, 2 exams, 1 student, 2 questions | `RecordsResolve`, `LostOnlyWithItsOption` |
| `exams_sequential` | `SequentialSpec` | 3 workers, 2 exams, 1 student, 2 questions | `GradedIsMarked`, `MarkedIsGraded`, `StartIdempotent`, `PublishedFrozen`, `StrandedForever`, `SubmittedOnce` |
| `schedule_serial` | `OneAdminSpec` | 2 workers, 2 entries, 1 change request, 3 payloads, 3 wishes | `NoDoubleBooking`, `RequestsResolve`, `ResolvedOnce`, `NoticesInOrder`, `TimetableSpec` |
| `schedule_outcome` | `OneAdminSpec` | as `schedule_serial` | `OutcomeToldToRequester`: violated |
| `results_sequential` | `OneEachSpec` | 2 workers, 3 students, 2 exams, 2 admins, 2 grades | `Decided`, `ToldMeansPublished`, `ReviewSpec` |
| `attendance_lessons` | `OneLessonSpec` | 2 workers, 2 students, 3 lessons of 2 class sessions | `MarkedOnce`, `WarnedAtCrossing` |
| `alembic` | `AlembicSpec` | 2 processes, all 10 revisions, all 26 tables | `SchemaIsVersion`, `HeadMatchesModels`, `FailsOnlyBesideAnother`, `VersionByOneRun` |
| `catalogue` | `Spec` | 2 requests of any kind on 14 rows | `TypeOK`, `AccountHasProfile`, `NoStaleWrite`, `RefusedForCause` |
| `sessions` | `Spec`, fair | 2 tabs, 2 calls, 1 disturbance | `TypeOK`, `LogoutEnds`, `StaysSignedIn`, `CallsSettle` |
| `pool` | `Spec`, fair | 3 requests, 2 threads, 1 connection, 2 transactions each | `LoopNeverWaits`, `ConnectionComesBack`, `EveryRequestAnswered` |

A property that is proved for every instance (section 5) and whose run would only
repeat another one is not run: the type invariants of the first five modules,
`OverdueOwes`, `SettledStaysSettled`, `ValidTimes`. Add it to the `.cfg` named
here to see it checked.

What they show:

* **Fees.** Whatever overlaps or dies: the status of an invoice never claims more
  than its payments show, nothing recorded is lost, a notice is always about a
  committed invoice, and an overpayment stays below the fee times the number of
  threads. If payments of one invoice do not overlap, the service is the ledger.
  Under `Spec` TLC refutes `NeverOverpaid` and `SettledStaysSettled` (a late
  commit of a smaller total sets a paid invoice back to partially paid).
* **Exams.** Whatever overlaps: no row refers to nothing, no grade is removed and
  no submission taken back. An answer can be removed, and the property says how far
  that goes: only while it has no grade, and only in the commit that deletes the
  question of the option it selects, a question *other* than the one it answers.
  Nothing stops a client from sending such an answer (section 6), but an answer
  that selects an option its question offers, or is written, is never lost. With
  every client (each student, the creating teacher, an admin) waiting for its own
  answers, a published exam does not change; a submitted attempt gets no further
  answer and those it keeps select what they did; it is marked graded only when
  every answer is, and always then, unless an answer was taken from it: the last
  ungraded one may go with its option, and the attempt then stays unmarked until
  some answer of it is graded once more.
  Under `Spec` TLC refutes all six of these, with two workers.
  `StrandedForever` states a hazard rather than a wish: an attempt still in progress
  when its exam closes stays so for ever, and one submitted without answers, or left
  without any, has nothing to grade and is never marked graded; `submit_results`
  refuses the exam while there is either.
* **Schedule.** With one admin at a time, and teachers asking in parallel, the
  service is a timetable that never admits a clash; a change request keeps its
  entry and is decided once. `RequestsResolve` holds under `Spec` too (proved).
  Under `Spec` TLC refutes `NoDoubleBooking`, `ValidTimes` (the start of one update
  and the end of another) and `ResolvedOnce`.
* **Results.** With one submission and one decision at a time, in parallel with
  one another, the rows go through the abstract review. `Decided` holds under
  `Spec` too (it is proved); `ToldMeansPublished` and `ReviewSpec` do not.
* **Attendance.** A batch is stored once and as a whole, under `Spec` too (proved).
  With one lesson of a class session at a time (its batch may be sent twice or in
  overlapping parts), a warning is due exactly at a genuine crossing; under `Spec`
  TLC refutes it: two lessons marked in parallel both see the crossing.
* **Migrations.** After any history of upgrades and downgrades, killed, failing or
  two at a time, the database is exactly what the revisions up to its version
  create, and at head exactly what the models declare, CHECK constraints, enum
  values and indexes included. Every downgrade undoes its upgrade: a command that
  runs alone does not fail. One thing goes wrong. An `upgrade +1` that began on the
  empty database and is overtaken by an `upgrade head` does nothing to the schema,
  the first revision being empty, and records it beside the other's: two rows, after
  which alembic refuses every command until somebody deletes one by hand. TLC reaches
  it, and the properties say exactly this much: the schema belongs to the newest
  recorded version, beside it at most the row of revision 0001 is recorded, a command
  alone fails only then, and no other row is ever written beside the version.
* **Catalogue.** Whichever two requests meet: an account has one profile and a
  profile its account; a column changes only to what a payload gives for it
  (`update_semester` assigns both dates, and only the ORM's rule of changed columns
  keeps it from writing back an old one); and a refusal with a misleading message,
  or an unhandled 500, needs a row that changed after it was looked up.
* **Sessions.** A refresh is refused only for a deactivated account or an expired
  session, unless one of the causes the property names has disturbed it: a logout,
  a login elsewhere, a lost refresh, a page load that cut one off, or a refresh of
  the other tab at the same time. The last is a limit of the client: one page has
  one refresh, two pages have two. Every call ends. From the commit of a logout on
  the account accepts no token until a login, or a refresh that had read the account
  *before* that commit and writes after it: both have passed their checks by then,
  and TLC reaches the state in which a session that was logged out is open again. No
  refresh that arrives after the logout does that, whatever token it carries.
* **Pool.** Requests block one another while threads wait for connections and
  connections for threads, and the timeout alone ends it: without it TLC finds
  the circle. A successful answer is sent while the session still has its
  connection; every connection comes back for good all the same, whether its request
  succeeds, raises, times out between two transactions or is answered already. Code
  on the event loop has its connection before it starts, for the user was looked up
  in the same session.

The bounds, and why they are enough:

* *Workers.* A race between two requests needs two workers, an intrusion between
  two overlapping ones a third. Three are used where a property depends on it
  (`OverpaymentBounded` counts workers) and where there are three sequential clients
  (`exams_sequential`: a student, the teacher and an admin).
  Two suffice elsewhere, because every check in these services reads state that
  one other commit can make stale. The theorems are for any number.
* *Rows.* One or two of each kind, plus one of a different kind where the code
  tells them apart: a student outside the structure's department, a student
  enrolled in one class session only, a student not graded at one exam. Payloads
  of the timetable are slots that share a room, a teacher or neither, and overlap
  or touch; wishes begin later, end earlier or move to the other room. In the
  catalogue one row of each table is referred to and one is free, and two new
  names stand beside those in use.
* *Exams.* The student is enrolled in one exam. The other is there to be edited and
  deleted while answers select options of its questions, and two questions can also
  stand in one exam, so an answer can lose its option to the other exam or to its own.
  `Moves` bounds the status a `PUT` asks for: a scheduled exam is handled like a
  draft, and of an exam nobody sits only whether it is published matters. About
  660 000 states in the concurrent run and 540 000 in the sequential one.
* *Amounts.* A fee of 3 with payments of 1 and 2 has every case: less than the
  balance, equal to it, more, first, middle and last.
* *Attendance.* With at most two countable lessons of a class session any absence
  is below 80 %, so the crossing and the recovery (through corrections) both occur.
* *Migrations.* Nothing is scaled down; two processes are enough for a command and
  one beside it. Every version is a target of every command.
* *Sessions.* Two calls can share a refresh, arrive before and after it, come from
  one tab or from both, or be a call and a logout. `MaxEvents` bounds the
  disturbances (lost answers, page loads, logins, admins, expiry of the session) to
  one; access tokens expire without bound. With `MaxEvents = 2` the same properties
  hold on 1 million states (set it in `MCSessions.cfg`; about four minutes).
  `LogoutEnds`, `StaysSignedIn` and `TypeOK` are proved for any number of tabs,
  calls and events, so only `CallsSettle` depends on the bounds.
* *Pool.* More threads than connections is what matters, as in the deployment (40
  and 15), and a third request, so that one holds the connection while two hold
  the threads. `MaxTransactions` lets an endpoint give its connection back and ask
  again twice: after a commit, and after a notice whose wait timed out. Each request is sent once, so that an answer is the end of it.
* *Fresh ids.* An id is a uuid and used once; the sets of ids bound how many rows
  are ever created. `MaxReminders` bounds the reminders of one invoice.
* *Symmetry* is declared on threads, processes, requests and rows that no formula
  tells apart, and in no run with a liveness property.

Every property of a passing run has a mutant in `PROJECT.json`: a plausible bug
in the mapped code that makes TLC refute that property on that very instance.

## 5. The proofs

All theorems are for **any** number of workers, rows and amounts, under the
named assumptions of the modules: ids and the constants that stand for NULL are
distinct (`IdsAssumption`, `NamesAssumption`, `NobodyAssumption`,
`NoSlotAssumption`), only finitely many questions exist (`QuestionsAssumption`),
amounts are positive naturals (`AmountAssumption`, from the schemas and CHECK
constraints), times and dates are numbers (`DatesAssumption`), the threads, calls
and requests are finitely many (`WorkersAssumption`, `CallsAssumption`,
`PoolAssumption`; the second also tells tabs, calls and the rest of the world
apart and makes the number of events a natural number), the rows there were before
are ones the database could hold (`SeedAssumption`), and the bounds are subsets of
what they bound; the processes that migrate are finitely many (`ProcsAssumption`)
and the revisions have the five properties of `Chain` (`ChainAssumption`). TLC
evaluates each of them in the runs of its module, the last in the run `catalogue`.

| Module | Theorems | Inductive invariant |
|---|---|---|
| `FeesProofs`, under `Spec` | `FeesTypeCorrect`, `FeesStatusHonest`, `FeesNoticesFollowCommits`, `FeesBooksOnlyGrow`, `FeesOverpaymentBounded` | `FeesInv`, and for the last `PaymentsInv` |
| `FeesProofs`, under `SerialSpec` | `FeesNeverOverpaid`, `FeesStatusExact`, `FeesOverdueOwes`, `FeesSettledStaysSettled`, `FeesImplementLedger` | `SerialInv` |
| `ExamsProofs`, under `Spec` | `ExamsTypeCorrect`, `ExamsRecordsResolve`, `ExamsLostOnlyWithItsOption` | `ExamsInv`, and for the last `Fresh` |
| `ExamsProofs`, under `SequentialSpec` | `ExamsGradedIsMarked`, `ExamsMarkedIsGraded`, `ExamsStartIdempotent`, `ExamsPublishedFrozen`, `ExamsSubmittedOnce`, `ExamsStrandedForever` | `SequentialInv` |
| `ScheduleProofs`, under `Spec` | `ScheduleTypeCorrect`, `ScheduleRequestsResolve` | `ScheduleInv` |
| `ScheduleProofs`, under `OneAdminSpec` | `ScheduleNoDoubleBooking`, `ScheduleValidTimes`, `ScheduleResolvedOnce`, `ScheduleNoticesInOrder`, `ScheduleImplementsTimetable` | `OneAdminInv` |
| `ResultsProofs`, under `Spec` | `ResultsTypeCorrect`, `ResultsDecided` | `ResultsInv` |
| `ResultsProofs`, under `OneEachSpec` | `ResultsToldMeansPublished`, `ResultsImplementReview` | `OneEachInv` |
| `AttendanceProofs`, under `Spec` | `AttendanceTypeCorrect`, `AttendanceMarkedOnce` | `AttendanceInv` |
| `AttendanceProofs`, under `OneLessonSpec` | `AttendanceWarnedAtCrossing` | `LessonInv` |
| `DatabaseProofs`, under `Spec` of `Catalogue` | `TypeCorrect`, `ProfilePaired`, `WritesPayload`, `RefusalsMeant` | `CatalogueInv` |
| `DatabaseProofs`, under `AlembicSpec` | `AlembicInvHolds`, `SchemaBelongsToVersion`, `HeadIsModels`, `AloneSucceeds`, `VersionMovesByOneRun` | `AlembicInv` |
| `SessionsProofs` | `SessionInvHolds`, `LogoutEndsSession` | `SessionInv` |
| `SessionsProofs` | `SignedInvHolds`, `StaysSignedInHolds` | `SignedInv` |
| `SessionsProofs` | `TypeCorrect` | `CountInv` |
| `RequestPoolProofs` | `PoolInvHolds`, `TypeCorrect`, `LoopWaitsForNothing` | `PoolInv` |

The arguments, and why the properties are not inductive on their own:

* **Fees under `Spec`.** `StatusHonest` speaks about a commit that is computed
  from an old sum, so the invariant has to say what an old sum still tells: the
  sum in `req[w]` is at most what is paid now, because payments are never taken
  back (`PayingSane`). `NoticesFollowCommits` needs that no two workers announce
  the same invoice, which holds because a structure's id is given to one request
  (`NoTwoOnOne`).
* **Overpayment.** How much too much is paid depends on how many payments were
  checked before the first was written. `PaymentsInv` keeps the count: of the
  requests about to write on an invoice (`Writing`), either all of them together
  still fit below the bound with a whole fee each, or one of them has compared
  its own amount with what was left and the others fit with a fee each (`Room`).
  The request that checks last is that witness, a write by another uses up its
  fee, and a request that dies frees one. No sum over the workers is needed, only
  the cardinality of a finite set.
* **Fees, serial.** What was read is still current: `ReadsCurrent` says the
  status and sum in `req[w]` equal the stored ones until the commit. It survives
  steps of other workers because they cannot be paying the same invoice. The
  refinement of `Ledger` follows: the commit of a payment is a `Pay`, that of a
  structure a `Bill`, and every other step a stutter.
* **Exams under `Spec`.** A commit writes for rows found earlier, so the invariant
  says what a session may still rely on (`AllHold`): an exam found has existed, an
  attempt found exists, what is about to be graded again has a grade. It survives
  because every step is `Steady`: it takes back no attempt and no grade, and
  removes no answer that has one or selects an option of its own question. Answers
  are removed by the cascade alone. `CascadeRows` says what is left of them once
  the foreign keys have allowed it in some order (`Removable`), and
  `CascadeResolves` that those left still resolve. That an answer goes *with the
  question of its option* needs one more fact, which `Fresh` carries: a question
  belongs to one exam, and the questions an edit will insert stand in none, so no
  edit removes a question and puts it back (`CascadeGone`).
* **Exams, sequential clients.** `AllCurrent` adds that what was read about the
  client's own rows is still so at the commit: no step writes rows of another
  client (`Lawful`), except that an exam may be deleted. Grading is where it
  matters: `Complete` compares cardinalities, which says that *all* answers have a
  grade only because the grades are among the answers, of which there are finitely
  many (`CompleteMeansAll`, `AllMeansComplete`). That no answers at all are never
  complete is part of `MarkedIsGraded`, and gives the second half of
  `StrandedForever`. An answer that the cascade takes marks its attempt as `lost`,
  and it leaves every grade, so neither half of grading is disturbed
  (`CascadeLawful`). The action properties follow from what every step does to an
  exam and an attempt (`Tidy`).
* **Schedule under `Spec`.** Targets of requests under way are tied to the rows
  (`Targets`), and an id announced as cancelled was used and is not given out
  again (`Announced`).
* **Schedule, one admin.** `AllReady` says that what the admin's handler loaded
  and checked is still so when it writes; teachers' requests only add rows of
  `change`, so every other step is *calm* for it. The refinement of `Timetable`
  maps the three commits to `Book`, `Move` and `Cancel`.
* **Results.** Under `Spec`: the row a submission has found was open when it was
  read, so the columns it writes over a decided row still leave approver and
  status in step (`AllHold`, `Absent`). Under `OneEachSpec`: a submission writes
  only open rows and a decision only awaiting ones (`Rightful`), so neither
  disturbs what the other has read (`AllCurrent`).
* **Attendance.** `MarkedOnce` needs only the shape of a request
  (`AttendanceInv`). `WarnedAtCrossing` needs that the percentage read before the
  batch equals the percentage *without* the marked lesson, for every student who
  can still be inserted, and that nothing of the class session moves until the
  warnings are out (`AllCurrent`); `LowDepends` and the lemmas after it say which
  records a percentage depends on.
* **Catalogue.** A write is computed from what was looked up, so the invariant says
  what every operation has put into its request (`Prepared`): the rows a creation
  will insert and the looked-up rows that settle its references, the rows an
  update has loaded with what it assigns, the row a deletion has loaded.
  `AccountHasProfile` is carried in a form without cardinalities (`Matched`): no
  operation deletes an account or profile, no update assigns `user_id`, and the
  two rows of a new account are inserted together under an id that stands in no
  row yet (`Ids`). `NoStaleWrite` follows from what an UPDATE writes (`Dirty`):
  `update_semester` assigns the date it loaded, which is then equal to the loaded
  value and not written. `RefusedForCause` is the case analysis of the
  constraints: with everything looked up still in place, the references hold, so
  what failed is a unique key, and where nothing catches an error none can occur.
* **Migrations.** `SchemaIsVersion` only speaks of what is committed, and what is
  committed next depends on what a command has done so far to a catalog that
  others may change meanwhile. `Command` says that a transaction has done exactly
  the statements it is past: on the way up it has added what they create
  (`Building`), on the way down removed what they drop and added nothing
  (`Dismantling`), and it has locked the names of all that; no two commands hold
  the same lock or have written the same row (`Separate`). `Anchored` says what
  others cannot take from under it: a command that has stamped a revision has
  written the row of the version it read, so nobody else moves that row; and one
  that has executed a statement holds a lock on an object that is, or is not,
  there, so the database has not gone past that revision meanwhile. Two commands
  escape this and are `Stray`: one that began on the empty database and was
  overtaken, whose insert of the first revision's row matches nothing and touches
  no row of the other, and one that takes such a row out again. They have changed
  nothing in the catalog, and if a stray command was to do more, its next
  statement creates a table that is there. `AtVersion` is therefore stated with
  the newest recorded version and allows the one extra row. Everyone else who
  commits finds the version it read, and the catalog it leaves is that of its
  target. A command beside which no other ran always sees the catalog its
  revisions were made for, where `Chain` says no statement fails. The proof knows
  the revisions by `ChainAssumption` only: an eleventh one needs the evaluation of
  `Chain` again and no change of the proof.
* **Sessions.** `LogoutEnds` is about whoever writes while the account has no
  token: a login, or a refresh, and that refresh has loaded a token, which it can
  only have done before the logout committed. So the invariant says that a refresh
  on its way carries a token and one that has been accepted has loaded one
  (`AllHarmless`): an account without a token accepts none. The rest of
  `SessionInv` is the shape of tokens and requests that this needs, and
  `OnlySetRefreshToken` that no other step gives the account a token.
  `StaysSignedIn` compares the token a refresh carries with the one the account
  accepts at a later moment. `SignedInv` first says who waits for what (`Linked`:
  a call that was sent has its request, a tab that is refreshing has its refresh,
  and a waiting call has a tab that is refreshing), and then that in a session
  nothing has disturbed (`Intact`) there is one refresh at all, that it carries
  the accepted token, and that while there is none the storage holds that token:
  the rotation and the storing of its result are two steps, and between them it is
  the answer that carries the token. `TypeOK` bounds the number of tokens, which
  needs a count over everything under way (`Counted`): tokens issued and requests
  that will issue one are never more than the bounded events and the calls that
  have been refused or ended.
* **Pool.** `PoolInv` ties where a request is in its plan to what it holds: a
  thread exactly while a job of it runs in one (`Placed`), a connection from the
  lookup of the user until a commit or the close (`Connected`), a place in the
  line exactly while it waits for a thread (`Waiting`, with `Distinct(line)`), and
  the two limits (`Counted`). `LoopNeverWaits` is `Connected` at the one place
  where an endpoint runs on the loop.

Only model-checked:

* liveness (`EveryRequestAnswered`, `ConnectionComesBack`, `CallsSettle`), which
  needs fairness and `ENABLED`;
* that the ten revisions have the properties of `Chain`, an evaluation of constants;
* what TLC refutes, of course, and that the properties need their disciplines.

Out of the prover's reach in general, and so left to TLC wherever the modules
come to need them: liveness under fairness, `ENABLED`, and induction over data.

## 6. Disagreements between the code and its documentation

The run `schedule_outcome` checks a comment and shows how the code departs from
it; it is listed under `findings` in `PROJECT.json`:

* *"notify the requesting Teacher of the outcome"* (`schedule_service.py:488`). The
  code tells the teacher the entry has now.

Four more departures of the same kind are reached by the models. Each is shown by
adding one formula to a configuration that is here:

* `answer.question_id` is `RESTRICT` because an answer *"represents a real student's
  recorded response and should not be silently destroyed by an exam-content edit"*
  (`models/answer.py:8-10`):
  `[][\A a \in Attempts : answers[a] \subseteq answers'[a]]_vars` in
  `MCExams_concurrent.cfg`. The other key, `selected_option_id`, is `CASCADE`
  (`models/answer.py:39-41`), and `submit_exam` checks that the question belongs to the
  exam but not that the option belongs to the question (`exam_service.py:424`). The
  trace: an answer to a question of `e1` that selects an option of a question of `e2`
  is handed in; the teacher of `e2` replaces its questions, and the answer is gone.
* *"must not push a student's paid total beyond the defined fee structure amount"*
  (`docs/Requirement_Analysis.md:319`, and the comment at `fee_service.py:174`):
  `INVARIANT NeverOverpaid` in `MCFees_concurrent.cfg`. Two overlapping payments
  both pass the balance check.
* An exam *"can only be deleted while it is unpublished"*
  (`docs/Requirement_Analysis.md:297`):
  `[][\A e \in Exams : status[e] = "published" => status'[e] # "deleted"]_vars` in
  `MCExams_concurrent.cfg`. The trace: `CreateExam`; a teacher's `UpdateExam` to
  published has read the draft; an admin's `DeleteExam` reads the draft; `SaveExam`
  commits the publication; `CommitDelete` deletes the exam. Nobody may have
  attempted it, or the foreign key refuses.
* A warning when *"the student's overall percentage"* crosses 80 %
  (`docs/API_Contract.md:643`):
  `[][\A s \in Students, l \in Lessons : <<s, l>> \in warned' \ warned => Low(record[s],
  Lessons) /\ ~ Low(record[s], Lessons \ {l})]_vars` in `MCAttendance_lessons.cfg`.
  The code compares the percentage of one class session.

## 7. What is not modelled

* The login rate limit: a sliding window over a clock, in the memory of one
  process; a login it refuses is one that never starts in `Sessions`.
* `change_password`: it writes the password hash, which no step of `Sessions`
  reads, and leaves the tokens as they are. Section 3 says what a wrong current
  password, answered 401, makes the browser do.
* The notification list, its read flag and the fan-out to parents. A dispatch is a
  step of the module that calls it.
* Parents, admins and parent links have no operation that creates them; seeds do.
* The listings and views of every service, which read and change nothing. Two of
  them (`OverdueAccounts`, `AmountDue`) are in `Fees` because operations use them.
* Role and ownership checks, which are pure functions of the caller and a row; a
  request that fails them is one that does not start.
* Reports, PDF and spreadsheet output, pages, log formatting, settings and seeds:
  layout and input/output without state. How the document endpoints use threads
  and connections is in `RequestPool`; an unhandled error and an `HTTPException`
  are `Fail` and `Refuse` of the service modules.
* The composition of a service with the pool: a service's handler is taken to have
  its thread and connection, and a request the pool fails is an `Abort`.
* Row locks inside one statement, and the deadlocks the database resolves by
  aborting a transaction; an abort is a refused request in the modules.
* Fractions of money, the clock of exams, and the contents of texts.

## 8. The plan

Most important behaviour first; done so far:

1. `Fees`, `Ledger`: checked and proved.
2. `Exams`: checked and proved.
3. `Schedule`, `Timetable`: checked and proved.
4. `Results`, `Review`: checked and proved.
5. `Attendance`: checked and proved.
6. `Schema`, `Migrations`, `Statements`, `Chain`, `Alembic`: checked and proved.
7. `Catalogue`: checked and proved.
8. `Sessions`: checked, with liveness, and its safety proved.
9. `RequestPool`: checked, with liveness, and its safety proved.

What would come next:

10. `Assessment`: `Exams` composed with `Results`, so that a stranded attempt is
    seen to block the results of an exam.
11. An abstract `Session` (signed in, signed out, by whose doing) that `Sessions`
    implements with one tab.
12. `RateLimit`: the window of attempts with a bounded clock, threads reading and
    writing it back.
13. `Notices`: the fan-out to parents, the read flag, the list.
14. `Money`: amounts in cents against amounts in binary fractions, with
    `DyadicRationals`.
