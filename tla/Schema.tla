------------------------------- MODULE Schema -------------------------------
(***************************************************************************)
(* The database schema as the ORM declares it: one definition per class of *)
(* backend/app/models.  A table is described by what its rows may refer to *)
(* and what two rows may not share:                                        *)
(*   req, opt   the columns that are NOT NULL and those that may be null   *)
(*              (the primary key id is left out: every table has it);      *)
(*   refs       the foreign keys, as a function from column to table, ON   *)
(*              DELETE CASCADE for the columns in cascade and RESTRICT for *)
(*              the others;                                                *)
(*   enum       the enum type of a column;                                 *)
(*   unique     the sets of columns two rows may not share;                *)
(*   index      the other indexes, each the sequence of its columns;       *)
(*   check      the names of the CHECK constraints.                        *)
(* Column types other than enums and server defaults are left out.         *)
(***************************************************************************)
EXTENDS Naturals, Sequences, Functions

Bare == [req |-> {}, opt |-> {}, refs |-> << >>, cascade |-> {}, enum |-> << >>,
         unique |-> {}, index |-> {}, check |-> {}]

Stamps == {"created_at", "updated_at"}
Names == {"first_name", "last_name"}

(* An enum type is its name and its values, in order.                      *)
Enum(name, values) == [name |-> name, values |-> values]

-----------------------------------------------------------------------------
(* Reference data.                                                         *)

Department == [Bare EXCEPT !.req = {"name", "code"} \cup Stamps,
                           !.unique = {{"name"}, {"code"}}]

Course == [Bare EXCEPT !.req = {"department_id", "name", "code", "credit_hours"} \cup Stamps,
                       !.refs = [department_id |-> "department"],
                       !.unique = {{"code"}}, !.index = {<<"department_id">>}]

Room == [Bare EXCEPT !.req = {"name"}, !.opt = {"building", "capacity"}, !.unique = {{"name"}}]

Semester == [Bare EXCEPT !.req = {"name", "start_date", "end_date"}, !.unique = {{"name"}},
                         !.check = {"ck_semester_start_before_end"}]

-----------------------------------------------------------------------------
(* Accounts and the profile of each role.                                  *)

UserRole == Enum("user_role", <<"student", "teacher", "parent", "admin">>)

User == [Bare EXCEPT !.req = {"email", "password_hash", "role", "is_active"} \cup Stamps,
                     !.opt = {"current_refresh_token_jti", "refresh_token_expires_at"},
                     !.enum = [role |-> UserRole],
                     !.unique = {{"email"}}, !.index = {<<"role">>}]

Student == [Bare EXCEPT !.req = {"user_id", "department_id", "enrollment_date"} \cup Names \cup Stamps,
                        !.opt = {"profile_photo_url", "date_of_birth"},
                        !.refs = [user_id |-> "user", department_id |-> "department"],
                        !.unique = {{"user_id"}}, !.index = {<<"department_id">>}]

Teacher == [Bare EXCEPT !.req = {"user_id", "department_id"} \cup Names \cup Stamps,
                        !.opt = {"profile_photo_url", "hire_date"},
                        !.refs = [user_id |-> "user", department_id |-> "department"],
                        !.unique = {{"user_id"}}, !.index = {<<"department_id">>}]

Parent == [Bare EXCEPT !.req = {"user_id"} \cup Names \cup Stamps, !.opt = {"phone_number"},
                       !.refs = [user_id |-> "user"], !.unique = {{"user_id"}}]

Admin == [Bare EXCEPT !.req = {"user_id"} \cup Names \cup Stamps,
                      !.refs = [user_id |-> "user"], !.unique = {{"user_id"}}]

ParentStudentLink ==
  [Bare EXCEPT !.req = {"parent_id", "student_id", "created_at"}, !.opt = {"relationship_type"},
               !.refs = [parent_id |-> "parent", student_id |-> "student"],
               !.unique = {{"parent_id", "student_id"}}, !.index = {<<"student_id">>}]

-----------------------------------------------------------------------------
(* Class sessions, enrolment, timetable.                                   *)

ClassSession ==
  [Bare EXCEPT !.req = {"course_id", "teacher_id", "semester_id", "section_label"} \cup Stamps,
               !.refs = [course_id |-> "course", teacher_id |-> "teacher", semester_id |-> "semester"],
               !.index = {<<"teacher_id">>, <<"course_id", "semester_id">>}]

Enrollment ==
  [Bare EXCEPT !.req = {"student_id", "class_session_id", "enrolled_at"},
               !.refs = [student_id |-> "student", class_session_id |-> "class_session"],
               !.unique = {{"student_id", "class_session_id"}}]

DayOfWeek == Enum("day_of_week", <<"Mon", "Tue", "Wed", "Thu", "Fri", "Sat", "Sun">>)

ScheduleEntry ==
  [Bare EXCEPT !.req = {"class_session_id", "room_id", "teacher_id", "day_of_week",
                        "start_time", "end_time"} \cup Stamps,
               !.refs = [class_session_id |-> "class_session", room_id |-> "room", teacher_id |-> "teacher"],
               !.enum = [day_of_week |-> DayOfWeek],
               !.unique = {{"room_id", "day_of_week", "start_time"},
                           {"teacher_id", "day_of_week", "start_time"}}]

ScheduleChangeRequestStatus ==
  Enum("schedule_change_request_status", <<"pending", "approved", "rejected">>)

ScheduleChangeRequest ==
  [Bare EXCEPT !.req = {"schedule_entry_id", "requested_by_teacher_id", "requested_change",
                        "status", "created_at"},
               !.opt = {"confirmed_by_admin_id", "resolved_at"},
               !.refs = [schedule_entry_id |-> "schedule_entry", requested_by_teacher_id |-> "teacher",
                         confirmed_by_admin_id |-> "admin"],
               !.enum = [status |-> ScheduleChangeRequestStatus]]

-----------------------------------------------------------------------------
(* Attendance.                                                             *)

AttendanceStatus == Enum("attendance_status", <<"present", "absent", "late", "excused">>)

AttendanceRecord ==
  [Bare EXCEPT !.req = {"student_id", "class_session_id", "marked_by_teacher_id",
                        "attendance_date", "status"},
               !.refs = [student_id |-> "student", class_session_id |-> "class_session",
                         marked_by_teacher_id |-> "teacher"],
               !.enum = [status |-> AttendanceStatus],
               !.unique = {{"student_id", "class_session_id", "attendance_date"}},
               !.index = {<<"class_session_id", "attendance_date">>}]

-----------------------------------------------------------------------------
(* Exams.                                                                  *)

ExamType == Enum("exam_type", <<"mcq", "written", "practical_coding", "mixed">>)
ExamStatus == Enum("exam_status", <<"draft", "scheduled", "open", "closed", "published">>)

Exam ==
  [Bare EXCEPT !.req = {"class_session_id", "created_by_teacher_id", "title", "exam_type",
                        "time_limit_minutes", "status"} \cup Stamps,
               !.opt = {"scheduled_at"},
               !.refs = [class_session_id |-> "class_session", created_by_teacher_id |-> "teacher"],
               !.enum = [exam_type |-> ExamType, status |-> ExamStatus],
               !.index = {<<"class_session_id">>, <<"status">>},
               !.check = {"ck_exam_time_limit_minutes_positive"}]

QuestionType == Enum("question_type", <<"mcq", "short_answer", "descriptive", "coding">>)

Question ==
  [Bare EXCEPT !.req = {"exam_id", "question_text", "question_type", "marks", "order_index"},
               !.opt = {"hint"}, !.refs = [exam_id |-> "exam"], !.cascade = {"exam_id"},
               !.enum = [question_type |-> QuestionType], !.index = {<<"exam_id">>},
               !.check = {"ck_question_marks_positive"}]

QuestionOption ==
  [Bare EXCEPT !.req = {"question_id", "option_text", "is_correct"},
               !.refs = [question_id |-> "question"], !.cascade = {"question_id"}]

ExamSubmissionStatus == Enum("exam_submission_status", <<"in_progress", "submitted", "graded">>)

ExamSubmission ==
  [Bare EXCEPT !.req = {"exam_id", "student_id", "started_at", "status"}, !.opt = {"submitted_at"},
               !.refs = [exam_id |-> "exam", student_id |-> "student"],
               !.enum = [status |-> ExamSubmissionStatus],
               !.unique = {{"exam_id", "student_id"}}]

Answer ==
  [Bare EXCEPT !.req = {"submission_id", "question_id"}, !.opt = {"answer_text", "selected_option_id"},
               !.refs = [submission_id |-> "exam_submission", question_id |-> "question",
                         selected_option_id |-> "question_option"],
               !.cascade = {"selected_option_id"},
               !.unique = {{"submission_id", "question_id"}}]

QuestionGrade ==
  [Bare EXCEPT !.req = {"answer_id", "graded_by_teacher_id", "awarded_marks", "graded_at"},
               !.opt = {"feedback"},
               !.refs = [answer_id |-> "answer", graded_by_teacher_id |-> "teacher"],
               !.unique = {{"answer_id"}},
               !.check = {"ck_question_grade_awarded_marks_non_negative"}]

-----------------------------------------------------------------------------
(* Results, fees, notifications.                                           *)

\* Mutant: a value is added to the model and not to the type in the database.
ResultStatusDrifted == Enum("result_status", <<"submitted", "approved", "published", "rejected">>)

ResultStatus == Enum("result_status", <<"submitted", "published", "rejected">>)

Result ==
  [Bare EXCEPT !.req = {"student_id", "course_id", "semester_id", "submitted_by_teacher_id",
                        "status", "submitted_at"},
               !.opt = {"exam_id", "approved_by_admin_id", "grade_letter", "grade_point", "approved_at"},
               !.refs = [student_id |-> "student", course_id |-> "course", semester_id |-> "semester",
                         exam_id |-> "exam", submitted_by_teacher_id |-> "teacher",
                         approved_by_admin_id |-> "admin"],
               !.enum = [status |-> ResultStatus],
               !.unique = {{"student_id", "course_id", "semester_id"}},
               !.index = {<<"exam_id">>, <<"status">>}]

FeeStructure ==
  [Bare EXCEPT !.req = {"semester_id", "name", "amount", "due_date", "created_at"},
               !.opt = {"department_id"},
               !.refs = [department_id |-> "department", semester_id |-> "semester"],
               !.check = {"ck_fee_structure_amount_positive"}]

InvoiceStatus == Enum("invoice_status", <<"unpaid", "partially_paid", "paid", "overdue">>)

Invoice ==
  [Bare EXCEPT !.req = {"student_id", "fee_structure_id", "status", "issued_at"}, !.opt = {"pdf_url"},
               !.refs = [student_id |-> "student", fee_structure_id |-> "fee_structure"],
               !.enum = [status |-> InvoiceStatus],
               !.unique = {{"student_id", "fee_structure_id"}},
               !.index = {<<"student_id", "status">>}]

Payment ==
  [Bare EXCEPT !.req = {"student_id", "fee_structure_id", "recorded_by_admin_id", "amount",
                        "payment_date"},
               !.opt = {"payment_method"},
               !.refs = [student_id |-> "student", fee_structure_id |-> "fee_structure",
                         recorded_by_admin_id |-> "admin"],
               !.index = {<<"student_id">>, <<"fee_structure_id">>},
               !.check = {"ck_payment_amount_positive"}]

NotificationType ==
  Enum("notification_type", <<"result_published", "schedule_change", "attendance_warning",
                              "fee_due", "other">>)

Notification ==
  [Bare EXCEPT !.req = {"user_id", "type", "message", "is_read", "created_at"},
               !.refs = [user_id |-> "user"], !.enum = [type |-> NotificationType],
               !.index = {<<"user_id", "is_read">>, <<"created_at">>}]

-----------------------------------------------------------------------------
(* Base.metadata: the class of every table.                                *)
Models ==
  [department |-> Department, course |-> Course, room |-> Room, semester |-> Semester,
   user |-> User, student |-> Student, teacher |-> Teacher, parent |-> Parent, admin |-> Admin,
   parent_student_link |-> ParentStudentLink, class_session |-> ClassSession,
   enrollment |-> Enrollment, schedule_entry |-> ScheduleEntry,
   schedule_change_request |-> ScheduleChangeRequest, attendance_record |-> AttendanceRecord,
   exam |-> Exam, question |-> Question, question_option |-> QuestionOption,
   exam_submission |-> ExamSubmission, answer |-> Answer, question_grade |-> QuestionGrade,
   result |-> Result, fee_structure |-> FeeStructure, invoice |-> Invoice, payment |-> Payment,
   notification |-> Notification]

-----------------------------------------------------------------------------
(* The objects a table consists of in the catalog of the database: the     *)
(* table itself, its indexes and the enum types of its columns.            *)
TableObject(t, def) == [kind |-> "table", name |-> t, def |-> [def EXCEPT !.index = {}]]
IndexObject(t, columns) == [kind |-> "index", name |-> t, def |-> [columns |-> columns]]
TypeObject(e) == [kind |-> "type", name |-> e.name, def |-> [values |-> e.values]]

Objects(t, def) ==
  {TableObject(t, def)} \cup {IndexObject(t, c) : c \in def.index}
                        \cup {TypeObject(e) : e \in Range(def.enum)}
=============================================================================
