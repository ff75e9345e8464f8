----------------------------- MODULE Migrations -----------------------------
(***************************************************************************)
(* The ten revisions of backend/alembic/versions, each a sequence of DDL   *)
(* statements up and one down.  Module Alembic runs them.                  *)
(***************************************************************************)
EXTENDS Schema

(* The statements.                                                         *)
CreateTable(t, def) == [op |-> "create_table", table |-> t, arg |-> def]
CreateIndex(t, columns) == [op |-> "create_index", table |-> t, arg |-> columns]
DropIndex(t, columns) == [op |-> "drop_index", table |-> t, arg |-> columns]
DropTable(t) == [op |-> "drop_table", table |-> t, arg |-> Bare]
DropType(e) == [op |-> "drop_type", table |-> e.name, arg |-> Bare]

-----------------------------------------------------------------------------
(* 0001 and 0002: the baseline, reference data.                            *)

Upgrade1 == << >>
Downgrade1 == << >>

Upgrade2 ==
  <<CreateTable("department", [Bare EXCEPT !.req = {"name", "code"} \cup Stamps,
                                           !.unique = {{"name"}, {"code"}}]),
    CreateTable("course",
      [Bare EXCEPT !.req = {"department_id", "name", "code", "credit_hours"} \cup Stamps,
                   !.refs = [department_id |-> "department"], !.unique = {{"code"}}]),
    CreateIndex("course", <<"department_id">>),
    CreateTable("room", [Bare EXCEPT !.req = {"name"}, !.opt = {"building", "capacity"},
                                     !.unique = {{"name"}}]),
    CreateTable("semester", [Bare EXCEPT !.req = {"name", "start_date", "end_date"},
                                         !.unique = {{"name"}},
                                         !.check = {"ck_semester_start_before_end"}])>>
Downgrade2 ==
  <<DropTable("semester"), DropTable("room"), DropIndex("course", <<"department_id">>),
    DropTable("course"), DropTable("department")>>

-----------------------------------------------------------------------------
(* 0003 and 0004: accounts and role profiles.                              *)

user_role == Enum("user_role", <<"student", "teacher", "parent", "admin">>)

Upgrade3 ==
  <<CreateTable("user",
      [Bare EXCEPT !.req = {"email", "password_hash", "role", "is_active"} \cup Stamps,
                   !.opt = {"current_refresh_token_jti", "refresh_token_expires_at"},
                   !.enum = [role |-> user_role], !.unique = {{"email"}}]),
    CreateIndex("user", <<"role">>)>>

\* Mutant: the enum type is left, as drop_table leaves it.
Downgrade3KeepsType == <<DropIndex("user", <<"role">>), DropTable("user")>>

Downgrade3 == <<DropIndex("user", <<"role">>), DropTable("user"), DropType(user_role)>>

Upgrade4 ==
  <<CreateTable("student",
      [Bare EXCEPT !.req = {"user_id", "department_id", "enrollment_date"} \cup Names \cup Stamps,
                   !.opt = {"profile_photo_url", "date_of_birth"},
                   !.refs = [user_id |-> "user", department_id |-> "department"],
                   !.unique = {{"user_id"}}]),
    CreateIndex("student", <<"department_id">>),
    CreateTable("teacher",
      [Bare EXCEPT !.req = {"user_id", "department_id"} \cup Names \cup Stamps,
                   !.opt = {"profile_photo_url", "hire_date"},
                   !.refs = [user_id |-> "user", department_id |-> "department"],
                   !.unique = {{"user_id"}}]),
    CreateIndex("teacher", <<"department_id">>),
    CreateTable("parent",
      [Bare EXCEPT !.req = {"user_id"} \cup Names \cup Stamps, !.opt = {"phone_number"},
                   !.refs = [user_id |-> "user"], !.unique = {{"user_id"}}]),
    CreateTable("admin",
      [Bare EXCEPT !.req = {"user_id"} \cup Names \cup Stamps,
                   !.refs = [user_id |-> "user"], !.unique = {{"user_id"}}]),
    CreateTable("parent_student_link",
      [Bare EXCEPT !.req = {"parent_id", "student_id", "created_at"}, !.opt = {"relationship_type"},
                   !.refs = [parent_id |-> "parent", student_id |-> "student"],
                   !.unique = {{"parent_id", "student_id"}}]),
    CreateIndex("parent_student_link", <<"student_id">>)>>
Downgrade4 ==
  <<DropIndex("parent_student_link", <<"student_id">>), DropTable("parent_student_link"),
    DropTable("admin"), DropTable("parent"),
    DropIndex("teacher", <<"department_id">>), DropTable("teacher"),
    DropIndex("student", <<"department_id">>), DropTable("student")>>

-----------------------------------------------------------------------------
(* 0005 and 0006: scheduling and attendance.                               *)

day_of_week == Enum("day_of_week", <<"Mon", "Tue", "Wed", "Thu", "Fri", "Sat", "Sun">>)
schedule_change_request_status ==
  Enum("schedule_change_request_status", <<"pending", "approved", "rejected">>)

Upgrade5 ==
  <<CreateTable("class_session",
      [Bare EXCEPT !.req = {"course_id", "teacher_id", "semester_id", "section_label"} \cup Stamps,
                   !.refs = [course_id |-> "course", teacher_id |-> "teacher",
                             semester_id |-> "semester"]]),
    CreateIndex("class_session", <<"teacher_id">>),
    CreateIndex("class_session", <<"course_id", "semester_id">>),
    CreateTable("enrollment",
      [Bare EXCEPT !.req = {"student_id", "class_session_id", "enrolled_at"},
                   !.refs = [student_id |-> "student", class_session_id |-> "class_session"],
                   !.unique = {{"student_id", "class_session_id"}}]),
    CreateTable("schedule_entry",
      [Bare EXCEPT !.req = {"class_session_id", "room_id", "teacher_id", "day_of_week",
                            "start_time", "end_time"} \cup Stamps,
                   !.refs = [class_session_id |-> "class_session", room_id |-> "room",
                             teacher_id |-> "teacher"],
                   !.enum = [day_of_week |-> day_of_week],
                   !.unique = {{"room_id", "day_of_week", "start_time"},
                               {"teacher_id", "day_of_week", "start_time"}}]),
    CreateTable("schedule_change_request",
      [Bare EXCEPT !.req = {"schedule_entry_id", "requested_by_teacher_id", "requested_change",
                            "status", "created_at"},
                   !.opt = {"confirmed_by_admin_id", "resolved_at"},
                   !.refs = [schedule_entry_id |-> "schedule_entry",
                             requested_by_teacher_id |-> "teacher", confirmed_by_admin_id |-> "admin"],
                   !.enum = [status |-> schedule_change_request_status]])>>
Downgrade5 ==
  <<DropTable("schedule_change_request"), DropTable("schedule_entry"), DropTable("enrollment"),
    DropIndex("class_session", <<"course_id", "semester_id">>),
    DropIndex("class_session", <<"teacher_id">>), DropTable("class_session"),
    DropType(schedule_change_request_status), DropType(day_of_week)>>

attendance_status == Enum("attendance_status", <<"present", "absent", "late", "excused">>)

Upgrade6 ==
  <<CreateTable("attendance_record",
      [Bare EXCEPT !.req = {"student_id", "class_session_id", "marked_by_teacher_id",
                            "attendance_date", "status"},
                   !.refs = [student_id |-> "student", class_session_id |-> "class_session",
                             marked_by_teacher_id |-> "teacher"],
                   !.enum = [status |-> attendance_status],
                   !.unique = {{"student_id", "class_session_id", "attendance_date"}}]),
    CreateIndex("attendance_record", <<"class_session_id", "attendance_date">>)>>

\* Mutant: as in revision 0003.
Downgrade6KeepsType ==
  <<DropIndex("attendance_record", <<"class_session_id", "attendance_date">>),
    DropTable("attendance_record")>>

Downgrade6 ==
  <<DropIndex("attendance_record", <<"class_session_id", "attendance_date">>),
    DropTable("attendance_record"), DropType(attendance_status)>>

-----------------------------------------------------------------------------
(* 0007: exams.                                                            *)

exam_type == Enum("exam_type", <<"mcq", "written", "practical_coding", "mixed">>)
exam_status == Enum("exam_status", <<"draft", "scheduled", "open", "closed", "published">>)
question_type == Enum("question_type", <<"mcq", "short_answer", "descriptive", "coding">>)
exam_submission_status == Enum("exam_submission_status", <<"in_progress", "submitted", "graded">>)

Upgrade7 ==
  <<CreateTable("exam",
      [Bare EXCEPT !.req = {"class_session_id", "created_by_teacher_id", "title", "exam_type",
                            "time_limit_minutes", "status"} \cup Stamps,
                   !.opt = {"scheduled_at"},
                   !.refs = [class_session_id |-> "class_session", created_by_teacher_id |-> "teacher"],
                   !.enum = [exam_type |-> exam_type, status |-> exam_status],
                   !.check = {"ck_exam_time_limit_minutes_positive"}]),
    CreateIndex("exam", <<"class_session_id">>), CreateIndex("exam", <<"status">>),
    CreateTable("question",
      [Bare EXCEPT !.req = {"exam_id", "question_text", "question_type", "marks", "order_index"},
                   !.opt = {"hint"}, !.refs = [exam_id |-> "exam"], !.cascade = {"exam_id"},
                   !.enum = [question_type |-> question_type],
                   !.check = {"ck_question_marks_positive"}]),
    CreateIndex("question", <<"exam_id">>),
    CreateTable("question_option",
      [Bare EXCEPT !.req = {"question_id", "option_text", "is_correct"},
                   !.refs = [question_id |-> "question"], !.cascade = {"question_id"}]),
    CreateTable("exam_submission",
      [Bare EXCEPT !.req = {"exam_id", "student_id", "started_at", "status"},
                   !.opt = {"submitted_at"},
                   !.refs = [exam_id |-> "exam", student_id |-> "student"],
                   !.enum = [status |-> exam_submission_status],
                   !.unique = {{"exam_id", "student_id"}}]),
    CreateTable("answer",
      [Bare EXCEPT !.req = {"submission_id", "question_id"},
                   !.opt = {"answer_text", "selected_option_id"},
                   !.refs = [submission_id |-> "exam_submission", question_id |-> "question",
                             selected_option_id |-> "question_option"],
                   !.cascade = {"selected_option_id"},
                   !.unique = {{"submission_id", "question_id"}}]),
    CreateTable("question_grade",
      [Bare EXCEPT !.req = {"answer_id", "graded_by_teacher_id", "awarded_marks", "graded_at"},
                   !.opt = {"feedback"},
                   !.refs = [answer_id |-> "answer", graded_by_teacher_id |-> "teacher"],
                   !.unique = {{"answer_id"}},
                   !.check = {"ck_question_grade_awarded_marks_non_negative"}])>>
Downgrade7 ==
  <<DropTable("question_grade"), DropTable("answer"), DropTable("exam_submission"),
    DropTable("question_option"), DropIndex("question", <<"exam_id">>), DropTable("question"),
    DropIndex("exam", <<"status">>), DropIndex("exam", <<"class_session_id">>), DropTable("exam"),
    DropType(exam_submission_status), DropType(question_type), DropType(exam_status),
    DropType(exam_type)>>

-----------------------------------------------------------------------------
(* 0008, 0009 and 0010: results, fees, notifications.                      *)

result_status == Enum("result_status", <<"submitted", "published", "rejected">>)

Upgrade8 ==
  <<CreateTable("result",
      [Bare EXCEPT !.req = {"student_id", "course_id", "semester_id", "submitted_by_teacher_id",
                            "status", "submitted_at"},
                   !.opt = {"exam_id", "approved_by_admin_id", "grade_letter", "grade_point",
                            "approved_at"},
                   !.refs = [student_id |-> "student", course_id |-> "course",
                             semester_id |-> "semester", exam_id |-> "exam",
                             submitted_by_teacher_id |-> "teacher", approved_by_admin_id |-> "admin"],
                   !.enum = [status |-> result_status],
                   !.unique = {{"student_id", "course_id", "semester_id"}}]),
    CreateIndex("result", <<"status">>), CreateIndex("result", <<"exam_id">>)>>
Downgrade8 ==
  <<DropIndex("result", <<"exam_id">>), DropIndex("result", <<"status">>),
    DropTable("result"), DropType(result_status)>>

invoice_status == Enum("invoice_status", <<"unpaid", "partially_paid", "paid", "overdue">>)

Upgrade9 ==
  <<CreateTable("fee_structure",
      [Bare EXCEPT !.req = {"semester_id", "name", "amount", "due_date", "created_at"},
                   !.opt = {"department_id"},
                   !.refs = [department_id |-> "department", semester_id |-> "semester"],
                   !.check = {"ck_fee_structure_amount_positive"}]),
    CreateTable("invoice",
      [Bare EXCEPT !.req = {"student_id", "fee_structure_id", "status", "issued_at"},
                   !.opt = {"pdf_url"},
                   !.refs = [student_id |-> "student", fee_structure_id |-> "fee_structure"],
                   !.enum = [status |-> invoice_status],
                   !.unique = {{"student_id", "fee_structure_id"}}]),
    CreateIndex("invoice", <<"student_id", "status">>),
    CreateTable("payment",
      [Bare EXCEPT !.req = {"student_id", "fee_structure_id", "recorded_by_admin_id", "amount",
                            "payment_date"},
                   !.opt = {"payment_method"},
                   !.refs = [student_id |-> "student", fee_structure_id |-> "fee_structure",
                             recorded_by_admin_id |-> "admin"],
                   !.check = {"ck_payment_amount_positive"}]),
    CreateIndex("payment", <<"student_id">>), CreateIndex("payment", <<"fee_structure_id">>)>>
Downgrade9 ==
  <<DropIndex("payment", <<"fee_structure_id">>), DropIndex("payment", <<"student_id">>),
    DropTable("payment"), DropIndex("invoice", <<"student_id", "status">>), DropTable("invoice"),
    DropTable("fee_structure"), DropType(invoice_status)>>

notification_type ==
  Enum("notification_type",
       <<"result_published", "schedule_change", "attendance_warning", "fee_due", "other">>)

Upgrade10 ==
  <<CreateTable("notification",
      [Bare EXCEPT !.req = {"user_id", "type", "message", "is_read", "created_at"},
                   !.refs = [user_id |-> "user"], !.enum = [type |-> notification_type]]),
    CreateIndex("notification", <<"user_id", "is_read">>),
    CreateIndex("notification", <<"created_at">>)>>
Downgrade10 ==
  <<DropIndex("notification", <<"created_at">>), DropIndex("notification", <<"user_id", "is_read">>),
    DropTable("notification"), DropType(notification_type)>>

-----------------------------------------------------------------------------
(* The chain of revisions: down_revision of each is the one before it, so  *)
(* a version of the database is a number and 0 is the empty database.      *)
Up == <<Upgrade1, Upgrade2, Upgrade3, Upgrade4, Upgrade5, Upgrade6, Upgrade7, Upgrade8, Upgrade9,
        Upgrade10>>
Down == <<Downgrade1, Downgrade2, Downgrade3, Downgrade4, Downgrade5, Downgrade6, Downgrade7,
          Downgrade8, Downgrade9, Downgrade10>>
=============================================================================
