---------------------------- MODULE DatabaseProofs ----------------------------
(***************************************************************************)
(* Proofs about the rows and about the schema of the database: first about *)
(* Catalogue, for any rows there are before, any number of requests and    *)
(* any values in their payloads; then about Alembic, for any number of     *)
(* processes and any chain of revisions with the facts of module Chain.    *)
(***************************************************************************)
EXTENDS Catalogue, Alembic, Chain, FiniteSetTheorems, TLAPS

States == {"unsent", "looked", "stored", "answered"}
Answers == {"none", "ok", "exists", "referenced", "not_found", "invalid", "error"}

Fields == {"state", "op", "seen", "inserts", "loaded", "payload", "set", "onfail", "answer"}

IsRequest(x) ==
  /\ DOMAIN x = Fields
  /\ x.state \in States /\ x.answer \in Answers
  /\ (x.state = "answered") = (x.answer # "none")

Found(k, rs) == \E o \in rs : o.key = k

(* The tables whose rows are never deleted.                                *)
Lasting == Profiles \cup {"user"}

(* What request q may insert when it has found the rows seen.              *)
Inserting(q, seen, inserts, onfail) ==
  /\ \A r \in inserts : IsRow(r) /\ Id(r) = q /\ Ordered(r)
  /\ \A r, o \in inserts : TableOf(r) = TableOf(o) => r = o
  /\ \A r \in inserts : \A k \in References(r) : Found(k, seen \cup inserts)
  /\ \/ \A r \in inserts : TableOf(r) \notin Lasting
     \/ \E u, p \in inserts : /\ inserts = {u, p}
                              /\ TableOf(u) = "user" /\ TableOf(p) \in Profiles
                              /\ p.cols["user_id"] = q
  /\ \/ onfail = "exists"
     \/ onfail = "error" /\ \A r \in inserts : Models[TableOf(r)].unique = {}

(* Dirty, of a request that assigns set.                                   *)
DirtyIn(set, l) == {c \in DOMAIN set \cap DOMAIN l.cols : set[c] # l.cols[c]}

(* Column c of the row l may be assigned: the payload gives the value, a   *)
(* reference is to a row that was found, and a column of a unique key only *)
(* where a failure is caught.                                              *)
Assigns(seen, payload, set, onfail, l, c) ==
  LET table == Models[TableOf(l)]
  IN  /\ c \in DOMAIN payload /\ set[c] = payload[c]
      /\ c \in DOMAIN table.refs => Found(<<table.refs[c], set[c]>>, seen)
      /\ onfail = "error" => \A u \in table.unique : c \notin u

(* The rows loaded may be assigned set.                                    *)
Assigning(seen, loaded, payload, set, onfail) ==
  /\ loaded \subseteq seen /\ onfail \in {"exists", "error"}
  /\ \A l \in loaded : IsRow(l)
  /\ \A l, o \in loaded : TableOf(l) = TableOf(o) => l = o
  /\ "user_id" \notin DOMAIN set
  /\ \A l \in loaded : \A c \in DirtyIn(set, l) : Assigns(seen, payload, set, onfail, l, c)
  /\ \A l \in loaded : TableOf(l) = "semester" =>
       /\ Kept("semester") \subseteq DOMAIN set
       /\ \A c \in Kept("semester") : set[c] \in Dates
       /\ set["start_date"] < set["end_date"]

Deleting(loaded, onfail) ==
  /\ onfail = "referenced"
  /\ \A l \in loaded : TableOf(l) \notin Lasting

(* What request q, in the state x, has prepared when it has looked         *)
(* everything up.                                                          *)
Prepared(q, x) ==
  x.state = "looked" =>
    \/ x.op = "create" /\ Inserting(q, x.seen, x.inserts, x.onfail)
    \/ x.op = "update" /\ Assigning(x.seen, x.loaded, x.payload, x.set, x.onfail)
    \/ x.op = "delete" /\ Deleting(x.loaded, x.onfail)

(* Accounts and profiles of rs correspond one to one.                      *)
Matched(rs) ==
  /\ \A u \in rs : TableOf(u) = "user" =>
       \E p \in rs : TableOf(p) \in Profiles /\ p.cols["user_id"] = Id(u)
  /\ \A p \in rs : TableOf(p) \in Profiles =>
       \E u \in rs : TableOf(u) = "user" /\ p.cols["user_id"] = Id(u)
  /\ \A p, o \in rs :
       TableOf(p) \in Profiles /\ TableOf(o) \in Profiles /\ p.cols["user_id"] = o.cols["user_id"]
         => p = o

(* The rows satisfy the constraints of the database.                       *)
Sound(rs) ==
  /\ \A r \in rs : IsRow(r) /\ Fits(r, rs)
  /\ \A r, o \in rs : r.key = o.key => r = o

(* A new id stands in no row before its request has stored it.             *)
Ids(rs) ==
  \A r \in rs : /\ Id(r) \in SeedIds \cup Requests
                /\ Id(r) \in Requests => req[Id(r)].state \in {"stored", "answered"}

(***************************************************************************)
(* The inductive invariant of Spec.                                        *)
(***************************************************************************)
CatalogueInv ==
  /\ DOMAIN req = Requests /\ req = [q \in Requests |-> req[q]]
  /\ \A q \in Requests : IsRequest(req[q]) /\ Prepared(q, req[q])
  /\ Sound(rows) /\ Ids(rows) /\ Matched(rows)

-----------------------------------------------------------------------------
(* Rows and their keys.                                                    *)

LEMMA RowParts ==
  \A t, i, cols : /\ Row(t, i, cols).key = <<t, i>> /\ Row(t, i, cols).cols = cols
                  /\ TableOf(Row(t, i, cols)) = t /\ Id(Row(t, i, cols)) = i
BY DEF Row, TableOf, Id

LEMMA SameKey ==
  ASSUME NEW r, NEW o
  PROVE  /\ r.key = o.key => TableOf(r) = TableOf(o) /\ Id(r) = Id(o)
         /\ IsRow(r) /\ IsRow(o) /\ TableOf(r) = TableOf(o) /\ Id(r) = Id(o) => r.key = o.key
<1>1. r.key = o.key => TableOf(r) = TableOf(o) /\ Id(r) = Id(o)
  BY DEF TableOf, Id
<1>2. IsRow(r) => r.key = <<TableOf(r), Id(r)>>
  BY RowParts DEF IsRow
<1>3. IsRow(o) => o.key = <<TableOf(o), Id(o)>>
  BY RowParts DEF IsRow
<1>4. QED
  BY <1>1, <1>2, <1>3

LEMMA SharesKeySymmetric ==
  ASSUME NEW r, NEW o, SharesKey(r, o)
  PROVE  SharesKey(o, r)
BY DEF SharesKey

-----------------------------------------------------------------------------
(* The tables the routes write: their columns, references and keys.        *)

LEMMA DepartmentTable ==
  LET t == Models["department"]
  IN  /\ "department" \in DOMAIN Models /\ {"name", "code"} \subseteq t.req /\ t.refs = << >>
BY DEF Models, Department, Bare

LEMMA RoomTable ==
  LET t == Models["room"]
  IN  "room" \in DOMAIN Models /\ {"name"} \subseteq t.req /\ t.refs = << >>
BY DEF Models, Room, Bare

LEMMA SemesterTable ==
  LET t == Models["semester"]
  IN  /\ "semester" \in DOMAIN Models /\ {"name", "start_date", "end_date"} \subseteq t.req
      /\ t.refs = << >>
BY DEF Models, Semester, Bare

LEMMA UserTable ==
  LET t == Models["user"]
  IN  /\ "user" \in DOMAIN Models /\ {"email", "is_active"} \subseteq t.req
      /\ t.refs = << >> /\ t.unique = {{"email"}}
BY DEF Models, User, Bare

LEMMA CourseTable ==
  LET t == Models["course"]
  IN  /\ "course" \in DOMAIN Models /\ {"department_id", "code"} \subseteq t.req
      /\ DOMAIN t.refs = {"department_id"} /\ t.refs["department_id"] = "department"
BY DEF Models, Course, Bare

LEMMA StudentTable ==
  LET t == Models["student"]
  IN  /\ "student" \in DOMAIN Models
      /\ {"user_id", "department_id", "first_name"} \subseteq t.req
      /\ DOMAIN t.refs = {"user_id", "department_id"}
      /\ t.refs["user_id"] = "user" /\ t.refs["department_id"] = "department"
      /\ t.unique = {{"user_id"}}
BY DEF Models, Student, Bare, Names

LEMMA TeacherTable ==
  LET t == Models["teacher"]
  IN  /\ "teacher" \in DOMAIN Models
      /\ {"user_id", "department_id", "first_name"} \subseteq t.req
      /\ DOMAIN t.refs = {"user_id", "department_id"}
      /\ t.refs["user_id"] = "user" /\ t.refs["department_id"] = "department"
      /\ t.unique = {{"user_id"}}
BY DEF Models, Teacher, Bare, Names

LEMMA ParentTable ==
  LET t == Models["parent"]
  IN  DOMAIN t.refs = {"user_id"} /\ t.unique = {{"user_id"}}
BY DEF Models, Parent, Bare, Names

LEMMA AdminTable ==
  LET t == Models["admin"]
  IN  DOMAIN t.refs = {"user_id"} /\ t.unique = {{"user_id"}}
BY DEF Models, Admin, Bare, Names

LEMMA ClassSessionTable ==
  LET t == Models["class_session"]
  IN  /\ "class_session" \in DOMAIN Models
      /\ {"course_id", "teacher_id", "semester_id"} \subseteq t.req
      /\ DOMAIN t.refs = {"course_id", "teacher_id", "semester_id"}
      /\ t.refs["course_id"] = "course" /\ t.refs["teacher_id"] = "teacher"
      /\ t.refs["semester_id"] = "semester" /\ t.unique = {}
BY DEF Models, ClassSession, Bare

LEMMA EnrollmentTable ==
  LET t == Models["enrollment"]
  IN  /\ "enrollment" \in DOMAIN Models /\ {"student_id", "class_session_id"} \subseteq t.req
      /\ DOMAIN t.refs = {"student_id", "class_session_id"}
      /\ t.refs["student_id"] = "student" /\ t.refs["class_session_id"] = "class_session"
BY DEF Models, Enrollment, Bare

LEMMA NoColumns == DOMAIN << >> = {}
OBVIOUS

(* A row of a table without foreign keys refers to nothing.                *)
LEMMA NoReferences ==
  ASSUME NEW r, Models[TableOf(r)].refs = << >>
  PROVE  References(r) = {}
BY NoColumns DEF References

-----------------------------------------------------------------------------
(* Steps that change one request and no row.                               *)

LEMMA RequestStep ==
  ASSUME CatalogueInv, NEW q \in Requests, NEW x, IsRequest(x), Prepared(q, x),
         req[q].state \in {"stored", "answered"} => x.state \in {"stored", "answered"},
         req' = [req EXCEPT ![q] = x], UNCHANGED rows
  PROVE  CatalogueInv'
<1>1. /\ DOMAIN req' = Requests /\ req' = [p \in Requests |-> req'[p]]
      /\ \A p \in Requests : req'[p] = IF p = q THEN x ELSE req[p]
  BY DEF CatalogueInv
<1>2. \A p \in Requests : IsRequest(req'[p]) /\ Prepared(p, req'[p])
  BY <1>1 DEF CatalogueInv
<1>3. Ids(rows)'
  BY <1>1 DEF CatalogueInv, Ids
<1>4. Sound(rows)' /\ Matched(rows)'
  BY DEF CatalogueInv
<1>5. QED
  BY <1>1, <1>2, <1>3, <1>4 DEF CatalogueInv

LEMMA AnsweredFacts ==
  ASSUME NEW x, IsRequest(x), NEW q, NEW a \in Answers \ {"none"}
  PROVE  /\ IsRequest(Answered(x, a)) /\ Prepared(q, Answered(x, a))
         /\ Answered(x, a).state = "answered" /\ Answered(x, a).answer = a
BY DEF IsRequest, Fields, Answered, Prepared, States, Answers

LEMMA CreateInv ==
  ASSUME CatalogueInv, NEW q \in Requests, NEW refs, NEW inserts, NEW onfail,
         Create(q, refs, inserts, onfail),
         Exist(refs) => Inserting(q, With(refs), inserts, onfail)
  PROVE  CatalogueInv'
<1> DEFINE x == [req[q] EXCEPT !.state = "looked", !.op = "create", !.seen = With(refs),
                               !.inserts = inserts, !.onfail = onfail]
<1>1. IsRequest(req[q]) /\ req[q].state = "unsent" /\ UNCHANGED rows
  BY DEF Create, CatalogueInv
<1>2. CASE Exist(refs)
  <2>1. req' = [req EXCEPT ![q] = x]
    BY <1>2 DEF Create
  <2>2. /\ IsRequest(x) /\ x.state = "looked" /\ x.op = "create" /\ x.seen = With(refs)
        /\ x.inserts = inserts /\ x.onfail = onfail
    BY <1>1 DEF IsRequest, Fields, States
  <2> HIDE DEF x
  <2>3. Prepared(q, x)
    BY <1>2, <2>2 DEF Prepared
  <2>4. QED
    BY <1>1, <2>1, <2>2, <2>3, RequestStep
<1>3. CASE ~ Exist(refs)
  <2>1. req' = [req EXCEPT ![q] = Answered(req[q], "invalid")]
    BY <1>3 DEF Create
  <2>2. QED
    BY <1>1, <2>1, RequestStep, AnsweredFacts DEF Answers
<1>4. QED
  BY <1>2, <1>3

LEMMA UpdateInv ==
  ASSUME CatalogueInv, NEW q \in Requests, NEW targets, NEW refs, NEW payload, NEW set, NEW onfail,
         Update(q, targets, refs, payload, set, onfail),
         Exist(targets) /\ Exist(refs) =>
           Assigning(With(targets \cup refs), With(targets), payload, set, onfail)
  PROVE  CatalogueInv'
<1> DEFINE x == [req[q] EXCEPT !.state = "looked", !.op = "update", !.seen = With(targets \cup refs),
                               !.loaded = With(targets), !.payload = payload, !.set = set,
                               !.onfail = onfail]
<1>1. IsRequest(req[q]) /\ req[q].state = "unsent" /\ UNCHANGED rows
  BY DEF Update, CatalogueInv
<1>2. CASE Exist(targets) /\ Exist(refs)
  <2>1. req' = [req EXCEPT ![q] = x]
    BY <1>2 DEF Update
  <2>2. /\ IsRequest(x) /\ x.state = "looked" /\ x.op = "update"
        /\ x.seen = With(targets \cup refs) /\ x.loaded = With(targets)
        /\ x.payload = payload /\ x.set = set /\ x.onfail = onfail
    BY <1>1 DEF IsRequest, Fields, States
  <2> HIDE DEF x
  <2>3. Prepared(q, x)
    BY <1>2, <2>2 DEF Prepared
  <2>4. QED
    BY <1>1, <2>1, <2>2, <2>3, RequestStep
<1>3. CASE ~ (Exist(targets) /\ Exist(refs))
  <2>1. PICK a \in {"not_found", "invalid"} : req' = [req EXCEPT ![q] = Answered(req[q], a)]
    BY <1>3 DEF Update
  <2>2. QED
    BY <1>1, <2>1, RequestStep, AnsweredFacts DEF Answers
<1>4. QED
  BY <1>2, <1>3

LEMMA DeleteInv ==
  ASSUME CatalogueInv, NEW q \in Requests, NEW table, NEW id, Delete(q, table, id),
         table \notin Lasting
  PROVE  CatalogueInv'
<1> DEFINE loaded == With({<<table, id>>})
           x == [req[q] EXCEPT !.state = "looked", !.op = "delete", !.seen = loaded,
                               !.loaded = loaded, !.onfail = "referenced"]
<1>1. IsRequest(req[q]) /\ req[q].state = "unsent" /\ UNCHANGED rows
  BY DEF Delete, CatalogueInv
<1>2. CASE Exist({<<table, id>>})
  <2>1. req' = [req EXCEPT ![q] = x]
    BY <1>2 DEF Delete
  <2>2. \A l \in loaded : TableOf(l) = table
    BY DEF With, TableOf
  <2>3. /\ IsRequest(x) /\ x.state = "looked" /\ x.op = "delete"
        /\ x.loaded = loaded /\ x.onfail = "referenced"
    BY <1>1 DEF IsRequest, Fields, States
  <2> HIDE DEF x, loaded
  <2>4. Prepared(q, x)
    BY <2>2, <2>3 DEF Prepared, Deleting
  <2>5. QED
    BY <1>1, <2>1, <2>3, <2>4, RequestStep
<1>3. CASE ~ Exist({<<table, id>>})
  <2>1. req' = [req EXCEPT ![q] = Answered(req[q], "not_found")]
    BY <1>3 DEF Delete
  <2>2. QED
    BY <1>1, <2>1, RequestStep, AnsweredFacts DEF Answers
<1>4. QED
  BY <1>2, <1>3

LEMMA RefuseInv ==
  ASSUME CatalogueInv, NEW q \in Requests, Refuse(q)
  PROVE  CatalogueInv'
BY RequestStep, AnsweredFacts DEF Refuse, CatalogueInv, Answers

LEMMA RefreshInv ==
  ASSUME CatalogueInv, NEW q \in Requests, Refresh(q)
  PROVE  CatalogueInv'
<1>1. PICK a \in {"ok", "error"} : req' = [req EXCEPT ![q] = Answered(req[q], a)]
  BY DEF Refresh
<1>2. QED
  BY <1>1, RequestStep, AnsweredFacts DEF Refresh, CatalogueInv, Answers

-----------------------------------------------------------------------------
(* What the routes prepare.                                                *)

LEMMA KeptColumns ==
  /\ Kept("semester") = {"start_date", "end_date"}
  /\ \A t \in Profiles : Kept(t) = {"user_id"}
  /\ \A t : t \notin Profiles /\ t # "semester" => Kept(t) = {}
BY DEF Kept, Profiles

LEMMA NewRow ==
  ASSUME NEW t \in DOMAIN Models, NEW i, NEW cols, Kept(t) \subseteq DOMAIN cols,
         DOMAIN cols \subseteq Models[t].req,
         t = "semester" => \A c \in Kept("semester") : cols[c] \in Dates
  PROVE  IsRow(Row(t, i, cols))
BY RowParts DEF IsRow

LEMMA FoundWith ==
  ASSUME NEW refs, Exist(refs), NEW k \in refs
  PROVE  Found(k, With(refs))
BY DEF Found, With, Exist

LEMMA OneRow ==
  ASSUME NEW q, NEW r, IsRow(r), Id(r) = q, Ordered(r), TableOf(r) \notin Lasting,
         NEW seen, \A k \in References(r) : Found(k, seen),
         NEW onfail, onfail = "exists" \/ (onfail = "error" /\ Models[TableOf(r)].unique = {})
  PROVE  Inserting(q, seen, {r}, onfail)
BY DEF Inserting, Found

LEMMA CreateDepartmentInv ==
  ASSUME CatalogueInv, NEW q \in Requests, CreateDepartment(q)
  PROVE  CatalogueInv'
<1>1. PICK n \in Values, c \in Values :
        Create(q, {}, {Row("department", q, [name |-> n, code |-> c])}, "exists")
  BY DEF CreateDepartment
<1> DEFINE r == Row("department", q, [name |-> n, code |-> c])
<1>2. TableOf(r) = "department" /\ Id(r) = q /\ IsRow(r)
  BY RowParts, NewRow, DepartmentTable, KeptColumns DEF Profiles
<1>3. References(r) = {}
  BY <1>2, DepartmentTable, NoReferences
<1> HIDE DEF r
<1>4. Inserting(q, With({}), {r}, "exists")
  BY <1>2, <1>3, OneRow DEF Ordered, Lasting, Profiles
<1>5. QED
  BY <1>1, <1>4, CreateInv DEF r

LEMMA CreateCourseInv ==
  ASSUME CatalogueInv, NEW q \in Requests, CreateCourse(q)
  PROVE  CatalogueInv'
<1>1. PICK d \in IdsOf("department"), c \in Values :
        Create(q, {<<"department", d>>}, {Row("course", q, [department_id |-> d, code |-> c])},
               "exists")
  BY DEF CreateCourse
<1> DEFINE r == Row("course", q, [department_id |-> d, code |-> c])
<1>2. TableOf(r) = "course" /\ Id(r) = q /\ IsRow(r)
  BY RowParts, NewRow, CourseTable, KeptColumns DEF Profiles
<1>3. References(r) \subseteq {<<"department", d>>}
  BY <1>2, CourseTable, RowParts DEF References
<1> HIDE DEF r
<1>4. Exist({<<"department", d>>}) => Inserting(q, With({<<"department", d>>}), {r}, "exists")
  BY <1>2, <1>3, OneRow, FoundWith DEF Ordered, Lasting, Profiles
<1>5. QED
  BY <1>1, <1>4, CreateInv DEF r

LEMMA CreateRoomInv ==
  ASSUME CatalogueInv, NEW q \in Requests, CreateRoom(q)
  PROVE  CatalogueInv'
<1>1. PICK n \in Values : Create(q, {}, {Row("room", q, [name |-> n])}, "exists")
  BY DEF CreateRoom
<1> DEFINE r == Row("room", q, [name |-> n])
<1>2. TableOf(r) = "room" /\ Id(r) = q /\ IsRow(r)
  BY RowParts, NewRow, RoomTable, KeptColumns DEF Profiles
<1>3. References(r) = {}
  BY <1>2, RoomTable, NoReferences
<1> HIDE DEF r
<1>4. Inserting(q, With({}), {r}, "exists")
  BY <1>2, <1>3, OneRow DEF Ordered, Lasting, Profiles
<1>5. QED
  BY <1>1, <1>4, CreateInv DEF r

LEMMA CreateSemesterInv ==
  ASSUME CatalogueInv, NEW q \in Requests, CreateSemester(q)
  PROVE  CatalogueInv'
<1>1. PICK n \in Values, s \in Dates, e \in Dates :
        /\ s < e
        /\ Create(q, {}, {Row("semester", q, [name |-> n, start_date |-> s, end_date |-> e])}, "exists")
  BY DEF CreateSemester
<1> DEFINE cols == [name |-> n, start_date |-> s, end_date |-> e]
           r == Row("semester", q, cols)
<1>2. cols["start_date"] = s /\ cols["end_date"] = e /\ DOMAIN cols = {"name", "start_date", "end_date"}
  OBVIOUS
<1> HIDE DEF cols
<1>3. TableOf(r) = "semester" /\ Id(r) = q /\ r.cols = cols /\ IsRow(r)
  BY <1>2, RowParts, NewRow, SemesterTable, KeptColumns
<1>4. References(r) = {}
  BY <1>3, SemesterTable, NoReferences
<1> HIDE DEF r
<1>5. Inserting(q, With({}), {r}, "exists")
  BY <1>1, <1>2, <1>3, <1>4, OneRow DEF Ordered, Lasting, Profiles
<1>6. QED
  BY <1>1, <1>5, CreateInv DEF r, cols

LEMMA CreateClassSessionInv ==
  ASSUME CatalogueInv, NEW q \in Requests, CreateClassSession(q)
  PROVE  CatalogueInv'
<1>1. PICK x \in IdsOf("course"), t \in IdsOf("teacher"), s \in IdsOf("semester") :
        Create(q, {<<"course", x>>, <<"teacher", t>>, <<"user", t>>, <<"semester", s>>},
               {Row("class_session", q, [course_id |-> x, teacher_id |-> t, semester_id |-> s])},
               "error")
  BY DEF CreateClassSession
<1> DEFINE cols == [course_id |-> x, teacher_id |-> t, semester_id |-> s]
           r == Row("class_session", q, cols)
           refs == {<<"course", x>>, <<"teacher", t>>, <<"user", t>>, <<"semester", s>>}
<1>2. TableOf(r) = "class_session" /\ Id(r) = q /\ r.cols = cols /\ IsRow(r)
  BY RowParts, NewRow, ClassSessionTable, KeptColumns DEF Profiles
<1>3. References(r) \subseteq refs
  BY <1>2, ClassSessionTable DEF References
<1> HIDE DEF r, refs
<1>4. Exist(refs) => \A k \in References(r) : Found(k, With(refs))
  BY <1>3, FoundWith
<1>5. Exist(refs) => Inserting(q, With(refs), {r}, "error")
  BY <1>2, <1>4, OneRow, ClassSessionTable DEF Ordered, Lasting, Profiles
<1>6. QED
  BY <1>1, <1>5, CreateInv DEF r, refs

LEMMA CreateEnrollmentInv ==
  ASSUME CatalogueInv, NEW q \in Requests, CreateEnrollment(q)
  PROVE  CatalogueInv'
<1>1. PICK x \in IdsOf("student"), k \in IdsOf("class_session") :
        Create(q, {<<"student", x>>, <<"user", x>>, <<"class_session", k>>},
               {Row("enrollment", q, [student_id |-> x, class_session_id |-> k])}, "exists")
  BY DEF CreateEnrollment
<1> DEFINE cols == [student_id |-> x, class_session_id |-> k]
           r == Row("enrollment", q, cols)
           refs == {<<"student", x>>, <<"user", x>>, <<"class_session", k>>}
<1>2. TableOf(r) = "enrollment" /\ Id(r) = q /\ r.cols = cols /\ IsRow(r)
  BY RowParts, NewRow, EnrollmentTable, KeptColumns DEF Profiles
<1>3. References(r) \subseteq refs
  BY <1>2, EnrollmentTable DEF References
<1> HIDE DEF r, refs
<1>4. Exist(refs) => \A j \in References(r) : Found(j, With(refs))
  BY <1>3, FoundWith
<1>5. Exist(refs) => Inserting(q, With(refs), {r}, "exists")
  BY <1>2, <1>4, OneRow DEF Ordered, Lasting, Profiles
<1>6. QED
  BY <1>1, <1>5, CreateInv DEF r, refs

(* An account and its profile.                                             *)
LEMMA AccountRows ==
  ASSUME NEW q, NEW table \in {"student", "teacher"}, NEW d, NEW e,
         Exist({<<"department", d>>})
  PROVE  Inserting(q, With({<<"department", d>>}),
                   {Account(q, e),
                    Row(table, q, [user_id |-> q, department_id |-> d, first_name |-> e])}, "exists")
<1> DEFINE cols == [user_id |-> q, department_id |-> d, first_name |-> e]
           u == Account(q, e)
           p == Row(table, q, cols)
           seen == With({<<"department", d>>})
<1>1. TableOf(u) = "user" /\ Id(u) = q /\ u.key = <<"user", q>> /\ IsRow(u)
  BY RowParts, NewRow, UserTable, KeptColumns DEF Account, Profiles
<1>2. TableOf(p) = table /\ Id(p) = q /\ p.cols = cols /\ IsRow(p)
  BY RowParts, NewRow, StudentTable, TeacherTable, KeptColumns DEF Profiles
<1>3. References(u) = {}
  BY <1>1, UserTable, NoReferences
<1>4. References(p) \subseteq {u.key, <<"department", d>>}
  BY <1>1, <1>2, StudentTable, TeacherTable DEF References
<1>5. Found(<<"department", d>>, seen)
  BY FoundWith
<1>6. p.cols["user_id"] = q
  BY <1>2
<1> HIDE DEF u, p, cols, seen
<1>7. Inserting(q, seen, {u, p}, "exists")
  BY <1>1, <1>2, <1>3, <1>4, <1>5, <1>6 DEF Inserting, Found, Ordered, Profiles
<1>8. QED
  BY <1>7 DEF u, p, cols, seen

LEMMA CreateProfileInv ==
  ASSUME CatalogueInv, NEW q \in Requests, CreateStudent(q) \/ CreateTeacher(q)
  PROVE  CatalogueInv'
<1>1. CASE CreateStudent(q)
  BY <1>1, AccountRows, CreateInv DEF CreateStudent
<1>2. CASE CreateTeacher(q)
  BY <1>2, AccountRows, CreateInv DEF CreateTeacher
<1>3. QED
  BY <1>1, <1>2

(* What is loaded with the keys targets, of which no two are of one table. *)
LEMMA Loaded ==
  ASSUME CatalogueInv, NEW targets, NEW refs,
         \A j, k \in targets : j[1] = k[1] => j = k
  PROVE  /\ With(targets) \subseteq With(targets \cup refs)
         /\ \A l \in With(targets) : l \in rows /\ IsRow(l) /\ l.key \in targets
         /\ \A l, o \in With(targets) : TableOf(l) = TableOf(o) => l = o
<1>1. \A l \in With(targets) : l \in rows /\ IsRow(l) /\ l.key \in targets
  BY DEF With, CatalogueInv, Sound
<1>2. ASSUME NEW l \in With(targets), NEW o \in With(targets), TableOf(l) = TableOf(o)
      PROVE  l = o
  BY <1>1, <1>2 DEF TableOf, CatalogueInv, Sound
<1>3. QED
  BY <1>1, <1>2 DEF With

(* A handler that assigns what the payload gives.                          *)
LEMMA PayloadAssigned ==
  ASSUME CatalogueInv, NEW targets, NEW refs, NEW payload, NEW onfail \in {"exists", "error"},
         \A j, k \in targets : j[1] = k[1] => j = k,
         \A k \in targets : k[1] # "semester",
         "user_id" \notin DOMAIN payload,
         \A l \in With(targets) : \A c \in DOMAIN payload :
           LET table == Models[TableOf(l)]
           IN  /\ c \in DOMAIN table.refs =>
                    Found(<<table.refs[c], payload[c]>>, With(targets \cup refs))
               /\ onfail = "error" => \A u \in table.unique : c \notin u
  PROVE  Assigning(With(targets \cup refs), With(targets), payload, payload, onfail)
<1>1. /\ With(targets) \subseteq With(targets \cup refs)
      /\ \A l \in With(targets) : l \in rows /\ IsRow(l) /\ l.key \in targets
      /\ \A l, o \in With(targets) : TableOf(l) = TableOf(o) => l = o
  BY Loaded
<1>2. \A l \in With(targets) : TableOf(l) # "semester"
  BY <1>1 DEF TableOf
<1>3. \A l \in With(targets) : \A c \in DirtyIn(payload, l) :
        Assigns(With(targets \cup refs), payload, payload, onfail, l, c)
  BY DEF DirtyIn, Assigns
<1>4. QED
  BY <1>1, <1>2, <1>3 DEF Assigning

LEMMA OneRowAssigned ==
  ASSUME CatalogueInv, NEW table, NEW x, NEW refs, NEW payload, NEW onfail \in {"exists", "error"},
         table # "semester", "user_id" \notin DOMAIN payload,
         \A c \in DOMAIN payload :
           /\ c \in DOMAIN Models[table].refs =>
                Found(<<Models[table].refs[c], payload[c]>>, With({<<table, x>>} \cup refs))
           /\ onfail = "error" => \A u \in Models[table].unique : c \notin u
  PROVE  Assigning(With({<<table, x>>} \cup refs), With({<<table, x>>}), payload, payload, onfail)
<1> DEFINE targets == {<<table, x>>}
<1>1. \A l \in With(targets) : TableOf(l) = table
  BY DEF With, TableOf
<1>2. /\ \A j, k \in targets : j[1] = k[1] => j = k
      /\ \A k \in targets : k[1] # "semester"
  OBVIOUS
<1> HIDE DEF targets
<1>3. Assigning(With(targets \cup refs), With(targets), payload, payload, onfail)
  BY <1>1, <1>2, PayloadAssigned DEF targets
<1>4. QED
  BY <1>3 DEF targets

LEMMA ExistUnion ==
  ASSUME NEW targets, NEW refs, Exist(targets), Exist(refs)
  PROVE  Exist(targets \cup refs)
BY DEF Exist

LEMMA UpdateDepartmentInv ==
  ASSUME CatalogueInv, NEW q \in Requests, UpdateDepartment(q)
  PROVE  CatalogueInv'
<1>1. PICK d \in IdsOf("department"), column \in {"name", "code"}, v \in Values :
        Update(q, {<<"department", d>>}, {}, [c \in {column} |-> v], [c \in {column} |-> v], "exists")
  BY DEF UpdateDepartment
<1> DEFINE payload == [c \in {column} |-> v]
<1>2. "user_id" \notin DOMAIN payload
  OBVIOUS
<1> HIDE DEF payload
<1>3. Assigning(With({<<"department", d>>} \cup {}), With({<<"department", d>>}), payload, payload,
                "exists")
  BY <1>2, DepartmentTable, NoColumns, OneRowAssigned
<1>4. QED
  BY <1>1, <1>3, UpdateInv DEF payload

LEMMA UpdateCourseInv ==
  ASSUME CatalogueInv, NEW q \in Requests, UpdateCourse(q)
  PROVE  CatalogueInv'
<1>1. PICK x \in IdsOf("course") :
        \/ \E d \in IdsOf("department") :
             Update(q, {<<"course", x>>}, {<<"department", d>>}, [department_id |-> d],
                    [department_id |-> d], "exists")
        \/ \E c \in Values : Update(q, {<<"course", x>>}, {}, [code |-> c], [code |-> c], "exists")
  BY DEF UpdateCourse
<1> DEFINE targets == {<<"course", x>>}
<1>3. CASE \E d \in IdsOf("department") :
             Update(q, targets, {<<"department", d>>}, [department_id |-> d],
                    [department_id |-> d], "exists")
  <2>1. PICK d \in IdsOf("department") :
          Update(q, targets, {<<"department", d>>}, [department_id |-> d], [department_id |-> d],
                 "exists")
    BY <1>3
  <2> DEFINE refs == {<<"department", d>>}
  <2>2. Exist(targets) /\ Exist(refs) => Found(<<"department", d>>, With(targets \cup refs))
    BY ExistUnion, FoundWith
  <2> DEFINE payload == [department_id |-> d]
  <2>3. DOMAIN payload = {"department_id"} /\ payload["department_id"] = d
    OBVIOUS
  <2> HIDE DEF refs, payload
  <2>4. Exist(targets) /\ Exist(refs) =>
          Assigning(With(targets \cup refs), With(targets), payload, payload, "exists")
    BY <2>2, <2>3, CourseTable, OneRowAssigned
  <2>5. QED
    BY <2>1, <2>4, UpdateInv DEF refs, payload
<1>4. CASE \E c \in Values : Update(q, targets, {}, [code |-> c], [code |-> c], "exists")
  <2>1. PICK c \in Values : Update(q, targets, {}, [code |-> c], [code |-> c], "exists")
    BY <1>4
  <2> DEFINE payload == [code |-> c]
  <2>2. DOMAIN payload = {"code"}
    OBVIOUS
  <2> HIDE DEF payload
  <2>3. Assigning(With(targets \cup {}), With(targets), payload, payload, "exists")
    BY <2>2, CourseTable, OneRowAssigned
  <2>4. QED
    BY <2>1, <2>3, UpdateInv DEF payload
<1>5. QED
  BY <1>1, <1>3, <1>4

LEMMA UpdateRoomInv ==
  ASSUME CatalogueInv, NEW q \in Requests, UpdateRoom(q)
  PROVE  CatalogueInv'
<1>1. PICK x \in IdsOf("room"), n \in Values :
        Update(q, {<<"room", x>>}, {}, [name |-> n], [name |-> n], "exists")
  BY DEF UpdateRoom
<1> DEFINE payload == [name |-> n]
<1>2. DOMAIN payload = {"name"}
  OBVIOUS
<1> HIDE DEF payload
<1>3. Assigning(With({<<"room", x>>} \cup {}), With({<<"room", x>>}), payload, payload, "exists")
  BY <1>2, RoomTable, NoColumns, OneRowAssigned
<1>4. QED
  BY <1>1, <1>3, UpdateInv DEF payload

(* The dates that the payload does not give are assigned as they were      *)
(* loaded, and so not written.                                             *)
LEMMA UpdateSemesterInv ==
  ASSUME CatalogueInv, NEW q \in Requests, UpdateSemester(q)
  PROVE  CatalogueInv'
<1>1. PICK x \in IdsOf("semester"), payload \in SemesterPayloads :
        LET key == <<"semester", x>>
            new(c) == IF c \in DOMAIN payload THEN payload[c]
                      ELSE (CHOOSE r \in rows : r.key = key).cols[c]
            set == [c \in DOMAIN payload \cup {"start_date", "end_date"} |-> new(c)]
        IN  IF Exist({key}) /\ new("start_date") >= new("end_date")
            THEN Refuse(q)
            ELSE Update(q, {key}, {}, payload, set, "exists")
  BY DEF UpdateSemester
<1> DEFINE key == <<"semester", x>>
           old == CHOOSE r \in rows : r.key = key
           new(c) == IF c \in DOMAIN payload THEN payload[c] ELSE old.cols[c]
           set == [c \in DOMAIN payload \cup {"start_date", "end_date"} |-> new(c)]
<1>2. CASE Refuse(q)
  BY <1>2, RefuseInv
<1>3. CASE ~ (Exist({key}) /\ new("start_date") >= new("end_date"))
           /\ Update(q, {key}, {}, payload, set, "exists")
  <2> SUFFICES ASSUME Exist({key})
               PROVE  Assigning(With({key} \cup {}), With({key}), payload, set, "exists")
    BY <1>3, UpdateInv
  <2>1. /\ \A l \in With({key}) : l \in rows /\ IsRow(l) /\ TableOf(l) = "semester" /\ l = old
        /\ \A l, o \in With({key}) : TableOf(l) = TableOf(o) => l = o
    <3>1. \A l \in With({key}) : l \in rows /\ l.key = key /\ TableOf(l) = "semester"
      BY DEF With, TableOf
    <3>2. \A l \in With({key}) : l = old
      BY <3>1 DEF CatalogueInv, Sound
    <3>3. QED
      BY <3>1, <3>2 DEF CatalogueInv, Sound
  <2>2. old \in rows /\ IsRow(old) /\ TableOf(old) = "semester"
    BY <2>1 DEF Exist, With
  <2>3. DOMAIN payload \subseteq {"name", "start_date", "end_date"}
        /\ \A c \in DOMAIN payload \cap {"start_date", "end_date"} : payload[c] \in Dates
    BY DEF SemesterPayloads
  <2>4. new("start_date") \in Dates /\ new("end_date") \in Dates
    BY <2>2, <2>3, KeptColumns DEF IsRow
  <2>5. new("start_date") < new("end_date")
    <3> HIDE DEF new, key
    <3>1. ~ (new("start_date") >= new("end_date"))
      BY <1>3
    <3>2. new("start_date") \in Nat /\ new("end_date") \in Nat
      BY <2>4, DatesAssumption
    <3>3. QED
      BY <3>1, <3>2
  <2>6. /\ DOMAIN set = DOMAIN payload \cup {"start_date", "end_date"}
        /\ \A c \in DOMAIN set : set[c] = new(c)
    OBVIOUS
  <2> HIDE DEF set, key, old
  <2>7. ASSUME NEW l \in With({key}), NEW c \in DirtyIn(set, l)
        PROVE  Assigns(With({key} \cup {}), payload, set, "exists", l, c)
    <3>1. c \in DOMAIN payload /\ set[c] = payload[c]
      BY <2>1, <2>6 DEF DirtyIn
    <3>2. QED
      BY <2>1, <3>1, SemesterTable, NoColumns DEF Assigns
  <2>8. QED
    BY <2>1, <2>3, <2>4, <2>5, <2>6, <2>7, KeptColumns DEF Assigning
<1>4. QED
  BY <1>1, <1>2, <1>3

(* What a profile's columns may be assigned without a key being at stake.  *)
LEMMA ProfileTables ==
  \A t \in Profiles : /\ Models[t].unique = {{"user_id"}}
                      /\ "first_name" \notin DOMAIN Models[t].refs
                      /\ "is_active" \notin DOMAIN Models[t].refs
BY StudentTable, TeacherTable, ParentTable, AdminTable DEF Profiles

LEMMA UpdateMeInv ==
  ASSUME CatalogueInv, NEW q \in Requests, UpdateMe(q)
  PROVE  CatalogueInv'
<1>0. PICK table \in Profiles, n \in Values : \E x \in IdsOf(table) :
        Update(q, {<<table, x>>}, {}, [first_name |-> n], [first_name |-> n], "error")
  BY DEF UpdateMe
<1>1. PICK x \in IdsOf(table) :
        Update(q, {<<table, x>>}, {}, [first_name |-> n], [first_name |-> n], "error")
  BY <1>0
<1> DEFINE payload == [first_name |-> n]
<1>2. DOMAIN payload = {"first_name"}
  OBVIOUS
<1> HIDE DEF payload
<1>3. Assigning(With({<<table, x>>} \cup {}), With({<<table, x>>}), payload, payload, "error")
  <2>1. table # "semester" /\ "user_id" \notin DOMAIN payload
    BY <1>2 DEF Profiles
  <2>2. \A c \in DOMAIN payload :
          /\ c \notin DOMAIN Models[table].refs
          /\ \A u \in Models[table].unique : c \notin u
    BY <1>2, ProfileTables
  <2>3. QED
    BY <2>1, <2>2, OneRowAssigned
<1>4. QED
  BY <1>1, <1>3, UpdateInv DEF payload

(* The profile and the account of a student or teacher.                    *)
LEMMA ProfileAssigned ==
  ASSUME CatalogueInv, NEW table \in {"student", "teacher"}, NEW x, NEW refs, NEW payload,
         DOMAIN payload \subseteq {"first_name", "is_active", "department_id"},
         "department_id" \in DOMAIN payload =>
           Found(<<"department", payload["department_id"]>>,
                 With({<<table, x>>, <<"user", x>>} \cup refs))
  PROVE  Assigning(With({<<table, x>>, <<"user", x>>} \cup refs), With({<<table, x>>, <<"user", x>>}),
                   payload, payload, "error")
<1> DEFINE targets == {<<table, x>>, <<"user", x>>}
<1>1. /\ \A l \in With(targets) : TableOf(l) \in {table, "user"}
      /\ \A j, k \in targets : j[1] = k[1] => j = k
      /\ \A k \in targets : k[1] # "semester"
  BY DEF With, TableOf
<1>2. "department_id" \in DOMAIN payload =>
        Found(<<"department", payload["department_id"]>>, With(targets \cup refs))
  OBVIOUS
<1> HIDE DEF targets
<1>3. ASSUME NEW l \in With(targets), NEW c \in DOMAIN payload
      PROVE  LET t == Models[TableOf(l)]
             IN  /\ c \in DOMAIN t.refs => Found(<<t.refs[c], payload[c]>>, With(targets \cup refs))
                 /\ \A u \in t.unique : c \notin u
  <2>1. CASE TableOf(l) = table
    BY <1>2, <2>1, StudentTable, TeacherTable
  <2>2. CASE TableOf(l) = "user"
    BY <2>2, UserTable, NoColumns
  <2>3. QED
    BY <1>1, <2>1, <2>2
<1>4. Assigning(With(targets \cup refs), With(targets), payload, payload, "error")
  BY <1>1, <1>3, PayloadAssigned
<1>5. QED
  BY <1>4 DEF targets

LEMMA UpdateProfileInv ==
  ASSUME CatalogueInv, NEW q \in Requests, NEW table \in {"student", "teacher"},
         UpdateProfile(q, table)
  PROVE  CatalogueInv'
<1>1. PICK x \in IdsOf(table) :
        LET keys == {<<table, x>>, <<"user", x>>}
        IN  \/ \E d \in IdsOf("department") :
                 Update(q, keys, {<<"department", d>>}, [department_id |-> d], [department_id |-> d],
                        "error")
            \/ \E payload \in [{"first_name"} -> Values] \cup [{"is_active"} -> BOOLEAN] :
                 Update(q, keys, {}, payload, payload, "error")
  BY DEF UpdateProfile
<1> DEFINE keys == {<<table, x>>, <<"user", x>>}
<1>2. ASSUME NEW d \in IdsOf("department"),
             Update(q, keys, {<<"department", d>>}, [department_id |-> d], [department_id |-> d],
                    "error")
      PROVE  CatalogueInv'
  <2> DEFINE refs == {<<"department", d>>}
             payload == [department_id |-> d]
  <2>1. DOMAIN payload = {"department_id"} /\ payload["department_id"] = d
    OBVIOUS
  <2>2. <<"department", d>> \in refs
    OBVIOUS
  <2> HIDE DEF refs, keys, payload
  <2>3. Exist(keys) /\ Exist(refs) => Found(<<"department", d>>, With(keys \cup refs))
    BY <2>2, ExistUnion, FoundWith
  <2>4. Exist(keys) /\ Exist(refs) =>
          Assigning(With(keys \cup refs), With(keys), payload, payload, "error")
    BY <2>1, <2>3, ProfileAssigned DEF keys
  <2>5. QED
    BY <1>2, <2>4, UpdateInv DEF refs, payload
<1>3. ASSUME NEW payload \in [{"first_name"} -> Values] \cup [{"is_active"} -> BOOLEAN],
             Update(q, keys, {}, payload, payload, "error")
      PROVE  CatalogueInv'
  <2>1. DOMAIN payload \subseteq {"first_name", "is_active"}
    OBVIOUS
  <2>2. Assigning(With(keys \cup {}), With(keys), payload, payload, "error")
    BY <2>1, ProfileAssigned
  <2>3. QED
    BY <1>3, <2>2, UpdateInv
<1>4. QED
  BY <1>1, <1>2, <1>3

LEMMA DeactivateInv ==
  ASSUME CatalogueInv, NEW q \in Requests, DeactivateStudent(q)
  PROVE  CatalogueInv'
<1>1. PICK x \in IdsOf("student") :
        Update(q, {<<"student", x>>, <<"user", x>>}, {}, [is_active |-> FALSE],
               [is_active |-> FALSE], "error")
  BY DEF DeactivateStudent
<1> DEFINE payload == [is_active |-> FALSE]
<1>2. DOMAIN payload = {"is_active"}
  OBVIOUS
<1> HIDE DEF payload
<1>3. Assigning(With({<<"student", x>>, <<"user", x>>} \cup {}), With({<<"student", x>>, <<"user", x>>}),
                payload, payload, "error")
  BY <1>2, ProfileAssigned
<1>4. QED
  BY <1>1, <1>3, UpdateInv DEF payload

LEMMA DeleteRoutesInv ==
  ASSUME CatalogueInv, NEW q \in Requests,
         DeleteDepartment(q) \/ DeleteCourse(q) \/ DeleteRoom(q) \/ DeleteSemester(q)
  PROVE  CatalogueInv'
BY DeleteInv DEF DeleteDepartment, DeleteCourse, DeleteRoom, DeleteSemester, Lasting, Profiles

-----------------------------------------------------------------------------
(* The transactions.                                                       *)

(* What a step that changes rows and one request has to preserve.          *)
LEMMA WriteStep ==
  ASSUME CatalogueInv, NEW q \in Requests, NEW x, IsRequest(x),
         x.state \in {"stored", "answered"}, req' = [req EXCEPT ![q] = x],
         Sound(rows'), Matched(rows'),
         \A r \in rows' : Id(r) = q \/ \E o \in rows : Id(o) = Id(r)
  PROVE  CatalogueInv'
<1>1. /\ DOMAIN req' = Requests /\ req' = [p \in Requests |-> req'[p]]
      /\ \A p \in Requests : req'[p] = IF p = q THEN x ELSE req[p]
  BY DEF CatalogueInv
<1>2. \A p \in Requests : IsRequest(req'[p]) /\ Prepared(p, req'[p])
  BY <1>1 DEF CatalogueInv, Prepared
<1>3. Ids(rows)'
  BY <1>1 DEF CatalogueInv, Ids
<1>4. QED
  BY <1>1, <1>2, <1>3 DEF CatalogueInv, Sound, Ids, Matched

LEMMA StoredFacts ==
  ASSUME NEW x, IsRequest(x), x.state = "looked"
  PROVE  IsRequest([x EXCEPT !.state = "stored"]) /\ [x EXCEPT !.state = "stored"].state = "stored"
BY DEF IsRequest, Fields, States, Answers

(* The id of a request that has not stored its rows stands in none.        *)
LEMMA FreshId ==
  ASSUME CatalogueInv, NEW q \in Requests, req[q].state = "looked"
  PROVE  \A r \in rows : Id(r) # q
BY DEF CatalogueInv, Ids

LEMMA InsertSound ==
  ASSUME NEW rs, NEW new, Sound(rs), \A r \in new : IsRow(r) /\ Fits(r, rs \cup new),
         \A r, o \in new : TableOf(r) = TableOf(o) => r = o,
         \A r \in rs, o \in new : Id(r) # Id(o)
  PROVE  Sound(rs \cup new)
<1>1. ASSUME NEW r \in rs PROVE Fits(r, rs \cup new)
  <2>1. \A o \in rs \cup new : ~ SharesKey(r, o)
    BY SharesKeySymmetric DEF Sound, Fits
  <2>2. QED
    BY <2>1 DEF Sound, Fits
<1>2. ASSUME NEW r \in rs \cup new, NEW o \in rs \cup new, r.key = o.key PROVE r = o
  BY <1>2, SameKey DEF Sound
<1>3. QED
  BY <1>1, <1>2 DEF Sound

LEMMA InsertMatched ==
  ASSUME NEW rs, NEW new, NEW q, Matched(rs), \A r \in rs : Id(r) # q, \A r \in new : Id(r) = q,
         \/ \A r \in new : TableOf(r) \notin Lasting
         \/ \E u, p \in new : /\ new = {u, p}
                              /\ TableOf(u) = "user" /\ TableOf(p) \in Profiles
                              /\ p.cols["user_id"] = q
  PROVE  Matched(rs \cup new)
<1>0. "user" \notin Profiles
  BY DEF Profiles
<1>1. CASE \A r \in new : TableOf(r) \notin Lasting
  <2>1. \A r \in rs \cup new : TableOf(r) \in Lasting => r \in rs
    BY <1>1
  <2>2. QED
    BY <2>1 DEF Matched, Lasting
<1>2. CASE \E u, p \in new : /\ new = {u, p}
                             /\ TableOf(u) = "user" /\ TableOf(p) \in Profiles
                             /\ p.cols["user_id"] = q
  <2>1. PICK u \in new, p \in new : /\ new = {u, p}
                                    /\ TableOf(u) = "user" /\ TableOf(p) \in Profiles
                                    /\ p.cols["user_id"] = q
    BY <1>2
  <2>2. Id(u) = q
    OBVIOUS
  <2>3. \A o \in rs : TableOf(o) \in Profiles => o.cols["user_id"] # q
    BY DEF Matched
  <2>4. QED
    BY <1>0, <2>1, <2>2, <2>3 DEF Matched
<1>3. QED
  BY <1>1, <1>2

LEMMA WriteCreateInv ==
  ASSUME CatalogueInv, NEW q \in Requests, WriteCreate(q)
  PROVE  CatalogueInv'
<1> DEFINE new == req[q].inserts
<1>1. /\ IsRequest(req[q]) /\ req[q].state = "looked"
      /\ Inserting(q, req[q].seen, new, req[q].onfail)
      /\ Sound(rows) /\ Matched(rows)
  BY DEF WriteCreate, CatalogueInv, Prepared
<1>2. \A r \in rows : Id(r) # q
  BY <1>1, FreshId
<1>3. CASE AllFit(new)
  <2>1. rows' = rows \cup new /\ req' = [req EXCEPT ![q] = [req[q] EXCEPT !.state = "stored"]]
    BY <1>3 DEF WriteCreate, Inserted
  <2>2. /\ \A r \in new : IsRow(r) /\ Id(r) = q /\ Fits(r, rows \cup new)
        /\ \A r, o \in new : TableOf(r) = TableOf(o) => r = o
    BY <1>1, <1>3 DEF Inserting, AllFit
  <2>3. Sound(rows')
    BY <1>1, <1>2, <2>1, <2>2, InsertSound
  <2>4. Matched(rows')
    BY <1>1, <1>2, <2>1, <2>2, InsertMatched DEF Inserting
  <2>5. \A r \in rows' : Id(r) = q \/ \E o \in rows : Id(o) = Id(r)
    BY <2>1, <2>2
  <2>6. QED
    BY <1>1, <2>1, <2>3, <2>4, <2>5, WriteStep, StoredFacts
<1>4. CASE ~ AllFit(new)
  <2>1. rows' = rows /\ req' = [req EXCEPT ![q] = Answered(req[q], req[q].onfail)]
    BY <1>4 DEF WriteCreate, Inserted
  <2>2. req[q].onfail \in Answers \ {"none"}
    BY <1>1 DEF Inserting, Answers
  <2>3. QED
    BY <1>1, <2>1, <2>2, WriteStep, AnsweredFacts
<1>5. QED
  BY <1>3, <1>4

(* An UPDATE keeps key and columns, and the account of a profile; the      *)
(* values it assigns are those of columns found dirty in the row loaded.   *)
LEMMA ChangedFacts ==
  ASSUME CatalogueInv, NEW q \in Requests, req[q].state = "looked", req[q].op = "update",
         NEW r \in rows, NEW l \in req[q].loaded, l.key = r.key
  PROVE  LET o == Changed(q, r)
         IN  /\ o.key = r.key /\ DOMAIN o.cols = DOMAIN r.cols /\ IsRow(o)
             /\ TableOf(l) = TableOf(r) /\ Dirty(q, l) = DirtyIn(req[q].set, l)
             /\ \A c \in DOMAIN r.cols :
                  o.cols[c] = IF c \in Dirty(q, l) THEN req[q].set[c] ELSE r.cols[c]
             /\ TableOf(r) \in Profiles => o.cols["user_id"] = r.cols["user_id"]
<1> DEFINE cols == [c \in DOMAIN r.cols |-> IF c \in Dirty(q, l) THEN req[q].set[c] ELSE r.cols[c]]
<1>1. /\ Assigning(req[q].seen, req[q].loaded, req[q].payload, req[q].set, req[q].onfail)
      /\ IsRow(r) /\ TableOf(l) = TableOf(r)
  BY SameKey DEF CatalogueInv, Prepared, Sound
<1>2. (CHOOSE x \in req[q].loaded : x.key = r.key) = l
  <2>1. \A x \in req[q].loaded : x.key = r.key => x = l
    BY <1>1, SameKey DEF Assigning
  <2>2. QED
    BY <2>1
<1>3. Changed(q, r) = [r EXCEPT !.cols = cols]
  BY <1>2 DEF Changed
<1>4. Dirty(q, l) = DirtyIn(req[q].set, l)
  BY DEF Dirty, DirtyIn
<1>5. /\ DOMAIN cols = DOMAIN r.cols
      /\ \A c \in DOMAIN r.cols : cols[c] = IF c \in Dirty(q, l) THEN req[q].set[c] ELSE r.cols[c]
  OBVIOUS
<1> HIDE DEF cols
<1>6. Changed(q, r) = Row(TableOf(r), Id(r), cols)
  BY <1>1, <1>3 DEF IsRow, Row
<1>7. Changed(q, r).key = r.key /\ Changed(q, r).cols = cols
  BY <1>1, <1>6 DEF IsRow, Row
<1>8. TableOf(r) = "semester" => \A c \in Kept("semester") : cols[c] \in Dates
  BY <1>1, <1>5 DEF IsRow, Assigning
<1>9. IsRow(Row(TableOf(r), Id(r), cols))
  BY <1>1, <1>5, <1>8, NewRow DEF IsRow
<1>10. TableOf(r) \in Profiles => cols["user_id"] = r.cols["user_id"]
  BY <1>1, <1>4, <1>5, KeptColumns DEF IsRow, Assigning, DirtyIn
<1>11. QED
  BY <1>1, <1>4, <1>5, <1>6, <1>7, <1>9, <1>10

(* The rows rs as a transaction leaves them that has changed those of the  *)
(* keys given.                                                             *)
LEMMA Rewritten ==
  ASSUME NEW rs, Sound(rs), Matched(rs), NEW after, NEW keys,
         \A o \in after : IsRow(o) /\ \E r \in rs :
           /\ r.key = o.key
           /\ TableOf(r) \in Profiles => o.cols["user_id"] = r.cols["user_id"],
         \A r \in rs : \E o \in after :
           /\ r.key = o.key
           /\ TableOf(r) \in Profiles => o.cols["user_id"] = r.cols["user_id"],
         \A o, p \in after : o.key = p.key => o = p,
         \A o \in after : o.key \in keys => Fits(o, after),
         \A o \in after : o.key \notin keys => o \in rs
  PROVE  Sound(after) /\ Matched(after)
<1>1. ASSUME NEW o \in after PROVE Fits(o, after)
  <2>1. CASE o.key \in keys
    BY <2>1
  <2>2. CASE o.key \notin keys
    <3>1. o \in rs /\ Fits(o, rs)
      BY <2>2 DEF Sound
    <3>2. ASSUME NEW p \in after PROVE ~ SharesKey(o, p)
      BY <3>1, SharesKeySymmetric DEF Fits
    <3>3. QED
      BY <3>1, <3>2 DEF Fits
  <2>3. QED
    BY <2>1, <2>2
<1>2. Sound(after)
  BY <1>1 DEF Sound
<1>3. ASSUME NEW u \in after, TableOf(u) = "user"
      PROVE  \E p \in after : TableOf(p) \in Profiles /\ p.cols["user_id"] = Id(u)
  <2>1. PICK r \in rs : r.key = u.key
    OBVIOUS
  <2>2. TableOf(r) = "user" /\ Id(r) = Id(u)
    BY <1>3, <2>1, SameKey
  <2>3. PICK p \in rs : TableOf(p) \in Profiles /\ p.cols["user_id"] = Id(u)
    BY <2>2 DEF Matched
  <2>4. PICK o \in after : p.key = o.key /\ o.cols["user_id"] = p.cols["user_id"]
    BY <2>3
  <2>5. QED
    BY <2>3, <2>4, SameKey
<1>4. ASSUME NEW p \in after, TableOf(p) \in Profiles
      PROVE  \E u \in after : TableOf(u) = "user" /\ p.cols["user_id"] = Id(u)
  <2>1. PICK r \in rs : r.key = p.key /\ TableOf(r) \in Profiles /\ p.cols["user_id"] = r.cols["user_id"]
    BY <1>4, SameKey
  <2>2. PICK u \in rs : TableOf(u) = "user" /\ r.cols["user_id"] = Id(u)
    BY <2>1 DEF Matched
  <2>3. PICK o \in after : u.key = o.key
    OBVIOUS
  <2>4. QED
    BY <2>1, <2>2, <2>3, SameKey
<1>5. ASSUME NEW p \in after, NEW o \in after, TableOf(p) \in Profiles, TableOf(o) \in Profiles,
             p.cols["user_id"] = o.cols["user_id"]
      PROVE  p = o
  <2>1. PICK r \in rs : r.key = p.key /\ TableOf(r) \in Profiles /\ p.cols["user_id"] = r.cols["user_id"]
    BY <1>5, SameKey
  <2>2. PICK s \in rs : s.key = o.key /\ TableOf(s) \in Profiles /\ o.cols["user_id"] = s.cols["user_id"]
    BY <1>5, SameKey
  <2>3. r = s
    BY <1>5, <2>1, <2>2 DEF Matched
  <2>4. QED
    BY <2>1, <2>2, <2>3
<1>6. QED
  BY <1>2, <1>3, <1>4, <1>5 DEF Matched

LEMMA WriteUpdateInv ==
  ASSUME CatalogueInv, NEW q \in Requests, WriteUpdate(q)
  PROVE  CatalogueInv'
<1> DEFINE keys == {r.key : r \in Modified(q)}
           after == {IF r.key \in keys THEN Changed(q, r) ELSE r : r \in rows}
<1>1. /\ IsRequest(req[q]) /\ req[q].state = "looked" /\ req[q].op = "update"
      /\ req[q].onfail \in Answers \ {"none"}
      /\ Sound(rows) /\ Matched(rows)
  BY DEF WriteUpdate, CatalogueInv, Prepared, Assigning, Answers
<1>2. CASE rows' = rows /\ \E a \in {"error", req[q].onfail} :
                             req' = [req EXCEPT ![q] = Answered(req[q], a)]
  <2>1. PICK a \in Answers \ {"none"} : req' = [req EXCEPT ![q] = Answered(req[q], a)]
    BY <1>1, <1>2 DEF Answers
  <2>2. QED
    BY <1>1, <1>2, <2>1, WriteStep, AnsweredFacts
<1>3. CASE /\ rows' = after /\ req' = [req EXCEPT ![q].state = "stored"]
           /\ \A r \in after : r.key \in keys => Fits(r, after)
  <2>1. ASSUME NEW r \in rows, r.key \in keys
        PROVE  /\ Changed(q, r).key = r.key /\ IsRow(Changed(q, r))
               /\ TableOf(r) \in Profiles => Changed(q, r).cols["user_id"] = r.cols["user_id"]
    <3>1. PICK l \in req[q].loaded : l.key = r.key
      BY <2>1 DEF Modified
    <3>2. QED
      BY <1>1, <3>1, ChangedFacts
  <2>2. \A r \in rows : IsRow(r)
    BY <1>1 DEF Sound
  <2>3. ASSUME NEW o \in after
        PROVE  /\ IsRow(o)
               /\ o.key \notin keys => o \in rows
               /\ \E r \in rows : /\ r.key = o.key /\ o = IF r.key \in keys THEN Changed(q, r) ELSE r
                                  /\ TableOf(r) \in Profiles => o.cols["user_id"] = r.cols["user_id"]
    <3>1. PICK r \in rows : o = IF r.key \in keys THEN Changed(q, r) ELSE r
      OBVIOUS
    <3>2. QED
      BY <2>1, <2>2, <3>1
  <2>4. ASSUME NEW r \in rows
        PROVE  \E o \in after : /\ r.key = o.key
                                /\ TableOf(r) \in Profiles => o.cols["user_id"] = r.cols["user_id"]
    <3>1. (IF r.key \in keys THEN Changed(q, r) ELSE r) \in after
      OBVIOUS
    <3>2. QED
      BY <2>1, <3>1
  <2>5. \A o, p \in after : o.key = p.key => o = p
    BY <1>1, <2>3 DEF Sound
  <2> HIDE DEF after, keys
  <2>6. Sound(rows') /\ Matched(rows')
    <3>1. \A o \in after : o.key \in keys => Fits(o, after)
      BY <1>3
    <3>2. \A o \in after : IsRow(o) /\ \E r \in rows :
            /\ r.key = o.key
            /\ TableOf(r) \in Profiles => o.cols["user_id"] = r.cols["user_id"]
      BY <2>3
    <3>3. \A o \in after : o.key \notin keys => o \in rows
      BY <2>3
    <3>4. Sound(after) /\ Matched(after)
      BY <1>1, <2>4, <2>5, <3>1, <3>2, <3>3, Rewritten
    <3>5. QED
      BY <1>3, <3>4
  <2>7. \A r \in rows' : \E o \in rows : Id(o) = Id(r)
    BY <1>3, <2>3, SameKey
  <2>8. QED
    BY <1>1, <1>3, <2>6, <2>7, WriteStep, StoredFacts
<1>4. QED
  BY <1>2, <1>3 DEF WriteUpdate

(* Only a row that nothing refers to is deleted, and no account or         *)
(* profile.                                                                *)
LEMMA WriteDeleteInv ==
  ASSUME CatalogueInv, NEW q \in Requests, WriteDelete(q)
  PROVE  CatalogueInv'
<1> DEFINE keys == {r.key : r \in req[q].loaded}
<1>1. /\ IsRequest(req[q]) /\ req[q].state = "looked" /\ Deleting(req[q].loaded, req[q].onfail)
      /\ Sound(rows) /\ Matched(rows)
  BY DEF WriteDelete, CatalogueInv, Prepared
<1>2. PICK a \in {"referenced", "ok"} : req' = [req EXCEPT ![q] = Answered(req[q], a)]
  BY <1>1 DEF WriteDelete, Deleting
<1>3. \A r \in rows' : \E o \in rows : Id(o) = Id(r)
  BY DEF WriteDelete
<1>4. CASE rows' = rows
  BY <1>1, <1>2, <1>3, <1>4, WriteStep, AnsweredFacts DEF Answers
<1>5. CASE rows' = rows \ With(keys) /\ ~ \E k \in keys : Referenced(k)
  <2>1. \A r \in rows : r \in rows' <=> r.key \notin keys
    BY <1>5 DEF With
  <2>2. rows' \subseteq rows
    BY <1>5
  <2>3. ASSUME NEW r \in rows' PROVE Fits(r, rows')
    <3>1. ASSUME NEW k \in References(r) PROVE \E o \in rows' : o.key = k
      <4>1. PICK o \in rows : o.key = k
        BY <1>1, <2>2 DEF Sound, Fits
      <4>2. k \notin keys
        BY <1>5, <2>2, <3>1 DEF Referenced
      <4>3. QED
        BY <2>1, <4>1, <4>2
    <3>2. QED
      BY <1>1, <2>2, <3>1 DEF Sound, Fits
  <2>4. Sound(rows')
    BY <1>1, <2>2, <2>3 DEF Sound
  <2>5. \A r \in rows : TableOf(r) \in Lasting => r \in rows'
    <3>1. \A r \in rows, l \in req[q].loaded : l.key = r.key => TableOf(l) = TableOf(r)
      BY SameKey
    <3>2. QED
      BY <1>1, <2>1, <3>1 DEF Deleting
  <2>6. Matched(rows')
    BY <1>1, <2>2, <2>5 DEF Matched, Lasting
  <2>7. QED
    BY <1>1, <1>2, <1>3, <2>4, <2>6, WriteStep, AnsweredFacts DEF Answers
<1>6. QED
  BY <1>4, <1>5 DEF WriteDelete

-----------------------------------------------------------------------------
(* The invariant.                                                          *)

LEMMA PairedMatched ==
  ASSUME NEW rs, IsFiniteSet(rs), Paired(rs)
  PROVE  Matched(rs)
<1> DEFINE profiles == {r \in rs : TableOf(r) \in Profiles}
           of(u) == {p \in profiles : p.cols["user_id"] = Id(u)}
<1>1. ASSUME NEW u \in rs, TableOf(u) = "user" PROVE \E p : of(u) = {p}
  <2>1. IsFiniteSet(of(u))
    BY FS_Subset
  <2>2. Cardinality(of(u)) = 1
    BY <1>1 DEF Paired
  <2> HIDE DEF of
  <2>3. QED
    BY <2>1, <2>2, FS_Singleton
<1>2. \A p \in profiles : \E u \in rs : TableOf(u) = "user" /\ p.cols["user_id"] = Id(u)
  BY DEF Paired
<1>3. ASSUME NEW p \in profiles, NEW o \in profiles, p.cols["user_id"] = o.cols["user_id"]
      PROVE  p = o
  <2>1. PICK u \in rs : TableOf(u) = "user" /\ p.cols["user_id"] = Id(u)
    BY <1>2
  <2>2. p \in of(u) /\ o \in of(u)
    BY <1>3, <2>1
  <2> HIDE DEF of
  <2>3. QED
    BY <1>1, <2>1, <2>2
<1>4. QED
  BY <1>1, <1>2, <1>3 DEF Matched

LEMMA MatchedPaired ==
  ASSUME NEW rs, Matched(rs)
  PROVE  Paired(rs)
<1> DEFINE profiles == {r \in rs : TableOf(r) \in Profiles}
           of(u) == {p \in profiles : p.cols["user_id"] = Id(u)}
<1>1. ASSUME NEW u \in rs, TableOf(u) = "user" PROVE Cardinality(of(u)) = 1
  <2>1. PICK p \in of(u) : TRUE
    BY <1>1 DEF Matched
  <2>2. of(u) = {p}
    BY <2>1 DEF Matched
  <2> HIDE DEF of
  <2>3. QED
    BY <2>2, FS_Singleton
<1>2. QED
  BY <1>1 DEF Paired, Matched

LEMMA InitInv == Init => CatalogueInv
<1> SUFFICES ASSUME Init PROVE CatalogueInv
  OBVIOUS
<1>1. /\ DOMAIN req = Requests /\ req = [q \in Requests |-> req[q]]
      /\ \A q \in Requests : req[q] = Unsent
  BY DEF Init
<1>2. \A q : IsRequest(Unsent) /\ Prepared(q, Unsent)
  BY DEF IsRequest, Prepared, Unsent, Fields, States, Answers
<1>3. Sound(rows)
  BY SeedAssumption DEF Init, Sound
<1>4. Ids(rows)
  BY SeedAssumption DEF Init, Ids, SeedIds
<1>5. Matched(rows)
  BY SeedAssumption, PairedMatched DEF Init
<1>6. QED
  BY <1>1, <1>2, <1>3, <1>4, <1>5 DEF CatalogueInv

LEMMA StepInv ==
  ASSUME CatalogueInv, [Next]_vars
  PROVE  CatalogueInv'
<1>1. ASSUME NEW q \in Requests, ReferenceDataRoutes(q) PROVE CatalogueInv'
  BY <1>1, CreateDepartmentInv, CreateCourseInv, CreateRoomInv, CreateSemesterInv,
     UpdateDepartmentInv, UpdateCourseInv, UpdateRoomInv, UpdateSemesterInv, DeleteRoutesInv
     DEF ReferenceDataRoutes
<1>2. ASSUME NEW q \in Requests, UserRoutes(q) PROVE CatalogueInv'
  BY <1>2, CreateProfileInv, UpdateProfileInv, DeactivateInv, UpdateMeInv
     DEF UserRoutes, UpdateStudent, UpdateTeacher
<1>3. ASSUME NEW q \in Requests, ScheduleRoutes(q) PROVE CatalogueInv'
  BY <1>3, CreateClassSessionInv, CreateEnrollmentInv DEF ScheduleRoutes
<1>4. CASE UNCHANGED vars
  BY <1>4 DEF vars, CatalogueInv, Sound, Ids, Matched
<1>5. QED
  BY <1>1, <1>2, <1>3, <1>4, WriteCreateInv, WriteUpdateInv, WriteDeleteInv, RefreshInv DEF Next

LEMMA Invariance == Spec => []CatalogueInv
BY InitInv, StepInv, PTL DEF Spec

LEMMA RowsTyped ==
  ASSUME CatalogueInv
  PROVE  TypeOK
BY DEF CatalogueInv, Sound, Ids, TypeOK, IsRequest, Fields, States, Answers, Unsent

(***************************************************************************)
(* Every committed row has the columns of its table, its id is its         *)
(* request's or was there before, and no two rows have one key.            *)
(***************************************************************************)
THEOREM TypeCorrect == Spec => []TypeOK
BY Invariance, RowsTyped, PTL

(***************************************************************************)
(* Every account has exactly one profile and every profile its account,    *)
(* whatever requests run at the same time: account and profile are         *)
(* inserted together, and no handler deletes either or moves a profile.    *)
(***************************************************************************)
THEOREM ProfilePaired == Spec => []AccountHasProfile
<1>1. CatalogueInv => AccountHasProfile
  BY MatchedPaired DEF CatalogueInv, AccountHasProfile
<1>2. QED
  BY <1>1, Invariance, PTL

-----------------------------------------------------------------------------
(* What a step may change, and what it may answer.                         *)

(* A step that only prepares or refuses the request q.                     *)
Reads(q) ==
  /\ req[q].state = "unsent" /\ rows' = rows
  /\ \E x : req' = [req EXCEPT ![q] = x]

LEMMA CreateReads ==
  ASSUME NEW q, NEW refs, NEW inserts, NEW onfail, Create(q, refs, inserts, onfail)
  PROVE  Reads(q)
BY DEF Create, Reads

LEMMA UpdateReads ==
  ASSUME NEW q, NEW targets, NEW refs, NEW payload, NEW set, NEW onfail,
         Update(q, targets, refs, payload, set, onfail)
  PROVE  Reads(q)
BY DEF Update, Reads

LEMMA DeleteReads ==
  ASSUME NEW q, NEW table, NEW id, Delete(q, table, id)
  PROVE  Reads(q)
BY DEF Delete, Reads

LEMMA RoutesRead ==
  ASSUME NEW q, ReferenceDataRoutes(q) \/ UserRoutes(q) \/ ScheduleRoutes(q)
  PROVE  Reads(q)
<1>1. CreateDepartment(q) \/ CreateCourse(q) \/ CreateRoom(q) \/ CreateSemester(q) => Reads(q)
  BY CreateReads DEF CreateDepartment, CreateCourse, CreateRoom, CreateSemester
<1>2. CreateStudent(q) \/ CreateTeacher(q) => Reads(q)
  BY CreateReads DEF CreateStudent, CreateTeacher
<1>3. ScheduleRoutes(q) => Reads(q)
  BY CreateReads DEF ScheduleRoutes, CreateClassSession, CreateEnrollment
<1>4. UpdateDepartment(q) \/ UpdateCourse(q) \/ UpdateRoom(q) => Reads(q)
  BY UpdateReads DEF UpdateDepartment, UpdateCourse, UpdateRoom
<1>5. UpdateSemester(q) => Reads(q)
  <2>1. Refuse(q) => Reads(q)
    BY DEF Refuse, Reads
  <2>2. QED
    BY <2>1, UpdateReads DEF UpdateSemester
<1>6. ASSUME NEW table, UpdateProfile(q, table) PROVE Reads(q)
  BY <1>6, UpdateReads DEF UpdateProfile
<1>7. DeactivateStudent(q) \/ UpdateMe(q) => Reads(q)
  BY UpdateReads DEF DeactivateStudent, UpdateMe
<1>8. DeleteDepartment(q) \/ DeleteCourse(q) \/ DeleteRoom(q) \/ DeleteSemester(q) => Reads(q)
  BY DeleteReads DEF DeleteDepartment, DeleteCourse, DeleteRoom, DeleteSemester
<1>9. QED
  BY <1>1, <1>2, <1>3, <1>4, <1>5, <1>6, <1>7, <1>8
     DEF ReferenceDataRoutes, UserRoutes, UpdateStudent, UpdateTeacher

(* The row r as the UPDATE of q leaves it.                                 *)
After(q, r) == IF r.key \in {l.key : l \in Modified(q)} THEN Changed(q, r) ELSE r

LEMMA AfterFacts ==
  ASSUME CatalogueInv, NEW q \in Requests, req[q].state = "looked", req[q].op = "update",
         NEW r \in rows
  PROVE  /\ After(q, r).key = r.key
         /\ r.key \in {l.key : l \in Modified(q)} =>
              \E l \in req[q].loaded : l.key = r.key /\ After(q, r) = Changed(q, r)
<1>1. CASE r.key \in {l.key : l \in Modified(q)}
  <2>1. PICK l \in req[q].loaded : l.key = r.key
    BY <1>1 DEF Modified
  <2>2. Changed(q, r).key = r.key
    BY <2>1, ChangedFacts
  <2>3. QED
    BY <1>1, <2>1, <2>2 DEF After
<1>2. CASE r.key \notin {l.key : l \in Modified(q)}
  BY <1>2 DEF After
<1>3. QED
  BY <1>1, <1>2

LEMMA ColumnsWritten ==
  ASSUME CatalogueInv, Next, NEW r \in rows, NEW o \in rows', r.key = o.key,
         NEW c \in DOMAIN r.cols, o.cols[c] # r.cols[c]
  PROVE  \E q \in Requests : /\ req[q].state = "looked" /\ req'[q].state = "stored"
                             /\ c \in DOMAIN req[q].payload /\ o.cols[c] = req[q].payload[c]
<1>1. o \notin rows
  BY DEF CatalogueInv, Sound
<1>2. PICK q \in Requests : WriteCreate(q) \/ WriteUpdate(q)
  BY <1>1, RoutesRead DEF Next, Reads, WriteDelete, Refresh
<1>3. CASE WriteCreate(q)
  <2>1. o \in req[q].inserts /\ req[q].state = "looked" /\ req[q].op = "create"
    BY <1>1, <1>3 DEF WriteCreate, Inserted
  <2>2. Id(o) = q
    BY <2>1 DEF CatalogueInv, Prepared, Inserting
  <2>3. QED
    BY <2>1, <2>2, FreshId, SameKey
<1>4. CASE WriteUpdate(q)
  <2>1. /\ req[q].state = "looked" /\ req[q].op = "update"
        /\ rows' = {After(q, s) : s \in rows} /\ req' = [req EXCEPT ![q].state = "stored"]
    BY <1>1, <1>4 DEF WriteUpdate, After
  <2>2. PICK s \in rows : o = After(q, s)
    BY <2>1
  <2>3. s = r
    BY <2>1, <2>2, AfterFacts DEF CatalogueInv, Sound
  <2>4. PICK l \in req[q].loaded : l.key = r.key /\ o = Changed(q, r)
    BY <1>1, <2>1, <2>2, <2>3, AfterFacts DEF After
  <2>5. c \in DirtyIn(req[q].set, l) /\ o.cols[c] = req[q].set[c]
    BY <2>1, <2>4, ChangedFacts
  <2>6. c \in DOMAIN req[q].payload /\ req[q].set[c] = req[q].payload[c]
    BY <2>1, <2>5 DEF CatalogueInv, Prepared, Assigning, Assigns
  <2>7. req'[q].state = "stored"
    BY <2>1 DEF CatalogueInv, IsRequest, Fields
  <2>8. QED
    BY <2>1, <2>5, <2>6, <2>7
<1>5. QED
  BY <1>2, <1>3, <1>4

(***************************************************************************)
(* A column changes only to what the payload of the request being written  *)
(* gives for it, however many updates of a row overlap: an UPDATE names    *)
(* the columns that differ from what was loaded, and a handler that        *)
(* assigns others (update_semester) assigns them as they were loaded.      *)
(***************************************************************************)
THEOREM WritesPayload == Spec => NoStaleWrite
<1>1. CatalogueInv /\ [Next]_vars =>
        [\A r \in rows, o \in rows' : r.key = o.key =>
           \A c \in DOMAIN r.cols : o.cols[c] # r.cols[c] =>
             \E q \in Requests : /\ req[q].state = "looked" /\ req'[q].state = "stored"
                                 /\ c \in DOMAIN req[q].payload /\ o.cols[c] = req[q].payload[c]]_vars
  BY ColumnsWritten
<1>2. QED
  BY <1>1, Invariance, PTL DEF Spec, NoStaleWrite

-----------------------------------------------------------------------------
(* Why a write is refused.                                                 *)

LEMMA StepAnswers ==
  ASSUME CatalogueInv, NEW q \in Requests, req[q].state = "looked", NEW x,
         req' = [req EXCEPT ![q] = x]
  PROVE  req'[q] = x
BY DEF CatalogueInv

LEMMA CreateRefused ==
  ASSUME CatalogueInv, NEW q \in Requests, WriteCreate(q), ~ Stale(q), req'[q].answer # "none"
  PROVE  req'[q].answer = "exists" /\ Duplicate(q)
<1> DEFINE new == req[q].inserts
<1>1. /\ IsRequest(req[q]) /\ req[q].state = "looked" /\ req[q].seen \subseteq rows
      /\ Inserting(q, req[q].seen, new, req[q].onfail)
  BY DEF WriteCreate, CatalogueInv, Prepared, Stale
<1>2. ~ AllFit(new) /\ req'[q].answer = req[q].onfail
  <2>1. CASE AllFit(new)
    <3>1. req'[q] = [req[q] EXCEPT !.state = "stored"]
      BY <1>1, <2>1, StepAnswers DEF WriteCreate
    <3>2. QED
      BY <1>1, <3>1 DEF IsRequest, Fields
  <2>2. CASE ~ AllFit(new)
    <3>1. req'[q] = Answered(req[q], req[q].onfail)
      BY <1>1, <2>2, StepAnswers DEF WriteCreate
    <3>2. QED
      BY <1>1, <2>2, <3>1 DEF IsRequest, Fields, Answered
  <2>3. QED
    BY <2>1, <2>2
<1>3. PICK r \in new : ~ Fits(r, rows \cup new)
  BY <1>2 DEF AllFit
<1>4. Ordered(r) /\ \A k \in References(r) : \E o \in rows \cup new : o.key = k
  BY <1>1 DEF Inserting, Found
<1>5. PICK o \in rows \cup new : SharesKey(r, o)
  BY <1>3, <1>4 DEF Fits
<1>6. o \in rows
  BY <1>1, <1>5 DEF Inserting, SharesKey
<1>7. Duplicate(q)
  BY <1>5, <1>6 DEF Duplicate
<1>8. req[q].onfail = "exists"
  BY <1>1, <1>5 DEF Inserting, SharesKey
<1>9. QED
  BY <1>2, <1>7, <1>8

(* A changed row fits beside the others but for a key that another has.    *)
LEMMA UpdateMisfit ==
  ASSUME CatalogueInv, NEW q \in Requests, req[q].state = "looked", req[q].op = "update",
         ~ Stale(q), NEW r \in rows, r.key \in {l.key : l \in Modified(q)},
         ~ Fits(After(q, r), {After(q, s) : s \in rows})
  PROVE  req[q].onfail = "exists" /\ Duplicate(q)
<1> DEFINE after == {After(q, s) : s \in rows}
           n == Changed(q, r)
<1>1. /\ Assigning(req[q].seen, req[q].loaded, req[q].payload, req[q].set, req[q].onfail)
      /\ req[q].seen \subseteq rows /\ Sound(rows)
  BY DEF CatalogueInv, Prepared, Stale
<1>2. \A l \in req[q].loaded : l \in rows
  BY <1>1 DEF Assigning
<1>3. r \in req[q].loaded /\ After(q, r) = n
  BY <1>1, <1>2, AfterFacts DEF Sound
<1>4. /\ n.key = r.key /\ TableOf(n) = TableOf(r) /\ DOMAIN n.cols = DOMAIN r.cols /\ IsRow(n)
      /\ \A c \in DOMAIN r.cols :
           n.cols[c] = IF c \in DirtyIn(req[q].set, r) THEN req[q].set[c] ELSE r.cols[c]
  BY <1>3, ChangedFacts, SameKey
<1>5. \A s \in rows : \E o \in after : o.key = s.key
  BY AfterFacts
<1>6. ASSUME NEW k \in References(n) PROVE \E o \in after : o.key = k
  <2> DEFINE refs == Models[TableOf(r)].refs
  <2>1. PICK c \in DOMAIN refs \cap DOMAIN r.cols : k = <<refs[c], n.cols[c]>>
    BY <1>4 DEF References
  <2>2. CASE c \in DirtyIn(req[q].set, r)
    <3>1. k = <<refs[c], req[q].set[c]>>
      BY <1>4, <2>1, <2>2
    <3>2. Found(k, req[q].seen)
      BY <1>1, <1>3, <2>1, <2>2, <3>1 DEF Assigning, Assigns
    <3>3. QED
      BY <1>1, <1>5, <3>2 DEF Found
  <2>3. CASE c \notin DirtyIn(req[q].set, r)
    <3>1. k \in References(r)
      BY <1>4, <2>1, <2>3 DEF References
    <3>2. QED
      BY <1>1, <1>5, <3>1 DEF Sound, Fits
  <2>4. QED
    BY <2>2, <2>3
<1>7. Ordered(n)
  <2> SUFFICES ASSUME TableOf(r) = "semester"
               PROVE  n.cols["start_date"] < n.cols["end_date"]
    BY <1>4 DEF Ordered
  <2>1. \A c \in Kept("semester") : c \in DOMAIN r.cols /\ c \in DOMAIN req[q].set
    BY <1>1, <1>3 DEF Assigning, IsRow
  <2>2. \A c \in Kept("semester") : n.cols[c] = req[q].set[c]
    BY <1>4, <2>1 DEF DirtyIn
  <2>3. QED
    BY <1>1, <1>3, <2>2, KeptColumns DEF Assigning
<1>8. PICK o \in after : SharesKey(n, o)
  BY <1>3, <1>6, <1>7 DEF Fits
<1>9. PICK s \in rows : o = After(q, s)
  OBVIOUS
<1>10. s.key \notin {l.key : l \in Modified(q)}
  <2> SUFFICES ASSUME s.key \in {l.key : l \in Modified(q)} PROVE FALSE
    OBVIOUS
  <2>1. s \in req[q].loaded
    BY <1>1, <1>2, AfterFacts DEF Sound
  <2>2. o.key = s.key /\ TableOf(o) = TableOf(s)
    BY <1>9, AfterFacts, SameKey
  <2>3. TableOf(s) = TableOf(r)
    BY <1>4, <1>8, <2>2 DEF SharesKey
  <2>4. s = r
    BY <1>1, <1>3, <2>1, <2>3 DEF Assigning
  <2>5. QED
    BY <1>4, <1>8, <2>2, <2>4 DEF SharesKey
<1>11. o = s
  BY <1>9, <1>10 DEF After
<1>12. Duplicate(q)
  BY <1>3, <1>8, <1>9, <1>11 DEF Duplicate
<1>13. req[q].onfail # "error"
  <2> SUFFICES ASSUME req[q].onfail = "error" PROVE FALSE
    OBVIOUS
  <2>1. PICK u \in Models[TableOf(r)].unique :
          u \subseteq DOMAIN r.cols \cap DOMAIN o.cols /\ \A c \in u : n.cols[c] = o.cols[c]
    BY <1>4, <1>8 DEF SharesKey
  <2>2. \A c \in u : c \notin DirtyIn(req[q].set, r)
    BY <1>1, <1>3 DEF Assigning, Assigns
  <2>3. \A c \in u : r.cols[c] = o.cols[c]
    BY <1>4, <2>1, <2>2
  <2>4. SharesKey(r, o)
    BY <1>4, <1>8, <2>1, <2>3 DEF SharesKey
  <2>5. QED
    BY <1>1, <1>11, <2>4 DEF Sound, Fits
<1>14. QED
  BY <1>1, <1>12, <1>13 DEF Assigning

LEMMA UpdateRefused ==
  ASSUME CatalogueInv, NEW q \in Requests, WriteUpdate(q), ~ Stale(q), req'[q].answer # "none"
  PROVE  req'[q].answer = "exists" /\ Duplicate(q)
<1> DEFINE keys == {l.key : l \in Modified(q)}
           after == {After(q, s) : s \in rows}
<1>1. /\ IsRequest(req[q]) /\ req[q].state = "looked" /\ req[q].op = "update"
      /\ req[q].answer = "none" /\ req[q].loaded \subseteq rows
  BY DEF WriteUpdate, CatalogueInv, Prepared, IsRequest, Assigning, Stale
<1>2. Exist(keys)
  BY <1>1 DEF Exist, Modified
<1>3. after = {IF s.key \in keys THEN Changed(q, s) ELSE s : s \in rows}
  BY DEF After
<1>4. CASE \A r \in after : r.key \in keys => Fits(r, after)
  <2>1. req' = [req EXCEPT ![q] = [req[q] EXCEPT !.state = "stored"]]
    BY <1>2, <1>3, <1>4 DEF WriteUpdate
  <2>2. req'[q] = [req[q] EXCEPT !.state = "stored"]
    BY <1>1, <2>1, StepAnswers
  <2>3. QED
    BY <1>1, <2>2 DEF IsRequest, Fields
<1>5. CASE \E o \in after : o.key \in keys /\ ~ Fits(o, after)
  <2>1. req' = [req EXCEPT ![q] = Answered(req[q], req[q].onfail)]
    BY <1>2, <1>3, <1>5 DEF WriteUpdate
  <2>2. req'[q].answer = req[q].onfail
    <3>1. req'[q] = Answered(req[q], req[q].onfail)
      BY <1>1, <2>1, StepAnswers
    <3>2. QED
      BY <1>1, <3>1 DEF IsRequest, Fields, Answered
  <2>3. PICK r \in rows : After(q, r).key \in keys /\ ~ Fits(After(q, r), after)
    BY <1>5
  <2>4. r.key \in keys
    BY <1>1, <2>3, AfterFacts
  <2>5. QED
    BY <1>1, <2>2, <2>3, <2>4, UpdateMisfit
<1>6. QED
  BY <1>4, <1>5

LEMMA RefusedStep ==
  ASSUME CatalogueInv, Next, NEW q \in Requests, req[q].state = "looked", ~ Stale(q)
  PROVE  /\ req'[q].answer = "exists" => Duplicate(q)
         /\ req'[q].answer # "error"
<1>1. req[q].answer = "none"
  BY DEF CatalogueInv, IsRequest
<1>2. CASE WriteCreate(q)
  BY <1>2, CreateRefused
<1>3. CASE WriteUpdate(q)
  BY <1>3, UpdateRefused
<1>4. CASE WriteDelete(q)
  <2>1. PICK a \in {"referenced", "ok"} : req' = [req EXCEPT ![q] = Answered(req[q], a)]
    BY <1>4 DEF WriteDelete, CatalogueInv, Prepared, Deleting
  <2>2. req'[q] = Answered(req[q], a)
    BY <2>1, StepAnswers
  <2>3. IsRequest(req[q])
    BY DEF CatalogueInv
  <2>4. QED
    BY <2>1, <2>2, <2>3, AnsweredFacts DEF Answers
<1>5. CASE req'[q] = req[q]
  BY <1>1, <1>5
<1>6. ASSUME NEW p \in Requests, p # q, Reads(p) \/ WriteCreate(p) \/ WriteUpdate(p) \/
                                        WriteDelete(p) \/ Refresh(p)
      PROVE  req'[q] = req[q]
  BY <1>6 DEF Reads, WriteCreate, WriteUpdate, WriteDelete, Refresh, CatalogueInv
<1>7. QED
  BY <1>2, <1>3, <1>4, <1>5, <1>6, RoutesRead DEF Next, Reads, Refresh

(***************************************************************************)
(* A write is refused for a row that is there, and never by an error       *)
(* nothing catches, unless a row that the request looked up was changed    *)
(* or deleted before the write: the references resolve to what was looked  *)
(* up, the dates are checked, and no route without a handler for an        *)
(* IntegrityError writes a column of a unique key.                         *)
(***************************************************************************)
THEOREM RefusalsMeant == Spec => RefusedForCause
<1>1. CatalogueInv /\ [Next]_vars =>
        [\A q \in Requests : req[q].state = "looked" /\ ~ Stale(q) =>
           /\ req'[q].answer = "exists" => Duplicate(q)
           /\ req'[q].answer # "error"]_vars
  BY RefusedStep
<1>2. QED
  BY <1>1, Invariance, PTL DEF Spec, RefusedForCause

-----------------------------------------------------------------------------
(***************************************************************************)
(* The migrations.                                                         *)
(***************************************************************************)
(* What the revisions after a and up to b create.                          *)
Span(a, b) == UNION {Whole(r) : r \in (a + 1)..b}

(* What is left to do of the current revision, and how much of it is done. *)
Steps(x) == Plan(x.at, x.target)
Made(x) == Len(Steps(x)) - Len(x.todo)

OnPlan(x) ==
  /\ x.todo \in Seq(Ddls) /\ Len(x.todo) <= Len(Steps(x))
  /\ \A i \in 1..Len(x.todo) : x.todo[i] = Steps(x)[Made(x) + i]

(* The transaction of an upgrade has added what its revisions create, that *)
(* of a downgrade removed it.                                              *)
Building(x) ==
  /\ x.from <= x.at /\ x.at <= x.target /\ x.removed = {}
  /\ x.added = Span(x.from, x.at) \cup Part(x.at + 1, Made(x))

Dismantling(x) ==
  /\ x.target <= x.at /\ x.at <= x.from /\ x.added = {}
  /\ x.removed = Span(x.at, x.from) \cup Gone(x.at, Made(x))

(* A command under way.  It has locked what it touched.                    *)
Command(x) ==
  /\ {x.from, x.at, x.target} \subseteq Versions /\ x.from # x.target
  /\ OnPlan(x)
  /\ x.from < x.target => Building(x)
  /\ x.target < x.from => Dismantling(x)
  /\ \A o \in x.added \cup x.removed : o.name \in x.locks

(* The database is at version v: the newest row is that of v, the row of   *)
(* the first revision may stand beside it, and the catalog is v's.         *)
AtVersion(d, v) ==
  /\ d = [rows |-> d.rows, objects |-> SchemaAt(v)]
  /\ d.rows = RowOf(v) \/ (v >= 2 /\ d.rows = {1, v})

(* A command that began on the empty database and was overtaken by another *)
(* that built it: the row of the empty first revision goes in beside that  *)
(* of the other.  If it was to do more, the first table is there.          *)
(* Or one that began at the first revision and takes such a row out.       *)
Stray(x, v) ==
  /\ v >= 2
  /\ \/ x.from = Base /\ x.at = 1 /\ (x.target = 1 \/ x.todo = Up[2])
     \/ x.from = 1 /\ x.at = Base /\ x.target = Base

(* What a command knows of the database at version v.  It began at v, or   *)
(* it is a stray one; having executed a statement it holds a lock on an    *)
(* object that is, or is not, there: so v is no older, or no newer, than   *)
(* the version it started from.  No other writes a row that it has written.*)
Anchored(x, d, v) ==
  /\ x.at = x.from /\ Made(x) > 0 =>
       /\ x.target < x.from => \E o \in Whole(x.from) \cap d.objects : o.name \in x.locks
       /\ x.from < x.target => \E o \in Whole(x.from + 1) \ d.objects : o.name \in x.locks
  /\ x.at # x.from => (v = x.from \/ Stray(x, v))
  /\ x.at # x.from => RowOf(x.from) \subseteq d.rows
  /\ Keys(x) \cap d.rows \subseteq RowOf(x.from)
  /\ x.alone => d.rows = RowOf(x.from)

CommandFields == {"state", "from", "at", "target", "todo", "added", "removed", "locks", "alone"}

IsRun(x) ==
  /\ DOMAIN x = CommandFields
  /\ x.state \in {"idle", "running", "failed"} /\ x.alone \in BOOLEAN
  /\ x.state # "running" => x = Ended(x.state, x.alone)

(* A command that failed alone was refused, because of the second row.     *)
Proper(x, d, v) ==
  /\ IsRun(x)
  /\ x.state = "running" => Command(x) /\ Anchored(x, d, v)
  /\ x.state = "failed" /\ x.alone => d.rows # RowOf(v)

(* Two commands share no lock and no row, and neither is alone.            *)
Separate(x, y) ==
  /\ x.locks \cap y.locks = {} /\ Keys(x) \cap Keys(y) = {}
  /\ x.state \in {"running", "failed"} /\ y.state = "running" => ~ x.alone

(***************************************************************************)
(* The inductive invariant of AlembicSpec.                                 *)
(***************************************************************************)
AlembicInv ==
  /\ \E v \in Versions : AtVersion(db, v) /\ \A p \in Procs : Proper(run[p], db, v)
  /\ DOMAIN run = Procs /\ run = [p \in Procs |-> run[p]]
  /\ \A p, q \in Procs : p # q => Separate(run[p], run[q])

-----------------------------------------------------------------------------
(* The revisions and what they build.                                      *)

LEMMA ChainFacts ==
  /\ Len(Up) \in Nat /\ Len(Up) >= 2 /\ Len(Down) = Len(Up)
  /\ Head_ = Len(Up) /\ Base = 0 /\ Versions = 0..Len(Up) /\ Revisions = 1..Len(Up)
  /\ \A v \in Versions : v \in Nat /\ v <= Len(Up)
  /\ \A r \in Revisions : Up[r] \in Seq(Ddls) /\ Down[r] \in Seq(Ddls)
BY ChainAssumption DEF WellFormed, Head_, Base, Versions, Revisions

LEMMA PartStep ==
  ASSUME NEW r, NEW k \in Nat
  PROVE  Part(r, 0) = {} /\ Part(r, k + 1) = Part(r, k) \cup Adds(Up[r][k + 1])
<1>1. 1..0 = {} /\ 1..(k + 1) = (1..k) \cup {k + 1}
  OBVIOUS
<1>2. QED
  BY <1>1 DEF Part

LEMMA GoneStep ==
  ASSUME NEW r, NEW k \in Nat
  PROVE  /\ Gone(r, 0) = {}
         /\ Gone(r, k + 1) = Gone(r, k) \cup {o \in Whole(r) : Drops(Down[r][k + 1], o)}
<1>1. 1..0 = {} /\ 1..(k + 1) = (1..k) \cup {k + 1}
  OBVIOUS
<1>2. QED
  BY <1>1 DEF Gone

LEMMA GoneAll ==
  ASSUME NEW r \in Revisions
  PROVE  Gone(r, Len(Down[r])) = Whole(r)
<1>1. \A o \in Whole(r) : \E s \in Range(Down[r]) : Drops(s, o)
  BY ChainAssumption DEF Undoes
<1>2. \A s \in Range(Down[r]) : \E i \in 1..Len(Down[r]) : s = Down[r][i]
  BY ChainFacts DEF Range
<1>3. QED
  BY <1>1, <1>2 DEF Gone

LEMMA SpanStep ==
  ASSUME NEW a \in Nat, NEW b \in Nat, a <= b
  PROVE  /\ Span(a, a) = {} /\ Span(a, b + 1) = Span(a, b) \cup Whole(b + 1)
         /\ a >= 1 => Span(a - 1, b) = Whole(a) \cup Span(a, b)
         /\ SchemaAt(b) = SchemaAt(a) \cup Span(a, b)
<1>1. (a + 1)..a = {} /\ (a + 1)..(b + 1) = ((a + 1)..b) \cup {b + 1}
  OBVIOUS
<1>2. ASSUME a >= 1 PROVE Span(a - 1, b) = Whole(a) \cup Span(a, b)
  <2>1. ((a - 1) + 1)..b = {a} \cup ((a + 1)..b)
    BY <1>2
  <2>2. QED
    BY <2>1 DEF Span
<1>3. 1..b = (1..a) \cup ((a + 1)..b)
  OBVIOUS
<1>4. QED
  BY <1>1, <1>2, <1>3 DEF Span, SchemaAt

(* An object is created by one revision, and is there from then on.        *)
LEMMA Born ==
  ASSUME NEW r \in Revisions, NEW v \in Versions
  PROVE  /\ r <= v => Whole(r) \subseteq SchemaAt(v)
         /\ \A o \in Whole(r) : o \in SchemaAt(v) => r <= v
         /\ SchemaAt(v) \subseteq Everything
<1>1. r \in Nat /\ r >= 1 /\ v \in Nat /\ v <= Len(Up) /\ Len(Up) \in Nat
  BY ChainFacts
<1>2. r <= v => Whole(r) \subseteq SchemaAt(v)
  BY <1>1 DEF SchemaAt
<1>3. ASSUME NEW o \in Whole(r), o \in SchemaAt(v) PROVE r <= v
  <2>1. PICK q \in 1..v : o \in Whole(q)
    BY <1>3 DEF SchemaAt
  <2>2. q \in Revisions /\ q <= v
    BY <1>1, ChainFacts
  <2>3. q = r
    BY <2>1, <2>2, ChainAssumption DEF Apart
  <2>4. QED
    BY <2>2, <2>3
<1>4. SchemaAt(v) \subseteq Everything
  <2>1. 1..v \subseteq 1..Len(Up)
    BY <1>1
  <2>2. QED
    BY <2>1 DEF Everything, SchemaAt
<1>5. QED
  BY <1>2, <1>3, <1>4

LEMMA SchemaBack ==
  ASSUME NEW a \in Versions, NEW b \in Versions, a <= b
  PROVE  SchemaAt(b) \ Span(a, b) = SchemaAt(a)
<1>1. a \in Nat /\ b \in Nat /\ b <= Len(Up) /\ Len(Up) \in Nat
  BY ChainFacts
<1>2. SchemaAt(b) = SchemaAt(a) \cup Span(a, b)
  BY <1>1, SpanStep
<1>3. ASSUME NEW o \in Span(a, b), o \in SchemaAt(a) PROVE FALSE
  <2>1. PICK r \in (a + 1)..b : o \in Whole(r)
    BY DEF Span
  <2>2. r \in Revisions /\ ~ (r <= a)
    BY <1>1, ChainFacts
  <2>3. QED
    BY <2>1, <2>2, <1>3, Born
<1>4. QED
  BY <1>2, <1>3

-----------------------------------------------------------------------------
(* The statements.                                                         *)

LEMMA CreateFacts ==
  ASSUME NEW r \in Revisions, NEW i \in 1..Len(Up[r]), NEW objects
  PROVE  LET s == Up[r][i]
         IN  /\ Removes(s, objects) = {}
             /\ \A o \in Adds(s) : o.name \in Locks(s, objects)
             /\ ~ Fails(s, objects) => \E o \in Adds(s) : o \notin objects
<1> DEFINE s == Up[r][i]
<1>1. s \in Range(Up[r])
  BY ChainFacts DEF Range
<1>2. s.op \in {"create_table", "create_index"}
  BY <1>1, ChainAssumption DEF WellFormed
<1>3. Removes(s, objects) = {}
  BY <1>2 DEF Removes
<1>4. \A o \in Adds(s) : o.name \in Locks(s, objects)
  BY DEF Locks
<1>5. ASSUME ~ Fails(s, objects) PROVE \E o \in Adds(s) : o \notin objects
  <2>1. CASE s.op = "create_index"
    BY <1>5, <2>1 DEF Fails
  <2>2. CASE s.op = "create_table"
    <3> DEFINE o == TableObject(s.table, s.arg)
    <3>1. o \in Adds(s) /\ o.kind # "index"
      BY <2>2 DEF Adds, Objects, TableObject
    <3> HIDE DEF o
    <3>2. Named(objects, o.name) = {}
      BY <1>5, <2>2, <3>1 DEF Fails
    <3>3. o \notin objects
      BY <3>1, <3>2 DEF Named
    <3>4. QED
      BY <3>1, <3>3
  <2>3. QED
    BY <1>2, <2>1, <2>2
<1>6. QED
  BY <1>3, <1>4, <1>5

LEMMA DropOp ==
  ASSUME NEW r \in Revisions, NEW i \in 1..Len(Down[r])
  PROVE  LET s == Down[r][i]
         IN  /\ s \in Range(Down[r]) /\ s.op \in {"drop_index", "drop_table", "drop_type"}
             /\ Adds(s) = {}
             /\ i = 1 => s.op # "drop_type"
<1> DEFINE s == Down[r][i]
<1>1. s \in Range(Down[r])
  BY ChainFacts DEF Range
<1>2. s.op \in {"drop_index", "drop_table", "drop_type"}
  BY <1>1, ChainAssumption DEF WellFormed
<1>3. Adds(s) = {}
  BY <1>2 DEF Adds
<1>4. i = 1 => s.op # "drop_type"
  <2>1. Down[r] # << >>
    OBVIOUS
  <2>2. QED
    BY <2>1, ChainAssumption DEF WellFormed
<1>5. QED
  BY <1>1, <1>2, <1>3, <1>4

(* What a statement of a downgrade does to a catalog: it drops objects of  *)
(* its revision, and locks them; the first one finds something to drop.    *)
DropsOf(s, r, first, objects) ==
  /\ \A o : Drops(s, o) => o.name \in Locks(s, objects)
  /\ \A o \in objects : o \in Removes(s, objects) <=> Drops(s, o)
  /\ \A o \in Removes(s, objects) : Drops(s, o)
  /\ \A o \in objects : Drops(s, o) => o \in Whole(r)
  /\ first /\ ~ Fails(s, objects) => \E o \in objects : Drops(s, o)

LEMMA DropFacts ==
  ASSUME NEW r \in Revisions, NEW i \in 1..Len(Down[r]), NEW s, s = Down[r][i],
         NEW objects \in SUBSET Everything
  PROVE  DropsOf(s, r, i = 1, objects)
<1>1. /\ s \in Range(Down[r]) /\ s.op \in {"drop_index", "drop_table", "drop_type"}
      /\ Adds(s) = {}
      /\ i = 1 => s.op # "drop_type"
  BY DropOp
<1>5. \A o : Drops(s, o) => o.name = s.table
  BY <1>1 DEF Drops, IndexObject
<1>6. \A o \in objects : o \in Removes(s, objects) <=> Drops(s, o)
  BY <1>1 DEF Drops, Removes
<1>7. \A o \in Removes(s, objects) : Drops(s, o)
  BY <1>1 DEF Drops, Removes
<1>8. \A o \in objects : Drops(s, o) => o \in Whole(r)
  BY <1>1, ChainAssumption DEF Undoes
<1>9. ASSUME s.op # "drop_type", ~ Fails(s, objects) PROVE \E o \in objects : Drops(s, o)
  <2>1. CASE s.op = "drop_index"
    BY <1>9, <2>1 DEF Fails, Removes, Drops
  <2>2. CASE s.op = "drop_table"
    BY <1>9, <2>2 DEF Fails, Named, Tables, Drops
  <2>3. QED
    BY <1>1, <1>9, <2>1, <2>2
<1>10. \A o : Drops(s, o) => o.name \in Locks(s, objects)
  BY <1>5 DEF Locks
<1>11. QED
  BY <1>1, <1>6, <1>7, <1>8, <1>9, <1>10 DEF DropsOf

-----------------------------------------------------------------------------
(* A command under way and its plan.                                       *)

LEMMA PlanFacts ==
  ASSUME NEW x, Command(x)
  PROVE  /\ x.from \in Nat /\ x.at \in Nat /\ x.target \in Nat
         /\ x.from < x.target \/ x.target < x.from
         /\ Made(x) \in Nat /\ Made(x) + Len(x.todo) = Len(Steps(x)) /\ Steps(x) \in Seq(Ddls)
         /\ x.at < x.target => x.at + 1 \in Revisions /\ Steps(x) = Up[x.at + 1]
         /\ x.target < x.at => x.at \in Revisions /\ Steps(x) = Down[x.at]
         /\ x.at = x.target => Steps(x) = << >> /\ x.todo = << >> /\ Made(x) = 0
<1>1. /\ x.from \in Nat /\ x.at \in Nat /\ x.target \in Nat /\ Len(Up) \in Nat
      /\ x.at <= Len(Up) /\ x.target <= Len(Up) /\ x.from # x.target
  BY ChainFacts DEF Command
<1>2. /\ x.at < x.target => x.at + 1 \in Revisions /\ Steps(x) = Up[x.at + 1]
      /\ x.target < x.at => x.at \in Revisions /\ Steps(x) = Down[x.at]
      /\ x.at = x.target => Steps(x) = << >>
  BY <1>1, ChainFacts DEF Steps, Plan
<1>3. Steps(x) \in Seq(Ddls)
  <2>1. x.at < x.target \/ x.target < x.at \/ x.at = x.target
    BY <1>1
  <2>2. \A r \in Revisions : Up[r] \in Seq(Ddls) /\ Down[r] \in Seq(Ddls)
    BY ChainFacts
  <2>3. << >> \in Seq(Ddls)
    OBVIOUS
  <2>4. QED
    BY <1>2, <2>1, <2>2, <2>3
<1>4. x.todo \in Seq(Ddls) /\ Len(x.todo) <= Len(Steps(x))
  BY DEF Command, OnPlan
<1>5. Made(x) \in Nat /\ Made(x) + Len(x.todo) = Len(Steps(x))
  BY <1>3, <1>4 DEF Made
<1>6. x.at = x.target => x.todo = << >> /\ Made(x) = 0
  BY <1>2, <1>4, <1>5
<1>7. QED
  BY <1>1, <1>2, <1>3, <1>5, <1>6

LEMMA NextStatement ==
  ASSUME NEW x, Command(x), x.todo # << >>
  PROVE  /\ Made(x) + 1 \in 1..Len(Steps(x)) /\ Head(x.todo) = Steps(x)[Made(x) + 1]
         /\ x.at < x.target \/ x.target < x.at
         /\ \A y : y.at = x.at /\ y.target = x.target /\ y.todo = Tail(x.todo) =>
                    OnPlan(y) /\ Made(y) = Made(x) + 1
<1>1. /\ x.todo \in Seq(Ddls) /\ Len(x.todo) >= 1 /\ Made(x) \in Nat
      /\ Made(x) + Len(x.todo) = Len(Steps(x)) /\ Steps(x) \in Seq(Ddls)
  BY PlanFacts DEF Command, OnPlan
<1>2. \A i \in 1..Len(x.todo) : x.todo[i] = Steps(x)[Made(x) + i]
  BY DEF Command, OnPlan
<1>3. Head(x.todo) = x.todo[1]
  BY <1>1
<1>4. ASSUME NEW y, y.at = x.at, y.target = x.target, y.todo = Tail(x.todo)
      PROVE  OnPlan(y) /\ Made(y) = Made(x) + 1
  <2>1. y.todo \in Seq(Ddls) /\ Len(y.todo) = Len(x.todo) - 1
    BY <1>1, <1>4
  <2>2. Steps(y) = Steps(x)
    BY <1>4 DEF Steps
  <2>3. Made(y) = Made(x) + 1
    BY <1>1, <2>1, <2>2 DEF Made
  <2>4. ASSUME NEW i \in 1..Len(y.todo) PROVE y.todo[i] = Steps(y)[Made(y) + i]
    <3>1. i + 1 \in 1..Len(x.todo) /\ y.todo[i] = x.todo[i + 1]
      BY <1>1, <1>4, <2>1
    <3>2. Made(x) + (i + 1) = Made(y) + i
      BY <1>1, <2>3, <2>1
    <3>3. QED
      BY <1>2, <2>2, <3>1, <3>2
  <2>5. QED
    BY <1>1, <2>1, <2>2, <2>3, <2>4 DEF OnPlan
<1>5. x.at < x.target \/ x.target < x.at
  BY PlanFacts
<1>6. QED
  BY <1>1, <1>2, <1>3, <1>4, <1>5

-----------------------------------------------------------------------------
(* A statement that is executed.                                           *)

Executes(x, y, s, seen, objects) ==
  /\ y.state = x.state /\ y.from = x.from /\ y.at = x.at /\ y.target = x.target /\ y.alone = x.alone
  /\ y.todo = Tail(x.todo)
  /\ y.removed = x.removed \cup (Removes(s, seen) \cap objects)
  /\ y.added = (x.added \cup Adds(s)) \ Removes(s, seen)
  /\ y.locks = x.locks \cup Locks(s, seen)

Seen(x, d) == (d.objects \ x.removed) \cup x.added

LEMMA RowFacts ==
  ASSUME NEW a \in Versions, NEW b \in Versions
  PROVE  /\ RowOf(a) = RowOf(b) => a = b
         /\ a >= 1 => RowOf(a) = {a}
         /\ a = 0 => RowOf(a) = {}
         /\ RowOf(a) \in SUBSET (Versions \ {Base})
<1>1. a \in Nat /\ b \in Nat /\ Base = 0
  BY ChainFacts
<1>2. /\ RowOf(a) = IF a = 0 THEN {} ELSE {a}
      /\ RowOf(b) = IF b = 0 THEN {} ELSE {b}
  BY <1>1 DEF RowOf
<1>3. RowOf(a) = RowOf(b) => a = b
  <2>1. CASE a = 0
    BY <1>2, <2>1
  <2>2. CASE b = 0
    BY <1>2, <2>2
  <2>3. CASE a # 0 /\ b # 0
    BY <1>2, <2>3
  <2>4. QED
    BY <2>1, <2>2, <2>3
<1>4. QED
  BY <1>1, <1>2, <1>3

(* The rows that are there when the database is at version v.              *)
LEMMA AtFacts ==
  ASSUME NEW d, NEW v \in Versions, AtVersion(d, v)
  PROVE  /\ d.objects = SchemaAt(v) /\ v \in Nat /\ v <= Len(Up)
         /\ d.rows = RowOf(v) \/ (v >= 2 /\ d.rows = {1, v})
         /\ \A w \in d.rows : w = v \/ (w = 1 /\ v >= 2)
         /\ \A w \in Versions : d.rows = RowOf(w) => w = v
<1>1. v \in Nat /\ v <= Len(Up) /\ (d.rows = RowOf(v) \/ (v >= 2 /\ d.rows = {1, v}))
  BY ChainFacts DEF AtVersion
<1>2. \A w \in RowOf(v) : w = v
  BY DEF RowOf
<1>3. \A w \in d.rows : w = v \/ (w = 1 /\ v >= 2)
  BY <1>1, <1>2
<1>4. ASSUME NEW w \in Versions, d.rows = RowOf(w) PROVE w = v
  <2>1. CASE d.rows = RowOf(v)
    BY <1>4, <2>1, RowFacts
  <2>2. CASE v >= 2 /\ d.rows = {1, v}
    <3>1. 1 \in RowOf(w) /\ v \in RowOf(w)
      BY <1>4, <2>2
    <3>2. 1 = w /\ v = w
      BY <3>1 DEF RowOf
    <3>3. QED
      BY <3>2
  <2>3. QED
    BY <1>1, <2>1, <2>2
<1>5. d.objects = SchemaAt(v)
  BY DEF AtVersion
<1>6. QED
  BY <1>1, <1>3, <1>4, <1>5

(* The rows that a command has written.                                    *)
LEMMA KeysFacts ==
  ASSUME NEW x, Command(x)
  PROVE  /\ x.at = x.from => Keys(x) = {}
         /\ x.at # x.from =>
              /\ RowOf(x.from) \cup RowOf(x.at) \subseteq Keys(x)
              /\ x.from <= 1 \/ x.at <= 1 => 1 \in Keys(x)
<1>1. x.from \in Nat /\ x.at \in Nat
  BY PlanFacts
<1>2. ASSUME x.at # x.from
      PROVE  /\ RowOf(x.from) \cup RowOf(x.at) \subseteq Keys(x)
             /\ x.from <= 1 \/ x.at <= 1 => 1 \in Keys(x)
  <2>1. \A k \in Nat : k # 0 /\ ((x.from <= k /\ k <= x.at) \/ (x.at <= k /\ k <= x.from)) =>
                         k \in Keys(x)
    BY <1>1, <1>2, ChainFacts DEF Keys
  <2>2. \A k \in RowOf(x.from) \cup RowOf(x.at) : k # 0 /\ (k = x.from \/ k = x.at)
    BY ChainFacts DEF RowOf
  <2>3. RowOf(x.from) \cup RowOf(x.at) \subseteq Keys(x)
    BY <1>1, <2>1, <2>2
  <2>4. x.from <= 1 \/ x.at <= 1 => 1 \in Keys(x)
    BY <1>1, <1>2, <2>1
  <2>5. QED
    BY <2>3, <2>4
<1>3. QED
  BY <1>2 DEF Keys

(* The first table of an overtaken command is there; a stray command that  *)
(* is to do no more has no statement left.                                 *)
LEMMA DoomedFails ==
  ASSUME NEW d, NEW v \in Versions, AtVersion(d, v), NEW x, Command(x), Stray(x, v),
         x.todo # << >>
  PROVE  Fails(Head(x.todo), Seen(x, d))
<1>1. x.from = Base /\ x.at = 1 /\ x.target # 1 /\ x.todo = Up[2] /\ v >= 2
  BY PlanFacts DEF Stray
<1>2. 2 \in Revisions /\ Len(Up) \in Nat /\ Up[2] \in Seq(Ddls) /\ d.objects = SchemaAt(v)
  BY ChainFacts, AtFacts
<1>3. Up[2] # << >> /\ Up[2][1].op = "create_table"
  BY ChainAssumption DEF WellFormed
<1>4. Len(Up[2]) >= 1 /\ Len(Up[2]) \in Nat /\ Head(Up[2]) = Up[2][1]
  BY <1>2, <1>3
<1> DEFINE s == Up[2][1]
           o == TableObject(s.table, s.arg)
<1>5. o \in Adds(s) /\ o.kind # "index"
  BY <1>3 DEF Adds, Objects, TableObject
<1>6. o \in SchemaAt(v)
  <2>1. o \in Whole(2)
    BY <1>4, <1>5 DEF Whole, Part
  <2>2. QED
    BY <1>1, <1>2, <2>1, Born
<1>7. x.removed = {}
  <2>1. x.from = 0 /\ x.target \in Nat /\ x.from # x.target
    BY <1>1, PlanFacts, ChainFacts DEF Command
  <2>2. x.from < x.target
    BY <2>1
  <2>3. QED
    BY <2>2 DEF Command, Building
<1>8. o \in Seen(x, d)
  BY <1>2, <1>6, <1>7 DEF Seen
<1> HIDE DEF o
<1>9. Named(Seen(x, d), o.name) # {}
  BY <1>5, <1>8 DEF Named
<1>10. Fails(s, Seen(x, d))
  BY <1>3, <1>5, <1>9 DEF Fails
<1>11. QED
  BY <1>1, <1>4, <1>10

LEMMA ExecutedUp ==
  ASSUME NEW d, NEW v \in Versions, AtVersion(d, v), NEW x, Command(x), Anchored(x, d, v),
         x.from < x.target, x.todo # << >>, ~ Fails(Head(x.todo), Seen(x, d)),
         NEW y, Executes(x, y, Head(x.todo), Seen(x, d), d.objects)
  PROVE  Command(y) /\ Anchored(y, d, v)
<1> DEFINE s == Head(x.todo)
           seen == Seen(x, d)
<1>1. Building(x)
  BY DEF Command
<1>2. x.at < x.target
  BY <1>1, NextStatement, PlanFacts DEF Building
<1>3. /\ x.at + 1 \in Revisions /\ Steps(x) = Up[x.at + 1] /\ Made(x) \in Nat
      /\ Made(x) + 1 \in 1..Len(Up[x.at + 1]) /\ s = Up[x.at + 1][Made(x) + 1]
  BY <1>2, PlanFacts, NextStatement
<1>4. /\ Removes(s, seen) = {}
      /\ \A o \in Adds(s) : o.name \in Locks(s, seen)
      /\ \E o \in Adds(s) : o \notin seen
  BY <1>3, CreateFacts
<1>5. OnPlan(y) /\ Made(y) = Made(x) + 1
  BY NextStatement DEF Executes
<1>6. /\ y.removed = {} /\ y.added = x.added \cup Adds(s) /\ y.locks = x.locks \cup Locks(s, seen)
      /\ y.at = x.at /\ y.from = x.from /\ y.target = x.target /\ y.alone = x.alone
  BY <1>1, <1>4 DEF Executes, Building
<1>7. Building(y)
  <2>1. Part(x.at + 1, Made(x) + 1) = Part(x.at + 1, Made(x)) \cup Adds(s)
    BY <1>3, PartStep
  <2>2. y.added = Span(y.from, y.at) \cup Part(y.at + 1, Made(y))
    BY <1>1, <1>5, <1>6, <2>1 DEF Building
  <2>3. QED
    BY <1>1, <1>6, <2>2 DEF Building
<1>8. \A o \in y.added \cup y.removed : o.name \in y.locks
  BY <1>4, <1>6 DEF Command
<1>9. ~ (y.target < y.from)
  BY <1>6, PlanFacts
<1>10. Command(y)
  BY <1>5, <1>6, <1>7, <1>8, <1>9 DEF Command
<1>11. x.at = x.from => \E o \in Whole(x.from + 1) \ d.objects : o.name \in y.locks
  <2>1. CASE Made(x) = 0 /\ x.at = x.from
    <3>1. PICK o \in Adds(s) : o \notin seen
      BY <1>4
    <3>2. o \notin d.objects
      BY <1>1, <3>1 DEF Seen, Building
    <3>3. o \in Whole(x.from + 1)
      BY <1>3, <2>1, <3>1 DEF Whole, Part
    <3>4. o.name \in y.locks
      BY <1>4, <1>6
    <3>5. QED
      BY <3>2, <3>3, <3>4
  <2>2. CASE Made(x) > 0 /\ x.at = x.from
    BY <1>6, <2>2 DEF Anchored
  <2>3. QED
    BY <1>3, <2>1, <2>2
<1>12. ~ Stray(x, v) /\ Keys(y) = Keys(x)
  BY <1>6, DoomedFails DEF Keys
<1>13. Anchored(y, d, v)
  BY <1>6, <1>9, <1>11, <1>12 DEF Anchored
<1>14. QED
  BY <1>10, <1>13

LEMMA ExecutedDown ==
  ASSUME NEW d, NEW v \in Versions, AtVersion(d, v), NEW x, Command(x), Anchored(x, d, v),
         x.target < x.from, x.todo # << >>, ~ Fails(Head(x.todo), Seen(x, d)),
         NEW y, Executes(x, y, Head(x.todo), Seen(x, d), d.objects)
  PROVE  Command(y) /\ Anchored(y, d, v)
<1> DEFINE s == Head(x.todo)
           seen == Seen(x, d)
<1>1. Dismantling(x)
  BY DEF Command
<1>2. x.target < x.at
  BY <1>1, NextStatement, PlanFacts DEF Dismantling
<1>3. /\ x.at \in Revisions /\ Steps(x) = Down[x.at] /\ Made(x) \in Nat
      /\ Made(x) + 1 \in 1..Len(Down[x.at]) /\ s = Down[x.at][Made(x) + 1]
  BY <1>2, PlanFacts, NextStatement
<1>4. seen = d.objects \ x.removed /\ d.objects = SchemaAt(v) /\ seen \in SUBSET Everything
  BY <1>1, <1>3, Born, AtFacts DEF Seen, Dismantling
<1>5. OnPlan(y) /\ Made(y) = Made(x) + 1
  BY NextStatement DEF Executes
<1>6. /\ \A o : Drops(s, o) => o.name \in Locks(s, seen)
      /\ \A o \in seen : o \in Removes(s, seen) <=> Drops(s, o)
      /\ \A o \in Removes(s, seen) : Drops(s, o)
      /\ \A o \in d.objects : Drops(s, o) => o \in Whole(x.at)
      /\ Made(x) = 0 => \E o \in seen : Drops(s, o)
  <2>1. d.objects \in SUBSET Everything
    BY <1>3, <1>4, Born
  <2>2. /\ \A o : Drops(s, o) => o.name \in Locks(s, seen)
        /\ \A o \in seen : o \in Removes(s, seen) <=> Drops(s, o)
        /\ \A o \in Removes(s, seen) : Drops(s, o)
        /\ Made(x) + 1 = 1 => \E o \in seen : Drops(s, o)
    <3>1. ~ Fails(s, seen)
      OBVIOUS
    <3> HIDE DEF s, seen
    <3>2. PICK i \in 1..Len(Down[x.at]) : i = Made(x) + 1 /\ s = Down[x.at][i]
      BY <1>3
    <3>3. x.at \in Revisions /\ seen \in SUBSET Everything
      BY <1>3, <1>4
    <3>4. DropsOf(s, x.at, i = 1, seen)
      BY <3>2, <3>3, DropFacts
    <3>5. QED
      BY <3>1, <3>2, <3>4 DEF DropsOf
  <2>3. \A o \in d.objects : Drops(s, o) => o \in Whole(x.at)
    <3> HIDE DEF s
    <3>1. PICK i \in 1..Len(Down[x.at]) : s = Down[x.at][i]
      BY <1>3
    <3>2. x.at \in Revisions
      BY <1>3
    <3>3. DropsOf(s, x.at, i = 1, d.objects)
      BY <2>1, <3>1, <3>2, DropFacts
    <3>4. QED
      BY <3>3 DEF DropsOf
  <2>4. Made(x) = 0 => Made(x) + 1 = 1
    OBVIOUS
  <2>5. QED
    BY <2>2, <2>3, <2>4
<1>7. Adds(s) = {}
  BY <1>3, DropOp
<1> HIDE DEF s, seen
<1>8. y.added = {} /\ y.removed = x.removed \cup (Removes(s, seen) \cap d.objects)
      /\ y.locks = x.locks \cup Locks(s, seen)
  BY <1>1, <1>7 DEF Executes, Dismantling, s, seen
<1>9. /\ y.at = x.at /\ y.from = x.from /\ y.target = x.target /\ y.alone = x.alone
      /\ y.state = x.state
  BY DEF Executes
<1>10. x.at = x.from => \E o \in d.objects : o \in Whole(x.from) /\ o.name \in y.locks
  <2>1. CASE Made(x) = 0
    <3>1. PICK o \in seen : Drops(s, o)
      BY <1>6, <2>1
    <3>2. o \in d.objects /\ o \in Whole(x.at) /\ o.name \in y.locks
      BY <1>4, <1>6, <1>8, <3>1
    <3>3. QED
      BY <3>2
  <2>2. CASE Made(x) > 0
    BY <1>8, <2>2 DEF Anchored
  <2>3. QED
    BY <1>3, <2>1, <2>2
<1>11. Whole(x.at) \subseteq d.objects
  <2>1. CASE x.at = x.from
    BY <1>3, <1>4, <1>10, <2>1, Born, ChainFacts
  <2>2. CASE x.at # x.from
    <3>1. ~ Stray(x, v)
      BY DoomedFails
    <3>2. v = x.from
      BY <2>2, <3>1 DEF Anchored
    <3>3. x.at <= v
      BY <1>1, <3>2 DEF Dismantling
    <3>4. QED
      BY <1>3, <1>4, <3>3, Born
  <2>3. QED
    BY <2>1, <2>2
<1>12. Dismantling(y)
  <2>1. Gone(x.at, Made(x) + 1) = Gone(x.at, Made(x)) \cup {o \in Whole(x.at) : Drops(s, o)}
    BY <1>3, GoneStep
  <2>2. x.removed = Span(x.at, x.from) \cup Gone(x.at, Made(x))
    BY <1>1 DEF Dismantling
  <2>3. y.removed = x.removed \cup {o \in Whole(x.at) : Drops(s, o)}
    BY <1>4, <1>6, <1>8, <1>11
  <2>4. y.removed = Span(y.at, y.from) \cup Gone(y.at, Made(y))
    BY <1>5, <1>9, <2>1, <2>2, <2>3
  <2>5. QED
    BY <1>1, <1>8, <1>9, <2>4 DEF Dismantling
<1>13. \A o \in y.added \cup y.removed : o.name \in y.locks
  BY <1>6, <1>8 DEF Command
<1>14. Command(y)
  <2>1. ~ (y.from < y.target)
    BY <1>9, PlanFacts
  <2>2. QED
    BY <1>5, <1>9, <1>12, <1>13, <2>1 DEF Command
<1>15. Anchored(y, d, v)
  <2>1. ~ Stray(x, v) /\ Keys(y) = Keys(x)
    BY <1>9, DoomedFails DEF Keys
  <2>2. ~ (y.from < y.target)
    BY <1>9, PlanFacts
  <2>3. QED
    BY <1>9, <1>10, <2>1, <2>2 DEF Anchored
<1>16. QED
  BY <1>14, <1>15

(* A command that is alone meets the catalog its revisions were made for.  *)
LEMMA AloneRuns ==
  ASSUME NEW d, NEW v \in Versions, AtVersion(d, v), NEW x, Command(x), Anchored(x, d, v),
         x.alone, x.todo # << >>
  PROVE  ~ Fails(Head(x.todo), Seen(x, d))
<1>1. v = x.from /\ d.objects = SchemaAt(x.from) /\ {x.from, x.at, x.target} \subseteq Versions
  BY AtFacts DEF Anchored, Command
<1>2. /\ Made(x) \in Nat /\ x.from \in Nat /\ x.at \in Nat /\ x.target \in Nat
      /\ x.from < x.target \/ x.target < x.from
  BY PlanFacts
<1>3. CASE x.from < x.target
  <2>1. Building(x)
    BY <1>3 DEF Command
  <2>2. x.at < x.target
    BY <1>2, <1>3, <2>1, NextStatement DEF Building
  <2>3. /\ x.at + 1 \in Revisions /\ Made(x) + 1 \in DOMAIN Up[x.at + 1]
        /\ Head(x.todo) = Up[x.at + 1][Made(x) + 1]
    BY <2>2, PlanFacts, NextStatement, ChainFacts
  <2>4. SchemaAt(x.at) = SchemaAt(x.from) \cup Span(x.from, x.at)
    BY <1>2, <2>1, SpanStep DEF Building
  <2>5. Seen(x, d) = SchemaAt(x.at) \cup Part(x.at + 1, Made(x))
    BY <1>1, <2>1, <2>4 DEF Seen, Building
  <2>6. (x.at + 1) - 1 = x.at /\ (Made(x) + 1) - 1 = Made(x)
    BY <1>2
  <2>7. QED
    BY <2>3, <2>5, <2>6, ChainAssumption DEF Runs
<1>4. CASE x.target < x.from
  <2>1. Dismantling(x)
    BY <1>4 DEF Command
  <2>2. x.target < x.at
    BY <1>2, <1>4, <2>1, NextStatement DEF Dismantling
  <2>3. /\ x.at \in Revisions /\ Made(x) + 1 \in DOMAIN Down[x.at]
        /\ Head(x.todo) = Down[x.at][Made(x) + 1]
    BY <2>2, PlanFacts, NextStatement, ChainFacts
  <2>4. SchemaAt(x.from) \ Span(x.at, x.from) = SchemaAt(x.at)
    BY <1>1, <2>1, SchemaBack DEF Dismantling
  <2>5. Seen(x, d) = SchemaAt(x.at) \ Gone(x.at, Made(x))
    BY <1>1, <2>1, <2>4 DEF Seen, Dismantling
  <2>6. (Made(x) + 1) - 1 = Made(x)
    BY <1>2
  <2>7. QED
    BY <2>3, <2>5, <2>6, ChainAssumption DEF Runs
<1>5. QED
  BY <1>2, <1>3, <1>4

-----------------------------------------------------------------------------
(* The end of a revision.                                                  *)

RowsSeen(x, d) ==
  IF x.at = x.from THEN d.rows ELSE (d.rows \ RowOf(x.from)) \cup RowOf(x.at)

Restamps(x, y) ==
  /\ y.state = x.state /\ y.from = x.from /\ y.target = x.target /\ y.alone = x.alone
  /\ y.added = x.added /\ y.removed = x.removed /\ y.locks = x.locks
  /\ y.at = Toward(x.at, x.target) /\ y.todo = Plan(y.at, y.target)

LEMMA Planned ==
  ASSUME NEW y, y.at \in Versions, y.target \in Versions, y.todo = Plan(y.at, y.target)
  PROVE  OnPlan(y) /\ Made(y) = 0
<1>1. y.at \in Nat /\ y.target \in Nat /\ y.at <= Len(Up) /\ y.target <= Len(Up) /\ Len(Up) \in Nat
  BY ChainFacts
<1>2. y.todo \in Seq(Ddls)
  <2>1. CASE y.at < y.target
    <3>1. y.at + 1 \in Revisions
      BY <1>1, <2>1, ChainFacts
    <3>2. QED
      BY <2>1, <3>1, ChainFacts DEF Plan
  <2>2. CASE y.target < y.at
    <3>1. y.at \in Revisions
      BY <1>1, <2>2, ChainFacts
    <3>2. QED
      BY <1>1, <2>2, <3>1, ChainFacts DEF Plan
  <2>3. CASE y.at = y.target
    BY <1>1, <2>3 DEF Plan
  <2>4. QED
    BY <1>1, <2>1, <2>2, <2>3
<1>3. Steps(y) = y.todo /\ Len(y.todo) \in Nat
  BY <1>2 DEF Steps
<1>4. QED
  BY <1>2, <1>3 DEF OnPlan, Made

LEMMA StampedCommand ==
  ASSUME NEW x, Command(x), x.todo = << >>, x.at # x.target, NEW y, Restamps(x, y)
  PROVE  /\ Command(y) /\ y.at # y.from /\ y.at \in Versions
         /\ Keys(y) = Keys(x) \cup ({x.at, y.at} \ {Base})
<1>1. /\ x.from \in Nat /\ x.at \in Nat /\ x.target \in Nat /\ Made(x) = Len(Steps(x))
      /\ {x.from, x.at, x.target} \subseteq Versions
  BY PlanFacts DEF Command
<1>2. CASE x.from < x.target
  <2>1. Building(x) /\ x.at < x.target /\ y.at = x.at + 1
    BY <1>1, <1>2 DEF Command, Building, Restamps, Toward
  <2>2. y.at \in Versions /\ y.target \in Versions /\ Steps(x) = Up[x.at + 1]
    BY <1>1, <2>1, PlanFacts, ChainFacts DEF Restamps
  <2>3. OnPlan(y) /\ Made(y) = 0
    BY <2>2, Planned DEF Restamps
  <2>4. Building(y)
    <3>1. Part(y.at + 1, 0) = {}
      BY PartStep
    <3>2. Part(x.at + 1, Made(x)) = Whole(x.at + 1)
      BY <1>1, <2>2 DEF Whole
    <3>3. Span(x.from, x.at + 1) = Span(x.from, x.at) \cup Whole(x.at + 1)
      BY <1>1, <2>1, SpanStep DEF Building
    <3>4. y.added = Span(y.from, y.at) \cup Part(y.at + 1, Made(y))
      BY <2>1, <2>3, <3>1, <3>2, <3>3 DEF Building, Restamps
    <3>5. QED
      BY <1>1, <2>1, <3>4 DEF Building, Restamps
  <2>5. y.at # y.from
    BY <1>1, <2>1 DEF Building, Restamps
  <2>6. Command(y)
    BY <1>1, <1>2, <2>2, <2>3, <2>4, <2>5 DEF Command, Restamps
  <2>7. Keys(y) = Keys(x) \cup ({x.at, y.at} \ {Base})
    <3>1. x.from <= x.at /\ y.at = x.at + 1 /\ y.from = x.from
      BY <2>1 DEF Building, Restamps
    <3>2. /\ y.at..x.from = {} /\ x.from..y.at = (x.from..x.at) \cup {y.at}
      BY <1>1, <3>1
    <3>3. CASE x.at = x.from
      <4>1. x.from..x.at = {x.at}
        BY <1>1, <3>3
      <4>2. QED
        BY <2>5, <3>1, <3>2, <3>3, <4>1 DEF Keys
    <3>4. CASE x.at # x.from
      <4>1. x.at..x.from = {} /\ x.at \in x.from..x.at
        BY <1>1, <3>1, <3>4
      <4>2. QED
        BY <2>5, <3>1, <3>2, <3>4, <4>1 DEF Keys
    <3>5. QED
      BY <3>3, <3>4
  <2>8. QED
    BY <2>2, <2>5, <2>6, <2>7
<1>3. CASE x.target < x.from
  <2>1. Dismantling(x) /\ x.target < x.at /\ y.at = x.at - 1
    BY <1>1, <1>3 DEF Command, Dismantling, Restamps, Toward
  <2>2. /\ y.at \in Versions /\ y.target \in Versions /\ Steps(x) = Down[x.at]
        /\ x.at \in Revisions /\ y.at \in Nat
    BY <1>1, <2>1, PlanFacts, ChainFacts DEF Restamps
  <2>3. OnPlan(y) /\ Made(y) = 0
    BY <2>2, Planned DEF Restamps
  <2>4. Dismantling(y)
    <3>1. Gone(y.at, 0) = {}
      BY GoneStep
    <3>2. Gone(x.at, Made(x)) = Whole(x.at)
      BY <1>1, <2>2, GoneAll
    <3>3. Span(x.at - 1, x.from) = Whole(x.at) \cup Span(x.at, x.from)
      BY <1>1, <2>1, SpanStep DEF Dismantling
    <3>4. y.removed = Span(y.at, y.from) \cup Gone(y.at, Made(y))
      BY <2>1, <2>3, <3>1, <3>2, <3>3 DEF Dismantling, Restamps
    <3>5. QED
      BY <1>1, <2>1, <3>4 DEF Dismantling, Restamps
  <2>5. y.at # y.from
    BY <1>1, <1>3, <2>1 DEF Dismantling, Restamps
  <2>6. Command(y)
    BY <1>1, <1>3, <2>2, <2>3, <2>4, <2>5 DEF Command, Restamps
  <2>7. Keys(y) = Keys(x) \cup ({x.at, y.at} \ {Base})
    <3>1. x.at <= x.from /\ y.at = x.at - 1 /\ y.from = x.from /\ y.at \in Nat
      BY <2>1, <2>2 DEF Dismantling, Restamps
    <3>2. /\ x.from..y.at = {} /\ y.at..x.from = {y.at} \cup (x.at..x.from)
      BY <1>1, <3>1
    <3>3. CASE x.at = x.from
      <4>1. x.at..x.from = {x.at}
        BY <1>1, <3>3
      <4>2. QED
        BY <2>5, <3>1, <3>2, <3>3, <4>1 DEF Keys
    <3>4. CASE x.at # x.from
      <4>1. x.from..x.at = {} /\ x.at \in x.at..x.from
        BY <1>1, <3>1, <3>4
      <4>2. QED
        BY <2>5, <3>1, <3>2, <3>4, <4>1 DEF Keys
    <3>5. QED
      BY <3>3, <3>4
  <2>8. QED
    BY <2>2, <2>5, <2>6, <2>7
<1>4. QED
  BY <1>2, <1>3, PlanFacts

LEMMA StampedAnchored ==
  ASSUME NEW d, NEW v \in Versions, AtVersion(d, v), NEW x, Command(x), Anchored(x, d, v),
         x.todo = << >>, x.at # x.target, NEW y, Restamps(x, y),
         RowOf(x.at) \subseteq RowsSeen(x, d), RowOf(y.at) \cap RowsSeen(x, d) = {}
  PROVE  Anchored(y, d, v)
<1>1. /\ y.at # y.from /\ y.from = x.from /\ y.alone = x.alone /\ y.target = x.target
      /\ y.at \in Versions /\ Keys(y) = Keys(x) \cup ({x.at, y.at} \ {Base})
      /\ y.todo = Plan(y.at, x.target) /\ y.at = Toward(x.at, x.target)
  BY StampedCommand DEF Restamps
<1>2. {x.from, x.at, x.target} \subseteq Versions /\ Made(x) = Len(Steps(x))
  BY PlanFacts DEF Command
<1>3. RowOf(y.from) \subseteq d.rows
  BY <1>1 DEF Anchored, RowsSeen
<1>4. v = y.from \/ Stray(y, v)
  <2>1. CASE x.at # x.from
    <3>1. ~ Stray(x, v)
      BY ChainAssumption DEF Stray, WellFormed
    <3>2. QED
      BY <1>1, <2>1, <3>1 DEF Anchored
  <2>2. CASE x.at = x.from /\ x.from = 0
    <3>1. y.at = 1 /\ RowOf(1) = {1} /\ 1 \in Versions /\ 1 \notin d.rows
      <4>1. x.target > 0 /\ y.at = 1
        BY <1>1, <1>2, <2>2, ChainFacts DEF Toward
      <4>2. RowOf(1) = {1} /\ 1 \in Versions
        BY ChainFacts, RowFacts
      <4>3. QED
        BY <2>2, <4>1, <4>2 DEF RowsSeen
    <3>2. v # 1
      BY <3>1, AtFacts
    <3>3. CASE v >= 2
      <4>1. x.target = 1 \/ y.todo = Up[2]
        BY <1>1, <1>2, <2>2, <3>1, ChainFacts DEF Plan
      <4>2. QED
        BY <1>1, <2>2, <3>1, <3>3, <4>1, ChainFacts DEF Stray
    <3>4. QED
      BY <1>1, <2>2, <3>2, <3>3, AtFacts
  <2>3. CASE x.at = x.from /\ x.from # 0
    <3>1. x.from \in d.rows
      BY <1>1, <1>3, <2>3, ChainFacts DEF RowOf
    <3>2. x.from = v \/ (x.from = 1 /\ v >= 2)
      BY <3>1, AtFacts
    <3>3. ASSUME x.from = 1, v >= 2 PROVE Stray(y, v)
      <4>1. ~ (1 < x.target)
        <5> SUFFICES ASSUME 1 < x.target PROVE FALSE
          OBVIOUS
        <5>1. Steps(x) = Up[2] /\ Up[2] # << >> /\ 2 \in Revisions /\ Len(Up[2]) \in Nat
          BY <1>2, <2>3, <3>3, PlanFacts, ChainFacts, ChainAssumption DEF WellFormed
        <5>2. Made(x) > 0
          BY <1>2, <5>1, ChainFacts
        <5>3. PICK o \in Whole(x.from + 1) \ d.objects : TRUE
          BY <2>3, <3>3, <5>2 DEF Anchored
        <5>4. o \in Whole(2) /\ o \notin SchemaAt(v)
          BY <3>3, <5>3, AtFacts
        <5>5. QED
          BY <3>3, <5>1, <5>4, Born
      <4>2. x.target = 0 /\ y.at = 0
        <5>1. x.target \in Nat /\ x.target # 1 /\ x.at = 1
          BY <2>3, <3>3, PlanFacts
        <5>2. x.target = 0
          BY <4>1, <5>1
        <5>3. QED
          BY <1>1, <5>1, <5>2 DEF Toward
      <4>3. QED
        BY <1>1, <3>3, <4>2, ChainFacts DEF Stray
    <3>4. QED
      BY <1>1, <3>2, <3>3
  <2>4. QED
    BY <2>1, <2>2, <2>3
<1>5. Keys(y) \cap d.rows \subseteq RowOf(y.from)
  <2> SUFFICES ASSUME NEW k \in Keys(y), k \in d.rows PROVE k \in RowOf(x.from)
    BY <1>1
  <2>1. CASE k \in Keys(x)
    BY <2>1 DEF Anchored
  <2>2. CASE k = x.at /\ k # Base
    <3>1. CASE x.at = x.from
      BY <2>2, <3>1 DEF RowOf
    <3>2. CASE x.at # x.from
      <4>1. k \in Keys(x)
        BY <2>2, <3>2, KeysFacts DEF RowOf
      <4>2. QED
        BY <2>1, <4>1
    <3>3. QED
      BY <3>1, <3>2
  <2>3. CASE k = y.at /\ k # Base
    BY <2>3 DEF RowOf, RowsSeen
  <2>4. QED
    BY <1>1, <2>1, <2>2, <2>3
<1>6. QED
  BY <1>1, <1>3, <1>4, <1>5 DEF Anchored

(* A command that is alone finds the row it is to replace.                 *)
LEMMA AloneStamps ==
  ASSUME NEW d, NEW v, NEW x, Command(x), Anchored(x, d, v), x.alone, x.at # x.target
  PROVE  LET next == Toward(x.at, x.target)
         IN  RowOf(x.at) \subseteq RowsSeen(x, d) /\ RowOf(next) \cap RowsSeen(x, d) = {}
<1> DEFINE next == Toward(x.at, x.target)
<1>1. {x.from, x.at, x.target} \subseteq Versions /\ d.rows = RowOf(x.from)
  BY DEF Command, Anchored
<1>2. next # x.at /\ next \in Nat /\ x.at \in Nat
  BY <1>1, ChainFacts DEF Toward
<1>3. RowsSeen(x, d) = RowOf(x.at)
  BY <1>1 DEF RowsSeen
<1>4. RowOf(next) \cap RowOf(x.at) = {}
  BY <1>2 DEF RowOf
<1>5. QED
  BY <1>3, <1>4

-----------------------------------------------------------------------------
(* The end of a command.                                                   *)

(* The version after a command has committed, and what it has made of the  *)
(* rows.                                                                   *)
Reached(x, v) == IF v = x.from THEN x.target ELSE v

Replaces(x, old, new) ==
  /\ RowOf(x.from) \subseteq old
  /\ new = (old \ RowOf(x.from)) \cup RowOf(x.target)
  /\ {x.from, x.target} = {Base, 1} \/ old \subseteq RowOf(x.from) \cup ({1} \ RowOf(x.target))

LEMMA CommittedMain ==
  ASSUME NEW d, NEW v \in Versions, AtVersion(d, v), NEW x, Command(x), Anchored(x, d, v),
         x.at = x.target, v = x.from, NEW e, e = [rows |-> RowsSeen(x, d), objects |-> Seen(x, d)]
  PROVE  AtVersion(e, x.target) /\ Replaces(x, d.rows, e.rows)
<1>1. /\ {x.from, x.at, x.target} \subseteq Versions /\ x.from # x.target
      /\ x.from \in Nat /\ x.at \in Nat /\ x.target \in Nat /\ Made(x) = 0
      /\ x.from < x.target \/ x.target < x.from
  BY PlanFacts DEF Command
<1>2. d.objects = SchemaAt(x.from) /\ RowOf(x.from) \subseteq d.rows
  BY <1>1, AtFacts DEF Anchored
<1>3. e.rows = (d.rows \ RowOf(x.from)) \cup RowOf(x.target)
  BY <1>1 DEF RowsSeen
<1>4. ASSUME v >= 2, d.rows = {1, v} PROVE x.target >= 2
  <2>1. 1 \notin Keys(x)
    BY <1>4 DEF Anchored, RowOf
  <2>2. QED
    BY <1>1, <2>1, KeysFacts
<1>5. e.rows = RowOf(x.target) \/ (x.target >= 2 /\ e.rows = {1, x.target})
  <2>1. CASE d.rows = RowOf(v)
    BY <1>3, <2>1
  <2>2. CASE v >= 2 /\ d.rows = {1, v}
    <3>1. x.target >= 2 /\ RowOf(x.from) = {v} /\ RowOf(x.target) = {x.target}
      BY <1>1, <1>4, <2>2, RowFacts
    <3>2. QED
      BY <1>3, <2>2, <3>1
  <2>3. QED
    BY <2>1, <2>2, AtFacts
<1>6. Seen(x, d) = SchemaAt(x.target)
  <2>1. CASE x.from < x.target
    <3>1. x.removed = {} /\ x.added = Span(x.from, x.target) \cup Part(x.at + 1, 0)
      BY <1>1, <2>1 DEF Command, Building
    <3>2. Part(x.at + 1, 0) = {}
      BY PartStep
    <3>3. SchemaAt(x.target) = SchemaAt(x.from) \cup Span(x.from, x.target)
      BY <1>1, <2>1, SpanStep
    <3>4. QED
      BY <1>2, <3>1, <3>2, <3>3 DEF Seen
  <2>2. CASE x.target < x.from
    <3>1. x.added = {} /\ x.removed = Span(x.target, x.from) \cup Gone(x.at, 0)
      BY <1>1, <2>2 DEF Command, Dismantling
    <3>2. Gone(x.at, 0) = {}
      BY GoneStep
    <3>3. SchemaAt(x.from) \ Span(x.target, x.from) = SchemaAt(x.target)
      BY <1>1, <2>2, SchemaBack
    <3>4. QED
      BY <1>2, <3>1, <3>2, <3>3 DEF Seen
  <2>3. QED
    BY <1>1, <2>1, <2>2
<1>7. AtVersion(e, x.target)
  BY <1>5, <1>6 DEF AtVersion
<1>8. d.rows \subseteq RowOf(x.from) \cup ({1} \ RowOf(x.target))
  <2>1. CASE d.rows = RowOf(v)
    BY <2>1
  <2>2. CASE v >= 2 /\ d.rows = {1, v}
    <3>1. 1 \notin RowOf(x.target) /\ v \in RowOf(x.from)
      BY <1>1, <1>4, <2>2, ChainFacts DEF RowOf
    <3>2. QED
      BY <2>2, <3>1
  <2>3. QED
    BY <2>1, <2>2, AtFacts
<1>9. QED
  BY <1>2, <1>3, <1>7, <1>8 DEF Replaces

(* A stray command changes no object: the first revision is empty.         *)
LEMMA CommittedStray ==
  ASSUME NEW d, NEW v \in Versions, AtVersion(d, v), NEW x, Command(x), Anchored(x, d, v),
         x.at = x.target, v # x.from, NEW e, e = [rows |-> RowsSeen(x, d), objects |-> Seen(x, d)]
  PROVE  AtVersion(e, v) /\ Replaces(x, d.rows, e.rows)
<1>1. /\ x.from \in Nat /\ x.from # x.target /\ Made(x) = 0 /\ 0 \in Versions /\ 1 \in Versions
      /\ x.at # x.from
  BY PlanFacts, ChainFacts DEF Command
<1>2. Stray(x, v)
  BY <1>1 DEF Anchored
<1>3. v >= 2 /\ v \in Nat /\ RowOf(v) = {v} /\ RowOf(1) = {1} /\ RowOf(0) = {} /\ Base = 0
  BY <1>1, <1>2, RowFacts, ChainFacts DEF Stray
<1>4. e.rows = (d.rows \ RowOf(x.from)) \cup RowOf(x.target) /\ RowOf(x.from) \subseteq d.rows
  BY <1>1 DEF RowsSeen, Anchored
<1>5. Whole(1) = {} /\ Span(0, 1) = {} /\ Part(2, 0) = {} /\ Gone(0, 0) = {}
  <2>1. Up[1] = << >>
    BY ChainAssumption DEF WellFormed
  <2>2. Whole(1) = {} /\ Part(2, 0) = {} /\ Gone(0, 0) = {}
    BY <2>1, PartStep, GoneStep DEF Whole
  <2>3. Span(0, 1) = Span(0, 0) \cup Whole(1) /\ Span(0, 0) = {}
    BY SpanStep
  <2>4. QED
    BY <2>2, <2>3
<1>6. CASE x.from = 0
  <2>1. x.target = 1 /\ x.at = 1
    BY <1>1, <1>2, <1>3, <1>6 DEF Stray
  <2>2. 1 \notin d.rows
    <3>1. 1 \in Keys(x)
      BY <1>1, <1>6, KeysFacts
    <3>2. QED
      BY <1>3, <1>6, <3>1 DEF Anchored
  <2>3. d.rows = {v} /\ e.rows = {1, v}
    BY <1>3, <1>4, <1>6, <2>1, <2>2, AtFacts
  <2>4. x.added = {} /\ x.removed = {}
    BY <1>1, <1>5, <1>6, <2>1 DEF Command, Building
  <2>5. e.objects = SchemaAt(v)
    BY <2>4, AtFacts DEF Seen
  <2>6. AtVersion(e, v)
    BY <1>3, <2>3, <2>5 DEF AtVersion
  <2>7. QED
    BY <1>3, <1>4, <1>6, <2>1, <2>6 DEF Replaces
<1>7. CASE x.from = 1
  <2>1. x.target = 0 /\ x.at = 0
    BY <1>2, <1>3, <1>7 DEF Stray
  <2>2. 1 \in d.rows
    BY <1>3, <1>4, <1>7
  <2>3. d.rows = {1, v} /\ e.rows = {v}
    BY <1>3, <1>4, <1>7, <2>1, <2>2, AtFacts
  <2>4. x.added = {} /\ x.removed = {}
    BY <1>1, <1>5, <1>7, <2>1 DEF Command, Dismantling
  <2>5. e.objects = SchemaAt(v)
    BY <2>4, AtFacts DEF Seen
  <2>6. AtVersion(e, v)
    BY <1>3, <2>3, <2>5 DEF AtVersion
  <2>7. QED
    BY <1>3, <1>4, <1>7, <2>1, <2>6 DEF Replaces
<1>8. QED
  BY <1>2, <1>3, <1>6, <1>7 DEF Stray

LEMMA Committed ==
  ASSUME NEW d, NEW v \in Versions, AtVersion(d, v), NEW x, Command(x), Anchored(x, d, v),
         x.at = x.target, NEW e, e = [rows |-> RowsSeen(x, d), objects |-> Seen(x, d)]
  PROVE  /\ AtVersion(e, Reached(x, v)) /\ Reached(x, v) \in Versions
         /\ Replaces(x, d.rows, e.rows) /\ e.objects = (d.objects \ x.removed) \cup x.added
<1>1. x.target \in Versions
  BY DEF Command
<1>2. CASE v = x.from
  BY <1>1, <1>2, CommittedMain DEF Reached, Seen
<1>3. CASE v # x.from
  BY <1>3, CommittedStray DEF Reached, Seen
<1>4. QED
  BY <1>2, <1>3

-----------------------------------------------------------------------------
(* One process moves, and the database does not.                           *)

LEMMA IdleFacts ==
  ASSUME NEW s, NEW alone
  PROVE  LET x == Ended(s, alone)
         IN  /\ x.state = s /\ x.alone = alone /\ x.locks = {} /\ x.from = Base /\ x.at = Base
             /\ x.target = Base /\ x.todo = << >> /\ x.added = {} /\ x.removed = {}
             /\ DOMAIN x = CommandFields
BY DEF Ended, Idle, CommandFields

LEMMA IdleEnded == Idle = Ended("idle", TRUE) /\ DOMAIN Idle = CommandFields
<1>1. DOMAIN Idle = CommandFields /\ Idle.state = "idle" /\ Idle.alone = TRUE
  BY DEF Idle, CommandFields
<1>2. Idle = [f \in CommandFields |-> Idle[f]]
  BY DEF Idle, CommandFields
<1>3. Ended("idle", TRUE) = Idle
  BY <1>1, <1>2 DEF Ended
<1>4. QED
  BY <1>1, <1>3

LEMMA EndedSound ==
  ASSUME NEW d, NEW v, NEW s \in {"idle", "failed"}, NEW alone \in BOOLEAN,
         s = "failed" /\ alone => d.rows # RowOf(v)
  PROVE  /\ Proper(Ended(s, alone), d, v) /\ Ended(s, alone).locks = {}
         /\ Keys(Ended(s, alone)) = {}
         /\ Ended(s, alone).state = s /\ Ended(s, alone).alone = alone
<1> DEFINE x == Ended(s, alone)
<1>1. /\ x.state = s /\ x.alone = alone /\ x.locks = {} /\ x.at = x.from
      /\ DOMAIN x = CommandFields
  BY IdleFacts
<1>2. IsRun(x)
  BY <1>1 DEF IsRun
<1>3. Keys(x) = {}
  BY <1>1 DEF Keys
<1>4. QED
  BY <1>1, <1>2, <1>3 DEF Proper

LEMMA Moves ==
  ASSUME AlembicInv, NEW v \in Versions, AtVersion(db, v), \A q \in Procs : Proper(run[q], db, v),
         NEW p \in Procs, Running(p), NEW y, Proper(y, db, v),
         run' = [run EXCEPT ![p] = y], db' = db,
         \A q \in Procs \ {p} : y.locks \cap run[q].locks = {} /\ Keys(y) \cap Keys(run[q]) = {},
         y.state \in {"running", "failed"} => y.alone = run[p].alone
  PROVE  AlembicInv'
<1>1. /\ DOMAIN run' = Procs /\ run' = [q \in Procs |-> run'[q]]
      /\ run'[p] = y /\ \A q \in Procs \ {p} : run'[q] = run[q]
  BY DEF AlembicInv
<1>2. \A q \in Procs : Proper(run'[q], db', v)
  BY <1>1
<1>3. ASSUME NEW q \in Procs, NEW r \in Procs, q # r PROVE Separate(run'[q], run'[r])
  <2>1. Separate(run[q], run[r])
    BY <1>3 DEF AlembicInv
  <2>2. CASE q = p
    <3>1. /\ run'[q].locks \cap run'[r].locks = {} /\ Keys(run'[q]) \cap Keys(run'[r]) = {}
      BY <1>1, <1>3, <2>2
    <3>2. run'[q].state \in {"running", "failed"} /\ run'[r].state = "running" => ~ run'[q].alone
      BY <1>1, <1>3, <2>1, <2>2 DEF Separate, Running
    <3>3. QED
      BY <3>1, <3>2 DEF Separate
  <2>3. CASE r = p
    <3>1. /\ run'[q].locks \cap run'[r].locks = {} /\ Keys(run'[q]) \cap Keys(run'[r]) = {}
      BY <1>1, <1>3, <2>3
    <3>2. run'[q].state \in {"running", "failed"} /\ run'[r].state = "running" => ~ run'[q].alone
      BY <1>1, <1>3, <2>1, <2>3 DEF Separate, Running
    <3>3. QED
      BY <3>1, <3>2 DEF Separate
  <2>4. CASE q # p /\ r # p
    BY <1>1, <2>1, <2>4
  <2>5. QED
    BY <2>2, <2>3, <2>4
<1>4. QED
  BY <1>1, <1>2, <1>3 DEF AlembicInv

(* A process that ends without a commit.                                   *)
LEMMA Ends ==
  ASSUME AlembicInv, NEW p \in Procs, Running(p), NEW s \in {"idle", "failed"},
         NEW alone \in BOOLEAN, s = "failed" => ~ alone /\ alone = run[p].alone,
         run' = [run EXCEPT ![p] = Ended(s, alone)], db' = db
  PROVE  AlembicInv'
<1>1. PICK v \in Versions : AtVersion(db, v) /\ \A q \in Procs : Proper(run[q], db, v)
  BY DEF AlembicInv
<1>2. /\ Proper(Ended(s, alone), db, v) /\ Ended(s, alone).locks = {} /\ Keys(Ended(s, alone)) = {}
      /\ Ended(s, alone).state = s /\ Ended(s, alone).alone = alone
  BY EndedSound
<1>3. QED
  BY <1>1, <1>2, Moves

LEMMA DieInv ==
  ASSUME AlembicInv, NEW p \in Procs, Die(p)
  PROVE  AlembicInv'
<1>1. Idle = Ended("idle", TRUE)
  BY IdleEnded
<1>2. QED
  BY <1>1, Ends DEF Die

LEMMA DeadlockVictimInv ==
  ASSUME AlembicInv, NEW p \in Procs, DeadlockVictim(p)
  PROVE  AlembicInv'
<1>1. PICK q \in Procs : WaitsFor(p, q) /\ WaitsFor(q, p)
  BY DEF DeadlockVictim
<1>2. /\ p # q /\ Running(p) /\ Running(q)
  BY <1>1 DEF WaitsFor
<1>3. ~ run[p].alone
  BY <1>2 DEF AlembicInv, Separate, Running
<1>4. run' = [run EXCEPT ![p] = Ended("failed", run[p].alone)] /\ db' = db
  BY DEF DeadlockVictim
<1>5. run[p].alone \in BOOLEAN
  BY DEF AlembicInv, Proper, IsRun
<1>6. QED
  BY <1>2, <1>3, <1>4, <1>5, Ends

LEMMA RunningFacts ==
  ASSUME AlembicInv, NEW p \in Procs, Running(p)
  PROVE  /\ Command(run[p]) /\ IsRun(run[p]) /\ run[p].alone \in BOOLEAN
         /\ run[p].state = "running"
         /\ \E v \in Versions : /\ AtVersion(db, v) /\ Anchored(run[p], db, v)
                               /\ \A q \in Procs : Proper(run[q], db, v)
         /\ \A q \in Procs \ {p} : /\ run[p].locks \cap run[q].locks = {}
                                  /\ Keys(run[p]) \cap Keys(run[q]) = {}
         /\ Catalog(p) = Seen(run[p], db) /\ SeenRows(p) = RowsSeen(run[p], db)
BY DEF AlembicInv, Proper, IsRun, Running, Separate, Catalog, Seen, SeenRows, RowsSeen

LEMMA DdlInv ==
  ASSUME AlembicInv, NEW p \in Procs, Ddl(p)
  PROVE  AlembicInv'
<1> DEFINE x == run[p]
           s == Head(x.todo)
           seen == Seen(x, db)
           y == Executed(x, s, seen)
<1>1. /\ Command(x) /\ IsRun(x) /\ x.alone \in BOOLEAN /\ x.state = "running"
      /\ \A q \in Procs \ {p} : x.locks \cap run[q].locks = {} /\ Keys(x) \cap Keys(run[q]) = {}
      /\ Running(p) /\ Catalog(p) = seen /\ x.todo # << >>
  BY RunningFacts DEF Ddl
<1>2. /\ Locks(s, seen) \cap Held(p) = {} /\ db' = db
      /\ run' = [run EXCEPT ![p] = IF Fails(s, seen) THEN Ended("failed", x.alone) ELSE y]
  BY <1>1 DEF Ddl
<1>3. PICK v \in Versions : /\ AtVersion(db, v) /\ Anchored(x, db, v)
                            /\ \A q \in Procs : Proper(run[q], db, v)
  BY <1>1, RunningFacts
<1>4. CASE Fails(s, seen)
  <2>1. ~ x.alone
    BY <1>1, <1>3, <1>4, AloneRuns
  <2>2. QED
    BY <1>1, <1>2, <1>4, <2>1, Ends
<1>5. CASE ~ Fails(s, seen)
  <2>1. IsRun(y) /\ Executes(x, y, s, seen, db.objects)
    BY <1>1 DEF IsRun, Executes, Executed, CommandFields
  <2> HIDE DEF y
  <2>2. Command(y) /\ Anchored(y, db, v)
    BY <1>1, <1>3, <1>5, <2>1, ExecutedUp, ExecutedDown, PlanFacts
  <2>3. \A q \in Procs \ {p} : y.locks \cap run[q].locks = {} /\ Keys(y) \cap Keys(run[q]) = {}
    <3>1. y.locks = x.locks \cup Locks(s, seen)
      BY <2>1 DEF Executes
    <3>2. \A q \in Procs \ {p} : Locks(s, seen) \cap run[q].locks = {}
      BY <1>2 DEF Held
    <3>3. Keys(y) = Keys(x)
      BY <2>1 DEF Executes, Keys
    <3>4. QED
      BY <1>1, <3>1, <3>2, <3>3
  <2>4. Proper(y, db, v) /\ y.alone = x.alone
    BY <1>1, <2>1, <2>2 DEF Proper, Executes
  <2>5. run' = [run EXCEPT ![p] = y]
    BY <1>2, <1>5
  <2>6. QED
    BY <1>1, <1>2, <1>3, <2>3, <2>4, <2>5, Moves
<1>6. QED
  BY <1>4, <1>5

LEMMA StampInv ==
  ASSUME AlembicInv, NEW p \in Procs, Stamp(p)
  PROVE  AlembicInv'
<1> DEFINE x == run[p]
           next == Toward(x.at, x.target)
           y == Stamped(x, next)
<1>1. /\ Command(x) /\ IsRun(x) /\ x.alone \in BOOLEAN /\ x.state = "running"
      /\ \A q \in Procs \ {p} : x.locks \cap run[q].locks = {} /\ Keys(x) \cap Keys(run[q]) = {}
      /\ Running(p) /\ SeenRows(p) = RowsSeen(x, db) /\ x.todo = << >> /\ x.at # x.target
  BY RunningFacts DEF Stamp
<1>2. /\ Touches(p) \cap Taken(p) = {} /\ db' = db /\ NextVersion(p) = next
      /\ run' = [run EXCEPT ![p] = IF ~ Stampable(p) THEN Ended("failed", x.alone) ELSE y]
  BY <1>1 DEF Stamp, NextVersion
<1>3. /\ Stampable(p) <=>
           RowOf(x.at) \subseteq RowsSeen(x, db) /\ RowOf(next) \cap RowsSeen(x, db) = {}
      /\ RowOf(x.at) \subseteq RowsSeen(x, db) => Touches(p) = {x.at, next} \ {Base}
  BY <1>1, <1>2 DEF Stampable, Touches
<1>4. PICK v \in Versions : /\ AtVersion(db, v) /\ Anchored(x, db, v)
                            /\ \A q \in Procs : Proper(run[q], db, v)
  BY <1>1, RunningFacts
<1>5. CASE ~ Stampable(p)
  <2>1. ~ x.alone
    BY <1>1, <1>3, <1>4, <1>5, AloneStamps
  <2>2. QED
    BY <1>1, <1>2, <1>5, <2>1, Ends
<1>6. CASE Stampable(p)
  <2>1. IsRun(y) /\ Restamps(x, y)
    BY <1>1 DEF IsRun, Restamps, Stamped, CommandFields
  <2>2. y.at = next
    BY <2>1 DEF Restamps
  <2> HIDE DEF y
  <2>3. /\ Command(y) /\ Anchored(y, db, v)
        /\ Keys(y) = Keys(x) \cup ({x.at, next} \ {Base})
    BY <1>1, <1>3, <1>4, <1>6, <2>1, <2>2, StampedCommand, StampedAnchored
  <2>4. \A q \in Procs \ {p} : y.locks \cap run[q].locks = {} /\ Keys(y) \cap Keys(run[q]) = {}
    <3>1. y.locks = x.locks
      BY <2>1 DEF Restamps
    <3>2. \A q \in Procs \ {p} : ({x.at, next} \ {Base}) \cap Keys(run[q]) = {}
      BY <1>2, <1>3, <1>6 DEF Taken
    <3>3. QED
      BY <1>1, <2>3, <3>1, <3>2
  <2>5. Proper(y, db, v) /\ y.alone = x.alone
    BY <1>1, <2>1, <2>3 DEF Proper, Restamps
  <2>6. run' = [run EXCEPT ![p] = y]
    BY <1>2, <1>6
  <2>7. QED
    BY <1>1, <1>2, <1>4, <2>4, <2>5, <2>6, Moves
<1>7. QED
  BY <1>5, <1>6

-----------------------------------------------------------------------------
(* Another command starts: those under way are not alone any more.         *)

LEMMA Crowded ==
  ASSUME NEW d, NEW v, NEW x, Proper(x, d, v), x.state = "running"
  PROVE  LET y == [x EXCEPT !.alone = FALSE]
         IN  Proper(y, d, v) /\ y.locks = x.locks /\ Keys(y) = Keys(x) /\ ~ y.alone /\ y.state = x.state
<1> DEFINE y == [x EXCEPT !.alone = FALSE]
<1>1. /\ y.state = "running" /\ y.from = x.from /\ y.at = x.at /\ y.target = x.target
      /\ y.todo = x.todo /\ y.added = x.added /\ y.removed = x.removed /\ y.locks = x.locks
      /\ y.alone = FALSE /\ IsRun(y)
  BY DEF Proper, IsRun, CommandFields
<1> HIDE DEF y
<1>2. Steps(y) = Steps(x) /\ Made(y) = Made(x) /\ Keys(y) = Keys(x)
  BY <1>1 DEF Steps, Made, Keys
<1>3. Command(x) /\ Anchored(x, d, v)
  BY DEF Proper
<1>4. OnPlan(y)
  BY <1>1, <1>2, <1>3 DEF Command, OnPlan
<1>5. (Building(x) => Building(y)) /\ (Dismantling(x) => Dismantling(y))
  BY <1>1, <1>2 DEF Building, Dismantling
<1>6. Command(y)
  BY <1>1, <1>3, <1>4, <1>5 DEF Command
<1>7. Anchored(y, d, v)
  BY <1>1, <1>2, <1>3 DEF Anchored, Stray
<1>8. QED
  BY <1>1, <1>2, <1>6, <1>7 DEF Proper, y

LEMMA VersionFacts ==
  ASSUME NEW v \in Versions, AtVersion(db, v)
  PROVE  Version = v
<1>1. v \in Nat /\ Base = 0 /\ \A w \in db.rows : w = v \/ (w = 1 /\ v >= 2)
  BY AtFacts, ChainFacts
<1>2. v \in db.rows \cup {Base}
  BY <1>1, AtFacts DEF RowOf
<1>3. \A w \in db.rows : w <= v
  BY <1>1
<1>4. ASSUME NEW u \in db.rows \cup {Base}, \A w \in db.rows : w <= u PROVE u = v
  <2>1. u <= v /\ u \in Nat
    BY <1>1, <1>3, <1>4
  <2>2. v <= u
    BY <1>1, <1>2, <1>4, <2>1
  <2>3. QED
    BY <1>1, <2>1, <2>2
<1>5. QED
  BY <1>2, <1>3, <1>4 DEF Version

(* At most one row is that of the version.                                 *)
LEMMA OneVersion ==
  ASSUME NEW v \in Versions, AtVersion(db, v)
  PROVE  Cardinality(db.rows) > 1 <=> db.rows # RowOf(v)
<1>1. v \in Nat /\ Base = 0
  BY AtFacts, ChainFacts
<1>2. Cardinality(RowOf(v)) = 0 \/ Cardinality(RowOf(v)) = 1
  <2>1. RowOf(v) = {} \/ RowOf(v) = {v}
    BY DEF RowOf
  <2>2. QED
    BY <2>1, FS_EmptySet, FS_Singleton
<1>3. ASSUME db.rows # RowOf(v) PROVE Cardinality(db.rows) > 1
  <2>1. v >= 2 /\ db.rows = {1} \cup {v} /\ v \notin {1}
    BY <1>1, <1>3, AtFacts
  <2>2. IsFiniteSet({1}) /\ Cardinality({1}) = 1
    BY FS_Singleton
  <2>3. Cardinality({1} \cup {v}) = Cardinality({1}) + 1
    BY <2>1, <2>2, FS_AddElement
  <2>4. QED
    BY <2>1, <2>2, <2>3
<1>4. db.rows = RowOf(v) => ~ (Cardinality(db.rows) > 1)
  BY <1>2
<1>5. QED
  BY <1>3, <1>4

(* A command as it starts.                                                 *)
Fresh(v, target, alone) ==
  [Idle EXCEPT !.state = "running", !.from = v, !.at = v, !.target = target,
               !.todo = Plan(v, target), !.alone = alone]

LEMMA FreshSound ==
  ASSUME NEW d, NEW v \in Versions, AtVersion(d, v), d.rows = RowOf(v),
         NEW target \in Versions, v # target, NEW alone \in BOOLEAN
  PROVE  LET x == Fresh(v, target, alone)
         IN  Proper(x, d, v) /\ x.locks = {} /\ Keys(x) = {} /\ x.state = "running" /\ x.alone = alone
<1> DEFINE x == Fresh(v, target, alone)
<1>1. /\ x.state = "running" /\ x.from = v /\ x.at = v /\ x.target = target
      /\ x.todo = Plan(v, target) /\ x.added = {} /\ x.removed = {} /\ x.locks = {}
      /\ x.alone = alone
      /\ DOMAIN x = CommandFields
  BY DEF Fresh, Idle, CommandFields
<1> HIDE DEF x
<1>2. IsRun(x)
  BY <1>1 DEF IsRun
<1>3. OnPlan(x) /\ Made(x) = 0
  BY <1>1, Planned
<1>4. v \in Nat /\ target \in Nat
  BY ChainFacts
<1>5. Span(v, v) = {} /\ Part(v + 1, 0) = {} /\ Gone(v, 0) = {}
  BY <1>4, SpanStep, PartStep, GoneStep
<1>6. (v < target => Building(x)) /\ (target < v => Dismantling(x))
  BY <1>1, <1>3, <1>4, <1>5 DEF Building, Dismantling
<1>7. Command(x)
  BY <1>1, <1>3, <1>6 DEF Command
<1>8. Keys(x) = {}
  BY <1>1 DEF Keys
<1>9. Anchored(x, d, v)
  BY <1>1, <1>3, <1>8 DEF Anchored
<1>10. QED
  BY <1>1, <1>2, <1>7, <1>8, <1>9 DEF Proper, x

LEMMA StartInv ==
  ASSUME AlembicInv, NEW p \in Procs, NEW target \in Versions, Start(p, target)
  PROVE  AlembicInv'
<1>1. PICK v \in Versions : /\ AtVersion(db, v) /\ Version = v /\ db.rows = RowOf(v)
                            /\ \A q \in Procs : Proper(run[q], db, v)
  <2>1. PICK v \in Versions : AtVersion(db, v) /\ \A q \in Procs : Proper(run[q], db, v)
    BY DEF AlembicInv
  <2>2. Version = v
    BY <2>1, VersionFacts
  <2>3. Cardinality(db.rows) <= 1 => ~ (Cardinality(db.rows) > 1)
    <3>1. db.rows = RowOf(v) \/ (v >= 2 /\ db.rows = {1, v})
      BY <2>1, AtFacts
    <3>2. IsFiniteSet(db.rows)
      <4>1. IsFiniteSet({1}) /\ IsFiniteSet({1} \cup {v}) /\ IsFiniteSet({}) /\ IsFiniteSet({v})
        BY FS_EmptySet, FS_Singleton, FS_AddElement
      <4>2. RowOf(v) = {} \/ RowOf(v) = {v}
        BY DEF RowOf
      <4>3. {1, v} = {1} \cup {v}
        OBVIOUS
      <4>4. QED
        BY <3>1, <4>1, <4>2, <4>3
    <3>3. Cardinality(db.rows) \in Nat
      BY <3>2, FS_CardinalityType
    <3>4. QED
      BY <3>3
  <2>4. db.rows = RowOf(v)
    BY <2>1, <2>3, OneVersion DEF Start
  <2>5. QED
    BY <2>1, <2>2, <2>4
<1> DEFINE alone == \A r \in Procs : ~ Running(r)
           y == Fresh(v, target, alone)
<1>2. target # v
  BY <1>1 DEF Start
<1>3. /\ db' = db /\ ~ Running(p)
      /\ run' = [q \in Procs |-> IF q = p THEN y
                                ELSE IF Running(q) THEN [run[q] EXCEPT !.alone = FALSE] ELSE run[q]]
  BY <1>1 DEF Start, Fresh
<1>4. alone \in BOOLEAN
  OBVIOUS
<1>5. Proper(y, db, v) /\ y.locks = {} /\ Keys(y) = {} /\ y.state = "running" /\ y.alone = alone
  BY <1>1, <1>2, <1>4, FreshSound
<1> HIDE DEF y, alone
<1>6. /\ DOMAIN run' = Procs /\ run' = [q \in Procs |-> run'[q]] /\ run'[p] = y
      /\ \A q \in Procs \ {p} :
           run'[q] = IF Running(q) THEN [run[q] EXCEPT !.alone = FALSE] ELSE run[q]
  BY <1>3
<1>7. \A q \in Procs \ {p} :
        /\ Proper(run'[q], db, v) /\ run'[q].locks = run[q].locks /\ run'[q].state = run[q].state
        /\ Keys(run'[q]) = Keys(run[q])
        /\ run[q].state \in {"running", "failed"} => ~ run'[q].alone
  <2> SUFFICES ASSUME NEW q \in Procs \ {p}
               PROVE  /\ Proper(run'[q], db, v) /\ run'[q].locks = run[q].locks
                      /\ run'[q].state = run[q].state /\ Keys(run'[q]) = Keys(run[q])
                      /\ run[q].state \in {"running", "failed"} => ~ run'[q].alone
    OBVIOUS
  <2>1. Proper(run[q], db, v)
    BY <1>1
  <2>2. CASE Running(q)
    <3> DEFINE x == run[q]
               z == [x EXCEPT !.alone = FALSE]
    <3>1. run'[q] = z /\ Proper(x, db, v) /\ x.state = "running"
      BY <1>6, <2>1, <2>2 DEF Running
    <3>2. Proper(z, db, v) /\ z.locks = x.locks /\ Keys(z) = Keys(x) /\ ~ z.alone /\ z.state = x.state
      BY <3>1, Crowded
    <3>3. QED
      BY <3>1, <3>2
  <2>3. CASE ~ Running(q)
    BY <1>1, <1>6, <2>1, <2>3 DEF Proper, Running
  <2>4. QED
    BY <2>2, <2>3
<1>8. ASSUME NEW q \in Procs, NEW r \in Procs, q # r PROVE Separate(run'[q], run'[r])
  <2>1. Separate(run[q], run[r])
    BY <1>8 DEF AlembicInv
  <2>2. CASE q = p
    <3>1. r \in Procs \ {p}
      BY <1>8, <2>2
    <3>2. run'[r].state = "running" => ~ y.alone
      BY <1>5, <1>7, <3>1 DEF alone, Running
    <3>3. QED
      BY <1>5, <1>6, <2>2, <3>2 DEF Separate
  <2>3. CASE q # p
    <3>1. q \in Procs \ {p}
      BY <2>3
    <3>2. /\ run'[q].state \in {"running", "failed"} => ~ run'[q].alone
          /\ run'[q].locks = run[q].locks /\ Keys(run'[q]) = Keys(run[q])
      BY <1>7, <3>1
    <3>3. r = p \/ (run'[r].locks = run[r].locks /\ Keys(run'[r]) = Keys(run[r]))
      BY <1>7
    <3>4. QED
      BY <1>5, <1>6, <2>1, <3>2, <3>3 DEF Separate
  <2>4. QED
    BY <2>2, <2>3
<1>9. QED
  BY <1>1, <1>3, <1>5, <1>6, <1>7, <1>8 DEF AlembicInv

(* A command that is refused, because of the second row.                   *)
LEMMA OverlapInv ==
  ASSUME AlembicInv, NEW p \in Procs, Overlap(p)
  PROVE  AlembicInv'
<1> DEFINE alone == \A q \in Procs : ~ Running(q)
           y == Ended("failed", alone)
<1>1. PICK v \in Versions : AtVersion(db, v) /\ \A q \in Procs : Proper(run[q], db, v)
  BY DEF AlembicInv
<1>2. db.rows # RowOf(v) /\ alone \in BOOLEAN /\ run' = [run EXCEPT ![p] = y] /\ db' = db
  BY <1>1, OneVersion DEF Overlap
<1>3. alone <=> \A q \in Procs : ~ Running(q)
  OBVIOUS
<1> HIDE DEF alone
<1>4. /\ Proper(y, db, v) /\ y.locks = {} /\ Keys(y) = {} /\ y.state = "failed"
      /\ y.alone = alone
  BY <1>2, EndedSound
<1> HIDE DEF y
<1>5. /\ DOMAIN run' = Procs /\ run' = [q \in Procs |-> run'[q]] /\ run'[p] = y
      /\ \A q \in Procs \ {p} : run'[q] = run[q]
  BY <1>2 DEF AlembicInv
<1>6. ASSUME NEW q \in Procs, NEW r \in Procs, q # r PROVE Separate(run'[q], run'[r])
  <2>1. Separate(run[q], run[r])
    BY <1>6 DEF AlembicInv
  <2>2. CASE q = p
    BY <1>3, <1>4, <1>5, <1>6, <2>2 DEF Separate, Running
  <2>3. CASE r = p
    BY <1>4, <1>5, <1>6, <2>3 DEF Separate
  <2>4. CASE q # p /\ r # p
    BY <1>5, <2>1, <2>4
  <2>5. QED
    BY <2>2, <2>3, <2>4
<1>7. \A q \in Procs : Proper(run'[q], db', v)
  BY <1>1, <1>2, <1>4, <1>5
<1>8. QED
  BY <1>1, <1>2, <1>5, <1>6, <1>7 DEF AlembicInv

-----------------------------------------------------------------------------
(* A commit.  Of two commands that have written rows one is a stray one,   *)
(* and of the others none is alone and what they hold on to stays as it is.*)
LEMMA OthersAnchored ==
  ASSUME NEW d, NEW v \in Versions, AtVersion(d, v), NEW x, Command(x), Anchored(x, d, v),
         x.at = x.target, NEW e, Replaces(x, d.rows, e.rows),
         e.objects = (d.objects \ x.removed) \cup x.added,
         NEW z, Command(z), Anchored(z, d, v), ~ z.alone, Keys(z) \cap Keys(x) = {},
         z.locks \cap x.locks = {}
  PROVE  Anchored(z, e, Reached(x, v))
<1>1. /\ \A o \in x.removed \cup x.added : o.name \notin z.locks
      /\ x.at # x.from /\ x.from \in Nat /\ x.target \in Nat
  BY PlanFacts DEF Command
<1>2. \A o : o.name \in z.locks => (o \in d.objects <=> o \in e.objects)
  BY <1>1
<1>3. RowOf(x.from) \cup RowOf(x.target) \subseteq Keys(x)
  BY <1>1, KeysFacts
<1>4. ASSUME NEW k \in Keys(z) PROVE k \in e.rows <=> k \in d.rows
  BY <1>3, <1>4 DEF Replaces
<1>5. Keys(z) \cap e.rows \subseteq RowOf(z.from)
  BY <1>4 DEF Anchored
<1>6. ASSUME z.at # z.from
      PROVE  /\ RowOf(z.from) \subseteq e.rows
             /\ Reached(x, v) = z.from \/ Stray(z, Reached(x, v))
  <2>1. RowOf(z.from) \subseteq e.rows
    BY <1>4, <1>6, KeysFacts DEF Anchored
  <2>2. CASE v = z.from
    <3>1. v # x.from
      <4> SUFFICES ASSUME v = x.from PROVE FALSE
        OBVIOUS
      <4>1. CASE v = 0
        <5>1. x.from <= 1 /\ z.from <= 1
          BY <2>2, <4>1
        <5>2. 1 \in Keys(x) /\ 1 \in Keys(z)
          BY <1>1, <1>6, <5>1, KeysFacts
        <5>3. QED
          BY <5>2
      <4>2. CASE v # 0
        <5>1. v \in RowOf(x.from) /\ v \in RowOf(z.from)
          BY <2>2, <4>2, ChainFacts DEF RowOf
        <5>2. QED
          BY <1>3, <1>6, <5>1, KeysFacts
      <4>3. QED
        BY <4>1, <4>2
    <3>2. QED
      BY <2>1, <2>2, <3>1 DEF Reached
  <2>3. CASE Stray(z, v)
    <3>1. 1 \in Keys(z) /\ v >= 2
      BY <1>6, <2>3, KeysFacts, ChainFacts DEF Stray
    <3>2. v = x.from => x.target >= 2
      <4>1. 1 \notin Keys(x)
        BY <3>1
      <4>2. QED
        BY <1>1, <4>1, KeysFacts
    <3>3. Reached(x, v) >= 2
      BY <3>1, <3>2 DEF Reached
    <3>4. QED
      BY <2>1, <2>3, <3>3 DEF Stray
  <2>4. QED
    BY <1>6, <2>2, <2>3 DEF Anchored
<1>7. ASSUME z.at = z.from, Made(z) > 0
      PROVE  /\ z.target < z.from => \E o \in Whole(z.from) \cap e.objects : o.name \in z.locks
             /\ z.from < z.target => \E o \in Whole(z.from + 1) \ e.objects : o.name \in z.locks
  BY <1>2, <1>7 DEF Anchored
<1>8. QED
  BY <1>5, <1>6, <1>7 DEF Anchored

LEMMA CommitInv ==
  ASSUME AlembicInv, NEW p \in Procs, Commit(p)
  PROVE  AlembicInv' /\ Running(p) /\ Replaces(run[p], db.rows, db'.rows)
<1> DEFINE x == run[p]
<1>1. /\ Command(x) /\ IsRun(x) /\ x.alone \in BOOLEAN /\ x.state = "running"
      /\ \A q \in Procs \ {p} : x.locks \cap run[q].locks = {} /\ Keys(x) \cap Keys(run[q]) = {}
      /\ Running(p) /\ Catalog(p) = Seen(x, db) /\ SeenRows(p) = RowsSeen(x, db)
      /\ x.at = x.target
  BY RunningFacts DEF Commit
<1>2. /\ db' = [rows |-> RowsSeen(x, db), objects |-> Seen(x, db)]
      /\ run' = [run EXCEPT ![p] = Ended("idle", TRUE)]
  BY <1>1 DEF Commit
<1>3. PICK v \in Versions : /\ AtVersion(db, v) /\ Anchored(x, db, v)
                            /\ \A q \in Procs : Proper(run[q], db, v)
  BY <1>1, RunningFacts
<1> DEFINE w == Reached(x, v)
<1>4. /\ AtVersion(db', w) /\ w \in Versions
      /\ Replaces(x, db.rows, db'.rows) /\ db'.objects = (db.objects \ x.removed) \cup x.added
  BY <1>1, <1>2, <1>3, Committed
<1>5. /\ DOMAIN run' = Procs /\ run' = [q \in Procs |-> run'[q]]
      /\ run'[p] = Ended("idle", TRUE) /\ \A q \in Procs \ {p} : run'[q] = run[q]
  BY <1>2 DEF AlembicInv
<1> HIDE DEF w
<1>6. ASSUME NEW q \in Procs \ {p} PROVE Proper(run'[q], db', w)
  <2> DEFINE z == run[q]
  <2>1. Proper(z, db, v) /\ Separate(z, x) /\ run'[q] = z
    BY <1>3, <1>5 DEF AlembicInv
  <2> HIDE DEF z
  <2>2. ASSUME z.state = "running" PROVE Anchored(z, db', w)
    <3>1. Command(z) /\ Anchored(z, db, v) /\ ~ z.alone
      BY <1>1, <2>1, <2>2 DEF Proper, Separate
    <3>2. z.locks \cap x.locks = {} /\ Keys(z) \cap Keys(x) = {}
      BY <2>1 DEF Separate
    <3>3. QED
      BY <1>1, <1>3, <1>4, <3>1, <3>2, OthersAnchored DEF w
  <2>3. ~ (z.state = "failed" /\ z.alone)
    BY <1>1, <2>1 DEF Separate
  <2>4. QED
    BY <2>1, <2>2, <2>3 DEF Proper
<1>7. /\ Proper(run'[p], db', w) /\ Ended("idle", TRUE).locks = {} /\ Keys(Ended("idle", TRUE)) = {}
      /\ Ended("idle", TRUE).state = "idle"
  BY <1>5, EndedSound
<1>8. ASSUME NEW q \in Procs, NEW r \in Procs, q # r PROVE Separate(run'[q], run'[r])
  <2>1. Separate(run[q], run[r])
    BY <1>8 DEF AlembicInv
  <2>2. CASE q = p \/ r = p
    BY <1>5, <1>7, <2>2 DEF Separate
  <2>3. CASE q # p /\ r # p
    BY <1>5, <2>1, <2>3
  <2>4. QED
    BY <2>2, <2>3
<1>9. \A q \in Procs : Proper(run'[q], db', w)
  BY <1>6, <1>7
<1>10. QED
  BY <1>1, <1>4, <1>5, <1>8, <1>9 DEF AlembicInv

-----------------------------------------------------------------------------
LEMMA InitAlembic ==
  ASSUME AlembicInit
  PROVE  AlembicInv
<1>1. 0 \in Versions /\ RowOf(0) = {} /\ SchemaAt(0) = {}
  <2>1. 0 \in Versions /\ 1..0 = {}
    BY ChainFacts
  <2>2. QED
    BY <2>1, RowFacts DEF SchemaAt
<1>2. AtVersion(db, 0)
  BY <1>1 DEF AlembicInit, AtVersion
<1>3. \A p \in Procs : run[p] = Ended("idle", TRUE)
  BY IdleEnded DEF AlembicInit
<1>4. /\ Proper(Ended("idle", TRUE), db, 0) /\ Ended("idle", TRUE).locks = {}
      /\ Keys(Ended("idle", TRUE)) = {} /\ Ended("idle", TRUE).state = "idle"
  BY EndedSound
<1>5. DOMAIN run = Procs /\ run = [p \in Procs |-> run[p]]
  BY DEF AlembicInit
<1>6. \A p, q \in Procs : Proper(run[p], db, 0) /\ Separate(run[p], run[q])
  BY <1>3, <1>4 DEF Separate
<1>7. QED
  BY <1>1, <1>2, <1>5, <1>6 DEF AlembicInv

LEMMA StepAlembic ==
  ASSUME AlembicInv, [AlembicNext]_alembicVars
  PROVE  AlembicInv'
<1>1. CASE AlembicNext
  BY <1>1, StartInv, OverlapInv, DdlInv, StampInv, CommitInv, DeadlockVictimInv, DieInv DEF AlembicNext
<1>2. CASE UNCHANGED alembicVars
  <2>1. db' = db /\ run' = run
    BY <1>2 DEF alembicVars
  <2>2. QED
    BY <2>1 DEF AlembicInv
<1>3. QED
  BY <1>1, <1>2

(* Whatever commands run, overlap, fail and die: a transaction has done    *)
(* exactly the statements it has passed, on the version it started from,   *)
(* what it has locked no other touches, and the rows it has written no     *)
(* other writes.                                                           *)
THEOREM AlembicInvHolds == AlembicSpec => []AlembicInv
<1>1. AlembicInit => AlembicInv
  BY InitAlembic
<1>2. AlembicInv /\ [AlembicNext]_alembicVars => AlembicInv'
  BY StepAlembic
<1>3. QED
  BY <1>1, <1>2, PTL DEF AlembicSpec

LEMMA AlembicTyped ==
  ASSUME AlembicInv
  PROVE  AlembicTypeOK
<1>1. PICK v \in Versions : AtVersion(db, v) /\ \A p \in Procs : Proper(run[p], db, v)
  BY DEF AlembicInv
<1>2. /\ db.rows \in SUBSET (Versions \ {Base}) /\ 1 \in Revisions
      /\ Everything = UNION {Objects(t, Models[t]) : t \in DOMAIN Models}
  <2>1. RowOf(v) \in SUBSET (Versions \ {Base}) /\ 1 \in Versions \ {Base}
    BY RowFacts, ChainFacts
  <2>2. db.rows \in SUBSET (Versions \ {Base})
    <3>1. db.rows = RowOf(v) \/ db.rows = {1, v}
      BY <1>1, AtFacts
    <3>2. v >= 2 => v \in Versions \ {Base}
      BY ChainFacts
    <3>3. QED
      BY <1>1, <2>1, <3>1, <3>2, AtFacts
  <2>3. QED
    BY <2>2, ChainFacts, ChainAssumption DEF Mirrored, Everything
<1>3. SchemaAt(v) \in SUBSET Everything
  BY <1>2, Born
<1>4. db \in [rows : SUBSET (Versions \ {Base}),
              objects : SUBSET UNION {Objects(t, Models[t]) : t \in DOMAIN Models}]
  BY <1>1, <1>2, <1>3 DEF AtVersion
<1>5. ASSUME NEW p \in Procs
      PROVE  /\ DOMAIN run[p] = DOMAIN Idle
             /\ run[p].state \in {"idle", "running", "failed"}
             /\ {run[p].from, run[p].at, run[p].target} \subseteq Versions
             /\ run[p].alone \in BOOLEAN
             /\ ~ Running(p) => run[p] = Ended(run[p].state, run[p].alone)
  <2>1. Proper(run[p], db, v) /\ IsRun(run[p])
    BY <1>1 DEF Proper
  <2>2. {run[p].from, run[p].at, run[p].target} \subseteq Versions
    <3>1. CASE Running(p)
      BY <2>1, <3>1 DEF Proper, Command, Running
    <3>2. CASE ~ Running(p)
      <4>1. run[p].from = Base /\ run[p].at = Base /\ run[p].target = Base
        BY <2>1, <3>2, IdleFacts DEF IsRun, Running
      <4>2. QED
        BY <4>1, ChainFacts
    <3>3. QED
      BY <3>1, <3>2
  <2>3. QED
    BY <2>1, <2>2, IdleEnded DEF IsRun, Running
<1>6. QED
  BY <1>4, <1>5 DEF AlembicTypeOK, AlembicInv

(* The schema belongs to the newest recorded version, after any history of *)
(* commands by any number of processes, and beside it at most the empty    *)
(* first revision is recorded.                                             *)
THEOREM SchemaBelongsToVersion == AlembicSpec => []SchemaIsVersion
<1>1. AlembicInv => SchemaIsVersion
  <2> SUFFICES ASSUME AlembicInv PROVE SchemaIsVersion
    OBVIOUS
  <2>1. PICK v \in Versions : AtVersion(db, v)
    BY DEF AlembicInv
  <2>2. Version = v /\ db.objects = SchemaAt(v) /\ db.rows \subseteq {1, v}
    BY <2>1, VersionFacts, AtFacts
  <2>3. QED
    BY <2>2, AlembicTyped DEF SchemaIsVersion
<1>2. QED
  BY <1>1, AlembicInvHolds, PTL

(* At the head version the schema is the one the models declare.           *)
THEOREM HeadIsModels == AlembicSpec => []HeadMatchesModels
<1>1. AlembicInv => HeadMatchesModels
  <2> SUFFICES ASSUME AlembicInv, Version = Head_
               PROVE  db.objects = UNION {Objects(t, Models[t]) : t \in DOMAIN Models}
    BY DEF HeadMatchesModels
  <2>1. db.objects = SchemaAt(Head_)
    BY VersionFacts, AtFacts DEF AlembicInv
  <2>2. QED
    BY <2>1, ChainFacts, ChainAssumption DEF Mirrored, Everything
<1>2. QED
  BY <1>1, AlembicInvHolds, PTL

(* A command fails only if another has run beside it, or if two rows are   *)
(* recorded.                                                               *)
THEOREM AloneSucceeds == AlembicSpec => []FailsOnlyBesideAnother
<1>1. AlembicInv => FailsOnlyBesideAnother
  BY OneVersion DEF AlembicInv, Proper, FailsOnlyBesideAnother
<1>2. QED
  BY <1>1, AlembicInvHolds, PTL

(* A commit takes out the row of the version its command has read, which   *)
(* is still there, and puts in that of its target; but for the empty first *)
(* revision it finds no other version.                                     *)
THEOREM VersionMovesByOneRun == AlembicSpec => VersionByOneRun
<1> DEFINE Moved ==
      \E p \in Procs :
        LET x == run[p]
        IN  /\ Running(p) /\ RowOf(x.from) \subseteq db.rows
            /\ db'.rows = (db.rows \ RowOf(x.from)) \cup RowOf(x.target)
            /\ \/ {x.from, x.target} = {Base, 1}
               \/ db.rows \subseteq RowOf(x.from) \cup ({1} \ RowOf(x.target))
<1>1. AlembicInv /\ [AlembicNext]_alembicVars => [db'.rows # db.rows => Moved]_alembicVars
  <2> SUFFICES ASSUME AlembicInv, AlembicNext, db'.rows # db.rows PROVE Moved
    OBVIOUS
  <2>1. PICK p \in Procs : Commit(p)
    BY DEF AlembicNext, Start, Overlap, Ddl, Stamp, DeadlockVictim, Die
  <2>2. Running(p) /\ Replaces(run[p], db.rows, db'.rows)
    BY <2>1, CommitInv
  <2>3. QED
    BY <2>2 DEF Replaces
<1>2. QED
  BY <1>1, AlembicInvHolds, PTL DEF AlembicSpec, VersionByOneRun
=============================================================================
