------------------------------ MODULE Catalogue ------------------------------
(***************************************************************************)
(* The rows everything else refers to: departments, courses, rooms,        *)
(* semesters, accounts with their profiles, class sessions, enrolments.    *)
(* Requests of several admins (and of users about themselves) run at the   *)
(* same time.  Each handler looks rows up, writes in one transaction whose *)
(* constraints PostgreSQL checks, and refreshes what it wrote to answer.   *)
(* The constraints are those of module Schema.                             *)
(*                                                                         *)
(* A row is [key, cols]: its table and id, and a function on the columns   *)
(* kept here: foreign keys, columns of unique keys, and the columns that   *)
(* two requests may change.  A new row takes the request's name as its id, *)
(* as uuid4 never repeats.                                                 *)
(***************************************************************************)
EXTENDS Schema, FiniteSets

CONSTANTS
  Requests,   \* the requests that may be sent
  Seed,       \* the rows there are before
  Values,     \* names, codes, e-mail addresses that a payload may give
  Dates       \* dates, as numbers

ASSUME DatesAssumption == Dates \subseteq Nat

VARIABLES
  rows,   \* the committed rows
  req     \* the state of each request

vars == <<rows, req>>

Row(table, id, cols) == [key |-> <<table, id>>, cols |-> cols]

TableOf(r) == r.key[1]
Id(r) == r.key[2]

Profiles == {"student", "teacher", "parent", "admin"}

(* The columns of a table that are always kept.                            *)
Kept(table) ==
  CASE table = "semester" -> {"start_date", "end_date"}
    [] table \in Profiles -> {"user_id"}
    [] OTHER -> {}

IsRow(r) ==
  /\ r = Row(TableOf(r), Id(r), r.cols)
  /\ TableOf(r) \in DOMAIN Models
  /\ Kept(TableOf(r)) \subseteq DOMAIN r.cols /\ DOMAIN r.cols \subseteq Models[TableOf(r)].req
  /\ TableOf(r) = "semester" => \A c \in Kept("semester") : r.cols[c] \in Dates

(* A request: what it looked up (seen), the rows it will insert, the rows  *)
(* it loaded to update or delete, the columns its payload gives and those  *)
(* the handler assigns, and the answer to an IntegrityError.               *)
Unsent == [state |-> "unsent", op |-> "none", seen |-> {}, inserts |-> {}, loaded |-> {},
           payload |-> << >>, set |-> << >>, onfail |-> "error", answer |-> "none"]

\* Mutant: the handler goes on after it has answered.
AnsweredOpen(r, a) == [r EXCEPT !.answer = a]

Answered(r, a) == [r EXCEPT !.state = "answered", !.answer = a]

With(keys) == {r \in rows : r.key \in keys}
Exist(keys) == \A k \in keys : \E r \in rows : r.key = k
IdsOf(table) == {Id(r) : r \in {s \in rows \cup Seed : TableOf(s) = table}}

-----------------------------------------------------------------------------
(* The constraints of the database.                                        *)

(* The columns in which r refers to a table, with the row referred to.     *)
References(r) ==
  LET refs == Models[TableOf(r)].refs
  IN  {<<refs[c], r.cols[c]>> : c \in DOMAIN refs \cap DOMAIN r.cols}

SharesKey(r, o) ==
  /\ r.key # o.key /\ TableOf(r) = TableOf(o)
  /\ \E u \in Models[TableOf(r)].unique :
       /\ u \subseteq DOMAIN r.cols \cap DOMAIN o.cols
       /\ \A c \in u : r.cols[c] = o.cols[c]

(* ck_semester_start_before_end                                            *)
Ordered(r) == TableOf(r) = "semester" => r.cols["start_date"] < r.cols["end_date"]

(* Row r is allowed beside the rows rs.                                    *)
Fits(r, rs) ==
  /\ \A o \in rs : ~ SharesKey(r, o)
  /\ \A k \in References(r) : \E o \in rs : o.key = k
  /\ Ordered(r)

(* ON DELETE RESTRICT                                                      *)
Referenced(k) == \E r \in rows : k \in References(r)

(* Every account among the rows rs has one profile, every profile its      *)
(* account.                                                                *)
Paired(rs) ==
  LET profiles == {r \in rs : TableOf(r) \in Profiles}
      users == {r \in rs : TableOf(r) = "user"}
  IN  /\ \A u \in users : Cardinality({p \in profiles : p.cols["user_id"] = Id(u)}) = 1
      /\ \A p \in profiles : \E u \in users : p.cols["user_id"] = Id(u)

SeedIds == {Id(s) : s \in Seed}

(* The rows there are before satisfy the constraints and are paired; their *)
(* ids are not given again.                                                *)
ASSUME SeedAssumption ==
  /\ IsFiniteSet(Seed) /\ SeedIds \cap Requests = {}
  /\ \A r \in Seed : IsRow(r) /\ Fits(r, Seed)
  /\ \A r, o \in Seed : r.key = o.key => r = o
  /\ Paired(Seed)

-----------------------------------------------------------------------------
TypeOK ==
  /\ \A r \in rows : IsRow(r) /\ Id(r) \in SeedIds \cup Requests
  /\ \A r, o \in rows : r.key = o.key => r = o
  /\ DOMAIN req = Requests
  /\ \A q \in Requests :
       /\ DOMAIN req[q] = DOMAIN Unsent
       /\ req[q].state \in {"unsent", "looked", "stored", "answered"}
       /\ req[q].answer \in {"none", "ok", "exists", "referenced", "not_found", "invalid", "error"}
       /\ (req[q].state = "answered") = (req[q].answer # "none")

Init ==
  /\ rows = Seed
  /\ req = [q \in Requests |-> Unsent]

-----------------------------------------------------------------------------
(* The three shapes of a handler.  The SELECTs of a request are one step:  *)
(* they only read, and one that finds nothing ends the request.            *)

(* Look up the rows a new one will refer to; 422 if one does not exist.    *)
Create(q, refs, inserts, onfail) ==
  /\ req[q].state = "unsent"
  /\ req' = [req EXCEPT ![q] =
       IF Exist(refs)
       THEN [@ EXCEPT !.state = "looked", !.op = "create", !.seen = With(refs),
                      !.inserts = inserts, !.onfail = onfail]
       ELSE Answered(@, "invalid")]
  /\ UNCHANGED rows

(* Load the rows to change; 404 if they do not exist, 422 if a new         *)
(* reference does not.                                                     *)
Update(q, targets, refs, payload, set, onfail) ==
  /\ req[q].state = "unsent"
  /\ req' = [req EXCEPT ![q] =
       IF ~ Exist(targets) THEN Answered(@, "not_found")
       ELSE IF ~ Exist(refs) THEN Answered(@, "invalid")
       ELSE [@ EXCEPT !.state = "looked", !.op = "update", !.seen = With(targets \cup refs),
                      !.loaded = With(targets), !.payload = payload, !.set = set,
                      !.onfail = onfail]]
  /\ UNCHANGED rows

Delete(q, table, id) ==
  /\ req[q].state = "unsent"
  /\ req' = [req EXCEPT ![q] =
       IF ~ Exist({<<table, id>>}) THEN Answered(@, "not_found")
       ELSE [@ EXCEPT !.state = "looked", !.op = "delete", !.seen = With({<<table, id>>}),
                      !.loaded = With({<<table, id>>}), !.onfail = "referenced"]]
  /\ UNCHANGED rows

(* A payload that contradicts what was loaded: 422.                        *)
Refuse(q) ==
  /\ req[q].state = "unsent"
  /\ req' = [req EXCEPT ![q] = Answered(@, "invalid")]
  /\ UNCHANGED rows

-----------------------------------------------------------------------------
(* Departments, courses, rooms, semesters.                                 *)

CreateDepartment(q) ==
  \E n, c \in Values :
    Create(q, {}, {Row("department", q, [name |-> n, code |-> c])}, "exists")

UpdateDepartment(q) ==
  \E d \in IdsOf("department"), column \in {"name", "code"}, v \in Values :
    LET payload == [c \in {column} |-> v]
    IN  Update(q, {<<"department", d>>}, {}, payload, payload, "exists")

DeleteDepartment(q) == \E d \in IdsOf("department") : Delete(q, "department", d)

\* Mutant: the department is not looked up.
CreateCourseUnlooked(q) ==
  \E d \in IdsOf("department"), c \in Values :
    Create(q, {}, {Row("course", q, [department_id |-> d, code |-> c])}, "exists")

CreateCourse(q) ==
  \E d \in IdsOf("department"), c \in Values :
    Create(q, {<<"department", d>>}, {Row("course", q, [department_id |-> d, code |-> c])}, "exists")

UpdateCourse(q) ==
  \E x \in IdsOf("course") :
    \/ \E d \in IdsOf("department") :
         Update(q, {<<"course", x>>}, {<<"department", d>>}, [department_id |-> d],
                [department_id |-> d], "exists")
    \/ \E c \in Values : Update(q, {<<"course", x>>}, {}, [code |-> c], [code |-> c], "exists")

DeleteCourse(q) == \E x \in IdsOf("course") : Delete(q, "course", x)

CreateRoom(q) == \E n \in Values : Create(q, {}, {Row("room", q, [name |-> n])}, "exists")

UpdateRoom(q) ==
  \E x \in IdsOf("room"), n \in Values :
    Update(q, {<<"room", x>>}, {}, [name |-> n], [name |-> n], "exists")

DeleteRoom(q) == \E x \in IdsOf("room") : Delete(q, "room", x)

(* A payload whose dates are out of order is refused before the handler.   *)
CreateSemester(q) ==
  \E n \in Values, s, e \in Dates :
    /\ s < e
    /\ Create(q, {}, {Row("semester", q, [name |-> n, start_date |-> s, end_date |-> e])}, "exists")

(* The handler checks the dates the row will have, with the one loaded for *)
(* a date the payload does not give, and assigns both whatever was given.  *)
SemesterPayloads == [{"name"} -> Values] \cup [{"start_date"} -> Dates] \cup [{"end_date"} -> Dates]

UpdateSemester(q) ==
  \E x \in IdsOf("semester"), payload \in SemesterPayloads :
    LET key == <<"semester", x>>
        new(c) == IF c \in DOMAIN payload THEN payload[c]
                  ELSE (CHOOSE r \in rows : r.key = key).cols[c]
        set == [c \in DOMAIN payload \cup {"start_date", "end_date"} |-> new(c)]
    IN  IF Exist({key}) /\ new("start_date") >= new("end_date")
        THEN Refuse(q)
        ELSE Update(q, {key}, {}, payload, set, "exists")

DeleteSemester(q) == \E x \in IdsOf("semester") : Delete(q, "semester", x)

-----------------------------------------------------------------------------
(* Accounts.  An account and its profile are inserted in one transaction;  *)
(* neither is ever deleted.                                                *)

Account(q, email) == Row("user", q, [email |-> email, is_active |-> TRUE])

CreateStudent(q) ==
  \E d \in IdsOf("department"), e \in Values :
    Create(q, {<<"department", d>>},
           {Account(q, e), Row("student", q, [user_id |-> q, department_id |-> d, first_name |-> e])},
           "exists")

CreateTeacher(q) ==
  \E d \in IdsOf("department"), e \in Values :
    Create(q, {<<"department", d>>},
           {Account(q, e), Row("teacher", q, [user_id |-> q, department_id |-> d, first_name |-> e])},
           "exists")

\* Mutant: a profile that is saved is active again.
UpdateProfileReactivates(q, table) ==
  \E x \in IdsOf(table), n \in Values :
    Update(q, {<<table, x>>, <<"user", x>>}, {}, [first_name |-> n],
           [first_name |-> n, is_active |-> TRUE], "error")

(* The payload of an update gives the department, the name or whether the  *)
(* account is active.  An IntegrityError is not caught.                    *)
UpdateProfile(q, table) ==
  \E x \in IdsOf(table) :
    LET keys == {<<table, x>>, <<"user", x>>}
    IN  \/ \E d \in IdsOf("department") :
             Update(q, keys, {<<"department", d>>}, [department_id |-> d], [department_id |-> d], "error")
        \/ \E payload \in [{"first_name"} -> Values] \cup [{"is_active"} -> BOOLEAN] :
             Update(q, keys, {}, payload, payload, "error")

UpdateStudent(q) == UpdateProfile(q, "student")
UpdateTeacher(q) == UpdateProfile(q, "teacher")

DeactivateStudent(q) ==
  \E x \in IdsOf("student") :
    Update(q, {<<"student", x>>, <<"user", x>>}, {}, [is_active |-> FALSE], [is_active |-> FALSE],
           "error")

(* A user changes the name of the own profile.                             *)
UpdateMe(q) ==
  \E table \in Profiles, n \in Values : \E x \in IdsOf(table) :
    Update(q, {<<table, x>>}, {}, [first_name |-> n], [first_name |-> n], "error")

-----------------------------------------------------------------------------
(* Class sessions (nothing catches an IntegrityError) and enrolments.  The *)
(* rows of other modules that refer to rows here are part of Seed.         *)

CreateClassSession(q) ==
  \E x \in IdsOf("course"), t \in IdsOf("teacher"), s \in IdsOf("semester") :
    Create(q, {<<"course", x>>, <<"teacher", t>>, <<"user", t>>, <<"semester", s>>},
           {Row("class_session", q, [course_id |-> x, teacher_id |-> t, semester_id |-> s])}, "error")

CreateEnrollment(q) ==
  \E x \in IdsOf("student"), k \in IdsOf("class_session") :
    Create(q, {<<"student", x>>, <<"user", x>>, <<"class_session", k>>},
           {Row("enrollment", q, [student_id |-> x, class_session_id |-> k])}, "exists")

-----------------------------------------------------------------------------
(* The transaction.                                                        *)

(* An INSERT of one transaction may refer to a row of the same one.        *)
AllFit(rs) == \A r \in rs : Fits(r, rows \cup rs)

\* Mutant: a transaction for each row.
InsertedEach(rs) == rows \cup {r \in rs : Fits(r, rows \cup rs)}

Inserted(rs) == IF AllFit(rs) THEN rows \cup rs ELSE rows

WriteCreate(q) ==
  LET rs == req[q].inserts
  IN  /\ req[q].state = "looked" /\ req[q].op = "create"
      /\ rows' = Inserted(rs)
      /\ req' = [req EXCEPT ![q] = IF AllFit(rs) THEN [@ EXCEPT !.state = "stored"]
                                   ELSE Answered(@, @.onfail)]

(* An UPDATE names the columns whose assigned value differs from the one   *)
(* loaded, of the rows that have such a column.                            *)
Dirty(q, r) == {c \in DOMAIN req[q].set \cap DOMAIN r.cols : req[q].set[c] # r.cols[c]}

Modified(q) == {r \in req[q].loaded : Dirty(q, r) # {}}

Changed(q, r) ==
  LET o == CHOOSE l \in req[q].loaded : l.key = r.key
  IN  [r EXCEPT !.cols = [c \in DOMAIN @ |-> IF c \in Dirty(q, o) THEN req[q].set[c] ELSE @[c]]]

(* An UPDATE that matches no row raises StaleDataError, which is not an    *)
(* IntegrityError.                                                         *)
WriteUpdate(q) ==
  LET keys == {r.key : r \in Modified(q)}
      after == {IF r.key \in keys THEN Changed(q, r) ELSE r : r \in rows}
  IN  /\ req[q].state = "looked" /\ req[q].op = "update"
      /\ IF ~ Exist(keys)
         THEN rows' = rows /\ req' = [req EXCEPT ![q] = Answered(@, "error")]
         ELSE IF \A r \in after : r.key \in keys => Fits(r, after)
         THEN rows' = after /\ req' = [req EXCEPT ![q].state = "stored"]
         ELSE rows' = rows /\ req' = [req EXCEPT ![q] = Answered(@, @.onfail)]

(* A DELETE that matches no row is only warned about.                      *)
WriteDelete(q) ==
  LET keys == {r.key : r \in req[q].loaded}
  IN  /\ req[q].state = "looked" /\ req[q].op = "delete"
      /\ IF \E k \in keys : Referenced(k)
         THEN rows' = rows /\ req' = [req EXCEPT ![q] = Answered(@, @.onfail)]
         ELSE rows' = rows \ With(keys) /\ req' = [req EXCEPT ![q] = Answered(@, "ok")]

(* session.refresh after the commit, and the answer: an error if the row   *)
(* has been deleted since.                                                 *)
Refresh(q) ==
  /\ req[q].state = "stored"
  /\ LET keys == {r.key : r \in req[q].inserts \cup req[q].loaded}
     IN  req' = [req EXCEPT ![q] = Answered(@, IF Exist(keys) THEN "ok" ELSE "error")]
  /\ UNCHANGED rows

-----------------------------------------------------------------------------
ReferenceDataRoutes(q) ==
  \/ CreateDepartment(q) \/ UpdateDepartment(q) \/ DeleteDepartment(q)
  \/ CreateCourse(q)     \/ UpdateCourse(q)     \/ DeleteCourse(q)
  \/ CreateRoom(q)       \/ UpdateRoom(q)       \/ DeleteRoom(q)
  \/ CreateSemester(q)   \/ UpdateSemester(q)   \/ DeleteSemester(q)

UserRoutes(q) ==
  \/ CreateStudent(q) \/ UpdateStudent(q) \/ DeactivateStudent(q)
  \/ CreateTeacher(q) \/ UpdateTeacher(q)
  \/ UpdateMe(q)

ScheduleRoutes(q) == CreateClassSession(q) \/ CreateEnrollment(q)

Next ==
  \E q \in Requests :
    \/ ReferenceDataRoutes(q)
    \/ UserRoutes(q)
    \/ ScheduleRoutes(q)
    \/ WriteCreate(q)
    \/ WriteUpdate(q)
    \/ WriteDelete(q)
    \/ Refresh(q)

Spec == Init /\ [][Next]_vars

-----------------------------------------------------------------------------
(* create_student and create_teacher are one transaction, "so a failure    *)
(* anywhere leaves neither row behind": every account made here has one    *)
(* profile and every profile its account, which get_me and the handlers of *)
(* every role dereference without a check.                                 *)
AccountHasProfile == Paired(rows)

(* Two updates of one row may overlap, and each has loaded what the other  *)
(* changes.  A column changes only to what the payload of the request      *)
(* being written gives for it: no request writes back a value it merely    *)
(* loaded, not even update_semester, which assigns both dates whichever    *)
(* was sent.                                                               *)
NoStaleWrite ==
  [][\A r \in rows, o \in rows' : r.key = o.key =>
       \A c \in DOMAIN r.cols : o.cols[c] # r.cols[c] =>
         \E q \in Requests : /\ req[q].state = "looked" /\ req'[q].state = "stored"
                             /\ c \in DOMAIN req[q].payload /\ o.cols[c] = req[q].payload[c]]_vars

(* What a request looked up is no longer so.                               *)
Stale(q) == ~ (req[q].seen \subseteq rows)

Duplicate(q) ==
  LET written == req[q].inserts \cup {Changed(q, r) : r \in {o \in rows : o.key \in {l.key : l \in req[q].loaded}}}
  IN  \E r \in written, o \in rows : SharesKey(r, o)

(* "already exists" is answered to every IntegrityError, and an error to   *)
(* one that nothing catches.  The first is true, and the second is not     *)
(* given at all, unless a row that the request looked up was changed or    *)
(* deleted between the lookup and the write.                               *)
RefusedForCause ==
  [][\A q \in Requests : req[q].state = "looked" /\ ~ Stale(q) =>
       /\ req'[q].answer = "exists" => Duplicate(q)
       /\ req'[q].answer # "error"]_vars
=============================================================================
