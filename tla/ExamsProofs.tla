----------------------------- MODULE ExamsProofs -----------------------------
(***************************************************************************)
(* Proofs about Exams, for any number of workers, exams, students and      *)
(* questions.                                                              *)
(***************************************************************************)
EXTENDS Exams, FiniteSetTheorems, TLAPS

(***************************************************************************)
(* What a worker holds, in every state of its handling: the rows it has    *)
(* found are still there, but for the answers it grades.                   *)
(***************************************************************************)
Holds(w) ==
  /\ req[w].op = "update" /\ req[w].pc \in {"select", "save"}
       => req[w].exam \in Exams /\ status[req[w].exam] # "none" /\ req[w].target \in ExamStatus
  /\ req[w].op = "delete" /\ req[w].pc = "save" => req[w].exam \in Exams
  /\ req[w].op = "start" /\ req[w].pc \in {"find", "save"}
       => About(w) \in Attempts /\ status[req[w].exam] # "none"
  /\ req[w].op = "submit" /\ req[w].pc \in {"find", "validate", "save"}
       => About(w) \in Attempts
  /\ req[w].op = "submit" /\ req[w].pc \in {"validate", "save"}
       => attempt[About(w)] # "none"
  /\ req[w].op = "grade" /\ req[w].pc \in {"count", "save"}
       => About(w) \in Attempts /\ Gradable(About(w))
  /\ req[w].op = "grade" /\ req[w].pc = "save" => req[w].old \subseteq grades[About(w)]

AllHold == \A w \in Workers : Holds(w)

\* An exam that does not exist yet has no questions.
Unborn == \A e \in Exams : status[e] = "none" => questions[e] = {}

(***************************************************************************)
(* The inductive invariant of Spec.                                        *)
(***************************************************************************)
ExamsInv == TypeOK /\ RecordsResolve /\ Unborn /\ AllHold

\* The database: the variables but for the requests, and what they leave out.
Stored ==
  /\ status \in [Exams -> ExamStatus \cup {"none", "deleted"}]
  /\ questions \in [Exams -> SUBSET Questions]
  /\ issued \subseteq Questions
  /\ attempt \in [Attempts -> AttemptStatus]
  /\ answers \in [Attempts -> SUBSET Questions]
  /\ option \in [Attempts -> [Questions -> Questions]]
  /\ grades \in [Attempts -> SUBSET Questions]
  /\ lost \subseteq Attempts
  /\ Unborn

\* What no step does to the database: forget that an exam existed, take back
\* an attempt or its submission, remove a grade, or remove an answer that has
\* one or that selects an option of the question it answers.
Steady ==
  /\ \A e \in Exams : status[e] # "none" => status'[e] # "none"
  /\ \A a \in Attempts :
       /\ attempt[a] # "none" => attempt'[a] # "none"
       /\ attempt[a] \in {"submitted", "graded"} => attempt'[a] \in {"submitted", "graded"}
       /\ grades[a] \subseteq grades'[a]
       /\ \A q \in answers[a] \ answers'[a] : q \notin grades[a] /\ option[a][q] # q

LEMMA SteadyUnchanged == ASSUME UNCHANGED <<exam, record>> PROVE Steady
BY DEF exam, record, Steady

-----------------------------------------------------------------------------
(***************************************************************************)
(* Requests.                                                               *)
(***************************************************************************)
Ops == {"none", "update", "delete", "start", "submit", "grade"}
Pcs == {"idle", "find", "validate", "select", "count", "save", "failed"}

LEMMA AskType ==
  ASSUME NEW op \in Ops, NEW pc \in Pcs,
         NEW e \in Exams \cup {"none"}, NEW s \in Students \cup {"none"}
  PROVE  /\ Ask(op, pc, e, s) \in Request
         /\ Ask(op, pc, e, s).op = op /\ Ask(op, pc, e, s).pc = pc
         /\ Ask(op, pc, e, s).exam = e /\ Ask(op, pc, e, s).student = s
<1>1. "none" \in ExamStatus \cup AttemptStatus /\ "none" \in ExamStatus \cup {"none"}
  BY DEF AttemptStatus
<1>2. Own \in [Questions -> Questions]
  BY DEF Own
<1>3. QED
  BY <1>1, <1>2 DEF Ask, Request, Ops, Pcs

LEMMA NoRequestType == NoRequest \in Request /\ NoRequest.op = "none" /\ NoRequest.pc = "idle"
<1>1. "none" \in Ops /\ "idle" \in Pcs
  BY DEF Ops, Pcs
<1>2. QED
  BY <1>1, AskType DEF NoRequest

\* A step of w leaves the requests of the other workers as they were.
LEMMA OthersKeep ==
  ASSUME TypeOK, NEW w \in Workers, NEW r \in Request, Start(w, r)
  PROVE  /\ req' \in [Workers -> Request]
         /\ req'[w] = r
         /\ \A v \in Workers : v # w => req'[v] = req[v]
BY DEF TypeOK, Start

\* A worker whose request is not touched goes on holding what it held.
LEMMA HoldsStays ==
  ASSUME Steady, NEW v \in Workers, Holds(v), req'[v] = req[v]
  PROVE  Holds(v)'
<1>1. About(v)' = About(v)
  BY DEF About
<1>2. /\ req[v].op = "update" /\ req[v].pc \in {"select", "save"}
           => /\ req[v].exam \in Exams /\ status'[req[v].exam] # "none"
              /\ req[v].target \in ExamStatus
      /\ req[v].op = "delete" /\ req[v].pc = "save" => req[v].exam \in Exams
  BY DEF Holds, Steady
<1>3. req[v].op = "start" /\ req[v].pc \in {"find", "save"}
        => About(v) \in Attempts /\ status'[req[v].exam] # "none"
  BY DEF Holds, Steady, About, Attempts
<1>4. req[v].op = "submit" /\ req[v].pc \in {"find", "validate", "save"}
        => About(v) \in Attempts
  BY DEF Holds
<1>5. req[v].op = "submit" /\ req[v].pc \in {"validate", "save"}
        => attempt'[About(v)] # "none"
  BY <1>4 DEF Holds, Steady
<1>6. req[v].op = "grade" /\ req[v].pc \in {"count", "save"}
        => About(v) \in Attempts /\ attempt'[About(v)] \in {"submitted", "graded"}
  BY DEF Holds, Steady, Gradable
<1>7. req[v].op = "grade" /\ req[v].pc = "save" => req[v].old \subseteq grades'[About(v)]
  BY <1>6 DEF Holds, Steady
<1>8. QED
  BY <1>1, <1>2, <1>3, <1>4, <1>5, <1>6, <1>7 DEF Holds, Gradable

LEMMA HoldsFrame ==
  ASSUME ExamsInv, NEW w \in Workers, NEW r \in Request, Start(w, r), Steady, Holds(w)'
  PROVE  AllHold' /\ req' \in [Workers -> Request]
<1>1. ASSUME NEW v \in Workers, v # w PROVE Holds(v)'
  <2>1. req'[v] = req[v] /\ Holds(v)
    BY <1>1, OthersKeep DEF ExamsInv, AllHold
  <2>2. QED
    BY <2>1, HoldsStays
<1>2. QED
  BY <1>1, OthersKeep DEF AllHold, ExamsInv

\* What a commit has to show.
LEMMA CommitKeeps ==
  ASSUME ExamsInv, NEW w \in Workers, NEW r \in Request, Start(w, r), Steady, Holds(w)',
         Stored', RecordsResolve'
  PROVE  ExamsInv'
<1>1. AllHold' /\ req' \in [Workers -> Request]
  BY HoldsFrame
<1>2. QED
  BY <1>1 DEF ExamsInv, TypeOK, Stored

\* A step that only changes the request has less to show.
LEMMA StartKeeps ==
  ASSUME ExamsInv, NEW w \in Workers, NEW r \in Request, Start(w, r),
         UNCHANGED <<exam, record>>, Holds(w)'
  PROVE  ExamsInv'
<1>1. Steady
  BY SteadyUnchanged
<1>2. Stored' /\ RecordsResolve'
  BY DEF exam, record, ExamsInv, TypeOK, Stored, RecordsResolve, Unborn
<1>3. QED
  BY <1>1, <1>2, CommitKeeps

\* An idle worker holds nothing.
LEMMA IdleHolds ==
  ASSUME NEW w \in Workers, req'[w].pc \in {"idle", "failed"}
  PROVE  Holds(w)'
BY DEF Holds

LEMMA FinishStarts ==
  ASSUME ExamsInv, NEW w \in Workers, Finish(w)
  PROVE  Start(w, NoRequest) /\ req'[w] = NoRequest /\ Holds(w)'
<1>1. Start(w, NoRequest) /\ req'[w] = NoRequest
  BY DEF Finish, Start, ExamsInv, TypeOK
<1>2. QED
  BY <1>1, NoRequestType, IdleHolds

LEMMA FinishKeeps ==
  ASSUME ExamsInv, NEW w \in Workers, Finish(w), UNCHANGED <<exam, record>>
  PROVE  ExamsInv'
BY FinishStarts, NoRequestType, StartKeeps

\* The request left behind by a transaction that was refused.
Failed(w) == Ask(req[w].op, "failed", req[w].exam, req[w].student)

LEMMA FailStarts ==
  ASSUME ExamsInv, NEW w \in Workers, Fail(w)
  PROVE  /\ Start(w, Failed(w)) /\ UNCHANGED <<exam, record>> /\ Failed(w) \in Request
         /\ req'[w] = Failed(w)
         /\ Failed(w).op = req[w].op /\ Failed(w).pc = "failed" /\ Failed(w).exam = req[w].exam
         /\ Holds(w)'
<1>1. /\ req[w].op \in Ops /\ "failed" \in Pcs
      /\ req[w].exam \in Exams \cup {"none"} /\ req[w].student \in Students \cup {"none"}
  BY DEF ExamsInv, TypeOK, Request, Ops, Pcs
<1>2. Failed(w) \in Request
  BY <1>1, AskType DEF Failed
<1>3. Failed(w).op = req[w].op /\ Failed(w).pc = "failed" /\ Failed(w).exam = req[w].exam
  BY <1>1, AskType DEF Failed
<1>4. Start(w, Failed(w)) /\ UNCHANGED <<exam, record>>
  BY DEF Fail, Start, Failed
<1>5. req'[w] = Failed(w)
  BY <1>2, <1>4, OthersKeep DEF ExamsInv
<1>6. QED
  BY <1>2, <1>3, <1>4, <1>5, IdleHolds

LEMMA FailKeeps ==
  ASSUME ExamsInv, NEW w \in Workers, Fail(w)
  PROVE  ExamsInv'
BY FailStarts, StartKeeps

-----------------------------------------------------------------------------
(***************************************************************************)
(* Every action of Manage keeps the invariant.                             *)
(***************************************************************************)
LEMMA CreateKeeps ==
  ASSUME ExamsInv, NEW e \in Exams, NEW Q \in SUBSET FreshQuestions, CreateExam(e, Q)
  PROVE  ExamsInv' /\ Steady
<1>1. Q \in SUBSET Questions
  BY DEF FreshQuestions
<1>2. /\ \A d \in Exams : status'[d] = IF d = e THEN "draft" ELSE status[d]
      /\ \A d \in Exams : questions'[d] = IF d = e THEN Q ELSE questions[d]
      /\ UNCHANGED <<record, req>>
  BY DEF CreateExam, ExamsInv, TypeOK
<1>3. Steady
  BY <1>2 DEF Steady, record
<1>4. AllHold'
  BY <1>2, <1>3, HoldsStays DEF ExamsInv, AllHold
<1>5. TypeOK'
  BY <1>1, <1>2 DEF CreateExam, ExamsInv, TypeOK, record, ExamStatus
<1>6. /\ \A s \in Students : attempt[<<e, s>>] = "none" /\ answers[<<e, s>>] = {}
      /\ questions[e] = {}
  BY DEF CreateExam, ExamsInv, RecordsResolve, ExamStatus, Unborn
<1>7. ASSUME NEW d \in Exams, NEW s \in Students
      PROVE  LET a == <<d, s>>
             IN  /\ answers'[a] \subseteq questions'[d]
                 /\ grades'[a] \subseteq answers'[a]
                 /\ attempt'[a] \in {"none", "in_progress"} => answers'[a] = {}
                 /\ attempt'[a] # "none" => status'[d] \in ExamStatus
  <2>1. UNCHANGED <<attempt, answers, grades>>
    BY <1>2 DEF record
  <2>2. CASE d = e
    BY <1>2, <1>6, <2>1, <2>2 DEF ExamsInv, RecordsResolve
  <2>3. CASE d # e
    BY <1>2, <2>1, <2>3 DEF ExamsInv, RecordsResolve
  <2>4. QED
    BY <2>2, <2>3
<1>8. ASSUME NEW d \in Exams, NEW s \in Students, NEW q \in answers'[<<d, s>>]
      PROVE  \E x \in Exams : option'[<<d, s>>][q] \in questions'[x]
  <2>1. UNCHANGED <<answers, option>>
    BY <1>2 DEF record
  <2>2. PICK x \in Exams : option[<<d, s>>][q] \in questions[x]
    BY <2>1 DEF ExamsInv, RecordsResolve
  <2>3. QED
    BY <1>2, <1>6, <2>1, <2>2
<1>9. Unborn'
  BY <1>2 DEF Unborn, ExamsInv
<1>10. QED
  BY <1>3, <1>4, <1>5, <1>7, <1>8, <1>9 DEF ExamsInv, RecordsResolve

\* An edit that has passed the checks.
Edit(r, e, t) ==
  /\ r \in Request
  /\ r.op = "update" /\ r.pc \in {"select", "save"}
  /\ r.exam = e /\ r.target = t /\ r.loaded = status[e]

LEMMA EditStarts ==
  ASSUME NEW w \in Workers, NEW e \in Exams, NEW t \in ExamStatus, UpdateExam(w, e, t)
  PROVE  /\ \E r \in Request : Start(w, r) /\ Edit(r, e, t)
         /\ UNCHANGED <<exam, record>> /\ MayMoveTo(e, t) /\ status[e] \in Editable /\ Idle(w)
<1>1. UNCHANGED <<exam, record>> /\ MayMoveTo(e, t) /\ status[e] \in Editable /\ Idle(w)
  BY DEF UpdateExam, MayMoveTo
<1>2. status[e] \in ExamStatus \cup AttemptStatus
  BY <1>1 DEF Editable
<1>3. ASSUME Start(w, [Ask("update", "save", e, "none") EXCEPT !.loaded = status[e], !.target = t])
      PROVE  \E r \in Request : Start(w, r) /\ Edit(r, e, t)
  <2> DEFINE ask == Ask("update", "save", e, "none")
             r == [ask EXCEPT !.loaded = status[e], !.target = t]
  <2>1. ask \in Request /\ ask.op = "update" /\ ask.pc = "save" /\ ask.exam = e
    BY AskType DEF Ops, Pcs
  <2> HIDE DEF ask
  <2>2. Edit(r, e, t)
    BY <1>2, <2>1 DEF Edit, Request
  <2>3. QED
    BY <1>3, <2>2 DEF ask, Edit
<1>4. ASSUME NEW Q \in SUBSET FreshQuestions,
             Start(w, [Ask("update", "select", e, "none")
                         EXCEPT !.loaded = status[e], !.target = t, !.questions = Q])
      PROVE  \E r \in Request : Start(w, r) /\ Edit(r, e, t)
  <2> DEFINE ask == Ask("update", "select", e, "none")
             r == [ask EXCEPT !.loaded = status[e], !.target = t, !.questions = Q]
  <2>1. ask \in Request /\ ask.op = "update" /\ ask.pc = "select" /\ ask.exam = e
    BY AskType DEF Ops, Pcs
  <2>2. Q \in SUBSET Questions
    BY DEF FreshQuestions
  <2> HIDE DEF ask
  <2>3. Edit(r, e, t)
    BY <1>2, <2>1, <2>2 DEF Edit, Request
  <2>4. QED
    BY <1>4, <2>3 DEF ask, Edit
<1>5. QED
  BY <1>1, <1>3, <1>4 DEF UpdateExam

LEMMA UpdateKeeps ==
  ASSUME ExamsInv, NEW w \in Workers, NEW e \in Exams, NEW t \in ExamStatus,
         UpdateExam(w, e, t)
  PROVE  ExamsInv'
<1>1. PICK r \in Request : Start(w, r) /\ Edit(r, e, t)
  BY EditStarts
<1>2. req'[w] = r
  BY <1>1, OthersKeep DEF ExamsInv
<1>3. Holds(w)'
  BY <1>1, <1>2, EditStarts DEF Holds, Edit, exam, Editable, ExamStatus
<1>4. QED
  BY <1>1, <1>3, EditStarts, StartKeeps

\* The request of an edit that has selected the questions to delete.
Selected(r) == [r EXCEPT !.pc = "save", !.old = questions[r.exam]]

LEMMA SelectedType ==
  ASSUME ExamsInv, NEW r \in Request, r.exam \in Exams
  PROVE  /\ Selected(r) \in Request
         /\ Selected(r).op = r.op /\ Selected(r).pc = "save" /\ Selected(r).exam = r.exam
         /\ Selected(r).target = r.target /\ Selected(r).loaded = r.loaded
<1>1. questions[r.exam] \in SUBSET Questions
  BY DEF ExamsInv, TypeOK
<1>2. QED
  BY <1>1 DEF Selected, Request

LEMMA SelectStarts ==
  ASSUME ExamsInv, NEW w \in Workers, SelectQuestions(w)
  PROVE  /\ Start(w, Selected(req[w])) /\ UNCHANGED <<exam, record>>
         /\ req[w] \in Request /\ req[w].op = "update" /\ req[w].pc = "select"
         /\ req[w].exam \in Exams /\ req[w].target \in ExamStatus
         /\ status[req[w].exam] # "none"
<1>1. /\ req[w] \in Request /\ req[w].op = "update" /\ req[w].pc = "select"
      /\ req[w].exam \in Exams /\ req[w].target \in ExamStatus
      /\ status[req[w].exam] # "none"
  BY DEF SelectQuestions, At, ExamsInv, TypeOK, AllHold, Holds
<1>2. QED
  BY <1>1 DEF SelectQuestions, Selected

LEMMA SelectKeeps ==
  ASSUME ExamsInv, NEW w \in Workers, SelectQuestions(w)
  PROVE  ExamsInv'
<1>1. Selected(req[w]) \in Request /\ req'[w] = Selected(req[w])
  BY SelectStarts, SelectedType, OthersKeep DEF ExamsInv
<1>2. Holds(w)'
  BY <1>1, SelectStarts, SelectedType DEF Holds, exam
<1>3. QED
  BY <1>1, <1>2, SelectStarts, StartKeeps

(***************************************************************************)
(* What the deletion of questions does to the answers, when the foreign    *)
(* keys allow it.                                                          *)
(***************************************************************************)
\* Q can be deleted in some order, or all at once.
Removable(Q) == \E rank \in [Q -> Nat] : Deletable(Q, rank)

LEMMA CascadeRows ==
  ASSUME ExamsInv, NEW Q, Removable(Q), Cascade(Q)
  PROVE  /\ answers' \in [Attempts -> SUBSET Questions]
         /\ option' \in [Attempts -> [Questions -> Questions]]
         /\ lost' \subseteq Attempts /\ lost \subseteq lost'
         /\ UNCHANGED <<attempt, grades>>
         /\ \A a \in Attempts :
              /\ answers'[a] \subseteq answers[a] /\ answers'[a] \cap Q = {}
              /\ grades[a] \subseteq answers'[a]
              /\ \A q \in answers'[a] : option'[a][q] = option[a][q] /\ option[a][q] \notin Q
              /\ \A q \in answers[a] \ answers'[a] : q \notin grades[a] /\ option[a][q] # q /\ option[a][q] \in Q
              /\ answers'[a] # answers[a] => a \in lost'
<1>1. /\ answers \in [Attempts -> SUBSET Questions]
      /\ option \in [Attempts -> [Questions -> Questions]] /\ lost \subseteq Attempts
  BY DEF ExamsInv, TypeOK
<1>2. \A a \in Attempts : /\ answers'[a] = answers[a] \ Naming(a, Q)
                          /\ Naming(a, Q) # {} => a \in lost'
  BY DEF Cascade
<1>3. \A a \in Attempts : \A q \in Questions :
        option'[a][q] = IF q \in Naming(a, Q) THEN q ELSE option[a][q]
  BY DEF Cascade
<1>4. /\ answers' \in [Attempts -> SUBSET Questions]
      /\ lost' \subseteq Attempts /\ lost \subseteq lost'
      /\ UNCHANGED <<attempt, grades>>
  BY <1>1 DEF Cascade
<1>5. option' \in [Attempts -> [Questions -> Questions]]
  BY <1>1 DEF Cascade
<1>6. ASSUME NEW a \in Attempts
      PROVE  /\ answers'[a] \subseteq answers[a] /\ answers'[a] \cap Q = {}
             /\ grades[a] \subseteq answers'[a]
             /\ \A q \in answers'[a] : option'[a][q] = option[a][q] /\ option[a][q] \notin Q
             /\ \A q \in answers[a] \ answers'[a] : q \notin grades[a] /\ option[a][q] # q /\ option[a][q] \in Q
             /\ answers'[a] # answers[a] => a \in lost'
  <2>1. PICK rank \in [Q -> Nat] :
          /\ \A q \in answers[a] \cap Q : q \in Naming(a, Q) /\ rank[option[a][q]] < rank[q]
          /\ grades[a] \cap Naming(a, Q) = {}
    BY DEF Removable, Deletable
  <2>2. grades[a] \subseteq answers[a] /\ answers[a] \subseteq Questions
    BY <1>1 DEF ExamsInv, RecordsResolve, Attempts
  <2>3. \A q : q \in Naming(a, Q) <=> q \in answers[a] /\ option[a][q] \in Q
    BY DEF Naming
  <2>4. answers'[a] = answers[a] \ Naming(a, Q) /\ (Naming(a, Q) # {} => a \in lost')
    BY <1>2
  <2>5. \A q \in answers'[a] : option'[a][q] = option[a][q]
    BY <1>3, <2>2, <2>4
  <2>6. ASSUME NEW q \in answers[a] \cap Q PROVE option[a][q] \in Q /\ option[a][q] # q
    BY <2>1, <2>3
  <2>7. answers'[a] \cap Q = {}
    BY <2>3, <2>4, <2>6
  <2>8. \A q \in answers[a] \ answers'[a] : option[a][q] # q
    BY <2>3, <2>4, <2>6
  <2>9. QED
    BY <2>1, <2>2, <2>3, <2>4, <2>5, <2>7, <2>8
<1>7. QED
  BY <1>4, <1>5, <1>6

\* The rows go on resolving when the questions Q go, all of one exam, and
\* others come in their place.
LEMMA CascadeResolves ==
  ASSUME ExamsInv, NEW Q, NEW N, NEW e \in Exams, Removable(Q), Cascade(Q),
         questions' = [questions EXCEPT ![e] = (@ \ Q) \cup N],
         \A d \in Exams, s \in Students :
           attempt[<<d, s>>] # "none" => status'[d] \in ExamStatus
  PROVE  /\ RecordsResolve'
         /\ \A a \in Attempts :
              \A q \in answers[a] \ answers'[a] : q \notin grades[a] /\ option[a][q] # q
<1>1. \A d \in Exams : questions[d] \ Q \subseteq questions'[d]
  BY DEF ExamsInv, TypeOK
<1>2. ASSUME NEW d \in Exams, NEW s \in Students
      PROVE  /\ answers'[<<d, s>>] \subseteq questions'[d]
             /\ \A q \in answers'[<<d, s>>] :
                  \E x \in Exams : option'[<<d, s>>][q] \in questions'[x]
             /\ grades'[<<d, s>>] \subseteq answers'[<<d, s>>]
             /\ attempt'[<<d, s>>] \in {"none", "in_progress"} => answers'[<<d, s>>] = {}
             /\ attempt'[<<d, s>>] # "none" => status'[d] \in ExamStatus
  <2> DEFINE a == <<d, s>>
  <2>1. a \in Attempts
    BY DEF Attempts
  <2>2. /\ answers[a] \subseteq questions[d]
        /\ \A q \in answers[a] : \E x \in Exams : option[a][q] \in questions[x]
        /\ attempt[a] \in {"none", "in_progress"} => answers[a] = {}
    BY DEF ExamsInv, RecordsResolve
  <2>3. /\ answers'[a] \subseteq answers[a] /\ answers'[a] \cap Q = {}
        /\ grades[a] \subseteq answers'[a]
        /\ \A q \in answers'[a] : option'[a][q] = option[a][q] /\ option[a][q] \notin Q
        /\ UNCHANGED <<attempt, grades>>
    BY <2>1, CascadeRows
  <2>4. answers'[a] \subseteq questions'[d]
    BY <1>1, <2>2, <2>3
  <2>5. ASSUME NEW q \in answers'[a]
        PROVE  \E x \in Exams : option'[a][q] \in questions'[x]
    <3>1. PICK x \in Exams : option[a][q] \in questions[x]
      BY <2>2, <2>3
    <3>2. QED
      BY <1>1, <2>3, <3>1
  <2>6. QED
    BY <2>2, <2>3, <2>4, <2>5
<1>3. RecordsResolve'
  BY <1>2 DEF RecordsResolve
<1>4. ASSUME NEW a \in Attempts
      PROVE  \A q \in answers[a] \ answers'[a] : q \notin grades[a] /\ option[a][q] # q
  BY CascadeRows
<1>5. QED
  BY <1>3, <1>4

\* What the commit of an edit does to the database.
Saved(w) ==
  LET e == req[w].exam
  IN /\ status[e] # "deleted"
     /\ Removable(req[w].old)
     /\ Cascade(req[w].old)
     /\ status' = [status EXCEPT ![e] = Flushed(req[w].loaded, req[w].target, @)]
     /\ questions' = [questions EXCEPT ![e] = (@ \ req[w].old) \cup req[w].questions]
     /\ issued' = issued \cup req[w].questions
     /\ Finish(w)

LEMMA SaveSplits ==
  ASSUME ExamsInv, NEW w \in Workers, SaveExam(w)
  PROVE  /\ req[w] \in Request /\ req[w].op = "update" /\ req[w].pc = "save"
         /\ req[w].exam \in Exams /\ req[w].target \in ExamStatus
         /\ status[req[w].exam] # "none"
         /\ Saved(w) \/ Fail(w)
<1>1. \A rank \in Orders(req[w].old) : rank \in [req[w].old -> Nat]
  BY DEF Orders
<1>2. /\ req[w] \in Request /\ req[w].op = "update" /\ req[w].pc = "save"
      /\ req[w].exam \in Exams /\ req[w].target \in ExamStatus
      /\ status[req[w].exam] # "none"
  BY DEF SaveExam, At, ExamsInv, TypeOK, AllHold, Holds
<1>3. Saved(w) \/ Fail(w)
  BY <1>1 DEF SaveExam, Saved, Removable
<1>4. QED
  BY <1>2, <1>3

LEMMA SavedStatus ==
  ASSUME ExamsInv, NEW w \in Workers, req[w] \in Request, req[w].exam \in Exams,
         req[w].target \in ExamStatus, status[req[w].exam] # "none", Saved(w)
  PROVE  /\ \A d \in Exams : d # req[w].exam => status'[d] = status[d]
         /\ status'[req[w].exam] = Flushed(req[w].loaded, req[w].target, status[req[w].exam])
         /\ status[req[w].exam] \in ExamStatus => status'[req[w].exam] \in ExamStatus
         /\ RecordsResolve' /\ Steady /\ Stored'
<1>1. /\ \A d \in Exams : d # req[w].exam => status'[d] = status[d]
      /\ status'[req[w].exam] = Flushed(req[w].loaded, req[w].target, status[req[w].exam])
      /\ status' \in [Exams -> ExamStatus \cup {"none", "deleted"}]
      /\ status[req[w].exam] \in ExamStatus => status'[req[w].exam] \in ExamStatus
      /\ status[req[w].exam] # "none" => status'[req[w].exam] # "none"
  BY DEF Saved, ExamsInv, TypeOK, Flushed, ExamStatus
<1>2. questions' \in [Exams -> SUBSET Questions] /\ issued' \subseteq Questions
  BY DEF Saved, ExamsInv, TypeOK, Request
<1>3. Removable(req[w].old) /\ Cascade(req[w].old)
  BY DEF Saved
<1>4. /\ RecordsResolve'
      /\ \A a \in Attempts :
           \A q \in answers[a] \ answers'[a] : q \notin grades[a] /\ option[a][q] # q
  <2>1. \A d \in Exams, s \in Students : attempt[<<d, s>>] # "none" => status'[d] \in ExamStatus
    BY <1>1 DEF ExamsInv, RecordsResolve
  <2>2. questions' = [questions EXCEPT ![req[w].exam] = (@ \ req[w].old) \cup req[w].questions]
    BY DEF Saved
  <2>3. QED
    BY <1>3, <2>1, <2>2, CascadeResolves
<1>5. Unborn'
  <2>1. \A d \in Exams : d # req[w].exam => questions'[d] = questions[d]
    BY DEF Saved, ExamsInv, TypeOK
  <2>2. QED
    BY <1>1, <2>1 DEF Unborn, ExamsInv
<1>6. /\ answers' \in [Attempts -> SUBSET Questions]
      /\ option' \in [Attempts -> [Questions -> Questions]]
      /\ lost' \subseteq Attempts /\ UNCHANGED <<attempt, grades>>
  BY <1>3, CascadeRows
<1>7. Steady
  BY <1>1, <1>4, <1>6 DEF Steady
<1>8. Stored'
  BY <1>1, <1>2, <1>5, <1>6 DEF Stored, ExamsInv, TypeOK
<1>9. QED
  BY <1>1, <1>4, <1>7, <1>8

LEMMA SaveKeeps ==
  ASSUME ExamsInv, NEW w \in Workers, SaveExam(w)
  PROVE  ExamsInv' /\ Steady
<1>1. CASE Saved(w)
  <2>1. Finish(w)
    BY <1>1 DEF Saved
  <2>2. QED
    BY <1>1, <2>1, SaveSplits, SavedStatus, FinishStarts, NoRequestType, CommitKeeps
<1>2. QED
  BY <1>1, SaveSplits, FailKeeps, FailStarts, SteadyUnchanged

LEMMA DeleteStarts ==
  ASSUME ExamsInv, NEW w \in Workers, NEW e \in Exams, DeleteExam(w, e)
  PROVE  /\ \E r \in Request :
              Start(w, r) /\ r.op = "delete" /\ r.pc = "save" /\ r.exam = e
         /\ UNCHANGED <<exam, record>> /\ Idle(w)
<1> DEFINE ask == Ask("delete", "save", e, "none")
<1>1. ask \in Request /\ ask.op = "delete" /\ ask.pc = "save" /\ ask.exam = e
  BY AskType DEF Ops, Pcs
<1>2. Start(w, ask) /\ UNCHANGED <<exam, record>> /\ Idle(w)
  BY DEF DeleteExam
<1> HIDE DEF ask
<1>3. QED
  BY <1>1, <1>2

LEMMA DeleteKeeps ==
  ASSUME ExamsInv, NEW w \in Workers, NEW e \in Exams, DeleteExam(w, e)
  PROVE  ExamsInv'
<1>1. PICK r \in Request : Start(w, r) /\ r.op = "delete" /\ r.pc = "save" /\ r.exam = e
  BY DeleteStarts
<1>2. req'[w] = r
  BY <1>1, OthersKeep DEF ExamsInv
<1>3. Holds(w)'
  BY <1>1, <1>2 DEF Holds
<1>4. QED
  BY <1>1, <1>3, DeleteStarts, StartKeeps

\* What the commit of a deletion does to the database.
Deleted(w) ==
  LET e == req[w].exam
  IN /\ ~ Attempted(e) /\ Removable(questions[e])
     /\ Cascade(questions[e])
     /\ status' = [status EXCEPT ![e] = "deleted"]
     /\ questions' = [questions EXCEPT ![e] = {}]
     /\ Finish(w)
     /\ UNCHANGED issued

LEMMA DeleteSplits ==
  ASSUME ExamsInv, NEW w \in Workers, CommitDelete(w)
  PROVE  /\ req[w].op = "delete" /\ req[w].pc = "save" /\ req[w].exam \in Exams
         /\ Deleted(w) \/ Fail(w)
<1>1. AtOnce(questions[req[w].exam]) \in [questions[req[w].exam] -> Nat]
  BY DEF AtOnce
<1>2. QED
  BY <1>1 DEF CommitDelete, Deleted, Removable, At, ExamsInv, AllHold, Holds

LEMMA DeletedStatus ==
  ASSUME ExamsInv, NEW w \in Workers, req[w].exam \in Exams, Deleted(w)
  PROVE  /\ \A d \in Exams : d # req[w].exam => status'[d] = status[d] /\ questions'[d] = questions[d]
         /\ status'[req[w].exam] = "deleted"
         /\ RecordsResolve' /\ Steady /\ Stored'
<1>1. /\ \A d \in Exams : d # req[w].exam => status'[d] = status[d] /\ questions'[d] = questions[d]
      /\ status'[req[w].exam] = "deleted"
      /\ status' \in [Exams -> ExamStatus \cup {"none", "deleted"}]
      /\ questions' \in [Exams -> SUBSET Questions]
      /\ UNCHANGED issued
  BY DEF Deleted, ExamsInv, TypeOK
<1>2. Removable(questions[req[w].exam]) /\ Cascade(questions[req[w].exam])
  BY DEF Deleted
<1>3. /\ RecordsResolve'
      /\ \A a \in Attempts :
           \A q \in answers[a] \ answers'[a] : q \notin grades[a] /\ option[a][q] # q
  <2>1. \A d \in Exams, s \in Students : attempt[<<d, s>>] # "none" => status'[d] \in ExamStatus
    BY <1>1 DEF Deleted, Attempted, ExamsInv, RecordsResolve
  <2>2. questions' = [questions EXCEPT ![req[w].exam] = (@ \ questions[req[w].exam]) \cup {}]
    BY DEF Deleted, ExamsInv, TypeOK
  <2>3. QED
    BY <1>2, <2>1, <2>2, CascadeResolves
<1>4. Unborn'
  BY <1>1 DEF Unborn, ExamsInv
<1>5. /\ answers' \in [Attempts -> SUBSET Questions]
      /\ option' \in [Attempts -> [Questions -> Questions]]
      /\ lost' \subseteq Attempts /\ UNCHANGED <<attempt, grades>>
  BY <1>2, CascadeRows
<1>6. Steady
  BY <1>1, <1>3, <1>5 DEF Steady
<1>7. Stored'
  BY <1>1, <1>4, <1>5 DEF Stored, ExamsInv, TypeOK
<1>8. QED
  BY <1>1, <1>3, <1>6, <1>7

LEMMA CommitDeleteKeeps ==
  ASSUME ExamsInv, NEW w \in Workers, CommitDelete(w)
  PROVE  ExamsInv' /\ Steady
<1>1. CASE Deleted(w)
  <2>1. Finish(w)
    BY <1>1 DEF Deleted
  <2>2. QED
    BY <1>1, <2>1, DeleteSplits, DeletedStatus, FinishStarts, NoRequestType, CommitKeeps
<1>2. QED
  BY <1>1, DeleteSplits, FailKeeps, FailStarts, SteadyUnchanged

-----------------------------------------------------------------------------
(***************************************************************************)
(* So does every action of Sit.                                            *)
(***************************************************************************)
LEMMA SitStarts ==
  ASSUME NEW w \in Workers, NEW e \in Exams, NEW s \in Students, StartExam(w, e, s)
  PROVE  /\ Start(w, Ask("start", "find", e, s)) /\ UNCHANGED <<exam, record>>
         /\ Idle(w) /\ status[e] = "open"
         /\ Ask("start", "find", e, s) \in Request
         /\ Ask("start", "find", e, s).op = "start" /\ Ask("start", "find", e, s).pc = "find"
         /\ Ask("start", "find", e, s).exam = e /\ Ask("start", "find", e, s).student = s
<1>1. "start" \in Ops /\ "find" \in Pcs
  BY DEF Ops, Pcs
<1>2. QED
  BY <1>1, AskType DEF StartExam

LEMMA StartExamKeeps ==
  ASSUME ExamsInv, NEW w \in Workers, NEW e \in Exams, NEW s \in Students, StartExam(w, e, s)
  PROVE  ExamsInv'
<1>1. req'[w] = Ask("start", "find", e, s) /\ UNCHANGED status
  BY SitStarts, OthersKeep DEF ExamsInv, exam
<1>2. Holds(w)'
  BY <1>1, SitStarts DEF Holds, About, Attempts
<1>3. QED
  BY <1>2, SitStarts, StartKeeps

\* A request that goes on to another step of its handling.
Moved(r, pc) == [r EXCEPT !.pc = pc]

LEMMA MovedType ==
  ASSUME NEW r \in Request, NEW pc \in Pcs
  PROVE  /\ Moved(r, pc) \in Request
         /\ Moved(r, pc).op = r.op /\ Moved(r, pc).pc = pc
         /\ Moved(r, pc).exam = r.exam /\ Moved(r, pc).student = r.student
         /\ Moved(r, pc).loaded = r.loaded /\ Moved(r, pc).questions = r.questions
BY DEF Moved, Request, Pcs

LEMMA FindSplits ==
  ASSUME ExamsInv, NEW w \in Workers, FindAttempt(w)
  PROVE  /\ req[w] \in Request /\ req[w].op = "start" /\ req[w].pc = "find"
         /\ About(w) \in Attempts /\ status[req[w].exam] # "none"
         /\ UNCHANGED <<exam, record>>
         /\ \/ attempt[About(w)] = "none" /\ Start(w, Moved(req[w], "save"))
            \/ Finish(w)
BY DEF FindAttempt, Moved, At, ExamsInv, TypeOK, AllHold, Holds

LEMMA FindKeeps ==
  ASSUME ExamsInv, NEW w \in Workers, FindAttempt(w)
  PROVE  ExamsInv'
<1>1. CASE Start(w, Moved(req[w], "save"))
  <2>1. /\ Moved(req[w], "save") \in Request /\ Moved(req[w], "save").op = "start"
        /\ Moved(req[w], "save").exam = req[w].exam
        /\ Moved(req[w], "save").student = req[w].student
    BY FindSplits, MovedType DEF Pcs
  <2>2. req'[w] = Moved(req[w], "save") /\ UNCHANGED status
    BY <1>1, <2>1, FindSplits, OthersKeep DEF ExamsInv, exam
  <2>3. Holds(w)'
    BY <2>1, <2>2, FindSplits DEF Holds, About
  <2>4. QED
    BY <1>1, <2>1, <2>3, FindSplits, StartKeeps
<1>2. QED
  BY <1>1, FindSplits, FinishKeeps

\* What the commit of a start does to the database.
Started(w) ==
  /\ attempt[About(w)] = "none"
  /\ status[req[w].exam] # "deleted"
  /\ attempt' = [attempt EXCEPT ![About(w)] = "in_progress"]
  /\ Finish(w)
  /\ UNCHANGED <<exam, answers, option, grades, lost>>

LEMMA StartSplits ==
  ASSUME ExamsInv, NEW w \in Workers, CommitStart(w)
  PROVE  /\ req[w].op = "start" /\ req[w].pc = "save"
         /\ About(w) \in Attempts /\ req[w].exam \in Exams /\ status[req[w].exam] # "none"
         /\ \/ Started(w)
            \/ (attempt[About(w)] # "none" \/ status[req[w].exam] = "deleted") /\ Fail(w)
BY DEF CommitStart, Started, At, ExamsInv, AllHold, Holds, About, Attempts

LEMMA CommitStartKeeps ==
  ASSUME ExamsInv, NEW w \in Workers, CommitStart(w)
  PROVE  ExamsInv' /\ Steady
<1>1. CASE Started(w)
  <2>1. /\ \A a \in Attempts : attempt'[a] = IF a = About(w) THEN "in_progress" ELSE attempt[a]
        /\ UNCHANGED <<exam, answers, option, grades, lost>> /\ attempt[About(w)] = "none"
        /\ attempt' \in [Attempts -> AttemptStatus]
    BY <1>1 DEF Started, ExamsInv, TypeOK, AttemptStatus
  <2>2. Steady /\ Stored'
    BY <2>1 DEF Steady, Stored, Unborn, ExamsInv, TypeOK, exam
  <2>3. status[req[w].exam] \in ExamStatus
    BY <1>1, StartSplits DEF Started, ExamsInv, TypeOK
  <2>4. \A d \in Exams, s \in Students : <<d, s>> = About(w) => d = req[w].exam
    BY DEF About
  <2>5. \A d \in Exams, s \in Students : <<d, s>> \in Attempts
    BY DEF Attempts
  <2>6. RecordsResolve'
    <3>1. ASSUME NEW d \in Exams, NEW s \in Students
          PROVE  /\ attempt'[<<d, s>>] \in {"none", "in_progress"} => answers[<<d, s>>] = {}
                 /\ attempt'[<<d, s>>] # "none" => status[d] \in ExamStatus
      <4>1. CASE <<d, s>> = About(w)
        BY <4>1, <2>1, <2>3, <2>4 DEF ExamsInv, RecordsResolve
      <4>2. CASE <<d, s>> # About(w)
        BY <4>2, <2>1, <2>5 DEF ExamsInv, RecordsResolve
      <4>3. QED
        BY <4>1, <4>2
    <3>2. QED
      BY <2>1, <3>1 DEF ExamsInv, RecordsResolve, exam
  <2>7. Finish(w)
    BY <1>1 DEF Started
  <2>8. QED
    BY <2>2, <2>6, <2>7, FinishStarts, NoRequestType, CommitKeeps
<1>2. CASE Fail(w)
  BY <1>2, FailKeeps, FailStarts, SteadyUnchanged
<1>3. QED
  BY <1>1, <1>2, StartSplits

LEMMA SubmitStarts ==
  ASSUME ExamsInv, NEW w \in Workers, NEW e \in Exams, NEW s \in Students,
         NEW Q \in SUBSET issued, NEW picked \in [Q -> issued],
         SubmitExam(w, e, s, Q, picked)
  PROVE  /\ \E r \in Request :
              Start(w, r) /\ r.op = "submit" /\ r.pc = "find" /\ r.exam = e /\ r.student = s
         /\ UNCHANGED <<exam, record>> /\ Idle(w) /\ status[e] = "open"
<1> DEFINE ask == Ask("submit", "find", e, s)
           opt == [q \in Questions |-> IF q \in Q THEN picked[q] ELSE q]
           r == [ask EXCEPT !.questions = Q, !.options = opt]
<1>1. ask \in Request /\ ask.op = "submit" /\ ask.pc = "find" /\ ask.exam = e /\ ask.student = s
  BY AskType DEF Ops, Pcs
<1>2. Start(w, r) /\ UNCHANGED <<exam, record>> /\ Idle(w) /\ status[e] = "open"
  BY DEF SubmitExam
<1>3. Q \in SUBSET Questions /\ opt \in [Questions -> Questions]
  BY DEF ExamsInv, TypeOK
<1> HIDE DEF ask, opt
<1>4. /\ r \in Request
      /\ r.op = "submit" /\ r.pc = "find" /\ r.exam = e /\ r.student = s
  BY <1>1, <1>3 DEF Request
<1>5. QED
  BY <1>2, <1>4 DEF opt

LEMMA SubmitKeeps ==
  ASSUME ExamsInv, NEW w \in Workers, NEW e \in Exams, NEW s \in Students,
         NEW Q \in SUBSET issued, NEW picked \in [Q -> issued],
         SubmitExam(w, e, s, Q, picked)
  PROVE  ExamsInv'
<1>1. PICK r \in Request :
        Start(w, r) /\ r.op = "submit" /\ r.pc = "find" /\ r.exam = e /\ r.student = s
  BY SubmitStarts
<1>2. req'[w] = r
  BY <1>1, OthersKeep DEF ExamsInv
<1>3. Holds(w)'
  BY <1>1, <1>2 DEF Holds, About, Attempts
<1>4. QED
  BY <1>1, <1>3, SubmitStarts, StartKeeps

LEMMA ReadSplits ==
  ASSUME ExamsInv, NEW w \in Workers, ReadAttempt(w)
  PROVE  /\ req[w] \in Request /\ req[w].op = "submit" /\ req[w].pc = "find"
         /\ About(w) \in Attempts
         /\ UNCHANGED <<exam, record>>
         /\ \/ attempt[About(w)] = "in_progress" /\ Start(w, Moved(req[w], "validate"))
            \/ Finish(w)
BY DEF ReadAttempt, Running, Moved, At, ExamsInv, TypeOK, AllHold, Holds

LEMMA ValidateSplits ==
  ASSUME ExamsInv, NEW w \in Workers, ValidateAnswers(w)
  PROVE  /\ req[w] \in Request /\ req[w].op = "submit" /\ req[w].pc = "validate"
         /\ About(w) \in Attempts /\ attempt[About(w)] # "none"
         /\ UNCHANGED <<exam, record>>
         /\ Start(w, Moved(req[w], "save")) \/ Finish(w)
BY DEF ValidateAnswers, Moved, At, ExamsInv, TypeOK, AllHold, Holds

\* The request of a submission goes on while its attempt exists.
LEMMA MoveOn ==
  ASSUME ExamsInv, NEW w \in Workers, NEW pc \in {"validate", "save"},
         req[w] \in Request, req[w].op = "submit", About(w) \in Attempts,
         attempt[About(w)] # "none", UNCHANGED <<exam, record>>, Start(w, Moved(req[w], pc))
  PROVE  ExamsInv'
<1> DEFINE r == Moved(req[w], pc)
<1>1. /\ r \in Request /\ r.op = "submit" /\ r.pc = pc
      /\ r.exam = req[w].exam /\ r.student = req[w].student
  BY MovedType DEF Pcs
<1> HIDE DEF r
<1>2. req'[w] = r /\ UNCHANGED attempt /\ Start(w, r)
  BY <1>1, OthersKeep DEF ExamsInv, record, r
<1>3. Holds(w)'
  BY <1>1, <1>2 DEF Holds, About
<1>4. QED
  BY <1>1, <1>2, <1>3, StartKeeps

LEMMA ReadKeeps ==
  ASSUME ExamsInv, NEW w \in Workers, ReadAttempt(w)
  PROVE  ExamsInv'
BY ReadSplits, MoveOn, FinishKeeps

LEMMA ValidateKeeps ==
  ASSUME ExamsInv, NEW w \in Workers, ValidateAnswers(w)
  PROVE  ExamsInv'
BY ValidateSplits, MoveOn, FinishKeeps

\* What the commit of a submission does to the database.
Submitted(w) ==
  /\ Insertable(w)
  /\ answers' = [answers EXCEPT ![About(w)] = @ \cup req[w].questions]
  /\ option' = [option EXCEPT ![About(w)] =
       [q \in Questions |-> IF q \in req[w].questions THEN req[w].options[q] ELSE @[q]]]
  /\ attempt' = [attempt EXCEPT ![About(w)] = "submitted"]
  /\ Finish(w)
  /\ UNCHANGED <<exam, grades, lost>>

LEMMA SubmitSplits ==
  ASSUME ExamsInv, NEW w \in Workers, CommitSubmit(w)
  PROVE  /\ req[w].op = "submit" /\ req[w].pc = "save"
         /\ req[w].questions \subseteq Questions /\ req[w].options \in [Questions -> Questions]
         /\ About(w) \in Attempts /\ attempt[About(w)] # "none"
         /\ Submitted(w) \/ Fail(w)
BY DEF CommitSubmit, Submitted, At, ExamsInv, TypeOK, Request, AllHold, Holds

LEMMA SubmittedRows ==
  ASSUME ExamsInv, NEW w \in Workers, About(w) \in Attempts,
         req[w].questions \subseteq Questions, req[w].options \in [Questions -> Questions],
         Submitted(w)
  PROVE  /\ \A a \in Attempts :
              /\ a # About(w) => /\ attempt'[a] = attempt[a] /\ answers'[a] = answers[a]
                                 /\ option'[a] = option[a]
              /\ a = About(w) =>
                   /\ attempt'[a] = "submitted"
                   /\ answers'[a] = answers[a] \cup req[w].questions
                   /\ \A q \in Questions :
                        option'[a][q] = IF q \in req[w].questions THEN req[w].options[q]
                                                                  ELSE option[a][q]
         /\ UNCHANGED <<exam, grades, lost>>
         /\ Steady /\ Stored'
<1>1. /\ \A a \in Attempts :
           /\ a # About(w) => /\ attempt'[a] = attempt[a] /\ answers'[a] = answers[a]
                              /\ option'[a] = option[a]
           /\ a = About(w) => /\ attempt'[a] = "submitted"
                              /\ answers'[a] = answers[a] \cup req[w].questions
      /\ UNCHANGED <<exam, grades, lost>>
  BY DEF Submitted, ExamsInv, TypeOK
<1>2. /\ attempt' \in [Attempts -> AttemptStatus]
      /\ answers' \in [Attempts -> SUBSET Questions]
  BY DEF Submitted, ExamsInv, TypeOK, AttemptStatus
<1>3. Steady
  BY <1>1 DEF Steady, exam
<1>4. /\ option' \in [Attempts -> [Questions -> Questions]]
      /\ \A q \in Questions :
           option'[About(w)][q] = IF q \in req[w].questions THEN req[w].options[q]
                                                            ELSE option[About(w)][q]
  <2> DEFINE new == [q \in Questions |->
               IF q \in req[w].questions THEN req[w].options[q] ELSE option[About(w)][q]]
  <2>1. option \in [Attempts -> [Questions -> Questions]]
    BY DEF ExamsInv, TypeOK
  <2>2. option' = [option EXCEPT ![About(w)] = new]
    BY DEF Submitted
  <2>3. /\ new \in [Questions -> Questions]
        /\ \A q \in Questions :
             new[q] = IF q \in req[w].questions THEN req[w].options[q] ELSE option[About(w)][q]
    BY <2>1
  <2> HIDE DEF new
  <2>4. QED
    BY <2>1, <2>2, <2>3
<1>5. Stored'
  BY <1>1, <1>2, <1>4 DEF Stored, Unborn, ExamsInv, TypeOK, exam
<1>6. QED
  BY <1>1, <1>3, <1>4, <1>5

LEMMA CommitSubmitKeeps ==
  ASSUME ExamsInv, NEW w \in Workers, CommitSubmit(w)
  PROVE  ExamsInv' /\ Steady
<1>1. CASE Submitted(w)
  <2>1. RecordsResolve'
    <3>1. UNCHANGED <<questions, status>> /\ UNCHANGED grades
      BY <1>1 DEF Submitted, exam
    <3>2. ASSUME NEW d \in Exams, NEW s \in Students
          PROVE  /\ answers'[<<d, s>>] \subseteq questions[d]
                 /\ \A q \in answers'[<<d, s>>] :
                      \E x \in Exams : option'[<<d, s>>][q] \in questions[x]
                 /\ grades[<<d, s>>] \subseteq answers'[<<d, s>>]
                 /\ attempt'[<<d, s>>] \in {"none", "in_progress"} => answers'[<<d, s>>] = {}
                 /\ attempt'[<<d, s>>] # "none" => status[d] \in ExamStatus
      <4>1. <<d, s>> \in Attempts
        BY DEF Attempts
      <4>2. CASE <<d, s>> = About(w)
        <5>1. d = req[w].exam /\ req[w].questions \subseteq questions[d]
          BY <1>1, <4>2 DEF About, Submitted, Insertable, BelongTo
        <5>2. \A q \in req[w].questions : \E x \in Exams : req[w].options[q] \in questions[x]
          BY <1>1 DEF Submitted, Insertable
        <5>3. /\ answers[<<d, s>>] \subseteq questions[d] /\ answers[<<d, s>>] \subseteq Questions
              /\ \A q \in answers[<<d, s>>] :
                   \E x \in Exams : option[<<d, s>>][q] \in questions[x]
          BY <4>1 DEF ExamsInv, RecordsResolve, TypeOK
        <5>4. /\ attempt'[<<d, s>>] = "submitted"
              /\ answers'[<<d, s>>] = answers[<<d, s>>] \cup req[w].questions
              /\ \A q \in Questions :
                   option'[<<d, s>>][q] = IF q \in req[w].questions THEN req[w].options[q]
                                                                    ELSE option[<<d, s>>][q]
              /\ req[w].questions \subseteq Questions /\ attempt[<<d, s>>] # "none"
          BY <1>1, <4>1, <4>2, SubmitSplits, SubmittedRows
        <5>5. ASSUME NEW q \in answers'[<<d, s>>]
              PROVE  \E x \in Exams : option'[<<d, s>>][q] \in questions[x]
          BY <5>2, <5>3, <5>4
        <5>6. QED
          BY <5>1, <5>3, <5>4, <5>5 DEF ExamsInv, RecordsResolve
      <4>3. CASE <<d, s>> # About(w)
        <5>1. /\ attempt'[<<d, s>>] = attempt[<<d, s>>] /\ answers'[<<d, s>>] = answers[<<d, s>>]
              /\ option'[<<d, s>>] = option[<<d, s>>]
          BY <4>1, <4>3, <1>1, SubmitSplits, SubmittedRows
        <5>2. QED
          BY <5>1 DEF ExamsInv, RecordsResolve
      <4>4. QED
        BY <4>2, <4>3
    <3>3. QED
      BY <3>1, <3>2 DEF RecordsResolve
  <2>2. Finish(w)
    BY <1>1 DEF Submitted
  <2>3. QED
    BY <1>1, <2>1, <2>2, SubmitSplits, SubmittedRows, FinishStarts, NoRequestType, CommitKeeps
<1>2. CASE Fail(w)
  BY <1>2, FailKeeps, FailStarts, SteadyUnchanged
<1>3. QED
  BY <1>1, <1>2, SubmitSplits

-----------------------------------------------------------------------------
(***************************************************************************)
(* So does every action of Grade.                                          *)
(***************************************************************************)
\* A grading that has found the attempt a.
Grading(r, e, s, Q) ==
  /\ r \in Request /\ r.op = "grade" /\ r.pc = "count"
  /\ r.exam = e /\ r.student = s /\ r.questions = Q /\ r.loaded = attempt[<<e, s>>]

LEMMA GradeStarts ==
  ASSUME ExamsInv, NEW w \in Workers, NEW e \in Exams, NEW s \in Students,
         NEW Q \in SUBSET issued, GradeSubmission(w, e, s, Q)
  PROVE  /\ \E r \in Request : Start(w, r) /\ Grading(r, e, s, Q)
         /\ UNCHANGED <<exam, record>> /\ Idle(w) /\ Gradable(<<e, s>>)
<1> DEFINE ask == Ask("grade", "count", e, s)
           l == attempt[<<e, s>>]
           r == [ask EXCEPT !.questions = Q, !.loaded = l]
<1>1. ask \in Request /\ ask.op = "grade" /\ ask.pc = "count" /\ ask.exam = e /\ ask.student = s
  BY AskType DEF Ops, Pcs
<1>2. Start(w, r) /\ UNCHANGED <<exam, record>> /\ Idle(w) /\ Gradable(<<e, s>>)
  BY DEF GradeSubmission
<1>3. Q \in SUBSET Questions /\ l \in ExamStatus \cup AttemptStatus
  BY DEF ExamsInv, TypeOK, Attempts
<1> HIDE DEF ask, l
<1>4. /\ r \in Request /\ r.op = "grade" /\ r.pc = "count"
      /\ r.exam = e /\ r.student = s /\ r.questions = Q /\ r.loaded = l
  BY <1>1, <1>3 DEF Request
<1>5. QED
  BY <1>2, <1>4 DEF Grading, l

LEMMA GradeKeeps ==
  ASSUME ExamsInv, NEW w \in Workers, NEW e \in Exams, NEW s \in Students,
         NEW Q \in SUBSET issued, GradeSubmission(w, e, s, Q)
  PROVE  ExamsInv'
<1>1. PICK r \in Request : Start(w, r) /\ Grading(r, e, s, Q)
  BY GradeStarts
<1>2. req'[w] = r /\ UNCHANGED attempt
  BY <1>1, GradeStarts, OthersKeep DEF ExamsInv, record
<1>3. Holds(w)'
  BY <1>1, <1>2, GradeStarts DEF Holds, About, Attempts, Grading, Gradable
<1>4. QED
  BY <1>1, <1>3, GradeStarts, StartKeeps

\* The request of a grading that has counted.
Counted(r, a, c) ==
  [r EXCEPT !.pc = "save", !.complete = c, !.old = grades[a] \cap r.questions]

LEMMA CountedType ==
  ASSUME NEW r \in Request, NEW a \in Attempts, NEW c \in BOOLEAN
  PROVE  /\ Counted(r, a, c) \in Request
         /\ Counted(r, a, c).op = r.op /\ Counted(r, a, c).pc = "save"
         /\ Counted(r, a, c).exam = r.exam /\ Counted(r, a, c).student = r.student
         /\ Counted(r, a, c).loaded = r.loaded /\ Counted(r, a, c).questions = r.questions
         /\ Counted(r, a, c).complete = c
         /\ Counted(r, a, c).old = grades[a] \cap r.questions
<1>1. grades[a] \cap r.questions \in SUBSET Questions
  BY DEF Request
<1> DEFINE old == grades[a] \cap r.questions
<1> HIDE DEF old
<1>2. /\ [r EXCEPT !.pc = "save", !.complete = c, !.old = old] \in Request
      /\ [r EXCEPT !.pc = "save", !.complete = c, !.old = old].old = old
  BY <1>1 DEF Request, old
<1>3. QED
  BY <1>2 DEF Counted, Request, old

LEMMA CountSplits ==
  ASSUME ExamsInv, NEW w \in Workers, CountGrades(w)
  PROVE  /\ req[w] \in Request /\ req[w].op = "grade" /\ req[w].pc = "count"
         /\ About(w) \in Attempts /\ Gradable(About(w)) /\ Complete(w) \in BOOLEAN
         /\ UNCHANGED <<exam, record>>
         /\ \/ /\ req[w].questions \subseteq answers[About(w)]
               /\ Start(w, Counted(req[w], About(w), Complete(w)))
            \/ Finish(w)
<1>1. Complete(w) \in BOOLEAN
  BY DEF Complete
<1>2. QED
  BY <1>1 DEF CountGrades, Counted, At, ExamsInv, TypeOK, AllHold, Holds

LEMMA CountKeeps ==
  ASSUME ExamsInv, NEW w \in Workers, CountGrades(w)
  PROVE  ExamsInv'
<1>1. CASE /\ req[w].questions \subseteq answers[About(w)]
           /\ Start(w, Counted(req[w], About(w), Complete(w)))
  <2> DEFINE r == Counted(req[w], About(w), Complete(w))
  <2>1. /\ r \in Request /\ r.op = "grade" /\ r.exam = req[w].exam
        /\ r.student = req[w].student /\ r.old = grades[About(w)] \cap req[w].questions
    BY CountSplits, CountedType
  <2> HIDE DEF r
  <2>2. req'[w] = r /\ UNCHANGED <<attempt, grades>> /\ Start(w, r)
    BY <1>1, <2>1, CountSplits, OthersKeep DEF ExamsInv, record, r
  <2>3. Holds(w)'
    BY <1>1, <2>1, <2>2, CountSplits DEF Holds, About, Gradable
  <2>4. QED
    BY <2>1, <2>2, <2>3, CountSplits, StartKeeps
<1>2. QED
  BY <1>1, CountSplits, FinishKeeps

\* What the commit of grades does to the database.
Marked(w) ==
  /\ Upsertable(w)
  /\ grades' = [grades EXCEPT ![About(w)] = @ \cup req[w].questions]
  /\ attempt' = [attempt EXCEPT ![About(w)] =
                   IF req[w].complete THEN Flushed(req[w].loaded, "graded", @) ELSE @]
  /\ Finish(w)
  /\ UNCHANGED <<exam, answers, option, lost>>

LEMMA MarkSplits ==
  ASSUME ExamsInv, NEW w \in Workers, CommitGrades(w)
  PROVE  /\ req[w].op = "grade" /\ req[w].pc = "save"
         /\ About(w) \in Attempts /\ Gradable(About(w))
         /\ req[w].old \subseteq grades[About(w)]
         /\ Marked(w) \/ (~ Upsertable(w) /\ Fail(w))
BY DEF CommitGrades, Marked, At, ExamsInv, AllHold, Holds

LEMMA MarkedRows ==
  ASSUME ExamsInv, NEW w \in Workers, About(w) \in Attempts, Gradable(About(w)),
         req[w].old \subseteq grades[About(w)], Marked(w)
  PROVE  /\ req[w].questions \subseteq answers[About(w)]
         /\ \A a \in Attempts :
              /\ a # About(w) => attempt'[a] = attempt[a] /\ grades'[a] = grades[a]
              /\ a = About(w) =>
                   /\ attempt'[a] \in {"submitted", "graded"}
                   /\ attempt'[a] = IF req[w].complete
                                    THEN Flushed(req[w].loaded, "graded", attempt[a])
                                    ELSE attempt[a]
                   /\ grades'[a] = grades[a] \cup req[w].questions
         /\ UNCHANGED <<exam, answers, option, lost>>
         /\ Steady /\ Stored'
<1>1. /\ \A a \in Attempts :
           /\ a # About(w) => attempt'[a] = attempt[a] /\ grades'[a] = grades[a]
           /\ a = About(w) =>
                /\ attempt'[a] = IF req[w].complete
                                 THEN Flushed(req[w].loaded, "graded", attempt[a])
                                 ELSE attempt[a]
                /\ grades'[a] = grades[a] \cup req[w].questions
      /\ UNCHANGED <<exam, answers, option, lost>>
  BY DEF Marked, ExamsInv, TypeOK
<1>2. attempt'[About(w)] \in {"submitted", "graded"}
  BY <1>1 DEF Gradable, Flushed
<1>3. answers[About(w)] \subseteq Questions /\ req[w].questions \subseteq answers[About(w)]
  <2>1. grades[About(w)] \subseteq answers[About(w)]
    BY DEF ExamsInv, RecordsResolve, Attempts
  <2>2. QED
    BY <2>1 DEF ExamsInv, TypeOK, Marked, Upsertable
<1>4. /\ attempt' \in [Attempts -> AttemptStatus]
      /\ grades' \in [Attempts -> SUBSET Questions]
  BY <1>2, <1>3 DEF Marked, ExamsInv, TypeOK, AttemptStatus
<1>5. Steady
  BY <1>1, <1>2 DEF Steady, exam
<1>6. Stored'
  BY <1>1, <1>4 DEF Stored, Unborn, ExamsInv, TypeOK, exam
<1>7. QED
  BY <1>1, <1>2, <1>3, <1>5, <1>6

LEMMA CommitGradesKeeps ==
  ASSUME ExamsInv, NEW w \in Workers, CommitGrades(w)
  PROVE  ExamsInv' /\ Steady
<1>1. CASE Marked(w)
  <2>1. RecordsResolve'
    <3>1. UNCHANGED <<questions, status>> /\ UNCHANGED <<answers, option>>
      BY <1>1 DEF Marked, exam
    <3>2. ASSUME NEW d \in Exams, NEW s \in Students
          PROVE  /\ grades'[<<d, s>>] \subseteq answers[<<d, s>>]
                 /\ attempt'[<<d, s>>] \in {"none", "in_progress"} => answers[<<d, s>>] = {}
                 /\ attempt'[<<d, s>>] # "none" => status[d] \in ExamStatus
      <4>1. <<d, s>> \in Attempts
        BY DEF Attempts
      <4>2. /\ grades[<<d, s>>] \subseteq answers[<<d, s>>]
            /\ attempt[<<d, s>>] \in {"none", "in_progress"} => answers[<<d, s>>] = {}
            /\ attempt[<<d, s>>] # "none" => status[d] \in ExamStatus
        BY DEF ExamsInv, RecordsResolve
      <4>3. /\ <<d, s>> # About(w) => /\ attempt'[<<d, s>>] = attempt[<<d, s>>]
                                       /\ grades'[<<d, s>>] = grades[<<d, s>>]
            /\ <<d, s>> = About(w) =>
                 /\ attempt'[<<d, s>>] \in {"submitted", "graded"}
                 /\ grades'[<<d, s>>] \subseteq answers[<<d, s>>]
                 /\ attempt[<<d, s>>] # "none"
        BY <4>1, <4>2, <1>1, MarkSplits, MarkedRows DEF Gradable
      <4>4. QED
        BY <4>2, <4>3
    <3>3. QED
      BY <3>1, <3>2 DEF RecordsResolve, ExamsInv
  <2>2. Finish(w)
    BY <1>1 DEF Marked
  <2>3. QED
    BY <1>1, <2>1, <2>2, MarkSplits, MarkedRows, FinishStarts, NoRequestType, CommitKeeps
<1>2. CASE Fail(w)
  BY <1>2, FailKeeps, FailStarts, SteadyUnchanged
<1>3. QED
  BY <1>1, <1>2, MarkSplits

-----------------------------------------------------------------------------
(***************************************************************************)
(* The invariant of Spec.                                                  *)
(***************************************************************************)
LEMMA ExamsInvInit == Init => ExamsInv
<1> SUFFICES ASSUME Init PROVE ExamsInv
  OBVIOUS
<1>1. TypeOK
  BY NoRequestType DEF Init, TypeOK, ExamStatus, AttemptStatus, Own
<1>2. RecordsResolve /\ Unborn
  BY DEF Init, RecordsResolve, Attempts, Unborn
<1>3. \A w \in Workers : req[w].op = "none"
  BY NoRequestType DEF Init
<1>4. QED
  BY <1>1, <1>2, <1>3 DEF ExamsInv, AllHold, Holds

LEMMA AbortKeeps ==
  ASSUME ExamsInv, NEW w \in Workers, Abort(w)
  PROVE  ExamsInv' /\ Steady
BY FinishKeeps, SteadyUnchanged DEF Abort

LEMMA ManageKeeps ==
  ASSUME ExamsInv, NEW w \in Workers, Manage(w)
  PROVE  ExamsInv' /\ Steady
<1>1. ASSUME NEW e \in Exams, NEW t \in ExamStatus, UpdateExam(w, e, t)
      PROVE  ExamsInv' /\ Steady
  BY <1>1, UpdateKeeps, EditStarts, SteadyUnchanged
<1>2. ASSUME SelectQuestions(w) PROVE ExamsInv' /\ Steady
  BY <1>2, SelectKeeps, SelectStarts, SteadyUnchanged
<1>3. ASSUME SaveExam(w) PROVE ExamsInv' /\ Steady
  BY <1>3, SaveKeeps
<1>4. ASSUME NEW e \in Exams, DeleteExam(w, e)
      PROVE  ExamsInv' /\ Steady
  BY <1>4, DeleteKeeps, DeleteStarts, SteadyUnchanged
<1>5. ASSUME CommitDelete(w) PROVE ExamsInv' /\ Steady
  BY <1>5, CommitDeleteKeeps
<1>6. QED
  BY <1>1, <1>2, <1>3, <1>4, <1>5 DEF Manage

LEMMA SitKeeps ==
  ASSUME ExamsInv, NEW w \in Workers, Sit(w)
  PROVE  ExamsInv' /\ Steady
<1>1. ASSUME NEW e \in Exams, NEW s \in Students, StartExam(w, e, s)
      PROVE  ExamsInv' /\ Steady
  BY <1>1, StartExamKeeps, SitStarts, SteadyUnchanged
<1>2. ASSUME NEW e \in Exams, NEW s \in Students, NEW Q \in SUBSET issued,
             NEW picked \in [Q -> issued], SubmitExam(w, e, s, Q, picked)
      PROVE  ExamsInv' /\ Steady
  BY <1>2, SubmitKeeps, SubmitStarts, SteadyUnchanged
<1>3. ASSUME FindAttempt(w) PROVE ExamsInv' /\ Steady
  BY <1>3, FindKeeps, FindSplits, SteadyUnchanged
<1>4. ASSUME CommitStart(w) PROVE ExamsInv' /\ Steady
  BY <1>4, CommitStartKeeps
<1>5. ASSUME ReadAttempt(w) PROVE ExamsInv' /\ Steady
  BY <1>5, ReadKeeps, ReadSplits, SteadyUnchanged
<1>6. ASSUME ValidateAnswers(w) PROVE ExamsInv' /\ Steady
  BY <1>6, ValidateKeeps, ValidateSplits, SteadyUnchanged
<1>7. ASSUME CommitSubmit(w) PROVE ExamsInv' /\ Steady
  BY <1>7, CommitSubmitKeeps
<1>8. QED
  BY <1>1, <1>2, <1>3, <1>4, <1>5, <1>6, <1>7 DEF Sit

LEMMA GradeStepKeeps ==
  ASSUME ExamsInv, NEW w \in Workers, Grade(w)
  PROVE  ExamsInv' /\ Steady
<1>1. ASSUME NEW e \in Exams, NEW s \in Students, NEW Q \in SUBSET issued,
             GradeSubmission(w, e, s, Q)
      PROVE  ExamsInv' /\ Steady
  BY <1>1, GradeKeeps, GradeStarts, SteadyUnchanged
<1>2. ASSUME CountGrades(w) PROVE ExamsInv' /\ Steady
  BY <1>2, CountKeeps, CountSplits, SteadyUnchanged
<1>3. ASSUME CommitGrades(w) PROVE ExamsInv' /\ Steady
  BY <1>3, CommitGradesKeeps
<1>4. QED
  BY <1>1, <1>2, <1>3 DEF Grade

LEMMA ExamsInvStep == ExamsInv /\ [Next]_vars => ExamsInv' /\ Steady
<1> SUFFICES ASSUME ExamsInv, [Next]_vars PROVE ExamsInv' /\ Steady
  OBVIOUS
<1>1. ASSUME NEW e \in Exams, NEW Q \in SUBSET FreshQuestions, CreateExam(e, Q)
      PROVE  ExamsInv' /\ Steady
  BY <1>1, CreateKeeps
<1>2. ASSUME NEW w \in Workers, Manage(w) \/ Sit(w) \/ Grade(w) \/ Abort(w)
      PROVE  ExamsInv' /\ Steady
  BY <1>2, ManageKeeps, SitKeeps, GradeStepKeeps, AbortKeeps
<1>3. CASE UNCHANGED vars
  <2>1. UNCHANGED <<exam, record>> /\ UNCHANGED req
    BY <1>3 DEF vars
  <2>2. Steady
    BY <2>1, SteadyUnchanged
  <2>3. AllHold'
    BY <2>1, <2>2, HoldsStays DEF ExamsInv, AllHold
  <2>4. TypeOK' /\ RecordsResolve' /\ Unborn'
    BY <2>1 DEF exam, record, ExamsInv, TypeOK, RecordsResolve, Unborn
  <2>5. QED
    BY <2>2, <2>3, <2>4 DEF ExamsInv
<1>4. QED
  BY <1>1, <1>2, <1>3 DEF Next

(***************************************************************************)
(* The variables have their types in every reachable state.                *)
(***************************************************************************)
THEOREM ExamsTypeCorrect == Spec => []TypeOK
<1>1. ExamsInv => TypeOK
  BY DEF ExamsInv
<1>2. QED
  BY <1>1, ExamsInvInit, ExamsInvStep, PTL DEF Spec

(***************************************************************************)
(* However edits, deletions, submissions and gradings interleave, no row   *)
(* refers to one that is gone.                                             *)
(***************************************************************************)
THEOREM ExamsRecordsResolve == Spec => []RecordsResolve
<1>1. ExamsInv => RecordsResolve
  BY DEF ExamsInv
<1>2. QED
  BY <1>1, ExamsInvInit, ExamsInvStep, PTL DEF Spec

-----------------------------------------------------------------------------
(***************************************************************************)
(* Question ids are fresh: those of an exam have been issued, two exams    *)
(* share none, and those of an edit under way are nobody else's.           *)
(***************************************************************************)
Editing(w) == req[w].op = "update" /\ req[w].pc \in {"select", "save"}

Fresh ==
  /\ \A e \in Exams : questions[e] \subseteq issued
  /\ \A d, e \in Exams : d # e => questions[d] \cap questions[e] = {}
  /\ \A w \in Workers : Editing(w) =>
       /\ req[w].questions \cap issued = {}
       /\ req[w].old \subseteq issued
       /\ \A d \in Exams : d # req[w].exam => req[w].old \cap questions[d] = {}
  /\ \A v, w \in Workers :
       v # w /\ Editing(v) /\ Editing(w) => req[v].questions \cap req[w].questions = {}

\* An answer goes only with the question of the option it selects.
GoneWithOption ==
  \A a \in Attempts : \A q \in answers[a] \ answers'[a] :
    \E e \in Exams : option[a][q] \in questions[e] \ questions'[e]

\* What a step of w does to the questions when it is not a commit: its edit,
\* if it is one, brings questions nobody has.
Harmless(w, r) ==
  r.op = "update" /\ r.pc \in {"select", "save"} =>
    /\ r.questions \cap issued = {} /\ r.old \subseteq issued
    /\ \A d \in Exams : d # r.exam => r.old \cap questions[d] = {}
    /\ \A v \in Workers : v # w /\ Editing(v) => r.questions \cap req[v].questions = {}

LEMMA QuietFresh ==
  ASSUME TypeOK, Fresh, NEW w \in Workers, NEW r \in Request, Start(w, r),
         UNCHANGED <<exam, record>>, Harmless(w, r)
  PROVE  Fresh' /\ GoneWithOption
<1>1. UNCHANGED <<questions, issued, answers>>
  BY DEF exam, record
<1>2. req'[w] = r /\ \A v \in Workers : v # w => req'[v] = req[v]
  BY OthersKeep
<1>3. \A v \in Workers : v # w => (Editing(v)' <=> Editing(v))
  BY <1>2 DEF Editing
<1>4. Editing(w)' => r.op = "update" /\ r.pc \in {"select", "save"}
  BY <1>2 DEF Editing
<1>5. \A v \in Workers : Editing(v)' =>
        /\ req'[v].questions \cap issued = {}
        /\ req'[v].old \subseteq issued
        /\ \A d \in Exams : d # req'[v].exam => req'[v].old \cap questions[d] = {}
  BY <1>2, <1>3, <1>4 DEF Fresh, Harmless
<1>6. \A u, v \in Workers : u # v /\ Editing(u)' /\ Editing(v)' =>
        req'[u].questions \cap req'[v].questions = {}
  BY <1>2, <1>3, <1>4 DEF Fresh, Harmless
<1>7. QED
  BY <1>1, <1>5, <1>6 DEF Fresh, GoneWithOption

\* What a commit of w that ends its request has to show.
LEMMA CommitFresh ==
  ASSUME TypeOK, Fresh, NEW w \in Workers, NEW e \in Exams, NEW Q, NEW N,
         Start(w, NoRequest),
         questions' = [questions EXCEPT ![e] = (@ \ Q) \cup N],
         issued' = issued \cup N, N \cap issued = {},
         \A v \in Workers : v # w /\ Editing(v) => req[v].questions \cap N = {}
  PROVE  Fresh'
<1>1. /\ \A d \in Exams \ {e} : questions'[d] = questions[d]
      /\ questions'[e] = (questions[e] \ Q) \cup N
  BY DEF TypeOK
<1>2. /\ \A v \in Workers : v # w => req'[v] = req[v]
      /\ ~ Editing(w)'
  BY OthersKeep, NoRequestType DEF Editing
<1>3. \A v \in Workers : Editing(v)' => v # w /\ Editing(v) /\ req'[v] = req[v]
  BY <1>2 DEF Editing
<1>4. \A d \in Exams : questions[d] \subseteq issued /\ questions'[d] \subseteq issued'
  BY <1>1 DEF Fresh
<1>5. \A c, d \in Exams : c # d => questions'[c] \cap questions'[d] = {}
  BY <1>1, <1>4 DEF Fresh
<1>6. \A v \in Workers : Editing(v)' =>
        /\ req'[v].questions \cap issued' = {}
        /\ req'[v].old \subseteq issued'
        /\ \A d \in Exams : d # req'[v].exam => req'[v].old \cap questions'[d] = {}
  BY <1>1, <1>3 DEF Fresh
<1>7. \A u, v \in Workers : u # v /\ Editing(u)' /\ Editing(v)' =>
        req'[u].questions \cap req'[v].questions = {}
  BY <1>3 DEF Fresh
<1>8. QED
  BY <1>4, <1>5, <1>6, <1>7 DEF Fresh

LEMMA CreateFresh ==
  ASSUME ExamsInv, Fresh, NEW e \in Exams, NEW Q \in SUBSET FreshQuestions, CreateExam(e, Q)
  PROVE  Fresh' /\ GoneWithOption
<1>1. /\ \A d \in Exams \ {e} : questions'[d] = questions[d]
      /\ questions'[e] = Q /\ issued' = issued \cup Q
      /\ UNCHANGED <<answers, req>>
  BY DEF CreateExam, ExamsInv, TypeOK, record
<1>2. /\ Q \cap issued = {}
      /\ \A v \in Workers : Q \cap req[v].questions = {}
  BY DEF FreshQuestions
<1>3. \A v \in Workers : Editing(v)' <=> Editing(v)
  BY <1>1 DEF Editing
<1>4. QED
  BY <1>1, <1>2, <1>3 DEF Fresh, GoneWithOption

LEMMA UpdateFresh ==
  ASSUME ExamsInv, Fresh, NEW w \in Workers, NEW e \in Exams, NEW t \in ExamStatus,
         UpdateExam(w, e, t)
  PROVE  Fresh' /\ GoneWithOption
<1>1. UNCHANGED <<exam, record>> /\ status[e] \in ExamStatus \cup AttemptStatus
  BY DEF UpdateExam, MayMoveTo, Editable
<1>2. ASSUME Start(w, [Ask("update", "save", e, "none") EXCEPT !.loaded = status[e], !.target = t])
      PROVE  \E r \in Request : Start(w, r) /\ Harmless(w, r)
  <2> DEFINE ask == Ask("update", "save", e, "none")
             r == [ask EXCEPT !.loaded = status[e], !.target = t]
  <2>1. ask \in Request /\ ask.old = {} /\ ask.questions = {}
    BY AskType DEF Ops, Pcs, Ask
  <2> HIDE DEF ask
  <2>2. r \in Request /\ r.old = {} /\ r.questions = {}
    BY <1>1, <2>1 DEF Request
  <2>3. QED
    BY <1>2, <2>2 DEF Harmless, ask
<1>3. ASSUME NEW Q \in SUBSET FreshQuestions,
             Start(w, [Ask("update", "select", e, "none")
                         EXCEPT !.loaded = status[e], !.target = t, !.questions = Q])
      PROVE  \E r \in Request : Start(w, r) /\ Harmless(w, r)
  <2> DEFINE ask == Ask("update", "select", e, "none")
             r == [ask EXCEPT !.loaded = status[e], !.target = t, !.questions = Q]
  <2>1. ask \in Request /\ ask.old = {}
    BY AskType DEF Ops, Pcs, Ask
  <2>2. /\ Q \in SUBSET Questions /\ Q \cap issued = {}
        /\ \A v \in Workers : Q \cap req[v].questions = {}
    BY DEF FreshQuestions
  <2> HIDE DEF ask
  <2>3. r \in Request /\ r.old = {} /\ r.questions = Q
    BY <1>1, <2>1, <2>2 DEF Request
  <2>4. QED
    BY <1>3, <2>2, <2>3 DEF Harmless, ask
<1>4. \E r \in Request : Start(w, r) /\ Harmless(w, r)
  BY <1>2, <1>3 DEF UpdateExam
<1>5. QED
  BY <1>1, <1>4, QuietFresh DEF ExamsInv

LEMMA SelectFresh ==
  ASSUME ExamsInv, Fresh, NEW w \in Workers, SelectQuestions(w)
  PROVE  Fresh' /\ GoneWithOption
<1> DEFINE r == Selected(req[w])
<1>1. /\ Start(w, r) /\ UNCHANGED <<exam, record>> /\ r \in Request
      /\ req[w] \in Request /\ Editing(w) /\ req[w].exam \in Exams /\ r.exam = req[w].exam
  BY SelectStarts, SelectedType DEF Editing
<1>2. r.questions = req[w].questions /\ r.old = questions[req[w].exam]
  BY <1>1 DEF Selected, Request
<1> HIDE DEF r
<1>3. /\ req[w].questions \cap issued = {} /\ questions[req[w].exam] \subseteq issued
      /\ \A d \in Exams : d # req[w].exam => questions[req[w].exam] \cap questions[d] = {}
  BY <1>1 DEF Fresh
<1>4. \A v \in Workers : v # w /\ Editing(v) => r.questions \cap req[v].questions = {}
  BY <1>1, <1>2 DEF Fresh
<1>5. Harmless(w, r)
  BY <1>1, <1>2, <1>3, <1>4 DEF Harmless
<1>6. QED
  BY <1>1, <1>5, QuietFresh DEF ExamsInv

\* The answers that go with a commit select an option of a question that goes.
LEMMA CascadeGone ==
  ASSUME ExamsInv, Fresh, NEW e \in Exams, NEW Q, NEW N, Removable(Q), Cascade(Q),
         questions' = [questions EXCEPT ![e] = (@ \ Q) \cup N],
         N \cap issued = {}, \A d \in Exams : d # e => Q \cap questions[d] = {}
  PROVE  GoneWithOption
<1> SUFFICES ASSUME NEW a \in Attempts, NEW q \in answers[a] \ answers'[a]
             PROVE  \E d \in Exams : option[a][q] \in questions[d] \ questions'[d]
  BY DEF GoneWithOption
<1>1. option[a][q] \in Q
  BY CascadeRows
<1>2. PICK d \in Exams : option[a][q] \in questions[d]
  BY DEF ExamsInv, RecordsResolve, Attempts
<1>3. d = e
  BY <1>1, <1>2
<1>4. option[a][q] \notin N
  BY <1>2 DEF Fresh
<1>5. questions'[e] = (questions[e] \ Q) \cup N
  BY DEF ExamsInv, TypeOK
<1>6. QED
  BY <1>1, <1>2, <1>3, <1>4, <1>5

LEMMA SaveFresh ==
  ASSUME ExamsInv, Fresh, NEW w \in Workers, SaveExam(w)
  PROVE  Fresh' /\ GoneWithOption
<1>1. Editing(w) /\ req[w].exam \in Exams /\ (Saved(w) \/ Fail(w))
  BY SaveSplits DEF Editing
<1>2. CASE Saved(w)
  <2> DEFINE Q == req[w].old
             N == req[w].questions
             e == req[w].exam
  <2>1. /\ questions' = [questions EXCEPT ![e] = (@ \ Q) \cup N]
        /\ issued' = issued \cup N /\ Removable(Q) /\ Cascade(Q) /\ Finish(w)
    BY <1>2 DEF Saved
  <2>2. N \cap issued = {} /\ \A d \in Exams : d # e => Q \cap questions[d] = {}
    BY <1>1 DEF Fresh
  <2>3. ASSUME NEW v \in Workers, v # w, Editing(v) PROVE req[v].questions \cap N = {}
    BY <1>1, <2>3 DEF Fresh
  <2>4. Start(w, NoRequest) /\ e \in Exams
    BY <1>1, <2>1, FinishStarts
  <2> HIDE DEF Q, N, e
  <2>5. GoneWithOption
    BY <2>1, <2>2, <2>4, CascadeGone
  <2>6. Fresh'
    BY <2>1, <2>2, <2>3, <2>4, CommitFresh DEF ExamsInv
  <2>7. QED
    BY <2>5, <2>6
<1>3. CASE Fail(w)
  BY <1>3, FailStarts, QuietFresh DEF Harmless, ExamsInv
<1>4. QED
  BY <1>1, <1>2, <1>3

LEMMA DeleteFresh ==
  ASSUME ExamsInv, Fresh, NEW w \in Workers, CommitDelete(w)
  PROVE  Fresh' /\ GoneWithOption
<1>1. req[w].exam \in Exams /\ (Deleted(w) \/ Fail(w))
  BY DeleteSplits
<1>2. CASE Deleted(w)
  <2> DEFINE e == req[w].exam
             Q == questions[e]
  <2>1. /\ questions' = [questions EXCEPT ![e] = (@ \ Q) \cup {}]
        /\ issued' = issued \cup {} /\ Removable(Q) /\ Cascade(Q) /\ Finish(w)
    BY <1>2 DEF Deleted, ExamsInv, TypeOK
  <2>2. \A d \in Exams : d # e => Q \cap questions[d] = {}
    BY <1>1 DEF Fresh
  <2>3. Start(w, NoRequest) /\ e \in Exams
    BY <1>1, <2>1, FinishStarts
  <2> HIDE DEF Q, e
  <2>4. GoneWithOption
    BY <2>1, <2>2, <2>3, CascadeGone
  <2>5. {} \cap issued = {} /\ \A v \in Workers : req[v].questions \cap {} = {}
    OBVIOUS
  <2>6. Fresh'
    BY <2>1, <2>3, <2>5, CommitFresh DEF ExamsInv
  <2>7. QED
    BY <2>4, <2>6
<1>3. CASE Fail(w)
  BY <1>3, FailStarts, QuietFresh DEF Harmless, ExamsInv
<1>4. QED
  BY <1>1, <1>2, <1>3

\* Every other step of w leaves the questions alone, takes no answer, and does
\* not turn its request into an edit.
LEMMA ElseFresh ==
  ASSUME ExamsInv, Fresh, NEW w \in Workers, NEW r \in Request, Start(w, r),
         r.op # "update" \/ r.pc \notin {"select", "save"}, UNCHANGED exam,
         \A a \in Attempts : answers[a] \subseteq answers'[a]
  PROVE  Fresh' /\ GoneWithOption
<1>1. UNCHANGED <<questions, issued>>
  BY DEF exam
<1>2. req'[w] = r /\ \A v \in Workers : v # w => req'[v] = req[v]
  BY OthersKeep DEF ExamsInv
<1>3. \A v \in Workers : Editing(v)' => Editing(v) /\ req'[v] = req[v]
  BY <1>2 DEF Editing
<1>4. Fresh'
  BY <1>1, <1>3 DEF Fresh
<1>5. QED
  BY <1>4 DEF GoneWithOption

LEMMA FinishFresh ==
  ASSUME ExamsInv, Fresh, NEW w \in Workers, Finish(w) \/ Fail(w), UNCHANGED exam,
         \A a \in Attempts : answers[a] \subseteq answers'[a]
  PROVE  Fresh' /\ GoneWithOption
BY FinishStarts, FailStarts, NoRequestType, ElseFresh

LEMMA ManageFresh ==
  ASSUME ExamsInv, Fresh, NEW w \in Workers, Manage(w)
  PROVE  Fresh' /\ GoneWithOption
<1>1. ASSUME NEW e \in Exams, DeleteExam(w, e)
      PROVE  Fresh' /\ GoneWithOption
  BY <1>1, DeleteStarts, ElseFresh DEF record
<1>2. QED
  BY <1>1, UpdateFresh, SelectFresh, SaveFresh, DeleteFresh DEF Manage

LEMMA SitFresh ==
  ASSUME ExamsInv, Fresh, NEW w \in Workers, Sit(w)
  PROVE  Fresh' /\ GoneWithOption
<1>1. ASSUME NEW e \in Exams, NEW s \in Students, StartExam(w, e, s)
      PROVE  Fresh' /\ GoneWithOption
  BY <1>1, SitStarts, ElseFresh DEF record
<1>2. ASSUME NEW e \in Exams, NEW s \in Students, NEW Q \in SUBSET issued,
             NEW picked \in [Q -> issued], SubmitExam(w, e, s, Q, picked)
      PROVE  Fresh' /\ GoneWithOption
  BY <1>2, SubmitStarts, ElseFresh DEF record
<1>3. ASSUME NEW pc \in {"validate", "save"}, req[w] \in Request,
             req[w].op \in {"start", "submit"}, UNCHANGED <<exam, record>>,
             Start(w, Moved(req[w], pc)) \/ Finish(w)
      PROVE  Fresh' /\ GoneWithOption
  <2>1. Moved(req[w], pc) \in Request /\ Moved(req[w], pc).op = req[w].op
    BY <1>3, MovedType DEF Pcs
  <2>2. QED
    BY <1>3, <2>1, ElseFresh, FinishFresh DEF record
<1>4. ASSUME FindAttempt(w) \/ ReadAttempt(w) \/ ValidateAnswers(w)
      PROVE  Fresh' /\ GoneWithOption
  BY <1>3, <1>4, FindSplits, ReadSplits, ValidateSplits
<1>5. ASSUME CommitStart(w) PROVE Fresh' /\ GoneWithOption
  BY <1>5, StartSplits, FailStarts, FinishFresh DEF Started, record
<1>6. ASSUME CommitSubmit(w) PROVE Fresh' /\ GoneWithOption
  <2>1. CASE Submitted(w)
    BY <1>6, <2>1, SubmitSplits, SubmittedRows, FinishFresh DEF Submitted
  <2>2. CASE Fail(w)
    BY <2>2, FailStarts, FinishFresh DEF record
  <2>3. QED
    BY <1>6, <2>1, <2>2, SubmitSplits
<1>7. QED
  BY <1>1, <1>2, <1>4, <1>5, <1>6 DEF Sit

LEMMA GradeFresh ==
  ASSUME ExamsInv, Fresh, NEW w \in Workers, Grade(w)
  PROVE  Fresh' /\ GoneWithOption
<1>1. ASSUME NEW e \in Exams, NEW s \in Students, NEW Q \in SUBSET issued,
             GradeSubmission(w, e, s, Q)
      PROVE  Fresh' /\ GoneWithOption
  BY <1>1, GradeStarts, ElseFresh DEF Grading, record
<1>2. ASSUME CountGrades(w) PROVE Fresh' /\ GoneWithOption
  <2>1. CASE Start(w, Counted(req[w], About(w), Complete(w)))
    BY <1>2, <2>1, CountSplits, CountedType, ElseFresh DEF record
  <2>2. CASE Finish(w)
    BY <1>2, <2>2, CountSplits, FinishFresh DEF record
  <2>3. QED
    BY <1>2, <2>1, <2>2, CountSplits
<1>3. ASSUME CommitGrades(w) PROVE Fresh' /\ GoneWithOption
  BY <1>3, MarkSplits, FailStarts, FinishFresh DEF Marked, record
<1>4. QED
  BY <1>1, <1>2, <1>3 DEF Grade

LEMMA FreshInit == Init => Fresh
BY NoRequestType DEF Init, Fresh, Editing

LEMMA FreshStep == ExamsInv /\ Fresh /\ [Next]_vars => Fresh' /\ GoneWithOption
<1> SUFFICES ASSUME ExamsInv, Fresh, [Next]_vars PROVE Fresh' /\ GoneWithOption
  OBVIOUS
<1>1. ASSUME NEW e \in Exams, NEW Q \in SUBSET FreshQuestions, CreateExam(e, Q)
      PROVE  Fresh' /\ GoneWithOption
  BY <1>1, CreateFresh
<1>2. ASSUME NEW w \in Workers, Abort(w) PROVE Fresh' /\ GoneWithOption
  BY <1>2, FinishFresh DEF Abort, record
<1>3. ASSUME NEW w \in Workers, Manage(w) \/ Sit(w) \/ Grade(w)
      PROVE  Fresh' /\ GoneWithOption
  BY <1>3, ManageFresh, SitFresh, GradeFresh
<1>4. CASE UNCHANGED vars
  BY <1>4 DEF vars, exam, record, Fresh, Editing, GoneWithOption
<1>5. QED
  BY <1>1, <1>2, <1>3, <1>4 DEF Next

(***************************************************************************)
(* No step of anyone removes a grade or reopens an attempt; an answer goes *)
(* only ungraded, with the question of the option it selects, and that is  *)
(* not the question it answers.                                            *)
(***************************************************************************)
LEMMA LostStep ==
  ExamsInv /\ Fresh /\ [Next]_vars =>
    [\A a \in Attempts :
       /\ grades[a] \subseteq grades'[a]
       /\ attempt[a] \in {"submitted", "graded"} => attempt'[a] \in {"submitted", "graded"}
       /\ \A q \in answers[a] \ answers'[a] :
            /\ q \notin grades[a]
            /\ option[a][q] # q
            /\ \E e \in Exams : option[a][q] \in questions[e] \ questions'[e]]_vars
BY ExamsInvStep, FreshStep DEF Steady, GoneWithOption

THEOREM ExamsLostOnlyWithItsOption == Spec => LostOnlyWithItsOption
BY ExamsInvInit, ExamsInvStep, FreshInit, FreshStep, LostStep, PTL
   DEF Spec, LostOnlyWithItsOption

-----------------------------------------------------------------------------
(***************************************************************************)
(* When clients are sequential, what a worker has read about the rows of   *)
(* its client is still so, but for answers the database has taken: what a  *)
(* grading has counted is still an upper bound, and exact if it has lost   *)
(* none.                                                                   *)
(***************************************************************************)
All(w) == grades[About(w)] \cup req[w].questions

Current(w) ==
  /\ req[w].op = "update" /\ req[w].pc \in {"select", "save"} =>
       /\ status[req[w].exam] \in {req[w].loaded, "deleted"}
       /\ req[w].loaded \in Editable
       /\ EXAM_STATUS_ORDER[req[w].loaded] <= EXAM_STATUS_ORDER[req[w].target]
  /\ At(w, "start", "save") => attempt[About(w)] = "none"
  /\ At(w, "start", "failed") => req[w].exam \in Exams /\ status[req[w].exam] = "deleted"
  /\ req[w].op = "submit" /\ req[w].pc \in {"validate", "save"} =>
       attempt[About(w)] = "in_progress"
  /\ req[w].op = "grade" /\ req[w].pc \in {"count", "save"} =>
       req[w].loaded = attempt[About(w)]
  /\ At(w, "grade", "save") =>
       /\ req[w].complete => All(w) # {} /\ answers[About(w)] \subseteq All(w)
       /\ About(w) \notin lost /\ ~ req[w].complete /\ answers[About(w)] # {}
            => answers[About(w)] # All(w)

AllCurrent == \A w \in Workers : Current(w)

(***************************************************************************)
(* The inductive invariant of SequentialSpec.                              *)
(***************************************************************************)
SequentialInv ==
  ExamsInv /\ SequentialClients /\ AllCurrent /\ GradedIsMarked /\ MarkedIsGraded

\* An attempt gets no answer and changes none, and one that loses an answer
\* counts as lost.
Kept(a) ==
  /\ answers'[a] \subseteq answers[a]
  /\ \A q \in answers'[a] : option'[a][q] = option[a][q]
  /\ answers'[a] # answers[a] => a \in lost'

\* What a step of w does to the rows other workers may have read.
Lawful(w) ==
  /\ lost \subseteq lost'
  /\ \A e \in Exams : status'[e] # status[e] =>
       /\ status[e] # "deleted"
       /\ status'[e] = "deleted" \/ (~ Idle(w) /\ req[w].op = "update" /\ req[w].exam = e)
  /\ \A a \in Attempts :
       /\ attempt'[a] # attempt[a] =>
            /\ ~ Idle(w) /\ About(w) = a
            /\ \/ req[w].op = "start" /\ attempt[a] = "none"
               \/ req[w].op = "submit" /\ attempt[a] = "in_progress"
               \/ req[w].op = "grade" /\ Gradable(a)
       /\ Kept(a) \/ (~ Idle(w) /\ About(w) = a /\ req[w].op = "submit"
                         /\ attempt[a] = "in_progress")
       /\ grades'[a] # grades[a] => ~ Idle(w) /\ About(w) = a /\ req[w].op = "grade"

\* What a step does to an exam: nothing once published, except delete it.
StatusStep(e) ==
  \/ status'[e] = status[e] /\ (questions'[e] = questions[e] \/ status[e] \in Editable)
  \/ status[e] = "none" /\ status'[e] = "draft"
  \/ status'[e] = "deleted" /\ ~ Attempted(e)
  \/ /\ status[e] \in Editable /\ status'[e] \in ExamStatus
     /\ EXAM_STATUS_ORDER[status[e]] <= EXAM_STATUS_ORDER[status'[e]]

Submitting(a) == \E w \in Workers : req[w].op = "submit" /\ ~ Idle(w) /\ About(w) = a

\* What a step does to an attempt: it is submitted once and then graded, and
\* its submission begins while the exam is open.
AttemptStep(a) ==
  /\ \/ attempt'[a] = attempt[a] \/ attempt[a] = "none" \/ Gradable(a)
     \/ attempt[a] = "in_progress" /\ Submitting(a)
  /\ Kept(a) \/ attempt[a] = "in_progress"
  /\ Submitting(a)' => Submitting(a) \/ status[a[1]] = "open"

Tidy == (\A e \in Exams : StatusStep(e)) /\ (\A a \in Attempts : AttemptStep(a))

\* A submission under way after a step of w was so before, or begins now.
Begins(w) ==
  req'[w].op = "submit" /\ req'[w].pc \notin {"idle", "failed"} =>
    \/ req[w].op = "submit" /\ ~ Idle(w)
       /\ req'[w].exam = req[w].exam /\ req'[w].student = req[w].student
    \/ status[req'[w].exam] = "open"

-----------------------------------------------------------------------------
(***************************************************************************)
(* A step of w leaves what the others have read as it is.                  *)
(***************************************************************************)
LEMMA CurrentStays ==
  ASSUME SequentialInv, NEW w \in Workers, NEW v \in Workers, v # w, Lawful(w),
         req'[v] = req[v]
  PROVE  Current(v)'
<1>1. Current(v) /\ Holds(v) /\ (~ Idle(v) /\ ~ Idle(w) => ~ SameClient(v, w))
  BY DEF SequentialInv, AllCurrent, ExamsInv, AllHold, SequentialClients
<1>2. About(v)' = About(v)
  BY DEF About
<1>3. ASSUME req[v].op = "update", req[v].pc \in {"select", "save"}
      PROVE  status'[req[v].exam] \in {req[v].loaded, "deleted"}
  <2>1. req[v].exam \in Exams /\ ~ Idle(v)
    BY <1>1, <1>3 DEF Holds, Idle
  <2>2. status[req[v].exam] \in {req[v].loaded, "deleted"}
    BY <1>1, <1>3 DEF Current
  <2>3. CASE status'[req[v].exam] = status[req[v].exam]
    BY <2>2, <2>3
  <2>4. CASE status'[req[v].exam] # status[req[v].exam]
    <3>1. ~ (~ Idle(w) /\ req[w].op = "update" /\ req[w].exam = req[v].exam)
      BY <1>1, <1>3, <2>1 DEF SameClient
    <3>2. QED
      BY <2>1, <2>4, <3>1 DEF Lawful
  <2>5. QED
    BY <2>3, <2>4
<1>4. ASSUME req[v].op = "start", req[v].pc = "save"
      PROVE  attempt'[About(v)] = "none"
  <2>1. About(v) \in Attempts /\ ~ Idle(v) /\ attempt[About(v)] = "none"
    BY <1>1, <1>4 DEF Holds, Idle, Current, At
  <2>2. ~ (~ Idle(w) /\ req[w].op = "start" /\ About(w) = About(v))
    BY <1>1, <1>4, <2>1 DEF SameClient, About
  <2>3. QED
    BY <2>1, <2>2 DEF Lawful, Gradable
<1>5. ASSUME req[v].op = "start", req[v].pc = "failed"
      PROVE  req[v].exam \in Exams /\ status'[req[v].exam] = "deleted"
  BY <1>1, <1>5 DEF Current, At, Lawful
<1>6. ASSUME req[v].op = "submit", req[v].pc \in {"validate", "save"}
      PROVE  attempt'[About(v)] = "in_progress"
  <2>1. About(v) \in Attempts /\ ~ Idle(v) /\ attempt[About(v)] = "in_progress"
    BY <1>1, <1>6 DEF Holds, Idle, Current
  <2>2. ~ (~ Idle(w) /\ req[w].op = "submit" /\ About(w) = About(v))
    BY <1>1, <1>6, <2>1 DEF SameClient, About
  <2>3. QED
    BY <2>1, <2>2 DEF Lawful, Gradable
<1>7. ASSUME req[v].op = "grade", req[v].pc \in {"count", "save"}
      PROVE  /\ attempt'[About(v)] = attempt[About(v)]
             /\ Kept(About(v)) /\ lost \subseteq lost'
             /\ grades'[About(v)] = grades[About(v)]
  <2>1. About(v) \in Attempts /\ ~ Idle(v) /\ Gradable(About(v))
    BY <1>1, <1>7 DEF Holds, Idle
  <2>2. ~ (~ Idle(w) /\ req[w].op = "grade" /\ About(w) = About(v))
    BY <1>1, <1>7, <2>1 DEF SameClient, About
  <2>3. QED
    BY <2>1, <2>2 DEF Lawful, Gradable
<1>8. ASSUME req[v].op = "grade", req[v].pc = "save"
      PROVE  /\ req[v].complete => All(v)' # {} /\ answers'[About(v)] \subseteq All(v)'
             /\ About(v) \notin lost' /\ ~ req[v].complete /\ answers'[About(v)] # {}
                  => answers'[About(v)] # All(v)'
  <2>1. All(v)' = All(v)
    BY <1>2, <1>7, <1>8 DEF All
  <2>2. QED
    BY <1>1, <1>7, <1>8, <2>1 DEF Current, At, Kept
<1>9. QED
  BY <1>1, <1>2, <1>3, <1>4, <1>5, <1>6, <1>7, <1>8 DEF Current, At

LEMMA SubmittingFrame ==
  ASSUME TypeOK, NEW w \in Workers, NEW r \in Request, Start(w, r), Begins(w), NEW a \in Attempts
  PROVE  Submitting(a)' => Submitting(a) \/ status[a[1]] = "open"
<1> SUFFICES ASSUME NEW v \in Workers, req'[v].op = "submit",
                    req'[v].pc \notin {"idle", "failed"},
                    <<req'[v].exam, req'[v].student>> = a
             PROVE  Submitting(a) \/ status[a[1]] = "open"
  BY DEF Submitting, Idle, About
<1>1. CASE v # w
  BY <1>1, OthersKeep DEF Submitting, Idle, About
<1>2. CASE v = w
  BY <1>2 DEF Begins, Submitting, About
<1>3. QED
  BY <1>1, <1>2

\* What a step of w has to show to keep the invariant.
LEMMA SequentialFrame ==
  ASSUME SequentialInv, ExamsInv', SequentialClients', NEW w \in Workers, NEW r \in Request,
         Start(w, r), Lawful(w), Begins(w), Current(w)',
         \A e \in Exams : StatusStep(e), GradedIsMarked', MarkedIsGraded'
  PROVE  SequentialInv' /\ Tidy
<1>1. AllCurrent'
  <2>1. ASSUME NEW v \in Workers, v # w PROVE Current(v)'
    BY <2>1, CurrentStays, OthersKeep DEF SequentialInv, ExamsInv
  <2>2. QED
    BY <2>1 DEF AllCurrent
<1>2. ASSUME NEW a \in Attempts PROVE AttemptStep(a)
  <2>1. Submitting(a)' => Submitting(a) \/ status[a[1]] = "open"
    BY SubmittingFrame DEF SequentialInv, ExamsInv
  <2>2. ~ Idle(w) /\ About(w) = a /\ req[w].op = "submit" => Submitting(a)
    BY DEF Submitting
  <2>3. QED
    BY <2>1, <2>2 DEF AttemptStep, Lawful
<1>3. QED
  BY <1>1, <1>2 DEF SequentialInv, Tidy

LEMMA QuietLawful ==
  ASSUME UNCHANGED <<exam, record>>, NEW w
  PROVE  Lawful(w) /\ \A e \in Exams : StatusStep(e)
BY DEF exam, record, Lawful, Kept, StatusStep

\* A step that only changes the request has less to show.
LEMMA QuietFrame ==
  ASSUME SequentialInv, ExamsInv', SequentialClients', NEW w \in Workers, NEW r \in Request,
         Start(w, r), UNCHANGED <<exam, record>>, Begins(w), Current(w)'
  PROVE  SequentialInv' /\ Tidy
<1>1. GradedIsMarked' /\ MarkedIsGraded'
  BY DEF SequentialInv, GradedIsMarked, MarkedIsGraded, record
<1>2. QED
  BY <1>1, QuietLawful, SequentialFrame

LEMMA FinishFrame ==
  ASSUME SequentialInv, ExamsInv', SequentialClients', NEW w \in Workers, Finish(w),
         UNCHANGED <<exam, record>>
  PROVE  SequentialInv' /\ Tidy
<1>1. Start(w, NoRequest) /\ req'[w] = NoRequest
  BY FinishStarts DEF SequentialInv
<1>2. Current(w)' /\ Begins(w)
  BY <1>1, NoRequestType DEF Current, Begins, At
<1>3. QED
  BY <1>1, <1>2, NoRequestType, QuietFrame

LEMMA FailFrame ==
  ASSUME SequentialInv, ExamsInv', SequentialClients', NEW w \in Workers, Fail(w),
         req[w].op = "start" => req[w].exam \in Exams /\ status[req[w].exam] = "deleted"
  PROVE  SequentialInv' /\ Tidy
<1>1. /\ Start(w, Failed(w)) /\ UNCHANGED <<exam, record>> /\ Failed(w) \in Request
      /\ req'[w] = Failed(w)
      /\ Failed(w).op = req[w].op /\ Failed(w).pc = "failed" /\ Failed(w).exam = req[w].exam
  BY FailStarts DEF SequentialInv
<1>2. Current(w)' /\ Begins(w)
  BY <1>1 DEF Current, Begins, At, exam
<1>3. QED
  BY <1>1, <1>2, QuietFrame

-----------------------------------------------------------------------------
(***************************************************************************)
(* Every action keeps the invariant of SequentialSpec, and is tidy.        *)
(***************************************************************************)
LEMMA CreateTidy ==
  ASSUME SequentialInv, ExamsInv', SequentialClients',
         NEW e \in Exams, NEW Q \in SUBSET FreshQuestions, CreateExam(e, Q)
  PROVE  SequentialInv' /\ Tidy
<1>1. /\ status[e] = "none" /\ UNCHANGED record /\ UNCHANGED req
      /\ UNCHANGED <<attempt, answers, option, grades, lost>>
      /\ \A d \in Exams : status'[d] = IF d = e THEN "draft" ELSE status[d]
      /\ \A d \in Exams \ {e} : questions'[d] = questions[d]
  BY DEF CreateExam, record, SequentialInv, ExamsInv, TypeOK
<1>2. ASSUME NEW v \in Workers PROVE Current(v)'
  <2>1. Current(v) /\ Holds(v)
    BY DEF SequentialInv, AllCurrent, ExamsInv, AllHold
  <2>2. req[v].op = "update" /\ req[v].pc \in {"select", "save"}
          => req[v].exam \in Exams /\ status'[req[v].exam] = status[req[v].exam]
    BY <1>1, <2>1 DEF Current, Holds, Editable, ExamStatus
  <2>3. At(v, "start", "failed") => status'[req[v].exam] = status[req[v].exam]
    BY <1>1, <2>1 DEF Current
  <2>4. QED
    BY <1>1, <2>1, <2>2, <2>3 DEF Current, At, About, All
<1>3. \A d \in Exams : StatusStep(d)
  BY <1>1 DEF StatusStep
<1>4. \A a \in Attempts : AttemptStep(a)
  BY <1>1 DEF AttemptStep, Kept, Submitting, Idle, About
<1>5. GradedIsMarked' /\ MarkedIsGraded'
  BY <1>1 DEF SequentialInv, GradedIsMarked, MarkedIsGraded
<1>6. QED
  BY <1>2, <1>3, <1>4, <1>5 DEF SequentialInv, AllCurrent, Tidy

LEMMA UpdateTidy ==
  ASSUME SequentialInv, ExamsInv', SequentialClients', NEW w \in Workers,
         NEW e \in Exams, NEW t \in ExamStatus, UpdateExam(w, e, t)
  PROVE  SequentialInv' /\ Tidy
<1>1. PICK r \in Request : Start(w, r) /\ Edit(r, e, t)
  BY EditStarts
<1>2. /\ req'[w] = r /\ UNCHANGED <<exam, record>> /\ UNCHANGED status
      /\ MayMoveTo(e, t) /\ status[e] \in Editable
  BY <1>1, EditStarts, OthersKeep DEF SequentialInv, ExamsInv, exam
<1>3. Current(w)' /\ Begins(w)
  BY <1>1, <1>2 DEF Edit, MayMoveTo, Current, Begins, At
<1>4. QED
  BY <1>1, <1>2, <1>3, QuietFrame

LEMMA SelectTidy ==
  ASSUME SequentialInv, ExamsInv', SequentialClients', NEW w \in Workers, SelectQuestions(w)
  PROVE  SequentialInv' /\ Tidy
<1> DEFINE r == Selected(req[w])
<1>1. /\ Start(w, r) /\ UNCHANGED <<exam, record>> /\ UNCHANGED status
      /\ req[w].op = "update" /\ req[w].pc = "select" /\ Current(w)
      /\ r \in Request /\ r.op = "update" /\ r.pc = "save" /\ r.exam = req[w].exam
      /\ r.target = req[w].target /\ r.loaded = req[w].loaded
  BY SelectStarts, SelectedType DEF SequentialInv, AllCurrent, exam
<1> HIDE DEF r
<1>2. req'[w] = r
  BY <1>1, OthersKeep DEF SequentialInv, ExamsInv
<1>3. Current(w)' /\ Begins(w)
  BY <1>1, <1>2 DEF Current, Begins, At
<1>4. QED
  BY <1>1, <1>3, QuietFrame

\* What the foreign keys let a deletion take is answers without a grade, and
\* the attempt counts as lost.
LEMMA CascadeLawful ==
  ASSUME SequentialInv, NEW Q, Removable(Q), Cascade(Q)
  PROVE  /\ GradedIsMarked' /\ MarkedIsGraded' /\ lost \subseteq lost'
         /\ \A a \in Attempts : Kept(a) /\ attempt'[a] = attempt[a] /\ grades'[a] = grades[a]
<1>1. /\ lost \subseteq lost' /\ UNCHANGED <<attempt, grades>>
      /\ \A a \in Attempts :
           /\ answers'[a] \subseteq answers[a] /\ grades[a] \subseteq answers'[a]
           /\ \A q \in answers'[a] : option'[a][q] = option[a][q]
           /\ answers'[a] # answers[a] => a \in lost'
  BY CascadeRows DEF SequentialInv
<1>2. \A a \in Attempts : Kept(a)
  BY <1>1 DEF Kept
<1>3. GradedIsMarked'
  BY <1>1 DEF SequentialInv, GradedIsMarked
<1>4. MarkedIsGraded'
  BY <1>1 DEF SequentialInv, MarkedIsGraded
<1>5. QED
  BY <1>1, <1>2, <1>3, <1>4

LEMMA SaveTidy ==
  ASSUME SequentialInv, ExamsInv', SequentialClients', NEW w \in Workers, SaveExam(w)
  PROVE  SequentialInv' /\ Tidy
<1>1. /\ req[w].op = "update" /\ req[w].pc = "save" /\ req[w].exam \in Exams
      /\ req[w].target \in ExamStatus /\ ~ Idle(w) /\ Current(w)
  BY SaveSplits DEF SequentialInv, AllCurrent, Idle
<1>2. CASE Saved(w)
  <2>1. /\ status[req[w].exam] = req[w].loaded /\ req[w].loaded \in Editable
        /\ EXAM_STATUS_ORDER[req[w].loaded] <= EXAM_STATUS_ORDER[req[w].target]
        /\ Removable(req[w].old) /\ Cascade(req[w].old)
    BY <1>1, <1>2 DEF Saved, Current
  <2>2. /\ \A d \in Exams : d # req[w].exam => status'[d] = status[d]
        /\ status'[req[w].exam] = req[w].target
    BY <1>1, <1>2, <2>1, SaveSplits, SavedStatus DEF Flushed, SequentialInv
  <2>3. \A d \in Exams : d # req[w].exam => questions'[d] = questions[d]
    BY <1>2 DEF Saved, SequentialInv, ExamsInv, TypeOK
  <2>4. Lawful(w)
    BY <1>1, <2>1, <2>2, CascadeLawful DEF Lawful, Editable, ExamStatus
  <2>5. \A d \in Exams : StatusStep(d)
    BY <1>1, <2>1, <2>2, <2>3 DEF StatusStep
  <2>6. GradedIsMarked' /\ MarkedIsGraded'
    BY <2>1, CascadeLawful
  <2>7. Start(w, NoRequest) /\ req'[w] = NoRequest
    BY <1>2, FinishStarts DEF Saved, SequentialInv
  <2>8. Current(w)' /\ Begins(w)
    BY <2>7, NoRequestType DEF Current, Begins, At
  <2>9. QED
    BY <2>4, <2>5, <2>6, <2>7, <2>8, NoRequestType, SequentialFrame
<1>3. CASE Fail(w)
  BY <1>1, <1>3, FailFrame
<1>4. QED
  BY <1>2, <1>3, SaveSplits DEF SequentialInv

LEMMA DeleteTidy ==
  ASSUME SequentialInv, ExamsInv', SequentialClients', NEW w \in Workers,
         NEW e \in Exams, DeleteExam(w, e)
  PROVE  SequentialInv' /\ Tidy
<1>1. PICK r \in Request : Start(w, r) /\ r.op = "delete" /\ r.pc = "save" /\ r.exam = e
  BY DeleteStarts DEF SequentialInv
<1>2. req'[w] = r /\ UNCHANGED <<exam, record>>
  BY <1>1, DeleteStarts, OthersKeep DEF SequentialInv, ExamsInv
<1>3. Current(w)' /\ Begins(w)
  BY <1>1, <1>2 DEF Current, Begins, At
<1>4. QED
  BY <1>1, <1>2, <1>3, QuietFrame

LEMMA CommitDeleteTidy ==
  ASSUME SequentialInv, ExamsInv', SequentialClients', NEW w \in Workers, CommitDelete(w)
  PROVE  SequentialInv' /\ Tidy
<1>1. req[w].op = "delete" /\ req[w].exam \in Exams
  BY DeleteSplits DEF SequentialInv
<1>2. CASE Deleted(w)
  <2>1. /\ \A d \in Exams : d # req[w].exam => status'[d] = status[d] /\ questions'[d] = questions[d]
        /\ status'[req[w].exam] = "deleted" /\ ~ Attempted(req[w].exam)
        /\ Removable(questions[req[w].exam]) /\ Cascade(questions[req[w].exam])
    BY <1>1, <1>2, DeletedStatus DEF Deleted, SequentialInv
  <2>2. Lawful(w)
    <3>1. \A e \in Exams : status'[e] # status[e] => status[e] # "deleted" /\ status'[e] = "deleted"
      BY <2>1
    <3>2. QED
      BY <2>1, <3>1, CascadeLawful DEF Lawful
  <2>3. \A d \in Exams : StatusStep(d)
    BY <2>1 DEF StatusStep
  <2>4. GradedIsMarked' /\ MarkedIsGraded'
    BY <2>1, CascadeLawful
  <2>5. Start(w, NoRequest) /\ req'[w] = NoRequest
    BY <1>2, FinishStarts DEF Deleted, SequentialInv
  <2>6. Current(w)' /\ Begins(w)
    BY <2>5, NoRequestType DEF Current, Begins, At
  <2>7. QED
    BY <2>2, <2>3, <2>4, <2>5, <2>6, NoRequestType, SequentialFrame
<1>3. CASE Fail(w)
  BY <1>1, <1>3, FailFrame
<1>4. QED
  BY <1>2, <1>3, DeleteSplits DEF SequentialInv

LEMMA StartExamTidy ==
  ASSUME SequentialInv, ExamsInv', SequentialClients', NEW w \in Workers,
         NEW e \in Exams, NEW s \in Students, StartExam(w, e, s)
  PROVE  SequentialInv' /\ Tidy
<1>1. req'[w] = Ask("start", "find", e, s)
  BY SitStarts, OthersKeep DEF SequentialInv, ExamsInv
<1>2. Current(w)' /\ Begins(w)
  BY <1>1, SitStarts DEF Current, Begins, At
<1>3. QED
  BY <1>2, SitStarts, QuietFrame

LEMMA FindTidy ==
  ASSUME SequentialInv, ExamsInv', SequentialClients', NEW w \in Workers, FindAttempt(w)
  PROVE  SequentialInv' /\ Tidy
<1>1. CASE attempt[About(w)] = "none" /\ Start(w, Moved(req[w], "save"))
  <2> DEFINE r == Moved(req[w], "save")
  <2>1. /\ r \in Request /\ r.op = "start" /\ r.pc = "save"
        /\ r.exam = req[w].exam /\ r.student = req[w].student
    BY FindSplits, MovedType DEF Pcs, SequentialInv
  <2> HIDE DEF r
  <2>2. /\ req'[w] = r /\ Start(w, r) /\ UNCHANGED <<exam, record>> /\ UNCHANGED attempt
    BY <1>1, <2>1, FindSplits, OthersKeep DEF SequentialInv, ExamsInv, record, r
  <2>3. Current(w)' /\ Begins(w)
    BY <1>1, <2>1, <2>2 DEF Current, Begins, At, About
  <2>4. QED
    BY <2>1, <2>2, <2>3, QuietFrame
<1>2. CASE Finish(w)
  BY <1>2, FindSplits, FinishFrame DEF SequentialInv
<1>3. QED
  BY <1>1, <1>2, FindSplits DEF SequentialInv

LEMMA CommitStartTidy ==
  ASSUME SequentialInv, ExamsInv', SequentialClients', NEW w \in Workers, CommitStart(w)
  PROVE  SequentialInv' /\ Tidy
<1>1. /\ req[w].op = "start" /\ req[w].pc = "save" /\ About(w) \in Attempts /\ ~ Idle(w)
      /\ req[w].exam \in Exams /\ attempt[About(w)] = "none"
  BY StartSplits DEF SequentialInv, AllCurrent, Current, At, Idle
<1>2. CASE Started(w)
  <2>1. /\ \A a \in Attempts : attempt'[a] = IF a = About(w) THEN "in_progress" ELSE attempt[a]
        /\ UNCHANGED <<status, questions>> /\ UNCHANGED <<answers, option, grades, lost>>
    BY <1>1, <1>2 DEF Started, exam, SequentialInv, ExamsInv, TypeOK
  <2>2. Lawful(w)
    BY <1>1, <2>1 DEF Lawful, Kept
  <2>3. \A d \in Exams : StatusStep(d)
    BY <2>1 DEF StatusStep
  <2>4. GradedIsMarked' /\ MarkedIsGraded'
    <3>1. answers[About(w)] = {}
      BY <1>1 DEF SequentialInv, ExamsInv, RecordsResolve, Attempts
    <3>2. QED
      BY <1>1, <2>1, <3>1 DEF SequentialInv, GradedIsMarked, MarkedIsGraded
  <2>5. Start(w, NoRequest) /\ req'[w] = NoRequest
    BY <1>2, FinishStarts DEF Started, SequentialInv
  <2>6. Current(w)' /\ Begins(w)
    BY <2>5, NoRequestType DEF Current, Begins, At
  <2>7. QED
    BY <2>2, <2>3, <2>4, <2>5, <2>6, NoRequestType, SequentialFrame
<1>3. CASE status[req[w].exam] = "deleted" /\ Fail(w)
  BY <1>1, <1>3, FailFrame
<1>4. QED
  BY <1>1, <1>2, <1>3, StartSplits DEF SequentialInv

LEMMA SubmitTidy ==
  ASSUME SequentialInv, ExamsInv', SequentialClients', NEW w \in Workers,
         NEW e \in Exams, NEW s \in Students,
         NEW Q \in SUBSET issued, NEW picked \in [Q -> issued], SubmitExam(w, e, s, Q, picked)
  PROVE  SequentialInv' /\ Tidy
<1>1. /\ UNCHANGED <<exam, record>> /\ status[e] = "open"
      /\ \E r \in Request :
           Start(w, r) /\ r.op = "submit" /\ r.pc = "find" /\ r.exam = e /\ r.student = s
  BY SubmitStarts DEF SequentialInv
<1>2. PICK r \in Request :
        Start(w, r) /\ r.op = "submit" /\ r.pc = "find" /\ r.exam = e /\ r.student = s
  BY <1>1
<1>3. req'[w] = r
  BY <1>2, OthersKeep DEF SequentialInv, ExamsInv
<1>4. Current(w)' /\ Begins(w)
  BY <1>1, <1>2, <1>3 DEF Current, Begins, At
<1>5. QED
  BY <1>1, <1>2, <1>4, QuietFrame

\* The request of a submission goes on while its attempt is in progress.
LEMMA MoveTidy ==
  ASSUME SequentialInv, ExamsInv', SequentialClients', NEW w \in Workers,
         NEW pc \in {"validate", "save"}, req[w] \in Request, req[w].op = "submit", ~ Idle(w),
         attempt[About(w)] = "in_progress", UNCHANGED <<exam, record>>,
         Start(w, Moved(req[w], pc))
  PROVE  SequentialInv' /\ Tidy
<1> DEFINE r == Moved(req[w], pc)
<1>1. /\ r \in Request /\ r.op = "submit" /\ r.pc = pc
      /\ r.exam = req[w].exam /\ r.student = req[w].student
  BY MovedType DEF Pcs
<1> HIDE DEF r
<1>2. req'[w] = r /\ Start(w, r) /\ UNCHANGED attempt
  BY <1>1, OthersKeep DEF SequentialInv, ExamsInv, record, r
<1>3. Current(w)' /\ Begins(w)
  BY <1>1, <1>2 DEF Current, Begins, At, About
<1>4. QED
  BY <1>1, <1>2, <1>3, QuietFrame

LEMMA ReadTidy ==
  ASSUME SequentialInv, ExamsInv', SequentialClients', NEW w \in Workers, ReadAttempt(w)
  PROVE  SequentialInv' /\ Tidy
<1>1. ~ Idle(w)
  BY ReadSplits DEF SequentialInv, Idle
<1>2. QED
  BY <1>1, ReadSplits, MoveTidy, FinishFrame DEF SequentialInv

LEMMA ValidateTidy ==
  ASSUME SequentialInv, ExamsInv', SequentialClients', NEW w \in Workers, ValidateAnswers(w)
  PROVE  SequentialInv' /\ Tidy
<1>1. ~ Idle(w) /\ attempt[About(w)] = "in_progress"
  BY ValidateSplits DEF SequentialInv, AllCurrent, Current, Idle
<1>2. QED
  BY <1>1, ValidateSplits, MoveTidy, FinishFrame DEF SequentialInv

LEMMA CommitSubmitTidy ==
  ASSUME SequentialInv, ExamsInv', SequentialClients', NEW w \in Workers, CommitSubmit(w)
  PROVE  SequentialInv' /\ Tidy
<1>1. /\ req[w].op = "submit" /\ req[w].pc = "save" /\ ~ Idle(w)
      /\ req[w].questions \subseteq Questions /\ req[w].options \in [Questions -> Questions]
      /\ About(w) \in Attempts /\ attempt[About(w)] = "in_progress"
  BY SubmitSplits DEF SequentialInv, AllCurrent, Current, Idle
<1>2. CASE Submitted(w)
  <2>1. /\ \A a \in Attempts :
             /\ a # About(w) => /\ attempt'[a] = attempt[a] /\ answers'[a] = answers[a]
                                /\ option'[a] = option[a]
             /\ a = About(w) => /\ attempt'[a] = "submitted"
                                /\ answers'[a] = answers[a] \cup req[w].questions
        /\ UNCHANGED <<status, questions>> /\ UNCHANGED <<grades, lost>>
    BY <1>1, <1>2, SubmittedRows DEF SequentialInv, exam
  <2>2. Lawful(w)
    BY <1>1, <2>1 DEF Lawful, Kept
  <2>3. \A d \in Exams : StatusStep(d)
    BY <2>1 DEF StatusStep
  <2>4. grades[About(w)] = {} /\ answers[About(w)] = {}
    BY <1>1 DEF SequentialInv, ExamsInv, RecordsResolve, Attempts
  <2>5. GradedIsMarked' /\ MarkedIsGraded'
    BY <2>1, <2>4 DEF SequentialInv, GradedIsMarked, MarkedIsGraded
  <2>6. Start(w, NoRequest) /\ req'[w] = NoRequest
    BY <1>2, FinishStarts DEF Submitted, SequentialInv
  <2>7. Current(w)' /\ Begins(w)
    BY <2>6, NoRequestType DEF Current, Begins, At
  <2>8. QED
    BY <2>2, <2>3, <2>5, <2>6, <2>7, NoRequestType, SequentialFrame
<1>3. CASE Fail(w)
  BY <1>1, <1>3, FailFrame
<1>4. QED
  BY <1>2, <1>3, SubmitSplits DEF SequentialInv

LEMMA GradeTidy ==
  ASSUME SequentialInv, ExamsInv', SequentialClients', NEW w \in Workers,
         NEW e \in Exams, NEW s \in Students, NEW Q \in SUBSET issued, GradeSubmission(w, e, s, Q)
  PROVE  SequentialInv' /\ Tidy
<1>1. /\ \E r \in Request : Start(w, r) /\ Grading(r, e, s, Q)
      /\ UNCHANGED <<exam, record>> /\ UNCHANGED attempt
  BY GradeStarts DEF SequentialInv, record
<1>2. PICK r \in Request : Start(w, r) /\ Grading(r, e, s, Q)
  BY <1>1
<1>3. req'[w] = r
  BY <1>2, OthersKeep DEF SequentialInv, ExamsInv
<1>4. Current(w)' /\ Begins(w)
  BY <1>1, <1>2, <1>3 DEF Current, Begins, At, Grading, About
<1>5. QED
  BY <1>1, <1>2, <1>4, QuietFrame

\* As many grades as answers, all of answers of the attempt: every answer.
LEMMA CompleteMeansAll ==
  ASSUME ExamsInv, NEW w \in Workers, About(w) \in Attempts,
         req[w].questions \subseteq answers[About(w)], Complete(w)
  PROVE  grades[About(w)] \cup req[w].questions = answers[About(w)]
<1> DEFINE A == answers[About(w)]
           G == grades[About(w)] \cup req[w].questions
<1>1. G \subseteq A
  BY DEF ExamsInv, RecordsResolve, Attempts
<1>2. IsFiniteSet(A)
  <2>1. A \subseteq Questions
    BY DEF ExamsInv, TypeOK
  <2>2. QED
    BY <2>1, QuestionsAssumption, FS_Subset
<1>3. Cardinality(G) >= Cardinality(A)
  BY DEF Complete
<1>4. IsFiniteSet(G) /\ Cardinality(G) <= Cardinality(A)
      /\ (Cardinality(G) = Cardinality(A) => G = A)
  BY <1>1, <1>2, FS_Subset
<1>5. Cardinality(G) \in Nat /\ Cardinality(A) \in Nat
  BY <1>2, <1>4, FS_CardinalityType
<1> HIDE DEF G, A
<1>6. G = A
  BY <1>3, <1>4, <1>5
<1>7. QED
  BY <1>6 DEF G, A

LEMMA AllMeansComplete ==
  ASSUME ExamsInv, NEW w \in Workers, About(w) \in Attempts, answers[About(w)] # {},
         grades[About(w)] \cup req[w].questions = answers[About(w)]
  PROVE  Complete(w)
<1> DEFINE A == answers[About(w)]
<1>1. A \subseteq Questions
  BY DEF ExamsInv, TypeOK
<1>2. Cardinality(A) \in Nat
  BY <1>1, QuestionsAssumption, FS_Subset, FS_CardinalityType
<1>3. QED
  BY <1>2 DEF Complete

LEMMA CountTidy ==
  ASSUME SequentialInv, ExamsInv', SequentialClients', NEW w \in Workers, CountGrades(w)
  PROVE  SequentialInv' /\ Tidy
<1>1. CASE /\ req[w].questions \subseteq answers[About(w)]
           /\ Start(w, Counted(req[w], About(w), Complete(w)))
  <2> DEFINE r == Counted(req[w], About(w), Complete(w))
  <2>1. /\ r \in Request /\ r.op = "grade" /\ r.pc = "save" /\ r.exam = req[w].exam
        /\ r.student = req[w].student /\ r.questions = req[w].questions
        /\ r.loaded = req[w].loaded /\ r.complete = Complete(w)
    BY CountSplits, CountedType DEF SequentialInv
  <2>2. About(w) \in Attempts /\ req[w].loaded = attempt[About(w)]
    BY CountSplits DEF SequentialInv, AllCurrent, Current
  <2>3. /\ Complete(w) => All(w) = answers[About(w)] /\ answers[About(w)] # {}
        /\ answers[About(w)] # {} /\ answers[About(w)] = All(w) => Complete(w)
    <3>1. ASSUME Complete(w) PROVE All(w) = answers[About(w)] /\ answers[About(w)] # {}
      BY <1>1, <2>2, <3>1, CompleteMeansAll DEF All, Complete, SequentialInv
    <3>2. ASSUME answers[About(w)] # {}, answers[About(w)] = All(w) PROVE Complete(w)
      BY <2>2, <3>2, AllMeansComplete DEF All, SequentialInv
    <3>3. QED
      BY <3>1, <3>2
  <2> HIDE DEF r
  <2>4. /\ req'[w] = r /\ Start(w, r) /\ UNCHANGED <<exam, record>>
        /\ UNCHANGED <<attempt, answers, grades, lost>>
    BY <1>1, <2>1, CountSplits, OthersKeep DEF SequentialInv, ExamsInv, record, r
  <2>5. About(w)' = About(w) /\ All(w)' = All(w)
    BY <2>1, <2>4 DEF About, All
  <2>6. Current(w)' /\ Begins(w)
    BY <2>1, <2>2, <2>3, <2>4, <2>5 DEF Current, Begins, At
  <2>7. QED
    BY <2>1, <2>4, <2>6, QuietFrame
<1>2. CASE Finish(w)
  BY <1>2, CountSplits, FinishFrame DEF SequentialInv
<1>3. QED
  BY <1>1, <1>2, CountSplits DEF SequentialInv

LEMMA CommitGradesTidy ==
  ASSUME SequentialInv, ExamsInv', SequentialClients', NEW w \in Workers, CommitGrades(w)
  PROVE  SequentialInv' /\ Tidy
<1>1. /\ req[w].op = "grade" /\ req[w].pc = "save" /\ ~ Idle(w)
      /\ About(w) \in Attempts /\ Gradable(About(w)) /\ req[w].loaded = attempt[About(w)]
      /\ req[w].old \subseteq grades[About(w)]
      /\ req[w].complete => All(w) # {} /\ answers[About(w)] \subseteq All(w)
      /\ About(w) \notin lost /\ ~ req[w].complete /\ answers[About(w)] # {}
            => answers[About(w)] # All(w)
  BY MarkSplits DEF SequentialInv, AllCurrent, Current, At, Idle
<1>2. CASE Marked(w)
  <2>1. /\ req[w].questions \subseteq answers[About(w)]
        /\ \A a \in Attempts :
             /\ a # About(w) => attempt'[a] = attempt[a] /\ grades'[a] = grades[a]
             /\ a = About(w) =>
                  /\ attempt'[a] = IF req[w].complete THEN "graded" ELSE attempt[a]
                  /\ grades'[a] = grades[a] \cup req[w].questions
        /\ UNCHANGED <<status, questions>> /\ UNCHANGED <<answers, option, lost>>
    BY <1>1, <1>2, MarkedRows DEF SequentialInv, exam, Flushed
  <2>2. Lawful(w)
    BY <1>1, <2>1 DEF Lawful, Kept
  <2>3. \A d \in Exams : StatusStep(d)
    BY <2>1 DEF StatusStep
  <2>4. \A a \in Attempts \ {About(w)} :
          /\ a \notin lost' /\ attempt'[a] = "submitted" /\ answers'[a] # {}
               => answers'[a] # grades'[a]
          /\ attempt'[a] = "graded" => answers'[a] = grades'[a] /\ answers'[a] # {}
    BY <2>1 DEF SequentialInv, GradedIsMarked, MarkedIsGraded
  <2>5. LET a == About(w) IN
          /\ a \notin lost' /\ attempt'[a] = "submitted" /\ answers'[a] # {}
               => answers'[a] # grades'[a]
          /\ attempt'[a] = "graded" => answers'[a] = grades'[a] /\ answers'[a] # {}
    <3>1. grades'[About(w)] = All(w) /\ All(w) \subseteq answers[About(w)]
      BY <1>1, <2>1 DEF All, SequentialInv, ExamsInv, RecordsResolve, Attempts
    <3>2. CASE req[w].complete
      BY <1>1, <2>1, <3>1, <3>2
    <3>3. CASE ~ req[w].complete
      <4>1. attempt[About(w)] = "graded" =>
              answers[About(w)] = grades[About(w)] /\ answers[About(w)] # {}
        BY <1>1 DEF SequentialInv, MarkedIsGraded
      <4>2. QED
        BY <1>1, <2>1, <3>1, <3>3, <4>1
    <3>4. QED
      BY <3>2, <3>3
  <2>6. GradedIsMarked' /\ MarkedIsGraded'
    BY <2>4, <2>5 DEF GradedIsMarked, MarkedIsGraded
  <2>7. Start(w, NoRequest) /\ req'[w] = NoRequest
    BY <1>2, FinishStarts DEF Marked, SequentialInv
  <2>8. Current(w)' /\ Begins(w)
    BY <2>7, NoRequestType DEF Current, Begins, At
  <2>9. QED
    BY <2>2, <2>3, <2>6, <2>7, <2>8, NoRequestType, SequentialFrame
<1>3. CASE Fail(w)
  BY <1>1, <1>3, FailFrame
<1>4. QED
  BY <1>2, <1>3, MarkSplits DEF SequentialInv

-----------------------------------------------------------------------------
(***************************************************************************)
(* The invariant of SequentialSpec.                                        *)
(***************************************************************************)
LEMMA SequentialInvInit == Init => SequentialInv
<1> SUFFICES ASSUME Init PROVE SequentialInv
  OBVIOUS
<1>1. \A w \in Workers : req[w].op = "none" /\ req[w].pc = "idle"
  BY NoRequestType DEF Init
<1>2. SequentialClients /\ AllCurrent
  BY <1>1 DEF SequentialClients, Idle, AllCurrent, Current, At
<1>3. GradedIsMarked /\ MarkedIsGraded
  BY DEF Init, GradedIsMarked, MarkedIsGraded
<1>4. QED
  BY <1>2, <1>3, ExamsInvInit DEF SequentialInv

LEMMA AbortTidy ==
  ASSUME SequentialInv, ExamsInv', SequentialClients', NEW w \in Workers, Abort(w)
  PROVE  SequentialInv' /\ Tidy
BY FinishFrame DEF Abort

LEMMA ManageTidy ==
  ASSUME SequentialInv, ExamsInv', SequentialClients', NEW w \in Workers, Manage(w)
  PROVE  SequentialInv' /\ Tidy
<1>1. ASSUME NEW e \in Exams, NEW t \in ExamStatus, UpdateExam(w, e, t)
      PROVE  SequentialInv' /\ Tidy
  BY <1>1, UpdateTidy
<1>2. ASSUME NEW e \in Exams, DeleteExam(w, e)
      PROVE  SequentialInv' /\ Tidy
  BY <1>2, DeleteTidy
<1>3. QED
  BY <1>1, <1>2, SelectTidy, SaveTidy, CommitDeleteTidy DEF Manage

LEMMA SitTidy ==
  ASSUME SequentialInv, ExamsInv', SequentialClients', NEW w \in Workers, Sit(w)
  PROVE  SequentialInv' /\ Tidy
<1>1. ASSUME NEW e \in Exams, NEW s \in Students, StartExam(w, e, s)
      PROVE  SequentialInv' /\ Tidy
  BY <1>1, StartExamTidy
<1>2. ASSUME NEW e \in Exams, NEW s \in Students, NEW Q \in SUBSET issued,
             NEW picked \in [Q -> issued], SubmitExam(w, e, s, Q, picked)
      PROVE  SequentialInv' /\ Tidy
  BY <1>2, SubmitTidy
<1>3. QED
  BY <1>1, <1>2, FindTidy, CommitStartTidy, ReadTidy, ValidateTidy, CommitSubmitTidy DEF Sit

LEMMA GradeStepTidy ==
  ASSUME SequentialInv, ExamsInv', SequentialClients', NEW w \in Workers, Grade(w)
  PROVE  SequentialInv' /\ Tidy
<1>1. ASSUME NEW e \in Exams, NEW s \in Students, NEW Q \in SUBSET issued,
             GradeSubmission(w, e, s, Q)
      PROVE  SequentialInv' /\ Tidy
  BY <1>1, GradeTidy
<1>2. QED
  BY <1>1, CountTidy, CommitGradesTidy DEF Grade

LEMMA StutterTidy ==
  ASSUME SequentialInv, ExamsInv', UNCHANGED vars
  PROVE  SequentialInv' /\ Tidy
<1>1. UNCHANGED <<status, questions, attempt, answers, option, grades, lost, req>>
  BY DEF vars, exam, record
<1>2. SequentialClients'
  BY <1>1 DEF SequentialInv, SequentialClients, SameClient, Idle
<1>3. ASSUME NEW w \in Workers PROVE Current(w)'
  <2>1. Current(w)
    BY DEF SequentialInv, AllCurrent
  <2>2. QED
    BY <1>1, <2>1 DEF Current, At, About, All
<1>4. GradedIsMarked' /\ MarkedIsGraded'
  BY <1>1 DEF SequentialInv, GradedIsMarked, MarkedIsGraded
<1>5. Tidy
  BY <1>1 DEF Tidy, StatusStep, AttemptStep, Kept, Submitting, Idle, About
<1>6. QED
  BY <1>2, <1>3, <1>4, <1>5 DEF SequentialInv, AllCurrent

LEMMA SequentialStep ==
  SequentialInv /\ [Next /\ SequentialClients']_vars => SequentialInv' /\ Tidy
<1> SUFFICES ASSUME SequentialInv, [Next /\ SequentialClients']_vars
             PROVE  SequentialInv' /\ Tidy
  OBVIOUS
<1>1. ExamsInv'
  BY ExamsInvStep DEF SequentialInv
<1>2. CASE UNCHANGED vars
  BY <1>1, <1>2, StutterTidy
<1>3. CASE Next /\ SequentialClients'
  <2>1. ASSUME NEW e \in Exams, NEW Q \in SUBSET FreshQuestions, CreateExam(e, Q)
        PROVE  SequentialInv' /\ Tidy
    BY <1>1, <1>3, <2>1, CreateTidy
  <2>2. ASSUME NEW w \in Workers, Manage(w) \/ Sit(w) \/ Grade(w) \/ Abort(w)
        PROVE  SequentialInv' /\ Tidy
    BY <1>1, <1>3, <2>2, ManageTidy, SitTidy, GradeStepTidy, AbortTidy
  <2>3. QED
    BY <1>3, <2>1, <2>2 DEF Next
<1>4. QED
  BY <1>2, <1>3

(***************************************************************************)
(* An attempt all of whose answers have a grade is marked graded, however  *)
(* the teacher divides the answers over grading requests.                  *)
(***************************************************************************)
THEOREM ExamsGradedIsMarked == SequentialSpec => []GradedIsMarked
<1>1. SequentialInv => GradedIsMarked
  BY DEF SequentialInv
<1>2. QED
  BY <1>1, SequentialInvInit, SequentialStep, PTL DEF SequentialSpec

(***************************************************************************)
(* An attempt is marked graded only when every answer of it has a grade.   *)
(***************************************************************************)
THEOREM ExamsMarkedIsGraded == SequentialSpec => []MarkedIsGraded
<1>1. SequentialInv => MarkedIsGraded
  BY DEF SequentialInv
<1>2. QED
  BY <1>1, SequentialInvInit, SequentialStep, PTL DEF SequentialSpec

(***************************************************************************)
(* A repeated start ends in a database error only if the exam was deleted. *)
(***************************************************************************)
THEOREM ExamsStartIdempotent == SequentialSpec => []StartIdempotent
<1>1. SequentialInv => StartIdempotent
  BY DEF SequentialInv, AllCurrent, Current, StartIdempotent
<1>2. QED
  BY <1>1, SequentialInvInit, SequentialStep, PTL DEF SequentialSpec

-----------------------------------------------------------------------------
LEMMA FrozenStep ==
  ASSUME NEW e \in Exams, StatusStep(e)
  PROVE  /\ status[e] = "published" => questions'[e] = questions[e] \/ status'[e] = "deleted"
         /\ status[e] \in ExamStatus /\ status'[e] \in ExamStatus
              => EXAM_STATUS_ORDER[status[e]] <= EXAM_STATUS_ORDER[status'[e]]
<1>1. \A t \in ExamStatus : EXAM_STATUS_ORDER[t] <= EXAM_STATUS_ORDER[t]
  BY DEF EXAM_STATUS_ORDER, ExamStatus
<1>2. "none" \notin ExamStatus /\ "deleted" \notin ExamStatus /\ "published" \notin Editable
  BY DEF ExamStatus, Editable
<1>3. QED
  BY <1>1, <1>2 DEF StatusStep

(***************************************************************************)
(* The status of an exam never moves backward, and the questions of a      *)
(* published exam stay as they are, whatever the students and an admin do  *)
(* meanwhile.                                                              *)
(***************************************************************************)
THEOREM ExamsPublishedFrozen == SequentialSpec => PublishedFrozen
<1>1. SequentialInv /\ [Next /\ SequentialClients']_vars =>
        [\A e \in Exams :
           /\ status[e] = "published" => questions'[e] = questions[e] \/ status'[e] = "deleted"
           /\ status[e] \in ExamStatus /\ status'[e] \in ExamStatus
                => EXAM_STATUS_ORDER[status[e]] <= EXAM_STATUS_ORDER[status'[e]]]_vars
  BY SequentialStep, FrozenStep DEF Tidy
<1>2. QED
  BY <1>1, SequentialInvInit, SequentialStep, PTL DEF SequentialSpec, PublishedFrozen

(***************************************************************************)
(* Once submitted, an attempt gets no answer and changes none.             *)
(***************************************************************************)
THEOREM ExamsSubmittedOnce == SequentialSpec => SubmittedOnce
<1>1. SequentialInv /\ [Next /\ SequentialClients']_vars =>
        [\A a \in Attempts :
           attempt[a] \in {"submitted", "graded"} =>
             /\ answers'[a] \subseteq answers[a]
             /\ \A q \in answers'[a] : option'[a][q] = option[a][q]]_vars
  BY SequentialStep DEF Tidy, AttemptStep, Kept
<1>2. QED
  BY <1>1, SequentialInvInit, SequentialStep, PTL DEF SequentialSpec, SubmittedOnce

LEMMA LeftOpenStays ==
  ASSUME Tidy, NEW a \in Attempts, LeftOpen(a)
  PROVE  LeftOpen(a)'
<1>1. a[1] \in Exams /\ Attempted(a[1])
  BY DEF LeftOpen, Attempted, Attempts
<1>2. StatusStep(a[1]) /\ AttemptStep(a) /\ ~ Submitting(a)
  BY <1>1 DEF Tidy, LeftOpen, Submitting
<1>3. status'[a[1]] \in {"closed", "published"}
  <2>1. \A t \in ExamStatus : EXAM_STATUS_ORDER[t] >= 3 => t \in {"closed", "published"}
    BY DEF EXAM_STATUS_ORDER, ExamStatus
  <2>2. status[a[1]] \in {"closed", "published"} /\ "published" \notin Editable
    BY DEF LeftOpen, Editable
  <2>3. EXAM_STATUS_ORDER["closed"] = 3 /\ \A t \in ExamStatus : EXAM_STATUS_ORDER[t] \in Nat
    BY DEF EXAM_STATUS_ORDER, ExamStatus
  <2>4. QED
    BY <1>1, <1>2, <2>1, <2>2, <2>3 DEF StatusStep
<1>4. attempt'[a] = "in_progress" /\ ~ Submitting(a)'
  BY <1>2 DEF AttemptStep, LeftOpen, Gradable
<1>5. QED
  BY <1>3, <1>4 DEF LeftOpen, Submitting

LEMMA HandedInEmptyStays ==
  ASSUME SequentialInv', Steady, Tidy, NEW a \in Attempts, HandedInEmpty(a)
  PROVE  HandedInEmpty(a)'
<1>1. attempt[a] = "submitted" /\ answers[a] = {} /\ AttemptStep(a)
  BY DEF HandedInEmpty, Tidy
<1>2. answers'[a] = {} /\ attempt'[a] \in {"submitted", "graded"}
  BY <1>1 DEF AttemptStep, Kept, Steady
<1>3. attempt'[a] # "graded"
  BY <1>2 DEF SequentialInv, MarkedIsGraded
<1>4. QED
  BY <1>2, <1>3 DEF HandedInEmpty

(***************************************************************************)
(* An attempt still in progress when its exam is closed, with no submit    *)
(* under way, is in progress for ever: no order of requests submits it.    *)
(* One submitted without answers, or left without any, is never marked     *)
(* graded.                                                                 *)
(***************************************************************************)
THEOREM ExamsStrandedForever == SequentialSpec => StrandedForever
<1>1. SequentialInv /\ [Next /\ SequentialClients']_vars =>
        [\A a \in Attempts : /\ LeftOpen(a) => LeftOpen(a)'
                             /\ HandedInEmpty(a) => HandedInEmpty(a)']_vars
  <2>1. SequentialInv /\ [Next /\ SequentialClients']_vars => Steady
    BY ExamsInvStep DEF SequentialInv
  <2>2. QED
    BY <2>1, SequentialStep, LeftOpenStays, HandedInEmptyStays
<1>2. QED
  BY <1>1, SequentialInvInit, SequentialStep, PTL DEF SequentialSpec, StrandedForever
=============================================================================
