---------------------------- MODULE ResultsProofs ----------------------------
(***************************************************************************)
(* Proofs about Results, for any number of workers, students, exams of the *)
(* course, grades and admins.                                              *)
(***************************************************************************)
EXTENDS Results, TLAPS

\* A row that is not there has nothing in its columns.
Absent(row) == row.status = "none" => row = NoResult

\* A row a resubmission may start from.
Reopened(row) ==
  /\ row \in Row
  /\ row.status \in {"none", "rejected"}
  /\ Absent(row)
  /\ row.status = "rejected" => row.approver # Nobody

(***************************************************************************)
(* What a worker holds, in every state of its handling.                    *)
(***************************************************************************)
Holds(w) ==
  /\ req[w].op = "submit" /\ req[w].pc = "read"
       => req[w].exam \in Exams /\ \A s \in Students : Reopened(req[w].found[s])
  /\ req[w].op \in {"approve", "reject"} /\ req[w].pc \in {"save", "notify"}
       => req[w].student \in Students /\ req[w].admin \in Admins

AllHold == \A w \in Workers : Holds(w)

(***************************************************************************)
(* The inductive invariant of Spec.                                        *)
(***************************************************************************)
ResultsInv == TypeOK /\ Decided /\ AllHold /\ \A s \in Students : Absent(result[s])

LEMMA NoResultRow == NoResult \in Row /\ Reopened(NoResult)
BY DEF NoResult, Row, Reopened, Absent

LEMMA AskType ==
  ASSUME NEW op \in {"none", "submit", "approve", "reject"},
         NEW pc \in {"idle", "read", "save", "notify"}
  PROVE  Ask(op, pc) \in Request /\ Ask(op, pc).op = op /\ Ask(op, pc).pc = pc
<1>1. NoBatch \in [Students -> Grades \cup {Nobody}] /\ NoRows \in [Students -> Row]
  BY NoResultRow DEF NoBatch, NoRows
<1> HIDE DEF NoBatch, NoRows
<1>2. QED
  BY <1>1 DEF Ask, Request

LEMMA NoRequestType == NoRequest \in Request /\ NoRequest.op = "none" /\ NoRequest.pc = "idle"
BY AskType DEF NoRequest

\* A step of w leaves the requests of the other workers as they were.
LEMMA OthersKeep ==
  ASSUME TypeOK, NEW w \in Workers, NEW r \in Request, Start(w, r)
  PROVE  /\ req' \in [Workers -> Request]
         /\ req'[w] = r
         /\ \A v \in Workers : v # w => req'[v] = req[v]
BY DEF TypeOK, Start

LEMMA HoldsFrame ==
  ASSUME ResultsInv, NEW w \in Workers, NEW r \in Request, Start(w, r), Holds(w)'
  PROVE  AllHold' /\ req' \in [Workers -> Request]
<1>1. ASSUME NEW v \in Workers, v # w PROVE Holds(v)'
  <2>1. req'[v] = req[v] /\ Holds(v)
    BY <1>1, OthersKeep DEF ResultsInv, AllHold
  <2>2. QED
    BY <2>1 DEF Holds
<1>2. QED
  BY <1>1, OthersKeep DEF AllHold, ResultsInv

\* The same when only the request changes.
LEMMA StartKeeps ==
  ASSUME ResultsInv, NEW w \in Workers, NEW r \in Request, Start(w, r),
         UNCHANGED <<result, told>>, Holds(w)'
  PROVE  ResultsInv'
<1>1. AllHold' /\ req' \in [Workers -> Request]
  BY HoldsFrame
<1>2. QED
  BY <1>1 DEF ResultsInv, TypeOK, Decided

LEMMA FinishHolds ==
  ASSUME ResultsInv, NEW w \in Workers, Finish(w)
  PROVE  Holds(w)' /\ Start(w, NoRequest) /\ req'[w] = NoRequest
<1>1. Start(w, NoRequest) /\ req'[w] = NoRequest
  BY DEF Finish, Start, ResultsInv, TypeOK
<1>2. Holds(w)'
  BY <1>1, NoRequestType DEF Holds
<1>3. QED
  BY <1>1, <1>2

LEMMA FinishKeeps ==
  ASSUME ResultsInv, NEW w \in Workers, Finish(w), UNCHANGED <<result, told>>
  PROVE  ResultsInv'
BY FinishHolds, NoRequestType, StartKeeps

-----------------------------------------------------------------------------
(***************************************************************************)
(* Every action of Submitting keeps the invariant.                         *)
(***************************************************************************)
\* The request of a teacher whose payload has not been validated yet.
Asked(e, b) ==
  [Ask("submit", "read") EXCEPT
     !.exam = e, !.batch = b, !.unread = {s \in Students : b[s] # Nobody}]

LEMMA AskedType ==
  ASSUME NEW e \in Exams, NEW b \in [Students -> Grades \cup {Nobody}]
  PROVE  /\ Asked(e, b) \in Request
         /\ Asked(e, b).op = "submit" /\ Asked(e, b).pc = "read"
         /\ Asked(e, b).exam = e /\ Asked(e, b).batch = b
         /\ Asked(e, b).unread = {s \in Students : b[s] # Nobody}
         /\ Asked(e, b).found = NoRows
<1>1. NoBatch \in [Students -> Grades \cup {Nobody}] /\ NoRows \in [Students -> Row]
  BY NoResultRow DEF NoBatch, NoRows
<1> DEFINE U == {s \in Students : b[s] # Nobody}
<1>2. U \in SUBSET Students
  OBVIOUS
<1> HIDE DEF NoBatch, NoRows, U
<1>3. [Ask("submit", "read") EXCEPT !.exam = e, !.batch = b, !.unread = U] \in Request
  BY <1>1, <1>2 DEF Ask, Request
<1>4. QED
  BY <1>3 DEF Asked, Ask, U

LEMMA SubmitKeeps ==
  ASSUME ResultsInv, NEW w \in Workers, NEW e \in Exams,
         NEW b \in [Students -> Grades \cup {Nobody}], SubmitResults(w, e, b)
  PROVE  ResultsInv'
<1>1. Start(w, Asked(e, b)) /\ UNCHANGED <<result, told>>
  BY DEF SubmitResults, Asked
<1>2. req'[w] = Asked(e, b)
  BY <1>1, AskedType, OthersKeep DEF ResultsInv
<1>3. \A s \in Students : Reopened(NoRows[s])
  BY NoResultRow DEF NoRows
<1>4. Holds(w)'
  BY <1>2, <1>3, AskedType DEF Holds
<1>5. QED
  BY <1>1, <1>4, AskedType, StartKeeps

\* The request of a teacher after one more entry has been validated.
Validated(r, s) == [r EXCEPT !.unread = @ \ {s}, !.found[s] = result[s]]

LEMMA ValidatedType ==
  ASSUME ResultsInv, NEW r \in Request, NEW s \in Students
  PROVE  /\ Validated(r, s) \in Request
         /\ Validated(r, s).op = r.op /\ Validated(r, s).pc = r.pc
         /\ Validated(r, s).exam = r.exam /\ Validated(r, s).batch = r.batch
         /\ Validated(r, s).unread = r.unread \ {s}
         /\ Validated(r, s).found = [r.found EXCEPT ![s] = result[s]]
<1>1. result[s] \in Row
  BY DEF ResultsInv, TypeOK
<1> DEFINE found == [r.found EXCEPT ![s] = result[s]]
           unread == r.unread \ {s}
<1>2. found \in [Students -> Row] /\ unread \in SUBSET Students
  BY <1>1 DEF Request
<1>3. Validated(r, s) = [r EXCEPT !.unread = unread, !.found = found]
  BY DEF Validated, Request
<1> HIDE DEF found, unread
<1>4. [r EXCEPT !.unread = unread, !.found = found] \in Request
  BY <1>2 DEF Request
<1>5. QED
  BY <1>3, <1>4 DEF Request, found, unread

LEMMA ReadKeeps ==
  ASSUME ResultsInv, NEW w \in Workers, NEW s \in Students, ReadResult(w, s)
  PROVE  ResultsInv'
<1> DEFINE r == Validated(req[w], s)
<1>1. UNCHANGED <<result, told>> /\ ((Open(s) /\ Start(w, r)) \/ Finish(w))
  BY DEF ReadResult, Validated
<1>2. req[w] \in Request
  BY DEF ResultsInv, TypeOK
<1>3. CASE Open(s) /\ Start(w, r)
  <2>1. r \in Request
    BY <1>2, ValidatedType
  <2>2. Reopened(result[s])
    BY <1>3 DEF Open, Reopened, ResultsInv, TypeOK, Row, Decided
  <2>3. req[w].exam \in Exams /\ \A t \in Students : Reopened(req[w].found[t])
    BY DEF ReadResult, At, ResultsInv, AllHold, Holds
  <2>0. r.found = [req[w].found EXCEPT ![s] = result[s]] /\ req[w].found \in [Students -> Row]
    BY <1>2, ValidatedType DEF Request
  <2>4. \A t \in Students : Reopened(r.found[t])
    BY <2>0, <2>2, <2>3
  <2>5. req'[w] = r
    BY <1>3, <2>1, OthersKeep DEF ResultsInv
  <2>6. r.op = "submit" /\ r.exam \in Exams
    BY <1>2, <2>3, ValidatedType DEF ReadResult, At
  <2> HIDE DEF r
  <2>7. Holds(w)'
    BY <2>4, <2>5, <2>6 DEF Holds
  <2>8. QED
    BY <1>1, <1>3, <2>1, <2>7, StartKeeps
<1>4. CASE Finish(w)
  BY <1>1, <1>4, FinishKeeps
<1>5. QED
  BY <1>1, <1>3, <1>4

\* A row is written whole: a grade under review, and nobody's decision.
LEMMA WrittenRow ==
  ASSUME ResultsInv, NEW w \in Workers, CommitResults(w), Insertable(w), NEW s \in Batch(w)
  PROVE  /\ Written(w, s) \in Row
         /\ Written(w, s).status = "submitted"
         /\ Written(w, s).approver = Nobody
<1> DEFINE found == req[w].found[s]
           new == Resubmitted(req[w].exam, req[w].batch[s])
<1>1. s \in Students /\ req[w].exam \in Exams /\ Reopened(found)
  BY DEF CommitResults, At, ResultsInv, AllHold, Holds, Batch
<1>2. req[w].batch[s] \in Grades \cup {Nobody} /\ result[s] \in Row
  BY <1>1 DEF ResultsInv, TypeOK, Request
<1>3. new \in Row /\ new.status = "submitted" /\ new.approver = Nobody
  BY <1>1, <1>2 DEF Resubmitted, Row
<1>4. found \in Row /\ found.status \in {"none", "rejected"}
  BY <1>1 DEF Reopened
<1>5. found.approver = Nobody => result[s].approver = Nobody
  BY <1>1, <1>4 DEF Reopened, Absent, Insertable, NoResult
<1>6. Written(w, s) = Merged(found, new, result[s])
  BY DEF Written
<1> HIDE DEF found, new
<1>7. Merged(found, new, result[s]) \in Row
  BY <1>2, <1>3, <1>4 DEF Merged, Flushed, Row
<1>8. /\ Merged(found, new, result[s]).status = "submitted"
      /\ Merged(found, new, result[s]).approver = Nobody
  BY <1>3, <1>4, <1>5 DEF Merged, Flushed
<1>9. QED
  BY <1>6, <1>7, <1>8

LEMMA CommitResultsKeeps ==
  ASSUME ResultsInv, NEW w \in Workers, CommitResults(w)
  PROVE  ResultsInv'
<1>1. Finish(w) /\ UNCHANGED told
  BY DEF CommitResults
<1>2. AllHold' /\ req' \in [Workers -> Request]
  BY <1>1, FinishHolds, NoRequestType, HoldsFrame
<1>3. CASE /\ Insertable(w)
           /\ result' = [s \in Students |-> IF s \in Batch(w) THEN Written(w, s) ELSE result[s]]
  <2>1. result' \in [Students -> Row]
    BY <1>3, WrittenRow DEF ResultsInv, TypeOK
  <2>2. \A s \in Batch(w) : result'[s].status = "submitted" /\ result'[s].approver = Nobody
    BY <1>3, WrittenRow DEF Batch
  <2>3. \A s \in Students \ Batch(w) : result'[s] = result[s]
    BY <1>3
  <2>4. Decided' /\ \A s \in Students : Absent(result'[s])
    BY <2>2, <2>3 DEF ResultsInv, Decided, Absent
  <2>5. QED
    BY <1>1, <1>2, <2>1, <2>4 DEF ResultsInv, TypeOK
<1>4. CASE UNCHANGED result
  BY <1>1, <1>4, FinishKeeps
<1>5. QED
  BY <1>3, <1>4 DEF CommitResults

-----------------------------------------------------------------------------
(***************************************************************************)
(* So does every action of Deciding.                                       *)
(***************************************************************************)
\* The request of an admin who has read the row of a student.
Chosen(op, a, s) == [Ask(op, "save") EXCEPT !.student = s, !.admin = a]

LEMMA ChosenType ==
  ASSUME NEW op \in {"approve", "reject"}, NEW a \in Admins, NEW s \in Students
  PROVE  /\ Chosen(op, a, s) \in Request
         /\ Chosen(op, a, s).op = op /\ Chosen(op, a, s).pc = "save"
         /\ Chosen(op, a, s).student = s /\ Chosen(op, a, s).admin = a
<1>1. Ask(op, "save") \in Request /\ Ask(op, "save").op = op /\ Ask(op, "save").pc = "save"
  BY AskType
<1> DEFINE ask == Ask(op, "save")
<1> HIDE DEF ask
<1>2. [ask EXCEPT !.student = s, !.admin = a] \in Request
  BY <1>1 DEF Request, ask
<1>3. /\ [ask EXCEPT !.student = s, !.admin = a].op = ask.op
      /\ [ask EXCEPT !.student = s, !.admin = a].pc = ask.pc
      /\ [ask EXCEPT !.student = s, !.admin = a].student = s
      /\ [ask EXCEPT !.student = s, !.admin = a].admin = a
  BY <1>1 DEF Request, ask
<1>4. QED
  BY <1>1, <1>2, <1>3 DEF Chosen, ask

LEMMA ChooseKeeps ==
  ASSUME ResultsInv, NEW w \in Workers, NEW a \in Admins, NEW s \in Students,
         ApproveOrReject(w, a, s)
  PROVE  ResultsInv'
<1>1. PICK op \in {"approve", "reject"} : Start(w, Chosen(op, a, s))
  BY DEF ApproveOrReject, Chosen
<1>2. req'[w] = Chosen(op, a, s)
  BY <1>1, ChosenType, OthersKeep DEF ResultsInv
<1>3. Holds(w)'
  BY <1>2, ChosenType DEF Holds
<1>4. QED
  BY <1>1, <1>3, ChosenType, StartKeeps DEF ApproveOrReject

\* The request of an admin whose approval is committed.
Announcing(r) == [r EXCEPT !.pc = "notify"]

LEMMA AnnouncingType ==
  ASSUME NEW r \in Request
  PROVE  /\ Announcing(r) \in Request
         /\ Announcing(r).op = r.op /\ Announcing(r).pc = "notify"
         /\ Announcing(r).student = r.student /\ Announcing(r).admin = r.admin
BY DEF Announcing, Request

\* A decision writes the status of one row and who decided.
LEMMA DecisionRow ==
  ASSUME ResultsInv, NEW w \in Workers, CommitDecision(w)
  PROVE  /\ req[w].student \in Students /\ req[w].admin \in Admins
         /\ Outcome(req[w].op) \in {"published", "rejected"}
         /\ result' \in [Students -> Row]
         /\ result'[req[w].student].status = Outcome(req[w].op)
         /\ result'[req[w].student].grade = result[req[w].student].grade
         /\ result'[req[w].student].approver = req[w].admin
         /\ \A s \in Students \ {req[w].student} : result'[s] = result[s]
<1>1. req[w].student \in Students /\ req[w].admin \in Admins
  BY DEF CommitDecision, At, ResultsInv, AllHold, Holds
<1>2. Outcome(req[w].op) \in {"published", "rejected"}
  BY DEF Outcome
<1> DEFINE t == req[w].student
           out == Outcome(req[w].op)
           a == req[w].admin
           row == [result[t] EXCEPT !.status = out, !.approver = a]
<1>3. result[t] \in Row
  BY <1>1 DEF ResultsInv, TypeOK
<1>4. result' = [result EXCEPT ![t] = row]
  BY <1>1 DEF CommitDecision, ResultsInv, TypeOK
<1> HIDE DEF t, out, a
<1>5. row \in Row /\ row.status = out /\ row.grade = result[t].grade /\ row.approver = a
  BY <1>1, <1>2, <1>3 DEF Row, out, a
<1> HIDE DEF row
<1>6. /\ result' \in [Students -> Row] /\ result'[t] = row
      /\ \A s \in Students \ {t} : result'[s] = result[s]
  BY <1>1, <1>4, <1>5 DEF ResultsInv, TypeOK, t
<1>7. QED
  BY <1>1, <1>2, <1>5, <1>6 DEF t, out, a

LEMMA CommitDecisionKeeps ==
  ASSUME ResultsInv, NEW w \in Workers, CommitDecision(w)
  PROVE  ResultsInv'
<1>1. Start(w, Announcing(req[w])) \/ Finish(w)
  BY DEF CommitDecision, Announcing
<1>2. AllHold' /\ req' \in [Workers -> Request]
  <2>1. CASE Start(w, Announcing(req[w]))
    <3>1. req[w] \in Request
      BY DEF ResultsInv, TypeOK
    <3>2. Announcing(req[w]) \in Request /\ req'[w] = Announcing(req[w])
      BY <2>1, <3>1, AnnouncingType, OthersKeep DEF ResultsInv
    <3>3. Holds(w)'
      BY <3>1, <3>2, AnnouncingType, DecisionRow DEF Holds
    <3>4. QED
      BY <2>1, <3>2, <3>3, HoldsFrame
  <2>2. CASE Finish(w)
    BY <2>2, FinishHolds, NoRequestType, HoldsFrame
  <2>3. QED
    BY <1>1, <2>1, <2>2
<1>3. Decided' /\ \A s \in Students : Absent(result'[s])
  BY DecisionRow, NobodyAssumption DEF ResultsInv, Decided, Absent
<1>4. QED
  BY <1>2, <1>3, DecisionRow DEF ResultsInv, TypeOK, CommitDecision

LEMMA NotifyKeeps ==
  ASSUME ResultsInv, NEW w \in Workers, NotifyResultPublished(w)
  PROVE  ResultsInv'
<1>1. Finish(w) /\ result' = result /\ told' = told \cup {req[w].student}
  BY DEF NotifyResultPublished
<1>2. req[w].student \in Students
  BY DEF NotifyResultPublished, At, ResultsInv, AllHold, Holds
<1>3. AllHold' /\ req' \in [Workers -> Request]
  BY <1>1, FinishHolds, NoRequestType, HoldsFrame
<1>4. QED
  BY <1>1, <1>2, <1>3 DEF ResultsInv, TypeOK, Decided

-----------------------------------------------------------------------------
LEMMA ResultsInvInit == Init => ResultsInv
BY NoRequestType, NoResultRow
   DEF Init, ResultsInv, TypeOK, Decided, AllHold, Holds, Absent, NoRows, NoResult

LEMMA ResultsInvStep == ResultsInv /\ [Next]_vars => ResultsInv'
<1> SUFFICES ASSUME ResultsInv, [Next]_vars PROVE ResultsInv'
  OBVIOUS
<1>1. ASSUME NEW w \in Workers, Submitting(w) PROVE ResultsInv'
  BY <1>1, SubmitKeeps, ReadKeeps, CommitResultsKeeps DEF Submitting
<1>2. ASSUME NEW w \in Workers, Deciding(w) PROVE ResultsInv'
  BY <1>2, ChooseKeeps, CommitDecisionKeeps, NotifyKeeps DEF Deciding
<1>3. ASSUME NEW w \in Workers, Abort(w) PROVE ResultsInv'
  BY <1>3, FinishKeeps DEF Abort
<1>4. CASE UNCHANGED vars
  BY <1>4 DEF vars, ResultsInv, TypeOK, Decided, AllHold, Holds
<1>5. QED
  BY <1>1, <1>2, <1>3, <1>4 DEF Next

LEMMA ResultsInvAlways == Spec => []ResultsInv
BY ResultsInvInit, ResultsInvStep, PTL DEF Spec

(***************************************************************************)
(* The variables keep their types in every reachable state.                *)
(***************************************************************************)
THEOREM ResultsTypeCorrect == Spec => []TypeOK
<1>1. ResultsInv => TypeOK
  BY DEF ResultsInv
<1>2. QED
  BY <1>1, ResultsInvAlways, PTL

(***************************************************************************)
(* However submissions and decisions interleave and overwrite each other,  *)
(* a row names the admin who decided exactly when it is decided: the two   *)
(* columns are always written together.                                    *)
(***************************************************************************)
THEOREM ResultsDecided == Spec => []Decided
<1>1. ResultsInv => Decided
  BY DEF ResultsInv
<1>2. QED
  BY <1>1, ResultsInvAlways, PTL

-----------------------------------------------------------------------------
(***************************************************************************)
(* One submission and one decision at a time: what a handler has read is   *)
(* still so when it writes.                                                *)
(***************************************************************************)
Current(w) ==
  /\ req[w].op = "submit" /\ req[w].pc = "read"
       => \A s \in Batch(w) \ req[w].unread : result[s] = req[w].found[s]
  /\ req[w].op \in {"approve", "reject"} /\ req[w].pc = "save" => Awaiting(req[w].student)
  /\ req[w].op = "approve" /\ req[w].pc = "notify"
       => result[req[w].student].status = "published"

AllCurrent == \A w \in Workers : Current(w)

(***************************************************************************)
(* The inductive invariant of OneEachSpec.                                 *)
(***************************************************************************)
OneEachInv == ResultsInv /\ OneEach /\ AllCurrent /\ ToldMeansPublished

\* A teacher writes rows that are open, an admin rows that await a decision.
Rightful(w) ==
  \/ result' = result
  \/ /\ ~ Idle(w) /\ req[w].op = "submit"
     /\ \A s \in Students : ~ Open(s) => result'[s] = result[s]
  \/ /\ ~ Idle(w) /\ req[w].op # "submit"
     /\ \A s \in Students : ~ Awaiting(s) => result'[s] = result[s]

LEMMA CurrentFrame ==
  ASSUME OneEachInv, NEW w \in Workers, NEW r \in Request, Start(w, r), Rightful(w), Current(w)'
  PROVE  AllCurrent'
<1>1. ASSUME NEW v \in Workers, v # w PROVE Current(v)'
  <2>1. req'[v] = req[v] /\ Current(v) /\ Holds(v)
    BY <1>1, OthersKeep DEF OneEachInv, ResultsInv, AllHold, AllCurrent
  <2>2. CASE result' = result
    BY <2>1, <2>2 DEF Current, Batch, Awaiting
  <2>3. CASE /\ ~ Idle(w) /\ req[w].op = "submit"
             /\ \A s \in Students : ~ Open(s) => result'[s] = result[s]
    <3>1. Idle(v) \/ req[v].op # "submit"
      BY <1>1, <2>3 DEF OneEachInv, OneEach
    <3>2. QED
      BY <2>1, <2>3, <3>1 DEF Current, Holds, Idle, Awaiting, Open
  <2>4. CASE /\ ~ Idle(w) /\ req[w].op # "submit"
             /\ \A s \in Students : ~ Awaiting(s) => result'[s] = result[s]
    <3>1. Idle(v) \/ req[v].op = "submit"
      BY <1>1, <2>4 DEF OneEachInv, OneEach
    <3>2. ASSUME NEW s \in Batch(v) \ req[v].unread, req[v].op = "submit", req[v].pc = "read"
          PROVE  result'[s] = req[v].found[s]
      <4>1. result[s] = req[v].found[s] /\ Reopened(req[v].found[s]) /\ s \in Students
        BY <2>1, <3>2 DEF Current, Holds, Batch
      <4>2. ~ Awaiting(s)
        BY <4>1 DEF Awaiting, Reopened
      <4>3. QED
        BY <2>4, <4>1, <4>2
    <3>3. QED
      BY <2>1, <3>1, <3>2 DEF Current, Idle, Batch
  <2>5. QED
    BY <2>2, <2>3, <2>4 DEF Rightful
<1>2. QED
  BY <1>1 DEF AllCurrent

LEMMA FinishCurrent ==
  ASSUME OneEachInv, NEW w \in Workers, Finish(w), Rightful(w)
  PROVE  AllCurrent'
<1>1. Start(w, NoRequest) /\ req'[w] = NoRequest
  BY FinishHolds DEF OneEachInv
<1>2. Current(w)'
  BY <1>1, NoRequestType DEF Current
<1>3. QED
  BY <1>1, <1>2, NoRequestType, CurrentFrame

LEMMA SubmitCurrent ==
  ASSUME OneEachInv, NEW w \in Workers, NEW e \in Exams,
         NEW b \in [Students -> Grades \cup {Nobody}], SubmitResults(w, e, b)
  PROVE  AllCurrent' /\ ToldMeansPublished'
<1>1. Start(w, Asked(e, b)) /\ UNCHANGED <<result, told>>
  BY DEF SubmitResults, Asked
<1>2. req'[w] = Asked(e, b)
  BY <1>1, AskedType, OthersKeep DEF OneEachInv, ResultsInv
<1>3. Current(w)'
  BY <1>2, AskedType DEF Current, Batch
<1>4. QED
  BY <1>1, <1>3, AskedType, CurrentFrame DEF Rightful, OneEachInv, ToldMeansPublished

LEMMA ReadCurrent ==
  ASSUME OneEachInv, NEW w \in Workers, NEW s \in Students, ReadResult(w, s)
  PROVE  AllCurrent' /\ ToldMeansPublished'
<1> DEFINE r == Validated(req[w], s)
<1>1. UNCHANGED <<result, told>> /\ (Start(w, r) \/ Finish(w))
  BY DEF ReadResult, Validated
<1>2. req[w] \in Request
  BY DEF OneEachInv, ResultsInv, TypeOK
<1>3. /\ r \in Request /\ r.op = "submit" /\ r.pc = "read" /\ r.batch = req[w].batch
      /\ r.unread = req[w].unread \ {s} /\ r.found = [req[w].found EXCEPT ![s] = result[s]]
  BY <1>2, ValidatedType DEF OneEachInv, ReadResult, At
<1>4. req[w].found \in [Students -> Row]
  BY <1>2 DEF Request
<1> HIDE DEF r
<1>5. CASE Start(w, r)
  <2>1. req'[w] = r
    BY <1>3, <1>5, OthersKeep DEF OneEachInv, ResultsInv
  <2>2. \A t \in Batch(w) \ r.unread : result[t] = r.found[t]
    BY <1>3, <1>4 DEF OneEachInv, AllCurrent, Current, ReadResult, At, Batch
  <2>3. Current(w)'
    BY <1>1, <1>3, <2>1, <2>2 DEF Current, Batch
  <2>4. QED
    BY <1>1, <1>3, <1>5, <2>3, CurrentFrame DEF Rightful, OneEachInv, ToldMeansPublished
<1>6. CASE Finish(w)
  BY <1>1, <1>6, FinishCurrent DEF Rightful, OneEachInv, ToldMeansPublished
<1>7. QED
  BY <1>1, <1>5, <1>6

\* The rows of a batch are open, and are written as the payload says.
LEMMA BatchStep ==
  ASSUME OneEachInv, NEW w \in Workers, CommitResults(w), NEW s \in Batch(w)
  PROVE  /\ s \in Students
         /\ Open(s)
         /\ Insertable(w) => /\ Written(w, s).status = "submitted"
                             /\ Written(w, s).grade = req[w].batch[s]
<1>1. s \in Students /\ result[s] = req[w].found[s] /\ Reopened(result[s])
  BY DEF CommitResults, At, OneEachInv, ResultsInv, AllHold, Holds, AllCurrent, Current, Batch
<1>2. Open(s)
  BY <1>1 DEF Open, Reopened
<1>3. Insertable(w) => Written(w, s).status = "submitted"
  BY WrittenRow DEF OneEachInv
<1>4. Written(w, s).grade = req[w].batch[s]
  BY <1>1 DEF Written, Merged, Flushed, Resubmitted
<1>5. QED
  BY <1>1, <1>2, <1>3, <1>4

LEMMA CommitResultsCurrent ==
  ASSUME OneEachInv, NEW w \in Workers, CommitResults(w)
  PROVE  AllCurrent' /\ ToldMeansPublished'
<1>1. Finish(w) /\ told' = told /\ ~ Idle(w) /\ req[w].op = "submit"
  BY DEF CommitResults, At, Idle
<1>2. \A s \in Students : ~ Open(s) => result'[s] = result[s]
  BY BatchStep DEF CommitResults
<1>3. AllCurrent'
  BY <1>1, <1>2, FinishCurrent DEF Rightful
<1>4. ToldMeansPublished'
  BY <1>1, <1>2 DEF OneEachInv, ResultsInv, TypeOK, ToldMeansPublished, Open
<1>5. QED
  BY <1>3, <1>4

LEMMA ChooseCurrent ==
  ASSUME OneEachInv, NEW w \in Workers, NEW a \in Admins, NEW s \in Students,
         ApproveOrReject(w, a, s)
  PROVE  AllCurrent' /\ ToldMeansPublished'
<1>1. PICK op \in {"approve", "reject"} : Start(w, Chosen(op, a, s))
  BY DEF ApproveOrReject, Chosen
<1>2. req'[w] = Chosen(op, a, s) /\ UNCHANGED <<result, told>> /\ Awaiting(s)
  BY <1>1, ChosenType, OthersKeep DEF OneEachInv, ResultsInv, ApproveOrReject
<1>3. Current(w)'
  BY <1>2, ChosenType DEF Current, Awaiting
<1>4. QED
  BY <1>1, <1>2, <1>3, ChosenType, CurrentFrame DEF Rightful, OneEachInv, ToldMeansPublished

LEMMA CommitDecisionCurrent ==
  ASSUME OneEachInv, NEW w \in Workers, CommitDecision(w)
  PROVE  AllCurrent' /\ ToldMeansPublished'
<1>1. /\ ~ Idle(w) /\ req[w].op \in {"approve", "reject"} /\ told' = told
      /\ Awaiting(req[w].student)
  BY DEF CommitDecision, At, Idle, OneEachInv, AllCurrent, Current
<1>2. \A s \in Students : ~ Awaiting(s) => result'[s] = result[s]
  BY <1>1, DecisionRow DEF OneEachInv
<1>3. ToldMeansPublished'
  BY <1>1, <1>2 DEF OneEachInv, ResultsInv, TypeOK, ToldMeansPublished, Awaiting
<1>4. Rightful(w)
  BY <1>1, <1>2 DEF Rightful
<1>5. CASE Finish(w)
  BY <1>3, <1>4, <1>5, FinishCurrent
<1>6. CASE Start(w, Announcing(req[w])) /\ req[w].op = "approve"
  <2>1. req[w] \in Request
    BY DEF OneEachInv, ResultsInv, TypeOK
  <2>2. Announcing(req[w]) \in Request /\ req'[w] = Announcing(req[w])
    BY <1>6, <2>1, AnnouncingType, OthersKeep DEF OneEachInv, ResultsInv
  <2>3. result'[req[w].student].status = "published"
    BY <1>6, DecisionRow DEF OneEachInv, Outcome
  <2>4. Current(w)'
    BY <1>6, <2>1, <2>2, <2>3, AnnouncingType DEF Current
  <2>5. QED
    BY <1>3, <1>4, <1>6, <2>2, <2>4, CurrentFrame
<1>7. QED
  BY <1>5, <1>6 DEF CommitDecision, Announcing

LEMMA NotifyCurrent ==
  ASSUME OneEachInv, NEW w \in Workers, NotifyResultPublished(w)
  PROVE  AllCurrent' /\ ToldMeansPublished'
<1>1. Finish(w) /\ result' = result /\ told' = told \cup {req[w].student}
  BY DEF NotifyResultPublished
<1>2. result[req[w].student].status = "published"
  BY DEF NotifyResultPublished, At, OneEachInv, AllCurrent, Current
<1>3. QED
  BY <1>1, <1>2, FinishCurrent DEF Rightful, OneEachInv, ToldMeansPublished

-----------------------------------------------------------------------------
LEMMA OneEachInvInit == Init => OneEachInv
<1> SUFFICES ASSUME Init PROVE OneEachInv
  OBVIOUS
<1>1. AllCurrent /\ OneEach
  BY NoRequestType DEF Init, AllCurrent, Current, OneEach, Idle
<1>2. QED
  BY <1>1, ResultsInvInit DEF Init, OneEachInv, ToldMeansPublished

LEMMA OneEachInvStep == OneEachInv /\ [Next /\ OneEach']_vars => OneEachInv'
<1> SUFFICES ASSUME OneEachInv, [Next /\ OneEach']_vars PROVE OneEachInv'
  OBVIOUS
<1>1. ResultsInv'
  BY ResultsInvStep DEF OneEachInv
<1>2. OneEach'
  BY DEF OneEachInv, OneEach, Idle, vars
<1>3. AllCurrent' /\ ToldMeansPublished'
  <2>1. ASSUME NEW w \in Workers, Submitting(w) PROVE AllCurrent' /\ ToldMeansPublished'
    BY <2>1, SubmitCurrent, ReadCurrent, CommitResultsCurrent DEF Submitting
  <2>2. ASSUME NEW w \in Workers, Deciding(w) PROVE AllCurrent' /\ ToldMeansPublished'
    BY <2>2, ChooseCurrent, CommitDecisionCurrent, NotifyCurrent DEF Deciding
  <2>3. ASSUME NEW w \in Workers, Abort(w) PROVE AllCurrent' /\ ToldMeansPublished'
    BY <2>3, FinishCurrent DEF Abort, Rightful, OneEachInv, ToldMeansPublished
  <2>4. CASE UNCHANGED vars
    BY <2>4 DEF vars, OneEachInv, AllCurrent, Current, Batch, Awaiting, ToldMeansPublished
  <2>5. QED
    BY <2>1, <2>2, <2>3, <2>4 DEF Next
<1>4. QED
  BY <1>1, <1>2, <1>3 DEF OneEachInv

LEMMA OneEachInvAlways == OneEachSpec => []OneEachInv
BY OneEachInvInit, OneEachInvStep, PTL DEF OneEachSpec

(***************************************************************************)
(* With one submission and one decision at a time, a student who was told  *)
(* of a published result still has it.                                     *)
(***************************************************************************)
THEOREM ResultsToldMeansPublished == OneEachSpec => []ToldMeansPublished
<1>1. OneEachInv => ToldMeansPublished
  BY DEF OneEachInv
<1>2. QED
  BY <1>1, OneEachInvAlways, PTL

-----------------------------------------------------------------------------
(***************************************************************************)
(* The commits are the steps of the abstract review.                       *)
(***************************************************************************)
LEMMA ReviewSubmit ==
  ASSUME OneEachInv, NEW w \in Workers, CommitResults(w)
  PROVE  [Abstract!Next]_Book
<1>1. CASE /\ Insertable(w)
           /\ result' = [s \in Students |-> IF s \in Batch(w) THEN Written(w, s) ELSE result[s]]
  <2> DEFINE marks == [s \in Batch(w) |-> req[w].batch[s]]
  <2>1. Batch(w) \in SUBSET Students /\ marks \in [Batch(w) -> Grades]
    BY DEF Batch, OneEachInv, ResultsInv, TypeOK, Request
  <2>2. \A s \in Batch(w) : Abstract!Open(s)
    <3>1. \A s \in Batch(w) :
            s \in Students /\ result[s].status \in {"none", "rejected"}
      BY <2>1, BatchStep DEF Open, OneEachInv, ResultsInv, TypeOK, Row
    <3>2. QED
      BY <3>1 DEF Abstract!Open, Book
  <2>3. \A s \in Batch(w) : /\ result'[s].status = "submitted"
                            /\ result'[s].grade = req[w].batch[s]
    BY <1>1, <2>1, BatchStep
  <2>4. \A s \in Students \ Batch(w) : result'[s] = result[s]
    BY <1>1
  <2>5. Book' = [s \in Students |->
          IF s \in Batch(w) THEN [state |-> "submitted", mark |-> marks[s]] ELSE Book[s]]
    BY <2>3, <2>4 DEF Book
  <2>6. Abstract!Submit(Batch(w), marks)
    BY <2>2, <2>5 DEF Abstract!Submit, Book
  <2> HIDE DEF marks
  <2>7. \E P \in SUBSET Students : \E m \in [P -> Grades] : Abstract!Submit(P, m)
    BY <2>1, <2>6
  <2>8. Abstract!Next
    BY <2>7 DEF Abstract!Next
  <2>9. QED
    BY <2>8
<1>2. CASE UNCHANGED result
  BY <1>2 DEF Book
<1>3. QED
  BY <1>1, <1>2 DEF CommitResults

LEMMA ReviewDecide ==
  ASSUME OneEachInv, NEW w \in Workers, CommitDecision(w)
  PROVE  [Abstract!Next]_Book
<1> DEFINE t == req[w].student
           out == Outcome(req[w].op)
<1>1. t \in Students /\ result[t].status = "submitted" /\ out \in {"published", "rejected"}
  BY DecisionRow DEF CommitDecision, At, OneEachInv, AllCurrent, Current, Awaiting
<1>2. result'[t].status = out /\ result'[t].grade = result[t].grade
      /\ \A s \in Students \ {t} : result'[s] = result[s]
  BY DecisionRow DEF OneEachInv
<1> HIDE DEF t, out
<1>3. Book' = [Book EXCEPT ![t].state = out]
  BY <1>1, <1>2 DEF Book
<1>4. Abstract!Decide(t, out)
  BY <1>1, <1>3 DEF Abstract!Decide, Book
<1>5. \E p \in Students : Abstract!Decide(p, "published") \/ Abstract!Decide(p, "rejected")
  BY <1>1, <1>4
<1>6. Abstract!Next
  BY <1>5 DEF Abstract!Next
<1>7. QED
  BY <1>6

LEMMA ReviewStep ==
  ASSUME OneEachInv, [Next]_vars
  PROVE  [Abstract!Next]_Book
<1>1. CASE \E w \in Workers : CommitResults(w) \/ CommitDecision(w)
  BY <1>1, ReviewSubmit, ReviewDecide
<1>2. CASE ~ \E w \in Workers : CommitResults(w) \/ CommitDecision(w)
  <2>1. result' = result
    BY <1>2 DEF Next, vars, Submitting, Deciding, Abort, SubmitResults, ReadResult,
       ApproveOrReject, NotifyResultPublished
  <2>2. QED
    BY <2>1 DEF Book
<1>3. QED
  BY <1>1, <1>2

(***************************************************************************)
(* With one submission and one decision at a time the handlers implement   *)
(* the abstract review: a published result never changes, a result under   *)
(* review never changes, and only a rejected one is submitted again.       *)
(***************************************************************************)
THEOREM ResultsImplementReview == OneEachSpec => ReviewSpec
<1>1. Init => Abstract!Init
  BY DEF Init, Abstract!Init, Abstract!Blank, Book, NoRows, NoResult
<1>2. OneEachInv /\ [Next /\ OneEach']_vars => [Abstract!Next]_Book
  BY ReviewStep
<1>3. QED
  BY <1>1, <1>2, OneEachInvAlways, PTL DEF OneEachSpec, ReviewSpec, Abstract!Spec, Book
=============================================================================
