--------------------------- MODULE AttendanceProofs ---------------------------
(***************************************************************************)
(* Proofs about Attendance, for any number of workers, students, class     *)
(* sessions and dates.                                                     *)
(***************************************************************************)
EXTENDS Attendance, TLAPS

(***************************************************************************)
(* What a worker holds, in every state of its handling.                    *)
(***************************************************************************)
Holds(w) ==
  /\ req[w].op = "none" <=> req[w].pc = "idle"
  /\ req[w].op # "none" => req[w].lesson \in Lessons
  /\ req[w].op = "mark" => req[w].pc \in {"read", "warn"} /\ req[w].rest \subseteq Batch(w)
  /\ req[w].op = "correct" => req[w].pc = "save"
  /\ req[w].op = "mark" /\ req[w].pc = "read" => req[w].drop = {}

AllHold == \A w \in Workers : Holds(w)

(***************************************************************************)
(* The inductive invariant of Spec.                                        *)
(***************************************************************************)
AttendanceInv == TypeOK /\ AllHold

\* What is in the database has its type.
Stored ==
  /\ record \in [Students -> [Lessons -> Status \cup {"none"}]]
  /\ warned \subseteq Students \X Lessons

Owed(r) == r.drop \subseteq r.rest \cap r.fine

LEMMA AskType ==
  ASSUME NEW op \in {"none", "mark", "correct"}, NEW pc \in {"idle", "read", "warn", "save"}
  PROVE  /\ Ask(op, pc) \in Request
         /\ Ask(op, pc).op = op /\ Ask(op, pc).pc = pc
         /\ Ask(op, pc).fine = {} /\ Ask(op, pc).drop = {}
<1>1. Empty \in Batches
  BY DEF Empty, Batches
<1> HIDE DEF Empty, Batches
<1>2. QED
  BY <1>1 DEF Ask, Request

LEMMA NoRequestType ==
  NoRequest \in Request /\ NoRequest.op = "none" /\ NoRequest.pc = "idle" /\ Owed(NoRequest)
BY AskType DEF NoRequest, Owed

\* A step of w leaves the requests of the other workers as they were.
LEMMA OthersKeep ==
  ASSUME TypeOK, NEW w \in Workers, NEW r, Start(w, r)
  PROVE  req'[w] = r /\ \A v \in Workers : v # w => req'[v] = req[v]
BY DEF TypeOK, Start

LEMMA HoldsFrame ==
  ASSUME AttendanceInv, NEW w \in Workers, NEW r \in Request, Start(w, r), Owed(r), Holds(w)',
         Stored'
  PROVE  AttendanceInv'
<1>1. req' \in [Workers -> Request] /\ \A v \in Workers : Owed(req'[v])
  BY OthersKeep DEF AttendanceInv, TypeOK, Owed, Start
<1>2. ASSUME NEW v \in Workers, v # w PROVE Holds(v)'
  <2>1. req'[v] = req[v] /\ Holds(v)
    BY <1>2, OthersKeep DEF AttendanceInv, AllHold
  <2>2. QED
    BY <2>1 DEF Holds, Batch
<1>3. QED
  BY <1>1, <1>2 DEF AttendanceInv, AllHold, TypeOK, Owed, Stored

LEMMA FinishHolds ==
  ASSUME AttendanceInv, NEW w \in Workers, Finish(w)
  PROVE  Start(w, NoRequest) /\ req'[w] = NoRequest /\ Holds(w)'
<1>1. Start(w, NoRequest) /\ req'[w] = NoRequest
  BY DEF Finish, Start, AttendanceInv, TypeOK
<1>2. QED
  BY <1>1, NoRequestType DEF Holds

LEMMA FinishKeeps ==
  ASSUME AttendanceInv, NEW w \in Workers, Finish(w),
         Stored'
  PROVE  AttendanceInv'
BY FinishHolds, NoRequestType, HoldsFrame

-----------------------------------------------------------------------------
(***************************************************************************)
(* Every action of Marking keeps the invariant.                            *)
(***************************************************************************)
\* The request of a teacher whose payload has been checked.
Checked(l, b) ==
  [Ask("mark", "read") EXCEPT
     !.lesson = l, !.batch = b, !.rest = {s \in Students : b[s] # "none"}]

LEMMA CheckedType ==
  ASSUME NEW l \in Lessons, NEW b \in Batches
  PROVE  /\ Checked(l, b) \in Request /\ Owed(Checked(l, b))
         /\ Checked(l, b).op = "mark" /\ Checked(l, b).pc = "read"
         /\ Checked(l, b).lesson = l /\ Checked(l, b).batch = b
         /\ Checked(l, b).rest = {s \in Students : b[s] # "none"}
         /\ Checked(l, b).drop = {}
<1> DEFINE U == {s \in Students : b[s] # "none"}
           ask == Ask("mark", "read")
<1>1. ask \in Request /\ ask.op = "mark" /\ ask.pc = "read" /\ ask.drop = {}
  BY AskType
<1>2. U \in SUBSET Students
  OBVIOUS
<1> HIDE DEF U, ask, Batches
<1> DEFINE r == [ask EXCEPT !.lesson = l, !.batch = b, !.rest = U]
<1>3. r \in Request
  BY <1>1, <1>2 DEF Request
<1>4. /\ r.op = "mark" /\ r.pc = "read" /\ r.lesson = l /\ r.batch = b
      /\ r.rest = U /\ r.drop = {}
  BY <1>1 DEF Request
<1>5. r = Checked(l, b)
  BY DEF Checked, ask, U
<1>6. QED
  BY <1>3, <1>4, <1>5 DEF Owed, U

LEMMA MarkKeeps ==
  ASSUME AttendanceInv, NEW w \in Workers, NEW l \in Lessons, NEW b \in Batches,
         MarkAttendance(w, l, b)
  PROVE  AttendanceInv' /\ req'[w] = Checked(l, b) /\ UNCHANGED <<record, warned>>
<1>1. Start(w, Checked(l, b)) /\ UNCHANGED <<record, warned>>
  BY DEF MarkAttendance, Checked
<1>2. req'[w] = Checked(l, b)
  BY <1>1, OthersKeep DEF AttendanceInv
<1>3. Holds(w)'
  BY <1>2, CheckedType DEF Holds, Batch
<1>4. QED
  BY <1>1, <1>2, <1>3, CheckedType, HoldsFrame DEF AttendanceInv, TypeOK, Stored

\* The request of a teacher after one more percentage has been read, and
\* after some students have been dealt with.
Progress(r, rest, fine, drop, pc) ==
  [r EXCEPT !.rest = rest, !.fine = fine, !.drop = drop, !.pc = pc]

LEMMA ProgressType ==
  ASSUME NEW r \in Request, NEW rest \in SUBSET Students, NEW fine \in SUBSET Students,
         NEW drop \in SUBSET Students, NEW pc \in {"read", "warn"}
  PROVE  LET q == Progress(r, rest, fine, drop, pc)
         IN  /\ q \in Request
             /\ q.op = r.op /\ q.lesson = r.lesson /\ q.batch = r.batch
             /\ q.rest = rest /\ q.fine = fine /\ q.drop = drop /\ q.pc = pc
BY DEF Progress, Request

\* What a batch may have left to do.
Fits(w, rest, fine, drop, pc) ==
  /\ req[w].op = "mark"
  /\ rest \subseteq Batch(w) /\ fine \subseteq Students /\ drop \subseteq rest \cap fine
  /\ pc \in {"read", "warn"} /\ (pc = "read" => drop = {})

\* The same as the step of a worker.
LEMMA ProgressKeeps ==
  ASSUME AttendanceInv, NEW w \in Workers, NEW rest, NEW fine, NEW drop, NEW pc,
         Fits(w, rest, fine, drop, pc),
         Start(w, Progress(req[w], rest, fine, drop, pc)),
         Stored'
  PROVE  /\ AttendanceInv'
         /\ req'[w] = Progress(req[w], rest, fine, drop, pc)
         /\ req'[w].op = "mark" /\ req'[w].pc = pc
         /\ req'[w].lesson = req[w].lesson /\ Batch(w)' = Batch(w)
         /\ req'[w].rest = rest /\ req'[w].fine = fine /\ req'[w].drop = drop
<1> DEFINE q == Progress(req[w], rest, fine, drop, pc)
<1>1. /\ req[w] \in Request /\ rest \in SUBSET Students /\ fine \in SUBSET Students
      /\ drop \in SUBSET Students /\ pc \in {"read", "warn"} /\ req[w].op = "mark"
  BY DEF AttendanceInv, TypeOK, Batch, Fits
<1>2. /\ q \in Request
      /\ q.op = "mark" /\ q.lesson = req[w].lesson /\ q.batch = req[w].batch
      /\ q.rest = rest /\ q.fine = fine /\ q.drop = drop /\ q.pc = pc
  BY <1>1, ProgressType
<1>3. req'[w] = q
  BY OthersKeep DEF AttendanceInv
<1> HIDE DEF q
<1>4. Holds(w) /\ Batch(w)' = Batch(w)
  BY <1>2, <1>3 DEF AttendanceInv, AllHold, Batch
<1>5. Holds(w)' /\ Owed(q)
  BY <1>2, <1>3, <1>4 DEF Holds, Owed, Fits
<1>6. Start(w, q)
  BY DEF q
<1>7. AttendanceInv'
  BY <1>2, <1>5, <1>6, HoldsFrame
<1>8. QED
  BY <1>2, <1>3, <1>4, <1>7 DEF q

LEMMA RequestSets ==
  ASSUME AttendanceInv, NEW w \in Workers
  PROVE  /\ req[w] \in Request
         /\ req[w].rest \in SUBSET Students /\ req[w].fine \in SUBSET Students
         /\ req[w].drop \in SUBSET (req[w].rest \cap req[w].fine)
         /\ Batch(w) \in SUBSET Students /\ Holds(w)
BY DEF AttendanceInv, TypeOK, Request, AllHold, Batch

\* The percentages found before the write.
FineAfter(w, s) ==
  IF LowIn(s, req[w].lesson) THEN req[w].fine ELSE req[w].fine \cup {s}

LEMMA ReadKeeps ==
  ASSUME AttendanceInv, NEW w \in Workers, NEW s \in Students, ReadPercentage(w, s)
  PROVE  /\ AttendanceInv' /\ UNCHANGED <<record, warned>>
         /\ s \in req[w].rest
         /\ req'[w].op = "mark" /\ req'[w].pc = "read"
         /\ req'[w].lesson = req[w].lesson /\ Batch(w)' = Batch(w)
         /\ req'[w].rest = req[w].rest \ {s} /\ req'[w].fine = FineAfter(w, s)
<1>1. At(w, "mark", "read") /\ s \in req[w].rest /\ UNCHANGED <<record, warned>>
  BY DEF ReadPercentage
<1> DEFINE rest == req[w].rest \ {s}
           fine == FineAfter(w, s)
<1>2. req[w].op = "mark" /\ req[w].pc = "read" /\ req[w].drop = {}
  BY <1>1, RequestSets DEF At, Holds
<1>3. rest \in SUBSET Batch(w) /\ fine \in SUBSET Students
  BY <1>2, RequestSets DEF FineAfter, Holds
<1>4. [req[w] EXCEPT !.rest = rest, !.fine = fine] = Progress(req[w], rest, fine, {}, "read")
  <2> HIDE DEF rest, fine
  <2>1. QED
    BY <1>2, RequestSets DEF Progress, Request
<1>5. Start(w, [req[w] EXCEPT !.rest = rest, !.fine = fine])
  <2>1. Start(w, [req[w] EXCEPT
          !.rest = @ \ {s},
          !.fine = IF LowIn(s, req[w].lesson) THEN @ ELSE @ \cup {s}])
    BY DEF ReadPercentage
  <2>2. [req[w] EXCEPT
          !.rest = @ \ {s},
          !.fine = IF LowIn(s, req[w].lesson) THEN @ ELSE @ \cup {s}]
          = [req[w] EXCEPT !.rest = rest, !.fine = fine]
    BY RequestSets DEF Request, FineAfter
  <2>3. QED
    BY <2>1, <2>2
<1>6. Start(w, Progress(req[w], rest, fine, {}, "read"))
  BY <1>4, <1>5
<1> HIDE DEF rest, fine
<1>7. /\ AttendanceInv'
      /\ req'[w].op = "mark" /\ req'[w].pc = "read"
      /\ req'[w].lesson = req[w].lesson /\ Batch(w)' = Batch(w)
      /\ req'[w].rest = rest /\ req'[w].fine = fine
  <2>1. Stored' /\ Fits(w, rest, fine, {}, "read")
    BY <1>1, <1>2, <1>3 DEF AttendanceInv, TypeOK, Stored, Fits
  <2>2. QED
    BY <1>2, <1>6, <2>1, ProgressKeeps
<1>8. QED
  BY <1>1, <1>7 DEF rest, fine

\* The rows of a batch, when it can be inserted.
Marked(w) ==
  [s \in Students |->
     IF s \in Batch(w)
     THEN [record[s] EXCEPT ![req[w].lesson] = req[w].batch[s]]
     ELSE record[s]]

LEMMA MarkedType ==
  ASSUME AttendanceInv, NEW w \in Workers, req[w].op = "mark"
  PROVE  /\ Marked(w) \in [Students -> [Lessons -> Status \cup {"none"}]]
         /\ \A s \in Students, l \in Lessons :
              Marked(w)[s][l] = IF s \in Batch(w) /\ l = req[w].lesson
                                THEN req[w].batch[s] ELSE record[s][l]
<1>1. req[w].lesson \in Lessons
  BY RequestSets DEF Holds
<1>2. \A s \in Students : req[w].batch[s] \in Status \cup {"none"}
  BY RequestSets, MarksAssumption DEF Request, Batches
<1>3. record \in [Students -> [Lessons -> Status \cup {"none"}]]
  BY DEF AttendanceInv, TypeOK, Stored
<1>4. QED
  BY <1>1, <1>2, <1>3 DEF Marked

LEMMA CommitMarksKeeps ==
  ASSUME AttendanceInv, NEW w \in Workers, CommitMarks(w)
  PROVE  /\ AttendanceInv' /\ warned' = warned
         /\ req[w].op = "mark" /\ req[w].pc = "read" /\ req[w].rest = {}
         /\ \/ /\ Insertable(w) /\ record' = Marked(w)
               /\ req'[w].op = "mark" /\ req'[w].pc = "warn"
               /\ req'[w].lesson = req[w].lesson /\ Batch(w)' = Batch(w)
               /\ req'[w].fine = req[w].fine /\ req'[w].drop = {}
            \/ record' = record /\ req'[w] = NoRequest
<1>1. req[w].op = "mark" /\ req[w].pc = "read" /\ req[w].rest = {} /\ req[w].drop = {}
  BY RequestSets DEF CommitMarks, At, Holds
<1>2. CASE /\ Insertable(w) /\ record' = Marked(w) /\ warned' = warned
           /\ Start(w, [req[w] EXCEPT !.pc = "warn", !.rest = Batch(w)])
  <2>1. [req[w] EXCEPT !.pc = "warn", !.rest = Batch(w)]
          = Progress(req[w], Batch(w), req[w].fine, {}, "warn")
    BY <1>1, RequestSets DEF Progress, Request
  <2>2. Start(w, Progress(req[w], Batch(w), req[w].fine, {}, "warn"))
    BY <1>2, <2>1
  <2>3. record' \in [Students -> [Lessons -> Status \cup {"none"}]]
    BY <1>1, <1>2, MarkedType
  <2>4. Stored' /\ Fits(w, Batch(w), req[w].fine, {}, "warn")
    BY <1>1, <1>2, <2>3, RequestSets DEF AttendanceInv, TypeOK, Stored, Fits
  <2>5. QED
    BY <1>1, <1>2, <2>2, <2>4, ProgressKeeps
<1>3. CASE Finish(w) /\ UNCHANGED record /\ warned' = warned
  BY <1>1, <1>3, FinishKeeps, FinishHolds DEF AttendanceInv, TypeOK, Stored
<1>4. QED
  BY <1>2, <1>3 DEF CommitMarks, Marked

LEMMA RereadKeeps ==
  ASSUME AttendanceInv, NEW w \in Workers, NEW s \in Students, RereadPercentage(w, s)
  PROVE  /\ AttendanceInv' /\ UNCHANGED <<record, warned>>
         /\ At(w, "mark", "warn") /\ s \in req[w].rest /\ req[w].drop = {}
         /\ \/ /\ Dropped(w, s)
               /\ req'[w].op = "mark" /\ req'[w].pc = "warn"
               /\ req'[w].lesson = req[w].lesson /\ Batch(w)' = Batch(w)
               /\ req'[w].fine = req[w].fine /\ req'[w].drop = {s}
            \/ ~ Dropped(w, s) /\ req'[w] = NoRequest
            \/ /\ ~ Dropped(w, s)
               /\ req'[w].op = "mark" /\ req'[w].pc = "warn"
               /\ req'[w].lesson = req[w].lesson /\ Batch(w)' = Batch(w)
               /\ req'[w].fine = req[w].fine /\ req'[w].drop = {}
<1>1. /\ At(w, "mark", "warn") /\ s \in req[w].rest /\ req[w].drop = {}
      /\ UNCHANGED <<record, warned>>
  BY DEF RereadPercentage
<1>2. req[w].op = "mark" /\ req[w].pc = "warn" /\ req[w].rest \subseteq Batch(w)
  BY <1>1, RequestSets DEF At, Holds
<1>3. CASE Dropped(w, s) /\ Start(w, [req[w] EXCEPT !.drop = {s}])
  <2>1. [req[w] EXCEPT !.drop = {s}] = Progress(req[w], req[w].rest, req[w].fine, {s}, "warn")
    BY <1>2, RequestSets DEF Progress, Request
  <2>2. {s} \in SUBSET (req[w].rest \cap req[w].fine)
    BY <1>1, <1>3 DEF Dropped
  <2>3. Start(w, Progress(req[w], req[w].rest, req[w].fine, {s}, "warn"))
    BY <1>3, <2>1
  <2>4. Stored' /\ Fits(w, req[w].rest, req[w].fine, {s}, "warn")
    BY <1>1, <1>2, <2>2, RequestSets DEF AttendanceInv, TypeOK, Stored, Fits
  <2>5. QED
    BY <1>1, <1>2, <1>3, <2>3, <2>4, ProgressKeeps
<1>4. CASE ~ Dropped(w, s) /\ Continue(w, [req[w] EXCEPT !.rest = @ \ {s}])
  <2> DEFINE rest == req[w].rest \ {s}
  <2>1. [req[w] EXCEPT !.rest = @ \ {s}] = Progress(req[w], rest, req[w].fine, {}, "warn")
    BY <1>1, <1>2, RequestSets DEF Progress, Request
  <2>2. Start(w, Progress(req[w], rest, req[w].fine, {}, "warn")) \/ Finish(w)
    BY <1>4, <2>1 DEF Continue
  <2>3. rest \in SUBSET Batch(w)
    BY <1>2
  <2> HIDE DEF rest
  <2>4. CASE Finish(w)
    BY <1>1, <1>4, <2>4, FinishKeeps, FinishHolds DEF AttendanceInv, TypeOK, Stored
  <2>5. CASE Start(w, Progress(req[w], rest, req[w].fine, {}, "warn"))
    <3>1. Stored' /\ Fits(w, rest, req[w].fine, {}, "warn")
      BY <1>1, <1>2, <2>3, RequestSets DEF AttendanceInv, TypeOK, Stored, Fits
    <3>2. QED
      BY <1>1, <1>4, <2>5, <3>1, ProgressKeeps
  <2>6. QED
    BY <2>2, <2>4, <2>5
<1>5. QED
  BY <1>3, <1>4 DEF RereadPercentage

LEMMA NotifyKeeps ==
  ASSUME AttendanceInv, NEW w \in Workers, NotifyAttendanceWarning(w)
  PROVE  /\ AttendanceInv' /\ record' = record
         /\ At(w, "mark", "warn")
         /\ warned' \subseteq warned \cup (req[w].drop \X {req[w].lesson})
         /\ \/ req'[w] = NoRequest
            \/ /\ req'[w].op = "mark" /\ req'[w].pc = "warn"
               /\ req'[w].lesson = req[w].lesson /\ Batch(w)' = Batch(w)
               /\ req'[w].fine = req[w].fine /\ req'[w].drop = {}
<1>1. /\ At(w, "mark", "warn") /\ record' = record
      /\ warned' \subseteq warned \cup (req[w].drop \X {req[w].lesson})
      /\ Continue(w, [req[w] EXCEPT !.rest = @ \ req[w].drop, !.drop = {}])
  BY DEF NotifyAttendanceWarning
<1>2. /\ req[w].op = "mark" /\ req[w].pc = "warn" /\ req[w].rest \subseteq Batch(w)
      /\ req[w].lesson \in Lessons
  BY <1>1, RequestSets DEF At, Holds
<1>3. warned' \subseteq Students \X Lessons
  BY <1>1, <1>2, RequestSets DEF AttendanceInv, TypeOK, Stored
<1> DEFINE rest == req[w].rest \ req[w].drop
<1>4. [req[w] EXCEPT !.rest = @ \ req[w].drop, !.drop = {}]
        = Progress(req[w], rest, req[w].fine, {}, "warn")
  BY <1>2, RequestSets DEF Progress, Request
<1>5. Start(w, Progress(req[w], rest, req[w].fine, {}, "warn")) \/ Finish(w)
  BY <1>1, <1>4 DEF Continue
<1>6. rest \in SUBSET Batch(w)
  BY <1>2
<1> HIDE DEF rest
<1>7. CASE Finish(w)
  BY <1>1, <1>3, <1>7, FinishKeeps, FinishHolds DEF AttendanceInv, TypeOK, Stored
<1>8. CASE Start(w, Progress(req[w], rest, req[w].fine, {}, "warn"))
  <2>1. Stored' /\ Fits(w, rest, req[w].fine, {}, "warn")
    BY <1>1, <1>2, <1>3, <1>6, RequestSets DEF AttendanceInv, TypeOK, Stored, Fits
  <2>2. QED
    BY <1>1, <1>8, <2>1, ProgressKeeps
<1>9. QED
  BY <1>5, <1>7, <1>8

-----------------------------------------------------------------------------
(***************************************************************************)
(* So does every action of Correcting.                                     *)
(***************************************************************************)
\* The request of whoever has read the record of s at l.
Loaded(l, s, old, m) ==
  [Ask("correct", "save") EXCEPT !.lesson = l, !.target = {s}, !.loaded = old, !.wanted = m]

LEMMA LoadedType ==
  ASSUME NEW l \in Lessons, NEW s \in Students, NEW old \in Status \cup {"none"}, NEW m \in Marks
  PROVE  /\ Loaded(l, s, old, m) \in Request /\ Owed(Loaded(l, s, old, m))
         /\ Loaded(l, s, old, m).op = "correct" /\ Loaded(l, s, old, m).pc = "save"
         /\ Loaded(l, s, old, m).lesson = l
<1> DEFINE ask == Ask("correct", "save")
           r == [ask EXCEPT !.lesson = l, !.target = {s}, !.loaded = old, !.wanted = m]
<1>1. ask \in Request /\ ask.op = "correct" /\ ask.pc = "save" /\ ask.drop = {}
  BY AskType
<1>2. m \in Status
  BY MarksAssumption
<1>3. r = Loaded(l, s, old, m)
  BY DEF Loaded
<1> HIDE DEF ask
<1>4. /\ r \in Request /\ r.op = "correct" /\ r.pc = "save" /\ r.lesson = l /\ r.drop = {}
  BY <1>1, <1>2 DEF Request
<1>5. QED
  BY <1>3, <1>4 DEF Owed

LEMMA UpdateKeeps ==
  ASSUME AttendanceInv, NEW w \in Workers, NEW s \in Students, NEW l \in Lessons, NEW m \in Marks,
         UpdateAttendance(w, s, l, m)
  PROVE  /\ AttendanceInv' /\ UNCHANGED <<record, warned>>
         /\ req'[w].op = "correct" /\ req'[w].lesson = l
<1> DEFINE r == Loaded(l, s, record[s][l], m)
<1>1. Start(w, r) /\ UNCHANGED <<record, warned>>
  BY DEF UpdateAttendance, Loaded
<1>2. record[s][l] \in Status \cup {"none"}
  BY DEF AttendanceInv, TypeOK, Stored
<1>3. r \in Request /\ Owed(r) /\ r.op = "correct" /\ r.pc = "save" /\ r.lesson = l
  BY <1>2, LoadedType
<1> HIDE DEF r
<1>4. req'[w] = r
  BY <1>1, OthersKeep DEF AttendanceInv
<1>5. Holds(w)'
  BY <1>3, <1>4 DEF Holds
<1>6. QED
  BY <1>1, <1>3, <1>4, <1>5, HoldsFrame DEF AttendanceInv, TypeOK, Stored

LEMMA CommitUpdateKeeps ==
  ASSUME AttendanceInv, NEW w \in Workers, CommitUpdate(w)
  PROVE  /\ AttendanceInv' /\ warned' = warned
         /\ At(w, "correct", "save") /\ req'[w] = NoRequest
         /\ \A s \in Students, l \in Lessons :
              s \notin req[w].target \/ l # req[w].lesson => record'[s][l] = record[s][l]
<1>1. At(w, "correct", "save") /\ Finish(w) /\ warned' = warned
  BY DEF CommitUpdate
<1>2. \A x \in Status \cup {"none"} : Flushed(w, x) \in Status \cup {"none"}
  BY RequestSets DEF Flushed, Request
<1>3. record \in [Students -> [Lessons -> Status \cup {"none"}]] /\ req[w].lesson \in Lessons
  BY <1>1, RequestSets DEF AttendanceInv, TypeOK, At, Holds
<1>4. record' = [s \in Students |->
        IF s \in req[w].target
        THEN [record[s] EXCEPT ![req[w].lesson] = Flushed(w, record[s][req[w].lesson])]
        ELSE record[s]]
  BY <1>3 DEF CommitUpdate
<1>5. record' \in [Students -> [Lessons -> Status \cup {"none"}]]
  BY <1>2, <1>3, <1>4
<1>6. \A s \in Students, l \in Lessons :
        s \notin req[w].target \/ l # req[w].lesson => record'[s][l] = record[s][l]
  BY <1>3, <1>4
<1>7. QED
  BY <1>1, <1>5, <1>6, FinishKeeps, FinishHolds DEF AttendanceInv, TypeOK, Stored

LEMMA AbortKeeps ==
  ASSUME AttendanceInv, NEW w \in Workers, Abort(w)
  PROVE  AttendanceInv' /\ UNCHANGED <<record, warned>> /\ req'[w] = NoRequest
BY FinishKeeps, FinishHolds DEF Abort, AttendanceInv, TypeOK, Stored

-----------------------------------------------------------------------------
LEMMA AttendanceInvInit == Init => AttendanceInv
BY NoRequestType DEF Init, AttendanceInv, TypeOK, AllHold, Holds, Owed

LEMMA AttendanceInvStep == AttendanceInv /\ [Next]_vars => AttendanceInv'
<1> SUFFICES ASSUME AttendanceInv, [Next]_vars PROVE AttendanceInv'
  OBVIOUS
<1>1. ASSUME NEW w \in Workers, Marking(w) PROVE AttendanceInv'
  BY <1>1, MarkKeeps, ReadKeeps, CommitMarksKeeps, RereadKeeps, NotifyKeeps DEF Marking
<1>2. ASSUME NEW w \in Workers, Correcting(w) PROVE AttendanceInv'
  BY <1>2, UpdateKeeps, CommitUpdateKeeps DEF Correcting
<1>3. ASSUME NEW w \in Workers, Abort(w) PROVE AttendanceInv'
  BY <1>3, AbortKeeps
<1>4. CASE UNCHANGED vars
  BY <1>4 DEF vars, AttendanceInv, TypeOK, AllHold, Holds, Batch
<1>5. QED
  BY <1>1, <1>2, <1>3, <1>4 DEF Next

LEMMA AttendanceInvAlways == Spec => []AttendanceInv
BY AttendanceInvInit, AttendanceInvStep, PTL DEF Spec

(***************************************************************************)
(* The variables keep their types in every reachable state, and a warning  *)
(* is only ever due to a student read above the threshold before.          *)
(***************************************************************************)
THEOREM AttendanceTypeCorrect == Spec => []TypeOK
<1>1. AttendanceInv => TypeOK
  BY DEF AttendanceInv
<1>2. QED
  BY <1>1, AttendanceInvAlways, PTL

-----------------------------------------------------------------------------
(***************************************************************************)
(* The register grows by whole batches.                                    *)
(***************************************************************************)
LEMMA GrowsStep == AttendanceInv /\ [Next]_vars => [GrowsByBatches]_vars
<1> SUFFICES ASSUME AttendanceInv, Next PROVE GrowsByBatches
  BY DEF vars, GrowsByBatches
<1>1. CASE record' = record
  BY <1>1 DEF GrowsByBatches
<1>2. ASSUME NEW w \in Workers, CommitMarks(w) PROVE GrowsByBatches
  <2>1. CASE Insertable(w) /\ record' = Marked(w)
    <3>1. At(w, "mark", "read") /\ req[w].lesson \in Lessons /\ Batch(w) \subseteq Students
      BY <1>2, RequestSets DEF CommitMarks, At, Holds
    <3>2. \A s \in Students, l \in Lessons :
            record'[s][l] = IF s \in Batch(w) /\ l = req[w].lesson
                            THEN req[w].batch[s] ELSE record[s][l]
      BY <2>1, <3>1, MarkedType DEF At
    <3>3. \A t \in Batch(w) : /\ record[t][req[w].lesson] = "none"
                              /\ record'[t][req[w].lesson] = req[w].batch[t]
      BY <2>1, <3>1, <3>2 DEF Insertable
    <3>4. QED
      BY <3>1, <3>2, <3>3 DEF GrowsByBatches
  <2>2. QED
    BY <1>1, <1>2, <2>1, CommitMarksKeeps
<1>3. ASSUME NEW w \in Workers, CommitUpdate(w) PROVE GrowsByBatches
  BY <1>3, CommitUpdateKeeps DEF GrowsByBatches
<1>4. ASSUME NEW w \in Workers, Marking(w) PROVE GrowsByBatches
  BY <1>1, <1>2, <1>4, MarkKeeps, ReadKeeps, RereadKeeps, NotifyKeeps DEF Marking
<1>5. ASSUME NEW w \in Workers, Correcting(w) PROVE GrowsByBatches
  BY <1>1, <1>3, <1>5, UpdateKeeps DEF Correcting
<1>6. QED
  BY <1>1, <1>4, <1>5, AbortKeeps DEF Next

(***************************************************************************)
(* However batches and corrections interleave, no record is written twice  *)
(* by a batch, and no batch is stored in part.                             *)
(***************************************************************************)
THEOREM AttendanceMarkedOnce == Spec => MarkedOnce
<1>1. AttendanceInv /\ [Next]_vars => [GrowsByBatches]_vars
  BY GrowsStep
<1>2. QED
  BY <1>1, AttendanceInvAlways, PTL DEF Spec, MarkedOnce

-----------------------------------------------------------------------------
(***************************************************************************)
(* One lesson of a class session at a time.  The percentage found before   *)
(* the write is then the percentage without the lesson marked, for every   *)
(* student who can still be inserted, and stays so until the warnings are  *)
(* out.                                                                    *)
(***************************************************************************)
Current(w) ==
  /\ At(w, "mark", "read") =>
       /\ req[w].fine \cap req[w].rest = {}
       /\ \A s \in Batch(w) \ req[w].rest :
            record[s][req[w].lesson] = "none"
              => (s \in req[w].fine <=> ~ LowWithout(s, req[w].lesson))
  /\ At(w, "mark", "warn") =>
       /\ \A s \in Batch(w) :
            /\ record[s][req[w].lesson] # "none"
            /\ s \in req[w].fine <=> ~ LowWithout(s, req[w].lesson)
       /\ \A s \in req[w].drop : LowIn(s, req[w].lesson)

AllCurrent == \A w \in Workers : Current(w)

(***************************************************************************)
(* The inductive invariant of OneLessonSpec.                               *)
(***************************************************************************)
LessonInv == AttendanceInv /\ OneLesson /\ AllCurrent

\* The percentage depends on the records it counts, and not on a lesson
\* that has not been marked.
LEMMA LowDepends ==
  ASSUME NEW r, NEW q, NEW L, \A l \in L : r[l] = q[l]
  PROVE  Low(r, L) = Low(q, L)
<1>1. {l \in L : r[l] \in {"present", "late"}} = {l \in L : q[l] \in {"present", "late"}}
  OBVIOUS
<1>2. {l \in L : r[l] \in {"present", "late", "absent"}}
        = {l \in L : q[l] \in {"present", "late", "absent"}}
  OBVIOUS
<1>3. QED
  BY <1>1, <1>2 DEF Low, Attended, Countable

LEMMA LowUnmarked ==
  ASSUME NEW r, NEW L, NEW k, r[k] = "none"
  PROVE  Low(r, L) = Low(r, L \ {k})
<1>1. {l \in L : r[l] \in {"present", "late"}} = {l \in L \ {k} : r[l] \in {"present", "late"}}
  OBVIOUS
<1>2. {l \in L : r[l] \in {"present", "late", "absent"}}
        = {l \in L \ {k} : r[l] \in {"present", "late", "absent"}}
  OBVIOUS
<1>3. QED
  BY <1>1, <1>2 DEF Low, Attended, Countable

\* What another worker commits leaves this one's readings right, if it does
\* not touch the class session or makes the batch fail.
LEMMA CurrentFrame ==
  ASSUME NEW v \in Workers, Current(v), req'[v] = req[v],
         \A s \in Students :
           \/ \A k \in ClassOf(req[v].lesson) : record'[s][k] = record[s][k]
           \/ ~ At(v, "mark", "warn") /\ record'[s][req[v].lesson] # "none"
           \/ s \notin Batch(v),
         req[v].drop \subseteq Batch(v), req[v].lesson \in Lessons
  PROVE  Current(v)'
<1> DEFINE l == req[v].lesson
<1>1. Batch(v)' = Batch(v) /\ (At(v, "mark", "read")' <=> At(v, "mark", "read"))
        /\ (At(v, "mark", "warn")' <=> At(v, "mark", "warn")) /\ Batch(v) \subseteq Students
  BY DEF Batch, At
<1>2. ASSUME NEW s \in Students, \A k \in ClassOf(l) : record'[s][k] = record[s][k]
      PROVE  /\ record'[s][l] = record[s][l]
             /\ LowIn(s, l)' = LowIn(s, l) /\ LowWithout(s, l)' = LowWithout(s, l)
  <2>1. l \in ClassOf(l)
    BY DEF ClassOf
  <2> DEFINE C == ClassOf(l)
             D == ClassOf(l) \ {l}
             r == record[s]
             q == record'[s]
  <2>2. (\A k \in C : q[k] = r[k]) /\ (\A k \in D : q[k] = r[k])
    BY <1>2
  <2>3. LowIn(s, l)' = Low(q, C) /\ LowIn(s, l) = Low(r, C)
    BY DEF LowIn, Low, Attended, Countable, ClassOf
  <2>4. LowWithout(s, l)' = Low(q, D) /\ LowWithout(s, l) = Low(r, D)
    BY DEF LowWithout, Low, Attended, Countable, ClassOf
  <2> HIDE DEF C, D, r, q
  <2>5. Low(q, C) = Low(r, C) /\ Low(q, D) = Low(r, D)
    BY <2>2, LowDepends
  <2>6. QED
    BY <1>2, <2>1, <2>3, <2>4, <2>5
<1>3. QED
  BY <1>1, <1>2 DEF Current, At

-----------------------------------------------------------------------------
(***************************************************************************)
(* Every action keeps every worker's readings right.                       *)
(***************************************************************************)
\* As long as nothing is written, the other workers are not concerned.
LEMMA OwnCurrent ==
  ASSUME LessonInv, NEW w \in Workers, NEW r, Start(w, r), record' = record, Current(w)'
  PROVE  AllCurrent'
<1>1. ASSUME NEW v \in Workers, v # w PROVE Current(v)'
  <2>1. req'[v] = req[v] /\ Current(v)
    BY <1>1, OthersKeep DEF LessonInv, AttendanceInv, AllCurrent
  <2>2. QED
    BY <2>1 DEF Current, At, Batch, LowIn, LowWithout
<1>2. QED
  BY <1>1 DEF AllCurrent

LEMMA IdleCurrent ==
  ASSUME NEW w \in Workers, req'[w] = NoRequest
  PROVE  Current(w)'
BY NoRequestType DEF Current, At

LEMMA MarkCurrent ==
  ASSUME LessonInv, NEW w \in Workers, NEW l \in Lessons, NEW b \in Batches,
         MarkAttendance(w, l, b)
  PROVE  AllCurrent'
<1>1. req'[w] = Checked(l, b) /\ record' = record
  BY MarkKeeps DEF LessonInv
<1>2. Batch(w)' = req'[w].rest /\ req'[w].fine = {} /\ At(w, "mark", "read")'
  <2>1. Checked(l, b).fine = {}
    <3> DEFINE U == {s \in Students : b[s] # "none"}
               ask == Ask("mark", "read")
    <3>1. ask \in Request /\ ask.fine = {}
      BY AskType
    <3> HIDE DEF ask, U
    <3>2. [ask EXCEPT !.lesson = l, !.batch = b, !.rest = U].fine = {}
      BY <3>1 DEF Request
    <3>3. QED
      BY <3>2 DEF Checked, ask, U
  <2>2. QED
    BY <1>1, <2>1, CheckedType DEF Batch, At
<1>3. Current(w)'
  BY <1>2 DEF Current, At
<1>4. QED
  BY <1>1, <1>3, OwnCurrent DEF MarkAttendance

LEMMA ReadCurrent ==
  ASSUME LessonInv, NEW w \in Workers, NEW s \in Students, ReadPercentage(w, s)
  PROVE  AllCurrent'
<1> DEFINE l == req[w].lesson
<1>1. /\ record' = record /\ s \in req[w].rest
      /\ req'[w].op = "mark" /\ req'[w].pc = "read"
      /\ req'[w].lesson = l /\ Batch(w)' = Batch(w)
      /\ req'[w].rest = req[w].rest \ {s} /\ req'[w].fine = FineAfter(w, s)
  BY ReadKeeps DEF LessonInv
<1>2. At(w, "mark", "read") /\ Current(w)
  BY DEF ReadPercentage, LessonInv, AllCurrent
<1>3. record[s][l] = "none" => (LowIn(s, l) <=> LowWithout(s, l))
  BY LowUnmarked DEF LowIn, LowWithout
<1>4. s \notin req[w].fine
  BY <1>1, <1>2 DEF Current
<1>5. ASSUME NEW t \in Batch(w) \ req'[w].rest, record[t][l] = "none"
      PROVE  t \in FineAfter(w, s) <=> ~ LowWithout(t, l)
  <2>1. CASE t = s
    BY <1>3, <1>4, <1>5, <2>1 DEF FineAfter
  <2>2. CASE t # s
    BY <1>1, <1>2, <1>5, <2>2 DEF FineAfter, Current
  <2>3. QED
    BY <2>1, <2>2
<1>6. FineAfter(w, s) \cap req'[w].rest = {}
  BY <1>1, <1>2 DEF FineAfter, Current
<1>7. Batch(w) \subseteq Students
  BY DEF Batch
<1>8. Current(w)'
  BY <1>1, <1>5, <1>6, <1>7 DEF Current, At, LowWithout
<1>9. PICK r : Start(w, r)
  BY DEF ReadPercentage
<1>10. QED
  BY <1>1, <1>8, <1>9, OwnCurrent

\* Nobody else is busy with the class session of a batch, except with the
\* same lesson.
LEMMA Alone ==
  ASSUME LessonInv, NEW v \in Workers, NEW w \in Workers, v # w,
         Class(req[v].lesson) = Class(req[w].lesson), req[v].op = "mark" \/ req[w].op = "mark",
         req[v].op # "none", req[w].op # "none"
  PROVE  req[v].op = "mark" /\ req[w].op = "mark" /\ req[v].lesson = req[w].lesson
<1>1. ~ Idle(v) /\ ~ Idle(w)
  BY RequestSets DEF LessonInv, Holds, Idle
<1>2. QED
  BY <1>1 DEF LessonInv, OneLesson

LEMMA CommitMarksCurrent ==
  ASSUME LessonInv, NEW w \in Workers, CommitMarks(w)
  PROVE  AllCurrent'
<1> DEFINE l == req[w].lesson
<1>1. AttendanceInv /\ req[w].op = "mark" /\ req[w].pc = "read" /\ req[w].rest = {}
  BY CommitMarksKeeps DEF LessonInv
<1>2. PICK r : Start(w, r)
  BY DEF CommitMarks, Finish, Start
<1>3. CASE record' = record /\ req'[w] = NoRequest
  BY <1>2, <1>3, IdleCurrent, OwnCurrent
<1>4. CASE /\ Insertable(w) /\ record' = Marked(w)
           /\ req'[w].op = "mark" /\ req'[w].pc = "warn"
           /\ req'[w].lesson = l /\ Batch(w)' = Batch(w)
           /\ req'[w].fine = req[w].fine /\ req'[w].drop = {}
  <2>1. /\ l \in Lessons /\ Batch(w) \subseteq Students
        /\ \A s \in Batch(w) : record[s][l] = "none" /\ req[w].batch[s] # "none"
    BY <1>1, <1>4, RequestSets DEF Holds, Insertable, Batch
  <2>2. \A s \in Students, k \in Lessons :
          record'[s][k] = IF s \in Batch(w) /\ k = l THEN req[w].batch[s] ELSE record[s][k]
    BY <1>1, <1>4, MarkedType
  <2>3. ASSUME NEW s \in Batch(w)
        PROVE  record'[s][l] # "none" /\ (s \in req[w].fine <=> ~ LowWithout(s, l)')
    <3>1. record'[s][l] # "none" /\ s \in req[w].fine <=> ~ LowWithout(s, l)
      BY <1>1, <2>1, <2>2 DEF LessonInv, AllCurrent, Current, At
    <3> DEFINE D == ClassOf(l) \ {l}
               a == record[s]
               b == record'[s]
    <3>2. \A k \in D : b[k] = a[k]
      BY <2>1, <2>2 DEF ClassOf
    <3>3. LowWithout(s, l)' = Low(b, D) /\ LowWithout(s, l) = Low(a, D)
      BY <1>4 DEF LowWithout, Low, Attended, Countable, ClassOf
    <3>4. Low(b, D) = Low(a, D)
      <4> HIDE DEF a, b, D
      <4>1. QED
        BY <3>2, LowDepends
    <3>5. QED
      BY <2>1, <2>2, <3>1, <3>3, <3>4
  <2>4. Current(w)'
    BY <1>4, <2>3 DEF Current, At
  <2>5. ASSUME NEW v \in Workers, v # w PROVE Current(v)'
    <3>1. req'[v] = req[v] /\ Current(v)
      BY <1>1, <1>2, <2>5, OthersKeep DEF AttendanceInv, LessonInv, AllCurrent
    <3>2. CASE req[v].op # "mark"
      BY <3>1, <3>2 DEF Current, At
    <3>3. CASE req[v].op = "mark"
      <4>1. /\ req[v].lesson \in Lessons /\ req[v].drop \subseteq Batch(v)
            /\ Batch(v) \subseteq Students
        BY <1>1, <3>3, RequestSets DEF Holds
      <4>2. CASE Class(req[v].lesson) # Class(l)
        <5>1. \A s \in Students, k \in ClassOf(req[v].lesson) : record'[s][k] = record[s][k]
          BY <2>2, <4>2 DEF ClassOf
        <5>2. QED
          BY <3>1, <4>1, <5>1, CurrentFrame
      <4>3. CASE Class(req[v].lesson) = Class(l)
        <5>1. req[v].lesson = l
          BY <1>1, <2>5, <3>3, <4>3, Alone
        <5>2. \A s \in Students \ Batch(w) : \A k \in ClassOf(l) : record'[s][k] = record[s][k]
          BY <2>2 DEF ClassOf
        <5>3. At(v, "mark", "warn") => Batch(v) \cap Batch(w) = {}
          BY <2>1, <3>1, <5>1 DEF Current
        <5>4. \A s \in Batch(w) : record'[s][l] # "none"
          BY <2>3
        <5>5. QED
          BY <3>1, <4>1, <5>1, <5>2, <5>3, <5>4, CurrentFrame
      <4>4. QED
        BY <4>2, <4>3
    <3>4. QED
      BY <3>2, <3>3
  <2>6. QED
    BY <2>4, <2>5 DEF AllCurrent
<1>5. QED
  BY <1>3, <1>4, CommitMarksKeeps DEF LessonInv

LEMMA RereadCurrent ==
  ASSUME LessonInv, NEW w \in Workers, NEW s \in Students, RereadPercentage(w, s)
  PROVE  AllCurrent'
<1>1. /\ record' = record /\ At(w, "mark", "warn")
      /\ \/ req'[w] = NoRequest
         \/ /\ req'[w].op = "mark" /\ req'[w].pc = "warn"
            /\ req'[w].lesson = req[w].lesson /\ Batch(w)' = Batch(w)
            /\ req'[w].fine = req[w].fine
            /\ (req'[w].drop = {} \/ (req'[w].drop = {s} /\ LowIn(s, req[w].lesson)))
  BY RereadKeeps DEF LessonInv, Dropped
<1>2. Current(w)
  BY DEF LessonInv, AllCurrent
<1>3. ASSUME /\ req'[w].op = "mark" /\ req'[w].pc = "warn"
             /\ req'[w].lesson = req[w].lesson /\ Batch(w)' = Batch(w)
             /\ req'[w].fine = req[w].fine
             /\ (req'[w].drop = {} \/ (req'[w].drop = {s} /\ LowIn(s, req[w].lesson)))
      PROVE  Current(w)'
  <2>1. \A t \in Batch(w) :
          /\ record[t][req[w].lesson] # "none"
          /\ t \in req[w].fine <=> ~ LowWithout(t, req[w].lesson)
    BY <1>1, <1>2 DEF Current
  <2>2. \A t \in req'[w].drop : LowIn(t, req[w].lesson)
    BY <1>3
  <2>3. QED
    BY <1>1, <1>3, <2>1, <2>2 DEF Current, At, LowIn, LowWithout
<1>4. PICK r : Start(w, r)
  BY DEF RereadPercentage, Continue, Finish, Start
<1>5. QED
  BY <1>1, <1>3, <1>4, IdleCurrent, OwnCurrent

LEMMA NotifyCurrent ==
  ASSUME LessonInv, NEW w \in Workers, NotifyAttendanceWarning(w)
  PROVE  AllCurrent'
<1>1. /\ record' = record /\ At(w, "mark", "warn")
      /\ \/ req'[w] = NoRequest
         \/ /\ req'[w].op = "mark" /\ req'[w].pc = "warn"
            /\ req'[w].lesson = req[w].lesson /\ Batch(w)' = Batch(w)
            /\ req'[w].fine = req[w].fine /\ req'[w].drop = {}
  BY NotifyKeeps DEF LessonInv
<1>2. Current(w)
  BY DEF LessonInv, AllCurrent
<1>3. ASSUME /\ req'[w].op = "mark" /\ req'[w].pc = "warn"
             /\ req'[w].lesson = req[w].lesson /\ Batch(w)' = Batch(w)
             /\ req'[w].fine = req[w].fine /\ req'[w].drop = {}
      PROVE  Current(w)'
  <2>1. \A t \in Batch(w) :
          /\ record[t][req[w].lesson] # "none"
          /\ t \in req[w].fine <=> ~ LowWithout(t, req[w].lesson)
    BY <1>1, <1>2 DEF Current
  <2>2. QED
    BY <1>1, <1>3, <2>1 DEF Current, At, LowWithout
<1>4. PICK r : Start(w, r)
  BY DEF NotifyAttendanceWarning, Continue, Finish, Start
<1>5. QED
  BY <1>1, <1>3, <1>4, IdleCurrent, OwnCurrent

LEMMA UpdateCurrent ==
  ASSUME LessonInv, NEW w \in Workers, NEW s \in Students, NEW l \in Lessons, NEW m \in Marks,
         UpdateAttendance(w, s, l, m)
  PROVE  AllCurrent'
<1>1. record' = record /\ req'[w].op = "correct"
  BY UpdateKeeps DEF LessonInv
<1>2. Current(w)'
  BY <1>1 DEF Current, At
<1>3. PICK r : Start(w, r)
  BY DEF UpdateAttendance
<1>4. QED
  BY <1>1, <1>2, <1>3, OwnCurrent

LEMMA CommitUpdateCurrent ==
  ASSUME LessonInv, NEW w \in Workers, CommitUpdate(w)
  PROVE  AllCurrent'
<1>1. /\ AttendanceInv /\ req[w].op = "correct" /\ req'[w] = NoRequest
      /\ \A s \in Students, l \in Lessons : l # req[w].lesson => record'[s][l] = record[s][l]
  BY CommitUpdateKeeps DEF LessonInv, At
<1>2. PICK r : Start(w, r)
  BY DEF CommitUpdate, Finish, Start
<1>3. ASSUME NEW v \in Workers, v # w PROVE Current(v)'
  <2>1. req'[v] = req[v] /\ Current(v)
    BY <1>1, <1>2, <1>3, OthersKeep DEF AttendanceInv, LessonInv, AllCurrent
  <2>2. CASE req[v].op # "mark"
    BY <2>1, <2>2 DEF Current, At
  <2>3. CASE req[v].op = "mark"
    <3>1. /\ req[v].lesson \in Lessons /\ req[v].drop \subseteq Batch(v)
      BY <1>1, <2>3, RequestSets DEF Holds
    <3>2. Class(req[v].lesson) # Class(req[w].lesson)
      BY <1>1, <1>3, <2>3, Alone
    <3>3. \A s \in Students, k \in ClassOf(req[v].lesson) : record'[s][k] = record[s][k]
      BY <1>1, <3>2 DEF ClassOf
    <3>4. QED
      BY <2>1, <3>1, <3>3, CurrentFrame
  <2>4. QED
    BY <2>2, <2>3
<1>4. QED
  BY <1>1, <1>3, IdleCurrent DEF AllCurrent

LEMMA AbortCurrent ==
  ASSUME LessonInv, NEW w \in Workers, Abort(w)
  PROVE  AllCurrent'
<1>1. Start(w, NoRequest) /\ req'[w] = NoRequest /\ record' = record
  BY AbortKeeps, FinishHolds DEF Abort, LessonInv
<1>2. QED
  BY <1>1, IdleCurrent, OwnCurrent

-----------------------------------------------------------------------------
LEMMA LessonInvInit == Init => LessonInv
<1> SUFFICES ASSUME Init PROVE LessonInv
  OBVIOUS
<1>1. OneLesson
  BY NoRequestType DEF Init, OneLesson
<1>2. AllCurrent
  BY NoRequestType DEF Init, AllCurrent, Current, At
<1>3. QED
  BY <1>1, <1>2, AttendanceInvInit DEF LessonInv

LEMMA LessonInvStep == LessonInv /\ [Next /\ OneLesson']_vars => LessonInv'
<1> SUFFICES ASSUME LessonInv, [Next /\ OneLesson']_vars PROVE LessonInv'
  OBVIOUS
<1>1. AttendanceInv'
  BY AttendanceInvStep DEF LessonInv
<1>2. OneLesson'
  BY DEF LessonInv, OneLesson, Idle, vars
<1>3. AllCurrent'
  <2>1. ASSUME NEW w \in Workers, Marking(w) PROVE AllCurrent'
    BY <2>1, MarkCurrent, ReadCurrent, CommitMarksCurrent, RereadCurrent, NotifyCurrent DEF Marking
  <2>2. ASSUME NEW w \in Workers, Correcting(w) PROVE AllCurrent'
    BY <2>2, UpdateCurrent, CommitUpdateCurrent DEF Correcting
  <2>3. ASSUME NEW w \in Workers, Abort(w) PROVE AllCurrent'
    BY <2>3, AbortCurrent
  <2>4. CASE UNCHANGED vars
    BY <2>4 DEF vars, LessonInv, AllCurrent, Current, At, Batch, LowIn, LowWithout
  <2>5. QED
    BY <2>1, <2>2, <2>3, <2>4 DEF Next
<1>4. QED
  BY <1>1, <1>2, <1>3 DEF LessonInv

LEMMA LessonInvAlways == OneLessonSpec => []LessonInv
BY LessonInvInit, LessonInvStep, PTL DEF OneLessonSpec

\* Whether a warning is owed is decided by the crossing.
LEMMA RereadFair ==
  ASSUME LessonInv, NEW w \in Workers, NEW s \in Students, RereadPercentage(w, s)
  PROVE  req'[w].drop = {s} <=> Crossing(s, req[w].lesson)
<1>1. At(w, "mark", "warn") /\ s \in Batch(w)
  BY RequestSets DEF LessonInv, RereadPercentage, At, Holds
<1>2. s \in req[w].fine <=> ~ LowWithout(s, req[w].lesson)
  BY <1>1 DEF LessonInv, AllCurrent, Current
<1>3. Dropped(w, s) <=> Crossing(s, req[w].lesson)
  BY <1>2 DEF Dropped, Crossing
<1>4. req'[w].drop = {s} <=> Dropped(w, s)
  BY RereadKeeps, AskType DEF LessonInv, NoRequest
<1>5. QED
  BY <1>3, <1>4

LEMMA NotifyFair ==
  ASSUME LessonInv, NEW w \in Workers, NotifyAttendanceWarning(w),
         NEW s \in Students, NEW l \in Lessons, <<s, l>> \in warned' \ warned
  PROVE  Crossing(s, l)
<1>1. At(w, "mark", "warn") /\ s \in req[w].drop /\ l = req[w].lesson
  BY NotifyKeeps DEF LessonInv
<1>2. s \in req[w].fine /\ s \in Batch(w)
  BY <1>1, RequestSets DEF LessonInv, At, Holds
<1>3. QED
  BY <1>1, <1>2 DEF LessonInv, AllCurrent, Current, Crossing

LEMMA FairStep == LessonInv /\ [Next /\ OneLesson']_vars => [FairlyWarned]_vars
<1> SUFFICES ASSUME LessonInv, Next PROVE FairlyWarned
  BY DEF vars
<1>1. CASE warned' = warned
  BY <1>1, RereadFair DEF FairlyWarned
<1>2. ASSUME NEW w \in Workers, NotifyAttendanceWarning(w) PROVE FairlyWarned
  BY <1>2, RereadFair, NotifyFair DEF FairlyWarned
<1>3. ASSUME NEW w \in Workers, Marking(w) PROVE FairlyWarned
  BY <1>1, <1>2, <1>3 DEF Marking, MarkAttendance, ReadPercentage, CommitMarks, RereadPercentage
<1>4. ASSUME NEW w \in Workers, Correcting(w) \/ Abort(w) PROVE FairlyWarned
  BY <1>1, <1>4 DEF Correcting, UpdateAttendance, CommitUpdate, Abort
<1>5. QED
  BY <1>3, <1>4 DEF Next

(***************************************************************************)
(* When one lesson of a class session is marked at a time, whoever crosses *)
(* the threshold is found out, and nobody else is warned.                  *)
(***************************************************************************)
THEOREM AttendanceWarnedAtCrossing == OneLessonSpec => WarnedAtCrossing
<1>1. LessonInv /\ [Next /\ OneLesson']_vars => [FairlyWarned]_vars
  BY FairStep
<1>2. QED
  BY <1>1, LessonInvAlways, PTL DEF OneLessonSpec, WarnedAtCrossing
=============================================================================
