--------------------------- MODULE ScheduleProofs ---------------------------
(***************************************************************************)
(* Proofs about Schedule, for any number of workers, rooms, teachers,      *)
(* entries and requests.                                                   *)
(***************************************************************************)
EXTENDS Schedule, TLAPS

(***************************************************************************)
(* What a worker's request is about, in every state of its handling.       *)
(***************************************************************************)
Target(w) ==
  /\ req[w].op \in {"approve", "reject"} /\ req[w].pc \in {"load", "check", "save", "answer"}
       => /\ req[w].request \in DOMAIN change
          /\ change[req[w].request].entry = req[w].entry
  /\ req[w].op \in {"update", "approve"} /\ req[w].pc \in {"check", "save"}
       => req[w].loaded \in Slot /\ req[w].entry \in Entries
  /\ req[w].op \in {"create", "update", "approve"} /\ req[w].pc \in {"check", "save"}
       => req[w].new \in Slot
  /\ req[w].op = "ask" /\ req[w].pc = "save" => \A c \in req[w].ask : c.entry = req[w].entry
  /\ req[w].op = "delete" /\ req[w].pc = "save" => req[w].entry \in used
  /\ req[w].pc = "refresh" => req[w].entry \in Entries
  /\ req[w].pc = "dispatch"
       => /\ req[w].entry \in Entries
          /\ req[w].said = "cancelled" => req[w].entry \in used \ DOMAIN slot

Targets == \A w \in Workers : Target(w)

\* The id of an entry announced as cancelled is not given out again.
Announced == \A x \in Entries : notice[x] = "cancelled" => x \in used

(***************************************************************************)
(* The inductive invariant of Spec.                                        *)
(***************************************************************************)
ScheduleInv == TypeOK /\ RequestsResolve /\ Announced /\ Targets

\* What no step does: forget an entry id or a request, move a request to
\* another entry, or bring back an entry that is gone.
Steady ==
  /\ used \subseteq used'
  /\ DOMAIN change \subseteq DOMAIN change'
  /\ \A q \in DOMAIN change : change'[q].entry = change[q].entry
  /\ \A x \in used \ DOMAIN slot : x \notin DOMAIN slot'

LEMMA NoRequestType == NoRequest \in Request /\ NoRequest.pc = "idle"
BY DEF NoRequest, Ask, Request

LEMMA AskType ==
  ASSUME NEW op \in {"create", "update", "delete", "ask", "approve", "reject"},
         NEW pc \in {"load", "check", "save", "refresh", "dispatch", "answer"},
         NEW x \in Entries \cup {"none"}, NEW q \in Requests \cup {"none"}
  PROVE  /\ Ask(op, pc, x, q) \in Request
         /\ Ask(op, pc, x, q).op = op
         /\ Ask(op, pc, x, q).pc = pc
         /\ Ask(op, pc, x, q).entry = x
         /\ Ask(op, pc, x, q).request = q
         /\ Ask(op, pc, x, q).said = "none"
BY DEF Ask, Request

\* The request of a worker that is about to dispatch a notice.
Dispatching(a, said) == [a EXCEPT !.pc = "dispatch", !.said = said]

LEMMA DispatchType ==
  ASSUME NEW a \in Request, NEW said \in Rooms \cup {"none", "cancelled"}
  PROVE  /\ Dispatching(a, said) \in Request
         /\ Dispatching(a, said).op = a.op
         /\ Dispatching(a, said).pc = "dispatch"
         /\ Dispatching(a, said).entry = a.entry
         /\ Dispatching(a, said).said = said
<1> DEFINE Ops == {"none", "create", "update", "delete", "ask", "approve", "reject"}
           Pcs == {"idle", "load", "check", "save", "refresh", "dispatch", "answer"}
           Said == Rooms \cup {"none", "cancelled"}
           E == Entries \cup {"none"}
           Q == Requests \cup {"none"}
           S == Slot \cup {NoSlot}
           A == SUBSET Change
<1>1. Request = [ op : Ops, pc : Pcs, entry : E, request : Q, loaded : S, new : S, ask : A,
                  said : Said ]
  BY DEF Request
<1>2. "dispatch" \in Pcs /\ said \in Said
  OBVIOUS
<1> HIDE DEF Ops, Pcs, Said, E, Q, S, A
<1>3. QED
  BY <1>1, <1>2 DEF Dispatching

\* A step of w that leaves the other workers alone keeps their targets.
LEMMA TargetFrame ==
  ASSUME TypeOK, Targets, NEW w \in Workers, NEW r \in Request, Start(w, r), Steady, Target(w)'
  PROVE  Targets' /\ req' \in [Workers -> Request] /\ req'[w] = r
<1>1. req' \in [Workers -> Request] /\ req'[w] = r
  BY DEF TypeOK, Start
<1>2. ASSUME NEW v \in Workers PROVE Target(v)'
  <2>1. CASE v = w
    BY <2>1
  <2>2. CASE v # w
    <3>1. req'[v] = req[v] /\ Target(v)
      BY <2>2 DEF TypeOK, Start, Targets
    <3>2. QED
      BY <3>1 DEF Target, Steady
  <2>3. QED
    BY <2>1, <2>2
<1>3. QED
  BY <1>1, <1>2 DEF Targets

\* The same when only the request changes.
LEMMA StartKeeps ==
  ASSUME ScheduleInv, NEW w \in Workers, NEW r \in Request, Start(w, r),
         UNCHANGED <<rows, notice, told>>, Target(w)'
  PROVE  ScheduleInv'
<1>1. Steady
  BY DEF Steady, rows
<1>2. Targets' /\ req' \in [Workers -> Request]
  BY <1>1, TargetFrame DEF ScheduleInv
<1>3. TypeOK'
  BY <1>2 DEF ScheduleInv, TypeOK, rows
<1>4. RequestsResolve' /\ Announced'
  BY DEF ScheduleInv, RequestsResolve, Announced, rows
<1>5. QED
  BY <1>2, <1>3, <1>4 DEF ScheduleInv

LEMMA FinishTarget ==
  ASSUME TypeOK, NEW w \in Workers, Finish(w)
  PROVE  Target(w)' /\ Start(w, NoRequest)
<1>1. req'[w] = NoRequest
  BY DEF Finish, TypeOK
<1>2. Start(w, NoRequest)
  BY DEF Finish, Start
<1>3. QED
  BY <1>1, <1>2 DEF Target, NoRequest, Ask

LEMMA RefuseKeeps ==
  ASSUME ScheduleInv, NEW w \in Workers, Finish(w), UNCHANGED <<rows, notice, told>>
  PROVE  ScheduleInv'
BY FinishTarget, NoRequestType, StartKeeps DEF ScheduleInv

-----------------------------------------------------------------------------
(***************************************************************************)
(* Every action of Edit keeps the invariant.                               *)
(***************************************************************************)
LEMMA CreateKeeps ==
  ASSUME ScheduleInv, NEW w \in Workers, NEW s \in Payloads, CreateEntry(w, s)
  PROVE  ScheduleInv'
<1> DEFINE r == [Ask("create", "check", "none", "none") EXCEPT !.new = s]
<1>1. s \in Slot
  BY BoundsAssumption
<1>2. r \in Request /\ r.op = "create" /\ r.pc = "check" /\ r.new = s
  BY <1>1 DEF Ask, Request
<1>3. Start(w, r) /\ UNCHANGED <<rows, notice, told>>
  BY DEF CreateEntry
<1> HIDE DEF r
<1>4. req'[w] = r
  BY <1>3 DEF Start, ScheduleInv, TypeOK
<1>5. Target(w)'
  BY <1>1, <1>2, <1>4 DEF Target
<1>6. QED
  BY <1>2, <1>3, <1>5, StartKeeps

LEMMA UpdateKeeps ==
  ASSUME ScheduleInv, NEW w \in Workers, NEW s \in Payloads, NEW x \in Entries,
         UpdateEntry(w, x, s)
  PROVE  ScheduleInv'
<1> DEFINE r == [Ask("update", "check", x, "none") EXCEPT !.loaded = slot[x], !.new = s]
<1>1. s \in Slot /\ slot[x] \in Slot
  BY BoundsAssumption DEF UpdateEntry, ScheduleInv, TypeOK
<1>2. r \in Request /\ r.op = "update" /\ r.pc = "check" /\ r.new = s /\ r.entry = x
      /\ r.loaded = slot[x]
  BY <1>1 DEF Ask, Request
<1>3. Start(w, r) /\ UNCHANGED <<rows, notice, told>>
  BY DEF UpdateEntry
<1> HIDE DEF r
<1>4. req'[w] = r
  BY <1>3 DEF Start, ScheduleInv, TypeOK
<1>5. Target(w)'
  BY <1>1, <1>2, <1>4 DEF Target
<1>6. QED
  BY <1>2, <1>3, <1>5, StartKeeps

LEMMA CheckKeeps ==
  ASSUME ScheduleInv, NEW w \in Workers, CheckConflicts(w)
  PROVE  ScheduleInv'
<1> DEFINE r == [req[w] EXCEPT !.pc = "save"]
<1>1. r \in Request /\ r.op = req[w].op /\ r.pc = "save" /\ r.new = req[w].new
      /\ r.loaded = req[w].loaded /\ r.entry = req[w].entry /\ r.request = req[w].request
  BY DEF ScheduleInv, TypeOK, Request
<1>2. UNCHANGED <<rows, notice, told>> /\ (Start(w, r) \/ Finish(w))
  BY DEF CheckConflicts
<1> HIDE DEF r
<1>3. CASE Start(w, r)
  <2>1. req'[w] = r
    BY <1>3 DEF Start, ScheduleInv, TypeOK
  <2>2. Target(w) /\ req[w].op \in {"create", "update", "approve"} /\ req[w].pc = "check"
    BY DEF ScheduleInv, Targets, CheckConflicts, At
  <2>3. Target(w)'
    BY <1>1, <1>2, <2>1, <2>2 DEF Target, rows
  <2>4. QED
    BY <1>1, <1>2, <1>3, <2>3, StartKeeps
<1>4. CASE Finish(w)
  BY <1>2, <1>4, RefuseKeeps
<1>5. QED
  BY <1>2, <1>3, <1>4

LEMMA CommitCreateKeeps ==
  ASSUME ScheduleInv, NEW w \in Workers, NEW x \in Entries, CommitCreate(w, x)
  PROVE  ScheduleInv'
<1>1. CASE Refuse(w)
  BY <1>1, RefuseKeeps DEF Refuse
<1>2. CASE ~ Refuse(w)
  <2>1. /\ x \notin used
        /\ slot' = [y \in DOMAIN slot \cup {x} |-> IF y = x THEN req[w].new ELSE slot[y]]
        /\ used' = used \cup {x}
        /\ Finish(w)
        /\ UNCHANGED <<change, notice, told>>
    BY <1>2 DEF CommitCreate
  <2>2. req[w].new \in Slot
    BY DEF ScheduleInv, Targets, Target, CommitCreate, At
  <2>3. DOMAIN slot' = DOMAIN slot \cup {x}
    BY <2>1
  <2>4. Steady
    BY <2>1, <2>3 DEF Steady
  <2>5. Target(w)' /\ Start(w, NoRequest)
    BY <2>1, FinishTarget DEF ScheduleInv
  <2>6. Targets' /\ req' \in [Workers -> Request]
    BY <2>4, <2>5, NoRequestType, TargetFrame DEF ScheduleInv
  <2>7. slot' \in [DOMAIN slot' -> Slot]
    BY <2>1, <2>2, <2>3 DEF ScheduleInv, TypeOK
  <2>8. TypeOK'
    BY <2>1, <2>3, <2>6, <2>7 DEF ScheduleInv, TypeOK
  <2>9. RequestsResolve' /\ Announced'
    BY <2>1, <2>3 DEF ScheduleInv, RequestsResolve, Announced
  <2>10. QED
    BY <2>6, <2>8, <2>9 DEF ScheduleInv
<1>3. QED
  BY <1>1, <1>2

LEMMA MergedType ==
  ASSUME NEW a \in Slot, NEW b \in Slot, NEW c \in Slot
  PROVE  Merged(a, b, c) \in Slot
BY DEF Merged, Flushed, Slot

\* The row that an update or an approval writes, and what it leaves alone.
LEMMA ResultStep ==
  ASSUME ScheduleInv, NEW w \in Workers, At(w, {"update", "approve"}, "save"), Updatable(w),
         slot' = [slot EXCEPT ![req[w].entry] = Result(w)]
  PROVE  DOMAIN slot' = DOMAIN slot /\ slot' \in [DOMAIN slot' -> Slot]
<1>1. req[w].loaded \in Slot /\ req[w].new \in Slot /\ req[w].entry \in DOMAIN slot
  BY DEF ScheduleInv, Targets, Target, At, Updatable
<1>2. slot[req[w].entry] \in Slot
  BY <1>1 DEF ScheduleInv, TypeOK
<1>3. Result(w) \in Slot
  BY <1>1, <1>2, MergedType DEF Result
<1>4. QED
  BY <1>3 DEF ScheduleInv, TypeOK

LEMMA CommitUpdateKeeps ==
  ASSUME ScheduleInv, NEW w \in Workers, CommitUpdate(w)
  PROVE  ScheduleInv'
<1>1. CASE Refuse(w)
  BY <1>1, RefuseKeeps DEF Refuse
<1>2. CASE ~ Refuse(w)
  <2> DEFINE r == Ask("update", "refresh", req[w].entry, "none")
  <2>1. /\ Updatable(w)
        /\ slot' = [slot EXCEPT ![req[w].entry] = Result(w)]
        /\ Start(w, r)
        /\ UNCHANGED <<used, change, notice, told>>
    BY <1>2 DEF CommitUpdate
  <2>2. req[w].entry \in Entries
    BY DEF ScheduleInv, Targets, Target, CommitUpdate, At
  <2>3. r \in Request /\ r.op = "update" /\ r.pc = "refresh" /\ r.entry = req[w].entry
    BY <2>2, AskType
  <2> HIDE DEF r
  <2>4. DOMAIN slot' = DOMAIN slot /\ slot' \in [DOMAIN slot' -> Slot]
    BY <2>1, ResultStep DEF CommitUpdate, At
  <2>5. Steady
    BY <2>1, <2>4 DEF Steady
  <2>6. req'[w] = r
    BY <2>1 DEF Start, ScheduleInv, TypeOK
  <2>7. Target(w)'
    BY <2>2, <2>3, <2>6 DEF Target
  <2>8. Targets' /\ req' \in [Workers -> Request]
    BY <2>1, <2>3, <2>5, <2>7, TargetFrame DEF ScheduleInv
  <2>9. TypeOK'
    BY <2>1, <2>4, <2>8 DEF ScheduleInv, TypeOK
  <2>10. RequestsResolve' /\ Announced'
    BY <2>1, <2>4 DEF ScheduleInv, RequestsResolve, Announced
  <2>11. QED
    BY <2>8, <2>9, <2>10 DEF ScheduleInv
<1>3. QED
  BY <1>1, <1>2

LEMMA DeleteKeeps ==
  ASSUME ScheduleInv, NEW w \in Workers, NEW x \in Entries, DeleteEntry(w, x)
  PROVE  ScheduleInv'
<1> DEFINE r == Ask("delete", "save", x, "none")
<1>1. r \in Request /\ r.op = "delete" /\ r.pc = "save" /\ r.entry = x
  BY AskType
<1>2. Start(w, r) /\ UNCHANGED <<rows, notice, told>> /\ x \in used
  BY DEF DeleteEntry, ScheduleInv, TypeOK
<1> HIDE DEF r
<1>3. req'[w] = r /\ used' = used
  BY <1>2 DEF Start, ScheduleInv, TypeOK, rows
<1>4. Target(w)'
  BY <1>1, <1>2, <1>3 DEF Target
<1>5. QED
  BY <1>1, <1>2, <1>4, StartKeeps

LEMMA CommitDeleteKeeps ==
  ASSUME ScheduleInv, NEW w \in Workers, CommitDelete(w)
  PROVE  ScheduleInv'
<1>1. CASE Refuse(w)
  BY <1>1, RefuseKeeps DEF Refuse
<1>2. CASE ~ Refuse(w)
  <2> DEFINE x == req[w].entry
             r == Dispatching(req[w], "cancelled")
  <2>1. /\ ~ Referenced(x)
        /\ slot' = [y \in DOMAIN slot \ {x} |-> slot[y]]
        /\ Start(w, r)
        /\ UNCHANGED <<used, change, notice, told>>
    BY <1>2 DEF CommitDelete, Dispatching
  <2>2. x \in used
    BY DEF ScheduleInv, Targets, Target, CommitDelete, At
  <2>0. req[w] \in Request /\ req[w].op = "delete"
    BY DEF ScheduleInv, TypeOK, CommitDelete, At
  <2>3. r \in Request /\ r.op = "delete" /\ r.pc = "dispatch" /\ r.entry = x
    BY <2>0, DispatchType
  <2>4. DOMAIN slot' = DOMAIN slot \ {x} /\ slot' \in [DOMAIN slot' -> Slot]
    BY <2>1 DEF ScheduleInv, TypeOK
  <2>5. x \in used' \ DOMAIN slot' /\ x \in Entries
    BY <2>1, <2>2, <2>4 DEF ScheduleInv, TypeOK
  <2> HIDE DEF r, x
  <2>6. Steady
    BY <2>1, <2>4 DEF Steady
  <2>7. req'[w] = r
    BY <2>1 DEF Start, ScheduleInv, TypeOK
  <2>8. Target(w)'
    BY <2>3, <2>5, <2>7 DEF Target
  <2>9. Targets' /\ req' \in [Workers -> Request]
    BY <2>1, <2>3, <2>6, <2>8, TargetFrame DEF ScheduleInv
  <2>10. TypeOK'
    BY <2>1, <2>4, <2>9 DEF ScheduleInv, TypeOK
  <2>11. RequestsResolve' /\ Announced'
    BY <2>1, <2>4 DEF ScheduleInv, RequestsResolve, Announced, Referenced
  <2>12. QED
    BY <2>9, <2>10, <2>11 DEF ScheduleInv
<1>3. QED
  BY <1>1, <1>2

LEMMA RefreshKeeps ==
  ASSUME ScheduleInv, NEW w \in Workers, Refresh(w)
  PROVE  ScheduleInv'
<1> DEFINE r == Dispatching(req[w], RoomToSay(w))
<1>1. UNCHANGED <<rows, notice, told>>
      /\ ((req[w].entry \in DOMAIN slot /\ Start(w, r)) \/ Finish(w))
  BY DEF Refresh, Dispatching
<1>2. CASE req[w].entry \in DOMAIN slot /\ Start(w, r)
  <2>1. RoomToSay(w) \in Rooms
    BY <1>2 DEF RoomToSay, ScheduleInv, TypeOK, Slot
  <2>0. req[w] \in Request
    BY DEF ScheduleInv, TypeOK
  <2>2. r \in Request /\ r.pc = "dispatch" /\ r.entry = req[w].entry /\ r.said \in Rooms
    BY <2>0, <2>1, DispatchType
  <2>3. req[w].entry \in Entries
    BY <1>2 DEF ScheduleInv, TypeOK
  <2> HIDE DEF r
  <2>4. req'[w] = r
    BY <1>2 DEF Start, ScheduleInv, TypeOK
  <2>5. Target(w)'
    BY <2>2, <2>3, <2>4, NamesAssumption DEF Target, Refresh, At
  <2>6. QED
    BY <1>1, <1>2, <2>2, <2>5, StartKeeps
<1>3. CASE Finish(w)
  BY <1>1, <1>3, RefuseKeeps
<1>4. QED
  BY <1>1, <1>2, <1>3

LEMMA NotifyKeeps ==
  ASSUME ScheduleInv, NEW w \in Workers, NotifyScheduleChange(w)
  PROVE  ScheduleInv'
<1>1. /\ req[w].pc = "dispatch"
      /\ notice' = [notice EXCEPT ![req[w].entry] = req[w].said]
      /\ Finish(w)
      /\ UNCHANGED <<rows, told>>
  BY DEF NotifyScheduleChange
<1>2. /\ req[w].entry \in Entries
      /\ req[w].said = "cancelled" => req[w].entry \in used \ DOMAIN slot
  BY <1>1 DEF ScheduleInv, Targets, Target
<1>3. Steady
  BY <1>1 DEF Steady, rows
<1>4. Targets' /\ req' \in [Workers -> Request]
  BY <1>1, <1>3, FinishTarget, NoRequestType, TargetFrame DEF ScheduleInv
<1>5. notice' \in [Entries -> Rooms \cup {"none", "cancelled"}]
  BY <1>1 DEF ScheduleInv, TypeOK, Request
<1>6. TypeOK'
  BY <1>1, <1>4, <1>5 DEF ScheduleInv, TypeOK, rows
<1>7. RequestsResolve' /\ Announced'
  BY <1>1, <1>2 DEF ScheduleInv, TypeOK, RequestsResolve, Announced, rows
<1>8. QED
  BY <1>4, <1>6, <1>7 DEF ScheduleInv

-----------------------------------------------------------------------------
(***************************************************************************)
(* So does every action of Requesting.                                     *)
(***************************************************************************)
LEMMA AskKeeps ==
  ASSUME ScheduleInv, NEW w \in Workers, NEW x \in Entries, NEW c \in Wishes, AskChange(w, x, c)
  PROVE  ScheduleInv'
<1> DEFINE a == [entry |-> x, by |-> slot[x].teacher, wish |-> c, status |-> "pending"]
           r == [Ask("ask", "save", x, "none") EXCEPT !.ask = {a}]
<1>1. slot[x] \in Slot /\ c \in Wish
  BY BoundsAssumption DEF AskChange, ScheduleInv, TypeOK
<1>2. a \in Change /\ a.entry = x
  BY <1>1 DEF Change, Slot
<1>3. Start(w, r) /\ UNCHANGED <<rows, notice, told>>
  BY DEF AskChange
<1> HIDE DEF a
<1>4. r \in Request /\ r.op = "ask" /\ r.pc = "save" /\ r.entry = x /\ r.ask = {a}
  BY <1>2 DEF Ask, Request
<1> HIDE DEF r
<1>5. req'[w] = r
  BY <1>3 DEF Start, ScheduleInv, TypeOK
<1>6. Target(w)'
  BY <1>2, <1>4, <1>5 DEF Target
<1>7. QED
  BY <1>3, <1>4, <1>6, StartKeeps

LEMMA CommitAskKeeps ==
  ASSUME ScheduleInv, NEW w \in Workers, NEW q \in Requests, CommitAsk(w, q)
  PROVE  ScheduleInv'
<1>1. CASE Refuse(w)
  BY <1>1, RefuseKeeps DEF Refuse
<1>2. CASE ~ Refuse(w)
  <2>1. /\ req[w].entry \in DOMAIN slot
        /\ Finish(w)
        /\ UNCHANGED <<slot, used, notice, told>>
        /\ q \notin DOMAIN change
    BY <1>2 DEF CommitAsk
  <2>2. PICK c \in req[w].ask :
          change' = [p \in DOMAIN change \cup {q} |-> IF p = q THEN c ELSE change[p]]
    BY <1>2 DEF CommitAsk
  <2>3. c \in Change /\ c.entry = req[w].entry
    BY DEF ScheduleInv, Targets, Target, TypeOK, Request, CommitAsk, At
  <2>4. DOMAIN change' = DOMAIN change \cup {q}
    BY <2>2
  <2>5. \A p \in DOMAIN change : change'[p] = change[p]
    BY <2>1, <2>2
  <2>6. change'[q] = c
    BY <2>2
  <2>7. Steady
    BY <2>1, <2>4, <2>5 DEF Steady
  <2>8. Target(w)' /\ Start(w, NoRequest)
    BY <2>1, FinishTarget DEF ScheduleInv
  <2>9. Targets' /\ req' \in [Workers -> Request]
    BY <2>7, <2>8, NoRequestType, TargetFrame DEF ScheduleInv
  <2>10. change' \in [DOMAIN change' -> Change]
    BY <2>2, <2>3, <2>4 DEF ScheduleInv, TypeOK
  <2>11. TypeOK'
    BY <2>1, <2>4, <2>9, <2>10 DEF ScheduleInv, TypeOK
  <2>12. RequestsResolve' /\ Announced'
    BY <2>1, <2>3, <2>4, <2>5, <2>6 DEF ScheduleInv, RequestsResolve, Announced
  <2>13. QED
    BY <2>9, <2>11, <2>12 DEF ScheduleInv
<1>3. QED
  BY <1>1, <1>2

LEMMA ResolveKeeps ==
  ASSUME ScheduleInv, NEW w \in Workers, NEW q \in Requests, ResolveChangeRequest(w, q)
  PROVE  ScheduleInv'
<1>1. q \in DOMAIN change /\ change[q].entry \in Entries /\ UNCHANGED <<rows, notice, told>>
  BY DEF ResolveChangeRequest, Resolvable, ScheduleInv, TypeOK, Change
<1>2. ASSUME NEW op \in {"approve", "reject"}, NEW pc \in {"load", "save"},
             Start(w, Ask(op, pc, change[q].entry, q))
      PROVE  ScheduleInv'
  <2> DEFINE r == Ask(op, pc, change[q].entry, q)
  <2>1. r \in Request /\ r.op = op /\ r.pc = pc /\ r.entry = change[q].entry /\ r.request = q
    BY <1>1, AskType
  <2>2. Start(w, r)
    BY <1>2
  <2>3. (op = "approve" => pc = "load") => Target(w)'
    <3> HIDE DEF r
    <3>1. req'[w] = r /\ change' = change
      BY <1>1, <2>2 DEF Start, ScheduleInv, TypeOK, rows
    <3>2. QED
      BY <1>1, <2>1, <3>1 DEF Target
  <2>4. op = "approve" => pc = "load"
    <3>1. req'[w] = r
      BY <2>2 DEF Start, ScheduleInv, TypeOK
    <3>2. \/ req'[w].op = "approve" /\ req'[w].pc = "load"
          \/ req'[w].op = "reject"
      BY <1>1, AskType DEF ResolveChangeRequest, Start, ScheduleInv, TypeOK
    <3>3. QED
      BY <2>1, <3>1, <3>2
  <2> HIDE DEF r
  <2>5. QED
    BY <1>1, <2>1, <2>2, <2>3, <2>4, StartKeeps
<1>3. QED
  BY <1>2 DEF ResolveChangeRequest

LEMMA GivenType ==
  ASSUME NEW S, NEW g \in Optional(S), NEW current \in S
  PROVE  Given(g, current) \in S
<1>1. CASE g = {}
  BY <1>1 DEF Given
<1>2. CASE g # {}
  <2>1. PICK x \in S : g = {x}
    BY <1>2 DEF Optional
  <2>2. Given(g, current) = x
    BY <2>1 DEF Given
  <2>3. QED
    BY <2>2
<1>3. QED
  BY <1>1, <1>2

LEMMA RequestedType ==
  ASSUME NEW c \in Wish, NEW s \in Slot
  PROVE  Requested(c, s) \in Slot
<1>1. /\ c.room \in Optional(Rooms) /\ c.day \in Optional(Days)
      /\ c.start \in Optional(Times) /\ c.end \in Optional(Times)
  BY DEF Wish
<1>2. s.room \in Rooms /\ s.teacher \in Teachers /\ s.day \in Days
      /\ s.start \in Times /\ s.end \in Times
  BY DEF Slot
<1>3. /\ Given(c.room, s.room) \in Rooms /\ Given(c.day, s.day) \in Days
      /\ Given(c.start, s.start) \in Times /\ Given(c.end, s.end) \in Times
  BY <1>1, <1>2, GivenType
<1>4. QED
  BY <1>2, <1>3 DEF Requested, Slot

LEMMA LoadKeeps ==
  ASSUME ScheduleInv, NEW w \in Workers, LoadEntry(w)
  PROVE  ScheduleInv'
<1> DEFINE s == slot[req[w].entry]
           new == Requested(change[req[w].request].wish, s)
           r == [req[w] EXCEPT !.pc = "check", !.loaded = s, !.new = new]
<1>1. UNCHANGED <<rows, notice, told>> /\ (Start(w, r) \/ Finish(w))
  BY DEF LoadEntry
<1>2. /\ req[w].op = "approve"
      /\ req[w].request \in DOMAIN change
      /\ change[req[w].request].entry = req[w].entry
  BY DEF LoadEntry, At, ScheduleInv, Targets, Target
<1>3. s \in Slot /\ change[req[w].request].wish \in Wish /\ req[w].entry \in Entries
  BY <1>2 DEF ScheduleInv, TypeOK, RequestsResolve, Change
<1>4. new \in Slot
  BY <1>3, RequestedType
<1> HIDE DEF s, new
<1>5. req[w] \in Request
  BY DEF ScheduleInv, TypeOK
<1>6. r \in Request /\ r.op = "approve" /\ r.pc = "check" /\ r.new = new /\ r.loaded = s
      /\ r.entry = req[w].entry /\ r.request = req[w].request
  BY <1>2, <1>3, <1>4, <1>5 DEF Request
<1> HIDE DEF r
<1>7. CASE Start(w, r)
  <2>1. req'[w] = r /\ change' = change
    BY <1>1, <1>7 DEF Start, ScheduleInv, TypeOK, rows
  <2>2. Target(w)'
    BY <1>2, <1>3, <1>4, <1>6, <2>1 DEF Target
  <2>3. QED
    BY <1>1, <1>6, <1>7, <2>2, StartKeeps
<1>8. CASE Finish(w)
  BY <1>1, <1>8, RefuseKeeps
<1>9. QED
  BY <1>1, <1>7, <1>8

\* A decision changes the status of one request and nothing else about it.
LEMMA DecideStep ==
  ASSUME ScheduleInv, NEW w \in Workers, NEW d \in {"approved", "rejected"},
         req[w].request \in DOMAIN change,
         change' = [change EXCEPT ![req[w].request].status = d]
  PROVE  /\ DOMAIN change' = DOMAIN change
         /\ change' \in [DOMAIN change' -> Change]
         /\ \A q \in DOMAIN change : change'[q].entry = change[q].entry
BY DEF ScheduleInv, TypeOK, Change

LEMMA CommitResolveKeeps ==
  ASSUME ScheduleInv, NEW w \in Workers, CommitResolve(w)
  PROVE  ScheduleInv'
<1>1. CASE Refuse(w)
  BY <1>1, RefuseKeeps DEF Refuse
<1>2. CASE ~ Refuse(w)
  <2> DEFINE r == Ask(req[w].op, "answer", req[w].entry, req[w].request)
  <2>1. PICK d \in {"approved", "rejected"} : Decide(w, d)
    BY <1>2 DEF CommitResolve
  <2>2. /\ req[w].op \in {"approve", "reject"}
        /\ req[w].request \in DOMAIN change
        /\ change[req[w].request].entry = req[w].entry
    BY DEF CommitResolve, At, ScheduleInv, Targets, Target
  <2>3. DOMAIN slot' = DOMAIN slot /\ slot' \in [DOMAIN slot' -> Slot]
    <3>1. CASE slot' = slot
      BY <3>1 DEF ScheduleInv, TypeOK
    <3>2. CASE slot' # slot
      <4>1. /\ At(w, {"approve"}, "save")
            /\ Updatable(w)
            /\ slot' = [slot EXCEPT ![req[w].entry] = Result(w)]
        BY <1>2, <3>2 DEF CommitResolve
      <4>2. QED
        BY <4>1, ResultStep DEF At
    <3>3. QED
      BY <3>1, <3>2
  <2>4. /\ DOMAIN change' = DOMAIN change
        /\ change' \in [DOMAIN change' -> Change]
        /\ \A q \in DOMAIN change : change'[q].entry = change[q].entry
    BY <2>1, <2>2, DecideStep DEF Decide
  <2>5. Start(w, r) /\ UNCHANGED <<used, notice, told>>
    BY <2>1 DEF Decide
  <2>6. req[w].entry \in Entries \cup {"none"} /\ req[w].request \in Requests \cup {"none"}
    BY DEF ScheduleInv, TypeOK, Request
  <2>7. r \in Request /\ r.op = req[w].op /\ r.pc = "answer" /\ r.entry = req[w].entry
        /\ r.request = req[w].request
    BY <2>2, <2>6, AskType
  <2> HIDE DEF r
  <2>8. Steady
    BY <2>3, <2>4, <2>5 DEF Steady
  <2>9. req'[w] = r
    BY <2>5 DEF Start, ScheduleInv, TypeOK
  <2>10. Target(w)'
    BY <2>2, <2>4, <2>7, <2>9 DEF Target
  <2>11. Targets' /\ req' \in [Workers -> Request]
    BY <2>5, <2>7, <2>8, <2>10, TargetFrame DEF ScheduleInv
  <2>12. TypeOK'
    BY <2>3, <2>4, <2>5, <2>11 DEF ScheduleInv, TypeOK
  <2>13. RequestsResolve' /\ Announced'
    BY <2>3, <2>4, <2>5 DEF ScheduleInv, RequestsResolve, Announced
  <2>14. QED
    BY <2>11, <2>12, <2>13 DEF ScheduleInv
<1>3. QED
  BY <1>1, <1>2

LEMMA AnswerKeeps ==
  ASSUME ScheduleInv, NEW w \in Workers, AnswerTeacher(w)
  PROVE  ScheduleInv'
<1> DEFINE q == req[w].request
           r == Ask("approve", "refresh", req[w].entry, "none")
<1>1. /\ q \in DOMAIN change
      /\ change[q].entry = req[w].entry
  BY DEF AnswerTeacher, At, ScheduleInv, Targets, Target
<1>2. req[w].entry \in DOMAIN slot /\ req[w].entry \in Entries
  BY <1>1 DEF ScheduleInv, TypeOK, RequestsResolve
<1>3. slot[req[w].entry].teacher \in Teachers
  BY <1>2 DEF ScheduleInv, TypeOK, Slot
<1>4. told' \in [Requests -> SUBSET Teachers]
  BY <1>3 DEF AnswerTeacher, ScheduleInv, TypeOK
<1>5. UNCHANGED <<rows, notice>> /\ (Start(w, r) \/ Finish(w))
  BY DEF AnswerTeacher
<1>6. r \in Request /\ r.op = "approve" /\ r.pc = "refresh" /\ r.entry = req[w].entry
  BY <1>2, AskType
<1> HIDE DEF r
<1>7. Steady
  BY <1>5 DEF Steady, rows
<1>8. Targets' /\ req' \in [Workers -> Request]
  <2>1. CASE Start(w, r)
    <3>1. req'[w] = r
      BY <2>1 DEF Start, ScheduleInv, TypeOK
    <3>2. Target(w)'
      BY <1>2, <1>6, <3>1 DEF Target
    <3>3. QED
      BY <1>6, <1>7, <2>1, <3>2, TargetFrame DEF ScheduleInv
  <2>2. CASE Finish(w)
    BY <1>7, <2>2, FinishTarget, NoRequestType, TargetFrame DEF ScheduleInv
  <2>3. QED
    BY <1>5, <2>1, <2>2
<1>9. TypeOK'
  BY <1>4, <1>5, <1>8 DEF ScheduleInv, TypeOK, rows
<1>10. RequestsResolve' /\ Announced'
  BY <1>5 DEF ScheduleInv, RequestsResolve, Announced, rows
<1>11. QED
  BY <1>8, <1>9, <1>10 DEF ScheduleInv

-----------------------------------------------------------------------------
LEMMA ScheduleInvInit == Init => ScheduleInv
<1> SUFFICES ASSUME Init PROVE ScheduleInv
  OBVIOUS
<1>1. TypeOK
  BY NoRequestType DEF Init, TypeOK
<1>2. RequestsResolve /\ Announced
  BY NamesAssumption DEF Init, RequestsResolve, Announced
<1>3. Targets
  BY DEF Init, Targets, Target, NoRequest, Ask
<1>4. QED
  BY <1>1, <1>2, <1>3 DEF ScheduleInv

LEMMA ScheduleInvStep == ScheduleInv /\ [Next]_vars => ScheduleInv'
<1> SUFFICES ASSUME ScheduleInv, [Next]_vars PROVE ScheduleInv'
  OBVIOUS
<1>1. ASSUME NEW w \in Workers, Edit(w) PROVE ScheduleInv'
  BY <1>1, CreateKeeps, UpdateKeeps, CheckKeeps, CommitCreateKeeps, DeleteKeeps,
     CommitUpdateKeeps, CommitDeleteKeeps, RefreshKeeps, NotifyKeeps DEF Edit
<1>2. ASSUME NEW w \in Workers, Requesting(w) PROVE ScheduleInv'
  BY <1>2, AskKeeps, CommitAskKeeps, ResolveKeeps, LoadKeeps, CommitResolveKeeps, AnswerKeeps
     DEF Requesting, Asking, Resolving
<1>3. ASSUME NEW w \in Workers, Abort(w) PROVE ScheduleInv'
  BY <1>3, RefuseKeeps DEF Abort, Refuse
<1>4. CASE UNCHANGED vars
  BY <1>4 DEF vars, rows, ScheduleInv, TypeOK, RequestsResolve, Announced, Targets, Target
<1>5. QED
  BY <1>1, <1>2, <1>3, <1>4 DEF Next

LEMMA ScheduleInvAlways == Spec => []ScheduleInv
BY ScheduleInvInit, ScheduleInvStep, PTL DEF Spec

(***************************************************************************)
(* The variables keep their types in every reachable state.                *)
(***************************************************************************)
THEOREM ScheduleTypeCorrect == Spec => []TypeOK
<1>1. ScheduleInv => TypeOK
  BY DEF ScheduleInv
<1>2. QED
  BY <1>1, ScheduleInvAlways, PTL

(***************************************************************************)
(* However handlers interleave or fail, every change request has its       *)
(* timetable entry and a class announced as cancelled is gone for good.    *)
(***************************************************************************)
THEOREM ScheduleRequestsResolve == Spec => []RequestsResolve
<1>1. ScheduleInv => RequestsResolve
  BY DEF ScheduleInv
<1>2. QED
  BY <1>1, ScheduleInvAlways, PTL

-----------------------------------------------------------------------------
(***************************************************************************)
(* One admin edits the timetable and waits for each answer, while any      *)
(* number of teachers ask for changes.                                     *)
(***************************************************************************)

(***************************************************************************)
(* What the admin's handler has read is still so when it writes.           *)
(***************************************************************************)
Ready(w) ==
  /\ req[w].op = "create" /\ req[w].pc \in {"check", "save"} => req[w].entry = "none"
  /\ req[w].op \in {"update", "approve"} /\ req[w].pc \in {"check", "save"}
       => req[w].entry \in DOMAIN slot /\ req[w].loaded = slot[req[w].entry]
  /\ req[w].op \in {"create", "update", "approve"} /\ req[w].pc \in {"check", "save"}
       => Valid(req[w].new)
  /\ req[w].op \in {"create", "update", "approve"} /\ req[w].pc = "save" => NoConflict(w)
  /\ req[w].op \in {"approve", "reject"} /\ req[w].pc \in {"load", "check", "save"}
       => change[req[w].request].status = "pending"
  /\ req[w].op \in {"update", "approve", "delete"} /\ req[w].pc = "dispatch"
       => req[w].said = "cancelled" \/ req[w].said = slot[req[w].entry].room

AllReady == \A w \in Workers : Ready(w)

\* Only these operations notify anyone about an entry.
Dispatchers ==
  \A w \in Workers : req[w].pc = "dispatch" => req[w].op \in {"update", "approve", "delete"}

(***************************************************************************)
(* The inductive invariant of OneAdminSpec.                                *)
(***************************************************************************)
OneAdminInv ==
  ScheduleInv /\ OneAdmin /\ AllReady /\ Dispatchers /\ NoDoubleBooking /\ ValidTimes

\* A step that leaves every entry and every request there was as it was.
Calm ==
  /\ slot' = slot
  /\ \A q \in DOMAIN change : q \in DOMAIN change' /\ change'[q] = change[q]

LEMMA CalmRows == ASSUME UNCHANGED rows PROVE Calm
BY DEF rows, Calm

\* A step of w keeps the others ready: it is calm, or w is the admin.
LEMMA ReadyFrame ==
  ASSUME OneAdminInv, NEW w \in Workers, NEW r \in Request, Start(w, r),
         Calm \/ (~ Idle(w) /\ req[w].op # "ask"),
         Ready(w)', r.pc = "dispatch" => r.op \in {"update", "approve", "delete"}
  PROVE  AllReady' /\ Dispatchers'
<1>1. req' \in [Workers -> Request] /\ req'[w] = r
  BY DEF OneAdminInv, ScheduleInv, TypeOK, Start
<1>2. \A v \in Workers : v # w => req'[v] = req[v]
  BY DEF OneAdminInv, ScheduleInv, TypeOK, Start
<1>3. ASSUME NEW v \in Workers, v # w PROVE Ready(v)'
  <2>1. req'[v] = req[v] /\ Ready(v) /\ Target(v)
    BY <1>2, <1>3 DEF OneAdminInv, AllReady, ScheduleInv, Targets
  <2>2. CASE Calm
    BY <2>1, <2>2 DEF Ready, Target, Calm, NoConflict
  <2>3. CASE ~ Idle(w) /\ req[w].op # "ask"
    <3>1. Idle(v) \/ req[v].op = "ask"
      BY <1>3, <2>3 DEF OneAdminInv, OneAdmin
    <3>2. QED
      BY <2>1, <3>1 DEF Ready, Idle
  <2>4. QED
    BY <2>2, <2>3
<1>4. AllReady'
  BY <1>3 DEF AllReady
<1>5. Dispatchers'
  BY <1>1, <1>2 DEF OneAdminInv, Dispatchers
<1>6. QED
  BY <1>4, <1>5

LEMMA RefuseReady ==
  ASSUME OneAdminInv, NEW w \in Workers, Finish(w), Calm \/ (~ Idle(w) /\ req[w].op # "ask")
  PROVE  AllReady' /\ Dispatchers'
<1>1. Start(w, NoRequest) /\ req'[w] = NoRequest
  BY FinishTarget DEF Finish, OneAdminInv, ScheduleInv, TypeOK
<1>2. Ready(w)'
  BY <1>1 DEF Ready, NoRequest, Ask
<1>3. QED
  BY <1>1, <1>2, NoRequestType, ReadyFrame

-----------------------------------------------------------------------------
(***************************************************************************)
(* Every action of Edit keeps the handlers ready.                          *)
(***************************************************************************)
LEMMA CreateReady ==
  ASSUME OneAdminInv, NEW w \in Workers, NEW s \in Payloads, CreateEntry(w, s)
  PROVE  AllReady' /\ Dispatchers'
<1> DEFINE r == [Ask("create", "check", "none", "none") EXCEPT !.new = s]
<1>1. s \in Slot /\ Valid(s) /\ Start(w, r) /\ Calm
  BY BoundsAssumption, CalmRows DEF CreateEntry
<1>2. r \in Request /\ r.op = "create" /\ r.pc = "check" /\ r.new = s /\ r.entry = "none"
  BY <1>1 DEF Ask, Request
<1> HIDE DEF r
<1>3. req'[w] = r
  BY <1>1 DEF Start, OneAdminInv, ScheduleInv, TypeOK
<1>4. Ready(w)'
  BY <1>1, <1>2, <1>3 DEF Ready
<1>5. QED
  BY <1>1, <1>2, <1>4, ReadyFrame

LEMMA UpdateReady ==
  ASSUME OneAdminInv, NEW w \in Workers, NEW s \in Payloads, NEW x \in Entries,
         UpdateEntry(w, x, s)
  PROVE  AllReady' /\ Dispatchers'
<1> DEFINE r == [Ask("update", "check", x, "none") EXCEPT !.loaded = slot[x], !.new = s]
<1>1. s \in Slot /\ Valid(s) /\ x \in DOMAIN slot /\ slot[x] \in Slot /\ Start(w, r) /\ Calm
  BY BoundsAssumption, CalmRows DEF UpdateEntry, OneAdminInv, ScheduleInv, TypeOK
<1>2. r \in Request /\ r.op = "update" /\ r.pc = "check" /\ r.new = s /\ r.entry = x
      /\ r.loaded = slot[x]
  BY <1>1 DEF Ask, Request
<1> HIDE DEF r
<1>3. req'[w] = r /\ slot' = slot
  BY <1>1 DEF Start, OneAdminInv, ScheduleInv, TypeOK, Calm
<1>4. Ready(w)'
  BY <1>1, <1>2, <1>3 DEF Ready
<1>5. QED
  BY <1>1, <1>2, <1>4, ReadyFrame

LEMMA CheckReady ==
  ASSUME OneAdminInv, NEW w \in Workers, CheckConflicts(w)
  PROVE  AllReady' /\ Dispatchers'
<1> DEFINE r == [req[w] EXCEPT !.pc = "save"]
<1>1. r \in Request /\ r.op = req[w].op /\ r.pc = "save" /\ r.new = req[w].new
      /\ r.loaded = req[w].loaded /\ r.entry = req[w].entry /\ r.request = req[w].request
  BY DEF OneAdminInv, ScheduleInv, TypeOK, Request
<1>2. Calm /\ ((NoConflict(w) /\ Start(w, r)) \/ Finish(w))
  BY CalmRows DEF CheckConflicts
<1> HIDE DEF r
<1>3. CASE NoConflict(w) /\ Start(w, r)
  <2>1. req'[w] = r
    BY <1>3 DEF Start, OneAdminInv, ScheduleInv, TypeOK
  <2>2. Ready(w) /\ Target(w) /\ req[w].op \in {"create", "update", "approve"}
        /\ req[w].pc = "check"
    BY DEF OneAdminInv, ScheduleInv, AllReady, Targets, CheckConflicts, At
  <2>3. NoConflict(w)'
    BY <1>1, <1>2, <1>3, <2>1 DEF NoConflict, Calm
  <2>4. Ready(w)'
    BY <1>1, <1>2, <2>1, <2>2, <2>3 DEF Ready, Target, Calm
  <2>5. QED
    BY <1>1, <1>2, <1>3, <2>4, ReadyFrame
<1>4. CASE Finish(w)
  BY <1>2, <1>4, RefuseReady
<1>5. QED
  BY <1>2, <1>3, <1>4

LEMMA CommitCreateReady ==
  ASSUME OneAdminInv, NEW w \in Workers, NEW x \in Entries, CommitCreate(w, x)
  PROVE  AllReady' /\ Dispatchers'
<1>1. Finish(w) /\ ~ Idle(w) /\ req[w].op # "ask"
  BY DEF CommitCreate, Refuse, At, Idle
<1>2. QED
  BY <1>1, RefuseReady

LEMMA CommitUpdateReady ==
  ASSUME OneAdminInv, NEW w \in Workers, CommitUpdate(w)
  PROVE  AllReady' /\ Dispatchers'
<1> DEFINE r == Ask("update", "refresh", req[w].entry, "none")
<1>1. ~ Idle(w) /\ req[w].op # "ask" /\ (Start(w, r) \/ Finish(w))
  BY DEF CommitUpdate, Refuse, At, Idle
<1>2. req[w].entry \in Entries
  BY DEF OneAdminInv, ScheduleInv, Targets, Target, CommitUpdate, At
<1>3. r \in Request /\ r.op = "update" /\ r.pc = "refresh"
  BY <1>2, AskType
<1> HIDE DEF r
<1>4. CASE Start(w, r)
  <2>1. req'[w] = r
    BY <1>4 DEF Start, OneAdminInv, ScheduleInv, TypeOK
  <2>2. Ready(w)'
    BY <1>3, <2>1 DEF Ready
  <2>3. QED
    BY <1>1, <1>3, <1>4, <2>2, ReadyFrame
<1>5. CASE Finish(w)
  BY <1>1, <1>5, RefuseReady
<1>6. QED
  BY <1>1, <1>4, <1>5

LEMMA DeleteReady ==
  ASSUME OneAdminInv, NEW w \in Workers, NEW x \in Entries, DeleteEntry(w, x)
  PROVE  AllReady' /\ Dispatchers'
<1> DEFINE r == Ask("delete", "save", x, "none")
<1>1. Start(w, r) /\ Calm
  BY CalmRows DEF DeleteEntry
<1>2. r \in Request /\ r.op = "delete" /\ r.pc = "save"
  BY AskType
<1> HIDE DEF r
<1>3. req'[w] = r
  BY <1>1 DEF Start, OneAdminInv, ScheduleInv, TypeOK
<1>4. Ready(w)'
  BY <1>2, <1>3 DEF Ready
<1>5. QED
  BY <1>1, <1>2, <1>4, ReadyFrame

LEMMA CommitDeleteReady ==
  ASSUME OneAdminInv, NEW w \in Workers, CommitDelete(w)
  PROVE  AllReady' /\ Dispatchers'
<1> DEFINE r == Dispatching(req[w], "cancelled")
<1>1. ~ Idle(w) /\ req[w].op = "delete" /\ (Start(w, r) \/ Finish(w))
  BY DEF CommitDelete, Refuse, At, Idle, Dispatching
<1>0. req[w] \in Request
  BY DEF OneAdminInv, ScheduleInv, TypeOK
<1>2. r \in Request /\ r.op = req[w].op /\ r.pc = "dispatch" /\ r.said = "cancelled"
  BY <1>0, DispatchType
<1> HIDE DEF r
<1>3. CASE Start(w, r)
  <2>1. req'[w] = r
    BY <1>3 DEF Start, OneAdminInv, ScheduleInv, TypeOK
  <2>2. Ready(w)'
    BY <1>1, <1>2, <2>1 DEF Ready
  <2>3. QED
    BY <1>1, <1>2, <1>3, <2>2, ReadyFrame
<1>4. CASE Finish(w)
  BY <1>1, <1>4, RefuseReady
<1>5. QED
  BY <1>1, <1>3, <1>4

LEMMA RefreshReady ==
  ASSUME OneAdminInv, NEW w \in Workers, Refresh(w)
  PROVE  AllReady' /\ Dispatchers'
<1> DEFINE r == Dispatching(req[w], RoomToSay(w))
<1>1. /\ Calm /\ slot' = slot
      /\ req[w].op \in {"update", "approve"}
      /\ (req[w].entry \in DOMAIN slot /\ Start(w, r)) \/ Finish(w)
  BY CalmRows DEF Refresh, At, rows, Dispatching
<1>2. CASE req[w].entry \in DOMAIN slot /\ Start(w, r)
  <2>1. RoomToSay(w) \in Rooms /\ RoomToSay(w) = slot[req[w].entry].room
    BY <1>2 DEF RoomToSay, OneAdminInv, ScheduleInv, TypeOK, Slot
  <2>2. req[w] \in Request
    BY DEF OneAdminInv, ScheduleInv, TypeOK
  <2>3. r \in Request /\ r.pc = "dispatch" /\ r.entry = req[w].entry /\ r.op = req[w].op
        /\ r.said = RoomToSay(w)
    BY <2>1, <2>2, DispatchType
  <2> HIDE DEF r
  <2>4. req'[w] = r
    BY <1>2 DEF Start, OneAdminInv, ScheduleInv, TypeOK
  <2>5. Ready(w)'
    BY <1>1, <2>1, <2>3, <2>4 DEF Ready
  <2>6. QED
    BY <1>1, <1>2, <2>3, <2>5, ReadyFrame
<1>3. CASE Finish(w)
  BY <1>1, <1>3, RefuseReady
<1>4. QED
  BY <1>1, <1>2, <1>3

LEMMA NotifyReady ==
  ASSUME OneAdminInv, NEW w \in Workers, NotifyScheduleChange(w)
  PROVE  AllReady' /\ Dispatchers'
BY CalmRows, RefuseReady DEF NotifyScheduleChange

-----------------------------------------------------------------------------
(***************************************************************************)
(* So does every action of Requesting.                                     *)
(***************************************************************************)
LEMMA AskReady ==
  ASSUME OneAdminInv, NEW w \in Workers, NEW x \in Entries, NEW c \in Wishes, AskChange(w, x, c)
  PROVE  AllReady' /\ Dispatchers'
<1> DEFINE a == [entry |-> x, by |-> slot[x].teacher, wish |-> c, status |-> "pending"]
           r == [Ask("ask", "save", x, "none") EXCEPT !.ask = {a}]
<1>1. slot[x] \in Slot /\ c \in Wish
  BY BoundsAssumption DEF AskChange, OneAdminInv, ScheduleInv, TypeOK
<1>2. a \in Change
  BY <1>1 DEF Change, Slot
<1>3. Start(w, r) /\ Calm
  BY CalmRows DEF AskChange
<1> HIDE DEF a
<1>4. r \in Request /\ r.op = "ask" /\ r.pc = "save"
  BY <1>2 DEF Ask, Request
<1> HIDE DEF r
<1>5. req'[w] = r
  BY <1>3 DEF Start, OneAdminInv, ScheduleInv, TypeOK
<1>6. Ready(w)'
  BY <1>4, <1>5 DEF Ready
<1>7. QED
  BY <1>3, <1>4, <1>6, ReadyFrame

LEMMA CommitAskReady ==
  ASSUME OneAdminInv, NEW w \in Workers, NEW q \in Requests, CommitAsk(w, q)
  PROVE  AllReady' /\ Dispatchers'
<1>1. Finish(w)
  BY DEF CommitAsk, Refuse
<1>2. Calm
  BY DEF CommitAsk, Refuse, Calm, rows
<1>3. QED
  BY <1>1, <1>2, RefuseReady

LEMMA ResolveReady ==
  ASSUME OneAdminInv, NEW w \in Workers, NEW q \in Requests, ResolveChangeRequest(w, q)
  PROVE  AllReady' /\ Dispatchers'
<1>1. /\ q \in DOMAIN change /\ change[q].entry \in Entries /\ change[q].status = "pending"
      /\ Calm
  BY CalmRows DEF ResolveChangeRequest, Resolvable, OneAdminInv, ScheduleInv, TypeOK, Change
<1>2. ASSUME NEW op \in {"approve", "reject"}, NEW pc \in {"load", "save"},
             op = "approve" => pc = "load", Start(w, Ask(op, pc, change[q].entry, q))
      PROVE  AllReady' /\ Dispatchers'
  <2> DEFINE r == Ask(op, pc, change[q].entry, q)
  <2>1. r \in Request /\ r.op = op /\ r.pc = pc /\ r.request = q
    BY <1>1, AskType
  <2>2. Start(w, r)
    BY <1>2
  <2> HIDE DEF r
  <2>3. req'[w] = r /\ change'[q].status = "pending"
    BY <1>1, <2>2 DEF Start, OneAdminInv, ScheduleInv, TypeOK, Calm
  <2>4. Ready(w)'
    BY <1>2, <2>1, <2>3 DEF Ready
  <2>5. QED
    BY <1>1, <2>1, <2>2, <2>4, ReadyFrame
<1>3. QED
  BY <1>2 DEF ResolveChangeRequest

LEMMA LoadReady ==
  ASSUME OneAdminInv, NEW w \in Workers, LoadEntry(w)
  PROVE  AllReady' /\ Dispatchers'
<1> DEFINE s == slot[req[w].entry]
           new == Requested(change[req[w].request].wish, s)
           r == [req[w] EXCEPT !.pc = "check", !.loaded = s, !.new = new]
<1>1. Calm /\ slot' = slot /\ change' = change /\ ((Valid(new) /\ Start(w, r)) \/ Finish(w))
  BY CalmRows DEF LoadEntry, rows
<1>2. /\ req[w].op = "approve"
      /\ req[w].request \in DOMAIN change
      /\ change[req[w].request].entry = req[w].entry
      /\ change[req[w].request].status = "pending"
  BY DEF LoadEntry, At, OneAdminInv, ScheduleInv, Targets, Target, AllReady, Ready
<1>3. s \in Slot /\ change[req[w].request].wish \in Wish /\ req[w].entry \in DOMAIN slot
  BY <1>2 DEF OneAdminInv, ScheduleInv, TypeOK, RequestsResolve, Change
<1>4. new \in Slot
  BY <1>3, RequestedType
<1>5. req[w] \in Request
  BY DEF OneAdminInv, ScheduleInv, TypeOK
<1>6. s = slot[req[w].entry]
  OBVIOUS
<1> HIDE DEF s, new
<1>7. r \in Request /\ r.op = "approve" /\ r.pc = "check" /\ r.new = new /\ r.loaded = s
      /\ r.entry = req[w].entry /\ r.request = req[w].request
  BY <1>2, <1>3, <1>4, <1>5 DEF Request
<1> HIDE DEF r
<1>8. CASE Valid(new) /\ Start(w, r)
  <2>1. req'[w] = r
    BY <1>8 DEF Start, OneAdminInv, ScheduleInv, TypeOK
  <2>2. Ready(w)'
    BY <1>1, <1>2, <1>3, <1>6, <1>7, <1>8, <2>1 DEF Ready
  <2>3. QED
    BY <1>1, <1>7, <1>8, <2>2, ReadyFrame
<1>9. CASE Finish(w)
  BY <1>1, <1>9, RefuseReady
<1>10. QED
  BY <1>1, <1>8, <1>9

LEMMA CommitResolveReady ==
  ASSUME OneAdminInv, NEW w \in Workers, CommitResolve(w)
  PROVE  AllReady' /\ Dispatchers'
<1> DEFINE r == Ask(req[w].op, "answer", req[w].entry, req[w].request)
<1>1. ~ Idle(w) /\ req[w].op \in {"approve", "reject"}
  BY DEF CommitResolve, At, Idle
<1>2. Finish(w) \/ Start(w, r)
  BY DEF CommitResolve, Refuse, Decide
<1>3. req[w].entry \in Entries \cup {"none"} /\ req[w].request \in Requests \cup {"none"}
  BY DEF OneAdminInv, ScheduleInv, TypeOK, Request
<1>4. r \in Request /\ r.op = req[w].op /\ r.pc = "answer"
  BY <1>1, <1>3, AskType
<1> HIDE DEF r
<1>5. CASE Start(w, r)
  <2>1. req'[w] = r
    BY <1>5 DEF Start, OneAdminInv, ScheduleInv, TypeOK
  <2>2. Ready(w)'
    BY <1>4, <2>1 DEF Ready
  <2>3. QED
    BY <1>1, <1>4, <1>5, <2>2, ReadyFrame
<1>6. CASE Finish(w)
  BY <1>1, <1>6, RefuseReady
<1>7. QED
  BY <1>2, <1>5, <1>6

LEMMA AnswerReady ==
  ASSUME OneAdminInv, NEW w \in Workers, AnswerTeacher(w)
  PROVE  AllReady' /\ Dispatchers'
<1> DEFINE r == Ask("approve", "refresh", req[w].entry, "none")
<1>1. Calm /\ (Finish(w) \/ Start(w, r))
  BY CalmRows DEF AnswerTeacher
<1>2. req[w].entry \in Entries \cup {"none"}
  BY DEF OneAdminInv, ScheduleInv, TypeOK, Request
<1>3. /\ req[w].request \in DOMAIN change
      /\ change[req[w].request].entry = req[w].entry
  BY DEF AnswerTeacher, At, OneAdminInv, ScheduleInv, Targets, Target
<1>4. req[w].entry \in Entries
  BY <1>3 DEF OneAdminInv, ScheduleInv, TypeOK, RequestsResolve
<1>5. r \in Request /\ r.op = "approve" /\ r.pc = "refresh"
  BY <1>4, AskType
<1> HIDE DEF r
<1>6. CASE Start(w, r)
  <2>1. req'[w] = r
    BY <1>6 DEF Start, OneAdminInv, ScheduleInv, TypeOK
  <2>2. Ready(w)'
    BY <1>5, <2>1 DEF Ready
  <2>3. QED
    BY <1>1, <1>5, <1>6, <2>2, ReadyFrame
<1>7. CASE Finish(w)
  BY <1>1, <1>7, RefuseReady
<1>8. QED
  BY <1>1, <1>6, <1>7

LEMMA AbortReady ==
  ASSUME OneAdminInv, NEW w \in Workers, Abort(w)
  PROVE  AllReady' /\ Dispatchers'
BY CalmRows, RefuseReady DEF Abort, Refuse

LEMMA ReadyStep ==
  ASSUME OneAdminInv, [Next]_vars
  PROVE  AllReady' /\ Dispatchers'
<1>1. ASSUME NEW w \in Workers, Edit(w) PROVE AllReady' /\ Dispatchers'
  BY <1>1, CreateReady, UpdateReady, CheckReady, CommitCreateReady, CommitUpdateReady,
     DeleteReady, CommitDeleteReady, RefreshReady, NotifyReady DEF Edit
<1>2. ASSUME NEW w \in Workers, Requesting(w) PROVE AllReady' /\ Dispatchers'
  BY <1>2, AskReady, CommitAskReady, ResolveReady, LoadReady, CommitResolveReady, AnswerReady
     DEF Requesting, Asking, Resolving
<1>3. ASSUME NEW w \in Workers, Abort(w) PROVE AllReady' /\ Dispatchers'
  BY <1>3, AbortReady
<1>4. CASE UNCHANGED vars
  BY <1>4 DEF vars, rows, OneAdminInv, AllReady, Ready, Dispatchers, NoConflict
<1>5. QED
  BY <1>1, <1>2, <1>3, <1>4 DEF Next

-----------------------------------------------------------------------------
(***************************************************************************)
(* Every step books, moves or cancels an entry of the abstract timetable,  *)
(* or leaves it alone.                                                     *)
(***************************************************************************)
LEMMA ConflictSymmetric ==
  ASSUME NEW s, NEW t, Conflict(s, t)
  PROVE  Conflict(t, s)
BY DEF Conflict

\* When the row is as it was read, the UPDATE writes what was computed.
LEMMA MergedFresh ==
  ASSUME NEW s \in Slot, NEW new \in Slot
  PROVE  Merged(s, new, s) = new
BY DEF Merged, Flushed, Slot

LEMMA ResultFresh ==
  ASSUME OneAdminInv, NEW w \in Workers, At(w, {"update", "approve"}, "save"), Updatable(w),
         slot' = [slot EXCEPT ![req[w].entry] = Result(w)]
  PROVE  \E x \in Entries, s \in Slot : Abstract!Move(x, s)
<1>1. /\ req[w].entry \in DOMAIN slot /\ req[w].loaded = slot[req[w].entry]
      /\ Valid(req[w].new) /\ NoConflict(w)
  BY DEF OneAdminInv, AllReady, Ready, At
<1>2. req[w].entry \in Entries /\ slot[req[w].entry] \in Slot /\ req[w].new \in Slot
  BY <1>1 DEF OneAdminInv, ScheduleInv, TypeOK, Targets, Target, At
<1>3. Result(w) = req[w].new
  BY <1>1, <1>2, MergedFresh DEF Result
<1>4. Abstract!Move(req[w].entry, req[w].new)
  BY <1>1, <1>3 DEF Abstract!Move, Abstract!Fits, NoConflict
<1>5. QED
  BY <1>2, <1>4

LEMMA CreateBooks ==
  ASSUME OneAdminInv, NEW w \in Workers, NEW x \in Entries, CommitCreate(w, x)
  PROVE  slot' = slot \/ \E s \in Slot : Abstract!Book(x, s)
<1>1. CASE Refuse(w)
  BY <1>1 DEF Refuse, rows
<1>2. CASE ~ Refuse(w)
  <2>1. /\ x \notin used
        /\ slot' = [y \in DOMAIN slot \cup {x} |-> IF y = x THEN req[w].new ELSE slot[y]]
    BY <1>2 DEF CommitCreate
  <2>2. Valid(req[w].new) /\ NoConflict(w) /\ req[w].entry = "none" /\ req[w].new \in Slot
    BY DEF OneAdminInv, AllReady, Ready, ScheduleInv, Targets, Target, CommitCreate, At
  <2>3. DOMAIN slot \ {"none"} = DOMAIN slot /\ x \notin DOMAIN slot
    BY <2>1, NamesAssumption DEF OneAdminInv, ScheduleInv, TypeOK
  <2>4. Abstract!Book(x, req[w].new)
    BY <2>1, <2>2, <2>3 DEF Abstract!Book, Abstract!Fits, NoConflict
  <2>5. QED
    BY <2>2, <2>4
<1>3. QED
  BY <1>1, <1>2

LEMMA TimetableStep ==
  ASSUME OneAdminInv, [Next]_vars
  PROVE  [Abstract!Next]_slot
<1>1. ASSUME NEW w \in Workers, Edit(w) PROVE [Abstract!Next]_slot
  <2>1. CASE \E x \in Entries : CommitCreate(w, x)
    BY <2>1, CreateBooks DEF Abstract!Next
  <2>2. CASE CommitUpdate(w)
    <3>1. CASE Refuse(w)
      BY <3>1 DEF Refuse, rows
    <3>2. CASE ~ Refuse(w)
      BY <2>2, <3>2, ResultFresh DEF CommitUpdate, At, Abstract!Next
    <3>3. QED
      BY <3>1, <3>2
  <2>3. CASE CommitDelete(w)
    <3>1. CASE Refuse(w)
      BY <3>1 DEF Refuse, rows
    <3>2. CASE ~ Refuse(w)
      <4>1. slot' = [y \in DOMAIN slot \ {req[w].entry} |-> slot[y]]
        BY <2>3, <3>2 DEF CommitDelete
      <4>2. req[w].entry \in Entries
        BY <2>3 DEF CommitDelete, At, OneAdminInv, ScheduleInv, TypeOK, Targets, Target
      <4>3. CASE req[w].entry \in DOMAIN slot
        BY <4>1, <4>2, <4>3 DEF Abstract!Cancel, Abstract!Next
      <4>4. CASE req[w].entry \notin DOMAIN slot
        <5>1. DOMAIN slot \ {req[w].entry} = DOMAIN slot
          BY <4>4
        <5>2. slot' = slot
          BY <4>1, <5>1 DEF OneAdminInv, ScheduleInv, TypeOK
        <5>3. QED
          BY <5>2
      <4>5. QED
        BY <4>3, <4>4
    <3>3. QED
      BY <3>1, <3>2
  <2>4. CASE \/ \E s \in Payloads : CreateEntry(w, s) \/ \E x \in Entries : UpdateEntry(w, x, s)
             \/ \E x \in Entries : DeleteEntry(w, x)
             \/ CheckConflicts(w) \/ Refresh(w) \/ NotifyScheduleChange(w)
    BY <2>4 DEF CreateEntry, UpdateEntry, DeleteEntry, CheckConflicts, Refresh,
       NotifyScheduleChange, rows
  <2>5. QED
    BY <1>1, <2>1, <2>2, <2>3, <2>4 DEF Edit
<1>2. ASSUME NEW w \in Workers, Requesting(w) PROVE [Abstract!Next]_slot
  <2>1. CASE CommitResolve(w)
    <3>1. CASE slot' = slot
      BY <3>1
    <3>2. CASE slot' # slot
      BY <2>1, <3>2, ResultFresh DEF CommitResolve, Refuse, rows, At, Abstract!Next
    <3>3. QED
      BY <3>1, <3>2
  <2>2. CASE ~ CommitResolve(w)
    BY <1>2, <2>2 DEF Requesting, Asking, Resolving, AskChange, CommitAsk, ResolveChangeRequest, LoadEntry,
       AnswerTeacher, Refuse, rows
  <2>3. QED
    BY <2>1, <2>2
<1>3. ASSUME NEW w \in Workers, Abort(w) PROVE [Abstract!Next]_slot
  BY <1>3 DEF Abort, Refuse, rows
<1>4. CASE UNCHANGED vars
  BY <1>4 DEF vars, rows
<1>5. QED
  BY <1>1, <1>2, <1>3, <1>4 DEF Next

\* A step of the abstract timetable never makes two entries clash.
LEMMA TimetableKeeps ==
  ASSUME NoDoubleBooking, ValidTimes, [Abstract!Next]_slot
  PROVE  NoDoubleBooking' /\ ValidTimes'
<1>1. CASE UNCHANGED slot
  BY <1>1 DEF NoDoubleBooking, ValidTimes
<1>2. ASSUME NEW x \in Entries, NEW s \in Slot, Abstract!Book(x, s) \/ Abstract!Move(x, s)
      PROVE  NoDoubleBooking' /\ ValidTimes'
  <2>1. /\ DOMAIN slot' = DOMAIN slot \cup {x}
        /\ slot'[x] = s
        /\ \A y \in DOMAIN slot \ {x} : slot'[y] = slot[y]
    BY <1>2 DEF Abstract!Book, Abstract!Move
  <2>2. Valid(s) /\ \A y \in DOMAIN slot \ {x} : ~ Conflict(slot[y], s)
    BY <1>2 DEF Abstract!Book, Abstract!Move, Abstract!Fits
  <2>3. \A y \in DOMAIN slot \ {x} : ~ Conflict(s, slot[y])
    BY <2>2, ConflictSymmetric
  <2>4. NoDoubleBooking'
    BY <2>1, <2>2, <2>3 DEF NoDoubleBooking
  <2>5. ValidTimes'
    BY <2>1, <2>2 DEF ValidTimes
  <2>6. QED
    BY <2>4, <2>5
<1>3. ASSUME NEW x \in Entries, Abstract!Cancel(x) PROVE NoDoubleBooking' /\ ValidTimes'
  BY <1>3 DEF Abstract!Cancel, NoDoubleBooking, ValidTimes
<1>4. QED
  BY <1>1, <1>2, <1>3 DEF Abstract!Next

-----------------------------------------------------------------------------
LEMMA OneAdminInvInit == Init => OneAdminInv
<1> SUFFICES ASSUME Init PROVE OneAdminInv
  OBVIOUS
<1>1. ScheduleInv
  BY ScheduleInvInit
<1>2. NoDoubleBooking /\ ValidTimes
  BY DEF Init, NoDoubleBooking, ValidTimes
<1>3. OneAdmin /\ AllReady /\ Dispatchers
  BY DEF Init, OneAdmin, AllReady, Ready, Dispatchers, Idle, NoRequest, Ask
<1>4. QED
  BY <1>1, <1>2, <1>3 DEF OneAdminInv

LEMMA OneAdminInvStep == OneAdminInv /\ [Next /\ OneAdmin']_vars => OneAdminInv'
<1> SUFFICES ASSUME OneAdminInv, [Next /\ OneAdmin']_vars PROVE OneAdminInv'
  OBVIOUS
<1>1. [Next]_vars
  OBVIOUS
<1>2. ScheduleInv'
  BY <1>1, ScheduleInvStep DEF OneAdminInv
<1>3. OneAdmin'
  BY DEF OneAdminInv, OneAdmin, Idle, vars
<1>4. AllReady' /\ Dispatchers'
  BY <1>1, ReadyStep
<1>5. NoDoubleBooking' /\ ValidTimes'
  BY <1>1, TimetableStep, TimetableKeeps DEF OneAdminInv
<1>6. QED
  BY <1>2, <1>3, <1>4, <1>5 DEF OneAdminInv

LEMMA OneAdminInvAlways == OneAdminSpec => []OneAdminInv
BY OneAdminInvInit, OneAdminInvStep, PTL DEF OneAdminSpec

(***************************************************************************)
(* With one admin no two entries ever claim a room or a teacher at         *)
(* overlapping times, whatever slots are asked for and approved.           *)
(***************************************************************************)
THEOREM ScheduleNoDoubleBooking == OneAdminSpec => []NoDoubleBooking
<1>1. OneAdminInv => NoDoubleBooking
  BY DEF OneAdminInv
<1>2. QED
  BY <1>1, OneAdminInvAlways, PTL

(***************************************************************************)
(* With one admin every entry starts before it ends, also after a change   *)
(* request has replaced only one of the two times.                         *)
(***************************************************************************)
THEOREM ScheduleValidTimes == OneAdminSpec => []ValidTimes
<1>1. OneAdminInv => ValidTimes
  BY DEF OneAdminInv
<1>2. QED
  BY <1>1, OneAdminInvAlways, PTL

\* A step that changes a request decides a pending one.
LEMMA ResolvedStep ==
  ASSUME OneAdminInv, [Next]_vars, NEW q \in DOMAIN change, change[q].status # "pending"
  PROVE  q \in DOMAIN change' /\ change'[q] = change[q]
<1>1. CASE \E w \in Workers : CommitResolve(w)
  <2>1. PICK w \in Workers : CommitResolve(w)
    BY <1>1
  <2>2. /\ req[w].request \in DOMAIN change
        /\ change[req[w].request].status = "pending"
    BY <2>1 DEF CommitResolve, At, OneAdminInv, ScheduleInv, Targets, Target, AllReady, Ready
  <2>3. CASE Refuse(w)
    BY <2>3 DEF Refuse, rows
  <2>4. CASE ~ Refuse(w)
    <3>1. PICK d \in {"approved", "rejected"} :
            change' = [change EXCEPT ![req[w].request].status = d]
      BY <2>1, <2>4 DEF CommitResolve, Decide
    <3>2. q # req[w].request
      BY <2>2
    <3>3. QED
      BY <3>1, <3>2
  <2>5. QED
    BY <2>3, <2>4
<1>2. CASE \E w \in Workers, p \in Requests : CommitAsk(w, p)
  BY <1>2 DEF CommitAsk, Refuse, rows
<1>3. CASE /\ ~ \E w \in Workers : CommitResolve(w)
           /\ ~ \E w \in Workers, p \in Requests : CommitAsk(w, p)
  <2>1. change' = change
    <3>1. ASSUME NEW w \in Workers, Edit(w) PROVE change' = change
      BY <3>1 DEF Edit, CreateEntry, UpdateEntry, CheckConflicts, CommitCreate, DeleteEntry,
         CommitUpdate, CommitDelete, Refresh, NotifyScheduleChange, Refuse, rows
    <3>2. ASSUME NEW w \in Workers, Requesting(w) PROVE change' = change
      BY <1>3, <3>2 DEF Requesting, Asking, Resolving, AskChange, ResolveChangeRequest, LoadEntry, AnswerTeacher, rows
    <3>3. ASSUME NEW w \in Workers, Abort(w) PROVE change' = change
      BY <3>3 DEF Abort, Refuse, rows
    <3>4. QED
      BY <3>1, <3>2, <3>3 DEF Next, vars, rows
  <2>2. QED
    BY <2>1
<1>4. QED
  BY <1>1, <1>2, <1>3

(***************************************************************************)
(* With one admin a change request is decided at most once: no second      *)
(* approval or rejection ever overwrites the first.                        *)
(***************************************************************************)
THEOREM ScheduleResolvedOnce == OneAdminSpec => ResolvedOnce
<1>1. OneAdminInv /\ [Next /\ OneAdmin']_vars
        => [\A q \in DOMAIN change :
              change[q].status # "pending" => q \in DOMAIN change' /\ change'[q] = change[q]]_vars
  BY ResolvedStep
<1>2. QED
  BY <1>1, OneAdminInvAlways, PTL DEF OneAdminSpec, ResolvedOnce

\* Only a dispatch changes a notice, and it says what is still so.
LEMMA NoticeStep ==
  ASSUME OneAdminInv, [Next]_vars, NEW x \in DOMAIN slot, notice'[x] # notice[x]
  PROVE  notice'[x] \in {slot[x].room, "cancelled"}
<1>1. CASE \E w \in Workers : NotifyScheduleChange(w)
  <2>1. PICK w \in Workers : NotifyScheduleChange(w)
    BY <1>1
  <2>2. /\ notice' = [notice EXCEPT ![req[w].entry] = req[w].said]
        /\ req[w].said = "cancelled" \/ req[w].said = slot[req[w].entry].room
    BY <2>1 DEF NotifyScheduleChange, OneAdminInv, AllReady, Ready, Dispatchers
  <2>3. x = req[w].entry /\ x \in Entries
    BY <2>2 DEF OneAdminInv, ScheduleInv, TypeOK
  <2>4. notice'[x] = req[w].said
    BY <2>2, <2>3 DEF OneAdminInv, ScheduleInv, TypeOK
  <2>5. QED
    BY <2>2, <2>3, <2>4
<1>2. CASE ~ \E w \in Workers : NotifyScheduleChange(w)
  <2>1. ASSUME NEW w \in Workers, Edit(w) PROVE notice' = notice
    BY <1>2, <2>1 DEF Edit, CreateEntry, UpdateEntry, CheckConflicts, CommitCreate, DeleteEntry,
       CommitUpdate, CommitDelete, Refresh, Refuse
  <2>2. ASSUME NEW w \in Workers, Requesting(w) PROVE notice' = notice
    BY <2>2 DEF Requesting, Asking, Resolving, AskChange, CommitAsk, ResolveChangeRequest, LoadEntry, CommitResolve,
       Decide, AnswerTeacher, Refuse
  <2>3. ASSUME NEW w \in Workers, Abort(w) PROVE notice' = notice
    BY <2>3 DEF Abort, Refuse
  <2>4. QED
    BY <2>1, <2>2, <2>3 DEF Next, vars
<1>3. QED
  BY <1>1, <1>2

(***************************************************************************)
(* With one admin notices do not overtake each other: a notice that a      *)
(* class has moved names the room the class is in when it is sent.         *)
(***************************************************************************)
THEOREM ScheduleNoticesInOrder == OneAdminSpec => NoticesInOrder
<1>1. OneAdminInv /\ [Next /\ OneAdmin']_vars
        => [\A x \in DOMAIN slot :
              notice'[x] # notice[x] => notice'[x] \in {slot[x].room, "cancelled"}]_vars
  BY NoticeStep
<1>2. QED
  BY <1>1, OneAdminInvAlways, PTL DEF OneAdminSpec, NoticesInOrder

(***************************************************************************)
(* With one admin the handlers implement the abstract timetable: their     *)
(* commits book, move and cancel entries one at a time, without a clash.   *)
(***************************************************************************)
THEOREM ScheduleImplementsTimetable == OneAdminSpec => TimetableSpec
<1>1. Init => Abstract!Init
  BY DEF Init, Abstract!Init
<1>2. OneAdminInv /\ [Next /\ OneAdmin']_vars => [Abstract!Next]_slot
  BY TimetableStep
<1>3. QED
  BY <1>1, <1>2, OneAdminInvAlways, PTL DEF OneAdminSpec, TimetableSpec, Abstract!Spec
=============================================================================
