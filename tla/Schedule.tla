------------------------------ MODULE Schedule ------------------------------
(***************************************************************************)
(* Timetable entries and change requests: schedule_service.ScheduleService *)
(* over schedule_repository.ScheduleRepository, as request handlers that   *)
(* run in parallel, with the notices they dispatch.                        *)
(*                                                                         *)
(* Workers, sessions, SELECTs and commits are as in Fees and Exams.  An    *)
(* UPDATE writes only the columns whose value the handler changed.         *)
(***************************************************************************)
EXTENDS Integers

CONSTANTS
  Workers,    \* threads that run request handlers
  Rooms,      \* rows of room
  Teachers,   \* rows of teacher
  Days,       \* days of the week
  Times,      \* times of the day
  Entries,    \* ids a POST /schedule may give out (fresh uuids)
  Requests,   \* ids a POST /schedule/change-requests may give out
  Payloads,   \* bound: the slots a POST or PUT may ask for
  Wishes,     \* bound: the columns a change request may name
  NoSlot      \* stands for a slot no handler has computed yet

Slot == [room : Rooms, teacher : Teachers, day : Days, start : Times, end : Times]

\* A column of a change request: {} when the request leaves it alone.
Optional(S) == {{}} \cup {{x} : x \in S}

Wish == [room : Optional(Rooms), day : Optional(Days), start : Optional(Times), end : Optional(Times)]

ASSUME TimesAssumption == Times \subseteq Int
ASSUME BoundsAssumption == Payloads \subseteq Slot /\ Wishes \subseteq Wish
ASSUME NoSlotAssumption == NoSlot \notin Slot
ASSUME NamesAssumption ==
  "none" \notin Entries \cup Requests /\ {"none", "cancelled"} \cap Rooms = {}

VARIABLES
  slot,     \* slot[x]: room, teacher, day, start and end of entry x; its domain
            \* is the rows of schedule_entry there are
  used,     \* ids of entries ever committed
  change,   \* change[q]: the rows of schedule_change_request
  notice,   \* the last schedule_change notice about each entry: a room it
            \* moved to, "cancelled", or "none"
  told,     \* the teachers told the outcome of each change request
  req       \* what each worker is doing, and what its session has read

rows == <<slot, used, change>>
vars == <<slot, used, change, notice, told, req>>

Change ==
  [ entry : Entries, by : Teachers, wish : Wish,
    status : {"pending", "approved", "rejected"} ]

Request ==
  [ op      : {"none", "create", "update", "delete", "ask", "approve", "reject"},
    pc      : {"idle", "load", "check", "save", "refresh", "dispatch", "answer"},
    entry   : Entries \cup {"none"},
    request : Requests \cup {"none"},
    loaded  : Slot \cup {NoSlot},      \* the entry as it was read
    new     : Slot \cup {NoSlot},      \* the entry as it is to be
    ask     : SUBSET Change,           \* ask: the request to record
    said    : Rooms \cup {"none", "cancelled"} ]  \* the notice to send

Ask(op, pc, x, q) ==
  [op |-> op, pc |-> pc, entry |-> x, request |-> q, loaded |-> NoSlot,
   new |-> NoSlot, ask |-> {}, said |-> "none"]

NoRequest == Ask("none", "idle", "none", "none")

(***************************************************************************)
(* The type invariant.                                                     *)
(***************************************************************************)
TypeOK ==
  /\ DOMAIN slot \subseteq Entries
  /\ slot \in [DOMAIN slot -> Slot]
  /\ DOMAIN slot \subseteq used /\ used \subseteq Entries
  /\ DOMAIN change \subseteq Requests
  /\ change \in [DOMAIN change -> Change]
  /\ notice \in [Entries -> Rooms \cup {"none", "cancelled"}]
  /\ told \in [Requests -> SUBSET Teachers]
  /\ req \in [Workers -> Request]

Init ==
  /\ slot = [x \in {} |-> NoSlot]
  /\ used = {}
  /\ change = [q \in {} |-> NoSlot]
  /\ notice = [x \in Entries |-> "none"]
  /\ told = [q \in Requests |-> {}]
  /\ req = [w \in Workers |-> NoRequest]

Idle(w) == req[w].pc = "idle"
At(w, ops, pc) == req[w].op \in ops /\ req[w].pc = pc
Start(w, r) == req' = [req EXCEPT ![w] = r]
Finish(w) == req' = [req EXCEPT ![w] = NoRequest]

\* Nothing is committed: a refusal, or an error of the database.
Refuse(w) == Finish(w) /\ UNCHANGED <<rows, notice, told>>

-----------------------------------------------------------------------------
(***************************************************************************)
(* What the checks compare.                                                *)
(***************************************************************************)

\* VR-007, _validate_time_range.
Valid(s) == s.start < s.end

\* find_overlapping_entries.
Conflict(s, t) ==
  /\ s.day = t.day
  /\ s.start < t.end
  /\ t.start < s.end
  /\ s.room = t.room \/ s.teacher = t.teacher

\* The unique constraints of schedule_entry refuse one of the two.
Collide(s, t) ==
  /\ s.day = t.day
  /\ s.start = t.start
  /\ s.room = t.room \/ s.teacher = t.teacher

Writable(x, s) == \A y \in DOMAIN slot \ {x} : ~ Collide(slot[y], s)

\* The columns an UPDATE leaves in a row that may have changed since.
Flushed(loaded, new, stored) == IF new = loaded THEN stored ELSE new

Merged(loaded, new, stored) ==
  [ room    |-> Flushed(loaded.room, new.room, stored.room),
    teacher |-> Flushed(loaded.teacher, new.teacher, stored.teacher),
    day     |-> Flushed(loaded.day, new.day, stored.day),
    start   |-> Flushed(loaded.start, new.start, stored.start),
    end     |-> Flushed(loaded.end, new.end, stored.end) ]

\* The columns a change request names, over the entry as it is now.
Given(given, current) == IF given = {} THEN current ELSE CHOOSE x \in given : TRUE

Requested(c, s) ==
  [ room    |-> Given(c.room, s.room),
    teacher |-> s.teacher,
    day     |-> Given(c.day, s.day),
    start   |-> Given(c.start, s.start),
    end     |-> Given(c.end, s.end) ]

-----------------------------------------------------------------------------
(***************************************************************************)
(* POST, PUT and DELETE /schedule: admins.                                 *)
(***************************************************************************)

\* create_entry.
CreateEntry(w, s) ==
  /\ Idle(w)
  /\ Valid(s)
  /\ Start(w, [Ask("create", "check", "none", "none") EXCEPT !.new = s])
  /\ UNCHANGED <<rows, notice, told>>

\* update_entry: the payload's columns over those of the entry as read.
UpdateEntry(w, x, s) ==
  /\ Idle(w)
  /\ x \in DOMAIN slot
  /\ Valid(s)
  /\ Start(w, [Ask("update", "check", x, "none") EXCEPT !.loaded = slot[x], !.new = s])
  /\ UNCHANGED <<rows, notice, told>>

\* Mutants: only what the constraints compare; only the room.
NoConflictAtStart(w) ==
  \A y \in DOMAIN slot \ {req[w].entry} : ~ Collide(slot[y], req[w].new)
NoConflictInRoom(w) ==
  \A y \in DOMAIN slot \ {req[w].entry} :
    ~ (Conflict(slot[y], req[w].new) /\ slot[y].room = req[w].new.room)

\* _check_conflicts, the entry itself excluded.
NoConflict(w) ==
  \A y \in DOMAIN slot \ {req[w].entry} : ~ Conflict(slot[y], req[w].new)

CheckConflicts(w) ==
  /\ At(w, {"create", "update", "approve"}, "check")
  /\ \/ NoConflict(w) /\ Start(w, [req[w] EXCEPT !.pc = "save"])
     \/ ~ NoConflict(w) /\ Finish(w)
  /\ UNCHANGED <<rows, notice, told>>

CommitCreate(w, x) ==
  /\ At(w, {"create"}, "save")
  /\ x \notin used
  /\ \/ /\ Writable(x, req[w].new)
        /\ slot' = [y \in DOMAIN slot \cup {x} |-> IF y = x THEN req[w].new ELSE slot[y]]
        /\ used' = used \cup {x}
        /\ Finish(w)
        /\ UNCHANGED <<change, notice, told>>
     \/ ~ Writable(x, req[w].new) /\ Refuse(w)

\* The row of an entry after this worker's UPDATE of it.
Result(w) == Merged(req[w].loaded, req[w].new, slot[req[w].entry])

\* An UPDATE of a row that is gone is an error.
Updatable(w) ==
  /\ req[w].entry \in DOMAIN slot
  /\ Writable(req[w].entry, Result(w))

CommitUpdate(w) ==
  /\ At(w, {"update"}, "save")
  /\ \/ /\ Updatable(w)
        /\ slot' = [slot EXCEPT ![req[w].entry] = Result(w)]
        /\ Start(w, Ask("update", "refresh", req[w].entry, "none"))
        /\ UNCHANGED <<used, change, notice, told>>
     \/ ~ Updatable(w) /\ Refuse(w)

\* delete_entry.
DeleteEntry(w, x) ==
  /\ Idle(w)
  /\ x \in DOMAIN slot
  /\ Start(w, Ask("delete", "save", x, "none"))
  /\ UNCHANGED <<rows, notice, told>>

\* Mutant: deleting an entry ignores its change requests.
ReferencedNever(x) == FALSE

\* schedule_change_request.schedule_entry_id is ON DELETE RESTRICT.
Referenced(x) == \E q \in DOMAIN change : change[q].entry = x

CommitDelete(w) ==
  LET x == req[w].entry
  IN /\ At(w, {"delete"}, "save")
     /\ \/ /\ ~ Referenced(x)
           /\ slot' = [y \in DOMAIN slot \ {x} |-> slot[y]]
           /\ Start(w, [req[w] EXCEPT !.pc = "dispatch", !.said = "cancelled"])
           /\ UNCHANGED <<used, change, notice, told>>
        \/ Referenced(x) /\ Refuse(w)

-----------------------------------------------------------------------------
(***************************************************************************)
(* _notify_schedule_change: after the commit, from the row read again; a   *)
(* transaction of its own that may fail without the caller noticing.       *)
(***************************************************************************)

\* Mutant: the notice names a room the entry is not in.
RoomToSayOther(w) == CHOOSE r \in Rooms : r # slot[req[w].entry].room

RoomToSay(w) == slot[req[w].entry].room

Refresh(w) ==
  /\ At(w, {"update", "approve"}, "refresh")
  /\ \/ /\ req[w].entry \in DOMAIN slot
        /\ Start(w, [req[w] EXCEPT !.pc = "dispatch", !.said = RoomToSay(w)])
     \/ /\ req[w].entry \notin DOMAIN slot
        /\ Finish(w)
  /\ UNCHANGED <<rows, notice, told>>

NotifyScheduleChange(w) ==
  /\ req[w].pc = "dispatch"
  /\ notice' = [notice EXCEPT ![req[w].entry] = req[w].said]
  /\ Finish(w)
  /\ UNCHANGED <<rows, told>>

-----------------------------------------------------------------------------
(***************************************************************************)
(* POST /schedule/change-requests by teachers, and /resolve by admins.     *)
(***************************************************************************)

\* create_change_request: c names columns of an entry of the teacher's own.
AskChange(w, x, c) ==
  /\ Idle(w)
  /\ x \in DOMAIN slot
  /\ \A a \in c.start, b \in c.end : a < b
  /\ Start(w, [Ask("ask", "save", x, "none") EXCEPT !.ask =
        {[entry |-> x, by |-> slot[x].teacher, wish |-> c, status |-> "pending"]}])
  /\ UNCHANGED <<rows, notice, told>>

\* The commit; the entry must still exist.
CommitAsk(w, q) ==
  /\ At(w, {"ask"}, "save")
  /\ q \notin DOMAIN change
  /\ \/ /\ req[w].entry \in DOMAIN slot
        /\ \E c \in req[w].ask :
             change' = [p \in DOMAIN change \cup {q} |-> IF p = q THEN c ELSE change[p]]
        /\ Finish(w)
        /\ UNCHANGED <<slot, used, notice, told>>
     \/ req[w].entry \notin DOMAIN slot /\ Refuse(w)

\* Mutant: a request may be resolved again.
ResolvableAlways(q) == q \in DOMAIN change

\* 409 unless it is pending.
Resolvable(q) == q \in DOMAIN change /\ change[q].status = "pending"

\* resolve_change_request.
ResolveChangeRequest(w, q) ==
  /\ Idle(w)
  /\ Resolvable(q)
  /\ \/ Start(w, Ask("approve", "load", change[q].entry, q))
     \/ Start(w, Ask("reject", "save", change[q].entry, q))
  /\ UNCHANGED <<rows, notice, told>>

\* An approval reads the entry and lays the requested columns over it.
LoadEntry(w) ==
  LET s == slot[req[w].entry]
      new == Requested(change[req[w].request].wish, s)
  IN /\ At(w, {"approve"}, "load")
     /\ \/ Valid(new) /\ Start(w, [req[w] EXCEPT !.pc = "check", !.loaded = s, !.new = new])
        \/ ~ Valid(new) /\ Finish(w)
     /\ UNCHANGED <<rows, notice, told>>

Decide(w, decision) ==
  /\ change' = [change EXCEPT ![req[w].request].status = decision]
  /\ Start(w, Ask(req[w].op, "answer", req[w].entry, req[w].request))
  /\ UNCHANGED <<used, notice, told>>

CommitResolve(w) ==
  \/ /\ At(w, {"approve"}, "save")
     /\ \/ /\ Updatable(w)
           /\ slot' = [slot EXCEPT ![req[w].entry] = Result(w)]
           /\ Decide(w, "approved")
        \/ ~ Updatable(w) /\ Refuse(w)
  \/ /\ At(w, {"reject"}, "save")
     /\ Decide(w, "rejected")
     /\ UNCHANGED slot

\* The outcome goes to the teacher the entry has now; the decision is read
\* again, and the class is told as well when it is an approval.
AnswerTeacher(w) ==
  LET q == req[w].request
  IN /\ At(w, {"approve", "reject"}, "answer")
     /\ \/ told' = [told EXCEPT ![q] = @ \cup {slot[req[w].entry].teacher}]
        \/ told' = told
     /\ \/ /\ change[q].status = "approved"
           /\ Start(w, Ask("approve", "refresh", req[w].entry, "none"))
        \/ /\ change[q].status # "approved"
           /\ Finish(w)
     /\ UNCHANGED <<rows, notice>>

-----------------------------------------------------------------------------
\* The request dies, or a dispatch fails and is only logged: what has not
\* been committed by then is lost.
Abort(w) == ~ Idle(w) /\ Refuse(w)

Edit(w) ==
  \/ \E s \in Payloads : CreateEntry(w, s) \/ \E x \in Entries : UpdateEntry(w, x, s)
  \/ CheckConflicts(w)
  \/ \E x \in Entries : CommitCreate(w, x) \/ DeleteEntry(w, x)
  \/ CommitUpdate(w) \/ CommitDelete(w)
  \/ Refresh(w) \/ NotifyScheduleChange(w)

Asking(w) ==
  \/ \E x \in Entries, c \in Wishes : AskChange(w, x, c)
  \/ \E q \in Requests : CommitAsk(w, q)

Resolving(w) ==
  \/ \E q \in Requests : ResolveChangeRequest(w, q)
  \/ LoadEntry(w) \/ CommitResolve(w) \/ AnswerTeacher(w)

Requesting(w) == Asking(w) \/ Resolving(w)

Next == \E w \in Workers : Edit(w) \/ Requesting(w) \/ Abort(w)

Spec == Init /\ [][Next]_vars

-----------------------------------------------------------------------------
(***************************************************************************)
(* The same system with one admin who waits for each answer.  Teachers'    *)
(* requests still run in parallel with the admin's.                        *)
(***************************************************************************)
OneAdmin ==
  \A v, w \in Workers :
    v # w /\ ~ Idle(v) /\ ~ Idle(w) => req[v].op = "ask" \/ req[w].op = "ask"

OneAdminSpec == Init /\ [][Next /\ OneAdmin']_vars

-----------------------------------------------------------------------------
(***************************************************************************)
(* What holds whatever runs in parallel.                                   *)
(***************************************************************************)

\* A change request always has its entry, however deletions and requests
\* interleave, and a class announced as cancelled is gone from the timetable.
RequestsResolve ==
  /\ \A q \in DOMAIN change : change[q].entry \in DOMAIN slot
  /\ \A x \in Entries : notice[x] = "cancelled" => x \notin DOMAIN slot

(***************************************************************************)
(* What holds with one admin, and is refuted without that.                 *)
(***************************************************************************)

\* BR-005 and NFR-015: no two entries claim the same room or the same
\* teacher at overlapping times.
NoDoubleBooking ==
  \A x, y \in DOMAIN slot : x # y => ~ Conflict(slot[x], slot[y])

\* VR-007: every entry starts before it ends, although create, update and
\* approve each check only the values they have read.
ValidTimes == \A x \in DOMAIN slot : Valid(slot[x])

\* A change request is resolved once: its decision never changes.
ResolvedOnce ==
  [][\A q \in DOMAIN change :
       change[q].status # "pending" => q \in DOMAIN change' /\ change'[q] = change[q]]_vars

\* Notices do not overtake each other: one that says where a class has moved
\* is never sent when the class has meanwhile moved somewhere else.
NoticesInOrder ==
  [][\A x \in DOMAIN slot :
       notice'[x] # notice[x] => notice'[x] \in {slot[x].room, "cancelled"}]_vars

\* The timetable as an abstract machine that never admits a clash.
Abstract == INSTANCE Timetable WITH
  booked <- slot, Bookings <- Entries, Slots <- Slot, Sound <- Valid, Clash <- Conflict

TimetableSpec == Abstract!Spec

(***************************************************************************)
(* What fails even then.                                                   *)
(***************************************************************************)

\* The outcome of a change request is told to the teacher who made it, and
\* to nobody else.
OutcomeToldToRequester ==
  \A q \in DOMAIN change : told[q] \subseteq {change[q].by}
=============================================================================
