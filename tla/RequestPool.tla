----------------------------- MODULE RequestPool -----------------------------
(***************************************************************************)
(* How requests share the threads and the database connections of the one  *)
(* server process.  FastAPI runs every `def` dependency and endpoint in a  *)
(* thread, taken for that job only; the SQLAlchemy session of a request    *)
(* takes a connection at its first statement and keeps it until it commits *)
(* or is closed (db/session.py), so through the wait for the next thread.  *)
(* A successful answer is sent first and the session closed afterwards; an *)
(* error is answered when the session has been closed.  There are          *)
(* more threads than connections.  An `async def` endpoint runs on the     *)
(* event loop and holds it up: until it returns, no request is handed on.  *)
(***************************************************************************)
EXTENDS Naturals, Sequences, FiniteSets

CONSTANTS
  Requests,        \* each is sent once
  Threads,         \* the threads: 40 unless configured
  Conns,           \* pool_size and max_overflow: 15 unless configured
  MaxTransactions  \* bound: the transactions one endpoint ends

Nobody == "nobody"

ASSUME PoolAssumption == /\ Threads \in Nat \ {0} /\ Conns \in Nat \ {0}
                         /\ MaxTransactions \in Nat \ {0}
                         /\ IsFiniteSet(Requests) /\ Nobody \notin Requests

VARIABLES
  req,    \* the state of each request
  line,   \* the requests waiting for a thread, in order
  loop    \* the request that runs on the event loop, or Nobody

vars == <<req, line, loop>>

(* The jobs of a request: get_db makes the session, the user is looked up, *)
(* the role compared where the endpoint asks for one, the endpoint runs in *)
(* a thread and its response is validated in another; or it runs on the    *)
(* event loop and has the document made in a thread.  A login is counted   *)
(* first; neither it nor a refresh looks up the user beforehand.           *)
Plan == [health   |-> <<"session", "probe", "respond">>,
         login    |-> <<"limit", "session", "endpoint", "respond">>,
         open     |-> <<"session", "endpoint", "respond">>,
         personal |-> <<"session", "user", "endpoint", "respond">>,
         guarded  |-> <<"session", "user", "role", "endpoint", "respond">>,
         document |-> <<"session", "user", "loop", "document">>,
         export   |-> <<"session", "user", "role", "loop", "document">>]

Unsent == [at |-> "unsent", todo |-> << >>, thread |-> FALSE, conn |-> FALSE,
           transactions |-> 0, answered |-> FALSE]

Job(r) == Head(req[r].todo)
UsesDatabase(job) == job \in {"user", "probe", "endpoint", "loop"}

BusyThreads == {r \in Requests : req[r].thread}
HeldConns == {r \in Requests : req[r].conn}

(* What may be left of a plan.                                             *)
Todos ==
  { << >>, <<"respond">>,
    <<"probe", "respond">>, <<"session", "probe", "respond">>,
    <<"endpoint", "respond">>, <<"session", "endpoint", "respond">>,
    <<"limit", "session", "endpoint", "respond">>,
    <<"user", "endpoint", "respond">>, <<"session", "user", "endpoint", "respond">>,
    <<"role", "endpoint", "respond">>, <<"user", "role", "endpoint", "respond">>,
    <<"session", "user", "role", "endpoint", "respond">>,
    <<"document">>, <<"loop", "document">>, <<"user", "loop", "document">>,
    <<"session", "user", "loop", "document">>,
    <<"role", "loop", "document">>, <<"user", "role", "loop", "document">>,
    <<"session", "user", "role", "loop", "document">> }

Running == {"needs_conn", "working", "unconnected"}

Request == [at           : {"unsent", "queued", "answering", "closing", "refusing", "done"} \cup Running,
            todo         : Todos,
            thread       : BOOLEAN,
            conn         : BOOLEAN,
            transactions : 0..MaxTransactions,
            answered     : BOOLEAN]

InLine(r, queue) == \E i \in DOMAIN queue : queue[i] = r

TypeOK ==
  /\ req \in [Requests -> Request]
  /\ line \in Seq(Requests)
  /\ loop \in Requests \cup {Nobody}
  /\ Cardinality(BusyThreads) <= Threads
  /\ Cardinality(HeldConns) <= Conns
  /\ \A r \in Requests :
       /\ req[r].at \in Running => (req[r].thread <=> loop # r)
       /\ InLine(r, line) <=> req[r].at = "queued" /\ Job(r) # "loop"

Init ==
  /\ req = [r \in Requests |-> Unsent]
  /\ line = << >> /\ loop = Nobody

-----------------------------------------------------------------------------
(* The request waits for its next job, or to be answered.                  *)
Advance(r, todo, conn) ==
  /\ req' = [req EXCEPT ![r] = [Unsent EXCEPT !.at = IF todo = << >> THEN "answering" ELSE "queued",
                                              !.todo = todo, !.conn = conn]]
  /\ line' = IF todo # << >> /\ Head(todo) # "loop" THEN Append(line, r) ELSE line

(* A job raises: the session is closed first.                              *)
Fail(r) ==
  /\ req' = [req EXCEPT ![r] = [Unsent EXCEPT !.at = "closing", !.conn = req[r].conn]]
  /\ UNCHANGED line

Arrive(r) ==
  /\ req[r].at = "unsent" /\ loop = Nobody
  /\ \E kind \in DOMAIN Plan : Advance(r, Plan[kind], FALSE)
  /\ UNCHANGED loop

Begun(r) == IF UsesDatabase(Job(r)) /\ ~ req[r].conn THEN "needs_conn" ELSE "working"

(* CapacityLimiter hands the threads out in order, by the event loop.      *)
GetThread(r) ==
  /\ loop = Nobody
  /\ line # << >> /\ r = Head(line) /\ Cardinality(BusyThreads) < Threads
  /\ req' = [req EXCEPT ![r].at = Begun(r), ![r].thread = TRUE]
  /\ line' = Tail(line)
  /\ UNCHANGED loop

RunOnLoop(r) ==
  /\ loop = Nobody /\ req[r].at = "queued" /\ Job(r) = "loop"
  /\ req' = [req EXCEPT ![r].at = Begun(r)]
  /\ loop' = r
  /\ UNCHANGED line

(* The thread, or the event loop, blocks until there is a connection.      *)
GetConnection(r) ==
  /\ req[r].at = "needs_conn" /\ Cardinality(HeldConns) < Conns
  /\ req' = [req EXCEPT ![r].at = "working", ![r].conn = TRUE]
  /\ UNCHANGED <<line, loop>>

(* pool_timeout, 30 seconds: TimeoutError.                                 *)
Expires(r) == Cardinality(HeldConns) = Conns

(* Health answers "unreachable"; a notice, which is sent after a commit,   *)
(* is rolled back and given up, and the endpoint goes on (_safe_dispatch). *)
Caught(r) ==
  /\ Job(r) = "probe" \/ (Job(r) = "endpoint" /\ req[r].transactions > 0)
  /\ req[r].transactions < MaxTransactions

(* The timeout is caught, or answered 500: before the first commit, or     *)
(* when a committed row is read again.                                     *)
GiveUp(r) ==
  /\ req[r].at = "needs_conn" /\ Expires(r)
  /\ \/ /\ Caught(r)
        /\ req' = [req EXCEPT ![r].at = "unconnected", ![r].transactions = @ + 1]
        /\ UNCHANGED <<line, loop>>
     \/ /\ Job(r) # "probe" /\ Fail(r)
        /\ loop' = IF loop = r THEN Nobody ELSE loop

(* An endpoint commits: the session gives its connection back.             *)
Commit(r) ==
  /\ req[r].at = "working" /\ Job(r) = "endpoint" /\ req[r].transactions < MaxTransactions
  /\ req' = [req EXCEPT ![r].at = "unconnected", ![r].conn = FALSE, ![r].transactions = @ + 1]
  /\ UNCHANGED <<line, loop>>

(* session.refresh, or the next notice.                                    *)
UseAgain(r) ==
  /\ req[r].at = "unconnected" /\ Job(r) = "endpoint"
  /\ req' = [req EXCEPT ![r].at = "needs_conn"]
  /\ UNCHANGED <<line, loop>>

\* Mutant: the lookup of the user has a session of its own.
KeptNotByUser(r) == req[r].conn /\ Job(r) # "user"

(* What the session holds stays held between two jobs.                     *)
Kept(r) == req[r].conn

\* Mutant: the endpoint waits for the document on the event loop.
ReturnWaiting(r) ==
  /\ req[r].at \in {"working", "unconnected"} /\ loop \in {Nobody, r}
  /\ \/ Advance(r, Tail(req[r].todo), Kept(r))
     \/ Job(r) = "endpoint" /\ Advance(r, << >>, Kept(r))
     \/ Fail(r)
  /\ loop' = IF Job(r) = "loop" THEN loop ELSE Nobody

(* The job returns: on with the next one; an answer without a body (204)   *)
(* is not validated.  Or it raises (401, 403, 404...).                     *)
Return(r) ==
  /\ req[r].at \in {"working", "unconnected"} /\ loop \in {Nobody, r}
  /\ \/ Advance(r, Tail(req[r].todo), Kept(r))
     \/ Job(r) = "endpoint" /\ Advance(r, << >>, Kept(r))
     \/ Fail(r)
  /\ loop' = Nobody

(* A success is answered before its session is closed, an error after.     *)
Answer(r) ==
  /\ req[r].at \in {"answering", "refusing"} /\ loop = Nobody
  /\ req' = [req EXCEPT ![r].at = IF @ = "answering" THEN "closing" ELSE "done",
                        ![r].answered = TRUE]
  /\ UNCHANGED <<line, loop>>

Closed(r) == IF req[r].answered THEN "done" ELSE "refusing"

\* Mutant: get_db closes the session without a `finally`.
CloseOnSuccess(r) ==
  /\ req[r].at = "closing" /\ loop = Nobody
  /\ req' = [req EXCEPT ![r].at = Closed(r), ![r].conn = @ /\ ~ req[r].answered]
  /\ UNCHANGED <<line, loop>>

(* get_db closes the session, in a thread outside the limit.               *)
Close(r) ==
  /\ req[r].at = "closing" /\ loop = Nobody
  /\ req' = [req EXCEPT ![r].at = Closed(r), ![r].conn = FALSE]
  /\ UNCHANGED <<line, loop>>

Step(r) ==
  \/ GetThread(r) \/ RunOnLoop(r) \/ GetConnection(r) \/ GiveUp(r)
  \/ Commit(r) \/ UseAgain(r) \/ Return(r) \/ Answer(r) \/ Close(r)

Next == \E r \in Requests : Arrive(r) \/ Step(r)

(* A job under way runs on, a free thread or connection is taken, the pool *)
(* gives up waiting in time.  Nobody has to send a request.                *)
Spec == Init /\ [][Next]_vars /\ \A r \in Requests : WF_vars(Step(r))

-----------------------------------------------------------------------------
(* Threads that wait for a connection and connections that wait for a      *)
(* thread may block each other; the pool's timeout breaks the circle.      *)
(* Every request is answered in the end.                                   *)
EveryRequestAnswered == \A r \in Requests : (req[r].at = "queued") ~> req[r].answered

(* A connection comes back to the pool for good, however the request ends: *)
(* when it is waiting for a thread of its own, refused, timed out between  *)
(* two commits, or answered already while its session is still open.       *)
ConnectionComesBack == \A r \in Requests : req[r].conn ~> [](~ req[r].conn)

(* Code on the event loop never waits for a connection, which would stop   *)
(* every other request as well: its session has had one since the user was *)
(* looked up.                                                              *)
LoopNeverWaits == loop # Nobody => req[loop].conn
=============================================================================
