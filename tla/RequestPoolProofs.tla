-------------------------- MODULE RequestPoolProofs --------------------------
(***************************************************************************)
(* Proofs about RequestPool, for any number of requests, threads,          *)
(* connections and transactions.                                           *)
(***************************************************************************)
EXTENDS RequestPool, FiniteSetTheorems, TLAPS

USE DEF Running

(* The user has been looked up and code on the event loop is still to run. *)
LoopComing == {<<"loop", "document">>, <<"role", "loop", "document">>}

(* What the steps do with what is left of a plan.                          *)
GoesOn(t) ==
  /\ Tail(t) \in Todos
  /\ Tail(t) \in LoopComing => Head(t) = "user" \/ t \in LoopComing
  /\ Head(t) = "loop" => t \in LoopComing
  /\ Head(t) \in {"probe", "endpoint"} => Tail(t) \notin LoopComing
  /\ t \in LoopComing => Head(t) \notin {"probe", "endpoint"}

LEMMA TodoFacts ==
  ASSUME NEW t \in Todos, t # << >>
  PROVE  GoesOn(t)
<1>1. CASE t = <<"respond">>
  BY <1>1 DEF GoesOn, Todos, LoopComing
<1>2. CASE t = <<"probe", "respond">>
  BY <1>2 DEF GoesOn, Todos, LoopComing
<1>3. CASE t = <<"session", "probe", "respond">>
  BY <1>3 DEF GoesOn, Todos, LoopComing
<1>4. CASE t = <<"endpoint", "respond">>
  BY <1>4 DEF GoesOn, Todos, LoopComing
<1>5. CASE t = <<"session", "endpoint", "respond">>
  BY <1>5 DEF GoesOn, Todos, LoopComing
<1>6. CASE t = <<"limit", "session", "endpoint", "respond">>
  BY <1>6 DEF GoesOn, Todos, LoopComing
<1>7. CASE t = <<"user", "endpoint", "respond">>
  BY <1>7 DEF GoesOn, Todos, LoopComing
<1>8. CASE t = <<"session", "user", "endpoint", "respond">>
  BY <1>8 DEF GoesOn, Todos, LoopComing
<1>9. CASE t = <<"role", "endpoint", "respond">>
  BY <1>9 DEF GoesOn, Todos, LoopComing
<1>10. CASE t = <<"user", "role", "endpoint", "respond">>
  BY <1>10 DEF GoesOn, Todos, LoopComing
<1>11. CASE t = <<"session", "user", "role", "endpoint", "respond">>
  BY <1>11 DEF GoesOn, Todos, LoopComing
<1>12. CASE t = <<"document">>
  BY <1>12 DEF GoesOn, Todos, LoopComing
<1>13. CASE t = <<"loop", "document">>
  BY <1>13 DEF GoesOn, Todos, LoopComing
<1>14. CASE t = <<"user", "loop", "document">>
  BY <1>14 DEF GoesOn, Todos, LoopComing
<1>15. CASE t = <<"session", "user", "loop", "document">>
  BY <1>15 DEF GoesOn, Todos, LoopComing
<1>16. CASE t = <<"role", "loop", "document">>
  BY <1>16 DEF GoesOn, Todos, LoopComing
<1>17. CASE t = <<"user", "role", "loop", "document">>
  BY <1>17 DEF GoesOn, Todos, LoopComing
<1>18. CASE t = <<"session", "user", "role", "loop", "document">>
  BY <1>18 DEF GoesOn, Todos, LoopComing
<1>19. QED
  BY <1>1, <1>2, <1>3, <1>4, <1>5, <1>6, <1>7, <1>8, <1>9, <1>10, <1>11,
     <1>12, <1>13, <1>14, <1>15, <1>16, <1>17, <1>18 DEF Todos

LEMMA PlanFacts ==
  ASSUME NEW kind \in DOMAIN Plan
  PROVE  Plan[kind] \in Todos /\ Plan[kind] # << >> /\ Plan[kind] \notin LoopComing
<1>1. kind \in {"health", "login", "open", "personal", "guarded", "document", "export"}
  BY DEF Plan
<1>2. CASE kind = "health"
  BY <1>2 DEF Plan, Todos, LoopComing
<1>3. CASE kind = "login"
  BY <1>3 DEF Plan, Todos, LoopComing
<1>4. CASE kind = "open"
  BY <1>4 DEF Plan, Todos, LoopComing
<1>5. CASE kind = "personal"
  BY <1>5 DEF Plan, Todos, LoopComing
<1>6. CASE kind = "guarded"
  BY <1>6 DEF Plan, Todos, LoopComing
<1>7. CASE kind = "document"
  BY <1>7 DEF Plan, Todos, LoopComing
<1>8. CASE kind = "export"
  BY <1>8 DEF Plan, Todos, LoopComing
<1>9. QED
  BY <1>1, <1>2, <1>3, <1>4, <1>5, <1>6, <1>7, <1>8

LEMMA NoTodo ==
  << >> \in Todos /\ << >> \notin LoopComing
BY DEF Todos, LoopComing

(***************************************************************************)
(* The inductive invariant of Spec.  Connected ties the connection a       *)
(* request holds to where it is in its plan: from the lookup of the user   *)
(* on, a request bound for the event loop has one.                         *)
(***************************************************************************)
Shape ==
  /\ req \in [Requests -> Request]
  /\ line \in Seq(Requests)
  /\ loop \in Requests \cup {Nobody}

Placed(r) ==
  /\ req[r].todo \in Todos
  /\ req[r].at \in {"queued"} \cup Running <=> req[r].todo # << >>
  /\ req[r].at \in Running => (req[r].thread <=> loop # r)
  /\ req[r].at = "queued" => ~ req[r].thread
  /\ loop = r => req[r].at = "working" /\ req[r].todo \in LoopComing

Connected(r) ==
  /\ req[r].todo \in LoopComing => req[r].conn
  /\ req[r].at = "working" /\ UsesDatabase(Job(r)) => req[r].conn
  /\ req[r].at = "unconnected" => Job(r) \in {"probe", "endpoint"}
  /\ req[r].at \in {"unsent", "needs_conn", "unconnected"} => ~ req[r].conn

Counted ==
  /\ Cardinality(BusyThreads) <= Threads
  /\ Cardinality(HeldConns) <= Conns

Distinct(q) == \A i, j \in DOMAIN q : q[i] = q[j] => i = j

Waiting(r) == InLine(r, line) <=> req[r].at = "queued" /\ Job(r) # "loop"

PoolInv ==
  /\ Shape /\ Counted /\ Distinct(line)
  /\ \A r \in Requests : Placed(r) /\ Connected(r) /\ Waiting(r)

-----------------------------------------------------------------------------
(* Sequences without repetition: the line.                                 *)
LEMMA LineAppend ==
  ASSUME NEW r \in Requests, NEW q \in Seq(Requests), ~ InLine(r, q), Distinct(q)
  PROVE  /\ Append(q, r) \in Seq(Requests)
         /\ Distinct(Append(q, r))
         /\ \A p \in Requests : InLine(p, Append(q, r)) <=> p = r \/ InLine(p, q)
<1> DEFINE a == Append(q, r)
<1>1. /\ a \in Seq(Requests) /\ Len(a) = Len(q) + 1 /\ Len(q) \in Nat
      /\ DOMAIN q = 1..Len(q) /\ DOMAIN a = 1..Len(a)
      /\ a[Len(q) + 1] = r /\ \A i \in 1..Len(q) : a[i] = q[i]
  OBVIOUS
<1> HIDE DEF a
<1>2. \A i \in DOMAIN a : (i \in DOMAIN q /\ a[i] = q[i]) \/ (i = Len(q) + 1 /\ a[i] = r)
  BY <1>1
<1>3. Distinct(a)
  BY <1>2 DEF InLine, Distinct
<1>4. ASSUME NEW p \in Requests PROVE InLine(p, a) <=> p = r \/ InLine(p, q)
  <2>2. InLine(p, a) => p = r \/ InLine(p, q)
    BY <1>2 DEF InLine
  <2>3. p = r => InLine(p, a)
    BY <1>1 DEF InLine
  <2>4. InLine(p, q) => InLine(p, a)
    BY <1>1 DEF InLine
  <2>5. QED
    BY <2>2, <2>3, <2>4
<1>5. QED
  BY <1>1, <1>3, <1>4 DEF a

LEMMA LineTail ==
  ASSUME NEW q \in Seq(Requests), q # << >>, Distinct(q)
  PROVE  /\ Tail(q) \in Seq(Requests)
         /\ Distinct(Tail(q))
         /\ InLine(Head(q), q) /\ ~ InLine(Head(q), Tail(q))
         /\ \A p \in Requests : p # Head(q) => (InLine(p, Tail(q)) <=> InLine(p, q))
<1> DEFINE a == Tail(q)
<1>1. /\ a \in Seq(Requests) /\ Len(q) \in Nat \ {0} /\ Len(a) = Len(q) - 1
      /\ DOMAIN q = 1..Len(q) /\ DOMAIN a = 1..Len(a)
      /\ Head(q) = q[1] /\ \A i \in DOMAIN a : a[i] = q[i + 1]
  OBVIOUS
<1> HIDE DEF a
<1>2. \A i \in DOMAIN a : i + 1 \in DOMAIN q /\ i + 1 # 1
  BY <1>1
<1>3. Distinct(a)
  BY <1>1, <1>2 DEF Distinct
<1>4. InLine(Head(q), q) /\ ~ InLine(Head(q), a)
  BY <1>1, <1>2 DEF InLine, Distinct
<1>5. ASSUME NEW p \in Requests, p # Head(q) PROVE InLine(p, a) <=> InLine(p, q)
  <2>1. InLine(p, a) => InLine(p, q)
    BY <1>1, <1>2 DEF InLine
  <2>2. ASSUME NEW i \in DOMAIN q, q[i] = p PROVE InLine(p, a)
    <3>1. i # 1
      BY <1>5, <2>2, <1>1
    <3>2. i - 1 \in DOMAIN a /\ a[i - 1] = q[i]
      BY <3>1, <1>1
    <3>3. QED
      BY <3>2, <2>2 DEF InLine
  <2>3. QED
    BY <2>1, <2>2 DEF InLine
<1>6. QED
  BY <1>1, <1>3, <1>4, <1>5 DEF a

(* The numbers of threads and connections in use, where the step of one    *)
(* request takes none, or the last one that is free.                       *)
LEMMA FewerOrOneMore ==
  ASSUME NEW r \in Requests, NEW S \in SUBSET Requests, NEW T \in SUBSET Requests,
         NEW N \in Nat, T \subseteq S \cup {r}, Cardinality(S) <= N,
         r \in T => r \in S \/ Cardinality(S) < N
  PROVE  Cardinality(T) <= N
<1>1. IsFiniteSet(S) /\ Cardinality(S) \in Nat
  BY FS_Subset, FS_CardinalityType, PoolAssumption
<1>2. CASE T \subseteq S
  <2>1. Cardinality(T) <= Cardinality(S) /\ IsFiniteSet(T)
    BY <1>1, <1>2, FS_Subset
  <2>2. QED
    BY <1>1, <2>1, FS_CardinalityType
<1>3. CASE ~ (T \subseteq S)
  <2>1. r \notin S /\ Cardinality(S) < N
    BY <1>3
  <2>2. IsFiniteSet(S \cup {r}) /\ Cardinality(S \cup {r}) = Cardinality(S) + 1
    BY <1>1, <2>1, FS_AddElement
  <2>3. Cardinality(T) <= Cardinality(S \cup {r}) /\ IsFiniteSet(T)
    BY <2>2, FS_Subset
  <2>4. QED
    BY <1>1, <2>1, <2>2, <2>3, FS_CardinalityType
<1>4. QED
  BY <1>2, <1>3

-----------------------------------------------------------------------------
(* A step of r changes the state of r alone, puts it in the line or takes  *)
(* it out, and takes no thread or connection, or one that is free.         *)
StepOf(r, ask) ==
  /\ ask \in Request /\ req' = [req EXCEPT ![r] = ask]
  /\ \A q \in Requests \ {r} : /\ loop' = q <=> loop = q
                               /\ InLine(q, line') <=> InLine(q, line)
  /\ loop' \in Requests \cup {Nobody} /\ line' \in Seq(Requests) /\ Distinct(line')
  /\ ask.thread => req[r].thread \/ Cardinality(BusyThreads) < Threads
  /\ ask.conn => req[r].conn \/ Cardinality(HeldConns) < Conns

LEMMA Frame ==
  ASSUME PoolInv, NEW r \in Requests, NEW ask, StepOf(r, ask),
         Placed(r)', Connected(r)', Waiting(r)'
  PROVE  PoolInv'
<1>1. req' \in [Requests -> Request] /\ req'[r] = ask /\ \A q \in Requests \ {r} : req'[q] = req[q]
  BY DEF PoolInv, Shape, StepOf
<1>2. Shape' /\ Distinct(line')
  BY <1>1 DEF StepOf, Shape
<1>3. Cardinality(BusyThreads') <= Threads
  <2>1. BusyThreads' \subseteq BusyThreads \cup {r} /\ BusyThreads \subseteq Requests
    BY <1>1 DEF BusyThreads
  <2>2. r \in BusyThreads' => r \in BusyThreads \/ Cardinality(BusyThreads) < Threads
    BY <1>1 DEF BusyThreads, StepOf
  <2>3. BusyThreads' \subseteq Requests /\ Cardinality(BusyThreads) <= Threads /\ Threads \in Nat
    BY PoolAssumption DEF BusyThreads, PoolInv, Counted
  <2> HIDE DEF BusyThreads
  <2>4. QED
    BY <2>1, <2>2, <2>3, FewerOrOneMore
<1>4. Cardinality(HeldConns') <= Conns
  <2>1. HeldConns' \subseteq HeldConns \cup {r} /\ HeldConns \subseteq Requests
    BY <1>1 DEF HeldConns
  <2>2. r \in HeldConns' => r \in HeldConns \/ Cardinality(HeldConns) < Conns
    BY <1>1 DEF HeldConns, StepOf
  <2>3. HeldConns' \subseteq Requests /\ Cardinality(HeldConns) <= Conns /\ Conns \in Nat
    BY PoolAssumption DEF HeldConns, PoolInv, Counted
  <2> HIDE DEF HeldConns
  <2>4. QED
    BY <2>1, <2>2, <2>3, FewerOrOneMore
<1>5. ASSUME NEW q \in Requests, q # r PROVE Placed(q)' /\ Connected(q)' /\ Waiting(q)'
  <2>1. req'[q] = req[q] /\ Placed(q) /\ Connected(q) /\ Waiting(q)
    BY <1>1, <1>5 DEF PoolInv
  <2>2. (loop' = q <=> loop = q) /\ (InLine(q, line') <=> InLine(q, line))
    BY <1>5 DEF StepOf
  <2>3. Placed(q)'
    BY <2>1, <2>2 DEF Placed
  <2>4. Connected(q)'
    BY <2>1 DEF Connected, Job
  <2>5. Waiting(q)'
    BY <2>1, <2>2 DEF Waiting, Job
  <2>6. QED
    BY <2>3, <2>4, <2>5
<1>6. QED
  BY <1>2, <1>3, <1>4, <1>5 DEF PoolInv, Counted

(* The requests are records, and so is one that goes on.                   *)
LEMMA RequestFacts ==
  ASSUME PoolInv, NEW r \in Requests
  PROVE  /\ req[r] \in Request
         /\ Placed(r) /\ Connected(r) /\ Waiting(r)
         /\ r # Nobody
         /\ req[r].todo # << >> => GoesOn(req[r].todo)
<1>1. req[r] \in Request /\ Placed(r) /\ Connected(r) /\ Waiting(r) /\ r # Nobody
  BY PoolAssumption DEF PoolInv, Shape
<1>2. QED
  BY <1>1, TodoFacts DEF Placed

LEMMA UnsentFacts ==
  /\ Unsent \in Request /\ Unsent.at = "unsent" /\ Unsent.todo = << >>
  /\ Unsent.conn = FALSE /\ Unsent.thread = FALSE
BY NoTodo, PoolAssumption DEF Unsent, Request

LEMMA InitInv ==
  ASSUME Init
  PROVE  PoolInv
<1>1. Unsent \in Request /\ Unsent.at = "unsent" /\ Unsent.todo = << >> /\ ~ Unsent.conn
  BY UnsentFacts
<1>2. \A r \in Requests : req[r] = Unsent
  BY DEF Init
<1>3. Shape /\ Distinct(line) /\ \A r \in Requests : ~ InLine(r, line)
  BY <1>1 DEF Init, Shape, Distinct, InLine
<1>4. BusyThreads = {} /\ HeldConns = {}
  BY <1>2, UnsentFacts DEF BusyThreads, HeldConns
<1>5. Counted
  BY <1>4, FS_EmptySet, PoolAssumption DEF Counted
<1>6. ASSUME NEW r \in Requests PROVE Placed(r) /\ Connected(r) /\ Waiting(r)
  <2>1. loop # r
    BY PoolAssumption DEF Init
  <2>2. QED
    BY <1>1, <1>2, <1>3, <2>1, NoTodo DEF Placed, Connected, Waiting
<1>7. QED
  BY <1>3, <1>5, <1>6 DEF PoolInv

(* On with the next job, or to the end.                                    *)
LEMMA AdvanceInv ==
  ASSUME PoolInv, NEW r \in Requests, NEW todo \in Todos, NEW conn \in BOOLEAN,
         Advance(r, todo, conn), req[r].at # "queued",
         loop \in {Nobody, r}, loop' = Nobody,
         todo \in LoopComing => conn, conn => req[r].conn
  PROVE  PoolInv'
<1> DEFINE at == IF todo = << >> THEN "answering" ELSE "queued"
           ask == [Unsent EXCEPT !.at = at, !.todo = todo, !.conn = conn]
<1>3. req' = [req EXCEPT ![r] = ask] /\ at \in {"answering", "queued"}
  BY DEF Advance
<1>2. at = IF todo = << >> THEN "answering" ELSE "queued"
  OBVIOUS
<1> HIDE DEF at
<1>1. /\ ask \in Request /\ ask.at = at /\ ask.todo = todo /\ ask.conn = conn
      /\ ask.thread = FALSE
  BY <1>3, UnsentFacts DEF Request
<1> HIDE DEF ask
<1>4. ~ InLine(r, line) /\ r # Nobody /\ line \in Seq(Requests) /\ Distinct(line) /\ loop' # r
  BY RequestFacts DEF Waiting, PoolInv, Shape
<1>5. /\ line' \in Seq(Requests) /\ Distinct(line')
      /\ \A q \in Requests : InLine(q, line') <=> InLine(q, line) \/ (q = r /\ todo # << >> /\ Head(todo) # "loop")
  BY <1>4, LineAppend DEF Advance
<1>6. StepOf(r, ask)
  <2>1. ASSUME NEW q \in Requests \ {r} PROVE (loop' = q <=> loop = q) /\ (InLine(q, line') <=> InLine(q, line))
    BY <1>5, PoolAssumption
  <2>2. QED
    BY <1>1, <1>3, <1>5, <2>1 DEF StepOf
<1>7. req'[r] = ask
  BY <1>3 DEF PoolInv, Shape
<1>8. Placed(r)' /\ Connected(r)'
  BY <1>1, <1>2, <1>4, <1>7 DEF Placed, Connected
<1>9. Waiting(r)'
  BY <1>1, <1>2, <1>4, <1>5, <1>7 DEF Waiting, Job
<1>10. QED
  BY <1>6, <1>8, <1>9, Frame

(* The request stays where it is in its plan: only at, thread, conn and    *)
(* transactions change.                                                    *)
LEMMA MoveInv ==
  ASSUME PoolInv, NEW r \in Requests, NEW ask \in Request,
         req' = [req EXCEPT ![r] = ask], ask.todo = req[r].todo, ask.todo # << >>,
         ask.at \in Running,
         ask.at = "working" => ask.conn \/ ~ UsesDatabase(Job(r)),
         ask.at \in {"needs_conn", "unconnected"} => ~ ask.conn,
         ask.at = "unconnected" => Job(r) \in {"probe", "endpoint"},
         ask.todo \in LoopComing => ask.conn,
         ask.thread <=> loop' # r,
         loop' = r => ask.at = "working" /\ ask.todo \in LoopComing,
         loop' \in Requests \cup {Nobody}, \A q \in Requests \ {r} : loop' = q <=> loop = q,
         line' \in Seq(Requests), Distinct(line'), ~ InLine(r, line'),
         \A q \in Requests \ {r} : InLine(q, line') <=> InLine(q, line),
         ask.thread => req[r].thread \/ Cardinality(BusyThreads) < Threads,
         ask.conn => req[r].conn \/ Cardinality(HeldConns) < Conns
  PROVE  PoolInv'
<1>1. StepOf(r, ask)
  BY DEF StepOf
<1>2. req'[r] = ask /\ Placed(r)
  BY RequestFacts DEF PoolInv, Shape
<1>3. Placed(r)'
  BY <1>2 DEF Placed
<1>4. Connected(r)'
  BY <1>2 DEF Connected, Job
<1>5. Waiting(r)'
  BY <1>2 DEF Waiting
<1>6. QED
  BY <1>1, <1>3, <1>4, <1>5, Frame

LEMMA ArriveInv ==
  ASSUME PoolInv, NEW r \in Requests, Arrive(r)
  PROVE  PoolInv'
<1>1. PICK kind \in DOMAIN Plan : Advance(r, Plan[kind], FALSE)
  BY DEF Arrive
<1>2. Plan[kind] \in Todos /\ Plan[kind] \notin LoopComing
  BY PlanFacts
<1>3. QED
  BY <1>1, <1>2, AdvanceInv DEF Arrive

LEMMA GetThreadInv ==
  ASSUME PoolInv, NEW r \in Requests, GetThread(r)
  PROVE  PoolInv'
<1> DEFINE ask == [req[r] EXCEPT !.at = Begun(r), !.thread = TRUE]
<1>1. req[r] \in Request /\ Placed(r) /\ Connected(r) /\ Waiting(r) /\ r # Nobody
  BY RequestFacts
<1>2. /\ line' \in Seq(Requests) /\ Distinct(line') /\ ~ InLine(r, line')
      /\ \A q \in Requests \ {r} : InLine(q, line') <=> InLine(q, line)
      /\ InLine(r, line)
  BY LineTail DEF GetThread, PoolInv, Shape
<1>3. req[r].at = "queued" /\ Job(r) # "loop" /\ req[r].todo # << >>
  BY <1>1, <1>2 DEF Waiting, Placed
<1>4. Begun(r) \in {"needs_conn", "working"}
      /\ (Begun(r) = "needs_conn" => ~ req[r].conn)
      /\ (Begun(r) = "working" => req[r].conn \/ ~ UsesDatabase(Job(r)))
  BY DEF Begun
<1>5. /\ ask \in Request /\ ask.at = Begun(r) /\ ask.thread = TRUE
      /\ ask.todo = req[r].todo /\ ask.conn = req[r].conn
  BY <1>1, <1>4 DEF Request
<1>6. req' = [req EXCEPT ![r] = ask]
  BY <1>1 DEF GetThread, PoolInv, Shape
<1>7. loop = Nobody /\ loop' = loop /\ Cardinality(BusyThreads) < Threads
  BY DEF GetThread
<1> HIDE DEF ask
<1>8. QED
  BY <1>1, <1>2, <1>3, <1>4, <1>5, <1>6, <1>7, MoveInv DEF Connected

LEMMA RunOnLoopInv ==
  ASSUME PoolInv, NEW r \in Requests, RunOnLoop(r)
  PROVE  PoolInv'
<1> DEFINE ask == [req[r] EXCEPT !.at = Begun(r)]
<1>1. req[r] \in Request /\ Placed(r) /\ Connected(r) /\ Waiting(r) /\ r # Nobody
  BY RequestFacts
<1>2. loop = Nobody /\ loop' = r /\ line' = line /\ req[r].at = "queued" /\ Job(r) = "loop"
  BY DEF RunOnLoop
<1>3. req[r].todo # << >> /\ GoesOn(req[r].todo)
  BY <1>1, <1>2, RequestFacts DEF Placed
<1>4. req[r].todo \in LoopComing /\ req[r].conn
  BY <1>1, <1>2, <1>3 DEF GoesOn, Job, Connected
<1>5. Begun(r) = "working"
  BY <1>4 DEF Begun
<1>6. /\ ask \in Request /\ ask.at = "working" /\ ask.thread = req[r].thread
      /\ ask.todo = req[r].todo /\ ask.conn = req[r].conn
  BY <1>1, <1>5 DEF Request
<1>7. req' = [req EXCEPT ![r] = ask]
  BY <1>1 DEF RunOnLoop, PoolInv, Shape
<1>8. ~ InLine(r, line) /\ line \in Seq(Requests) /\ Distinct(line)
  BY <1>1, <1>2 DEF Waiting, PoolInv, Shape
<1>9. ~ req[r].thread
  BY <1>1, <1>2 DEF Placed
<1> HIDE DEF ask
<1>10. QED
  BY <1>1, <1>2, <1>3, <1>4, <1>6, <1>7, <1>8, <1>9, MoveInv, PoolAssumption

LEMMA GetConnectionInv ==
  ASSUME PoolInv, NEW r \in Requests, GetConnection(r)
  PROVE  PoolInv'
<1> DEFINE ask == [req[r] EXCEPT !.at = "working", !.conn = TRUE]
<1>1. req[r] \in Request /\ Placed(r) /\ Waiting(r)
  BY RequestFacts
<1>2. /\ req[r].at = "needs_conn" /\ loop' = loop /\ line' = line
      /\ Cardinality(HeldConns) < Conns
  BY DEF GetConnection
<1>3. ask \in Request /\ ask.at = "working" /\ ask.conn = TRUE
  BY <1>1 DEF Request
<1>4. ask.thread = req[r].thread /\ ask.todo = req[r].todo
  BY <1>1 DEF Request
<1>5. req' = [req EXCEPT ![r] = ask]
  BY <1>1 DEF GetConnection, PoolInv, Shape
<1> HIDE DEF ask
<1>6. ~ InLine(r, line) /\ line \in Seq(Requests) /\ Distinct(line) /\ loop \in Requests \cup {Nobody}
  BY <1>1, <1>2 DEF Waiting, PoolInv, Shape
<1>7. ask.todo # << >> /\ (ask.thread <=> loop' # r) /\ loop # r
  BY <1>1, <1>2, <1>4 DEF Placed
<1>8. QED
  BY <1>2, <1>3, <1>4, <1>5, <1>6, <1>7, MoveInv

(* A commit, or a caught timeout: the endpoint goes on without connection. *)
LEMMA UnconnectedInv ==
  ASSUME PoolInv, NEW r \in Requests, NEW ask,
         ask = [req[r] EXCEPT !.at = "unconnected", !.conn = FALSE, !.transactions = @ + 1],
         req' = [req EXCEPT ![r] = ask], UNCHANGED <<line, loop>>,
         req[r].at \in {"needs_conn", "working"}, Job(r) \in {"probe", "endpoint"},
         req[r].transactions < MaxTransactions
  PROVE  PoolInv'
<1>1. req[r] \in Request /\ Placed(r) /\ Waiting(r)
  BY RequestFacts
<1>2. req[r].transactions + 1 \in 0..MaxTransactions
  BY <1>1, PoolAssumption DEF Request
<1>3. ask \in Request /\ ask.at = "unconnected" /\ ask.conn = FALSE
  BY <1>1, <1>2 DEF Request
<1>4. ask.thread = req[r].thread /\ ask.todo = req[r].todo
  BY <1>1 DEF Request
<1>5. ~ InLine(r, line) /\ line \in Seq(Requests) /\ Distinct(line) /\ loop \in Requests \cup {Nobody}
  BY <1>1 DEF Waiting, PoolInv, Shape
<1>6. req[r].todo # << >> /\ req[r].todo \notin LoopComing
  BY <1>1, RequestFacts DEF Placed, GoesOn, Job
<1>7. loop # r /\ ask.thread
  BY <1>1, <1>4, <1>6 DEF Placed
<1>8. QED
  BY <1>3, <1>4, <1>5, <1>6, <1>7, MoveInv

LEMMA CommitInv ==
  ASSUME PoolInv, NEW r \in Requests, Commit(r)
  PROVE  PoolInv'
<1> DEFINE ask == [req[r] EXCEPT !.at = "unconnected", !.conn = FALSE, !.transactions = @ + 1]
<1>1. req' = [req EXCEPT ![r] = ask]
  BY RequestFacts DEF Commit, PoolInv, Shape, Request
<1>2. /\ ask = [req[r] EXCEPT !.at = "unconnected", !.conn = FALSE, !.transactions = @ + 1]
      /\ UNCHANGED <<line, loop>> /\ req[r].at = "working" /\ Job(r) = "endpoint"
      /\ req[r].transactions < MaxTransactions
  BY DEF Commit
<1> HIDE DEF ask
<1>3. QED
  BY <1>1, <1>2, UnconnectedInv

LEMMA UseAgainInv ==
  ASSUME PoolInv, NEW r \in Requests, UseAgain(r)
  PROVE  PoolInv'
<1> DEFINE ask == [req[r] EXCEPT !.at = "needs_conn"]
<1>1. req[r] \in Request /\ Placed(r) /\ Connected(r) /\ Waiting(r)
  BY RequestFacts
<1>2. req[r].at = "unconnected" /\ loop' = loop /\ line' = line
  BY DEF UseAgain
<1>3. /\ ask \in Request /\ ask.at = "needs_conn" /\ ask.conn = req[r].conn
      /\ ask.thread = req[r].thread /\ ask.todo = req[r].todo
  BY <1>1 DEF Request
<1>4. req' = [req EXCEPT ![r] = ask]
  BY <1>1 DEF UseAgain, PoolInv, Shape
<1> HIDE DEF ask
<1>5. ~ InLine(r, line) /\ line \in Seq(Requests) /\ Distinct(line) /\ loop \in Requests \cup {Nobody}
  BY <1>1, <1>2 DEF Waiting, PoolInv, Shape
<1>6. ask.todo # << >> /\ (ask.thread <=> loop' # r) /\ req[r].todo \notin LoopComing /\ loop # r
  BY <1>1, <1>2, <1>3, RequestFacts DEF Placed, GoesOn, Connected, Job
<1>7. ~ ask.conn
  BY <1>1, <1>2, <1>3 DEF Connected
<1>8. QED
  BY <1>2, <1>3, <1>4, <1>5, <1>6, <1>7, MoveInv

(* The plan is at its end: an error, the answer, the closed session.       *)
LEMMA EndInv ==
  ASSUME PoolInv, NEW r \in Requests, NEW ask \in Request,
         req' = [req EXCEPT ![r] = ask], ask.todo = << >>, ask.conn => req[r].conn,
         ask.at \in {"closing", "refusing", "done"}, ask.thread => req[r].thread,
         req[r].at # "queued", line' = line, loop' \in {loop, Nobody}, loop' # r,
         loop' = Nobody => loop \in {Nobody, r}
  PROVE  PoolInv'
<1>1. Waiting(r) /\ r # Nobody /\ line \in Seq(Requests) /\ Distinct(line)
      /\ loop \in Requests \cup {Nobody}
  BY RequestFacts DEF PoolInv, Shape
<1>2. ~ InLine(r, line)
  BY <1>1 DEF Waiting
<1>3. loop' \in Requests \cup {Nobody} /\ \A q \in Requests \ {r} : loop' = q <=> loop = q
  BY <1>1, PoolAssumption
<1>4. StepOf(r, ask)
  BY <1>1, <1>3 DEF StepOf
<1>5. req'[r] = ask
  BY DEF PoolInv, Shape
<1>6. Placed(r)' /\ Connected(r)' /\ Waiting(r)'
  BY <1>2, <1>5, NoTodo DEF Placed, Connected, Waiting
<1>7. QED
  BY <1>4, <1>6, Frame

LEMMA FailInv ==
  ASSUME PoolInv, NEW r \in Requests, Fail(r), req[r].at # "queued",
         loop' \in {loop, Nobody}, loop' # r, loop' = Nobody => loop \in {Nobody, r}
  PROVE  PoolInv'
<1> DEFINE ask == [Unsent EXCEPT !.at = "closing", !.conn = req[r].conn]
<1>1. /\ ask \in Request /\ ask.at = "closing" /\ ask.todo = << >>
      /\ ask.conn = req[r].conn /\ ask.thread = FALSE
  BY UnsentFacts, RequestFacts DEF Request
<1>2. req' = [req EXCEPT ![r] = ask] /\ line' = line
  BY DEF Fail
<1> HIDE DEF ask
<1>3. QED
  BY <1>1, <1>2, EndInv

LEMMA ReturnInv ==
  ASSUME PoolInv, NEW r \in Requests, Return(r)
  PROVE  PoolInv'
<1>1. req[r] \in Request /\ Placed(r) /\ Connected(r) /\ r # Nobody
  BY RequestFacts
<1>2. req[r].at \in {"working", "unconnected"} /\ loop \in {Nobody, r} /\ loop' = Nobody
  BY DEF Return
<1>3. req[r].todo # << >> /\ GoesOn(req[r].todo)
  BY <1>1, <1>2, RequestFacts DEF Placed
<1>4. Kept(r) \in BOOLEAN /\ (Kept(r) => req[r].conn)
  BY <1>1 DEF Kept, Request
<1>5. CASE Advance(r, Tail(req[r].todo), Kept(r))
  <2>1. Tail(req[r].todo) \in LoopComing => Kept(r)
    <3>1. CASE req[r].at = "unconnected"
      BY <1>1, <1>3, <3>1 DEF Connected, GoesOn, Job
    <3>2. CASE req[r].at = "working"
      BY <1>1, <1>3, <3>2 DEF Connected, GoesOn, Job, UsesDatabase, Kept
    <3>3. QED
      BY <1>2, <3>1, <3>2
  <2>2. QED
    BY <1>2, <1>3, <1>4, <1>5, <2>1, AdvanceInv DEF GoesOn
<1>6. CASE Advance(r, << >>, Kept(r))
  BY <1>2, <1>4, <1>6, NoTodo, AdvanceInv
<1>7. CASE Fail(r)
  BY <1>1, <1>2, <1>7, FailInv
<1>8. QED
  BY <1>5, <1>6, <1>7 DEF Return

LEMMA GiveUpInv ==
  ASSUME PoolInv, NEW r \in Requests, GiveUp(r)
  PROVE  PoolInv'
<1> DEFINE ask == [req[r] EXCEPT !.at = "unconnected", !.conn = FALSE, !.transactions = @ + 1]
<1>1. req[r] \in Request /\ Connected(r) /\ r # Nobody /\ req[r].at = "needs_conn"
  BY RequestFacts DEF GiveUp
<1>2. CASE Caught(r) /\ req' = [req EXCEPT ![r].at = "unconnected", ![r].transactions = @ + 1]
           /\ UNCHANGED <<line, loop>>
  <2>1. req[r].conn = FALSE
    BY <1>1 DEF Connected, Request
  <2>2. ask = [req[r] EXCEPT !.at = "unconnected", !.transactions = @ + 1]
    BY <1>1, <2>1 DEF Request
  <2>3. req' = [req EXCEPT ![r] = ask]
    BY <1>1, <1>2, <2>2 DEF PoolInv, Shape
  <2>4. ask = [req[r] EXCEPT !.at = "unconnected", !.conn = FALSE, !.transactions = @ + 1]
    OBVIOUS
  <2> HIDE DEF ask
  <2>5. QED
    BY <1>1, <1>2, <2>3, <2>4, UnconnectedInv DEF Caught
<1>3. CASE Fail(r) /\ loop' = IF loop = r THEN Nobody ELSE loop
  BY <1>1, <1>3, FailInv
<1>4. QED
  BY <1>2, <1>3 DEF GiveUp

LEMMA AnswerInv ==
  ASSUME PoolInv, NEW r \in Requests, Answer(r)
  PROVE  PoolInv'
<1> DEFINE at == IF req[r].at = "answering" THEN "closing" ELSE "done"
           ask == [req[r] EXCEPT !.at = at, !.answered = TRUE]
<1>1. req[r] \in Request /\ Placed(r) /\ r # Nobody
  BY RequestFacts
<1>2. req[r].at \in {"answering", "refusing"} /\ loop = Nobody /\ loop' = loop /\ line' = line
  BY DEF Answer
<1>3. req' = [req EXCEPT ![r] = ask]
  BY <1>1 DEF Answer, PoolInv, Shape, Request
<1>4. at \in {"closing", "done"}
  OBVIOUS
<1> HIDE DEF at
<1>5. /\ ask \in Request /\ ask.at = at /\ ask.todo = req[r].todo
      /\ ask.conn = req[r].conn /\ ask.thread = req[r].thread
  BY <1>1, <1>4 DEF Request
<1> HIDE DEF ask
<1>6. ask.todo = << >>
  BY <1>1, <1>2, <1>5 DEF Placed
<1>7. QED
  BY <1>1, <1>2, <1>3, <1>4, <1>5, <1>6, EndInv

LEMMA CloseInv ==
  ASSUME PoolInv, NEW r \in Requests, Close(r)
  PROVE  PoolInv'
<1> DEFINE ask == [req[r] EXCEPT !.at = Closed(r), !.conn = FALSE]
<1>1. req[r] \in Request /\ Placed(r) /\ r # Nobody
  BY RequestFacts
<1>2. req[r].at = "closing" /\ loop = Nobody /\ loop' = loop /\ line' = line
  BY DEF Close
<1>3. Closed(r) \in {"refusing", "done"}
  BY DEF Closed
<1>4. /\ ask \in Request /\ ask.at = Closed(r) /\ ask.todo = req[r].todo
      /\ ask.conn = FALSE /\ ask.thread = req[r].thread
  BY <1>1, <1>3 DEF Request
<1>5. req' = [req EXCEPT ![r] = ask]
  BY <1>1 DEF Close, PoolInv, Shape
<1> HIDE DEF ask
<1>6. ask.todo = << >>
  BY <1>1, <1>2, <1>4 DEF Placed
<1>7. QED
  BY <1>1, <1>2, <1>3, <1>4, <1>5, <1>6, EndInv

LEMMA StepInv ==
  ASSUME PoolInv, [Next]_vars
  PROVE  PoolInv'
<1>1. ASSUME NEW r \in Requests, Arrive(r) \/ Step(r) PROVE PoolInv'
  BY <1>1, ArriveInv, GetThreadInv, RunOnLoopInv, GetConnectionInv, GiveUpInv, CommitInv,
     UseAgainInv, ReturnInv, AnswerInv, CloseInv DEF Step
<1>2. CASE UNCHANGED vars
  BY <1>2 DEF vars, PoolInv, Shape, Counted, BusyThreads, HeldConns, Placed, Connected,
             Waiting, Job
<1>3. QED
  BY <1>1, <1>2 DEF Next

(* The inductive invariant holds in every state.                           *)
THEOREM PoolInvHolds == Spec => []PoolInv
<1>1. Init => PoolInv
  BY InitInv
<1>2. PoolInv /\ [Next]_vars => PoolInv'
  BY StepInv
<1>3. QED
  BY <1>1, <1>2, PTL DEF Spec

(* Every variable keeps its type; no more threads and connections are in   *)
(* use than there are, and the line holds exactly the requests that wait   *)
(* for a thread.                                                           *)
THEOREM TypeCorrect == Spec => []TypeOK
<1>1. PoolInv => TypeOK
  BY DEF PoolInv, Shape, Counted, Placed, Waiting, TypeOK
<1>2. QED
  BY <1>1, PoolInvHolds, PTL

(* The event loop never waits for a connection.                            *)
THEOREM LoopWaitsForNothing == Spec => []LoopNeverWaits
<1>1. PoolInv => LoopNeverWaits
  BY DEF PoolInv, Shape, Placed, Connected, LoopNeverWaits
<1>2. QED
  BY <1>1, PoolInvHolds, PTL
=============================================================================
