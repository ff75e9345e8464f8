----------------------------- MODULE FeesProofs -----------------------------
(***************************************************************************)
(* Proofs about Fees, for any number of workers, students, departments and *)
(* structures and any amounts.                                             *)
(***************************************************************************)
EXTENDS Fees, FiniteSetTheorems, TLAPS

LEMMA NoRequestType == NoRequest \in Request
BY DEF NoRequest, Request, InvoiceStatus

(***************************************************************************)
(* Every action keeps TypeOK.                                              *)
(***************************************************************************)
LEMMA TypeStep == TypeOK /\ [Next]_vars => TypeOK'
<1> SUFFICES ASSUME TypeOK, [Next]_vars PROVE TypeOK'
  OBVIOUS
<1> USE ScopeAssumption, AmountAssumption, NoRequestType
        DEF TypeOK, eligibility, books, Start, Finish, Idle
<1>1. ASSUME NEW s \in Students, CreateEnrollment(s) PROVE TypeOK'
  BY <1>1 DEF CreateEnrollment
<1>2. ASSUME NEW s \in Students, UpdateStudent(s) PROVE TypeOK'
  BY <1>2 DEF UpdateStudent
<1>3. ASSUME NEW f \in Structures, DueDatePasses(f) PROVE TypeOK'
  BY <1>3 DEF DueDatePasses
<1>4. ASSUME NEW w \in Workers, NEW f \in Structures, NEW a \in Charges,
             CreateFeeStructure(w, f, a)
      PROVE  TypeOK'
  <2>1. EligibleStudents(f) \X {f} \subseteq Invoices
    BY DEF EligibleStudents, Invoices
  <2>2. [NoRequest EXCEPT !.pc = "insert", !.amount = a, !.structures = {f},
                          !.invoices = EligibleStudents(f) \X {f}] \in Request
    BY <2>1 DEF Request, NoRequest, InvoiceStatus
  <2>3. QED
    BY <1>4, <2>2 DEF CreateFeeStructure
<1>5. ASSUME NEW w \in Workers, IssueInvoices(w) PROVE TypeOK'
  <2>1. charge' \in [Structures -> Nat]
    BY <1>5 DEF IssueInvoices, Request
  <2>2. status' \in [Invoices -> InvoiceStatus \cup {"none"}]
    BY <1>5 DEF IssueInvoices, InvoiceStatus
  <2>3. [NoRequest EXCEPT !.pc = "notify", !.invoices = req[w].invoices] \in Request
    BY DEF Request, NoRequest
  <2>4. req' \in [Workers -> Request]
    BY <1>5, <2>3 DEF IssueInvoices
  <2>5. QED
    BY <1>5, <2>1, <2>2, <2>4 DEF IssueInvoices
<1>6. ASSUME NEW w \in Workers, NEW i \in Invoices, DoneWith(w, i)
      PROVE  req' \in [Workers -> Request]
  <2>1. [req[w] EXCEPT !.invoices = @ \ {i}] \in Request
    BY DEF Request
  <2>2. QED
    BY <1>6, <2>1 DEF DoneWith
<1>7. ASSUME NEW w \in Workers, NEW i \in Invoices, NotifyFeeDue(w, i) PROVE TypeOK'
  <2>1. feeDue' \in [Invoices -> [issue : Nat, reminder : Nat]]
    BY <1>7 DEF NotifyFeeDue
  <2>2. QED
    BY <1>6, <1>7, <2>1 DEF NotifyFeeDue
<1>8. ASSUME NEW w \in Workers, NEW i \in Invoices, NotifyFails(w, i) PROVE TypeOK'
  BY <1>6, <1>8 DEF NotifyFails
<1>9. ASSUME NEW w \in Workers, NEW S \in SUBSET Students, NotifyOverdueAccounts(w, S)
      PROVE  TypeOK'
  <2> DEFINE targets == {i \in OverdueAccounts : i[1] \in S}
  <2>1. targets \subseteq Invoices
    BY DEF OverdueAccounts
  <2>2. [NoRequest EXCEPT !.pc = "notify", !.reminder = TRUE, !.invoices = targets] \in Request
    BY <2>1 DEF Request, NoRequest
  <2>3. QED
    BY <1>9, <2>2 DEF NotifyOverdueAccounts
<1>10. ASSUME NEW w \in Workers, NEW i \in Invoices, NEW a \in Amounts, RecordPayment(w, i, a)
       PROVE  TypeOK'
  <2>1. [NoRequest EXCEPT !.pc = "invoice", !.invoices = {i}, !.amount = a] \in Request
    BY DEF Request, NoRequest
  <2>2. QED
    BY <1>10, <2>1 DEF RecordPayment
<1>11. ASSUME NEW w \in Workers, NEW i \in Invoices, ReadInvoice(w, i) PROVE TypeOK'
  <2>1. [req[w] EXCEPT !.pc = "sum", !.status = status[i]] \in Request
    BY DEF Request
  <2>2. QED
    BY <1>11, <2>1 DEF ReadInvoice
<1>12. ASSUME NEW w \in Workers, NEW i \in Invoices, SumPayments(w, i) PROVE TypeOK'
  <2>1. [req[w] EXCEPT !.pc = "write", !.sum = paid[i]] \in Request
    BY DEF Request
  <2>2. QED
    BY <1>12, <2>1 DEF SumPayments
<1>13. ASSUME NEW w \in Workers, NEW i \in Invoices, CommitPayment(w, i) PROVE TypeOK'
  <2>1. paid' \in [Invoices -> Nat]
    BY <1>13 DEF CommitPayment, Request
  <2>2. status' \in [Invoices -> InvoiceStatus \cup {"none"}]
    BY <1>13 DEF CommitPayment, Flushed, NewStatus, InvoiceStatus
  <2>3. QED
    BY <1>13, <2>1, <2>2 DEF CommitPayment
<1>14. ASSUME NEW w \in Workers, Abort(w) PROVE TypeOK'
  BY <1>14 DEF Abort
<1>15. CASE UNCHANGED vars
  BY <1>15 DEF vars
<1>16. QED
  BY <1>1, <1>2, <1>3, <1>4, <1>5, <1>7, <1>8, <1>9, <1>10, <1>11, <1>12, <1>13, <1>14, <1>15
     DEF Next, Environment, CreateFees, Dispatch, Pay

LEMMA TypeInit == Init => TypeOK
BY NoRequestType DEF Init, TypeOK, InvoiceStatus

(***************************************************************************)
(* The variables have their types in every reachable state.                *)
(***************************************************************************)
THEOREM FeesTypeCorrect == Spec => []TypeOK
<1>1. QED
  BY TypeInit, TypeStep, PTL DEF Spec

-----------------------------------------------------------------------------
(***************************************************************************)
(* The invariant behind what holds whatever interleaves.  It ties what a   *)
(* request has read to what is stored now: sums only fall behind, an       *)
(* invoice that was found stays, and the requests that create or announce  *)
(* invoices work on different ones.                                        *)
(***************************************************************************)
Creating(w) == req[w].pc = "insert"
Announcing(w) == req[w].pc = "notify" /\ ~ req[w].reminder

StoredSane ==
  \A i \in Invoices :
    /\ status[i] # "none" => charge[StructureOf(i)] > 0
    /\ feeDue[i].issue > 0 => status[i] # "none"

CreatingSane(w) ==
  Creating(w) =>
    /\ req[w].amount \in Charges
    /\ req[w].amount > 0
    /\ \A f \in req[w].structures : charge[f] = 0
    /\ \A i \in req[w].invoices : StructureOf(i) \in req[w].structures

NotifyingSane(w) ==
  req[w].pc = "notify" =>
    \A i \in req[w].invoices :
      /\ status[i] # "none"
      /\ IF req[w].reminder THEN StructureOf(i) \in pastDue ELSE feeDue[i].issue = 0

PayingSane(w) ==
  Paying(w) =>
    /\ req[w].amount \in Amounts
    /\ req[w].amount > 0
    /\ \A i, j \in req[w].invoices : i = j
    /\ \A i \in req[w].invoices :
         /\ charge[StructureOf(i)] > 0
         /\ req[w].pc \in {"sum", "write"} =>
              /\ status[i] # "none"
              /\ req[w].status \in {"unpaid", "partially_paid"}
              /\ req[w].status = "partially_paid" => paid[i] > 0
         /\ req[w].pc = "write" => req[w].sum <= paid[i]

NoTwoOnOne ==
  \A v, w \in Workers : v # w =>
    /\ Creating(v) /\ Creating(w) => req[v].structures \cap req[w].structures = {}
    /\ Announcing(v) /\ Announcing(w) => req[v].invoices \cap req[w].invoices = {}

RequestsSane ==
  \A w \in Workers :
    /\ CreatingSane(w)
    /\ NotifyingSane(w)
    /\ PayingSane(w)
    /\ ~ Creating(w) => req[w].structures = {}

FeesInv ==
  /\ TypeOK
  /\ StatusHonest
  /\ NoticesFollowCommits
  /\ StoredSane
  /\ RequestsSane
  /\ NoTwoOnOne

LEMMA FeesInvInit == Init => FeesInv
<1> SUFFICES ASSUME Init PROVE FeesInv
  OBVIOUS
<1>1. TypeOK
  BY TypeInit
<1>2. QED
  BY <1>1 DEF FeesInv, Init, NoRequest, StatusHonest, NoticesFollowCommits, StoredSane,
              RequestsSane, NoTwoOnOne, CreatingSane, NotifyingSane, PayingSane,
              Creating, Announcing, Paying

\* A worker that only shortens its list keeps clear of the others.
LEMMA StillSeparate ==
  ASSUME NoTwoOnOne, NEW w \in Workers,
         \A v \in Workers \ {w} : req'[v] = req[v],
         ~ Creating(w)',
         Announcing(w)' => Announcing(w),
         req'[w].invoices \subseteq req[w].invoices \/ ~ Announcing(w)'
  PROVE  NoTwoOnOne'
<1> SUFFICES ASSUME NEW u \in Workers, NEW v \in Workers, u # v
             PROVE  /\ Creating(u)' /\ Creating(v)' => req'[u].structures \cap req'[v].structures = {}
                    /\ Announcing(u)' /\ Announcing(v)' => req'[u].invoices \cap req'[v].invoices = {}
  BY DEF NoTwoOnOne
<1>1. CASE u # w /\ v # w
  <2>1. req'[u] = req[u] /\ req'[v] = req[v]
    BY <1>1
  <2>2. QED
    BY <2>1 DEF NoTwoOnOne, Creating, Announcing
<1>2. CASE u = w
  <2>1. req'[v] = req[v]
    BY <1>2
  <2>2. QED
    BY <1>2, <2>1 DEF NoTwoOnOne, Creating, Announcing
<1>3. CASE v = w
  <2>1. req'[u] = req[u]
    BY <1>3
  <2>2. QED
    BY <1>3, <2>1 DEF NoTwoOnOne, Creating, Announcing
<1>4. QED
  BY <1>1, <1>2, <1>3

LEMMA FeesInvStep == FeesInv /\ [Next]_vars => FeesInv'
<1> SUFFICES ASSUME FeesInv, [Next]_vars PROVE FeesInv'
  OBVIOUS
<1>0. TypeOK'
  BY TypeStep DEF FeesInv
<1> USE <1>0, AmountAssumption
        DEF FeesInv, TypeOK, Request, InvoiceStatus, eligibility, books, Start, Finish, Idle,
            StatusHonest, NoticesFollowCommits, StoredSane, RequestsSane, NoTwoOnOne, CreatingSane, NotifyingSane, PayingSane, Creating, Announcing, Paying
<1>1. ASSUME NEW s \in Students, CreateEnrollment(s) PROVE FeesInv'
  <2>1. StatusHonest' /\ StoredSane' /\ NoticesFollowCommits'
    BY <1>1 DEF CreateEnrollment, StatusHonest, StoredSane, NoticesFollowCommits
  <2>2. RequestsSane'
    BY <1>1 DEF CreateEnrollment
  <2>3. NoTwoOnOne'
    BY <1>1 DEF CreateEnrollment
  <2>4. QED
    BY <2>1, <2>2, <2>3
<1>2. ASSUME NEW s \in Students, UpdateStudent(s) PROVE FeesInv'
  <2>1. StatusHonest' /\ StoredSane' /\ NoticesFollowCommits'
    BY <1>2 DEF UpdateStudent, StatusHonest, StoredSane, NoticesFollowCommits
  <2>2. RequestsSane'
    BY <1>2 DEF UpdateStudent
  <2>3. NoTwoOnOne'
    BY <1>2 DEF UpdateStudent
  <2>4. QED
    BY <2>1, <2>2, <2>3
<1>3. ASSUME NEW f \in Structures, DueDatePasses(f) PROVE FeesInv'
  <2>1. StatusHonest' /\ StoredSane' /\ NoticesFollowCommits'
    BY <1>3 DEF DueDatePasses, StatusHonest, StoredSane, NoticesFollowCommits
  <2>2. RequestsSane'
    BY <1>3 DEF DueDatePasses
  <2>3. NoTwoOnOne'
    BY <1>3 DEF DueDatePasses
  <2>4. QED
    BY <2>1, <2>2, <2>3
<1>4. ASSUME NEW w \in Workers, NEW f \in Structures, NEW a \in Charges,
             CreateFeeStructure(w, f, a) PROVE FeesInv'
  <2>1. /\ req'[w].pc = "insert" /\ req'[w].amount = a /\ req'[w].structures = {f}
        /\ req'[w].invoices = EligibleStudents(f) \X {f}
        /\ UNCHANGED <<charge, status, paid, feeDue, pastDue>>
    BY <1>4 DEF CreateFeeStructure, NoRequest
  <2>2. \A v \in Workers \ {w} : req'[v] = req[v]
    BY <1>4 DEF CreateFeeStructure, NoRequest
  <2>3. StatusHonest' /\ StoredSane' /\ NoticesFollowCommits'
    BY <1>4 DEF CreateFeeStructure, StatusHonest, StoredSane, NoticesFollowCommits
  <2>4. RequestsSane'
    <3> SUFFICES ASSUME NEW v \in Workers
                 PROVE  (CreatingSane(v) /\ NotifyingSane(v) /\ PayingSane(v)
                           /\ (~ Creating(v) => req[v].structures = {}))'
      BY DEF RequestsSane
    <3>1. CASE v # w
      BY <1>4, <2>2, <3>1 DEF CreateFeeStructure, FreshStructure
    <3>2. CASE v = w
      BY <1>4, <2>1, <3>2 DEF CreateFeeStructure, FreshStructure, StructureOf
    <3>3. QED
      BY <3>1, <3>2
  <2>5. NoTwoOnOne'
    BY <1>4, <2>1, <2>2 DEF CreateFeeStructure, FreshStructure
  <2>6. QED
    BY <2>3, <2>4, <2>5
<1>5. ASSUME NEW w \in Workers, IssueInvoices(w) PROVE FeesInv'
  <2>1. /\ req'[w].structures = {}
        /\ \/ req'[w].pc = "idle"
           \/ /\ req'[w].pc = "notify" /\ ~ req'[w].reminder
              /\ req'[w].invoices = req[w].invoices
    <3> DEFINE r == [NoRequest EXCEPT !.pc = "notify", !.invoices = req[w].invoices]
    <3>1. /\ r.structures = {} /\ r.pc = "notify" /\ ~ r.reminder
          /\ r.invoices = req[w].invoices
      BY DEF NoRequest
    <3>2. NoRequest.structures = {} /\ NoRequest.pc = "idle"
      BY DEF NoRequest
    <3> HIDE DEF r
    <3>3. req' = [req EXCEPT ![w] = NoRequest] \/ req' = [req EXCEPT ![w] = r]
      BY <1>5 DEF IssueInvoices, r
    <3>4. QED
      BY <3>1, <3>2, <3>3
  <2>2. \A v \in Workers \ {w} : req'[v] = req[v]
    BY <1>5 DEF IssueInvoices, NoRequest
  <2>a. \A i \in req[w].invoices : status[i] = "none" /\ charge[StructureOf(i)] = 0
    BY <1>5 DEF IssueInvoices, StoredSane
  <2>b. \A i \in Invoices : StructureOf(i) \in Structures
    BY DEF Invoices, StructureOf
  <2>c. \A i \in Invoices : charge[StructureOf(i)] > 0 => charge'[StructureOf(i)] = charge[StructureOf(i)]
    BY <1>5, <2>b DEF IssueInvoices
  <2>d. \A i \in req[w].invoices : charge'[StructureOf(i)] > 0 /\ status'[i] = "unpaid"
                                  /\ paid[i] = 0 /\ feeDue[i].issue = 0
    BY <1>5, <2>a, <2>b DEF IssueInvoices, StatusHonest, StoredSane
  <2>e. \A i \in Invoices \ req[w].invoices : status'[i] = status[i]
    BY <1>5 DEF IssueInvoices
  <2>f. UNCHANGED <<paid, feeDue, pastDue>>
    BY <1>5 DEF IssueInvoices
  <2>3. StatusHonest' /\ StoredSane' /\ NoticesFollowCommits'
    <3> SUFFICES ASSUME NEW i \in Invoices
                 PROVE  /\ status'[i] = "none" => paid'[i] = 0
                        /\ status'[i] = "unpaid" => paid'[i] = 0
                        /\ status'[i] = "partially_paid" => paid'[i] > 0
                        /\ status'[i] = "paid" => paid'[i] >= charge'[StructureOf(i)]
                        /\ status'[i] # "none" => charge'[StructureOf(i)] > 0
                        /\ feeDue'[i].issue > 0 => status'[i] # "none"
                        /\ feeDue'[i].issue <= 1
                        /\ feeDue'[i].reminder > 0 => status'[i] # "none" /\ StructureOf(i) \in pastDue'
      BY DEF StatusHonest, StoredSane, NoticesFollowCommits
    <3>1. CASE i \in req[w].invoices
      BY <2>a, <2>d, <2>f, <3>1 DEF StatusHonest, StoredSane, NoticesFollowCommits
    <3>2. CASE i \notin req[w].invoices
      BY <2>b, <2>c, <2>e, <2>f, <3>2 DEF StatusHonest, StoredSane, NoticesFollowCommits
    <3>3. QED
      BY <3>1, <3>2
  <2>4. RequestsSane'
    <3> SUFFICES ASSUME NEW v \in Workers
                 PROVE  (CreatingSane(v) /\ NotifyingSane(v) /\ PayingSane(v)
                           /\ (~ Creating(v) => req[v].structures = {}))'
      BY DEF RequestsSane
    <3>1. CASE v # w
      <4>1. req'[v] = req[v]
        BY <2>2, <3>1
      <4>2. CreatingSane(v)'
        BY <1>5, <3>1, <4>1 DEF IssueInvoices, NoTwoOnOne
      <4>3. NotifyingSane(v)'
        BY <4>1, <2>a, <2>e, <2>f
      <4>4. PayingSane(v)'
        <5>1. \A i \in req[v].invoices : i \in Invoices
          OBVIOUS
        <5>2. CASE Paying(v)
          BY <4>1, <5>1, <5>2, <2>a, <2>c, <2>e, <2>f
        <5>3. CASE ~ Paying(v)
          BY <4>1, <5>3
        <5>4. QED
          BY <5>2, <5>3
      <4>5. QED
        BY <4>1, <4>2, <4>3, <4>4
    <3>2. CASE v = w
      BY <2>1, <2>d, <2>f, <3>2
    <3>3. QED
      BY <3>1, <3>2
  <2>5. NoTwoOnOne'
    <3>1. \A v \in Workers \ {w} : Announcing(v) => req[v].invoices \cap req[w].invoices = {}
      BY <2>a
    <3>2. ~ Creating(w)' /\ (Announcing(w)' => req'[w].invoices = req[w].invoices)
      BY <2>1
    <3> SUFFICES ASSUME NEW u \in Workers, NEW v \in Workers, u # v
                 PROVE  /\ Creating(u)' /\ Creating(v)' => req'[u].structures \cap req'[v].structures = {}
                        /\ Announcing(u)' /\ Announcing(v)' => req'[u].invoices \cap req'[v].invoices = {}
      BY DEF NoTwoOnOne
    <3>3. CASE u # w /\ v # w
      BY <2>2, <3>3
    <3>4. CASE u = w
      BY <2>2, <3>1, <3>2, <3>4
    <3>5. CASE v = w
      BY <2>2, <3>1, <3>2, <3>5
    <3>6. QED
      BY <3>3, <3>4, <3>5
  <2>6. QED
    BY <2>3, <2>4, <2>5
<1>6. ASSUME NEW w \in Workers, NEW i \in Invoices, NotifyFeeDue(w, i) PROVE FeesInv'
  <2>1. \/ req'[w].pc = "idle" /\ req'[w].structures = {}
        \/ /\ req'[w].pc = "notify" /\ req'[w].reminder = req[w].reminder
           /\ req'[w].structures = req[w].structures
           /\ req'[w].invoices = req[w].invoices \ {i}
    BY <1>6 DEF NotifyFeeDue, DoneWith, NoRequest
  <2>2. \A v \in Workers \ {w} : req'[v] = req[v]
    BY <1>6 DEF NotifyFeeDue, DoneWith, NoRequest
  <2>3. StatusHonest' /\ StoredSane' /\ NoticesFollowCommits'
    BY <1>6 DEF NotifyFeeDue, StatusHonest, StoredSane, NoticesFollowCommits
  <2>4. RequestsSane'
    <3> SUFFICES ASSUME NEW v \in Workers
                 PROVE  (CreatingSane(v) /\ NotifyingSane(v) /\ PayingSane(v)
                           /\ (~ Creating(v) => req[v].structures = {}))'
      BY DEF RequestsSane
    <3>0. /\ UNCHANGED <<status, charge, paid, pastDue>>
          /\ req[w].reminder => \A j \in Invoices : feeDue'[j].issue = feeDue[j].issue
          /\ \A j \in Invoices \ {i} : feeDue'[j] = feeDue[j]
      BY <1>6 DEF NotifyFeeDue
    <3>1. CASE v # w
      <4>1. ~ req[w].reminder /\ Announcing(v) => i \notin req[v].invoices
        BY <1>6, <3>1 DEF NotifyFeeDue
      <4>2. QED
        BY <2>2, <3>0, <3>1, <4>1
    <3>2. CASE v = w
      BY <1>6, <2>1, <3>0, <3>2 DEF NotifyFeeDue
    <3>3. QED
      BY <3>1, <3>2
  <2>5. NoTwoOnOne'
    <3>1. /\ ~ Creating(w)' /\ (Announcing(w)' => Announcing(w))
          /\ req'[w].invoices \subseteq req[w].invoices \/ ~ Announcing(w)'
      BY <1>6, <2>1 DEF NotifyFeeDue
    <3>2. QED
      BY <2>2, <3>1, StillSeparate
  <2>6. QED
    BY <2>3, <2>4, <2>5
<1>7. ASSUME NEW w \in Workers, NEW i \in Invoices, NotifyFails(w, i) PROVE FeesInv'
  <2>1. StatusHonest' /\ StoredSane' /\ NoticesFollowCommits'
    BY <1>7 DEF NotifyFails, DoneWith, NoRequest, StatusHonest, StoredSane, NoticesFollowCommits
  <2>2. /\ UNCHANGED <<charge, status, paid, feeDue, pastDue>>
        /\ \A v \in Workers \ {w} : req'[v] = req[v]
        /\ \/ req'[w].pc = "idle" /\ req'[w].structures = {}
           \/ /\ req'[w].pc = "notify" /\ req'[w].reminder = req[w].reminder
              /\ req'[w].structures = req[w].structures
              /\ req'[w].invoices = req[w].invoices \ {i}
    BY <1>7 DEF NotifyFails, DoneWith, NoRequest
  <2>3. RequestsSane'
    <3> SUFFICES ASSUME NEW v \in Workers
                 PROVE  (CreatingSane(v) /\ NotifyingSane(v) /\ PayingSane(v)
                           /\ (~ Creating(v) => req[v].structures = {}))'
      BY DEF RequestsSane
    <3>1. CASE v # w
      BY <2>2, <3>1
    <3>2. CASE v = w
      BY <1>7, <2>2, <3>2 DEF NotifyFails
    <3>3. QED
      BY <3>1, <3>2
  <2>4. NoTwoOnOne'
    <3>1. /\ ~ Creating(w)' /\ (Announcing(w)' => Announcing(w))
          /\ req'[w].invoices \subseteq req[w].invoices \/ ~ Announcing(w)'
      BY <1>7, <2>2 DEF NotifyFails
    <3>2. QED
      BY <2>2, <3>1, StillSeparate
  <2>5. QED
    BY <2>1, <2>3, <2>4
<1>8. ASSUME NEW w \in Workers, NEW S \in SUBSET Students,
             NotifyOverdueAccounts(w, S) PROVE FeesInv'
  <2>1. /\ req'[w].pc = "notify" /\ req'[w].reminder /\ req'[w].structures = {}
        /\ \A i \in req'[w].invoices : status[i] # "none" /\ StructureOf(i) \in pastDue
        /\ UNCHANGED <<charge, status, paid, feeDue, pastDue>>
    <3> DEFINE targets == {i \in OverdueAccounts : i[1] \in S}
               r == [NoRequest EXCEPT !.pc = "notify", !.reminder = TRUE, !.invoices = targets]
    <3>1. r.pc = "notify" /\ r.reminder /\ r.structures = {} /\ r.invoices = targets
      BY DEF NoRequest
    <3>2. \A i \in targets : status[i] # "none" /\ StructureOf(i) \in pastDue
      BY DEF OverdueAccounts
    <3> HIDE DEF targets, r
    <3>3. req' = [req EXCEPT ![w] = r] /\ UNCHANGED <<charge, status, paid, feeDue, pastDue>>
      BY <1>8 DEF NotifyOverdueAccounts, targets, r
    <3>4. QED
      BY <3>1, <3>2, <3>3
  <2>2. \A v \in Workers \ {w} : req'[v] = req[v]
    BY <1>8 DEF NotifyOverdueAccounts
  <2>3. StatusHonest' /\ StoredSane' /\ NoticesFollowCommits'
    BY <1>8 DEF NotifyOverdueAccounts, StatusHonest, StoredSane, NoticesFollowCommits
  <2>4. RequestsSane'
    <3> SUFFICES ASSUME NEW v \in Workers
                 PROVE  (CreatingSane(v) /\ NotifyingSane(v) /\ PayingSane(v)
                           /\ (~ Creating(v) => req[v].structures = {}))'
      BY DEF RequestsSane
    <3>1. CASE v # w
      BY <2>1, <2>2, <3>1
    <3>2. CASE v = w
      BY <2>1, <3>2
    <3>3. QED
      BY <3>1, <3>2
  <2>5. NoTwoOnOne'
    BY <2>1, <2>2
  <2>6. QED
    BY <2>3, <2>4, <2>5
<1>9. ASSUME NEW w \in Workers, NEW i \in Invoices, NEW a \in Amounts,
             RecordPayment(w, i, a) PROVE FeesInv'
  <2>1. StatusHonest' /\ StoredSane' /\ NoticesFollowCommits'
    BY <1>9 DEF RecordPayment, NoRequest, StatusHonest, StoredSane, NoticesFollowCommits
  <2>2. RequestsSane'
    BY <1>9 DEF RecordPayment, NoRequest
  <2>3. NoTwoOnOne'
    BY <1>9 DEF RecordPayment, NoRequest
  <2>4. QED
    BY <2>1, <2>2, <2>3
<1>10. ASSUME NEW w \in Workers, NEW i \in Invoices, ReadInvoice(w, i) PROVE FeesInv'
  <2>1. /\ UNCHANGED <<charge, status, paid, feeDue, pastDue>>
        /\ \/ req'[w].pc = "idle" /\ req'[w].structures = {}
           \/ /\ req'[w].pc = "sum" /\ req'[w].structures = req[w].structures
              /\ req'[w].invoices = req[w].invoices
              /\ req'[w].amount = req[w].amount /\ req'[w].status = status[i]
              /\ status[i] \in {"unpaid", "partially_paid"}
    <3> DEFINE r == [req[w] EXCEPT !.pc = "sum", !.status = status[i]]
    <3>1. /\ r.structures = req[w].structures /\ r.pc = "sum" /\ r.amount = req[w].amount
          /\ r.invoices = req[w].invoices
          /\ r.status = status[i]
      OBVIOUS
    <3>2. NoRequest.structures = {} /\ NoRequest.pc = "idle"
      BY DEF NoRequest
    <3> HIDE DEF r
    <3>3. \/ req' = [req EXCEPT ![w] = NoRequest]
          \/ /\ req' = [req EXCEPT ![w] = r]
             /\ status[i] \in {"unpaid", "partially_paid"}
      BY <1>10 DEF ReadInvoice, r
    <3>4. UNCHANGED <<charge, status, paid, feeDue, pastDue>>
      BY <1>10 DEF ReadInvoice
    <3>5. QED
      BY <3>1, <3>2, <3>3, <3>4
  <2>2. \A v \in Workers \ {w} : req'[v] = req[v]
    BY <1>10 DEF ReadInvoice, NoRequest
  <2>3. StatusHonest' /\ StoredSane' /\ NoticesFollowCommits'
    BY <1>10 DEF ReadInvoice, StatusHonest, StoredSane, NoticesFollowCommits
  <2>4. RequestsSane'
    <3> SUFFICES ASSUME NEW v \in Workers
                 PROVE  (CreatingSane(v) /\ NotifyingSane(v) /\ PayingSane(v)
                           /\ (~ Creating(v) => req[v].structures = {}))'
      BY DEF RequestsSane
    <3>1. CASE v # w
      BY <1>10, <2>2, <3>1 DEF ReadInvoice
    <3>2. CASE v = w
      BY <1>10, <2>1, <3>2 DEF ReadInvoice
    <3>3. QED
      BY <3>1, <3>2
  <2>5. NoTwoOnOne'
    BY <1>10, <2>1, <2>2 DEF ReadInvoice
  <2>6. QED
    BY <2>3, <2>4, <2>5
<1>11. ASSUME NEW w \in Workers, NEW i \in Invoices, SumPayments(w, i) PROVE FeesInv'
  <2>1. /\ UNCHANGED <<charge, status, paid, feeDue, pastDue>>
        /\ \/ req'[w].pc = "idle" /\ req'[w].structures = {}
           \/ /\ req'[w].pc = "write" /\ req'[w].structures = req[w].structures
              /\ req'[w].invoices = req[w].invoices
              /\ req'[w].amount = req[w].amount /\ req'[w].status = req[w].status
              /\ req'[w].sum = paid[i]
    <3> DEFINE r == [req[w] EXCEPT !.pc = "write", !.sum = paid[i]]
    <3>1. /\ r.structures = req[w].structures /\ r.pc = "write" /\ r.amount = req[w].amount
          /\ r.invoices = req[w].invoices
          /\ r.status = req[w].status /\ r.sum = paid[i]
      OBVIOUS
    <3>2. NoRequest.structures = {} /\ NoRequest.pc = "idle"
      BY DEF NoRequest
    <3> HIDE DEF r
    <3>3. \/ req' = [req EXCEPT ![w] = NoRequest]
          \/ req' = [req EXCEPT ![w] = r]
      BY <1>11 DEF SumPayments, r
    <3>4. UNCHANGED <<charge, status, paid, feeDue, pastDue>>
      BY <1>11 DEF SumPayments
    <3>5. QED
      BY <3>1, <3>2, <3>3, <3>4
  <2>2. \A v \in Workers \ {w} : req'[v] = req[v]
    BY <1>11 DEF SumPayments, NoRequest
  <2>3. StatusHonest' /\ StoredSane' /\ NoticesFollowCommits'
    BY <1>11 DEF SumPayments, StatusHonest, StoredSane, NoticesFollowCommits
  <2>4. RequestsSane'
    <3> SUFFICES ASSUME NEW v \in Workers
                 PROVE  (CreatingSane(v) /\ NotifyingSane(v) /\ PayingSane(v)
                           /\ (~ Creating(v) => req[v].structures = {}))'
      BY DEF RequestsSane
    <3>1. CASE v # w
      BY <1>11, <2>2, <3>1 DEF SumPayments
    <3>2. CASE v = w
      BY <1>11, <2>1, <3>2 DEF SumPayments
    <3>3. QED
      BY <3>1, <3>2
  <2>5. NoTwoOnOne'
    BY <1>11, <2>1, <2>2 DEF SumPayments
  <2>6. QED
    BY <2>3, <2>4, <2>5
<1>12. ASSUME NEW w \in Workers, NEW i \in Invoices, CommitPayment(w, i) PROVE FeesInv'
  <2>1. StatusHonest' /\ StoredSane' /\ NoticesFollowCommits'
    <3>1. UNCHANGED <<charge, feeDue, pastDue>>
      BY <1>12 DEF CommitPayment
    <3>2. \A j \in Invoices \ {i} : status'[j] = status[j] /\ paid'[j] = paid[j]
      BY <1>12 DEF CommitPayment
    <3>3. paid'[i] = paid[i] + req[w].amount /\ req[w].amount > 0 /\ req[w].sum <= paid[i]
          /\ status[i] # "none"
      BY <1>12 DEF CommitPayment
    <3>4. status'[i] = Flushed(req[w].status, NewStatus(req[w], charge[StructureOf(i)]), status[i])
      BY <1>12 DEF CommitPayment
    <3>5. charge[StructureOf(i)] \in Nat
      BY DEF Invoices, StructureOf
    <3>6. \/ status'[i] = "paid" /\ req[w].sum + req[w].amount >= charge[StructureOf(i)]
          \/ status'[i] = "partially_paid"
          \/ status'[i] = status[i] /\ req[w].status = "partially_paid"
      BY <1>12, <3>4 DEF CommitPayment, Flushed, NewStatus
    <3>7. req[w].status = "partially_paid" => paid[i] > 0
      BY <1>12 DEF CommitPayment
    <3>8. /\ status'[i] \notin {"none", "unpaid"}
          /\ status'[i] = "partially_paid" => paid'[i] > 0
          /\ status'[i] = "paid" => paid'[i] >= charge[StructureOf(i)]
      BY <3>3, <3>5, <3>6, <3>7 DEF StatusHonest
    <3>9. \A j \in Invoices : (status'[j] = "none") <=> (status[j] = "none")
      BY <3>2, <3>3, <3>8
    <3>10. StatusHonest'
      BY <3>1, <3>2, <3>8 DEF StatusHonest
    <3>11. StoredSane' /\ NoticesFollowCommits'
      BY <3>1, <3>9 DEF StoredSane, NoticesFollowCommits
    <3>12. QED
      BY <3>10, <3>11
  <2>2. RequestsSane'
    BY <1>12 DEF CommitPayment, Flushed, NewStatus, NoRequest
  <2>3. NoTwoOnOne'
    BY <1>12 DEF CommitPayment, Flushed, NewStatus, NoRequest
  <2>4. QED
    BY <2>1, <2>2, <2>3
<1>13. ASSUME NEW w \in Workers, Abort(w) PROVE FeesInv'
  <2>1. StatusHonest' /\ StoredSane' /\ NoticesFollowCommits'
    BY <1>13 DEF Abort, NoRequest, StatusHonest, StoredSane, NoticesFollowCommits
  <2>2. RequestsSane'
    BY <1>13 DEF Abort, NoRequest
  <2>3. NoTwoOnOne'
    BY <1>13 DEF Abort, NoRequest
  <2>4. QED
    BY <2>1, <2>2, <2>3
<1>14. CASE UNCHANGED vars
  BY <1>14 DEF vars
<1>15. QED
  BY <1>1, <1>2, <1>3, <1>4, <1>5, <1>6, <1>7, <1>8, <1>9, <1>10, <1>11, <1>12, <1>13, <1>14 DEF Next, Environment, CreateFees, Dispatch, Pay

THEOREM FeesInvariant == Spec => []FeesInv
<1>1. QED
  BY FeesInvInit, FeesInvStep, PTL DEF Spec

(***************************************************************************)
(* The stored status never claims more than the recorded payments show,    *)
(* whatever payments overlap.                                              *)
(***************************************************************************)
THEOREM FeesStatusHonest == Spec => []StatusHonest
<1>1. FeesInv => StatusHonest
  BY DEF FeesInv
<1>2. QED
  BY <1>1, FeesInvariant, PTL

(***************************************************************************)
(* Notices are about committed invoices, and the notice of issue goes out  *)
(* at most once.                                                           *)
(***************************************************************************)
THEOREM FeesNoticesFollowCommits == Spec => []NoticesFollowCommits
<1>1. FeesInv => NoticesFollowCommits
  BY DEF FeesInv
<1>2. QED
  BY <1>1, FeesInvariant, PTL

LEMMA BooksStep ==
  FeesInv /\ [Next]_vars =>
    /\ \A f \in Structures : charge[f] > 0 => charge'[f] = charge[f]
    /\ \A i \in Invoices :
         /\ paid'[i] >= paid[i]
         /\ status[i] # "none" => status'[i] # "none"
         /\ status[i] = "none" /\ status'[i] # "none" =>
              charge[StructureOf(i)] = 0 /\ charge'[StructureOf(i)] > 0
<1> DEFINE Grow == /\ \A f \in Structures : charge[f] > 0 => charge'[f] = charge[f]
                   /\ \A i \in Invoices :
                        /\ paid'[i] >= paid[i]
                        /\ status[i] # "none" => status'[i] # "none"
                        /\ status[i] = "none" /\ status'[i] # "none" =>
                             charge[StructureOf(i)] = 0 /\ charge'[StructureOf(i)] > 0
<1> SUFFICES ASSUME FeesInv, [Next]_vars PROVE Grow
  OBVIOUS
<1>1. TypeOK /\ TypeOK' /\ RequestsSane /\ StoredSane
  BY TypeStep DEF FeesInv
<1>2. ASSUME UNCHANGED books PROVE Grow
  BY <1>1, <1>2 DEF books, TypeOK
<1>3. ASSUME NEW w \in Workers, IssueInvoices(w) PROVE Grow
  <2>1. \A i \in req[w].invoices : StructureOf(i) \in req[w].structures
    BY <1>1, <1>3 DEF IssueInvoices, RequestsSane, CreatingSane, Creating
  <2>2. \A f \in req[w].structures : charge[f] = 0
    BY <1>1, <1>3 DEF IssueInvoices, RequestsSane, CreatingSane, Creating
  <2>3. req[w].amount > 0 /\ req[w].amount \in Nat
    BY <1>1, <1>3 DEF IssueInvoices, RequestsSane, CreatingSane, Creating, TypeOK, Request
  <2>4. \A i \in Invoices : StructureOf(i) \in Structures /\ paid[i] \in Nat
    BY <1>1 DEF Invoices, StructureOf, TypeOK
  <2>5. QED
    BY <1>1, <1>3, <2>1, <2>2, <2>3, <2>4 DEF IssueInvoices, TypeOK
<1>4. ASSUME NEW w \in Workers, NEW i \in Invoices, CommitPayment(w, i) PROVE Grow
  <2>1. UNCHANGED charge /\ \A j \in Invoices \ {i} : status'[j] = status[j] /\ paid'[j] = paid[j]
    BY <1>1, <1>4 DEF CommitPayment, TypeOK
  <2>2. paid'[i] = paid[i] + req[w].amount /\ req[w].amount \in Nat
    BY <1>1, <1>4 DEF CommitPayment, TypeOK, Request
  <2>3. status[i] # "none"
    BY <1>1, <1>4 DEF CommitPayment, RequestsSane, PayingSane, Paying
  <2>4. status'[i] # "none"
    BY <1>1, <1>4, <2>3 DEF CommitPayment, Flushed, NewStatus, TypeOK
  <2>5. \A j \in Invoices : paid[j] \in Nat
    BY <1>1 DEF TypeOK
  <2>6. QED
    BY <2>1, <2>2, <2>3, <2>4, <2>5
<1>5. ASSUME NEW w \in Workers, CreateFees(w) \/ Dispatch(w) \/ Pay(w) \/ Abort(w),
             ~ IssueInvoices(w), \A i \in Invoices : ~ CommitPayment(w, i)
      PROVE  UNCHANGED books
  BY <1>5 DEF CreateFees, Dispatch, Pay, CreateFeeStructure, NotifyFeeDue, NotifyFails,
              NotifyOverdueAccounts, RecordPayment, ReadInvoice, SumPayments, Abort
<1>6. ASSUME Environment \/ UNCHANGED vars PROVE UNCHANGED books
  BY <1>6 DEF Environment, CreateEnrollment, UpdateStudent, DueDatePasses, vars, books
<1>7. QED
  BY <1>2, <1>3, <1>4, <1>5, <1>6 DEF Next

(***************************************************************************)
(* Fee amounts, invoices and recorded money are never lost or rewritten,   *)
(* and an invoice comes into being in the commit of its fee structure.     *)
(***************************************************************************)
THEOREM FeesBooksOnlyGrow == Spec => BooksOnlyGrow
<1>1. FeesInv /\ [Next]_vars =>
        [/\ \A f \in Structures : charge[f] > 0 => charge'[f] = charge[f]
         /\ \A i \in Invoices :
              /\ paid'[i] >= paid[i]
              /\ status[i] # "none" => status'[i] # "none"
              /\ status[i] = "none" /\ status'[i] # "none" =>
                   charge[StructureOf(i)] = 0 /\ charge'[StructureOf(i)] > 0]_vars
  BY BooksStep
<1>2. QED
  BY <1>1, FeesInvariant, PTL DEF Spec, BooksOnlyGrow

-----------------------------------------------------------------------------
(***************************************************************************)
(* How far payments that overlap may go.  A request that is about to write *)
(* has compared its amount with what was left when it read the sum; of     *)
(* such requests at least one still leaves room for the others, each with  *)
(* the whole fee.                                                          *)
(***************************************************************************)
Writing(i) == {w \in Workers : req[w].pc = "write" /\ i \in req[w].invoices}
Amount == [w \in Workers |-> req[w].amount]

Room(S, a, sum, fee) ==
  \/ sum + Cardinality(S) * fee <= Cardinality(Workers) * fee
  \/ \E v \in S : sum + a[v] + (Cardinality(S) - 1) * fee <= Cardinality(Workers) * fee

PaymentsInv ==
  /\ FeesInv
  /\ \A i \in Invoices :
       /\ \A w \in Writing(i) : req[w].amount <= charge[StructureOf(i)]
       /\ Room(Writing(i), Amount, paid[i], charge[StructureOf(i)])

LEMMA OneTimesMore ==
  ASSUME NEW m \in Nat, NEW n \in Nat, NEW c \in Nat
  PROVE  /\ m * c \in Nat
         /\ m # 0 => (m - 1) * c + c = m * c
         /\ m <= n => m * c <= n * c
<1>1. m * c \in Nat /\ (m # 0 => (m - 1) * c + c = m * c)
  OBVIOUS
<1>2. m <= n => m * c <= n * c
  OBVIOUS
<1>3. QED
  BY <1>1, <1>2

LEMMA WorkersCount ==
  ASSUME NEW S \in SUBSET Workers
  PROVE  IsFiniteSet(S) /\ Cardinality(S) \in Nat /\ Cardinality(S) <= Cardinality(Workers)
         /\ Cardinality(Workers) \in Nat
BY WorkersAssumption, FS_Subset, FS_CardinalityType

LEMMA RoomBounds ==
  ASSUME NEW S \in SUBSET Workers, NEW a \in [Workers -> Nat], NEW sum \in Nat, NEW fee \in Nat,
         Room(S, a, sum, fee)
  PROVE  sum <= Cardinality(Workers) * fee
<1> DEFINE n == Cardinality(S)
           all == Cardinality(Workers) * fee
<1>1. n \in Nat /\ all \in Nat /\ n * fee \in Nat
  BY WorkersCount, OneTimesMore
<1>2. CASE sum + n * fee <= all
  BY <1>1, <1>2
<1>3. ASSUME NEW v \in S, sum + a[v] + (n - 1) * fee <= all PROVE sum <= all
  <2>1. n # 0 /\ a[v] \in Nat
    BY <1>3, WorkersCount, FS_EmptySet
  <2>2. n - 1 \in Nat
    BY <1>1, <2>1
  <2>3. (n - 1) * fee \in Nat
    BY <2>2, OneTimesMore
  <2> HIDE DEF n, all
  <2>4. QED
    BY <1>1, <1>3, <2>1, <2>3
<1>4. QED
  BY <1>2, <1>3 DEF Room

\* A request that writes, or gives up, leaves room for the others.
LEMMA RoomLeft ==
  ASSUME NEW S \in SUBSET Workers, NEW w \in S, NEW a \in [Workers -> Nat],
         NEW b \in [Workers -> Nat], \A v \in S \ {w} : b[v] = a[v],
         NEW sum \in Nat, NEW fee \in Nat, \A v \in S : a[v] <= fee,
         NEW new \in {sum, sum + a[w]}, Room(S, a, sum, fee)
  PROVE  Room(S \ {w}, b, new, fee)
<1> DEFINE n == Cardinality(S)
           all == Cardinality(Workers) * fee
<1>1. /\ n \in Nat /\ n # 0 /\ all \in Nat /\ Cardinality(S \ {w}) = n - 1
  BY WorkersCount, FS_EmptySet, FS_RemoveElement, OneTimesMore
<1>2. (n - 1) * fee \in Nat /\ n * fee = (n - 1) * fee + fee
  BY <1>1, OneTimesMore
<1>3. new <= sum + a[w] /\ new \in Nat /\ a[w] <= fee /\ a[w] \in Nat
  OBVIOUS
<1> HIDE DEF n, all
<1>4. CASE sum + n * fee <= all
  <2>1. new + (n - 1) * fee <= all
    BY <1>1, <1>2, <1>3, <1>4
  <2>2. QED
    BY <1>1, <2>1 DEF Room, n, all
<1>5. ASSUME NEW v \in S, sum + a[v] + (n - 1) * fee <= all PROVE Room(S \ {w}, b, new, fee)
  <2>1. CASE v = w
    <3>1. new + (n - 1) * fee <= all
      BY <1>1, <1>2, <1>3, <1>5, <2>1
    <3>2. QED
      BY <1>1, <3>1 DEF Room, n, all
  <2>2. CASE v # w
    <3>1. n - 1 # 0
      <4>1. v \in S \ {w} /\ IsFiniteSet(S \ {w})
        BY <2>2, WorkersCount
      <4>2. QED
        BY <1>1, <4>1, FS_EmptySet
    <3>2. ((n - 1) - 1) * fee \in Nat /\ (n - 1) * fee = ((n - 1) - 1) * fee + fee
      <4>1. n - 1 \in Nat /\ (n - 1) - 1 \in Nat
        BY <1>1, <3>1
      <4>2. QED
        BY <3>1, <4>1, OneTimesMore
    <3>3. a[v] \in Nat /\ b[v] = a[v]
      BY <2>2
    <3>4. new + b[v] + ((n - 1) - 1) * fee <= all
      BY <1>1, <1>2, <1>3, <1>5, <3>2, <3>3
    <3>5. QED
      BY <1>1, <2>2, <3>4 DEF Room, n, all
  <2>3. QED
    BY <2>1, <2>2
<1>6. QED
  BY <1>4, <1>5 DEF Room, n, all

\* A request that has compared its amount with the sum has room itself.
LEMMA RoomTaken ==
  ASSUME NEW S \in SUBSET Workers, NEW w \in Workers \ S, NEW b \in [Workers -> Nat],
         NEW sum \in Nat, NEW fee \in Nat, sum + b[w] <= fee
  PROVE  Room(S \cup {w}, b, sum, fee)
<1> DEFINE n == Cardinality(S)
           N == Cardinality(Workers)
<1>1. n \in Nat /\ N \in Nat /\ Cardinality(S \cup {w}) = n + 1 /\ n + 1 <= N
  <2>1. S \cup {w} \in SUBSET Workers
    OBVIOUS
  <2>2. Cardinality(S \cup {w}) = n + 1
    BY WorkersCount, FS_AddElement
  <2>3. QED
    BY <2>1, <2>2, WorkersCount
<1> HIDE DEF n, N
<1>2. /\ n * fee \in Nat /\ N * fee \in Nat
      /\ ((n + 1) - 1) * fee + fee = (n + 1) * fee /\ (n + 1) * fee <= N * fee
  BY <1>1, OneTimesMore
<1>3. (n + 1) - 1 = n
  BY <1>1
<1>4. sum + b[w] + ((n + 1) - 1) * fee <= N * fee
  BY <1>2, <1>3
<1>5. QED
  BY <1>1, <1>4 DEF Room, N

\* What w does with a payment of invoice i: nothing, or it takes its turn
\* to write, or writes or gives up.
PaymentStep(w, i) ==
  \/ w \notin Writing(i) /\ w \notin Writing(i)' /\ paid'[i] = paid[i]
  \/ w \in Writing(i) /\ w \notin Writing(i)' /\ paid'[i] \in {paid[i], paid[i] + req[w].amount}
  \/ /\ w \notin Writing(i) /\ paid'[i] = paid[i]
     /\ paid[i] + req'[w].amount <= charge[StructureOf(i)]

LEMMA RoomStep ==
  ASSUME PaymentsInv, TypeOK', NEW w \in Workers, NEW i \in Invoices,
         \A v \in Workers \ {w} : req'[v] = req[v], charge' = charge, PaymentStep(w, i)
  PROVE  /\ \A v \in Writing(i)' : req'[v].amount <= charge'[StructureOf(i)]
         /\ Room(Writing(i)', Amount', paid'[i], charge'[StructureOf(i)])
<1> DEFINE S == Writing(i)
           fee == charge[StructureOf(i)]
<1>1. /\ S \in SUBSET Workers /\ fee \in Nat /\ paid[i] \in Nat /\ paid'[i] \in Nat
      /\ Amount \in [Workers -> Nat] /\ Amount' \in [Workers -> Nat]
  BY DEF Writing, Amount, PaymentsInv, FeesInv, TypeOK, Request, StructureOf, Invoices
<1>2. /\ \A v \in Workers : Amount[v] = req[v].amount /\ Amount'[v] = req'[v].amount
      /\ \A v \in S \ {w} : Amount'[v] = Amount[v]
  BY DEF Amount, Writing
<1>3. \A v \in Workers \ {w} : v \in S' <=> v \in S
  BY DEF Writing
<1>4. S' \in SUBSET Workers
  BY DEF Writing
<1>5. (\A v \in S : Amount[v] <= fee) /\ Room(S, Amount, paid[i], fee)
  BY <1>1, <1>2 DEF PaymentsInv
<1> DEFINE old == Amount
           new == Amount'
           T == S'
<1>6. /\ \A v \in T : req'[v].amount = new[v]
      /\ paid[i] + req'[w].amount = paid[i] + new[w] /\ paid[i] + req[w].amount = paid[i] + old[w]
  BY <1>2, <1>4
<1>7. charge'[StructureOf(i)] = fee
  OBVIOUS
<1>8. PaymentStep(w, i) =>
        \/ w \notin S /\ w \notin T /\ paid'[i] = paid[i]
        \/ w \in S /\ w \notin T /\ paid'[i] \in {paid[i], paid[i] + old[w]}
        \/ w \notin S /\ paid'[i] = paid[i] /\ paid[i] + new[w] <= fee
  BY <1>6 DEF PaymentStep
<1> SUFFICES (\A v \in T : new[v] <= fee) /\ Room(T, new, paid'[i], fee)
  BY <1>6, <1>7
<1> HIDE DEF S, T, fee, old, new
<1>9. /\ S \in SUBSET Workers /\ T \in SUBSET Workers /\ fee \in Nat /\ paid[i] \in Nat
      /\ paid'[i] \in Nat /\ old \in [Workers -> Nat] /\ new \in [Workers -> Nat]
      /\ \A v \in S \ {w} : new[v] = old[v]
      /\ \A v \in Workers \ {w} : v \in T <=> v \in S
      /\ \A v \in S : old[v] <= fee
      /\ Room(S, old, paid[i], fee)
  BY <1>1, <1>2, <1>3, <1>4, <1>5 DEF S, T, fee, old, new
<1>10. CASE w \notin S /\ w \notin T /\ paid'[i] = paid[i]
  <2>1. T = S /\ \A v \in S : new[v] = old[v]
    BY <1>9, <1>10
  <2>2. QED
    BY <1>9, <1>10, <2>1 DEF Room
<1>11. CASE w \in S /\ w \notin T /\ paid'[i] \in {paid[i], paid[i] + old[w]}
  <2>1. T = S \ {w}
    BY <1>9, <1>11
  <2>2. Room(T, new, paid'[i], fee)
    BY <1>9, <1>11, <2>1, RoomLeft
  <2>3. QED
    BY <1>9, <2>1, <2>2
<1>12. CASE w \notin S /\ w \in T /\ paid'[i] = paid[i] /\ paid[i] + new[w] <= fee
  <2>1. T = S \cup {w} /\ new[w] <= fee
    BY <1>9, <1>12
  <2>2. Room(T, new, paid[i], fee)
    BY <1>9, <1>12, <2>1, RoomTaken
  <2>3. QED
    BY <1>9, <1>12, <2>1, <2>2
<1>13. QED
  BY <1>8, <1>10, <1>11, <1>12

\* A request about to write stands for one invoice that was charged.
LEMMA OneInvoice ==
  ASSUME FeesInv, NEW w \in Workers, Paying(w), NEW i \in req[w].invoices
  PROVE  charge[StructureOf(i)] > 0 /\ \A j \in req[w].invoices : j = i
BY DEF FeesInv, RequestsSane, PayingSane

LEMMA PaymentsStep ==
  ASSUME PaymentsInv, [Next]_vars
  PROVE  PaymentsInv'
<1>1. FeesInv /\ FeesInv' /\ TypeOK /\ TypeOK'
  BY FeesInvStep DEF PaymentsInv, FeesInv
<1> SUFFICES ASSUME NEW i \in Invoices
             PROVE  /\ \A v \in Writing(i)' : req'[v].amount <= charge'[StructureOf(i)]
                    /\ Room(Writing(i)', Amount', paid'[i], charge'[StructureOf(i)])
  BY <1>1 DEF PaymentsInv
<1>2. CASE UNCHANGED <<req, charge, paid>>
  <2>1. Writing(i)' = Writing(i) /\ Amount' = Amount
    BY <1>2 DEF Writing, Amount
  <2>2. QED
    BY <1>2, <2>1 DEF PaymentsInv
<1>3. ASSUME NEW w \in Workers, NEW r, req' = [req EXCEPT ![w] = r], r.pc # "write",
             req[w].pc # "write", UNCHANGED <<charge, paid>>
      PROVE  PaymentStep(w, i) /\ charge' = charge /\ \A v \in Workers \ {w} : req'[v] = req[v]
  BY <1>1, <1>3 DEF PaymentStep, Writing, TypeOK
<1>4. NoRequest.pc = "idle"
  BY DEF NoRequest
<1>5. ASSUME NEW w \in Workers, IssueInvoices(w)
      PROVE  /\ \A v \in Writing(i)' : req'[v].amount <= charge'[StructureOf(i)]
             /\ Room(Writing(i)', Amount', paid'[i], charge'[StructureOf(i)])
  <2>1. \A v \in Workers \ {w} : req'[v] = req[v]
    BY <1>1, <1>5 DEF IssueInvoices, Start, Finish, TypeOK
  <2>2. req[w].pc # "write" /\ paid' = paid
    BY <1>5 DEF IssueInvoices
  <2>3. req'[w].pc # "write"
    <3> DEFINE r == [NoRequest EXCEPT !.pc = "notify", !.invoices = req[w].invoices]
    <3>1. r.pc = "notify"
      BY DEF NoRequest
    <3> HIDE DEF r
    <3>2. req' = [req EXCEPT ![w] = NoRequest] \/ req' = [req EXCEPT ![w] = r]
      BY <1>5 DEF IssueInvoices, Start, Finish, r
    <3>3. QED
      BY <1>1, <1>4, <3>1, <3>2 DEF TypeOK
  <2>4. Writing(i)' = Writing(i) /\ \A v \in Writing(i) : Amount'[v] = Amount[v] /\ req'[v] = req[v]
    BY <2>1, <2>2, <2>3 DEF Writing, Amount
  <2>5. StructureOf(i) \in Structures
    BY DEF StructureOf, Invoices
  <2>6. CASE StructureOf(i) \in req[w].structures
    <3>1. charge[StructureOf(i)] = 0
      BY <1>1, <1>5, <2>6 DEF IssueInvoices, FeesInv, RequestsSane, CreatingSane, Creating
    <3>2. Writing(i) = {}
      <4>1. ASSUME NEW v \in Writing(i) PROVE FALSE
        BY <1>1, <3>1, OneInvoice DEF Writing, Paying
      <4>2. QED
        BY <4>1
    <3>3. paid'[i] = 0
      BY <1>1, <2>2, <3>1 DEF FeesInv, StoredSane, StatusHonest
    <3>4. charge'[StructureOf(i)] \in Nat
      BY <1>1, <2>5 DEF TypeOK
    <3>5. Room({}, Amount', 0, charge'[StructureOf(i)])
      BY <3>4, FS_EmptySet, WorkersCount, OneTimesMore DEF Room
    <3>6. QED
      BY <2>4, <3>2, <3>3, <3>5
  <2>7. CASE StructureOf(i) \notin req[w].structures
    <3>1. charge'[StructureOf(i)] = charge[StructureOf(i)]
      BY <1>5, <2>5, <2>7 DEF IssueInvoices
    <3>2. QED
      BY <2>2, <2>4, <3>1 DEF PaymentsInv, Room
  <2>8. QED
    BY <2>6, <2>7
<1>6. ASSUME NEW w \in Workers, NEW j \in Invoices, SumPayments(w, j)
      PROVE  PaymentStep(w, i) /\ charge' = charge /\ \A v \in Workers \ {w} : req'[v] = req[v]
  <2> DEFINE r == [req[w] EXCEPT !.pc = "write", !.sum = paid[j]]
  <2>1. r.invoices = req[w].invoices /\ r.amount = req[w].amount
    BY <1>1 DEF TypeOK, Request
  <2> HIDE DEF r
  <2>2. CASE req' = [req EXCEPT ![w] = NoRequest]
    BY <1>3, <1>4, <1>6, <2>2 DEF SumPayments, books
  <2>3. CASE req' = [req EXCEPT ![w] = r] /\ req[w].amount <= charge[StructureOf(j)] - paid[j]
    <3>1. req'[w] = r /\ \A v \in Workers \ {w} : req'[v] = req[v]
      BY <1>1, <2>3 DEF TypeOK
    <3>2. req[w].pc = "sum" /\ j \in req[w].invoices /\ UNCHANGED <<charge, paid>>
      BY <1>6 DEF SumPayments, books
    <3>3. w \notin Writing(i)
      BY <3>2 DEF Writing
    <3>4. CASE i = j
      <4>1. paid[i] \in Nat /\ charge[StructureOf(i)] \in Nat /\ req[w].amount \in Nat
        BY <1>1 DEF TypeOK, Request, StructureOf, Invoices
      <4>2. paid[i] + req'[w].amount <= charge[StructureOf(i)]
        BY <2>1, <2>3, <3>1, <3>4, <4>1
      <4>3. QED
        BY <3>1, <3>2, <3>3, <4>2 DEF PaymentStep
    <3>5. CASE i # j
      <4>1. i \notin req[w].invoices
        BY <1>1, <3>2, <3>5, OneInvoice DEF Paying
      <4>2. w \notin Writing(i)'
        BY <2>1, <3>1, <4>1 DEF Writing
      <4>3. QED
        BY <3>1, <3>2, <3>3, <4>2 DEF PaymentStep
    <3>6. QED
      BY <3>4, <3>5
  <2>4. QED
    BY <1>6, <2>2, <2>3 DEF SumPayments, Start, Finish, r
<1>7. ASSUME NEW w \in Workers, NEW j \in Invoices, CommitPayment(w, j)
      PROVE  PaymentStep(w, i) /\ charge' = charge /\ \A v \in Workers \ {w} : req'[v] = req[v]
  <2>1. req'[w] = NoRequest /\ (\A v \in Workers \ {w} : req'[v] = req[v]) /\ charge' = charge
    BY <1>1, <1>7 DEF CommitPayment, Finish, TypeOK
  <2>2. w \notin Writing(i)'
    BY <1>4, <2>1 DEF Writing
  <2>3. req[w].pc = "write" /\ j \in req[w].invoices
    BY <1>7 DEF CommitPayment
  <2>4. paid'[i] = IF i = j THEN paid[i] + req[w].amount ELSE paid[i]
    BY <1>1, <1>7 DEF CommitPayment, TypeOK
  <2>5. w \in Writing(j)
    BY <2>3 DEF Writing
  <2>6. QED
    BY <2>1, <2>2, <2>4, <2>5 DEF PaymentStep
<1>8. ASSUME NEW w \in Workers, Abort(w)
      PROVE  PaymentStep(w, i) /\ charge' = charge /\ \A v \in Workers \ {w} : req'[v] = req[v]
  <2>1. req'[w] = NoRequest /\ (\A v \in Workers \ {w} : req'[v] = req[v])
        /\ UNCHANGED <<charge, paid>>
    BY <1>1, <1>8 DEF Abort, Finish, TypeOK, books
  <2>2. w \notin Writing(i)'
    BY <1>4, <2>1 DEF Writing
  <2>3. QED
    BY <2>1, <2>2 DEF PaymentStep
<1>9. ASSUME NEW w \in Workers, NEW f \in Structures, NEW a \in Charges, CreateFeeStructure(w, f, a)
      PROVE  PaymentStep(w, i) /\ charge' = charge /\ \A v \in Workers \ {w} : req'[v] = req[v]
  <2> DEFINE r == [NoRequest EXCEPT !.pc = "insert", !.amount = a, !.structures = {f},
                                    !.invoices = EligibleStudents(f) \X {f}]
  <2>1. r.pc = "insert"
    BY DEF NoRequest
  <2> HIDE DEF r
  <2>2. req' = [req EXCEPT ![w] = r] /\ req[w].pc = "idle" /\ UNCHANGED <<charge, paid>>
    BY <1>9 DEF CreateFeeStructure, Start, Idle, books, r
  <2>3. QED
    BY <1>3, <2>1, <2>2
<1>10. ASSUME NEW w \in Workers, NEW j \in Invoices, DoneWith(w, j), req[w].pc = "notify",
              UNCHANGED books
       PROVE  PaymentStep(w, i) /\ charge' = charge /\ \A v \in Workers \ {w} : req'[v] = req[v]
  <2> DEFINE r == [req[w] EXCEPT !.invoices = @ \ {j}]
  <2>1. r.pc = "notify"
    BY <1>1, <1>10 DEF TypeOK, Request
  <2> HIDE DEF r
  <2>2. req' = [req EXCEPT ![w] = NoRequest] \/ req' = [req EXCEPT ![w] = r]
    BY <1>10 DEF DoneWith, Start, Finish, r
  <2>3. UNCHANGED <<charge, paid>>
    BY <1>10 DEF books
  <2>4. QED
    BY <1>3, <1>4, <1>10, <2>1, <2>2, <2>3
<1>11. ASSUME NEW w \in Workers, NEW S \in SUBSET Students, NotifyOverdueAccounts(w, S)
       PROVE  PaymentStep(w, i) /\ charge' = charge /\ \A v \in Workers \ {w} : req'[v] = req[v]
  <2> DEFINE targets == {j \in OverdueAccounts : j[1] \in S}
             r == [NoRequest EXCEPT !.pc = "notify", !.reminder = TRUE, !.invoices = targets]
  <2>1. r.pc = "notify"
    BY DEF NoRequest
  <2> HIDE DEF r
  <2>2. req' = [req EXCEPT ![w] = r] /\ req[w].pc = "idle" /\ UNCHANGED <<charge, paid>>
    BY <1>11 DEF NotifyOverdueAccounts, Start, Idle, books, r
  <2>3. QED
    BY <1>3, <2>1, <2>2
<1>12. ASSUME NEW w \in Workers, NEW j \in Invoices, NEW a \in Amounts, RecordPayment(w, j, a)
       PROVE  PaymentStep(w, i) /\ charge' = charge /\ \A v \in Workers \ {w} : req'[v] = req[v]
  <2> DEFINE r == [NoRequest EXCEPT !.pc = "invoice", !.invoices = {j}, !.amount = a]
  <2>1. r.pc = "invoice"
    BY DEF NoRequest
  <2> HIDE DEF r
  <2>2. req' = [req EXCEPT ![w] = r] /\ req[w].pc = "idle" /\ UNCHANGED <<charge, paid>>
    BY <1>12 DEF RecordPayment, Start, Idle, books, r
  <2>3. QED
    BY <1>3, <2>1, <2>2
<1>13. ASSUME NEW w \in Workers, NEW j \in Invoices, ReadInvoice(w, j)
       PROVE  PaymentStep(w, i) /\ charge' = charge /\ \A v \in Workers \ {w} : req'[v] = req[v]
  <2> DEFINE r == [req[w] EXCEPT !.pc = "sum", !.status = status[j]]
  <2>1. r.pc = "sum"
    BY <1>1 DEF TypeOK, Request
  <2> HIDE DEF r
  <2>2. /\ req' = [req EXCEPT ![w] = NoRequest] \/ req' = [req EXCEPT ![w] = r]
        /\ req[w].pc = "invoice" /\ UNCHANGED <<charge, paid>>
    BY <1>13 DEF ReadInvoice, Start, Finish, books, r
  <2>3. QED
    BY <1>3, <1>4, <2>1, <2>2
<1>14. ASSUME NEW w \in Workers, Dispatch(w) \/ Pay(w) \/ Abort(w)
       PROVE  PaymentStep(w, i) /\ charge' = charge /\ \A v \in Workers \ {w} : req'[v] = req[v]
  <2>1. CASE Dispatch(w)
    BY <1>10, <1>11, <2>1 DEF Dispatch, NotifyFeeDue, NotifyFails
  <2>2. CASE Pay(w)
    BY <1>6, <1>7, <1>12, <1>13, <2>2 DEF Pay
  <2>3. QED
    BY <1>8, <1>14, <2>1, <2>2
<1>15. CASE Environment \/ UNCHANGED vars
  <2>1. UNCHANGED <<req, charge, paid>>
    BY <1>15 DEF Environment, CreateEnrollment, UpdateStudent, DueDatePasses, vars, books
  <2>2. QED
    BY <1>2, <2>1
<1>16. CASE \E w \in Workers : CreateFees(w)
  BY <1>1, <1>5, <1>9, <1>16, RoomStep DEF CreateFees
<1>17. CASE \E w \in Workers : Dispatch(w) \/ Pay(w) \/ Abort(w)
  BY <1>1, <1>14, <1>17, RoomStep
<1>18. QED
  BY <1>15, <1>16, <1>17 DEF Next

LEMMA PaymentsInit == Init => PaymentsInv
<1> SUFFICES ASSUME Init PROVE PaymentsInv
  OBVIOUS
<1>1. ASSUME NEW i \in Invoices
      PROVE  Writing(i) = {} /\ paid[i] = 0 /\ charge[StructureOf(i)] = 0
  BY DEF Init, NoRequest, Writing, StructureOf, Invoices
<1>2. Room({}, Amount, 0, 0)
  BY FS_EmptySet, WorkersCount, OneTimesMore DEF Room
<1>3. QED
  BY <1>1, <1>2, FeesInvInit DEF PaymentsInv

(***************************************************************************)
(* Payments that overlap record at most the whole fee once for each worker *)
(* there is, whatever their number.                                        *)
(***************************************************************************)
THEOREM FeesOverpaymentBounded == Spec => []OverpaymentBounded
<1>1. PaymentsInv => OverpaymentBounded
  <2> SUFFICES ASSUME PaymentsInv, NEW i \in Invoices
               PROVE  paid[i] <= Cardinality(Workers) * charge[StructureOf(i)]
    BY DEF OverpaymentBounded
  <2>1. /\ Writing(i) \in SUBSET Workers /\ Amount \in [Workers -> Nat]
        /\ paid[i] \in Nat /\ charge[StructureOf(i)] \in Nat
    BY DEF PaymentsInv, FeesInv, TypeOK, Request, Writing, Amount, StructureOf, Invoices
  <2>2. QED
    BY <2>1, RoomBounds DEF PaymentsInv
<1>2. PaymentsInv /\ [Next]_vars => PaymentsInv'
  BY PaymentsStep
<1>3. QED
  BY <1>1, <1>2, PaymentsInit, PTL DEF Spec

-----------------------------------------------------------------------------
(***************************************************************************)
(* Payments of one invoice do not overlap.  Then what a request has read   *)
(* is still what is stored when it commits.                                *)
(***************************************************************************)
ReadsCurrent ==
  \A w \in Workers : \A i \in req[w].invoices :
    /\ req[w].pc \in {"sum", "write"} => req[w].status = status[i]
    /\ req[w].pc = "write" =>
         req[w].sum = paid[i] /\ req[w].amount <= charge[StructureOf(i)] - paid[i]

SerialInv ==
  /\ FeesInv
  /\ OnePaymentPerInvoice
  /\ NeverOverpaid
  /\ StatusExact
  /\ ReadsCurrent

LEMMA SerialInvInit == Init => SerialInv
<1> SUFFICES ASSUME Init PROVE SerialInv
  OBVIOUS
<1>1. FeesInv
  BY FeesInvInit
<1>2. \A i \in Invoices : StructureOf(i) \in Structures
  BY DEF Invoices, StructureOf
<1>3. OnePaymentPerInvoice /\ NeverOverpaid /\ StatusExact /\ ReadsCurrent
  BY <1>2 DEF Init, NoRequest, OnePaymentPerInvoice, Paying, NeverOverpaid, StatusExact, ReadsCurrent
<1>4. QED
  BY <1>1, <1>3 DEF SerialInv

LEMMA SerialInvStep == SerialInv /\ [Next /\ OnePaymentPerInvoice']_vars => SerialInv'
<1> SUFFICES ASSUME SerialInv, [Next /\ OnePaymentPerInvoice']_vars PROVE SerialInv'
  OBVIOUS
<1>1. FeesInv /\ FeesInv'
  BY FeesInvStep DEF SerialInv
<1>2. TypeOK /\ TypeOK' /\ StatusHonest /\ StoredSane /\ RequestsSane /\ RequestsSane'
  BY <1>1 DEF FeesInv
<1>3. OnePaymentPerInvoice'
  BY DEF SerialInv, OnePaymentPerInvoice, Paying, vars
<1>4. \A i \in Invoices : StructureOf(i) \in Structures /\ paid[i] \in Nat /\ charge[StructureOf(i)] \in Nat
  BY <1>2 DEF Invoices, StructureOf, TypeOK
<1> DEFINE Rest == NeverOverpaid /\ StatusExact /\ ReadsCurrent
<1>5. Rest
  BY DEF SerialInv
<1>6. ASSUME UNCHANGED books,
             \A w \in Workers : req'[w].pc \in {"sum", "write"} => req'[w] = req[w]
      PROVE  Rest'
  <2>1. UNCHANGED <<charge, status, paid>>
    BY <1>6 DEF books
  <2>2. NeverOverpaid' /\ StatusExact'
    BY <1>5, <2>1 DEF NeverOverpaid, StatusExact
  <2>3. ReadsCurrent'
    <3> SUFFICES ASSUME NEW w \in Workers, NEW i \in req'[w].invoices
                 PROVE  /\ req'[w].pc \in {"sum", "write"} => req'[w].status = status[i]
                        /\ req'[w].pc = "write" =>
                             /\ req'[w].sum = paid[i]
                             /\ req'[w].amount <= charge[StructureOf(i)] - paid[i]
      BY <2>1 DEF ReadsCurrent
    <3>1. CASE req'[w].pc \in {"sum", "write"}
      <4>1. req'[w] = req[w]
        BY <1>6, <3>1
      <4>2. QED
        BY <1>5, <4>1 DEF ReadsCurrent
    <3>2. CASE req'[w].pc \notin {"sum", "write"}
      BY <3>2
    <3>3. QED
      BY <3>1, <3>2
  <2>4. QED
    BY <2>2, <2>3
<1>7. ASSUME NEW w \in Workers, IssueInvoices(w) PROVE Rest'
  <2>1. \A i \in req[w].invoices : status[i] = "none" /\ StructureOf(i) \in req[w].structures
    BY <1>2, <1>7 DEF IssueInvoices, RequestsSane, CreatingSane, Creating, StoredSane, TypeOK, Request
  <2>2. \A f \in Structures : charge'[f] # charge[f] => charge[f] = 0
    BY <1>2, <1>7 DEF IssueInvoices, RequestsSane, CreatingSane, Creating
  <2>3. \A i \in Invoices : charge[StructureOf(i)] > 0 => charge'[StructureOf(i)] = charge[StructureOf(i)]
    BY <1>4, <2>2
  <2>4. \A i \in Invoices : charge'[StructureOf(i)] \in Nat
    BY <1>2, <1>4 DEF TypeOK
  <2>5. UNCHANGED paid
    BY <1>7 DEF IssueInvoices
  <2>6. NeverOverpaid'
    BY <1>4, <1>5, <2>3, <2>4, <2>5 DEF NeverOverpaid
  <2>7. \A i \in req[w].invoices : paid[i] = 0 /\ status'[i] = "unpaid"
    BY <1>2, <1>7, <2>1 DEF IssueInvoices, StatusHonest, TypeOK, Request
  <2>8. \A i \in Invoices \ req[w].invoices : status'[i] = status[i]
    BY <1>7 DEF IssueInvoices
  <2>9. StatusExact'
    BY <1>2, <1>4, <1>5, <2>3, <2>5, <2>7, <2>8 DEF StatusExact, StoredSane
  <2>10. \A v \in Workers : req'[v].pc \in {"sum", "write"} => v # w /\ req'[v] = req[v]
    <3> DEFINE r == [NoRequest EXCEPT !.pc = "notify", !.invoices = req[w].invoices]
    <3>1. r.pc = "notify" /\ NoRequest.pc = "idle"
      BY DEF NoRequest
    <3> HIDE DEF r
    <3>2. req' = [req EXCEPT ![w] = NoRequest] \/ req' = [req EXCEPT ![w] = r]
      BY <1>7 DEF IssueInvoices, Start, Finish, r
    <3>3. QED
      BY <1>2, <3>1, <3>2 DEF TypeOK
  <2>11. \A v \in Workers : req[v].pc \in {"sum", "write"} => \A i \in req[v].invoices :
           i \in Invoices \ req[w].invoices /\ charge[StructureOf(i)] > 0
    BY <1>2, <2>1 DEF RequestsSane, PayingSane, Paying, TypeOK, Request
  <2>12. ReadsCurrent'
    BY <1>5, <2>3, <2>5, <2>8, <2>10, <2>11 DEF ReadsCurrent
  <2>13. QED
    BY <2>6, <2>9, <2>12
<1>8. ASSUME NEW w \in Workers, NEW i \in Invoices, CommitPayment(w, i) PROVE Rest'
  <2>1. /\ UNCHANGED charge
        /\ \A j \in Invoices \ {i} : status'[j] = status[j] /\ paid'[j] = paid[j]
        /\ paid'[i] = paid[i] + req[w].amount
        /\ status'[i] = Flushed(req[w].status, NewStatus(req[w], charge[StructureOf(i)]), status[i])
    BY <1>2, <1>8 DEF CommitPayment, TypeOK
  <2>2. /\ req[w].amount \in Nat /\ req[w].amount > 0
        /\ req[w].sum = paid[i] /\ req[w].amount <= charge[StructureOf(i)] - paid[i]
        /\ req[w].status = status[i] /\ status[i] \in {"unpaid", "partially_paid"}
    BY <1>2, <1>5, <1>8 DEF CommitPayment, RequestsSane, PayingSane, Paying, ReadsCurrent, TypeOK, Request
  <2>3. NeverOverpaid'
    BY <1>4, <1>5, <2>1, <2>2 DEF NeverOverpaid
  <2>4. status'[i] = IF paid'[i] >= charge[StructureOf(i)] THEN "paid" ELSE "partially_paid"
    BY <1>4, <2>1, <2>2 DEF Flushed, NewStatus
  <2>5. StatusExact'
    BY <1>4, <1>5, <2>1, <2>2, <2>4 DEF StatusExact
  <2>6. \A v \in Workers : req'[v].pc \in {"sum", "write"} => v # w /\ req'[v] = req[v]
    BY <1>2, <1>8 DEF CommitPayment, Finish, NoRequest, TypeOK
  <2>7. \A v \in Workers : v # w /\ req[v].pc \in {"sum", "write"} => i \notin req[v].invoices
    BY <1>8 DEF CommitPayment, SerialInv, OnePaymentPerInvoice, Paying
  <2>8. \A v \in Workers : req[v].invoices \subseteq Invoices
    BY <1>2 DEF TypeOK, Request
  <2>9. ReadsCurrent'
    BY <1>5, <2>1, <2>6, <2>7, <2>8 DEF ReadsCurrent
  <2>10. QED
    BY <2>3, <2>5, <2>9
<1>9. ASSUME NEW w \in Workers, NEW i \in Invoices, ReadInvoice(w, i) PROVE Rest'
  <2> DEFINE r == [req[w] EXCEPT !.pc = "sum", !.status = status[i]]
  <2>1. r.pc = "sum" /\ r.status = status[i] /\ r.invoices = req[w].invoices /\ NoRequest.pc = "idle"
    BY <1>2 DEF TypeOK, Request, NoRequest
  <2> HIDE DEF r
  <2>2. /\ UNCHANGED <<charge, status, paid>>
        /\ req' = [req EXCEPT ![w] = NoRequest] \/ req' = [req EXCEPT ![w] = r]
    BY <1>9 DEF ReadInvoice, Start, Finish, books, r
  <2>3. \A j \in req[w].invoices : j = i
    BY <1>2, <1>9 DEF ReadInvoice, RequestsSane, PayingSane, Paying
  <2>4. ReadsCurrent'
    <3>1. \A v \in Workers \ {w} : req'[v] = req[v]
      BY <1>2, <2>2 DEF TypeOK
    <3>2. req'[w] = NoRequest \/ req'[w] = r
      BY <1>2, <2>2 DEF TypeOK
    <3>3. SUFFICES ASSUME NEW v \in Workers, NEW j \in req'[v].invoices
                   PROVE  /\ req'[v].pc \in {"sum", "write"} => req'[v].status = status[j]
                          /\ req'[v].pc = "write" =>
                               /\ req'[v].sum = paid[j]
                               /\ req'[v].amount <= charge[StructureOf(j)] - paid[j]
      BY <2>2 DEF ReadsCurrent
    <3>4. CASE v # w
      BY <1>5, <3>1, <3>4 DEF ReadsCurrent
    <3>5. CASE v = w
      BY <1>5, <2>1, <2>2, <2>3, <3>2, <3>5 DEF ReadsCurrent
    <3>6. QED
      BY <3>4, <3>5
  <2>5. QED
    BY <1>5, <2>2, <2>4 DEF NeverOverpaid, StatusExact
<1>10. ASSUME NEW w \in Workers, NEW i \in Invoices, SumPayments(w, i) PROVE Rest'
  <2> DEFINE r == [req[w] EXCEPT !.pc = "write", !.sum = paid[i]]
  <2>1. /\ r.pc = "write" /\ r.status = req[w].status /\ r.invoices = req[w].invoices
        /\ r.sum = paid[i] /\ r.amount = req[w].amount /\ NoRequest.pc = "idle"
    BY <1>2 DEF TypeOK, Request, NoRequest
  <2> HIDE DEF r
  <2>2. /\ UNCHANGED <<charge, status, paid>>
        /\ req[w].pc = "sum" /\ i \in req[w].invoices
        /\ \/ req' = [req EXCEPT ![w] = NoRequest]
           \/ /\ req' = [req EXCEPT ![w] = r]
              /\ req[w].amount <= charge[StructureOf(i)] - paid[i]
    BY <1>10 DEF SumPayments, Start, Finish, books, r
  <2>3. \A j \in req[w].invoices : j = i
    BY <1>2, <1>10 DEF SumPayments, RequestsSane, PayingSane, Paying
  <2>4. ReadsCurrent'
    <3>1. \A v \in Workers \ {w} : req'[v] = req[v]
      BY <1>2, <2>2 DEF TypeOK
    <3>2. req'[w] = NoRequest \/ (req'[w] = r /\ req[w].amount <= charge[StructureOf(i)] - paid[i])
      BY <1>2, <2>2 DEF TypeOK
    <3>3. SUFFICES ASSUME NEW v \in Workers, NEW j \in req'[v].invoices
                   PROVE  /\ req'[v].pc \in {"sum", "write"} => req'[v].status = status[j]
                          /\ req'[v].pc = "write" =>
                               /\ req'[v].sum = paid[j]
                               /\ req'[v].amount <= charge[StructureOf(j)] - paid[j]
      BY <2>2 DEF ReadsCurrent
    <3>4. CASE v # w
      BY <1>5, <3>1, <3>4 DEF ReadsCurrent
    <3>5. CASE v = w
      BY <1>5, <2>1, <2>2, <2>3, <3>2, <3>5 DEF ReadsCurrent
    <3>6. QED
      BY <3>4, <3>5
  <2>5. QED
    BY <1>5, <2>2, <2>4 DEF NeverOverpaid, StatusExact
<1>11. ASSUME NEW w \in Workers, NEW i \in Invoices, NotifyFeeDue(w, i) \/ NotifyFails(w, i)
       PROVE  Rest'
  <2>1. UNCHANGED books /\ req[w].pc = "notify" /\ DoneWith(w, i)
    BY <1>11 DEF NotifyFeeDue, NotifyFails
  <2>2. \A v \in Workers : req'[v].pc \in {"sum", "write"} => req'[v] = req[v]
    <3> DEFINE r == [req[w] EXCEPT !.invoices = @ \ {i}]
    <3>1. r.pc = "notify" /\ NoRequest.pc = "idle"
      BY <1>2, <2>1 DEF TypeOK, Request, NoRequest
    <3> HIDE DEF r
    <3>2. req' = [req EXCEPT ![w] = NoRequest] \/ req' = [req EXCEPT ![w] = r]
      BY <2>1 DEF DoneWith, Start, Finish, r
    <3>3. QED
      BY <1>2, <3>1, <3>2 DEF TypeOK
  <2>3. QED
    BY <1>6, <2>1, <2>2
<1>12. ASSUME NEW w \in Workers, NEW r \in Request, r.pc \notin {"sum", "write"},
              req' = [req EXCEPT ![w] = r], UNCHANGED books
       PROVE  Rest'
  <2>1. \A v \in Workers : req'[v].pc \in {"sum", "write"} => req'[v] = req[v]
    BY <1>2, <1>12 DEF TypeOK
  <2>2. QED
    BY <1>6, <1>12, <2>1
<1>13. ASSUME NEW w \in Workers, Abort(w) PROVE Rest'
  BY <1>12, <1>13, NoRequestType DEF Abort, Finish, NoRequest
<1>14. ASSUME NEW w \in Workers, NEW f \in Structures, NEW a \in Charges, CreateFeeStructure(w, f, a)
       PROVE  Rest'
  <2> DEFINE r == [NoRequest EXCEPT !.pc = "insert", !.amount = a, !.structures = {f},
                                    !.invoices = EligibleStudents(f) \X {f}]
  <2>1. r \in Request /\ r.pc = "insert"
    BY <1>2, AmountAssumption DEF Request, NoRequest, InvoiceStatus, EligibleStudents, Invoices, TypeOK
  <2> HIDE DEF r
  <2>2. req' = [req EXCEPT ![w] = r] /\ UNCHANGED books
    BY <1>14 DEF CreateFeeStructure, Start, r
  <2>3. QED
    BY <1>12, <2>1, <2>2
<1>15. ASSUME NEW w \in Workers, NEW S \in SUBSET Students, NotifyOverdueAccounts(w, S) PROVE Rest'
  <2> DEFINE targets == {i \in OverdueAccounts : i[1] \in S}
             r == [NoRequest EXCEPT !.pc = "notify", !.reminder = TRUE, !.invoices = targets]
  <2>1. targets \in SUBSET Invoices
    BY DEF OverdueAccounts
  <2>2. r \in Request /\ r.pc = "notify"
    BY <2>1 DEF Request, NoRequest, InvoiceStatus
  <2> HIDE DEF targets, r
  <2>3. req' = [req EXCEPT ![w] = r] /\ UNCHANGED books
    BY <1>15 DEF NotifyOverdueAccounts, Start, targets, r
  <2>4. QED
    BY <1>12, <2>2, <2>3
<1>16. ASSUME NEW w \in Workers, NEW i \in Invoices, NEW a \in Amounts, RecordPayment(w, i, a)
       PROVE  Rest'
  <2> DEFINE r == [NoRequest EXCEPT !.pc = "invoice", !.invoices = {i}, !.amount = a]
  <2>1. r \in Request /\ r.pc = "invoice"
    BY AmountAssumption DEF Request, NoRequest, InvoiceStatus
  <2> HIDE DEF r
  <2>2. req' = [req EXCEPT ![w] = r] /\ UNCHANGED books
    BY <1>16 DEF RecordPayment, Start, r
  <2>3. QED
    BY <1>12, <2>1, <2>2
<1>17. ASSUME UNCHANGED <<books, req>> PROVE Rest'
  BY <1>6, <1>17 DEF books
<1>18. Rest'
  BY <1>7, <1>8, <1>9, <1>10, <1>11, <1>13, <1>14, <1>15, <1>16, <1>17
     DEF Next, Environment, CreateFees, Dispatch, Pay, CreateEnrollment, UpdateStudent,
         DueDatePasses, vars, books
<1>19. QED
  BY <1>1, <1>3, <1>18 DEF SerialInv

THEOREM FeesSerialInvariant == SerialSpec => []SerialInv
<1>1. QED
  BY SerialInvInit, SerialInvStep, PTL DEF SerialSpec

(***************************************************************************)
(* VR-008 holds when payments of one invoice do not overlap: payments      *)
(* recorded never exceed the fee.                                          *)
(***************************************************************************)
THEOREM FeesNeverOverpaid == SerialSpec => []NeverOverpaid
<1>1. SerialInv => NeverOverpaid
  BY DEF SerialInv
<1>2. QED
  BY <1>1, FeesSerialInvariant, PTL

(***************************************************************************)
(* ... and the stored status is the one the payments call for.             *)
(***************************************************************************)
THEOREM FeesStatusExact == SerialSpec => []StatusExact
<1>1. SerialInv => StatusExact
  BY DEF SerialInv
<1>2. QED
  BY <1>1, FeesSerialInvariant, PTL

(***************************************************************************)
(* ... so that nobody who owes nothing is listed as overdue.               *)
(***************************************************************************)
THEOREM FeesOverdueOwes == SerialSpec => []OverdueOwes
<1>1. SerialInv => OverdueOwes
  <2> SUFFICES ASSUME SerialInv, NEW i \in OverdueAccounts PROVE AmountDue(i) > 0
    BY DEF OverdueOwes
  <2>1. i \in Invoices /\ status[i] \in {"unpaid", "partially_paid"}
    BY DEF OverdueAccounts
  <2>2. charge[StructureOf(i)] \in Nat /\ paid[i] \in Nat /\ charge[StructureOf(i)] > 0
    BY <2>1 DEF SerialInv, FeesInv, TypeOK, StoredSane, Invoices, StructureOf
  <2>3. paid[i] < charge[StructureOf(i)]
    BY <2>1, <2>2 DEF SerialInv, StatusExact
  <2>4. QED
    BY <2>2, <2>3 DEF AmountDue
<1>2. QED
  BY <1>1, FeesSerialInvariant, PTL

(***************************************************************************)
(* ... and a settled invoice stays settled.                                *)
(***************************************************************************)
THEOREM FeesSettledStaysSettled == SerialSpec => SettledStaysSettled
<1>1. SerialInv /\ SerialInv' /\ [Next /\ OnePaymentPerInvoice']_vars =>
        [\A i \in Invoices : status[i] = "paid" => status'[i] = "paid"]_vars
  <2> SUFFICES ASSUME SerialInv, SerialInv', [Next /\ OnePaymentPerInvoice']_vars,
                      NEW i \in Invoices, status[i] = "paid"
               PROVE  status'[i] = "paid"
    OBVIOUS
  <2>1. FeesInv /\ [Next]_vars
    BY DEF SerialInv
  <2>2. charge[StructureOf(i)] > 0 /\ StructureOf(i) \in Structures
    BY DEF SerialInv, FeesInv, StoredSane, Invoices, StructureOf
  <2>3. paid'[i] >= paid[i] /\ charge'[StructureOf(i)] = charge[StructureOf(i)] /\ status'[i] # "none"
    BY <2>1, <2>2, BooksStep
  <2>4. paid[i] \in Nat /\ paid'[i] \in Nat /\ charge[StructureOf(i)] \in Nat
    BY <2>2 DEF SerialInv, FeesInv, TypeOK
  <2>5. paid[i] >= charge[StructureOf(i)]
    BY DEF SerialInv, FeesInv, StatusHonest
  <2>6. paid'[i] >= charge'[StructureOf(i)] /\ paid'[i] > 0
    BY <2>2, <2>3, <2>4, <2>5
  <2>7. QED
    BY <2>3, <2>4, <2>6 DEF SerialInv, StatusExact
<1>2. QED
  BY <1>1, FeesSerialInvariant, PTL DEF SerialSpec, SettledStaysSettled

-----------------------------------------------------------------------------
(***************************************************************************)
(* Refinement: with payments of one invoice kept apart, the request        *)
(* handlers implement the ledger.  Committing invoices is Bill, committing *)
(* a payment is Pay, every other step leaves the ledger as it is.          *)
(***************************************************************************)
LEMMA LedgerStep ==
  SerialInv /\ SerialInv' /\ [Next /\ OnePaymentPerInvoice']_vars => [Books!Next]_(Books!vars)
<1> SUFFICES ASSUME SerialInv, SerialInv', [Next /\ OnePaymentPerInvoice']_vars
             PROVE  Books!Next \/ UNCHANGED <<Billed, paid, Settled>>
  BY DEF Books!vars
<1>1. TypeOK /\ TypeOK' /\ StatusHonest /\ StoredSane /\ RequestsSane /\ ReadsCurrent /\ StatusExact /\ StatusExact'
  BY DEF SerialInv, FeesInv
<1>2. \A i \in Invoices : StructureOf(i) \in Structures /\ paid[i] \in Nat /\ charge[StructureOf(i)] \in Nat
  BY <1>1 DEF Invoices, StructureOf, TypeOK
<1>3. ASSUME UNCHANGED books PROVE UNCHANGED <<Billed, paid, Settled>>
  BY <1>3 DEF books, Billed, Settled
<1>4. ASSUME NEW w \in Workers, IssueInvoices(w) PROVE Books!Next
  <2> DEFINE S == req[w].invoices
             a == req[w].amount
  <2>1. /\ S \in SUBSET Invoices
        /\ a \in Charges
        /\ \A f \in req[w].structures : charge[f] = 0
        /\ \A i \in S : StructureOf(i) \in req[w].structures
    BY <1>1, <1>4 DEF IssueInvoices, RequestsSane, CreatingSane, Creating, TypeOK, Request
  <2>2. \A i \in S : status[i] = "none"
    BY <1>1, <2>1 DEF StoredSane
  <2>3. Billed' = [i \in Invoices |-> IF i \in S THEN a ELSE Billed[i]]
    <3>1. \A i \in S : status'[i] = "unpaid" /\ charge'[StructureOf(i)] = a
      BY <1>2, <1>4, <2>1 DEF IssueInvoices
    <3>2. \A i \in Invoices \ S : status'[i] = status[i]
      BY <1>4 DEF IssueInvoices
    <3>3. \A i \in Invoices : status[i] # "none" => charge'[StructureOf(i)] = charge[StructureOf(i)]
      BY <1>1, <1>2, <1>4, <2>1 DEF IssueInvoices, StoredSane
    <3>4. QED
      BY <3>1, <3>2, <3>3 DEF Billed
  <2>4. Settled' = Settled
    BY <1>4, <2>2 DEF IssueInvoices, Settled
  <2>5. UNCHANGED paid
    BY <1>4 DEF IssueInvoices
  <2>6. \A i \in S : Billed[i] = 0
    BY <2>1, <2>2 DEF Billed
  <2>7. Books!Bill(S, a)
    BY <2>3, <2>4, <2>5, <2>6 DEF Books!Bill
  <2>8. QED
    BY <2>1, <2>7 DEF Books!Next
<1>5. ASSUME NEW w \in Workers, NEW i \in Invoices, CommitPayment(w, i) PROVE Books!Next
  <2> DEFINE a == req[w].amount
  <2>1. /\ a \in Amounts /\ a \in Nat /\ a > 0
        /\ status[i] \in {"unpaid", "partially_paid"} /\ req[w].status = status[i]
        /\ req[w].sum = paid[i] /\ a <= charge[StructureOf(i)] - paid[i]
    BY <1>1, <1>5 DEF CommitPayment, RequestsSane, PayingSane, Paying, ReadsCurrent, TypeOK, Request
  <2>2. /\ UNCHANGED charge
        /\ paid' = [paid EXCEPT ![i] = @ + a]
        /\ \A j \in Invoices \ {i} : status'[j] = status[j]
        /\ status'[i] = Flushed(req[w].status, NewStatus(req[w], charge[StructureOf(i)]), status[i])
    BY <1>1, <1>5 DEF CommitPayment, TypeOK
  <2>3. status'[i] = IF a = charge[StructureOf(i)] - paid[i] THEN "paid" ELSE "partially_paid"
    BY <1>2, <2>1, <2>2 DEF Flushed, NewStatus
  <2>4. Billed' = Billed /\ Billed[i] = charge[StructureOf(i)]
    BY <2>1, <2>2, <2>3 DEF Billed
  <2>5. Settled' = IF a = charge[StructureOf(i)] - paid[i] THEN Settled \cup {i} ELSE Settled
    BY <2>1, <2>2, <2>3 DEF Settled
  <2>6. Books!Pay(i, a)
    BY <2>1, <2>2, <2>4, <2>5 DEF Books!Pay, Books!Balance
  <2>7. QED
    BY <2>1, <2>6 DEF Books!Next
<1>6. ASSUME NEW w \in Workers, CreateFees(w) \/ Dispatch(w) \/ Pay(w) \/ Abort(w),
             ~ IssueInvoices(w), \A i \in Invoices : ~ CommitPayment(w, i)
      PROVE  UNCHANGED books
  BY <1>6 DEF CreateFees, Dispatch, Pay, CreateFeeStructure, NotifyFeeDue, NotifyFails,
              NotifyOverdueAccounts, RecordPayment, ReadInvoice, SumPayments, Abort
<1>7. ASSUME Environment \/ UNCHANGED vars PROVE UNCHANGED books
  BY <1>7 DEF Environment, CreateEnrollment, UpdateStudent, DueDatePasses, vars, books
<1>8. QED
  BY <1>3, <1>4, <1>5, <1>6, <1>7 DEF Next

THEOREM FeesImplementLedger == SerialSpec => LedgerSpec
<1>1. Init => Books!Init
  BY DEF Init, Books!Init, Billed, Settled
<1>2. QED
  BY <1>1, LedgerStep, FeesSerialInvariant, PTL DEF SerialSpec, LedgerSpec, Books!Spec
=============================================================================
