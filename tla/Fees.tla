-------------------------------- MODULE Fees --------------------------------
(***************************************************************************)
(* Fee structures, invoices and payments: fee_service.FeeService over      *)
(* fee_repository.FeeRepository, as request handlers that run in parallel. *)
(*                                                                         *)
(* A worker is a thread that runs one request at a time, with a database   *)
(* session of its own at READ COMMITTED.  Every SELECT is a step that sees *)
(* what is committed at that moment; what a handler writes is invisible    *)
(* until its commit, where it takes effect in one step.  No row is locked  *)
(* by a SELECT anywhere in the service.                                    *)
(***************************************************************************)
EXTENDS Integers, FiniteSets

CONSTANTS
  Workers,      \* threads that run request handlers
  Students,     \* rows of student
  Departments,  \* rows of department
  Structures,   \* ids a POST /fees may be given (fresh uuids)
  Scope,        \* Scope[f]: the departments fee structure f covers
  Charges,      \* amounts a fee structure may have
  Amounts,      \* amounts a payment may have
  MaxReminders  \* bound: overdue reminders sent for one invoice

Invoices == Students \X Structures
StructureOf(i) == i[2]

ASSUME ScopeAssumption == Scope \in [Structures -> SUBSET Departments]
\* schemas/fee.py and the CHECK constraints: amounts are greater than zero.
ASSUME AmountAssumption == Charges \subseteq Nat \ {0} /\ Amounts \subseteq Nat \ {0}
\* The thread pool is limited.
ASSUME WorkersAssumption == IsFiniteSet(Workers)
ASSUME ReminderAssumption == MaxReminders \in Nat

VARIABLES
  active,      \* user.is_active of each student
  enrolled,    \* students with an enrollment in the semester billed
  department,  \* student.department_id
  charge,      \* fee_structure.amount; 0 while the row does not exist
  pastDue,     \* fee structures whose due_date has passed
  status,      \* invoice.status; "none" while the row does not exist
  paid,        \* SUM(payment.amount) over one invoice's payment rows
  feeDue,      \* committed fee_due dispatches for an invoice: at issue, later
  req          \* what each worker is doing, and what its session has read

eligibility == <<active, enrolled, department>>
books == <<charge, status, paid>>
vars == <<active, enrolled, department, charge, pastDue, status, paid, feeDue, req>>

InvoiceStatus == {"unpaid", "partially_paid", "paid"}

Request ==
  [ pc       : {"idle", "insert", "notify", "invoice", "sum", "write"},
    structures : SUBSET Structures,         \* insert: the new fee structure
    invoices : SUBSET Invoices,             \* to create, to notify, to pay
    amount   : Nat,                         \* payload.amount
    status   : InvoiceStatus \cup {"none"}, \* invoice.status as loaded
    sum      : Nat,                         \* paid_so_far as loaded
    reminder : BOOLEAN ]                    \* notify: an overdue reminder

NoRequest == [pc |-> "idle", structures |-> {}, invoices |-> {}, amount |-> 0,
              status |-> "none", sum |-> 0, reminder |-> FALSE]

(***************************************************************************)
(* The type invariant.                                                     *)
(***************************************************************************)
TypeOK ==
  /\ active \in [Students -> BOOLEAN]
  /\ enrolled \subseteq Students
  /\ department \in [Students -> Departments]
  /\ charge \in [Structures -> Nat]
  /\ pastDue \subseteq Structures
  /\ status \in [Invoices -> InvoiceStatus \cup {"none"}]
  /\ paid \in [Invoices -> Nat]
  /\ feeDue \in [Invoices -> [issue : Nat, reminder : Nat]]
  /\ req \in [Workers -> Request]

Init ==
  /\ active = [s \in Students |-> TRUE]
  /\ enrolled = {}
  /\ department \in [Students -> Departments]
  /\ charge = [f \in Structures |-> 0]
  /\ pastDue = {}
  /\ status = [i \in Invoices |-> "none"]
  /\ paid = [i \in Invoices |-> 0]
  /\ feeDue = [i \in Invoices |-> [issue |-> 0, reminder |-> 0]]
  /\ req = [w \in Workers |-> NoRequest]

Idle(w) == req[w].pc = "idle"
Start(w, r) == req' = [req EXCEPT ![w] = r]
Finish(w) == req' = [req EXCEPT ![w] = NoRequest]

-----------------------------------------------------------------------------
(***************************************************************************)
(* What other services and the calendar do to the rows fees are about.     *)
(***************************************************************************)

\* schedule_service.create_enrollment.
CreateEnrollment(s) ==
  /\ s \notin enrolled
  /\ enrolled' = enrolled \cup {s}
  /\ UNCHANGED <<active, department, books, pastDue, feeDue, req>>

\* user_service.update_student and deactivate_student: the fields fees read.
UpdateStudent(s) ==
  /\ \E a \in BOOLEAN, d \in Departments :
       /\ active' = [active EXCEPT ![s] = a]
       /\ department' = [department EXCEPT ![s] = d]
  /\ UNCHANGED <<enrolled, books, pastDue, feeDue, req>>

\* date.today() moves past the due date.
DueDatePasses(f) ==
  /\ charge[f] > 0
  /\ f \notin pastDue
  /\ pastDue' = pastDue \cup {f}
  /\ UNCHANGED <<eligibility, books, feeDue, req>>

-----------------------------------------------------------------------------
(***************************************************************************)
(* POST /fees: create_fee_structure.                                       *)
(***************************************************************************)

\* list_eligible_students: one query.
EligibleStudents(f) ==
  {s \in enrolled : active[s] /\ department[s] \in Scope[f]}

\* A uuid is given out once, also while its row is not yet committed.
FreshStructure(f) ==
  /\ charge[f] = 0
  /\ \A w \in Workers : f \notin req[w].structures

\* The structure is flushed and the eligible students are selected.
CreateFeeStructure(w, f, a) ==
  /\ Idle(w)
  /\ FreshStructure(f)
  /\ Start(w, [NoRequest EXCEPT !.pc = "insert", !.amount = a, !.structures = {f},
                                !.invoices = EligibleStudents(f) \X {f}])
  /\ UNCHANGED <<eligibility, books, pastDue, feeDue>>

\* The commit: the structure and one unpaid invoice for each selected student.
IssueInvoices(w) ==
  /\ req[w].pc = "insert"
  /\ charge' = [f \in Structures |->
                  IF f \in req[w].structures THEN req[w].amount ELSE charge[f]]
  /\ status' = [i \in Invoices |->
                  IF i \in req[w].invoices THEN "unpaid" ELSE status[i]]
  /\ IF req[w].invoices = {}
     THEN Finish(w)
     ELSE Start(w, [NoRequest EXCEPT !.pc = "notify", !.invoices = req[w].invoices])
  /\ UNCHANGED <<eligibility, paid, pastDue, feeDue>>

-----------------------------------------------------------------------------
(***************************************************************************)
(* The fee_due dispatch loop, shared by POST /fees and the overdue notice. *)
(* Each call of dispatcher.notify_fee_due is a transaction of its own that *)
(* _safe_dispatch commits, or rolls back and logs.                         *)
(***************************************************************************)

\* Mutant: the loop does not move on after a dispatch.
DoneWithNothing(w, i) == UNCHANGED req

DoneWith(w, i) ==
  IF req[w].invoices = {i}
  THEN Finish(w)
  ELSE Start(w, [req[w] EXCEPT !.invoices = @ \ {i}])

NotifyFeeDue(w, i) ==
  /\ req[w].pc = "notify"
  /\ i \in req[w].invoices
  /\ feeDue' = IF req[w].reminder
               THEN [feeDue EXCEPT ![i].reminder = @ + 1]
               ELSE [feeDue EXCEPT ![i].issue = @ + 1]
  /\ DoneWith(w, i)
  /\ UNCHANGED <<eligibility, books, pastDue>>

NotifyFails(w, i) ==
  /\ req[w].pc = "notify"
  /\ i \in req[w].invoices
  /\ DoneWith(w, i)
  /\ UNCHANGED <<eligibility, books, pastDue, feeDue>>

\* list_unpaid_or_partial_invoices, and the due date compared with today.
OverdueAccounts ==
  {i \in Invoices : status[i] \in {"unpaid", "partially_paid"} /\ StructureOf(i) \in pastDue}

\* amount_due of an account: never shown below zero.
AmountDue(i) ==
  IF charge[StructureOf(i)] > paid[i] THEN charge[StructureOf(i)] - paid[i] ELSE 0

\* POST /fees/overdue/notify: every overdue account, or those of the
\* students selected, each of whom must have one.
NotifyOverdueAccounts(w, S) ==
  /\ Idle(w)
  /\ \A s \in S : \E i \in OverdueAccounts : i[1] = s
  /\ LET targets == {i \in OverdueAccounts : i[1] \in S}
     IN /\ targets # {}
        /\ \A i \in targets : feeDue[i].reminder < MaxReminders
        /\ Start(w, [NoRequest EXCEPT !.pc = "notify", !.reminder = TRUE,
                                      !.invoices = targets])
  /\ UNCHANGED <<eligibility, books, pastDue, feeDue>>

-----------------------------------------------------------------------------
(***************************************************************************)
(* POST /fees/payments: record_payment.                                    *)
(***************************************************************************)

\* The student is active and the fee structure exists.
RecordPayment(w, i, a) ==
  /\ Idle(w)
  /\ active[i[1]]
  /\ charge[StructureOf(i)] > 0
  /\ Start(w, [NoRequest EXCEPT !.pc = "invoice", !.invoices = {i}, !.amount = a])
  /\ UNCHANGED <<eligibility, books, pastDue, feeDue>>

\* get_invoice_by_student_fee_structure: 404 without one, 409 when paid.
ReadInvoice(w, i) ==
  /\ req[w].pc = "invoice"
  /\ i \in req[w].invoices
  /\ \/ /\ status[i] \in {"unpaid", "partially_paid"}
        /\ Start(w, [req[w] EXCEPT !.pc = "sum", !.status = status[i]])
     \/ /\ status[i] \in {"none", "paid"}
        /\ Finish(w)
  /\ UNCHANGED <<eligibility, books, pastDue, feeDue>>

\* Mutant: the balance is not checked.
SumPaymentsUnchecked(w, i) ==
  /\ req[w].pc = "sum"
  /\ i \in req[w].invoices
  /\ Start(w, [req[w] EXCEPT !.pc = "write", !.sum = paid[i]])
  /\ UNCHANGED <<eligibility, books, pastDue, feeDue>>

\* sum_payments: 409 when the payment exceeds what the sum leaves.
SumPayments(w, i) ==
  /\ req[w].pc = "sum"
  /\ i \in req[w].invoices
  /\ \/ /\ req[w].amount <= charge[StructureOf(i)] - paid[i]
        /\ Start(w, [req[w] EXCEPT !.pc = "write", !.sum = paid[i]])
     \/ /\ req[w].amount > charge[StructureOf(i)] - paid[i]
        /\ Finish(w)
  /\ UNCHANGED <<eligibility, books, pastDue, feeDue>>

\* Mutants: the payment itself is left out of the total; the last unit is
\* waived.
NewStatusBefore(r, due) == IF r.sum >= due THEN "paid" ELSE "partially_paid"
NewStatusWaived(r, due) == IF r.sum + r.amount + 1 >= due THEN "paid" ELSE "partially_paid"

\* new_status, from the sum that was read.
NewStatus(r, due) == IF r.sum + r.amount >= due THEN "paid" ELSE "partially_paid"

\* Mutant: only the first payment writes the status.
FlushedOnce(loaded, new, stored) == IF loaded = "unpaid" THEN new ELSE stored

\* The ORM emits an UPDATE only for an attribute that differs from the value
\* it loaded.
Flushed(loaded, new, stored) == IF new = loaded THEN stored ELSE new

\* Mutant: a running total computed from the sum read is stored.
CommitRunningTotal(w, i) ==
  /\ req[w].pc = "write"
  /\ i \in req[w].invoices
  /\ paid' = [paid EXCEPT ![i] = req[w].sum + req[w].amount]
  /\ status' = [status EXCEPT ![i] = NewStatus(req[w], charge[StructureOf(i)])]
  /\ Finish(w)
  /\ UNCHANGED <<eligibility, charge, pastDue, feeDue>>

\* The commit: the payment row and the status.
CommitPayment(w, i) ==
  /\ req[w].pc = "write"
  /\ i \in req[w].invoices
  /\ paid' = [paid EXCEPT ![i] = @ + req[w].amount]
  /\ status' = [status EXCEPT
       ![i] = Flushed(req[w].status, NewStatus(req[w], charge[StructureOf(i)]), @)]
  /\ Finish(w)
  /\ UNCHANGED <<eligibility, charge, pastDue, feeDue>>

-----------------------------------------------------------------------------
\* The request dies (process stopped, connection lost, unhandled error): its
\* session is closed, and what it had not committed is rolled back.
Abort(w) ==
  /\ ~ Idle(w)
  /\ Finish(w)
  /\ UNCHANGED <<eligibility, books, pastDue, feeDue>>

CreateFees(w) ==
  \/ \E f \in Structures, a \in Charges : CreateFeeStructure(w, f, a)
  \/ IssueInvoices(w)

Dispatch(w) ==
  \/ \E i \in Invoices : NotifyFeeDue(w, i) \/ NotifyFails(w, i)
  \/ \E S \in SUBSET Students : NotifyOverdueAccounts(w, S)

Pay(w) ==
  \E i \in Invoices :
    \/ \E a \in Amounts : RecordPayment(w, i, a)
    \/ ReadInvoice(w, i)
    \/ SumPayments(w, i)
    \/ CommitPayment(w, i)

Environment ==
  \/ \E s \in Students : CreateEnrollment(s) \/ UpdateStudent(s)
  \/ \E f \in Structures : DueDatePasses(f)

Next ==
  \/ Environment
  \/ \E w \in Workers : CreateFees(w) \/ Dispatch(w) \/ Pay(w) \/ Abort(w)

Spec == Init /\ [][Next]_vars

-----------------------------------------------------------------------------
(***************************************************************************)
(* The same system when the admins never handle two payments of one        *)
(* invoice at the same time: the only interleaving the tests exercise.     *)
(* Everything else still runs in parallel.                                 *)
(***************************************************************************)
Paying(w) == req[w].pc \in {"invoice", "sum", "write"}

OnePaymentPerInvoice ==
  \A v, w \in Workers :
    v # w /\ Paying(v) /\ Paying(w) => req[v].invoices \cap req[w].invoices = {}

SerialSpec == Init /\ [][Next /\ OnePaymentPerInvoice']_vars

-----------------------------------------------------------------------------
(***************************************************************************)
(* What holds whatever runs in parallel.                                   *)
(***************************************************************************)

\* However payments interleave, an invoice says "unpaid" only while no money
\* was recorded on it, and says "paid" only when the payments recorded cover
\* the fee; money is never recorded where there is no invoice.  (The status
\* is derived in record_payment from a sum that may be out of date, and is
\* written only when it differs from the one loaded.)
StatusHonest ==
  \A i \in Invoices :
    /\ status[i] = "none" => paid[i] = 0
    /\ status[i] = "unpaid" => paid[i] = 0
    /\ status[i] = "partially_paid" => paid[i] > 0
    /\ status[i] = "paid" => paid[i] >= charge[StructureOf(i)]

\* Requests that overlap may record more than the fee, but no more than each
\* of them its own full amount: the check against the sum that was read still
\* stops the first payment that starts after the fee is covered.
OverpaymentBounded ==
  \A i \in Invoices : paid[i] <= Cardinality(Workers) * charge[StructureOf(i)]

\* A fee_due notice tells of something committed: dispatch comes after the
\* commit that issues the invoice, at most once for it, and a reminder goes
\* only to accounts past due (dispatcher.py, Domain Rule 4).
NoticesFollowCommits ==
  \A i \in Invoices :
    /\ feeDue[i].issue <= 1
    /\ feeDue[i].issue > 0 => status[i] # "none"
    /\ feeDue[i].reminder > 0 => status[i] # "none" /\ StructureOf(i) \in pastDue

\* Invoices of a fee structure come into being with it, in one commit, and
\* what is recorded stays: no payment or invoice disappears and no amount of
\* a fee structure changes, whichever request fails at whichever point.
BooksOnlyGrow ==
  [][/\ \A f \in Structures : charge[f] > 0 => charge'[f] = charge[f]
     /\ \A i \in Invoices :
          /\ paid'[i] >= paid[i]
          /\ status[i] # "none" => status'[i] # "none"
          /\ status[i] = "none" /\ status'[i] # "none" =>
               charge[StructureOf(i)] = 0 /\ charge'[StructureOf(i)] > 0]_vars

-----------------------------------------------------------------------------
(***************************************************************************)
(* What the documents say, and what holds when payments of one invoice do  *)
(* not overlap.                                                            *)
(***************************************************************************)

\* VR-008 (docs/Requirement_Analysis.md:319): recorded payments never exceed
\* the fee.
NeverOverpaid == \A i \in Invoices : paid[i] <= charge[StructureOf(i)]

\* The stored status is the one the recorded payments call for.
StatusExact ==
  \A i \in Invoices :
    status[i] # "none" =>
      status[i] = CASE paid[i] = 0 -> "unpaid"
                    [] paid[i] > 0 /\ paid[i] < charge[StructureOf(i)] -> "partially_paid"
                    [] paid[i] > 0 /\ paid[i] >= charge[StructureOf(i)] -> "paid"

\* Whoever is listed (and reminded) as overdue owes something.
OverdueOwes == \A i \in OverdueAccounts : AmountDue(i) > 0

\* docs/Database_Design.md:601: unpaid, then partially paid, then paid; an
\* invoice that was settled does not become partially paid again.
SettledStaysSettled ==
  [][\A i \in Invoices : status[i] = "paid" => status'[i] = "paid"]_vars

(***************************************************************************)
(* The ledger the service keeps: an invoice is billed once, and a payment  *)
(* is taken against the balance in one step.                               *)
(***************************************************************************)
Billed == [i \in Invoices |-> IF status[i] = "none" THEN 0 ELSE charge[StructureOf(i)]]
Settled == {i \in Invoices : status[i] = "paid"}

Books == INSTANCE Ledger WITH Accounts <- Invoices, Sums <- Charges \cup Amounts,
                              billed <- Billed, received <- paid, settled <- Settled

LedgerSpec == Books!Spec
=============================================================================
