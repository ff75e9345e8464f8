------------------------------- MODULE Ledger -------------------------------
(***************************************************************************)
(* What the fee service promises about money, with nothing of how requests *)
(* are served: accounts are billed, payments are taken against the balance *)
(* one at a time, and an account is settled by the payment that covers it. *)
(***************************************************************************)
EXTENDS Integers

CONSTANTS
  Accounts,
  Sums       \* the amounts that may be billed or paid, all positive

VARIABLES
  billed,    \* amount billed to an account; 0 before it is billed
  received,  \* sum of the payments taken for it
  settled    \* accounts marked as paid

vars == <<billed, received, settled>>

Balance(i) == billed[i] - received[i]

Init ==
  /\ billed = [i \in Accounts |-> 0]
  /\ received = [i \in Accounts |-> 0]
  /\ settled = {}

\* A set of accounts is billed the same amount, each for the first time.
Bill(S, a) ==
  /\ \A i \in S : billed[i] = 0
  /\ billed' = [i \in Accounts |-> IF i \in S THEN a ELSE billed[i]]
  /\ UNCHANGED <<received, settled>>

\* A payment never exceeds the balance; the one that meets it settles.
Pay(i, a) ==
  /\ a <= Balance(i)
  /\ received' = [received EXCEPT ![i] = @ + a]
  /\ settled' = IF a = Balance(i) THEN settled \cup {i} ELSE settled
  /\ UNCHANGED billed

Next ==
  \/ \E S \in SUBSET Accounts, a \in Sums : Bill(S, a)
  \/ \E i \in Accounts, a \in Sums : Pay(i, a)

Spec == Init /\ [][Next]_vars
=============================================================================
