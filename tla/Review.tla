------------------------------- MODULE Review -------------------------------
(***************************************************************************)
(* What the review of results promises: a grade is submitted, then         *)
(* published or rejected; only a rejected one may be submitted again; what *)
(* is published never changes, and neither does what is being reviewed.    *)
(***************************************************************************)
CONSTANTS People, Marks, Nobody

VARIABLE book    \* book[p]: the state of p's result and its grade

Blank == [state |-> "none", mark |-> Nobody]
Open(p) == book[p].state \in {"none", "rejected"}

Init == book = [p \in People |-> Blank]

\* Somebody submits, or submits again, the grades of a batch of people.
Submit(P, marks) ==
  /\ \A p \in P : Open(p)
  /\ book' = [p \in People |->
                IF p \in P THEN [state |-> "submitted", mark |-> marks[p]] ELSE book[p]]

\* Somebody else decides about one of them.
Decide(p, state) ==
  /\ book[p].state = "submitted"
  /\ book' = [book EXCEPT ![p].state = state]

Next ==
  \/ \E P \in SUBSET People : \E marks \in [P -> Marks] : Submit(P, marks)
  \/ \E p \in People : Decide(p, "published") \/ Decide(p, "rejected")

Spec == Init /\ [][Next]_book
=============================================================================
