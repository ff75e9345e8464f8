------------------------------- MODULE MCFees -------------------------------
(* Instances of Fees for TLC. *)
EXTENDS Fees, TLC

CONSTANTS w1, w2, w3, s1, s2, d1, d2, f1, f2

\* The first structure covers one department, the second the university.
MCScope == (f1 :> {d1}) @@ (f2 :> {d1, d2})
MCScopeOne == f1 :> {d1}

MCSymmetry == Permutations(Workers)
=============================================================================
