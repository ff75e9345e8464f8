------------------------------ MODULE MCAlembic ------------------------------
(* Two processes that may run commands at the same time.                   *)
EXTENDS Alembic, TLC

Symmetry == Permutations(Procs)

=============================================================================
