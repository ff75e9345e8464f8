----------------------------- MODULE MCSessions -----------------------------
(* Two tabs and two calls, from one of them or from both.                  *)
EXTENDS Sessions

CONSTANTS t1, t2, c1, c2
=============================================================================
