---------------------------- MODULE MCRequestPool ----------------------------
(* Three requests, two threads, one connection: a request can hold the     *)
(* connection while the two others hold the threads.                       *)
EXTENDS RequestPool

CONSTANTS r1, r2, r3
=============================================================================
