---------------------------- MODULE MCWorkQueue ----------------------------
(* Model values for WorkQueue.                                             *)
EXTENDS WorkQueue

CONSTANTS r1, p1, p2
=============================================================================
