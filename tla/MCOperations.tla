--------------------------- MODULE MCOperations ---------------------------
(* Two operations on one resource, two pods.                               *)
EXTENDS Operations

CONSTANTS o1, o2, p1, p2
=============================================================================
