----------------------------- MODULE MCCascade -----------------------------
(* Instances of Cascade for TLC: two children in different bands, either   *)
(* independent (the straddle) or chained by one value flow.                *)
EXTENDS Cascade

CONSTANTS root, k1, k2, b1, b2

Bandings == [r \in {root, k1, k2} |-> IF r = k2 THEN b2 ELSE b1]

Chained  == [deps |-> {<<k2, k1>>}, recomposes |-> FALSE]
Separate == [deps |-> {}, recomposes |-> TRUE]

BothKinds == {Chained, Separate}

(* TLC evaluates a plain definition once, one that the cfg substitutes at  *)
(* each use.                                                               *)
MCBandOf == Bandings
MCRootKinds == BothKinds
=============================================================================
