------------------------------ MODULE MCSharding ------------------------------
(* An instance of Sharding for TLC: two brokers around a control pod.      *)
EXTENDS Sharding

Mixed == [m \in Members |-> IF m = 2 THEN "control" ELSE "broker"]

(* TLC evaluates a plain definition once, one that the cfg substitutes at  *)
(* each use.                                                               *)
MCRole == Mixed
===============================================================================
