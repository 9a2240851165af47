---------------------------- MODULE MCBrokerFanout -----------------------------
(***************************************************************************)
(* BrokerFanout for TLC.  Three fleets: two stages and two worker streams; *)
(* one stage, two streams and readiness flips; the mesh, with a stage of   *)
(* this broker, one of its peer, and one stream.                           *)
(***************************************************************************)
EXTENDS BrokerFanout

CONSTANTS t1, t2, r1, s1, s2

ThreeFleets ==
    {[stages |-> {t1, t2}, streams |-> {s1, s2}, mesh |-> FALSE, flips |-> 0],
     [stages |-> {t1}, streams |-> {s1, s2}, mesh |-> FALSE, flips |-> 2],
     [stages |-> {t1, r1}, streams |-> {s1}, mesh |-> TRUE, flips |-> 0]}

(* TLC evaluates a plain definition once, one that the cfg substitutes at  *)
(* each use.                                                               *)
MCFleets == ThreeFleets
================================================================================
