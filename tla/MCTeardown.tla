---------------------------- MODULE MCTeardown ----------------------------
(* Instances of Teardown for TLC: two children, the second depending on    *)
(* the first or not, under a composer that is stable or drops children,    *)
(* at once or after a grace period.                                        *)
EXTENDS Teardown

CONSTANTS root, k1, k2

Any      == {root, k1, k2}

Chained  == [deps |-> {<<k2, k1>>}, outputs |-> {{k1, k2}},
             finalized |-> Any, graced |-> {}]
Pruning  == [deps |-> {}, outputs |-> {{}, {k2}, {k1, k2}},
             finalized |-> {k1}, graced |-> {}]
Gracing  == [Pruning EXCEPT !.graced = {k1, k2}]

AllThree == {Chained, Pruning, Gracing}

(* TLC evaluates a plain definition once, one that the cfg substitutes at  *)
(* each use.                                                               *)
MCComposites == AllThree
=============================================================================
