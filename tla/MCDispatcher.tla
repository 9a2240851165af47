---------------------------- MODULE MCDispatcher ----------------------------
(* Dispatcher for TLC.                                                     *)
EXTENDS Dispatcher

CONSTANTS t1, t2, t3, A, B

SameKind == [t \in Tasks |-> A]
TwoKinds == [t \in Tasks |-> IF t = t2 THEN A ELSE B]

SomeDeployments ==
    {[queued |-> {t2, t3}, pairOf |-> SameKind, boot |-> <<>>, announced |-> <<A, A>>,
      maxParallel |-> 1, faults |-> 0, mortal |-> FALSE],
     [queued |-> {t1}, pairOf |-> SameKind, boot |-> <<A>>, announced |-> <<>>,
      maxParallel |-> 2, faults |-> 1, mortal |-> FALSE],
     [queued |-> {t2}, pairOf |-> SameKind, boot |-> <<A>>, announced |-> <<>>,
      maxParallel |-> 2, faults |-> 2, mortal |-> FALSE],
     [queued |-> {t1}, pairOf |-> SameKind, boot |-> <<A>>, announced |-> <<>>,
      maxParallel |-> 1, faults |-> 1, mortal |-> TRUE],
     [queued |-> {t2}, pairOf |-> SameKind, boot |-> <<A>>, announced |-> <<A>>,
      maxParallel |-> 1, faults |-> 0, mortal |-> TRUE],
     [queued |-> {t3}, pairOf |-> TwoKinds, boot |-> <<A, B>>, announced |-> <<>>,
      maxParallel |-> 1, faults |-> 1, mortal |-> FALSE]}

(* TLC evaluates a plain definition once, one that the cfg substitutes at  *)
(* each use.                                                               *)
MCDeployments == SomeDeployments
=============================================================================
