---------------------------- MODULE MCWorkerConfig ----------------------------
(* WorkerConfig for TLC.                                                   *)
EXTENDS WorkerConfig

CONSTANTS t1, t2

SomeDeployments ==
    {[tasks |-> {t1, t2}, maxInflight |-> 1, drops |-> 2, beats |-> 1, edits |-> 0, bare |-> FALSE, dflt |-> 0,
      flips |-> 0, probe |-> {TRUE}, mortal |-> FALSE],
     [tasks |-> {t1, t2}, maxInflight |-> 2, drops |-> 0, beats |-> 0, edits |-> 0, bare |-> FALSE, dflt |-> 0,
      flips |-> 0, probe |-> {TRUE}, mortal |-> TRUE],
     [tasks |-> {t1}, maxInflight |-> 1, drops |-> 1, beats |-> 1, edits |-> 0, bare |-> FALSE, dflt |-> 0,
      flips |-> 0, probe |-> {TRUE}, mortal |-> TRUE],
     [tasks |-> {t1}, maxInflight |-> 1, drops |-> 1, beats |-> 0, edits |-> 0, bare |-> FALSE, dflt |-> 0,
      flips |-> 2, probe |-> {TRUE, FALSE}, mortal |-> FALSE],
     [tasks |-> {}, maxInflight |-> 1, drops |-> 0, beats |-> 0, edits |-> 1, bare |-> TRUE, dflt |-> 0,
      flips |-> 0, probe |-> {TRUE}, mortal |-> TRUE],
     [tasks |-> {}, maxInflight |-> 1, drops |-> 1, beats |-> 0, edits |-> 1, bare |-> TRUE, dflt |-> 1,
      flips |-> 0, probe |-> {TRUE}, mortal |-> FALSE],
     [tasks |-> {}, maxInflight |-> 1, drops |-> 0, beats |-> 0, edits |-> 2, bare |-> FALSE, dflt |-> 0,
      flips |-> 0, probe |-> {TRUE}, mortal |-> FALSE]}

(* TLC evaluates a plain definition once, one that the cfg substitutes at  *)
(* each use.                                                               *)
MCDeployments == SomeDeployments
=============================================================================
