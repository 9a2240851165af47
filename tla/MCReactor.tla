----------------------------- MODULE MCReactor -----------------------------
(* An instance of Reactor for TLC: a root with one composed child, one     *)
(* binding on 'synced' and one on 'failed', two pods.                      *)
EXTENDS Reactor, TLC

CONSTANTS root, kid, b1, b2, p1, p2

SyncedAndFailed == b1 :> "synced" @@ b2 :> "failed"
MatchAll        == [b \in Bindings |-> Resources]

(* TLC evaluates a plain definition once, one that the cfg substitutes at  *)
(* each use.                                                               *)
MCEdge == SyncedAndFailed
MCMatching == MatchAll
=============================================================================
