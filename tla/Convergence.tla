---------------------------- MODULE Convergence ----------------------------
(***************************************************************************)
(* What Converge promises the user of one resource, with the queue, the    *)
(* outbox, the leases and the crashes left out.  An edit asks for a new    *)
(* generation; a worker carries a generation out; a generation is reported *)
(* as reconciled only after a worker has carried it out, and the reported  *)
(* generation never moves backwards.  WorkQueue.tla implements this.       *)
(***************************************************************************)
EXTENDS Naturals

CONSTANT Resources

VARIABLES
    desired,     \* what the user asked for; 0 before the first apply
    reported,    \* what the control plane reports as reconciled
    carriedOut   \* the generations a worker has carried out

vars == <<desired, reported, carriedOut>>

Init ==
    /\ desired = [r \in Resources |-> 0]
    /\ reported = [r \in Resources |-> 0]
    /\ carriedOut = [r \in Resources |-> {}]

Edit(r) ==
    /\ desired' = [desired EXCEPT ![r] = @ + 1]
    /\ UNCHANGED <<reported, carriedOut>>

CarryOut(r) ==
    /\ \E g \in 1..desired[r] :
          carriedOut' = [carriedOut EXCEPT ![r] = @ \cup {g}]
    /\ UNCHANGED <<desired, reported>>

(* One report may cover several resources: results are applied in batches. *)
Report ==
    /\ reported' \in [Resources -> Nat]
    /\ \A r \in Resources :
          \/ reported'[r] = reported[r]
          \/ reported'[r] > reported[r] /\ reported'[r] \in carriedOut[r]
    /\ UNCHANGED <<desired, carriedOut>>

Next ==
    \/ \E r \in Resources : Edit(r) \/ CarryOut(r)
    \/ Report

Spec == Init /\ [][Next]_vars
=============================================================================
