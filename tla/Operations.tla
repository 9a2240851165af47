---------------------------- MODULE Operations ----------------------------
(***************************************************************************)
(* Subresource verbs.  An operation is a durable row of                    *)
(* resource_operations with an 'operate' row of work_queue behind it; the  *)
(* result passes through work_outbox to drain_outbox_batch.  The operate   *)
(* row is one per resource and its own slot, apart from reconcile, so one  *)
(* resource is modelled.  Nothing re-points an operate row: the claim      *)
(* token is its only fence.                                                *)
(***************************************************************************)
EXTENDS Naturals

CONSTANTS
    Ops,        \* the operations that may be invoked
    BrokerPods,       \* the broker pods
    NoPod,      \* broker_id IS NULL
    NoOp,       \* the slot is empty
    MaxFaults   \* bound: crashes, lost leases, collections and freezes

ASSUME OperationsAssumption ==
    /\ NoPod \notin BrokerPods
    /\ NoOp \notin Ops
    /\ MaxFaults \in Nat

VARIABLES
    frozen,    \* resources.frozen_until IS NOT NULL
    state,     \* resource_operations.state, "absent" before the invocation
    slot,      \* the operate row: [op, epoch, broker]
    outbox,    \* the undrained operate results: [op, ok]
    execs,     \* the executions in the pods: [op, pod, epoch, ok]
    faults,
    (* observers *)
    drained,   \* the operations whose result was drained
    lost       \* the operations whose task was lost or collected

observers == <<drained, lost>>
operateVars == <<frozen, state, slot, outbox, execs, faults, observers>>

States == {"absent", "pending", "running", "succeeded", "failed"}

EmptySlot == [op |-> NoOp, epoch |-> 0, broker |-> NoPod]

Fault == faults < MaxFaults /\ faults' = faults + 1

TypeOK ==
    /\ frozen \in BOOLEAN
    /\ state \in [Ops -> States]
    /\ slot \in [op : Ops \cup {NoOp}, epoch : Nat, broker : BrokerPods \cup {NoPod}]
    /\ outbox \subseteq [op : Ops, ok : BOOLEAN]
    /\ execs \subseteq [op : Ops, pod : BrokerPods, epoch : Nat, ok : BOOLEAN]
    /\ drained \subseteq Ops
    /\ lost \subseteq Ops
    /\ faults \in Nat

OperateInit ==
    /\ frozen = FALSE
    /\ state = [o \in Ops |-> "absent"]
    /\ slot = EmptySlot
    /\ outbox = {}
    /\ execs = {}
    /\ drained = {}
    /\ lost = {}
    /\ faults = 0

----------------------------------------------------------------------------
InvokeKeepsRecord(o) ==
    /\ state[o] = "absent"
    /\ state' = [state EXCEPT ![o] = "pending"]
    /\ slot' = IF frozen \/ slot.op # NoOp THEN slot
               ELSE [op |-> o, epoch |-> 1, broker |-> NoPod]
    /\ UNCHANGED <<frozen, outbox, execs, faults, observers>>

(* invokeOperation and CreateOperationRow: the record and its task commit  *)
(* together; a frozen resource or an occupied slot rolls both back (409).  *)
Invoke(o) ==
    /\ state[o] = "absent"
    /\ ~frozen
    /\ slot.op = NoOp
    /\ state' = [state EXCEPT ![o] = "pending"]
    /\ slot' = [op |-> o, epoch |-> 1, broker |-> NoPod]
    /\ UNCHANGED <<frozen, outbox, execs, faults, observers>>

(* quarantine_resource and unquarantine_resource leave operate rows alone. *)
Freeze ==
    /\ Fault
    /\ frozen' = ~frozen
    /\ UNCHANGED <<state, slot, outbox, execs, observers>>

(* The claim, and the reaction's outcome, which nothing later changes.     *)
(* The state of the operation is not touched: SetOperationRunning has no   *)
(* caller.                                                                 *)
Claim(p) ==
    /\ slot.op # NoOp
    /\ slot.broker = NoPod
    /\ slot' = [op |-> slot.op, epoch |-> slot.epoch + 1, broker |-> p]
    /\ \E ok \in BOOLEAN : execs' = execs \cup
          {[op |-> slot.op, pod |-> p, epoch |-> slot.epoch + 1, ok |-> ok]}
    /\ UNCHANGED <<frozen, state, outbox, faults, observers>>

(* reactOperate: the fenced append.  For an operate task the fence is the  *)
(* row and its token, without the generation.                              *)
FencePasses(e) == slot.op = e.op /\ slot.epoch = e.epoch

ReactOperate(e) ==
    /\ outbox' = IF FencePasses(e) /\ \A x \in outbox : x.op # e.op
                 THEN outbox \cup {[op |-> e.op, ok |-> e.ok]}
                 ELSE outbox
    /\ execs' = execs \ {e}
    /\ UNCHANGED <<frozen, state, slot, faults, observers>>

(* drain_outbox_batch: the operate row is deleted whatever became of it    *)
(* and the operation is finalized only from 'running'.                     *)
Drain(x) ==
    /\ outbox' = outbox \ {x}
    /\ slot' = IF slot.op = x.op THEN EmptySlot ELSE slot
    /\ state' = IF state[x.op] = "running"
                THEN [state EXCEPT ![x.op] = IF x.ok THEN "succeeded" ELSE "failed"]
                ELSE state
    /\ drained' = drained \cup {x.op}
    /\ UNCHANGED <<frozen, execs, faults, lost>>

AbandonedWithResult ==
    /\ \A e \in execs : ~FencePasses(e)
    /\ \E x \in outbox : x.op = slot.op

(* No execution bears the claim and no result is waiting.                  *)
Abandoned ==
    /\ \A e \in execs : ~FencePasses(e)
    /\ \A x \in outbox : x.op # slot.op

(* The stale reaper frees an abandoned claim.  A lease that lapses under a *)
(* live holder, a worker's dropped stream and a graceful stop also free    *)
(* one, and the execution or the undrained result may still be on its way. *)
Free ==
    /\ slot.broker # NoPod
    /\ IF Abandoned THEN UNCHANGED faults ELSE Fault
    /\ slot' = [op |-> slot.op, epoch |-> slot.epoch + 1, broker |-> NoPod]
    /\ UNCHANGED <<frozen, state, outbox, execs, observers>>

PodCrash(p) ==
    /\ Fault
    /\ execs' = {e \in execs : e.pod # p}
    /\ UNCHANGED <<frozen, state, slot, outbox, observers>>

(* The UNLOGGED tables come back empty; resource_operations is logged.     *)
QueueTruncated ==
    /\ Fault
    /\ slot' = EmptySlot
    /\ outbox' = {}
    /\ lost' = lost \cup ({slot.op} \ {NoOp})
    /\ UNCHANGED <<frozen, state, execs, drained>>

(* delete_unclaimed_work does not look at the task type.                   *)
Collect ==
    /\ slot.op # NoOp
    /\ slot.broker = NoPod
    /\ Fault
    /\ slot' = EmptySlot
    /\ lost' = lost \cup {slot.op}
    /\ UNCHANGED <<frozen, state, outbox, execs, drained>>

OperateNext ==
    \/ \E o \in Ops : Invoke(o)
    \/ Freeze
    \/ \E p \in BrokerPods : Claim(p) \/ PodCrash(p)
    \/ \E e \in execs : ReactOperate(e)
    \/ \E x \in outbox : Drain(x)
    \/ Free
    \/ QueueTruncated
    \/ Collect

(* The pods poll, results are appended and drained, the reaper ticks.      *)
Fairness ==
    /\ WF_operateVars(\E p \in BrokerPods : Claim(p))
    /\ WF_operateVars(\E e \in execs : ReactOperate(e))
    /\ WF_operateVars(\E x \in outbox : Drain(x))
    /\ WF_operateVars(Abandoned /\ Free)

OperateSpec == OperateInit /\ [][OperateNext]_operateVars /\ Fairness

----------------------------------------------------------------------------

(* A recorded operation whose result was not drained has its task in the   *)
(* queue, unless Postgres lost it or the 24 h collector took it:           *)
(* CreateOperationRow says that a recorded operation always has a task     *)
(* behind it.                                                              *)
RecordedHasTask ==
    \A o \in Ops : state[o] = "pending" /\ o \notin drained \cup lost
                    => slot.op = o

(* A recorded operation is eventually carried out and its result drained,  *)
(* whatever claims lapse and pods crash, unless its task was lost.         *)
EventuallyDrained ==
    \A o \in Ops : state[o] = "pending" ~> o \in drained \cup lost

(* The drainer's state writes are authoritative: an operation whose result *)
(* was drained is finished.                                                *)
DrainedIsFinished ==
    \A o \in drained : state[o] \in {"succeeded", "failed"}
=============================================================================
