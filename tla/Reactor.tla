------------------------------ MODULE Reactor ------------------------------
(***************************************************************************)
(* The reactor spine.  A lifecycle edge of a resource (created, synced,    *)
(* degraded, failed) writes one lifecycle_outbox row per matching enabled  *)
(* binding, in the transaction that crosses the edge.  The                 *)
(* ReactorDispatcher of every broker pod claims rows in batches, runs the  *)
(* reaction of each through a worker, and acks (deletes) the row; the      *)
(* reaper frees rows whose claim is no longer heartbeated.                 *)
(*                                                                         *)
(* Bindings that are disabled, deleted or retargeted are one thing here:   *)
(* every use of the table joins the enabled rows.  An empty reaction name  *)
(* (no reactor manifest), a missing worker, a reaction error and a failed  *)
(* ack are one thing too: the row is left claimed.                         *)
(***************************************************************************)
EXTENDS Naturals, FiniteSets

CONSTANTS
    Resources,
    Roots,        \* the resources with root_id NULL; the others are composed
    Bindings,
    Edge,         \* reactor_bindings.transition, per binding
    Matching,     \* the resources a binding's kind, version and labels match
    Pods,
    NoPod,        \* broker_id IS NULL
    BatchSize,    \* BatchSize of the dispatcher
    MaxParallel,  \* MaxParallel of the dispatcher
    Recurs,       \* may a resource recover and cross the same edge again?
    MaxGen,       \* bound: spec edits per resource
    MaxEpoch,     \* bound: claims and reaps of one row
    MaxFaults     \* bound: faults and operator actions

ASSUME ReactorAssumption ==
    /\ Roots \subseteq Resources
    /\ Edge \in [Bindings -> {"created", "synced", "degraded", "failed", "deleted"}]
    /\ Matching \in [Bindings -> SUBSET Resources]
    /\ NoPod \notin Pods
    /\ {BatchSize, MaxParallel, MaxGen} \subseteq Nat \ {0}
    /\ {MaxEpoch, MaxFaults} \subseteq Nat
    /\ Recurs \in BOOLEAN

VARIABLES
    res,       \* the resources: [gen (0: not yet applied), synced, health, fail]
    gone,      \* the hard-deleted resources
    enabled,   \* the enabled bindings
    outbox,    \* lifecycle_outbox: [key, epoch, broker]
    range,     \* per pod, the resources of its shard range (ShardSet)
    held,      \* the deliveries in the pods: [key, epoch, pod, phase]
    owed,      \* observer: the keys emitted since their last reaction
    faults

vars == <<res, gone, enabled, outbox, range, held, owed, faults>>

Edges == {"created", "synced", "degraded", "failed", "deleted"}
Keys == [res : Resources, edge : Edges, gen : 1..MaxGen, bind : Bindings]
Phases == {"waiting", "running", "reacted"}

Absent == [gen |-> 0, synced |-> 0, health |-> TRUE, fail |-> 0]

TypeOK ==
    /\ res \in [Resources -> [gen : 0..MaxGen, synced : 0..MaxGen,
                              health : BOOLEAN, fail : 0..MaxGen]]
    /\ gone \subseteq Resources
    /\ enabled \subseteq Bindings
    /\ outbox \subseteq [key : Keys, epoch : 1..MaxEpoch, broker : Pods \cup {NoPod}]
    /\ \A d1, d2 \in outbox : d1.key = d2.key => d1 = d2
    /\ range \in [Pods -> SUBSET Resources]
    /\ held \subseteq [key : Keys, epoch : 1..MaxEpoch, pod : Pods, phase : Phases]
    /\ owed \subseteq Keys
    /\ faults \in 0..MaxFaults

Init ==
    /\ res = [r \in Resources |-> Absent]
    /\ gone = {}
    /\ enabled = Bindings
    /\ outbox = {}
    /\ range = [p \in Pods |-> Resources]
    /\ held = {}
    /\ owed = {}
    /\ faults = 0

Exists(r) == res[r].gen > 0 /\ r \notin gone

Fault == faults < MaxFaults /\ faults' = faults + 1

----------------------------------------------------------------------------
(* Emission.                                                               *)

(* The rows of one edge: every enabled binding on it that matches.         *)
Fanout(edge, crossed, after) ==
    {[res |-> x[1], edge |-> edge, gen |-> after[x[1]].gen, bind |-> x[2]] :
        x \in {y \in crossed \X enabled : Edge[y[2]] = edge /\ y[1] \in Matching[y[2]]}}

(* ON CONFLICT DO NOTHING on the per-binding primary key.                  *)
NewRow(k) == \A d \in outbox : d.key # k

Emit(keys) ==
    LET new == {k \in keys : NewRow(k)} IN
    /\ outbox' = outbox \cup {[key |-> k, epoch |-> 1, broker |-> NoPod] : k \in new}
    /\ owed' = owed \cup new

(* ApplySpec of a root (insert or spec change) with its 'created' rows;    *)
(* composed children come from ApplyComposeResult, which emits nothing.    *)
Apply(r) ==
    LET after == [res EXCEPT ![r].gen = @ + 1] IN
    /\ r \notin gone
    /\ res[r].gen < MaxGen
    /\ res' = after
    /\ Emit(IF r \in Roots THEN Fanout("created", {r}, after) ELSE {})
    /\ UNCHANGED <<gone, enabled, range, held, faults>>

Applied(row, outcome) ==
    CASE outcome = "ok"        -> [row EXCEPT !.synced = row.gen, !.health = TRUE, !.fail = 0]
      [] outcome = "unhealthy" -> [row EXCEPT !.synced = row.gen, !.health = FALSE, !.fail = 0]
      [] outcome = "failed"    -> [row EXCEPT !.fail = row.gen]

Upgraded(after) == {r \in Resources : /\ after[r].synced >= after[r].gen
                                      /\ res[r].synced < res[r].gen}
NewlyFailed(after) == {r \in Resources : /\ after[r].fail = after[r].gen
                                         /\ res[r].fail # res[r].gen}
Demoted(after) ==
    {r \in Resources : res[r].health /\ ~after[r].health} \cup NewlyFailed(after)

CrossingsWithoutRoots(after) ==
    Fanout("synced", Upgraded(after), after) \cup
    IF Demoted(after) \cap Roots # {} THEN {}
    ELSE LET failed == {r \in Demoted(after) : after[r].fail = after[r].gen}
         IN  Fanout("failed", failed, after)
               \cup Fanout("degraded", Demoted(after) \ failed, after)

(* cascade_on_ready_change over one statement's rows.  The degraded and    *)
(* failed rows are computed for every row of the statement, but only when  *)
(* some composed child among them was demoted (demoted_roots).             *)
Crossings(after) ==
    Fanout("synced", Upgraded(after), after) \cup
    IF Demoted(after) \subseteq Roots THEN {}
    ELSE LET failed == {r \in Demoted(after) : after[r].fail = after[r].gen}
         IN  Fanout("failed", failed, after)
               \cup Fanout("degraded", Demoted(after) \ failed, after)

(* drain_outbox_batch applies the results of a batch at their resources'   *)
(* current generations; a result of an older one changes no edge.  A       *)
(* settled resource reports again after a resync.                          *)
Drain(batch, outcome) ==
    LET after == [r \in Resources |-> IF r \in batch THEN Applied(res[r], outcome[r])
                                      ELSE res[r]] IN
    /\ batch # {}
    /\ \A r \in batch : /\ Exists(r)
                        /\ Recurs \/ (res[r].synced < res[r].gen /\ res[r].fail # res[r].gen)
    /\ res' = after
    /\ Emit(Crossings(after))
    /\ UNCHANGED <<gone, enabled, range, held, faults>>

(* sweep_deletable, at the end of a teardown: there is no foreign key from *)
(* lifecycle_outbox, and no 'deleted' row is written.                      *)
HardDelete(r) ==
    /\ Fault
    /\ Exists(r)
    /\ gone' = gone \cup {r}
    /\ UNCHANGED <<res, enabled, outbox, range, held, owed>>

(* UpsertReactorBinding and DeleteReactorBinding.                          *)
EditBinding(b) ==
    /\ Fault
    /\ enabled' = IF b \in enabled THEN enabled \ {b} ELSE enabled \cup {b}
    /\ UNCHANGED <<res, gone, outbox, range, held, owed>>

----------------------------------------------------------------------------
(* Delivery.                                                               *)

Execution(d, p) == [key |-> d.key, epoch |-> d.epoch + 1, pod |-> p, phase |-> "waiting"]

(* claim_reactor_deliveries: every claimed row is stamped; the rows of a   *)
(* live resource and an enabled binding are returned.  Its last CTE means  *)
(* to delete the rows of hard-deleted resources, but they are the rows the *)
(* same statement has just updated, and PostgreSQL performs only the       *)
(* update of a row that one statement both updates and deletes.            *)
Claim(p, rows) ==
    /\ \A e \in held : e.pod # p
    /\ rows # {}
    /\ Cardinality(rows) <= BatchSize
    /\ \A d \in rows : d.broker = NoPod /\ d.key.res \in range[p] /\ d.epoch < MaxEpoch
    /\ outbox' = (outbox \ rows) \cup
          {[key |-> d.key, epoch |-> d.epoch + 1, broker |-> p] : d \in rows}
    /\ held' = held \cup {Execution(d, p) : d \in
          {c \in rows : c.key.res \notin gone /\ c.key.bind \in enabled}}
    /\ UNCHANGED <<res, gone, enabled, range, owed, faults>>

Phase(e, phase) == (held \ {e}) \cup {[e EXCEPT !.phase = phase]}

FreeSlot(p) == Cardinality({x \in held : x.pod = p /\ x.phase # "waiting"}) < MaxParallel

(* tick takes a slot of the semaphore and tracks the delivery.             *)
Start(e) ==
    /\ e.phase = "waiting"
    /\ FreeSlot(e.pod)
    /\ held' = Phase(e, "running")
    /\ UNCHANGED <<res, gone, enabled, outbox, range, owed, faults>>

(* DispatchStage returned without an error: the side effect happened.      *)
React(e) ==
    /\ e.phase = "running"
    /\ held' = Phase(e, "reacted")
    /\ owed' = owed \ {e.key}
    /\ UNCHANGED <<res, gone, enabled, outbox, range, faults>>

AckedWithoutEpoch(e) == {d \in outbox : d.key = e.key}

(* The row ack_reactor_delivery deletes: the key at the claim's epoch.     *)
AckedBy(e) == {d \in outbox : d.key = e.key /\ d.epoch = e.epoch}

Ack(e) ==
    /\ e.phase = "reacted"
    /\ outbox' = outbox \ AckedBy(e)
    /\ held' = held \ {e}
    /\ UNCHANGED <<res, gone, enabled, range, owed, faults>>

(* deliver returns without an ack (no reaction, no worker, an error, a     *)
(* lost ack), or tick stops launching at shutdown.                         *)
Fail(e) ==
    /\ Fault
    /\ held' = held \ {e}
    /\ UNCHANGED <<res, gone, enabled, outbox, range, owed>>

(* The process dies; its claims stay.                                      *)
PodCrash(p) ==
    /\ Fault
    /\ \E e \in held : e.pod = p
    /\ held' = {e \in held : e.pod # p}
    /\ UNCHANGED <<res, gone, enabled, outbox, range, owed>>

(* The Resharder swaps the pod's range.                                    *)
Reshard(p, shards) ==
    /\ Fault
    /\ range[p] # shards
    /\ range' = [range EXCEPT ![p] = shards]
    /\ UNCHANGED <<res, gone, enabled, outbox, held, owed>>

(* heartbeat_at is recent: the delivery starts at once after its claim, or *)
(* HeartbeatReactorClaims refreshes it, one of the tracked (key, epoch)    *)
(* pairs inside the pod's current range.                                   *)
Fresh(d) ==
    \E e \in held : /\ e.key = d.key /\ e.epoch = d.epoch
                    /\ IF e.phase = "waiting" THEN FreeSlot(e.pod)
                       ELSE d.key.res \in range[e.pod]

ReapKeepsBroker(d) ==
    /\ d.broker # NoPod
    /\ d.epoch < MaxEpoch
    /\ IF Fresh(d) THEN Fault ELSE UNCHANGED faults
    /\ outbox' = (outbox \ {d}) \cup
          {[key |-> d.key, epoch |-> d.epoch + 1, broker |-> d.broker]}
    /\ UNCHANGED <<res, gone, enabled, range, held, owed>>

(* reap_stale_lifecycle: a claim that nobody refreshes, or whose heartbeat *)
(* did not arrive in time.                                                 *)
Reap(d) ==
    /\ d.broker # NoPod
    /\ d.epoch < MaxEpoch
    /\ IF Fresh(d) THEN Fault ELSE UNCHANGED faults
    /\ outbox' = (outbox \ {d}) \cup
          {[key |-> d.key, epoch |-> d.epoch + 1, broker |-> NoPod]}
    /\ UNCHANGED <<res, gone, enabled, range, held, owed>>

Next ==
    \/ \E r \in Resources : Apply(r) \/ HardDelete(r)
    \/ \E batch \in SUBSET Resources :
          \E outcome \in [batch -> {"ok", "unhealthy", "failed"}] : Drain(batch, outcome)
    \/ \E b \in Bindings : EditBinding(b)
    \/ \E p \in Pods : \E rows \in SUBSET outbox : Claim(p, rows)
    \/ \E e \in held : Start(e) \/ React(e) \/ Ack(e) \/ Fail(e)
    \/ \E p \in Pods : PodCrash(p) \/ \E shards \in SUBSET Resources : Reshard(p, shards)
    \/ \E d \in outbox : Reap(d)

Spec == Init /\ [][Next]_vars

(* The poll loop of the dispatchers, the deliveries and the reaper's tick  *)
(* keep running.                                                           *)
FairSpec ==
    /\ Spec
    /\ WF_vars(\E p \in Pods : \E rows \in SUBSET outbox : Claim(p, rows))
    /\ WF_vars(\E e \in held : Start(e))
    /\ WF_vars(\E e \in held : React(e))
    /\ WF_vars(\E e \in held : Ack(e))
    /\ WF_vars(\E d \in outbox : Reap(d))

----------------------------------------------------------------------------
(* At-least-once, per binding: a delivery whose reaction has not run since *)
(* it was emitted still has its lifecycle_outbox row, whatever fails,      *)
(* crashes, is reaped or is acked late (ack_reactor_delivery, deliver).    *)
AtLeastOnce == \A k \in owed : \E d \in outbox : d.key = k

(* One acker: of the executions of one delivery that are alive at a time,  *)
(* at most one can delete the row (the claim_epoch fence of                *)
(* ack_reactor_delivery).                                                  *)
OneAcker ==
    \A e1, e2 \in held : e1.key = e2.key /\ AckedBy(e1) # {} /\ AckedBy(e2) # {} => e1 = e2

(* Both together: a delivery is kept until it was reacted to, and only the *)
(* holder of the current claim ends it (reactor.go deliver).               *)
DeliveriesKept == AtLeastOnce /\ OneAcker

(* Every crossing of a drain batch is handed to every enabled binding that *)
(* matches, whatever else is in the batch and whichever older rows are     *)
(* still undelivered: a resource that becomes synced, a composed child     *)
(* that newly fails (cascade_on_ready_change).                             *)
CrossingsReported ==
    [][\A b \in enabled : \A r \in Matching[b] :
          LET reported == \E d \in outbox' :
                  d.key = [res |-> r, edge |-> Edge[b], gen |-> res'[r].gen, bind |-> b]
              fails(row) == row.gen > 0 /\ row.fail = row.gen
          IN  /\ Edge[b] = "synced" /\ res'[r].synced = res'[r].gen
                    /\ res[r].synced < res[r].gen => reported
              /\ Edge[b] = "failed" /\ r \notin Roots
                    /\ fails(res'[r]) /\ ~fails(res[r]) => reported]_vars

(* Every emitted delivery is eventually reacted to, as long as its binding *)
(* stays enabled and its resource exists, after any finite number of       *)
(* failures, crashes, lost heartbeats and moves of the shard ranges that   *)
(* leave its resource to some pod.                                         *)
EventuallyReacts ==
    \A k \in Keys : k \in owed ~>
        \/ k \notin owed \/ k.bind \notin enabled \/ k.res \in gone
        \/ \A p \in Pods : k.res \notin range[p]

============================================================================
