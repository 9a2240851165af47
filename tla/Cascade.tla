------------------------------ MODULE Cascade ------------------------------
(***************************************************************************)
(* One composite: a root, the children its composer emits, the dependency  *)
(* edges between the children (each with a value flow) and the root's      *)
(* rollup.  The module is about what happens BETWEEN resources: the        *)
(* upstream and descendant gates of schedule_eligible, the substitution of *)
(* flowed values and the cascade trigger inside drain_outbox_batch, the    *)
(* two recheck queues, and the rollup that reads a subtree while it moves. *)
(*                                                                         *)
(* Every drainer band runs its batch in its own READ COMMITTED             *)
(* transaction.  A batch is therefore two steps: DrainBegin evaluates      *)
(* every gate on the committed state plus the batch's own writes, and      *)
(* DrainCommit makes them visible.  A batch that would touch a row another *)
(* open batch holds waits until that one has committed.                    *)
(*                                                                         *)
(* Abstraction.  Leases and fencing are in WorkQueue.tla: here a claimed   *)
(* row stays claimed until its result is drained or the row is re-pointed. *)
(* A status is one value out of {1, 2} (0: NULL) and flows whole.  The     *)
(* children have no children.  Deletion is in Teardown.tla.                *)
(***************************************************************************)
EXTENDS Integers, FiniteSets

CONSTANTS
    Root, Kids,  \* the composite and the children its composer emits
    Bands,       \* the drainer bands
    BandOf,      \* the band of each resource's shard
    Parks,       \* may an execution fail terminally?
    Freezes,     \* may an operator quarantine a child?
    RootKinds,   \* the kinds the root may be of: the edges <<dependent,
                 \* dependency>> its composer emits, all with a flow, and
                 \* whether a resync of the root runs the composer again
    MaxFaults    \* bound: edits, failures, drifts, resyncs, interventions

Resources == Kids \cup {Root}

ASSUME ConstantsAssumption ==
    /\ Root \notin Kids
    /\ BandOf \in [Resources -> Bands]
    /\ Parks \in BOOLEAN
    /\ Freezes \in BOOLEAN
    /\ RootKinds \subseteq [deps : SUBSET (Kids \X Kids), recomposes : BOOLEAN]
    /\ MaxFaults \in Nat

VARIABLES
    rootKind,   \* the root's kind, settled once and for all
    rows,       \* table resources
    input,      \* spec field of the dependent that an edge's flow fills
    composed,   \* the root's composed_gen
    queue,      \* table work_queue, reconcile rows
    outbox,     \* table work_outbox
    recheck,    \* is the root in table rollup_recheck?
    toSchedule, \* table schedule_recheck
    tx,         \* the open transaction of each band
    faults,     \* the faults spent so far
    (* observers *)
    want,       \* the generation the last compose asked of each child
    excused,    \* children that failed or were set aside since
    consumed    \* was the root's row in its place while the last descendant
                \* was being settled, or drained since?

observers == <<want, excused, consumed>>
vars == <<rootKind, rows, input, composed, queue, outbox, recheck, toSchedule,
          tx, faults, observers>>

Deps == rootKind.deps

----------------------------------------------------------------------------
(* Rows, results and transactions.                                         *)

Row == [gen : Nat, synced : Nat, fail : Nat, parked : BOOLEAN,
        health : BOOLEAN, frozen : BOOLEAN, status : Nat]

(* a child that has not been composed yet has generation 0                 *)
AbsentRow == [gen |-> 0, synced |-> 0, fail |-> 0, parked |-> FALSE,
              health |-> TRUE, frozen |-> FALSE, status |-> 0]

NoTask == [gen |-> 0, claimed |-> FALSE]
Task(g) == [gen |-> g, claimed |-> FALSE]

(* "wait" is a success that does not advance synced_gen                    *)
Result == [gen : Nat, kind : {"none", "ok", "wait", "fail", "park"},
           health : BOOLEAN, status : Nat]

NoResult == [gen |-> 0, kind |-> "none", health |-> TRUE, status |-> 0]

Tx == [batch : SUBSET Resources, flowed : SUBSET Deps,
       put : SUBSET (Resources \X Nat), arm : BOOLEAN, seen : BOOLEAN]

NoTx == [batch |-> {}, flowed |-> {}, put |-> {}, arm |-> FALSE,
         seen |-> FALSE]

Open(b) == tx[b].batch # {}

Heads(edges) == {e[1] : e \in edges}

(* the rows of resources and of work_queue that band b's batch has locked  *)
Locked(b)  == tx[b].batch \cup Heads(tx[b].flowed)
Inserted(b) == {p[1] : p \in tx[b].put}
Free(r) == \A b \in Bands : r \notin Locked(b)

(* What a quiet fleet does not do on its own is charged to the budget.     *)
Fault == faults < MaxFaults /\ faults' = faults + 1

TypeOK ==
    /\ rootKind \in RootKinds
    /\ rows \in [Resources -> Row]
    /\ input \in [Deps -> Nat]
    /\ composed \in Nat
    /\ queue \in [Resources -> [gen : Nat, claimed : BOOLEAN]]
    /\ outbox \in [Resources -> Result]
    /\ recheck \in BOOLEAN
    /\ toSchedule \subseteq Kids
    /\ tx \in [Bands -> Tx]
    /\ faults \in Nat
    /\ want \in [Kids -> Nat]
    /\ excused \subseteq Kids
    /\ consumed \in BOOLEAN

Init ==
    /\ rootKind \in RootKinds
    /\ rows = [r \in Resources |-> AbsentRow]
    /\ input = [e \in Deps |-> 0]
    /\ composed = 0
    /\ queue = [r \in Resources |-> NoTask]
    /\ outbox = [r \in Resources |-> NoResult]
    /\ recheck = FALSE
    /\ toSchedule = {}
    /\ tx = [b \in Bands |-> NoTx]
    /\ faults = 0
    /\ want = [c \in Kids |-> 0]
    /\ excused = {}
    /\ consumed = FALSE

----------------------------------------------------------------------------
(* schedule_eligible.  The gates are evaluated on a view w of the table.   *)

Lagging(w, r) == w[r].synced < w[r].gen
Failed(w, r)  == w[r].fail = w[r].gen
Upstreams(r)  == {u \in Kids : <<r, u>> \in Deps}

(* the descendant gate, and the dispatcher's own check before a rollup     *)
DescendantsSettled(w) ==
    \A c \in Kids : Lagging(w, c) => Failed(w, c) \/ w[c].frozen

Eligible(w, r) ==
    /\ Lagging(w, r)
    /\ ~w[r].frozen
    /\ ~(w[r].parked /\ Failed(w, r))
    /\ \A u \in Upstreams(r) : ~Lagging(w, u)
    /\ r = Root => DescendantsSettled(w)

(* An existing row is re-pointed only to a later generation.               *)
schedule_eligible(w, q, ids) ==
    {r \in ids : Eligible(w, r) /\ q[r].gen < w[r].gen}

Scheduled(w, q, ids) ==
    [r \in Resources |-> IF r \in schedule_eligible(w, q, ids)
                         THEN Task(w[r].gen) ELSE q[r]]

NotConsumedIfQueued ==
    consumed' = (consumed /\ queue'[Root] = queue[Root])

----------------------------------------------------------------------------
(* Applying a spec, claiming, composing and rolling up.                    *)

(* An apply of a new spec of the root, and its schedule.  An edit is       *)
(* charged to the budget, the first apply is not.                          *)
ApplySpec ==
    /\ IF rows[Root].gen = 0 THEN UNCHANGED faults ELSE Fault
    /\ Free(Root)
    /\ rows' = [rows EXCEPT ![Root].gen = @ + 1]
    /\ queue' = Scheduled(rows', queue, {Root})
    /\ NotConsumedIfQueued
    /\ UNCHANGED <<rootKind, input, composed, outbox, recheck, toSchedule, tx,
                   want, excused>>

Claim(r) ==
    /\ queue[r].gen > 0
    /\ ~queue[r].claimed
    /\ queue' = [queue EXCEPT ![r].claimed = TRUE]
    /\ UNCHANGED <<rootKind, rows, input, composed, outbox, recheck, toSchedule, tx,
                   faults, observers>>

(* apply_value_flows_for_dependents on the rows of a compose: the edges    *)
(* whose upstream is settled, has a status and differs from the input.     *)
Bootstrapped(w, inp) ==
    {e \in Deps : /\ w[e[1]].gen > 0 /\ ~w[e[1]].frozen
                  /\ ~Lagging(w, e[2]) /\ w[e[2]].status # 0
                  /\ inp[e] # w[e[2]].status}

Bumped(w, ids) ==
    [r \in Resources |-> IF r \in ids THEN [w[r] EXCEPT !.gen = @ + 1] ELSE w[r]]

Uncomposed == {c \in Kids : rows[c].gen = 0}

(* BatchUpsertChildren: the new children are inserted, the changed ones    *)
(* get the emitted spec, in which the flowed fields are absent.            *)
Emitted(changed) == Bumped(rows, Uncomposed \cup changed)
EmittedInput(changed) ==
    [e \in Deps |-> IF e[1] \in changed THEN 0 ELSE input[e]]

(* ApplyComposeResult, in one transaction fenced by the claim: the         *)
(* children are upserted, the flows of settled upstreams substituted,      *)
(* every child touched is armed for scheduling, and composed_gen is        *)
(* stamped.                                                                *)
Compose(changed) ==
    LET emitted == Emitted(changed)
        unfilled == EmittedInput(changed)
        flowed == Bootstrapped(emitted, unfilled)
    IN /\ queue[Root].claimed /\ outbox[Root] = NoResult
       /\ composed < queue[Root].gen
       /\ changed \subseteq Kids \ Uncomposed
       /\ \A c \in Kids : Free(c)
       /\ rows' = Bumped(emitted, Heads(flowed))
       /\ input' = [e \in Deps |-> IF e \in flowed
                                   THEN emitted[e[2]].status ELSE unfilled[e]]
       /\ toSchedule' = toSchedule \cup Uncomposed \cup changed \cup Heads(Deps)
       /\ composed' = queue[Root].gen
       /\ want' = [c \in Kids |-> rows'[c].gen]
       /\ excused' = {c \in Kids : rows'[c].frozen \/ Failed(rows', c)}
       /\ UNCHANGED <<rootKind, queue, outbox, recheck, tx, faults, consumed>>

Ready(w, c) == ~Lagging(w, c) /\ w[c].health

Report(r, kind, health, status) ==
    outbox' = [outbox EXCEPT ![r] = [gen |-> queue[r].gen, kind |-> kind,
                                     health |-> health, status |-> status]]

FailedKinds == IF Parks THEN {"fail", "park"} ELSE {"fail"}

(* reactReconcile once the composer has run: without a settled subtree the *)
(* result does not advance; with one, the rollup folds the children's      *)
(* readiness into the root's health.                                       *)
Rollup ==
    /\ queue[Root].claimed /\ outbox[Root] = NoResult
    /\ composed >= queue[Root].gen
    /\ \/ /\ DescendantsSettled(rows)
          /\ Report(Root, "ok", \A c \in Kids : rows[c].frozen \/ Ready(rows, c), 0)
          /\ UNCHANGED faults
       \/ /\ ~DescendantsSettled(rows)
          /\ Report(Root, "wait", TRUE, 0)
          /\ UNCHANGED faults
       \/ /\ Fault
          /\ \E k \in FailedKinds : Report(Root, k, TRUE, 0)
    /\ UNCHANGED <<rootKind, rows, input, composed, queue, recheck, toSchedule, tx,
                   observers>>

(* A child's execution as a rule: healthy, same status as before.          *)
Work(c) ==
    /\ queue[c].claimed /\ outbox[c] = NoResult
    /\ Report(c, "ok", TRUE, IF rows[c].status = 0 THEN 1 ELSE rows[c].status)
    /\ UNCHANGED <<rootKind, rows, input, composed, queue, recheck, toSchedule, tx,
                   faults, observers>>

(* A child's execution that reports a drift or fails.  One of a resync,    *)
(* which looks for drifts, was charged with the resync.                    *)
WorkDrifts(c) ==
    /\ queue[c].claimed /\ outbox[c] = NoResult
    /\ IF Lagging(rows, c) THEN Fault ELSE UNCHANGED faults
    /\ \/ \E h \in BOOLEAN, s \in {1, 2} : Report(c, "ok", h, s)
       \/ \E k \in FailedKinds : Report(c, k, TRUE, 0)
    /\ UNCHANGED <<rootKind, rows, input, composed, queue, recheck, toSchedule, tx,
                   observers>>

----------------------------------------------------------------------------
(* drain_outbox_batch and the cascade trigger.                             *)

FlowedFillsOnly(S) ==
    {e \in Deps : /\ e[2] \in S /\ outbox[e[2]].kind = "ok"
                  /\ outbox[e[2]].status # rows[e[2]].status
                  /\ input[e] = 0
                  /\ rows[e[1]].gen > 0 /\ ~rows[e[1]].frozen}

(* The substitute pass: the edges whose source's status changes with this  *)
(* batch, into dependents that are not frozen.                             *)
Flowed(S) ==
    {e \in Deps : /\ e[2] \in S /\ outbox[e[2]].kind = "ok"
                  /\ outbox[e[2]].status # rows[e[2]].status
                  /\ input[e] # outbox[e[2]].status
                  /\ rows[e[1]].gen > 0 /\ ~rows[e[1]].frozen}

Patched(edges) == Bumped(rows, Heads(edges))

Larger(a, b) == IF a > b THEN a ELSE b

(* The coalesced status UPDATE.                                            *)
Applied(row, p) ==
    CASE p.kind = "ok" ->
           [row EXCEPT !.synced = Larger(@, p.gen), !.health = p.health,
                       !.fail = 0, !.parked = FALSE, !.status = p.status]
      [] p.kind \in {"fail", "park"} ->
           [row EXCEPT !.fail = p.gen, !.parked = (p.kind = "park")]
      [] OTHER -> row

View(S, edges) ==
    [r \in Resources |-> IF r \in S THEN Applied(Patched(edges)[r], outbox[r])
                         ELSE Patched(edges)[r]]

(* The generation-guarded delete of the drained work_queue rows.           *)
Unqueued(S) ==
    [r \in Resources |-> IF r \in S /\ queue[r].gen = outbox[r].gen
                         THEN NoTask ELSE queue[r]]

Upgraded(o, n) == {r \in Resources : Lagging(o, r) /\ ~Lagging(n, r)}

Demoted(o, n) == {c \in Kids : \/ o[c].health /\ ~n[c].health
                               \/ Failed(n, c) /\ ~Failed(o, c)}

ArmNever(n, q, put, up) == FALSE

(* The trigger's deferred recheck: a root that still lags and that this    *)
(* batch could not schedule.                                               *)
Arm(n, q, put, up) ==
    /\ up \cap Kids # {}
    /\ Lagging(n, Root) /\ ~n[Root].frozen
    /\ q[Root].gen = 0 /\ Root \notin put
    /\ ~recheck

(* The trigger's re-pend of a root at its current generation: a settled    *)
(* root whose descendant caught up, or any root whose descendant was       *)
(* demoted.  An existing row is left alone.                                *)
Repend(n, q, put, up, down) ==
    /\ (up \cap Kids # {} /\ ~Lagging(n, Root)) \/ down # {}
    /\ ~n[Root].frozen
    /\ q[Root].gen = 0 /\ Root \notin put

DrainBegin(b, S) ==
    LET edges == Flowed(S)
        old   == Patched(edges)
        new   == View(S, edges)
        q     == Unqueued(S)
        up    == Upgraded(old, new)
        cand  == {d \in Kids : Upstreams(d) \cap up # {}}
                 \cup (IF up \cap Kids # {} THEN {Root} ELSE {})
        sched == schedule_eligible(new, q, cand)
        put   == sched \cup
                 (IF Repend(new, q, sched, up, Demoted(old, new))
                  THEN {Root} ELSE {})
        locks == S \cup Heads(edges)
    IN /\ ~Open(b) /\ S # {}
       /\ \A r \in S : outbox[r] # NoResult /\ BandOf[r] = b
       /\ \A o \in Bands : /\ (locks \cup put) \cap Locked(o) = {}
                           /\ locks \cap Inserted(o) = {}
       /\ tx' = [tx EXCEPT ![b] =
                   [batch |-> S, flowed |-> edges,
                    put |-> {<<r, new[r].gen>> : r \in put},
                    arm |-> Arm(new, q, sched, up),
                    seen |-> q[Root].gen > 0]]
       /\ UNCHANGED <<rootKind, rows, input, composed, queue, outbox, recheck,
                      toSchedule, faults, observers>>

(* The rows of an open batch are locked, so its writes are still what they *)
(* were when it began.  Another batch that was to insert the same row      *)
(* finds this one's and leaves it.                                         *)
DrainCommit(b) ==
    LET S == tx[b].batch
        q == Unqueued(S)
    IN /\ Open(b)
       /\ rows' = View(S, tx[b].flowed)
       /\ input' = [e \in Deps |-> IF e \in tx[b].flowed
                                   THEN outbox[e[2]].status ELSE input[e]]
       /\ queue' = [r \in Resources |->
                      IF \E g \in 1..rows'[r].gen :
                            <<r, g>> \in tx[b].put /\ q[r].gen < g
                      THEN Task(CHOOSE g \in 1..rows'[r].gen : <<r, g>> \in tx[b].put)
                      ELSE q[r]]
       /\ outbox' = [r \in Resources |-> IF r \in S THEN NoResult ELSE outbox[r]]
       /\ recheck' = (recheck \/ tx[b].arm)
       /\ tx' = [o \in Bands |->
                   IF o = b THEN NoTx
                   ELSE [tx[o] EXCEPT
                           !.put = {p \in @ : p[1] \notin Inserted(b)},
                           !.arm = @ /\ ~tx[b].arm,
                           !.seen = @ \/ (Open(o) /\ Root \in S)]]
       /\ excused' = excused \cup
                     {c \in S \cap Kids : outbox[c].kind \in {"fail", "park"}}
       /\ consumed' = IF queue'[Root].gen > 0 THEN FALSE
                      ELSE \/ Root \in S
                           \/ IF Upgraded(rows, rows') \cap Kids # {}
                              THEN tx[b].seen ELSE consumed
       /\ UNCHANGED <<rootKind, composed, toSchedule, faults, want>>

----------------------------------------------------------------------------
(* The rechecks, the backstop, the resync and the operator.                *)

(* drain_rollup_rechecks: schedule the armed root on a fresh snapshot, and *)
(* forget it only if it has a row now.                                     *)
RollupRecheck ==
    /\ recheck
    /\ queue' = Scheduled(rows, queue, {Root})
    /\ recheck' = (queue'[Root].gen = 0)
    /\ NotConsumedIfQueued
    /\ UNCHANGED <<rootKind, rows, input, composed, outbox, toSchedule, tx, faults,
                   want, excused>>

(* drain_schedule_rechecks: schedule what can run, forget the whole batch. *)
ScheduleRecheck(b) ==
    LET ids == {c \in toSchedule : BandOf[c] = b}
    IN /\ ids # {}
       /\ queue' = Scheduled(rows, queue, ids)
       /\ toSchedule' = toSchedule \ ids
       /\ UNCHANGED <<rootKind, rows, input, composed, outbox, recheck, tx, faults,
                      observers>>

RequeueFailed(r) ==
    /\ queue[r].gen = 0 /\ Eligible(rows, r) /\ Failed(rows, r)
    /\ queue' = Scheduled(rows, queue, {r})
    /\ NotConsumedIfQueued
    /\ UNCHANGED <<rootKind, rows, input, composed, outbox, recheck, toSchedule, tx,
                   faults, want, excused>>

(* requeue_failed_and_pending, the reaper's backstop.                      *)
Requeue(r) ==
    /\ queue[r].gen = 0 /\ Eligible(rows, r)
    /\ queue' = Scheduled(rows, queue, {r})
    /\ NotConsumedIfQueued
    /\ UNCHANGED <<rootKind, rows, input, composed, outbox, recheck, toSchedule, tx,
                   faults, want, excused>>

(* requeue_for_resync: a settled row runs again at its generation; a root  *)
(* whose kind has resync_recomposes is composed again too.                 *)
Resync(r) ==
    /\ rows[r].gen > 0 /\ ~Lagging(rows, r) /\ ~rows[r].frozen
    /\ queue[r].gen = 0 /\ Free(r)
    /\ Fault
    /\ queue' = [queue EXCEPT ![r] = Task(rows[r].gen)]
    /\ NotConsumedIfQueued
    /\ composed' = IF r = Root /\ rootKind.recomposes THEN 0 ELSE composed
    /\ UNCHANGED <<rootKind, rows, input, outbox, recheck, toSchedule, tx,
                   want, excused>>

(* quarantine_resource: freeze the child and drop its unclaimed row.       *)
Quarantine(c) ==
    /\ Freezes
    /\ rows[c].gen > 0 /\ ~rows[c].frozen /\ Free(c)
    /\ Fault
    /\ rows' = [rows EXCEPT ![c].frozen = TRUE]
    /\ queue' = IF queue[c].claimed THEN queue
                ELSE [queue EXCEPT ![c] = NoTask]
    /\ excused' = excused \cup {c}
    /\ UNCHANGED <<rootKind, input, composed, outbox, recheck, toSchedule, tx, want,
                   consumed>>

(* unquarantine_resource: clear the freeze and schedule the child.         *)
Unquarantine(c) ==
    /\ rows[c].frozen /\ Free(c)
    /\ rows' = [rows EXCEPT ![c].frozen = FALSE]
    /\ queue' = Scheduled(rows', queue, {c})
    /\ UNCHANGED <<rootKind, input, composed, outbox, recheck, toSchedule, tx, faults,
                   observers>>

System ==
    \/ \E r \in Resources : Claim(r) \/ Requeue(r)
    \/ \E changed \in SUBSET Kids : Compose(changed)
    \/ Rollup
    \/ \E c \in Kids : Work(c)
    \/ \E b \in Bands : \/ \E S \in SUBSET Resources : DrainBegin(b, S)
                        \/ DrainCommit(b)
                        \/ ScheduleRecheck(b)
    \/ RollupRecheck

Next ==
    \/ ApplySpec
    \/ System
    \/ \E c \in Kids : WorkDrifts(c) \/ Quarantine(c) \/ Unquarantine(c)
    \/ \E r \in Resources : Resync(r)

Spec == Init /\ [][Next]_vars

(* Every band drains its oldest results and every pod works: each step of  *)
(* a resource that stays possible is taken.  The reaper ticks.             *)
Fairness ==
    /\ \A r \in Resources :
         /\ WF_vars(Claim(r))
         /\ WF_vars(Requeue(r))
         /\ WF_vars(\E S \in SUBSET Resources :
                      r \in S /\ DrainBegin(BandOf[r], S))
    /\ WF_vars(\E changed \in SUBSET Kids : Compose(changed))
    /\ WF_vars(Rollup)
    /\ \A c \in Kids : WF_vars(Work(c))
    /\ \A b \in Bands : WF_vars(DrainCommit(b)) /\ WF_vars(ScheduleRecheck(b))
    /\ WF_vars(RollupRecheck)

FairSpec == Spec /\ Fairness

----------------------------------------------------------------------------
(* Properties.                                                             *)

NoOpenBatch == \A b \in Bands : ~Open(b)

(* nothing is queued, running, reported or waiting for a recheck           *)
Quiet ==
    /\ NoOpenBatch /\ ~recheck /\ toSchedule = {}
    /\ \A r \in Resources : queue[r].gen = 0 /\ outbox[r] = NoResult

(* Rollup order: once the root has synced the generation it composed,      *)
(* every child has synced the generation that compose asked for, unless    *)
(* the child failed or was set aside meanwhile.  The rollup reads the      *)
(* subtree outside any lock, while the batches of the other bands commit   *)
(* (reactReconcile, DescendantsSettled).  A kind whose resyncs recompose   *)
(* changes children under a synced root and does not promise this.         *)
RollupAfterChildren ==
    ~rootKind.recomposes /\ composed > 0 /\ rows[Root].synced >= composed
      => \A c \in Kids : rows[c].synced >= want[c] \/ c \in excused

(* Straddle: when the last descendants of a lagging root settle in batches *)
(* of different bands, the root has a work_queue row or is armed for a     *)
(* recheck; it is left to the reaper's poll only if it had a row of its    *)
(* own while that batch ran, or one drained since                          *)
(* (cascade_on_ready_change, drain_rollup_rechecks).                       *)
StraddleClosed ==
    Lagging(rows, Root) /\ DescendantsSettled(rows) /\ NoOpenBatch
      => queue[Root].gen > 0 \/ recheck \/ consumed

(* The root is rolled up neither before its children have settled nor      *)
(* forgotten once they have (reactReconcile, drain_rollup_rechecks).       *)
RootFollowsChildren == RollupAfterChildren /\ StraddleClosed

FirstCompose == rows[Root].gen = 1 /\ ~rootKind.recomposes

(* A dependent that is scheduled has its flowed field filled: the          *)
(* substitute pass runs before the child is ever scheduled.  This is about *)
(* the first compose, and dependents the operator has left alone: a        *)
(* recompose empties the field, and a frozen dependent is passed over.     *)
FlowedBeforeRun ==
    FirstCompose => \A e \in Deps :
        queue[e[1]].gen > 0 => input[e] # 0 \/ e[1] \in excused

(* When the tree is at rest, every dependent holds the status its upstream *)
(* reports, also after the upstream drifted (drain_outbox_batch's          *)
(* substitute pass), within the same limits.                               *)
FlowDelivered ==
    FirstCompose /\ Quiet => \A e \in Deps :
        \/ rows[e[2]].synced = 0 \/ e[1] \in excused
        \/ input[e] = rows[e[2]].status

(* A flowed value is there before the first run, and is the right one in   *)
(* the end (drain_outbox_batch's substitute pass).                         *)
FlowsDelivered == FlowedBeforeRun /\ FlowDelivered

GivenUp(r) == rows[r].frozen \/ (rows[r].parked /\ Failed(rows, r))

(* The whole tree converges: in the end every resource has synced its      *)
(* generation, whatever the batches, the drifts and the transient          *)
(* failures, unless one of them was set aside or failed for good.          *)
Converges ==
    <>[](\A r \in Resources : Lagging(rows, r) => \E x \in Resources : GivenUp(x))
=============================================================================
