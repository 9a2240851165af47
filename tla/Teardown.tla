----------------------------- MODULE Teardown -----------------------------
(***************************************************************************)
(* How a composite and its children go away: soft delete with finalizers,  *)
(* the reverse-dependency cascade (cascade_mark_for_deletion and           *)
(* sweep_deletable), the prune of children a recompose no longer emits,    *)
(* orphan grace (sweep_expired_orphans) and quarantine, interleaved with   *)
(* the reconcile and delete executions of the workers.                     *)
(*                                                                         *)
(* What an execution does outside the database is kept as one bit per      *)
(* child, built: its reconcile builds the infrastructure, its teardown     *)
(* removes it.  An execution whose claim was taken away may still be       *)
(* running (running); its result is fenced, its effect on the              *)
(* infrastructure is not.  Time is abstracted: grace may expire and a      *)
(* lease may be lost at any moment.                                        *)
(***************************************************************************)
EXTENDS Integers, FiniteSets

CONSTANTS
    Root, Kids,   \* the composite and the children its composer may emit
    Composites,   \* the composites to look at, see Composite
    ApiDeletes,   \* resources a user may delete
    MaxFaults     \* bound: failed teardowns, lost leases, dropped rows

Resources == Kids \cup {Root}

(* What the kinds of the tree declare, and what the composer emits.        *)
Composite ==
    [deps      : SUBSET (Kids \X Kids), \* edges <<dependent, dependency>>
     outputs   : SUBSET SUBSET Kids,    \* the children a run may emit
     finalized : SUBSET Resources,      \* those of a kind with a finalizer
     graced    : SUBSET Kids]           \* those with orphan_grace_secs > 0

ASSUME ConstantsAssumption ==
    /\ Root \notin Kids
    /\ Composites \subseteq Composite
    /\ ApiDeletes \subseteq Resources
    /\ MaxFaults \in Nat

VARIABLES
    shape,    \* the composite at hand, settled once and for all
    rows,     \* table resources
    edges,    \* table resource_deps
    rec,      \* the reconcile row of each resource in work_queue
    del,      \* its delete row, and the result in work_outbox
    running,  \* executions under way, <<resource, "rec" or "del">>
    faults,   \* the faults spent so far
    (* observers *)
    built,    \* children whose infrastructure exists
    uses,     \* edges the infrastructure was built along
    produced, \* the children the last compose emitted
    raced,    \* children torn down with a reconcile pending or running
    late      \* children composed under a root, or onto a dependency, that
              \* was already being deleted

observers == <<built, uses, produced, raced, late>>
vars == <<shape, rows, edges, rec, del, running, faults, observers>>

Deps      == shape.deps
Finalized == shape.finalized
Graced    == shape.graced

----------------------------------------------------------------------------
Row == [life : {"absent", "live", "deleting"},
        synced : BOOLEAN,  \* synced_gen = generation
        fin : BOOLEAN, frozen : {"no", "orphan", "infinity"}]

Absent == [life |-> "absent", synced |-> FALSE, fin |-> FALSE, frozen |-> "no"]
Live   == [Absent EXCEPT !.life = "live"]

TypeOK ==
    /\ shape \in Composites
    /\ rows \in [Resources -> Row]
    /\ edges \subseteq Deps
    /\ rec \in [Resources -> {"none", "pending", "claimed"}]
    /\ del \in [Resources -> {"none", "pending", "claimed", "done", "failed"}]
    /\ running \subseteq Resources \X {"rec", "del"}
    /\ faults \in 0..MaxFaults
    /\ built \subseteq Kids
    /\ uses \subseteq Deps
    /\ produced \subseteq Kids
    /\ raced \subseteq Kids
    /\ late \subseteq Kids

Init ==
    /\ shape \in Composites
    /\ rows = [r \in Resources |-> IF r = Root THEN Live ELSE Absent]
    /\ edges = {} /\ uses = {} /\ built = {} /\ produced = {}
    /\ rec = [r \in Resources |-> IF r = Root THEN "pending" ELSE "none"]
    /\ del = [r \in Resources |-> "none"]
    /\ running = {} /\ raced = {} /\ late = {}
    /\ faults = 0

Fault == faults < MaxFaults /\ faults' = faults + 1

----------------------------------------------------------------------------
(* Marking.  The operators take the tables they read as parameters: one    *)
(* transaction runs several statements, each on what the one before left.  *)

OwnedOrDependent(w, x, y) ==
    \/ x = Root /\ y \in Kids /\ w[y].life # "absent"
    \/ <<y, x>> \in edges

(* The recursive walk of cascade_mark_for_deletion: the least set that     *)
(* holds r and, with a resource, all it owns and all that depends on it.   *)
Tree(w, r) ==
    {x \in Resources : \A S \in SUBSET Resources :
        (r \in S /\ \A y \in S, z \in Resources : OwnedOrDependent(w, y, z) => z \in S)
          => x \in S}

MarkedSkippingFrozen(w, ids) ==
    [x \in Resources |->
        IF x \in ids /\ w[x].life = "live" /\ w[x].frozen = "no"
        THEN [w[x] EXCEPT !.life = "deleting", !.fin = x \in Finalized, !.frozen = "no"]
        ELSE w[x]]

Marked(w, ids) ==
    [x \in Resources |->
        IF x \in ids /\ w[x].life = "live"
        THEN [w[x] EXCEPT !.life = "deleting", !.fin = x \in Finalized, !.frozen = "no"]
        ELSE w[x]]

----------------------------------------------------------------------------
(* Removal.                                                                *)

BlockedByChildrenOnly(w, x) ==
    x = Root /\ \E c \in Kids : w[c].life # "absent"

(* sweep_deletable and drain_outbox_batch share this gate: an owned child, *)
(* or a dependent that is itself being deleted.                            *)
Blocked(w, x) ==
    \/ x = Root /\ \E c \in Kids : w[c].life # "absent"
    \/ \E e \in edges : e[2] = x /\ w[e[1]].life = "deleting"

(* DELETE FROM resources: owner_id cascades to the children.               *)
Doomed(ids) == IF Root \in ids THEN Resources ELSE ids
Removed(w, ids) ==
    [x \in Resources |-> IF x \in Doomed(ids) THEN Absent ELSE w[x]]

(* cleanup_orphaned_deps: edges and queue rows go with the row.            *)
Without(E, ids) == {e \in E : e[1] \notin Doomed(ids) /\ e[2] \notin Doomed(ids)}
Unqueued(q, ids) == [x \in Resources |-> IF x \in Doomed(ids) THEN "none" ELSE q[x]]

(* A kind without a finalizer has nothing to tear down.                    *)
BuiltAfter(ids) == built \ (Doomed(ids) \ Finalized)

(* The hard-delete passes of sweep_deletable, run until nothing changes:   *)
(* the least set of marked, finalized nodes closed under its gate.         *)
Collapsing(w, range) ==
    {x \in range : \A S \in SUBSET range :
        (\A y \in range : (/\ w[y].life = "deleting" /\ ~w[y].fin
                           /\ ~Blocked(Removed(w, S), y)) => y \in S)
          => x \in S}

(* Its enqueue passes, on what the removals leave.                         *)
Dispatchable(w, range) ==
    {x \in range : w[x].life = "deleting" /\ w[x].fin /\ ~Blocked(w, x)}
Dispatched(q, ids) ==
    [x \in Resources |-> IF x \in ids /\ q[x] = "none" THEN "pending" ELSE q[x]]

(* What a transaction leaves: its rows and edges, the queue rows of what   *)
(* it removed, and the delete tasks it dispatched.                         *)
Commit(w, E, gone, ready) ==
    /\ rows' = w
    /\ edges' = E
    /\ rec' = Unqueued(rec, gone)
    /\ del' = Dispatched(Unqueued(del, gone), ready)
    /\ built' = BuiltAfter(gone)

SweepAfter(w, range) ==
    LET gone == Collapsing(w, range)
        left == Removed(w, gone)
    IN Commit(left, Without(edges, gone), gone, Dispatchable(left, range))

(* The reaper's pass over the shards of its member.                        *)
Sweep(range) ==
    /\ SweepAfter(rows, range)
    /\ UNCHANGED <<shape, running, faults, uses, produced, raced, late>>

(* request_resource_deletion: mark the tree, then sweep all shards.        *)
RequestDeletion(r) ==
    /\ rows[r].life # "absent"
    /\ SweepAfter(Marked(rows, Tree(rows, r)), Resources)
    /\ UNCHANGED <<shape, running, faults, uses, produced, raced, late>>

----------------------------------------------------------------------------
(* Composing.                                                              *)

Upserted(P) ==
    [x \in Resources |-> IF x \in P /\ rows[x].life = "absent" THEN Live ELSE rows[x]]

DroppedQuarantinedToo(P) == {c \in Kids \ P : rows[c].life = "live"}

(* The children to prune: not produced, not draining, not frozen.          *)
Dropped(P) ==
    {c \in Kids \ P : rows[c].life = "live" /\ rows[c].frozen = "no"}

(* MarkChildrenOrphaned, which leaves a row that is draining alone.        *)
Orphaned(w, ids) ==
    [x \in Resources |-> IF x \in ids /\ w[x].life = "live"
                         THEN [w[x] EXCEPT !.frozen = "orphan"] ELSE w[x]]

(* ClearOrphanMarks, for the produced children in their grace window.      *)
Readopted(w, P) ==
    [x \in Resources |-> IF x \in P /\ w[x].frozen = "orphan"
                         THEN [w[x] EXCEPT !.frozen = "no"] ELSE w[x]]

(* ApplyComposeResult: upsert, prune (grace, soft delete, hard delete),    *)
(* re-adopt, replace the edges.  The soft deletes walk and sweep along the *)
(* edges of the compose before.  Nothing looks at the root's own deletion. *)
Compose(P) ==
    LET soft  == (Dropped(P) \ Graced) \cap Finalized
        hard  == (Dropped(P) \ Graced) \ Finalized
        w     == Marked(Upserted(P), UNION {Tree(Upserted(P), c) : c \in soft})
        gone  == IF soft = {} THEN {} ELSE Collapsing(w, Resources)
        swept == Removed(w, gone)
        fresh == {c \in P : rows[c].life = "absent"}
    IN /\ rec[Root] = "claimed"
       /\ rows' = Readopted(Removed(Orphaned(swept, Dropped(P) \cap Graced), hard), P)
       /\ edges' = {e \in Deps : e[1] \in P /\ e[2] \in P}
       /\ rec' = [Unqueued(rec, gone \cup hard) EXCEPT ![Root] = "none"]
       /\ del' = Dispatched(Unqueued(del, gone \cup hard),
                            IF soft = {} THEN {} ELSE Dispatchable(swept, Resources))
       /\ built' = BuiltAfter(gone \cup hard) \ fresh
       /\ running' = {t \in running : t[1] \notin fresh}
       /\ uses' = {e \in uses : e[1] \notin fresh}
       /\ raced' = raced \ fresh
       /\ produced' = P
       /\ late' = (late \ fresh) \cup
                  {c \in fresh : \/ rows[Root].life = "deleting"
                                 \/ \E e \in Deps : /\ e[1] = c
                                                    /\ rows[e[2]].life = "deleting"}
       /\ UNCHANGED <<shape, faults>>

(* sweep_expired_orphans: the grace of c has run out.  A row with a        *)
(* finalizer is marked and its delete task enqueued at once, any other row *)
(* is removed.                                                             *)
SweepOrphan(c) ==
    LET gone == {c} \ Finalized
        w == [rows EXCEPT ![c] = [@ EXCEPT !.life = "deleting", !.fin = TRUE, !.frozen = "no"]]
    IN /\ rows[c].life = "live" /\ rows[c].frozen = "orphan"
       /\ Commit(Removed(w, gone), Without(edges, gone), gone, {c} \ gone)
       /\ UNCHANGED <<shape, running, faults, uses, produced, raced, late>>

(* quarantine_resource and unquarantine_resource                           *)
Quarantine(c) ==
    /\ rows[c].life = "live" /\ rows[c].frozen # "infinity"
    /\ rows' = [rows EXCEPT ![c].frozen = "infinity"]
    /\ rec' = [rec EXCEPT ![c] = IF @ = "pending" THEN "none" ELSE @]
    /\ UNCHANGED <<shape, edges, del, running, faults, observers>>

Unquarantine(c) ==
    /\ rows[c].frozen = "infinity"
    /\ rows' = [rows EXCEPT ![c].frozen = "no"]
    /\ UNCHANGED <<shape, edges, rec, del, running, faults, observers>>

----------------------------------------------------------------------------
(* Scheduling and executing.                                               *)

(* A live row gets a reconcile row: from schedule_eligible once its        *)
(* upstreams have synced, also while these are being torn down, from       *)
(* requeue_for_resync whatever its upstreams do.                           *)
Schedule(r) ==
    /\ rows[r].life = "live" /\ rows[r].frozen = "no" /\ rec[r] = "none"
    /\ rows[r].synced \/ \A e \in edges : e[1] = r => rows[e[2]].synced
    /\ rec' = [rec EXCEPT ![r] = "pending"]
    /\ UNCHANGED <<shape, rows, edges, del, running, faults, observers>>

(* WorkQueueTakeBatch looks at work_queue only: a reconcile row of a       *)
(* resource under deletion is claimed like any other.                      *)
ClaimReconcile(r) ==
    /\ rec[r] = "pending"
    /\ rec' = [rec EXCEPT ![r] = "claimed"]
    /\ running' = IF r = Root THEN running ELSE running \cup {<<r, "rec">>}
    /\ UNCHANGED <<shape, rows, edges, del, faults, observers>>

ClaimDelete(r) ==
    /\ del[r] = "pending"
    /\ del' = [del EXCEPT ![r] = "claimed"]
    /\ running' = running \cup {<<r, "del">>}
    /\ UNCHANGED <<shape, rows, edges, rec, faults, observers>>

(* reactReconcile of a child, and the drain of its result                  *)
Reconcile(c) ==
    /\ <<c, "rec">> \in running
    /\ running' = running \ {<<c, "rec">>}
    /\ rows' = [rows EXCEPT ![c].synced = @ \/ rec[c] = "claimed"]
    /\ rec' = [rec EXCEPT ![c] = IF @ = "claimed" THEN "none" ELSE @]
    /\ built' = built \cup {c}
    /\ uses' = {e \in uses : e[1] # c} \cup {e \in edges : e[1] = c}
    /\ UNCHANGED <<shape, edges, del, faults, produced, raced, late>>

(* reactDelete: the deleteRequested reaction, then the fenced AppendOutbox *)
Teardown(r) ==
    /\ <<r, "del">> \in running
    /\ running' = running \ {<<r, "del">>}
    /\ del' = [del EXCEPT ![r] = IF @ = "claimed" THEN "done" ELSE @]
    /\ built' = built \ {r}
    /\ raced' = IF r \in Kids /\ (rec[r] # "none" \/ <<r, "rec">> \in running)
                THEN raced \cup {r} ELSE raced
    /\ UNCHANGED <<shape, rows, edges, rec, faults, uses, produced, late>>

TeardownFails(r) ==
    /\ <<r, "del">> \in running
    /\ Fault
    /\ running' = running \ {<<r, "del">>}
    /\ del' = [del EXCEPT ![r] = IF @ = "claimed" THEN "failed" ELSE @]
    /\ UNCHANGED <<shape, rows, edges, rec, observers>>

StrippedAlways(w, r) == [w EXCEPT ![r].fin = FALSE]

(* array_remove of the finalizer, on success only                          *)
Stripped(w, r) == IF del[r] = "done" THEN [w EXCEPT ![r].fin = FALSE] ELSE w

(* drain_outbox_batch on a delete result: strip, gated hard delete, and    *)
(* re-pend of a failure.                                                   *)
DrainDelete(r) ==
    LET w == Stripped(rows, r)
        gone == IF w[r].life = "deleting" /\ ~w[r].fin /\ ~Blocked(w, r)
                THEN {r} ELSE {}
        again == IF del[r] = "failed" /\ w[r].life = "deleting" /\ w[r].fin
                 THEN "pending" ELSE "none"
    IN /\ del[r] \in {"done", "failed"}
       /\ rows' = Removed(w, gone)
       /\ edges' = Without(edges, gone)
       /\ rec' = Unqueued(rec, gone)
       /\ del' = Unqueued([del EXCEPT ![r] = again], gone)
       /\ built' = BuiltAfter(gone)
       /\ UNCHANGED <<shape, running, faults, uses, produced, raced, late>>

(* reap_stale_work: the claim is lost; the execution died, or goes on.     *)
Reap(r, t) ==
    /\ \/ t = "rec" /\ rec[r] = "claimed" /\ del' = del
          /\ rec' = [rec EXCEPT ![r] = "pending"]
       \/ t = "del" /\ del[r] = "claimed" /\ rec' = rec
          /\ del' = [del EXCEPT ![r] = "pending"]
    /\ Fault
    /\ running' \in {running, running \ {<<r, t>>}}
    /\ UNCHANGED <<shape, rows, edges, observers>>

(* delete_unclaimed_work                                                   *)
DropUnclaimed(r) ==
    /\ \/ rec[r] = "pending" /\ rec' = [rec EXCEPT ![r] = "none"] /\ del' = del
       \/ del[r] = "pending" /\ del' = [del EXCEPT ![r] = "none"] /\ rec' = rec
    /\ Fault
    /\ UNCHANGED <<shape, rows, edges, running, observers>>

System ==
    \/ Sweep(Resources)
    \/ \E r \in Resources : \/ ClaimReconcile(r) \/ ClaimDelete(r)
                            \/ Teardown(r) \/ DrainDelete(r)
    \/ \E c \in Kids : Reconcile(c)
    \/ \E P \in shape.outputs : Compose(P)

Next ==
    \/ System
    \/ \E r \in ApiDeletes : RequestDeletion(r)
    \/ \E r \in Resources :
        \/ Sweep({r}) \/ Schedule(r) \/ TeardownFails(r) \/ DropUnclaimed(r)
        \/ \E t \in {"rec", "del"} : Reap(r, t)
    \/ \E c \in Kids : SweepOrphan(c) \/ Quarantine(c) \/ Unquarantine(c)

Spec == Init /\ [][Next]_vars

(* The reaper ticks, and the brokers, the workers and the drainers go on   *)
(* with what they hold; nothing is assumed of users, operators or faults.  *)
Fairness ==
    /\ WF_vars(Sweep(Resources))
    /\ \A r \in Resources : /\ WF_vars(ClaimDelete(r)) /\ WF_vars(Teardown(r))
                            /\ WF_vars(DrainDelete(r))

FairSpec == Spec /\ Fairness

----------------------------------------------------------------------------
(* Properties.                                                             *)

Gone(r) == rows[r].life # "absent" /\ rows'[r].life = "absent"

(* No infrastructure is left behind: a child of a kind with a finalizer    *)
(* whose row is gone has been torn down, whichever of the four paths       *)
(* removed the row (sweep_deletable, drain_outbox_batch, the composer's    *)
(* prune, sweep_expired_orphans), unless a reconcile of it was pending or  *)
(* running when its teardown ran.                                          *)
TornDownBeforeGone ==
    \A c \in Kids \cap Finalized \cap built :
        rows[c].life = "absent" => c \in raced

InOrder(u, exempt) ==
    \A e \in uses : e[2] = u => e[1] \notin (built \cap Finalized) \ exempt

(* Order: infrastructure is torn down only after that of all the resources *)
(* of a kind with a finalizer that are built on it (sweep_deletable's      *)
(* dependent gate), unless one of them raced with its own reconcile, or    *)
(* was composed onto a dependency that was already being deleted.          *)
TeardownInOrder == [][\A u \in built \ built' : InOrder(u, raced \cup late)]_vars

(* Grace: a child in its grace window is one the last compose did not      *)
(* emit, through drops, re-emits, quarantines and deletions in any order   *)
(* (ApplyComposeResult, ClearOrphanMarks, sweep_expired_orphans).          *)
OrphansWereDropped ==
    \A c \in Kids : rows[c].frozen = "orphan" => c \notin produced

(* Quarantine stands: of all that happens to a quarantined child, only its *)
(* release and a deletion change it; a compose that emits or drops it does *)
(* not (MarkChildrenOrphanedSQL, ClearOrphanMarksSQL).                     *)
QuarantineStands ==
    \A c \in Kids : rows[c].frozen = "infinity" =>
        \/ rows'[c].frozen = "infinity"
        \/ rows'[c].life = "deleting"
        \/ Gone(c)
        \/ Unquarantine(c)

(* The two uses of frozen_until, the grace of a dropped child and the      *)
(* quarantine of an operator, are never taken for each other.              *)
FrozenKept == [][OrphansWereDropped' /\ QuarantineStands]_vars

(* A root whose deletion was requested goes away, with all its children,   *)
(* unless a compose added a child after the request (sweep_deletable).     *)
DeletionCompletes ==
    rows[Root].life = "deleting" ~> (late # {} \/ \A r \in Resources : rows[r].life = "absent")
=============================================================================
