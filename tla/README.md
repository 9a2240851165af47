# Converge: a TLA+ verification project

Converge is a control plane for declarative resources, in the shape of
Kubernetes or Crossplane but built on PostgreSQL alone.  A user applies a spec;
the control plane schedules a reconcile task; a broker pod claims it and hands
it to a worker; the result goes to an outbox; a drainer applies it to the
resource and schedules whatever was waiting for it.  Scheduling, gating, status
application and the cascade are plpgsql functions in
`src/db/migrations/00001_schema.sql`; the loops that call them, the broker, the
worker SDK and the API are Go.

This directory holds TLA+ modules that model that machinery, TLC configurations
that check them on small instances, and TLAPS proofs that cover every
instance.  `PROJECT.json` maps every definition to the source lines it translates
and lists the runs, the mutants that show each property can fail, the hazards,
the findings and the theorems.

## 1. The system and its parts

| Part | State | Operations that change it | What is hard about it |
|---|---|---|---|
| Resources and the apply path (`store/commands.go`, `queries/engine.sql`) | `resources`: `generation`, `synced_gen`, `status`, `health_ok`, `failure_*`, `frozen_until`, `finalizers`, `composed_gen` | apply, label apply, reconcile, rollback, delete request, quarantine | a spec edit lands while a worker runs the previous generation |
| Scheduler (`schedule_eligible`, `requeue_*`) | `work_queue` (UNLOGGED, one row per resource and task type) | insert, re-point, requeue backstop, drift resync | selects without locks; every path must respect parking and freezing |
| Claim, lease and fence (`queries/work_queue.sql`, `runtime/loop.go`) | `broker_id`, `claim_epoch`, `heartbeat_at` | claim, heartbeat, release, stale reap | leases are lost by live holders; late results must be fenced |
| Outbox and drain (`drain_outbox_batch`) | `work_outbox` (UNLOGGED, one row per work id) | append, drain | batches drained in any order by several bands at READ COMMITTED |
| Cascade and rollup (`cascade_on_ready_change`, `rollup_recheck`, `schedule_recheck`) | dependency edges, roots and descendants | trigger on drain, deferred rechecks, rollup, demotion and re-promotion | two bands settle the last two children of a root and neither sees the other |
| Composer (`store/composer.go`) | children, edges, `composed_gen`, orphans | compose, diff, prune, adopt | re-compose against children that changed meanwhile |
| Teardown (`cascade_mark_for_deletion`, `sweep_deletable`, `sweep_expired_orphans`) | `deletion_requested_at`, `finalizers`, `frozen_until` | mark, delete task, strip, hard delete, orphan grace | dependency order, failed teardowns, two deleters |
| Operations (`resource_operations`) | operation rows | invoke, run, finish | an operation must reach a final state |
| Lifecycle reactors (`lifecycle_outbox`, `reactor_bindings`) | deliveries with their own claim epoch | emit, claim, ack, reap | at-least-once delivery across crashes |
| Per-kind cap (`kind_inflight`) | partial counters by shard range | claim (budget and bump), recount | counters drift and are recounted while in use |
| Shard assignment (`assign_member_shards`, `cluster_members`) | member rows with heartbeats | join, heartbeat, leave, expire | every shard must be owned, overlaps must be harmless |
| Broker fan-out (`internal/broker`) | worker streams, in-flight stages, credits, capacity gates | dispatch, deliver, drop, abandon, peer relay | goroutines race on deadline, disconnect and completion |
| Broker mesh (`broker/relay.go`, `peer.go`, `route_frame.go`) | peers, one Route stream per pair, what each peer serves | discover, dial, accept, advertise, break, redial | the claim gate rests on what was last heard over streams that break |
| Wakes (`notify_gated`, `LISTEN`) | `wake_state` | gated notify, failsafe poll | lost wakes |
| Dispatcher (`runtime/dispatcher.go`, `loop.go`) | ring of pairs with counters, in-flight set, goroutines | sweep, claim, run, beat, announce a pair, drain, release | a claim lost under its goroutine; deadlines and shutdown racing results |
| Manifests and kind configuration | versioned manifests, `kind_config`, copies in every process | publish, delete, retire, pin, flip version | checks and writes of two calls interleave; copies are stale when used |
| Worker session and provider config (`sdk-go/converge`) | tracked tasks, kept results, send mux, config cache | subscribe, handle, send, drain, reconnect, load, push | results across broken streams; a load that overtakes a push |
| CLI, providers, request decoding | none of their own | request handling, formatting | outside the model |

The parts meet at tables.  An apply bumps `generation` and calls
`schedule_eligible`, which writes `work_queue`; a dispatcher claims the row
under a token (`id`, `claim_epoch`) and gives the task to the broker's fan-out;
the worker's result is appended to `work_outbox` if the token is still current;
`drain_outbox_batch` applies it, and the trigger `cascade_on_ready_change`
schedules dependents, roots and lifecycle deliveries in the same transaction.
Every loop is woken by `NOTIFY` and polls anyway, and the reaper re-creates what
was lost.  The schema runs at READ COMMITTED, so what one transaction decides
rests on a snapshot that another may have outdated when it commits: wherever the
code depends on that, a statement or a batch is two steps in the model.

## 2. The modules

| Module | Models | Module for TLC | Proofs |
|---|---|---|---|
| `Convergence` | the promise to the user of one resource; abstract | - | - |
| `WorkQueue` | apply, schedule, claim, fence, outbox, drain, reap, resync, quarantine | `MCWorkQueue` | `WorkQueueProofs` |
| `Operations` | subresource verbs | `MCOperations` | `ApiProofs` |
| `Cascade` | one composite: gates, value flows, straddle, rollup | `MCCascade` | `CascadeProofs` |
| `Teardown` | deletion, prune, grace and quarantine of one composite | `MCTeardown` | `TeardownProofs` |
| `Reactor` | lifecycle deliveries | `MCReactor` | `ReactorProofs` |
| `KindCap` | the cap on a kind's tasks in flight | (`KindVersions`) | `ApiProofs` |
| `SchemaLint` | the compatibility linter and what a schema admits | (`MCKindVersions`) | - |
| `KindVersions` | published versions, the calls that change them, the copies in every process; extends `KindCap` | `MCKindVersions` | `ApiProofs` |
| `ShardTiling`, `Sharding` | slices of the shards; membership and ownership | `MCSharding` | `FleetProofs` |
| `Dispatcher` | one pod's claim loop, its goroutines and its heartbeat | `MCDispatcher` | `DispatcherProofs` |
| `BrokerFanout` | one broker between its dispatcher and its workers | `MCBrokerFanout` | `BrokerFanoutProofs` |
| `MeshRoute` | what two brokers know of each other's workers | `MCMeshRoute` | `FleetProofs` |
| `WorkerSession` | the worker's side of the work stream | (`WorkerConfig`) | `FleetProofs` |
| `WorkerConfig` | the default provider config on its way to a worker; extends the session | `MCWorkerConfig` | `FleetProofs` |

`PROJECT.json` (`map`) gives the source lines of every definition.  Variables
called observers exist in no table; they record history for the properties, and
no guard reads them.  `faults` and the constants `Max...` bound the exploration.
Modules proved about together have names apart: the specification of `Operations` is
`OperateSpec`, that of `MeshRoute` is `RouteSpec`, that of `WorkerConfig` is
`WorkerSpec` (`RouteFairSpec` and `WorkerFairSpec` with fairness).

**WorkQueue.**  One function per table keyed by the resource (`queue`, the
`reconcile` slot) and two sets (`execs`, what pods hold in memory; `outbox`).
`schedule_eligible` is an operator used by every path that schedules
(`ApplySpec`, `ApplyLabels`, `Unquarantine`, `requeue_failed_and_pending`), as
in the code.  `Claim` bumps the token; `Finish` runs the task; `AppendOutbox` is
the fenced insert in one step, and `AppendSnapshot`/`AppendWrite` the same
statement straddling a concurrent change.  `drain_outbox_batch` takes any subset
of the outbox, chooses among rows of one resource as `UPDATE ... FROM` may, and
does the whole function: status, `synced_gen`, failure counter, dead-letter,
deletion of the queue row.  `ReapSelect`/`ReapUpdate` are the two halves of
`reap_stale_work`.  `PostgresCrash` empties the UNLOGGED tables.  The observer
`disordered` notes that a pending row was dropped (quarantine, the 24 h
collector) or a result written after its fence had been broken.

**Operations.**  The `operate` slot of one resource.  `Invoke` commits the
record and its task together, or neither when the slot is taken or the resource
frozen.  The states are those of `resource_operations.state`.

**Cascade.**  Leases are taken from `WorkQueue` in abstract form: a claimed row
stays claimed until it is drained or re-pointed.  A drain batch of a band is
`DrainBegin` (all gates, on the committed state plus its own writes) and
`DrainCommit`.  `Compose`, `Rollup` and `Work` are the executions of a root and a
child; `RollupRecheck` and `ScheduleRecheck` the two deferred queues.

**Teardown.**  Rows with a life (`live`, `deleting`, `absent`), `synced`, finalizers and
`frozen_until`; one bit per child for the infrastructure outside the database.
`Sweep` is `sweep_deletable`, `SweepOrphan` is `sweep_expired_orphans`, `Compose`
is `ApplyComposeResult` with its prune; executions whose claim was taken away
keep running.

**Reactor.**  `Apply` and `Drain` emit rows as the trigger does, row by row of
the batch; `Claim`, `Start`, `React`, `Ack`, `Fail` follow one delivery through
`ReactorDispatcher`; `Reap`, `Reshard` and `PodCrash` take it away.

**KindCap.**  A claim is `ClaimBegin` (headroom, row locks) and `ClaimCommit`
(leases and the partial); `recount_inflight` is `RecountBegin` (the delete) and
`RecountCommit` (the count), with the lock it takes between them.

**KindVersions, SchemaLint.**  A manifest is the number of an edition, a spec that
of a document; what an edition's schema admits, which editions the linter lets replace
which and which changes it does not look at are three operators, constants of
`KindVersions` (`Validates`, `Compatible`, `Overlooked`).  The configuration gives them
the definitions of `SchemaLint`, which computes them from the schemas.  `LinterSound`
is what `KindVersions` assumes of them: a change that is compatible and not overlooked
keeps every document valid; TLC evaluates it with the real linter on all editions and
documents of the instance.  A call of the API is its
reads, one step each, and its write: no call holds a lock across them.  Each
replica has two copies of the manifests (the edge's and the validator its store
was built with), each broker one; they are reloaded on a notice or a tick.

**Sharding.**  A beat is two steps so that a shutdown can overtake it;
`AssignOnce` computes the span by rank from the rows live at that moment
(`ShardTiling` holds the arithmetic); `RefreshOnce` is the mesh's own read.

**Dispatcher.**  `RunStep` is the `Run` loop: one look at one pair of the ring per
step, then the wait.  A claim starts a goroutine (`gos`) that goes through
`runOne`: the dispatch, for a composing kind the compose, the append, the
completion that removes the record from the in-flight set.  `Beat` refreshes what
that set holds.  Pairs are announced at any time (`AddPairLive`).  The way down is
cancel, drain window, `ReleaseClaims`, `Exit`.  The reaper, the drainer and another
pod act on the same rows.  A claim the next beat would cover is fresh and any other
may be reaped: that is all that is said about time.

**BrokerFanout.**  What the code does under `f.mu` is one step.  A stage is a
goroutine (`park`), a stream is a loop, a fan-in and a receive loop.  Deadlines,
failed sends, readiness flips, dropped streams and departing peers come at any
moment.

**MeshRoute.**  Two brokers, one (kind, version): presence edges, the publish
that follows the unlock, the bounded queue, the stream, its end and its
successor, and the peer table that lapsing heartbeats change.

**WorkerSession, WorkerConfig.**  A session is one call of `runner.Run`: the
receiving loop, its handlers, the one sender behind the mux and the watcher that
ends a drain early, against the broker's `WorkStream`.  Results a session could not
send stay in `resultBuf`.  `WorkerConfig` adds the database's default config, the
broker's cache, the prime of a new stream and the pushes, and the worker's cache
with its two loaders.

## 3. The runs

`tlc -config X.cfg MCModule` repeats a run.  Deadlock is not checked: a system
with nothing left to do, or with its bounds spent, stops; that it does not stop too
early is what the liveness properties say.  For every property `PROJECT.json`
(`mutants`) names a change to one mapped definition, a bug that code could have, under
which TLC finds the property violated.

| Run | Checks | On |
|---|---|---|
| `workqueue` | `OneWriter`, `SyncedWasCarriedOut`, `ImplementsConvergence`, `StatusNeverRegresses`, `EventuallySettled` | 1 resource, 2 pods, 2 generations, attempt cap 2, 2 faults |
| `operations` | `RecordedHasTask`, `EventuallyDrained` | 2 operations, 2 pods, 3 faults |
| `operations_final` | `DrainedIsFinished`, which is violated | 1 fault |
| `cascade` | `RootFollowsChildren`, `FlowsDelivered`, `Converges` | a root and 2 children in 2 bands, chained by a flow or separate, 1 fault |
| `teardown` | `TornDownBeforeGone`, `TeardownInOrder`, `FrozenKept`, `DeletionCompletes` | a root and 2 children; chained, pruned or with grace; 1 fault |
| `reactor` | `DeliveriesKept`, `CrossingsReported`, `EventuallyReacts` | a root and a child, 2 bindings, 2 pods, batch 2, parallel 1, 1 fault |
| `kinds` | `SpecFits`, `CapAccounted`, `VersionsGuarded`, `EveryTaskRuns`, `CachesCatchUp` | 12 deployments: 3 for the cap (3 tasks, 3 pods, 2 reapers, 4 shards, cap 2), one of them with a publish that brings a cap, 9 for the versions (2 versions, 22 editions, 7 documents, 2 callers, 2 replicas, a broker) |
| `sharding` | `SpansTile`, `DeregisteredStaysOut`, `EventuallyAgreed` | 2 brokers and a control pod, 3 shards, 1 fault |
| `fanout` | `AccountsExact`, `OnePlace`, `LostStageReturns` | 2 stages of its own, 1 reference, 2 streams of capacity 1, buffer 1, a peer |
| `dispatcher` | `LiveLeaseCovered`, `NeverOverfilled`, `OneOutcome`, `EveryRowServed`, `ClaimsHandedBack` | 6 deployments of up to 3 tasks and 2 pairs |
| `route` | `SettledExact`, `EventuallyPresent` | 2 brokers, 2 edges each, a queue of 1, 1 drop, 1 lapse at the acceptor |
| `worker` | `ResultsKept`, `DrainExits`, `EveryTaskDone`, `ConfigCatchesUp`, `ReadinessLearned` | 7 deployments, every buffer of size 1 |

What they show, in short:

- *Pipeline.*  At most one execution bears the current token of a row, however
  leases are lost, reaped and re-pointed, so one writer passes the fence; what is
  reported as synced was carried out; the pipeline implements `Convergence`; the status
  never falls back unless `disordered`; every resource ends reconciled, dead-lettered
  or quarantined.
- *Operations.*  A recorded operation keeps its task until its result is drained,
  unless the task is lost with Postgres or collected.  But the drain finalizes only
  operations in state `running`, and nothing sets that state
  (`SetOperationRunning` has no caller): the one finding of the project.
- *Cascade.*  When the last two children settle in two bands that cannot see each
  other, the recheck still brings the root to its rollup; no dependent runs before
  its flowed value is there; a drifted value reaches the dependent.
- *Teardown.*  No row of a finalized child goes before its infrastructure, and
  dependents go first, apart from the races the properties name.
- *Reactors.*  A delivery survives until its reaction has run; one holder can ack.
- *Kinds.*  The tally of the cap never undercounts, although recounts interleave with
  claims.  A spec fits its version, and no version is deleted, broken or retired under
  its users, unless a call was overtaken between its checks and its write or the linter
  does not look at the change (section 6).
- *Sharding.*  Overlaps need different views of who is live; settled views tile.
  - *Dispatcher.*  Live claims stay covered by the heartbeat through the drain window, a
    pair is never overfilled, a task has one result, and a pod that goes down in order
    hands its claims back.
  - *Broker.*  Credit, capacity and readiness stay exact through deadlines, drops and
    failed sends; nobody parks for good on a stream or a peer that is gone.
  - *Mesh.*  After a stream breaks or a heartbeat lapses, presence is learned again.
  - *Worker.*  The runner tracks what it has and flushes before it closes; a drain ends;
    tasks complete through broken streams and full buffers; the config catches up.
  
  **Bounds.**  The hazards need two of something: two pods for a lost lease and its
  new holder, two generations for a stale result, two bands for a straddle, two
  children for an edge, two streams for a hand-over, two callers for a lost check.
  Faults come at any moment, so a budget of one to three covers each fault in each state.
  Capacities are at their smallest (1 or 2), so limits are hit at once.  A resource of
  `WorkQueue` shares nothing with another but the drain batch, and the theorems cover any
  number.  Deployments (`Dispatcher`, `KindVersions`, `WorkerConfig`) are initial states
  that switch on one family of disturbances each; a run explores all of them.  Epochs grow
  by claims and reaps only: faults bound them, except in `Reactor`, where a row may be
  reaped again and again and `MaxEpoch = 6` is the bound, and in `Dispatcher`, where
  `MaxDoubles` bounds how often a claim is lost under its goroutine.  The theorems of
  section 5 rest on no bound.
  
  ## 4. Fairness
  
  Only the program's own loops are fair, and weakly: dispatchers poll, results are
  appended and drained, the reaper, the resharder and the mesh tick on their failsafe
  intervals, goroutines that can run do.  The loops re-select their work from the
  tables, so a step that stays possible is taken.  Users, operators, crashes and
  lost leases owe nothing.  These assumptions go further:
  
  - A task that is retried eventually succeeds or is parked (`WorkQueue`, `Cascade`,
    `Teardown`): failures are faults, and bounded.
  - A claim waiting for a recount's lock gets it (`SF_vars` of `ClaimCommit` in
    `KindVersions`): recounts repeat, and PostgreSQL's lock queue lets the waiter in.
  - A broker that is up beats again (`MeshRoute`).
  - A worker that keeps attesting answers, and one that does not runs into its deadline; a
    capacity gate that closed opens again; the drain window runs out (`Dispatcher`).  The
    exit of a pod is fair only once its claims are released.
  - Tickers of the worker tick and its loads return (`WorkerConfig`).  `DrainGrace` need
    not run out: `DrainExits` shows that the watcher ends the drain before it.
  
  `BrokerFanout` assumes nothing of workers, peers or deadlines, since a task may have
  no deadline.
  
  ## 5. What is proved
  
  Eight proof modules, each extending the modules it is about: six are about one component,
  `FleetProofs` is about sharding, the mesh route and the worker, `ApiProofs` about the
  operations, the kinds' versions and their cap.  Every safety property that a passing run
  checks has a theorem.  A
  theorem holds for every value of the constants that the named assumptions of its
  component allow: any resources, pods, edges, bindings, stages, streams, deployments and
  bounds.  The assumptions say what kind of thing a constant is (numbers, finite sets,
  names that differ, a linter that is sound); three theorems need more, and say so.  Each inductive invariant was
  first checked by TLC on the instances above.
  
  | Property | Theorem | Rests on |
  |---|---|---|
  | `OneWriter`, `SyncedWasCarriedOut`, `ImplementsConvergence` | `OneWriterHolds`, `SyncedHolds`, `Refinement` | `IInv` |
  | `StatusNeverRegresses` | `StatusHolds` | `IInv`, `OrderInv` |
  | `RecordedHasTask` | `RecordedHasTaskHolds` | `OperateInv` |
  | `SpecFits`, `VersionsGuarded` | `SpecFitsHolds`, `VersionsGuardedHolds` | `KindInv` |
  | `CapAccounted` | `CapAccountedHolds` (assumes `PodsNested`) | `CapInv` |
  | `RootFollowsChildren`, `FlowsDelivered` | `RootFollowsChildrenHolds`, `FlowsDeliveredHolds` | `Inv` of `CascadeProofs` |
  | `TornDownBeforeGone`, `FrozenKept` | `TornDownBeforeGoneHolds`, `FrozenKeptHolds` | `Inv` of `TeardownProofs` |
  | `TeardownInOrder` | `TeardownInOrderHolds` (assumes `DependenciesEmitted`) | `Inv`, `OrderInv` of `TeardownProofs` |
  | `DeliveriesKept`, `CrossingsReported` | `DeliveriesKeptHolds` (assumes `~Recurs`), `CrossingsReportedHolds` | `DeliveryInv`, `TypeInv` |
  | `SpansTile`, `DeregisteredStaysOut` | `SpansTileHolds`, `DeregisteredStaysOutHolds` | `SpanInv`, `ShutdownInv` |
  | `SettledExact` | `SettledExactHolds` | `RouteInv` |
  | `ResultsKept` | `ResultsKeptHolds` | `WorkerInv` |
  | `AccountsExact`, `OnePlace` | `AccountsExactHolds`, `OnePlaceHolds` | `Inv` of `BrokerFanoutProofs` |
  | `OneOutcome`, `NeverOverfilled`, `LiveLeaseCovered` | `OneOutcomeHolds`, `NeverOverfilledHolds`, `LiveLeaseCoveredHolds` | `OutcomeInv`; `ClaimInv`, `CountInv`; `HoldInv`, `RecordInv`, `BeatInv` |
  
  **`WorkQueueProofs`.**  None of the properties is inductive.  `IInv` adds to the types
  
  - `RowsInv`: ids in the queue were handed out, and no two rows share one;
  - `TokensInv`: a claim's token is at most its row's, and claims have different
    tokens.  This is what makes the fence exclusive: `Claim` and every re-point, release
    and reap moves the row's token past all the claims made so far, and a fresh row
    has a fresh id;
  - `GenerationsInv`: what is queued or running was asked for;
  - `CarriedOutInv`: whatever says success, in an execution or in the outbox, was
    carried out.  A drain then reports only what a worker did.
  
  Rows change in few ways (kept, freed, re-pointed, inserted, removed), so the lemma
  `RowsEvolve` proves the three token parts once, and each action is shown to be one
  of them.  `Refinement` maps the variables of the same names; a drain is `Report`, a
  successful `Finish` is `CarryOut`, an edit is `Edit`, and the rest stutters.
  `StatusHolds` explains why a drain that compares no generations keeps the status in
  order: until something is `disordered`, an undrained result is the only one of its
  resource and belongs to the row that is still queued, and neither is older than the
  status (`OrderInv`).  A successor can only be inserted once the drain has removed both.
  `CapParksHolds` (a resource whose transient failures reached the cap is dead-lettered)
  and `TypeCorrect` come with it.
  
  **`ApiProofs`.**
  
  - *Operations.*  `RecordedHasTask` is inductive once the queue's contents are known to be
    operations: it makes the slot's occupant the only open operation.
  - *Versions.*  A call finds something out in one step and writes in a later one.  `KindInv`
    says what its findings still mean in between: `Guarded`, that the guard a call passed
    still holds unless another call has `overtaken` it; `CallsFit`, that a document which
    passed validation is admitted by the edition it was validated with; `HistoryFits`, that
    a recorded revision which is not `excused` is admitted by the edition its version has
    now, so a rollback may write it again; `HasRow`, that a published version has its
    configuration row.  A publish keeps the first three by `LinterSound`, which is all that
    the proof uses of the linter.
  - *Cap.*  The tally is a sum of partials, and what it must not fall short of is a number of
    leased tasks.  `CapInv` bridges the two with `Accounted`: there is a set of tasks for
    each partial, no larger than it, that together hold every lease not under a reaper that
    has still to recount.  `TotalCovers` turns this into an inequality between the sum and
    the number of leases; it is proved from a least counterexample, as are the lemmas that
    say what the sum is.  `SureClaims` carries the count that a claim read to its commit.
    `PodsNested` is needed because a recount replaces the partials that begin in the
    reaper's range: a pod whose range straddles two reapers has its tasks counted by one
    and its partial removed by the other.
  
  **`CascadeProofs`.**  The invariant has a part for each way the argument could fail
  between the two halves of a batch.  `TxInv` says what the row locks of an open batch
  keep in place; `RollInv` that a rollup which will report success saw every child done
  or excused; `CoverInv` that an open batch about to settle a child has left something
  that brings the root back (a row, an armed recheck, or a row it saw): two batches that
  each miss the other's child cannot both leave nothing behind.  `FlowInv` follows a value
  from the upstream's status through the batch to the dependent's input.  `GenInv` keeps
  generations from running ahead.
  
  **`TeardownProofs`.**  `RacedInv` says that once a finalized child is past its teardown
  nothing of it is built or about to be, unless a reconcile raced; `QueueInv` says what a
  task or a mark on a row tells about its life.  Any composite, edges and composer.
  `TeardownInOrderHolds` adds `OrderInv`: while both ends of a dependency are there, so is
  its edge; both are marked together, and the dependent is gone before the teardown of
  what it depends on is dispatched.  `DependenciesEmitted` (every run of the composer emits
  both ends) is needed: a compose that drops a dependency into its grace window and keeps
  the dependent replaces the edges at once, so the dependency goes when the window ends
  although the dependent was built on it.
  
  **`ReactorProofs`.**  `DeliveryInv`: a key has one row, an execution's epoch is at most
  the row's, executions of a key have different epochs, and what was reacted to is not
  owed.  It needs that a key whose row was acked is not emitted again: `Crossed` says why
  for `~Recurs`.  With recurrence the theorem is false (section 6).
  
  **`FleetProofs`.**
  
  - *Sharding.*  `SlicesDisjoint` and `SlicesCover`: the integer division of
  `assign_member_shards` tiles any number of shards over any number of members.
  `SpansTileHolds` lifts both to the protocol through `SpanInv` (a span is the slice, by
  rank, of the view it came from); the lemmas on `Rank` show it a bijection.
  `ShutdownInv`: no beat is on its way once the shutdown has begun.
- *Mesh route.*  `PublishInv`: what a broker is about to publish is what it has.
  `UnbrokenInv`: which ends of a stream that never broke are up, and in which order they
  came up.  `LastWordInv`: the last thing said is right wherever it is: it is the last
  frame queued, else the last on the stream, else what the other broker has learned.  When
  nothing is on its way the third case gives `SettledExact`.  A broker whose advertisement
  was overtaken by an older one or dropped by a full queue is `muddled`, and the property
  does not speak of it.
- *Worker.*  `OnePlace`: the token of a dispatch is coming, taken, run or kept, and only
  one of these, once.  `Dispatched`: a token the worker has is of a dispatch made, so a
  new dispatch is of a new one.  With these `TrackedInv` shows, token by token, that the
  runner's map is what runs and what is buffered.  `MuxInv`: nothing is put on the mux of
  a session whose sender is gone or whose stream is half-closed, so the sender's drain at
  the end is of everything.

**`BrokerFanoutProofs`.**  `PlaceInv`: a stage is nowhere before its goroutine has put
it into the buffer, which happens once, and then in one place at most.  `ChargeInv`
relates the two maps (`sentBy`, `gateSub`) to where the stage is; with it `SlotInv`
counts the tokens of every stream that goes on, and the three accounts follow.

**`DispatcherProofs`.**  `OutcomeInv`: a task with a result still has it undrained, or
its row is gone for good.  `ClaimInv`: a goroutine is known by its task and epoch.
`CountInv`: each counter of the ring is the number of goroutines on its slot, and a
pair has one slot; this is where an announcement of a known pair must not add another.
`HoldInv`, `RecordInv` and `BeatInv` follow a claim that was never lost: its row keeps
its epoch, its record stays until its own completion, and the heartbeat outlives the
drain window.

**Only model-checked**, and why:

- liveness and everything that rests on fairness (`EventuallySettled`,
  `EventuallyDrained`, `Converges`, `DeletionCompletes`, `EventuallyReacts`,
  `EventuallyAgreed`, `LostStageReturns`, `EveryRowServed`, `ClaimsHandedBack`,
  `EventuallyPresent`, `DrainExits`, `EveryTaskDone`, `ConfigCatchesUp`,
  `ReadinessLearned`, `EveryTaskRuns`, `CachesCatchUp`): out of the prover's reach;
- what a recursive definition computes: that the linter of `SchemaLint`, which walks
  trees, is sound (`LinterSound`) is evaluated by TLC for the editions and documents of the
  instance, and an assumption of the theorems on versions;
- `DrainedIsFinished`, which does not hold: it is the violation of `operations_final`.

## 6. Limits of the properties and known divergences

Where the code, followed faithfully, does not do what a comment or a document says,
the property that holds is stated with the exception, and the exception is listed
here.  Each was met while modelling, as a counterexample of TLC on one of the
modules or by reading; only `operations_final` is kept as a run.  SQL lines are of
`src/db/migrations/00001_schema.sql`.

**Pipeline.**
- `work_queue.sql:330` drops a result whose work id has an undrained row.  The comment
  (282) calls it redundant, but after a re-point the undrained row may be of the
  previous generation; the new one is then run twice.
- The status write (4008) checks no generation.  With a row dropped and re-created, or
  a straddled append, an older result may be drained last; `synced_gen` is safe, the
  status is not.  `StatusNeverRegresses` therefore excludes both (`disordered`).
- An append checks the fence without a lock: `OneWriter` is about the check.

**Operations.**  Besides the finding: a task lost with the UNLOGGED queue or to the
24 h collector is rebuilt by nobody (`queries.go:258`: "a recorded operation always
has a task behind it").

**Cascade.**
- A recompose that changes both ends of a flow leaves the field empty if the
  upstream's new generation reports the status it had (`compose_manual.go:71`, 3846).
- A value that changed while the dependent was frozen is missed at its release (3876;
  the comment at 2121 promises it).
- A demotion finds the root's row in place and leaves no trace (2845); a recovery that
  crosses no synced edge re-promotes nobody (2766); a wake that finds the row of a
  non-advancing rollup is lost (2723).  Resync or the reaper makes up for them.
- A dependent of a terminally failed child never fails and holds the root (2222).
- The header of `drain_rollup_rechecks` describes more than its body, which is gated on
  a pending root; a root edited while its children lag is not re-pointed, and the
  reaper's requeue backs it.

**Teardown.**
- A reconcile still running when the teardown runs may build again what was removed
  (`raced` in `TornDownBeforeGone`).
- A compose in flight when its root is deleted adds children nobody marks; the root
  stays (`late` in `DeletionCompletes`).  A sweep may also delete a root under a child
  composed between its snapshot and its delete; this window is not modelled.
- The prune marks children and removes the edges between them in one transaction
  (`composer.go:529`), and `sweep_expired_orphans` has no order gate (2500), so dropped
  children may go in any order; `TeardownInOrder` is checked where dropped children
  have no edges.  The prune also marks a dependent the compose still emits, and the
  gate ignores a dependent that was re-created (3473).

**Reactors.**
- The token restarts at 1 when an acked row is inserted again (1631).  If an edge
  recurs at one generation (`Recurs = TRUE`), a late ack of the first incarnation can
  delete the second, and the same key fires twice.  `DeliveriesKept` is for
  `Recurs = FALSE`.
- Deliveries waiting for a slot, or outside a moved range, are not heartbeated
  (`reactor.go:347`, `293`) and may run twice.
- `degraded` and `failed` are emitted only when a composed child is among the demoted
  (2830), so `CrossingsReported` speaks of children for `failed`; `created` is also
  emitted by an edit; `deleted` by nothing.
- Rows of a deleted resource are updated and deleted in one statement, so they stay
  (1720); rows of a disabled binding are claimed and reaped again and again (1698).

**Cap.**  Overlapping claims spend one headroom several times (`work_queue.sql:67`);
`CapAccounted` excludes them.  A pod range across two reaper ranges is undercounted
between two recounts (2566); `PodsNested` excludes it in the theorem and the instance.  The recount's insert has
no conflict clause and is modelled as aborting.  A cap that is set, by an edit or a publish, while
tasks run starts from a tally of 0, until the next recount (`uncounted`).  The removal of partials that nobody
refreshed for 5 minutes is not modelled.

**Sharding.**  An old owner may shrink before the newcomer has looked: a gap, until
the newcomer's tick (the comment at 3187 speaks of overlap only).  The mesh reads the
members on its own schedule, so routing and tiling may differ for a while
(`topologywatcher.go:28`).  `secsAtLeast1` and the plain `int32(window.Seconds())`
round a sub-second window differently.

**Broker.**
- A deadline between `attributeToStream` and `claimGateSlot`, or a reference whose owner
  left while it was buffered, costs the stream a slot until it ends (`dispatch.go:110`,
  `58`): `AccountsExact` says too few slots at worst, never too many.
- `abandon` and `deliver` both send after unlocking, so a synthetic failure may win over
  the result (`fanout.go:326`).  `requeue` may choose the stop arm and lose a stage until
  its deadline (`fanout.go:564`): `LostStageReturns` is about stages that were sent.
- An `Interest` handled after its stream ended counts that stream out, or in, once more
  (`subscribers.go:191`; `late` in `ReadyCountExact`, a conjunct of `AccountsExact`).
  `readyFor` is called without the lock (`connect.go:407`), a data race whose two
  outcomes the model both allows, being one read of a set that may change before it or
  after it.
- A full stream's fan-in holds one stage (`connect.go:251`); a degraded lone stream
  bounces a stage for ever (`409`); a stage buffered when the last worker leaves waits
  for the next; a dropped reference's forwarder stays until its owner departs; a
  repeated pair in one Subscribe counts twice.

**Mesh.**
- A withdrawal lost with its stream is not repeated (`route_frame.go:126`):
  `EventuallyPresent` is about presence only.
- If only the acceptor sees the dialer lapse, the old stream keeps its old peer
  (`route_frame.go:65`).
- Two publishers may publish out of order (`fanout.go:418`), a full queue may drop the
  latest state (`relay.go:335`), two pumps may share a queue (`route_frame.go:110`).  `SettledExact`
  excludes the first two (`muddled`); the third comes with a stream that broke.

**Dispatcher.**
- The in-flight set goes by id: the completion of a lost claim removes, or marks local,
  the record of the claim that followed it, and `WorkQueueReleaseTasks` frees a row
  whoever holds it (`doubled` in `LiveLeaseCovered`).
- The record stays local after a compose while a later stage waits, so the heartbeat
  covers it though no worker attests.
- `maxParallel = 0` is documented as unbounded and claims nothing.
- A claim whose commit went through and whose answer was lost is known to nobody here:
  the reaper returns it.  A sweep in progress goes on claiming after the heartbeat has
  begun to fail.
- The comment at the release of claims (`main.go:872`) says that `Run` has fully quiesced;
  the wait of `Stop` is bounded, so it may not have.

**Kinds and manifests.**
- The linter (`schemacompat.go`) does not compare `items`, `additionalProperties` or
  `pattern`, an added type or a dropped null, so an edition that passes may refuse stored
  specs (`Overlooked` in `SpecFits`, which is `Unlinted` of `SchemaLint`); it does not flag a growing output enum although it
  says that output inverts the rule; and the comment at its head (46) calls adding a whole
  schema additive for inputs and removing one breaking, while the code has it the other
  way round.
- The validator of a replica's store is the one it was built with (`store.go:71`), so a
  version published after the boot is not validated at the gateway.
- No call holds a lock from its checks to its write.  An update that resolved one version
  commits after a concurrent flip; a create or a flip slips between the guard of
  `DeleteKindManifest` and its commit; of two publishers the second was linted against an
  edition that is gone; a version is retired between the read and the commit; an update
  re-creates a resource removed meanwhile; a rollback goes back to a revision of another
  version; the delete of an absent version that races its publish leaves a `kind_config`
  row.  `SpecFits` and `VersionsGuarded` name them (`excused`, `Overtakes`).  The retirement
  check also lets a write pass when its read fails.
- Publish and delete lock two tables in opposite orders; PostgreSQL then aborts one.
- The comment on the re-stamping trigger (969) says that a task claimed under an old
  manifest cannot commit against a changed one; the trigger stamps resources only, and no
  task carries the stamp.

**Worker.**
- Results kept over a reconnect land only if the same broker has not yet noticed the
  drop; the comments (`runner.go:147`, `230`, `615`) say any broker.  A result enqueued on
  a stream that has broken is lost, and the lease runs out.  Results buffered while a
  stream lives wait for the next connect.
- "Once inflight hits 0 it can't climb again" (`runner.go:353`) is not so: a frame that
  was on its way starts a handler.  Handlers run on the context that SIGTERM cancels, so
  they do not run past it into `DrainGrace` as the comment (`413`) has it.  `Run` waits
  for all handlers before it reconnects.
- The initial RS- may be handled after a task was sent (`262`), and the health poller is
  not fresh for each connect (`health.go:34`; `blind` in `ReadinessLearned`).
- A slow load may put an older document back into the worker's cache until the next one;
  a default or a bundle that was deleted stays, or returns; a document and its bundle are
  pulled apart; an older `OnConfig` may fire after a newer one (`run.go:139`; `overlap` in
  `ConfigCatchesUp`).

## 7. What is not modelled

`PROJECT.json` (`components`) lists every part with its status.  Left out as having no
protocol of their own: the HTTP and gRPC surface, the CLI and its wizards, rendering,
authentication and TLS, providers, telemetry, migrations tooling, generated query code,
and the TypeScript SDK, a second implementation of the protocol `WorkerSession` models.
Left out so far: the diff inside a compose (`Cascade` and `Teardown` take which children
changed or were dropped as given), the notify gate (every wake is a hint in front of a
poll, so the models let the poll come at any time), the manifest stamps of resources (no
decision rests on them), trees deeper than two levels.  Payloads are reduced to a
generation, a small value or an outcome; time to "may happen at any moment".

## 8. Open work

- `ComposeDiff`: what a compose inserts, changes, adopts and drops, as operators checked
  against a reference definition.
- `NotifyGate`: the gated wake and the poll, with the poll as abstract specification.
- That the linter is sound for all schemas, by an induction over them.
