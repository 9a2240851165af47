----------------------------- MODULE WorkQueue -----------------------------
(***************************************************************************)
(* The reconcile pipeline of one resource, from the apply that asks for a  *)
(* generation to the drain that records its result:                        *)
(*                                                                         *)
(*   apply -> schedule_eligible -> work_queue -> claim -> worker           *)
(*         -> work_outbox -> drain_outbox_batch -> resources               *)
(*                                                                         *)
(* with everything that moves a row off that path: the stale-lease reaper, *)
(* the lease releases, a pod crash, a Postgres crash (both queues are      *)
(* UNLOGGED and come back empty), the 24 h collector, quarantine, the      *)
(* requeue backstop and the drift resync.  The resources here are          *)
(* standalone (no owner, no dependencies): the gates that relate resources *)
(* are in Cascade.tla.                                                     *)
(*                                                                         *)
(* Abstraction.  A spec body and the status computed from it are both      *)
(* represented by their generation.  Wall-clock time is left out: any      *)
(* lease may be found stale, and any interval may have elapsed.  What a    *)
(* healthy fleet does only rarely (see Fault) is charged to a budget.      *)
(***************************************************************************)
EXTENDS Naturals, FiniteSets

CONSTANTS
    Resources,   \* the resources
    Pods,        \* the broker pods that claim work
    NoPod,       \* broker_id IS NULL
    AttemptCap,  \* kind_config.max_transient_attempts (0 = no cap)
    MaxGen,      \* bound: edits per resource
    MaxFaults    \* bound: faults, interventions and resyncs in a behaviour

ASSUME ConstantsAssumption ==
    /\ NoPod \notin Pods
    /\ AttemptCap \in Nat
    /\ MaxGen \in Nat
    /\ MaxFaults \in Nat

VARIABLES
    (* table resources *)
    generation, synced_gen, status, failure_gen, failure_terminal,
    failure_attempts, frozen,
    (* table work_queue: at most one reconcile row per resource *)
    queue,
    (* table work_outbox: at most one row per work id *)
    outbox,
    (* the runOne goroutines of the pods *)
    execs,
    (* the rows the reaper's statement has selected but not yet updated *)
    reaping,
    (* the next work id (gen_random_uuid never repeats one) *)
    nextId,
    (* observer: the generations a worker has carried out *)
    done,
    (* observer: a pending row was dropped, or a result written past its    *)
    (* fence                                                               *)
    disordered,
    (* the faults spent so far *)
    faults

resourceVars == <<generation, synced_gen, status, failure_gen,
                  failure_terminal, failure_attempts, frozen>>
failureVars  == <<failure_gen, failure_terminal, failure_attempts>>
ledger == <<disordered, faults>>
vars == <<resourceVars, queue, outbox, execs, reaping, nextId, done,
          disordered, faults>>

----------------------------------------------------------------------------
(* Rows and results.                                                       *)

Results == {"none", "success", "transient", "terminal"}

Row == [id : Nat, gen : Nat, epoch : Nat, broker : Pods \cup {NoPod}]

NoRow == [id |-> 0, gen |-> 0, epoch |-> 0, broker |-> NoPod]

Exec == [pod : Pods, res : Resources, id : Nat, gen : Nat, epoch : Nat,
         result : Results, fenced : BOOLEAN]

OutboxRow == [id : Nat, res : Resources, gen : Nat, result : Results]

(* stands for "no result of the batch applies to this resource"            *)
NoResult == [id |-> 0, gen |-> 0, result |-> "none"]

Queued(r)  == queue[r].id # 0
Claimed(r) == Queued(r) /\ queue[r].broker # NoPod

(* What disturbs a quiet fleet is charged to the budget: crashes, failed   *)
(* executions, leases lost by a live holder, an operator's interventions,  *)
(* the 24 h collector and the resync timer.                                *)
Charge == faults < MaxFaults /\ faults' = faults + 1

Fault == Charge /\ UNCHANGED disordered

TypeOK ==
    /\ generation \in [Resources -> Nat]
    /\ synced_gen \in [Resources -> Nat]
    /\ status \in [Resources -> Nat]
    /\ failure_gen \in [Resources -> Nat]
    /\ failure_terminal \in [Resources -> BOOLEAN]
    /\ failure_attempts \in [Resources -> Nat]
    /\ frozen \in [Resources -> BOOLEAN]
    /\ queue \in [Resources -> Row]
    /\ outbox \subseteq OutboxRow
    /\ execs \subseteq Exec
    /\ reaping \subseteq [id : Nat, epoch : Nat]
    /\ nextId \in Nat \ {0}
    /\ done \in [Resources -> SUBSET Nat]
    /\ disordered \in BOOLEAN
    /\ faults \in Nat

Init ==
    /\ generation = [r \in Resources |-> 0]
    /\ synced_gen = [r \in Resources |-> 0]
    /\ status = [r \in Resources |-> 0]
    /\ failure_gen = [r \in Resources |-> 0]
    /\ failure_terminal = [r \in Resources |-> FALSE]
    /\ failure_attempts = [r \in Resources |-> 0]
    /\ frozen = [r \in Resources |-> FALSE]
    /\ queue = [r \in Resources |-> NoRow]
    /\ outbox = {}
    /\ execs = {}
    /\ reaping = {}
    /\ nextId = 1
    /\ done = [r \in Resources |-> {}]
    /\ disordered = FALSE
    /\ faults = 0

----------------------------------------------------------------------------

EligibleParkedForGood(r, g, fz) ==
    g > synced_gen[r] /\ ~fz /\ ~failure_terminal[r]

(* schedule_eligible: the gates that concern the resource itself, and the  *)
(* upsert.  An existing row is re-pointed only to a later generation; the  *)
(* re-point frees the claim and moves the fencing token.                   *)
Eligible(r, g, fz) ==
    /\ g > synced_gen[r]
    /\ ~fz
    /\ ~(failure_terminal[r] /\ failure_gen[r] = g)

NewRow(g) == [id |-> nextId, gen |-> g, epoch |-> 1, broker |-> NoPod]

Repointed(row, g) ==
    [id |-> row.id, gen |-> g, epoch |-> row.epoch + 1, broker |-> NoPod]

schedule_eligible(r, g, fz) ==
    \/ /\ Eligible(r, g, fz)
       /\ ~Queued(r)
       /\ queue' = [queue EXCEPT ![r] = NewRow(g)]
       /\ nextId' = nextId + 1
    \/ /\ Eligible(r, g, fz)
       /\ Queued(r)
       /\ queue[r].gen < g
       /\ queue' = [queue EXCEPT ![r] = Repointed(queue[r], g)]
       /\ UNCHANGED nextId
    \/ /\ ~(Eligible(r, g, fz) /\ (~Queued(r) \/ queue[r].gen < g))
       /\ UNCHANGED <<queue, nextId>>

----------------------------------------------------------------------------
(* The user's operations.                                                  *)

(* ApplySpec with a new body, ReconcileResource and rollback_to_spec all   *)
(* bump the generation and schedule in the same transaction.  A frozen     *)
(* resource takes the edit and is not scheduled.                           *)
ApplySpec(r) ==
    /\ generation[r] < MaxGen
    /\ generation' = [generation EXCEPT ![r] = @ + 1]
    /\ schedule_eligible(r, generation[r] + 1, frozen[r])
    /\ UNCHANGED <<synced_gen, status, failureVars, frozen, outbox, execs,
                   reaping, done, ledger>>

(* An apply that changes only labels schedules without a new generation.   *)
ApplyLabels(r) ==
    /\ generation[r] > 0
    /\ schedule_eligible(r, generation[r], frozen[r])
    /\ UNCHANGED <<resourceVars, outbox, execs, reaping, done, ledger>>

(* quarantine_resource freezes the resource and drops its pending task; a  *)
(* task a pod is running is left to finish.                                *)
Quarantine(r) ==
    /\ generation[r] > 0
    /\ ~frozen[r]
    /\ Charge
    /\ disordered' = (disordered \/ (Queued(r) /\ ~Claimed(r)))
    /\ frozen' = [frozen EXCEPT ![r] = TRUE]
    /\ queue' = IF Claimed(r) THEN queue ELSE [queue EXCEPT ![r] = NoRow]
    /\ UNCHANGED <<generation, synced_gen, status, failureVars, outbox, execs,
                   reaping, nextId, done>>

Unquarantine(r) ==
    /\ generation[r] > 0
    /\ frozen[r]
    /\ frozen' = [frozen EXCEPT ![r] = FALSE]
    /\ schedule_eligible(r, generation[r], FALSE)
    /\ UNCHANGED <<generation, synced_gen, status, failureVars, outbox, execs,
                   reaping, done, ledger>>

----------------------------------------------------------------------------
(* The pods.                                                               *)

ClaimedBy(p, row) ==
    [id |-> row.id, gen |-> row.gen, epoch |-> row.epoch + 1, broker |-> p]

(* WorkQueueTakeBatch: the claim bumps the token and hands it to the task. *)
Claim(p, r) ==
    /\ Queued(r)
    /\ ~Claimed(r)
    /\ queue' = [queue EXCEPT ![r] = ClaimedBy(p, queue[r])]
    /\ execs' = execs \cup
          {[pod |-> p, res |-> r, id |-> queue[r].id, gen |-> queue[r].gen,
            epoch |-> queue[r].epoch + 1, result |-> "none", fenced |-> FALSE]}
    /\ UNCHANGED <<resourceVars, outbox, reaping, nextId, done, ledger>>

(* The reaction returns: a success, or a failure of either kind.  A panic, *)
(* a missing manifest and a missed deadline are transient failures.        *)
Finish(e, result) ==
    /\ e.result = "none"
    /\ IF result = "success"
          THEN /\ done' = [done EXCEPT ![e.res] = @ \cup {e.gen}]
               /\ UNCHANGED ledger
          ELSE /\ Fault
               /\ UNCHANGED done
    /\ execs' = (execs \ {e}) \cup {[e EXCEPT !.result = result]}
    /\ UNCHANGED <<resourceVars, queue, outbox, reaping, nextId>>

FenceWithoutToken(e) ==
    /\ queue[e.res].id = e.id
    /\ queue[e.res].gen = e.gen

(* The EXISTS of AppendOutbox: the row still bears the token and the       *)
(* generation of the claim.                                                *)
FencePasses(e) ==
    /\ queue[e.res].id = e.id
    /\ queue[e.res].epoch = e.epoch
    /\ queue[e.res].gen = e.gen

OutboxAfterKeepsBoth(e) ==
    outbox \cup {[id |-> e.id, res |-> e.res, gen |-> e.gen, result |-> e.result]}

(* ON CONFLICT (work_id) DO NOTHING: the result is dropped when an         *)
(* earlier result of the same row is still undrained.                      *)
OutboxAfter(e) ==
    IF \E o \in outbox : o.id = e.id
    THEN outbox
    ELSE outbox \cup {[id |-> e.id, res |-> e.res, gen |-> e.gen,
                       result |-> e.result]}

AppendOutbox(e) ==
    /\ e.result # "none"
    /\ ~e.fenced
    /\ outbox' = IF FencePasses(e) THEN OutboxAfter(e) ELSE outbox
    /\ execs' = execs \ {e}
    /\ UNCHANGED <<resourceVars, queue, reaping, nextId, done, ledger>>

(* The same statement when its snapshot is taken before, and its write     *)
(* done after, another transaction's commit: the fence locks nothing.      *)
AppendSnapshot(e) ==
    /\ e.result # "none"
    /\ ~e.fenced
    /\ FencePasses(e)
    /\ execs' = (execs \ {e}) \cup {[e EXCEPT !.fenced = TRUE]}
    /\ UNCHANGED <<resourceVars, queue, outbox, reaping, nextId, done, ledger>>

AppendWrite(e) ==
    /\ e.fenced
    /\ outbox' = OutboxAfter(e)
    /\ execs' = execs \ {e}
    /\ disordered' = (disordered \/ ~FencePasses(e))
    /\ UNCHANGED <<resourceVars, queue, reaping, nextId, done, faults>>

Freed(row) ==
    [id |-> row.id, gen |-> row.gen, epoch |-> row.epoch + 1, broker |-> NoPod]

(* WorkQueueReleaseTasks: a worker's stream dropped and its broker frees   *)
(* the claim.  Nothing looks at work_outbox, and the goroutine that ran    *)
(* the task may still be on its way to AppendOutbox.                       *)
ReleaseTasks(r) ==
    /\ Claimed(r)
    /\ Fault
    /\ queue' = [queue EXCEPT ![r] = Freed(queue[r])]
    /\ UNCHANGED <<resourceVars, outbox, execs, reaping, nextId, done>>

(* A graceful stop: the executions are cancelled and write nothing, then   *)
(* WorkQueueReleaseBroker frees the claims, except those that another      *)
(* writer has locked (SKIP LOCKED), which stay for the reaper.             *)
PodStop(p) ==
    /\ Fault
    /\ execs' = {e \in execs : e.pod # p}
    /\ \E skipped \in SUBSET {r \in Resources : queue[r].broker = p} :
          queue' = [r \in Resources |->
                      IF queue[r].broker = p /\ r \notin skipped
                      THEN Freed(queue[r]) ELSE queue[r]]
    /\ UNCHANGED <<resourceVars, outbox, reaping, nextId, done>>

(* With the pod go its goroutines; its claims stay until the reaper.       *)
PodCrash(p) ==
    /\ Fault
    /\ execs' = {e \in execs : e.pod # p}
    /\ UNCHANGED <<resourceVars, queue, outbox, reaping, nextId, done>>

(* Postgres restarts after a crash: the UNLOGGED tables are empty and the  *)
(* statements that were running are gone.                                  *)
PostgresCrash ==
    /\ Fault
    /\ queue' = [r \in Resources |-> NoRow]
    /\ outbox' = {}
    /\ reaping' = {}
    /\ execs' = {e \in execs : ~e.fenced}
    /\ UNCHANGED <<resourceVars, nextId, done>>

----------------------------------------------------------------------------
(* drain_outbox_batch.  A popped result deletes its queue row only when    *)
(* the row is still at the observed generation.  When a batch holds two    *)
(* results of one resource, UPDATE ... FROM applies either of them.        *)

Failed(o) == o.result \in {"transient", "terminal"}

(* The no-op gate of the status write.                                     *)
Applies(o, r) ==
    \/ /\ o.result = "success"
       /\ o.gen > synced_gen[r] \/ status[r] # o.gen \/ failure_gen[r] # 0
    \/ Failed(o) /\ failure_gen[r] # o.gen
    \/ Failed(o) /\ (o.result = "terminal") # failure_terminal[r]
    \/ /\ o.result = "transient"
       /\ ~(failure_terminal[r] /\ failure_gen[r] = generation[r])

Applicable(batch, r) == {o \in batch : o.res = r /\ Applies(o, r)}

(* One applied result, or NoResult, per resource.                          *)
Choices(batch) ==
    {pick \in [Resources -> batch \cup {NoResult}] :
        \A r \in Resources :
            IF Applicable(batch, r) = {}
            THEN pick[r] = NoResult
            ELSE pick[r] \in Applicable(batch, r)}

(* Consecutive transient failures of one generation.                       *)
AttemptsAfter(o, r) ==
    IF failure_gen[r] = o.gen THEN failure_attempts[r] + 1 ELSE 1

(* A transient failure that reaches the kind's cap is dead-lettered.       *)
TerminalAfter(o, r) ==
    CASE o.result = "terminal" -> TRUE
      [] o.result = "transient" ->
            AttemptCap > 0 /\ AttemptsAfter(o, r) >= AttemptCap
      [] o.result = "success" -> FALSE
      [] OTHER -> failure_terminal[r]

SyncedAfterCurrent(o, r) ==
    IF o.result = "success" THEN generation[r] ELSE synced_gen[r]

SyncedAfterUnguarded(o, r) ==
    IF o.result = "success" THEN o.gen ELSE synced_gen[r]

SyncedAfter(o, r) ==
    IF o.result = "success" /\ o.gen > synced_gen[r] THEN o.gen ELSE synced_gen[r]

WriteStatus(pick) ==
    /\ status' = [r \in Resources |->
          IF pick[r].result = "success" THEN pick[r].gen ELSE status[r]]
    /\ synced_gen' = [r \in Resources |-> SyncedAfter(pick[r], r)]
    /\ failure_gen' = [r \in Resources |->
          CASE Failed(pick[r]) -> pick[r].gen
            [] pick[r].result = "success" -> 0
            [] OTHER -> failure_gen[r]]
    /\ failure_attempts' = [r \in Resources |->
          CASE pick[r].result = "transient" -> AttemptsAfter(pick[r], r)
            [] pick[r].result = "success" -> 0
            [] OTHER -> failure_attempts[r]]
    /\ failure_terminal' = [r \in Resources |-> TerminalAfter(pick[r], r)]

drain_outbox_batch(batch) ==
    /\ batch # {}
    /\ outbox' = outbox \ batch
    /\ queue' = [r \in Resources |->
          IF \E o \in batch : o.id = queue[r].id /\ o.gen = queue[r].gen
          THEN NoRow ELSE queue[r]]
    /\ \E pick \in Choices(batch) : WriteStatus(pick)
    /\ UNCHANGED <<generation, frozen, execs, reaping, nextId, done, ledger>>

----------------------------------------------------------------------------
(* The reaper.                                                             *)

(* The claim of r is still being worked on.                                *)
Held(r) ==
    \E e \in execs : e.id = queue[r].id /\ e.epoch = queue[r].epoch

HasResult(r) == \E o \in outbox : o.id = queue[r].id

(* reap_stale_work selects the stale leases that have no result in the     *)
(* outbox at its snapshot ...  The lease of a live holder goes stale only  *)
(* when its heartbeats stop: a fault.                                      *)
ReapSelect(r) ==
    /\ reaping = {}
    /\ Claimed(r)
    /\ ~HasResult(r)
    /\ IF Held(r) THEN Fault ELSE UNCHANGED ledger
    /\ reaping' = {[id |-> queue[r].id, epoch |-> queue[r].epoch]}
    /\ UNCHANGED <<resourceVars, queue, outbox, execs, nextId, done>>

(* ... and frees the rows that are still as it saw them.  A result written *)
(* in between is not noticed.                                              *)
ReapUpdate ==
    /\ reaping # {}
    /\ reaping' = {}
    /\ queue' = [r \in Resources |->
          IF [id |-> queue[r].id, epoch |-> queue[r].epoch] \in reaping
          THEN Freed(queue[r]) ELSE queue[r]]
    /\ UNCHANGED <<resourceVars, outbox, execs, nextId, done, ledger>>

(* A row no pod claimed for 24 hours is deleted.                           *)
delete_unclaimed_work(r) ==
    /\ Queued(r)
    /\ ~Claimed(r)
    /\ Charge
    /\ disordered' = TRUE
    /\ queue' = [queue EXCEPT ![r] = NoRow]
    /\ UNCHANGED <<resourceVars, outbox, execs, reaping, nextId, done>>

(* The backstop: a resource that lags and has no row gets one.             *)
requeue_failed_and_pending(r) ==
    /\ Eligible(r, generation[r], frozen[r])
    /\ ~Queued(r)
    /\ schedule_eligible(r, generation[r], frozen[r])
    /\ UNCHANGED <<resourceVars, outbox, execs, reaping, done, ledger>>

(* Drift correction: a settled resource is run again at its generation.    *)
requeue_for_resync(r) ==
    /\ generation[r] > 0
    /\ synced_gen[r] >= generation[r]
    /\ ~frozen[r]
    /\ ~Queued(r)
    /\ Fault
    /\ queue' = [queue EXCEPT ![r] = NewRow(generation[r])]
    /\ nextId' = nextId + 1
    /\ UNCHANGED <<resourceVars, outbox, execs, reaping, done>>

----------------------------------------------------------------------------

Next ==
    \/ \E r \in Resources :
          \/ ApplySpec(r) \/ ApplyLabels(r)
          \/ Quarantine(r) \/ Unquarantine(r)
          \/ ReleaseTasks(r)
          \/ ReapSelect(r)
          \/ delete_unclaimed_work(r)
          \/ requeue_failed_and_pending(r)
          \/ requeue_for_resync(r)
          \/ \E p \in Pods : Claim(p, r)
    \/ \E e \in execs :
          \/ \E result \in Results \ {"none"} : Finish(e, result)
          \/ AppendOutbox(e)
          \/ AppendSnapshot(e)
          \/ AppendWrite(e)
    \/ \E p \in Pods : PodStop(p) \/ PodCrash(p)
    \/ PostgresCrash
    \/ \E batch \in SUBSET outbox : drain_outbox_batch(batch)
    \/ ReapUpdate

Spec == Init /\ [][Next]_vars

(* What the loops of a running fleet keep doing: pods poll and claim, a    *)
(* retried task eventually succeeds, results are appended and drained, the *)
(* reaper ticks.                                                           *)
Fairness ==
    /\ \A r \in Resources :
          /\ WF_vars(\E p \in Pods : Claim(p, r))
          /\ WF_vars(\E e \in execs : e.res = r /\ Finish(e, "success"))
          /\ WF_vars(\E e \in execs : e.res = r /\ AppendOutbox(e))
          /\ WF_vars(\E e \in execs : e.res = r /\ AppendWrite(e))
          /\ WF_vars(~Held(r) /\ ReapSelect(r))
          /\ WF_vars(requeue_failed_and_pending(r))
    /\ WF_vars(drain_outbox_batch(outbox))
    /\ WF_vars(ReapUpdate)

FairSpec == Spec /\ Fairness

----------------------------------------------------------------------------
(* Properties.                                                             *)

(* However leases are reaped, released, re-pointed and lost, at most one   *)
(* execution bears the current token of a queue row: the fence of          *)
(* AppendOutbox lets one writer through.                                   *)
OneWriter ==
    \A e1, e2 \in execs :
        e1.res = e2.res /\ FencePasses(e1) /\ FencePasses(e2) => e1 = e2

(* drain_outbox_batch never reports a generation as synced that no worker  *)
(* carried out, whatever was lost, repeated or delivered late before it.   *)
SyncedWasCarriedOut ==
    \A r \in Resources : synced_gen[r] # 0 => synced_gen[r] \in done[r]

(* The stored status never falls back to the output of an earlier          *)
(* generation, although drain_outbox_batch compares no generations when it *)
(* writes it: the order in which results reach it sees to it, as long as   *)
(* no pending row was dropped (quarantine_resource, delete_unclaimed_work) *)
(* and no AppendOutbox wrote after its fence had been broken.              *)
StatusNeverRegresses ==
    [][~disordered' => \A r \in Resources : status'[r] >= status[r]]_vars

(* A kind with a cap does not keep retrying a resource past the cap:       *)
(* drain_outbox_batch dead-letters the failure that reaches it.            *)
CapParks ==
    \A r \in Resources :
        AttemptCap > 0 /\ failure_attempts[r] >= AttemptCap => failure_terminal[r]

(* Whatever went wrong before the faults stopped, every resource ends up   *)
(* reconciled to its last generation, dead-lettered or quarantined.        *)
Settled(r) ==
    \/ synced_gen[r] = generation[r]
    \/ failure_terminal[r] /\ failure_gen[r] = generation[r]
    \/ frozen[r]

EventuallySettled == \A r \in Resources : <>[]Settled(r)

C == INSTANCE Convergence
        WITH desired <- generation, reported <- synced_gen, carriedOut <- done

(* The pipeline implements the promise made to the user.                   *)
ImplementsConvergence == C!Spec

=============================================================================
