----------------------------- MODULE Dispatcher -----------------------------
(***************************************************************************)
(* One broker pod's Dispatcher: the Run loop that sweeps its ring of       *)
(* (kind, version, task type) pairs and claims rows of work_queue, the     *)
(* goroutine it starts for each claim (runOne), the heartbeat that keeps   *)
(* the claims fresh, the registration of pairs while it runs, and the way  *)
(* down: claimDuty.Stop, ReleaseClaims, exit.  The rest of the fleet is    *)
(* the reaper, the drainer and some other pod.                             *)
(*                                                                         *)
(* Time.  A heartbeat tick is a fraction of the reaper's StaleAfter, so a  *)
(* claim that the next beat would cover is fresh and any other may go      *)
(* stale: Reap takes the second kind only.  All other timers may fire      *)
(* while they run.                                                         *)
(***************************************************************************)
EXTENDS Naturals, Sequences, FiniteSets, Functions

CONSTANTS
    Tasks,         \* the work ids
    Pairs,         \* the (kind, version, task type) triples
    Composing,     \* the tasks whose kind has a composer reaction to run first
    Deployments,   \* the queues and pods to look at, each with its bounds
    MaxDoubles     \* bound on the claims lost under a running goroutine

ASSUME SetsAssumption == IsFiniteSet(Tasks) /\ Composing \subseteq Tasks

(* A deployment: the rows to serve, the pair of each, the pairs known at   *)
(* boot, each once, those announced later (known ones too), the ceiling,   *)
(* how many faults there may be, and whether the pod is ever taken down.   *)
ASSUME DeploymentsAssumption ==
    \A d \in Deployments :
        /\ d.queued \subseteq Tasks
        /\ d.pairOf \in [Tasks -> Pairs]
        /\ d.boot \in Seq(Pairs) /\ IsInjective(d.boot) /\ d.announced \in Seq(Pairs)
        /\ d.maxParallel \in Nat /\ d.faults \in Nat /\ d.mortal \in BOOLEAN
ASSUME BoundsAssumption == MaxDoubles \in Nat \ {0}

VARIABLES
    (* the database *)
    row,           \* the work_queue row of a task: its claim epoch and its holder
    outbox,        \* the tasks with an undrained result
    outcomes,      \* observer: the results recorded for a task
    (* Run *)
    pairOf,        \* the pair that claims a task
    maxParallel,   \* SetMaxParallel
    mortal,        \* whether the pod may go down
    ring,          \* d.pairs, each with its inFlight counter
    newPairs,      \* the channel of that name
    loop,          \* where Run stands
    off,           \* the pairs the sweep has passed
    claimed,       \* whether it has claimed
    cursor,
    wakeup,        \* the token in the channel of that name
    (* the goroutines of the tasks *)
    gos,           \* runOne and its completion defers
    orphans,       \* dispatches runOne stopped waiting for
    releasing,     \* the claims releaseAbandoned is about to free
    doubled,       \* how often a task lost its claim with a goroutine here
    (* the heartbeat *)
    inFlight,      \* inFlightSet.ids
    beating,       \* whether heartbeatLoop runs
    fails,         \* consecutiveFail
    (* the pod *)
    proc,          \* "up", then the steps of the way down
    drainDone,     \* whether drainCtx is cancelled
    announcing,    \* AddPairLive between its send and its Trigger
    announced,     \* the pairs it is still to be called with
    gate,          \* the pairs with a worker to send to
    faults         \* the faults still to come

database == <<row, outbox, outcomes>>
deployment == <<pairOf, maxParallel, mortal>>
runVars == <<ring, newPairs, loop, off, claimed, cursor>>
taskVars == <<gos, orphans, releasing, doubled>>
beatVars == <<beating, fails>>
podVars == <<proc, drainDone, announcing, announced, gate>>
vars == <<database, deployment, runVars, wakeup, taskVars, inFlight, beatVars, podVars, faults>>

Holders == {"free", "me", "other", "gone"}
Loops == {"top", "sweep", "decide", "full", "timed", "draining", "joining", "returned"}
Stages == {"compose", "apply", "work", "append", "report", "leaving", "trigger"}
Procs == {"up", "stopping", "released", "exited"}

heartbeatFailPauseAt == 2

Fault == faults > 0 /\ faults' = faults - 1

(* the ctx of Run is cancelled                                             *)
Cancelled == proc # "up"

(* d.heartbeatFailing                                                      *)
HeartbeatFailing == fails >= heartbeatFailPauseAt

(* d.stopped is closed                                                     *)
Stopped == loop \in {"draining", "joining", "returned"}

HeldBy(g) == row[g.task] = [epoch |-> g.epoch, holder |-> "me"]

TypeOK ==
    /\ row \in [Tasks -> [epoch : Nat, holder : Holders]]
    /\ outbox \subseteq Tasks
    /\ outcomes \in [Tasks -> Nat]
    /\ pairOf \in [Tasks -> Pairs]
    /\ maxParallel \in Nat
    /\ mortal \in BOOLEAN
    /\ ring \in Seq([pair : Pairs, inFlight : Nat])
    /\ newPairs \in Seq(Pairs)
    /\ loop \in Loops /\ off \in Nat /\ claimed \in BOOLEAN /\ cursor \in Nat
    /\ wakeup \in BOOLEAN
    /\ gos \subseteq [task : Tasks, epoch : Nat, slot : Nat, at : Stages, silent : BOOLEAN]
    /\ orphans \subseteq [task : Tasks, epoch : Nat, writing : BOOLEAN]
    /\ releasing \subseteq Tasks
    /\ doubled \in [Tasks -> 0 .. MaxDoubles]
    /\ \A t \in DOMAIN inFlight :
          t \in Tasks /\ inFlight[t] \in [epoch : Nat, local : BOOLEAN]
    /\ beating \in BOOLEAN /\ fails \in 0 .. heartbeatFailPauseAt
    /\ proc \in Procs /\ drainDone \in BOOLEAN
    /\ announcing \in BOOLEAN /\ announced \in Seq(Pairs)
    /\ gate \subseteq Pairs
    /\ faults \in Nat

(* NewDispatch registers the pairs of the kinds known at boot, perhaps     *)
(* none; Run starts the heartbeat and enters its loop.                     *)
Init ==
    /\ outbox = {}
    /\ outcomes = [t \in Tasks |-> 0]
    /\ \E d \in Deployments :
          /\ row = [t \in Tasks |-> [epoch |-> 1, holder |-> IF t \in d.queued THEN "free" ELSE "gone"]]
          /\ pairOf = d.pairOf
          /\ maxParallel = d.maxParallel
          /\ mortal = d.mortal
          /\ announced = d.announced
          /\ faults = d.faults
          /\ ring = [i \in 1 .. Len(d.boot) |-> [pair |-> d.boot[i], inFlight |-> 0]]
    /\ newPairs = <<>>
    /\ loop = "top" /\ off = 0 /\ claimed = FALSE /\ cursor = 0
    /\ wakeup = FALSE
    /\ gos = {} /\ orphans = {} /\ releasing = {} /\ doubled = [t \in Tasks |-> 0]
    /\ inFlight = <<>>
    /\ beating = TRUE /\ fails = 0
    /\ proc = "up" /\ drainDone = FALSE
    /\ announcing = FALSE
    /\ gate = Pairs

-----------------------------------------------------------------------------
(* The Run loop.                                                           *)

AddedUnchecked(pairs, p) == Append(pairs, [pair |-> p, inFlight |-> 0])

(* drainNewPairs: a pair the ring already has is skipped.                  *)
Added(pairs, p) ==
    IF \E i \in 1 .. Len(pairs) : pairs[i].pair = p
    THEN pairs
    ELSE Append(pairs, [pair |-> p, inFlight |-> 0])

(* The top of an iteration: what the channel holds goes into the ring ...  *)
DrainNewPairs ==
    /\ loop = "top" /\ newPairs # <<>>
    /\ ring' = Added(ring, Head(newPairs))
    /\ newPairs' = Tail(newPairs)
    /\ UNCHANGED <<database, deployment, loop, off, claimed, cursor, wakeup, taskVars, inFlight, beatVars, podVars, faults>>

(* ... and the sweep begins; with failing heartbeats, or without pairs, it *)
(* claims nothing.                                                         *)
BeginSweep ==
    /\ loop = "top" /\ newPairs = <<>>
    /\ loop' = IF HeartbeatFailing \/ ring = <<>> THEN "decide" ELSE "sweep"
    /\ UNCHANGED <<database, deployment, ring, newPairs, off, claimed, cursor, wakeup, taskVars, inFlight, beatVars, podVars, faults>>

(* The pair the sweep has come to, and the rows it may claim.              *)
Slot == ((cursor + off) % Len(ring)) + 1
Free == IF ring[Slot].inFlight >= maxParallel THEN 0 ELSE maxParallel - ring[Slot].inFlight
Claimable == {t \in Tasks : row[t].holder = "free" /\ pairOf[t] = ring[Slot].pair}

(* What WorkQueueTakeBatch may return: as many rows as fit, any of them.   *)
Batches ==
    {b \in SUBSET Claimable :
        Cardinality(b) = IF Free < Cardinality(Claimable) THEN Free ELSE Cardinality(Claimable)}

Taken(b) ==
    row' = [t \in Tasks |->
        IF t \in b THEN [epoch |-> row[t].epoch + 1, holder |-> "me"] ELSE row[t]]

Launched(b) ==
    {[task |-> t, epoch |-> row[t].epoch + 1, slot |-> Slot, silent |-> FALSE,
      at |-> IF t \in Composing THEN "compose" ELSE "work"] : t \in b}

(* inFlight.add: the record of an earlier claim is replaced.               *)
Recorded(b) ==
    [t \in DOMAIN inFlight \cup b |->
        IF t \in b
        THEN [epoch |-> row[t].epoch + 1, local |-> FALSE]
        ELSE inFlight[t]]

(* On to the next pair or, past the last, out of the sweep.                *)
Advance(some) ==
    /\ IF off + 1 < Len(ring)
       THEN off' = off + 1 /\ claimed' = some /\ UNCHANGED <<loop, cursor>>
       ELSE /\ off' = 0 /\ claimed' = FALSE
            /\ cursor' = (cursor + 1) % Len(ring)
            /\ loop' = IF some THEN "top" ELSE "decide"

(* A pair with no free slot, or with no worker to send to.                 *)
SkipPair ==
    /\ loop = "sweep"
    /\ Free = 0 \/ ring[Slot].pair \notin gate
    /\ Advance(claimed)
    /\ UNCHANGED <<database, deployment, ring, newPairs, wakeup, taskVars, inFlight, beatVars, podVars, faults>>

TakeBatch ==
    /\ loop = "sweep" /\ ~Cancelled
    /\ Free > 0 /\ ring[Slot].pair \in gate
    /\ \E b \in Batches :
          /\ Taken(b)
          /\ ring' = [ring EXCEPT ![Slot].inFlight = @ + Cardinality(b)]
          /\ gos' = gos \cup Launched(b)
          /\ inFlight' = Recorded(b)
          /\ Advance(claimed \/ b # {})
    /\ UNCHANGED <<outbox, outcomes, deployment, newPairs, wakeup, orphans, releasing, doubled, beatVars, podVars, faults>>

(* The claim fails: always under a cancelled ctx, else by a fault.  It may *)
(* fail after the statement has committed: then rows are leased that no    *)
(* goroutine knows of.  The cursor stays where it is.                      *)
TakeBatchFails ==
    /\ loop = "sweep"
    /\ Free > 0 /\ ring[Slot].pair \in gate
    /\ \/ /\ Cancelled
          /\ UNCHANGED <<row, faults>>
       \/ /\ Fault
          /\ \E b \in Batches \cup {{}} : Taken(b)
    /\ loop' = IF Cancelled THEN "draining" ELSE IF claimed THEN "top" ELSE "decide"
    /\ off' = 0 /\ claimed' = FALSE
    /\ UNCHANGED <<outbox, outcomes, deployment, ring, newPairs, cursor, wakeup, taskVars, inFlight, beatVars, podVars>>

Total == SumFunction([i \in DOMAIN ring |-> ring[i].inFlight])

(* Saturated, the loop waits for a wake only; else for a wake or a timer.  *)
Decide ==
    /\ loop = "decide"
    /\ loop' = IF Total >= Len(ring) * maxParallel THEN "full" ELSE "timed"
    /\ UNCHANGED <<database, deployment, ring, newPairs, off, claimed, cursor, wakeup, taskVars, inFlight, beatVars, podVars, faults>>

Wake ==
    /\ loop \in {"full", "timed"}
    /\ \/ wakeup /\ wakeup' = FALSE
       \/ loop = "timed" /\ UNCHANGED wakeup
    /\ loop' = "top"
    /\ UNCHANGED <<database, deployment, ring, newPairs, off, claimed, cursor, taskVars, inFlight, beatVars, podVars, faults>>

LeaveLoop ==
    /\ loop \in {"full", "timed"} /\ Cancelled
    /\ loop' = "draining"
    /\ UNCHANGED <<database, deployment, ring, newPairs, off, claimed, cursor, wakeup, taskVars, inFlight, beatVars, podVars, faults>>

(* taskWG.Wait counts the orphans too.                                     *)
TasksJoined == gos = {} /\ orphans = {}

JoinTasks ==
    /\ loop = "draining" /\ TasksJoined
    /\ loop' = "joining"
    /\ drainDone' = TRUE
    /\ UNCHANGED <<database, deployment, ring, newPairs, off, claimed, cursor, wakeup, taskVars, inFlight, beatVars, proc, announcing, announced, gate, faults>>

JoinHeartbeat ==
    /\ loop = "joining" /\ ~beating
    /\ loop' = "returned"
    /\ UNCHANGED <<database, deployment, ring, newPairs, off, claimed, cursor, wakeup, taskVars, inFlight, beatVars, podVars, faults>>

RunStep ==
    \/ DrainNewPairs \/ BeginSweep \/ SkipPair \/ TakeBatch \/ Decide \/ Wake \/ LeaveLoop
    \/ (Cancelled /\ TakeBatchFails) \/ JoinTasks \/ JoinHeartbeat

-----------------------------------------------------------------------------
(* The goroutine of a claim.                                               *)

Move(g, s) == gos' = (gos \ {g}) \cup {[g EXCEPT !.at = s]}

(* inFlight.markLocal, which knows the task by its id only.                *)
MarkLocal(t) ==
    inFlight' = IF t \in DOMAIN inFlight
                THEN [inFlight EXCEPT ![t].local = TRUE]
                ELSE inFlight

(* A worker's Complete arrives: the composer's is applied here, the last   *)
(* stage's is appended.  A failed stage is reported like the last one.     *)
StageReturns(g) ==
    /\ g.at \in {"compose", "work"}
    /\ \/ g.at = "compose" /\ Move(g, "apply") /\ MarkLocal(g.task)
       \/ Move(g, "append") /\ UNCHANGED inFlight
    /\ UNCHANGED <<database, deployment, runVars, wakeup, orphans, releasing, doubled, beatVars, podVars, faults>>

(* ApplyComposeResult, fenced: a lost claim ends the task quietly.  The    *)
(* record stays local while the next stage waits for a worker.             *)
ApplyCompose(g) ==
    /\ g.at = "apply"
    /\ Move(g, IF HeldBy(g) /\ ~drainDone THEN "work" ELSE "leaving")
    /\ UNCHANGED <<database, deployment, runVars, wakeup, orphans, releasing, doubled, inFlight, beatVars, podVars, faults>>

AppendUnfenced(x) ==
    /\ outbox' = outbox \cup {x.task}
    /\ outcomes' = [outcomes EXCEPT ![x.task] = @ + 1]

(* AppendOutbox: fenced on the claim, at most one undrained result.        *)
AppendOutbox(x) ==
    IF row[x.task] = [epoch |-> x.epoch, holder |-> "me"] /\ x.task \notin outbox
    THEN /\ outbox' = outbox \cup {x.task}
         /\ outcomes' = [outcomes EXCEPT ![x.task] = @ + 1]
    ELSE UNCHANGED <<outbox, outcomes>>

(* The task's own result, or the failure recorded at its deadline.  Under  *)
(* a cancelled drainCtx nothing is written.                                *)
Report(g) ==
    /\ g.at \in {"append", "report"}
    /\ IF drainDone THEN UNCHANGED <<outbox, outcomes>> ELSE AppendOutbox(g)
    /\ Move(g, "leaving")
    /\ UNCHANGED <<row, deployment, runVars, wakeup, orphans, releasing, doubled, inFlight, beatVars, podVars, faults>>

(* The task's deadline or RemoteFanoutCeiling: runOne goes on to report a  *)
(* failure and the dispatch is left to itself.                             *)
Deadline(g) ==
    /\ g.at \in {"compose", "apply", "work", "append"}
    /\ ~drainDone
    /\ IF g.silent THEN UNCHANGED faults ELSE Fault
    /\ Move(g, "report")
    /\ orphans' = orphans \cup
          {[task |-> g.task, epoch |-> g.epoch, writing |-> g.at = "append"]}
    /\ UNCHANGED <<database, deployment, runVars, wakeup, releasing, doubled, inFlight, beatVars, podVars>>

(* An orphan's ctx is cancelled; a statement it has already sent may still *)
(* commit.                                                                 *)
OrphanEnds(o) ==
    /\ \/ o.writing /\ AppendOutbox(o)
       \/ UNCHANGED <<outbox, outcomes>>
    /\ orphans' = orphans \ {o}
    /\ UNCHANGED <<row, deployment, runVars, wakeup, gos, releasing, doubled, inFlight, beatVars, podVars, faults>>

(* The drain window is over: a parked stage returns and writes nothing.    *)
Abandoned(g) ==
    /\ g.at \in {"compose", "work"} /\ drainDone
    /\ Move(g, "leaving")
    /\ UNCHANGED <<database, deployment, runVars, wakeup, orphans, releasing, doubled, inFlight, beatVars, podVars, faults>>

Removed(t) == [u \in DOMAIN inFlight \ {t} |-> inFlight[u]]

(* The completion defer: inFlight.remove, by id, and the pair's count ...  *)
FreeSlot(g) ==
    /\ g.at = "leaving"
    /\ inFlight' = Removed(g.task)
    /\ ring' = [ring EXCEPT ![g.slot].inFlight = @ - 1]
    /\ Move(g, "trigger")
    /\ UNCHANGED <<database, deployment, newPairs, loop, off, claimed, cursor, wakeup, orphans, releasing, doubled, beatVars, podVars, faults>>

TriggerDropped(g) ==
    /\ g.at = "trigger"
    /\ gos' = gos \ {g}
    /\ UNCHANGED <<database, deployment, runVars, wakeup, orphans, releasing, doubled, inFlight, beatVars, podVars, faults>>

(* ... then d.Trigger.                                                     *)
Trigger(g) ==
    /\ g.at = "trigger"
    /\ wakeup' = TRUE
    /\ gos' = gos \ {g}
    /\ UNCHANGED <<database, deployment, runVars, orphans, releasing, doubled, inFlight, beatVars, podVars, faults>>

(* The worker of a parked stage stops attesting: it hung, or never got the *)
(* task.                                                                   *)
GoSilent(g) ==
    /\ g.at \in {"compose", "work"} /\ ~g.silent
    /\ Fault
    /\ gos' = (gos \ {g}) \cup {[g EXCEPT !.silent = TRUE]}
    /\ UNCHANGED <<database, deployment, runVars, wakeup, orphans, releasing, doubled, inFlight, beatVars, podVars>>

(* The worker's stream drops: abandon wakes the stage with a failure to    *)
(* report, and releaseAbandoned is to free the claim if it still finds the *)
(* stage parked.                                                           *)
StreamDrops(g) ==
    /\ g.at \in {"compose", "work"}
    /\ Fault
    /\ Move(g, "append")
    /\ releasing' \in {releasing, releasing \cup {g.task}}
    /\ UNCHANGED <<database, deployment, runVars, wakeup, orphans, doubled, inFlight, beatVars, podVars>>

Freed(t) == row' = [row EXCEPT ![t] = [epoch |-> @.epoch + 1, holder |-> "free"]]

LosesClaim(t) ==
    doubled' = IF doubled[t] < MaxDoubles /\ \E g \in gos : g.task = t
               THEN [doubled EXCEPT ![t] = @ + 1] ELSE doubled

(* WorkQueueReleaseTasks goes by the id and the broker, not by the epoch.  *)
ReleaseTask(t) ==
    /\ t \in releasing
    /\ releasing' = releasing \ {t}
    /\ IF row[t].holder = "me"
       THEN /\ Freed(t)
            /\ LosesClaim(t)
       ELSE UNCHANGED <<row, doubled>>
    /\ UNCHANGED <<outbox, outcomes, deployment, runVars, wakeup, gos, orphans, inFlight, beatVars, podVars, faults>>

TaskStep(g) == ApplyCompose(g) \/ Report(g) \/ Abandoned(g) \/ FreeSlot(g) \/ Trigger(g)

-----------------------------------------------------------------------------
(* The heartbeat.                                                          *)

(* Attestations name a task by its id: a worker of any claim counts.       *)
Attested(t) == \E g \in gos : g.task = t /\ g.at \in {"compose", "work"} /\ ~g.silent

(* inFlightSet.snapshot: what runs here, and what a worker attested within *)
(* RequireWithin.                                                          *)
Snapshot == {t \in DOMAIN inFlight : inFlight[t].local \/ Attested(t)}

(* WorkQueueHeartbeat, fenced on the epoch.                                *)
Refreshed == {t \in Snapshot : row[t].epoch = inFlight[t].epoch /\ row[t].holder = "me"}

(* A tick that succeeds after failed ones; every other one is implied.     *)
Beat ==
    /\ beating /\ ~drainDone
    /\ fails > 0 /\ fails' = 0
    /\ UNCHANGED <<database, deployment, runVars, wakeup, taskVars, inFlight, beating, podVars, faults>>

(* All the tries of one tick fail.                                         *)
BeatFails ==
    /\ beating /\ ~drainDone
    /\ Snapshot # {}
    /\ Fault
    /\ fails' = IF HeartbeatFailing THEN fails ELSE fails + 1
    /\ UNCHANGED <<database, deployment, runVars, wakeup, taskVars, inFlight, beating, podVars>>

HeartbeatEndsAtCancel == Cancelled

(* The loop runs under drainCtx.                                           *)
HeartbeatEnds == drainDone

EndHeartbeat ==
    /\ beating /\ HeartbeatEnds
    /\ beating' = FALSE
    /\ UNCHANGED <<database, deployment, runVars, wakeup, taskVars, inFlight, fails, podVars, faults>>

ReapOfLivePods(t) ==
    /\ row[t].holder = "me" /\ t \notin outbox /\ proc # "exited"
    /\ t \notin Refreshed \/ HeartbeatFailing \/ ~beating
    /\ Freed(t)
    /\ UNCHANGED <<outbox, outcomes, deployment, runVars, wakeup, taskVars, inFlight, beatVars, podVars, faults>>

(* reap_stale_work frees a claim that no beat covers and that has no       *)
(* result.                                                                 *)
Reap(t) ==
    /\ row[t].holder = "me" /\ t \notin outbox
    /\ t \notin Refreshed \/ HeartbeatFailing \/ ~beating
    /\ doubled[t] < MaxDoubles \/ ~\E g \in gos : g.task = t
    /\ LosesClaim(t)
    /\ Freed(t)
    /\ UNCHANGED <<outbox, outcomes, deployment, runVars, wakeup, gos, orphans, releasing, inFlight, beatVars, podVars, faults>>

-----------------------------------------------------------------------------
(* The pod and the fleet around it.                                        *)

(* AddPairLive, from the reload of the manifest cache, which announces     *)
(* known pairs again: the send (given up once Run has stopped) ...         *)
AddPairLive ==
    /\ proc # "exited" /\ ~announcing
    /\ announced # <<>>
    /\ announced' = Tail(announced)
    /\ \/ newPairs' = Append(newPairs, Head(announced)) /\ announcing' = TRUE
       \/ Stopped /\ UNCHANGED <<newPairs, announcing>>
    /\ UNCHANGED <<database, deployment, ring, loop, off, claimed, cursor, wakeup, taskVars, inFlight, beatVars, proc, drainDone, gate, faults>>

(* ... and the Trigger after it.                                           *)
TriggerLive ==
    /\ announcing
    /\ announcing' = FALSE
    /\ wakeup' = TRUE
    /\ UNCHANGED <<database, deployment, runVars, taskVars, inFlight, beatVars, proc, drainDone, announced, gate, faults>>

(* work_ready, while the listener runs.  One that comes before the loop    *)
(* waits is one that comes as it starts to, and the timed wait may end at  *)
(* any moment without.                                                     *)
Notify ==
    /\ ~Cancelled /\ ~wakeup /\ loop = "full"
    /\ wakeup' = TRUE
    /\ UNCHANGED <<database, deployment, runVars, taskVars, inFlight, beatVars, podVars, faults>>

(* The last ready worker of a pair leaves; one comes back.                 *)
GateShuts(p) ==
    /\ p \in gate /\ \E i \in 1 .. Len(ring) : ring[i].pair = p
    /\ Fault
    /\ gate' = gate \ {p}
    /\ UNCHANGED <<database, deployment, runVars, wakeup, taskVars, inFlight, beatVars, proc, drainDone, announcing, announced>>

GateOpens(p) ==
    /\ p \notin gate
    /\ gate' = gate \cup {p}
    /\ UNCHANGED <<database, deployment, runVars, wakeup, taskVars, inFlight, beatVars, proc, drainDone, announcing, announced, faults>>

(* claimDuty.Stop cancels the loops ...                                    *)
Stop ==
    /\ proc = "up" /\ mortal
    /\ proc' = "stopping"
    /\ UNCHANGED <<database, deployment, runVars, wakeup, taskVars, inFlight, beatVars, drainDone, announcing, announced, gate, faults>>

DrainGraceElapses ==
    /\ Cancelled /\ proc # "exited" /\ ~drainDone
    /\ drainDone' = TRUE
    /\ UNCHANGED <<database, deployment, runVars, wakeup, taskVars, inFlight, beatVars, proc, announcing, announced, gate, faults>>

(* ... and waits for Run, or for ShutdownDrain to run out.  Then           *)
(* ReleaseClaims hands every claim back; it may fail.                      *)
ReleaseClaims ==
    /\ proc = "stopping"
    /\ proc' = "released"
    /\ \/ /\ row' = [t \in Tasks |->
                IF row[t].holder = "me"
                THEN [epoch |-> row[t].epoch + 1, holder |-> "free"] ELSE row[t]]
          /\ UNCHANGED faults
       \/ Fault /\ UNCHANGED row
    /\ UNCHANGED <<outbox, outcomes, deployment, runVars, wakeup, taskVars, inFlight, beatVars, drainDone, announcing, announced, gate>>

(* The process is gone, and everything that ran in it.                     *)
Exit ==
    /\ proc = "released" \/ (proc # "exited" /\ mortal /\ faults > 0)
    /\ faults' = IF proc = "released" THEN faults ELSE faults - 1
    /\ proc' = "exited"
    /\ gos' = {} /\ orphans' = {} /\ releasing' = {}
    /\ inFlight' = <<>>
    /\ ring' = <<>> /\ newPairs' = <<>> /\ loop' = "returned"
    /\ off' = 0 /\ claimed' = FALSE /\ cursor' = 0 /\ wakeup' = FALSE
    /\ beating' = FALSE /\ announcing' = FALSE /\ drainDone' = TRUE
    /\ UNCHANGED <<database, deployment, doubled, fails, announced, gate>>

(* drain_outbox_batch deletes the row of a result it applies.              *)
DrainOutbox(t) ==
    /\ t \in outbox
    /\ outbox' = outbox \ {t}
    /\ row' = [row EXCEPT ![t] = [epoch |-> @.epoch, holder |-> "gone"]]
    /\ UNCHANGED <<outcomes, deployment, runVars, wakeup, taskVars, inFlight, beatVars, podVars, faults>>

(* Another pod claims a row, and is done with it or loses it.              *)
OtherTakes(t) ==
    /\ row[t].holder = "free" /\ Fault
    /\ row' = [row EXCEPT ![t] = [epoch |-> @.epoch + 1, holder |-> "other"]]
    /\ UNCHANGED <<outbox, outcomes, deployment, runVars, wakeup, taskVars, inFlight, beatVars, podVars>>

OtherEnds(t) ==
    /\ row[t].holder = "other"
    /\ Freed(t)
    /\ UNCHANGED <<outbox, outcomes, deployment, runVars, wakeup, taskVars, inFlight, beatVars, podVars, faults>>

Next ==
    \/ RunStep \/ TakeBatchFails
    \/ \E g \in gos : TaskStep(g) \/ StageReturns(g) \/ Deadline(g) \/ GoSilent(g) \/ StreamDrops(g)
    \/ \E o \in orphans : OrphanEnds(o)
    \/ Beat \/ BeatFails \/ EndHeartbeat
    \/ \E p \in Pairs : GateShuts(p) \/ GateOpens(p)
    \/ AddPairLive \/ TriggerLive \/ Notify
    \/ Stop \/ DrainGraceElapses \/ ReleaseClaims \/ Exit
    \/ \E t \in Tasks : ReleaseTask(t) \/ Reap(t) \/ DrainOutbox(t) \/ OtherTakes(t) \/ OtherEnds(t)

Spec == Init /\ [][Next]_vars

(* Go schedules what can run, a timer that is running fires, and so does   *)
(* the periodic work of the fleet: the reaper, the drainer and the reload  *)
(* of the manifests.  A worker that keeps attesting answers; one that does *)
(* not runs into the deadline.  A lost gate comes back.  Nothing is        *)
(* assumed of faults.                                                      *)
Fairness ==
    /\ WF_vars(RunStep)
    /\ \A t \in Tasks :
          /\ WF_vars(\E g \in gos : g.task = t /\ TaskStep(g))
          /\ WF_vars(\E g \in gos : g.task = t /\ ~g.silent /\ StageReturns(g))
          /\ WF_vars(\E g \in gos : g.task = t /\ g.silent /\ Deadline(g))
          /\ WF_vars(ReleaseTask(t)) /\ WF_vars(Reap(t)) /\ WF_vars(DrainOutbox(t)) /\ WF_vars(OtherEnds(t))
    /\ WF_vars(\E o \in orphans : OrphanEnds(o))
    /\ WF_vars(Beat) /\ WF_vars(EndHeartbeat)
    /\ WF_vars(AddPairLive) /\ WF_vars(TriggerLive)
    /\ \A p \in Pairs : WF_vars(GateOpens(p))
    /\ WF_vars(DrainGraceElapses) /\ WF_vars(ReleaseClaims)
    /\ WF_vars(proc = "released" /\ Exit)

FairSpec == Spec /\ Fairness

-----------------------------------------------------------------------------
(* Properties.                                                             *)

(* A claim that is still current and whose goroutine is still at work, its *)
(* worker attesting or the work being this pod's own, is one the next beat *)
(* refreshes: Run keeps the heartbeat alive through the drain, and the     *)
(* in-flight set knows the claim by its epoch.  Excused: a task that once  *)
(* lost its claim with a goroutine here, because the completion of the old *)
(* claim removes the record of the new one (inFlightSet.remove goes by     *)
(* id).                                                                    *)
LiveLeaseCovered ==
    \A g \in gos :
        (/\ HeldBy(g) /\ ~g.silent /\ g.at \notin {"leaving", "trigger"}
         /\ doubled[g.task] = 0 /\ ~drainDone)
            => beating /\ (g.task \in Refreshed \/ g.at \in {"append", "report"})

(* A pair never has more tasks running than its ceiling, however often it  *)
(* is announced again and whatever claims are lost and taken back.         *)
NeverOverfilled ==
    \A p \in Pairs :
        Cardinality({g \in gos : g.at # "trigger" /\ pairOf[g.task] = p}) <= maxParallel

(* A task has one recorded result, though the failure runOne reports at    *)
(* the deadline races the result of the dispatch it gave up on, and a      *)
(* claim lost to the reaper races its successor.                           *)
OneOutcome == \A t \in Tasks : outcomes[t] <= 1

(* Every queued row is served, through saturation without a timer, pairs   *)
(* announced late, failed claims, claims committed but never heard of,     *)
(* silent workers and failing heartbeats, unless the pod goes down.        *)
EveryRowServed == <>(proc # "up" \/ \A t \in Tasks : row[t].holder = "gone")

(* A pod that goes down, in order or by a crash, in the end holds no row.  *)
ClaimsHandedBack == (proc # "up") ~> (\A t \in Tasks : row[t].holder # "me")
=============================================================================
