--------------------------- MODULE CascadeProofs ---------------------------
(***************************************************************************)
(* Proofs about Cascade: the root follows its children, and the values     *)
(* that flow between the children arrive.                                  *)
(*                                                                         *)
(* Neither property is inductive.  What carries them from step to step:    *)
(*   - GenInv: the generations that tasks, results and failures carry are  *)
(*     never ahead of the row's, and the children are composed together;   *)
(*   - TxInv: what the locks of the open batches protect: a batch's        *)
(*     results stay in place, and no other batch writes its rows;          *)
(*   - RollInv: a rollup that reports success saw every child done or      *)
(*     excused, and nothing undoes that before the next compose;           *)
(*   - CoverInv: an open batch that will settle a child has put a row of   *)
(*     the root, armed the recheck, or runs while the root has a row;      *)
(*   - FlowInv: a resource is scheduled after its upstreams have reported, *)
(*     and until the root is edited every input is the upstream's status.  *)
(***************************************************************************)
EXTENDS Cascade, TLAPS

(* Zenon is the prover of this module; leaves that need arithmetic, records *)
(* or sequences ask for SMT.                                               *)
USE Zenon

GenInv ==
    /\ \A r \in Resources :
         /\ rows[r].fail <= rows[r].gen /\ rows[r].synced <= rows[r].gen
         /\ queue[r].gen <= rows[r].gen /\ outbox[r].gen <= rows[r].gen
         /\ queue[r].claimed => queue[r].gen > 0
         /\ outbox[r] # NoResult => outbox[r].kind # "none" /\ outbox[r].gen > 0
    /\ ~rows[Root].frozen
    /\ \A c, d \in Kids : rows[c].gen > 0 => rows[d].gen > 0 /\ rows[Root].gen > 0
    /\ \A c \in Kids : want[c] <= rows[c].gen

TxInv ==
    /\ \A b \in Bands : \A r \in tx[b].batch : outbox[r] # NoResult /\ BandOf[r] = b
    /\ \A b \in Bands : \A e \in tx[b].flowed :
         e[2] \in tx[b].batch /\ outbox[e[2]].kind = "ok"
    /\ \A b \in Bands : \A p \in tx[b].put :
         p[1] = Root => p[2] > 0 /\ p[2] <= rows[Root].gen
    /\ \A b, o \in Bands : b # o => Locked(b) \cap Locked(o) = {}

ChildDone(c) == rows[c].synced >= want[c] \/ c \in excused

RollInv ==
    /\ \A c \in Kids : rows[c].frozen \/ (rows[c].gen > 0 /\ Failed(rows, c))
                         => c \in excused
    /\ outbox[Root].kind = "ok" => \A c \in Kids : ChildDone(c)
    /\ ~rootKind.recomposes =>
         /\ rows[Root].synced <= composed
         /\ outbox[Root].kind = "ok" => outbox[Root].gen <= composed
    /\ RollupAfterChildren

(* the commit of b's batch will find that c has caught up                  *)
WillSettle(b, c) ==
    /\ c \in tx[b].batch /\ c \notin Heads(tx[b].flowed)
    /\ Lagging(rows, c)
    /\ outbox[c].kind = "ok" /\ outbox[c].gen = rows[c].gen

Remembered == queue[Root].gen > 0 \/ recheck

CoverInv ==
    /\ rows[Root].gen > 0 => Remembered \/ consumed
    /\ \A b \in Bands : \A c \in Kids : WillSettle(b, c) =>
         Root \in Inserted(b) \/ tx[b].arm \/ tx[b].seen \/ Remembered

(* every upstream of d has reported a status                               *)
Reported(d) == \A u \in Upstreams(d) : rows[u].status # 0

Unedited == rows[Root].gen <= 1 /\ ~rootKind.recomposes

FlowInv ==
    /\ \A c \in Kids :
         /\ outbox[c].kind = "ok" => outbox[c].status # 0
         /\ rows[c].synced > 0 => rows[c].status # 0
         /\ queue[c].gen > 0 \/ outbox[c].kind # "none" \/ rows[c].synced > 0
              => Reported(c)
    /\ \A b \in Bands : \A d \in Inserted(b) : \A u \in Upstreams(d) :
         rows[u].status # 0 \/ (u \in tx[b].batch /\ outbox[u].kind = "ok")
    /\ Unedited =>
         /\ composed = 0 => /\ \A c \in Kids : rows[c].gen = 0 /\ rows[c].status = 0
                            /\ \A e \in Deps : input[e] = 0
         /\ \A e \in Deps : input[e] = rows[e[2]].status \/ e[1] \in excused
         /\ \A b \in Bands : \A e \in Deps :
              e[2] \in tx[b].batch /\ outbox[e[2]].kind = "ok" /\ e \notin tx[b].flowed
                => \/ outbox[e[2]].status = rows[e[2]].status
                   \/ outbox[e[2]].status = input[e]
                   \/ e[1] \in excused

Inv == TypeOK /\ GenInv /\ TxInv /\ RollInv /\ CoverInv /\ FlowInv

----------------------------------------------------------------------------
(* What the operators of the model do to a row.                            *)

\* The resources are the root and its kids.
LEMMA Members ==
    /\ Root \notin Kids /\ Root \in Resources /\ Kids \subseteq Resources
    /\ \A r \in Resources : r = Root \/ r \in Kids
  BY ConstantsAssumption DEF Resources

\* Both ends of a dependency edge are kids.
LEMMA Edges ==
    ASSUME TypeOK
    PROVE  \A e \in Deps : e[1] \in Kids /\ e[2] \in Kids /\ e = <<e[1], e[2]>>
  BY SMTT(30), ConstantsAssumption DEF TypeOK, Deps

\* The upstreams of a resource are kids, and the root has none.
LEMMA UpstreamsOf ==
    ASSUME TypeOK, NEW r \in Resources
    PROVE  /\ Upstreams(r) \subseteq Kids
           /\ \A u \in Upstreams(r) : <<r, u>> \in Deps /\ r \in Kids
           /\ Upstreams(Root) = {}
  BY Edges, Members DEF Upstreams

\* The resource row after a result is applied to it by drain_outbox_batch.
LEMMA AppliedRow ==
    ASSUME NEW row \in Row, NEW p \in Result
    PROVE  /\ Applied(row, p) \in Row
           /\ Applied(row, p).gen = row.gen
           /\ Applied(row, p).frozen = row.frozen
           /\ Applied(row, p).synced = IF p.kind = "ok" THEN Larger(row.synced, p.gen)
                                       ELSE row.synced
           /\ Applied(row, p).status = IF p.kind = "ok" THEN p.status ELSE row.status
           /\ Applied(row, p).fail = IF p.kind = "ok" THEN 0
                                     ELSE IF p.kind \in {"fail", "park"} THEN p.gen
                                     ELSE row.fail
  <1>1. Larger(row.synced, p.gen) \in Nat /\ (p.kind = "park") \in BOOLEAN
    BY DEF Larger, Row, Result
  <1>2. CASE p.kind = "ok"
    <2>1. Applied(row, p) = [row EXCEPT !.synced = Larger(@, p.gen), !.health = p.health,
                                        !.fail = 0, !.parked = FALSE, !.status = p.status]
      BY <1>2 DEF Applied
    <2> DEFINE top == Larger(row.synced, p.gen)
    <2>2. Applied(row, p) = [gen |-> row.gen, synced |-> top, fail |-> 0, parked |-> FALSE,
                             health |-> p.health, frozen |-> row.frozen, status |-> p.status]
      BY <2>1 DEF Row
    <2>3. top \in Nat
      BY <1>1
    <2> HIDE DEF top
    <2>4. Applied(row, p) \in Row
      BY SMTT(30), <2>2, <2>3 DEF Row, Result
    <2> QED
      BY SMTT(30), <1>2, <2>2, <2>4 DEF top
  <1>3. CASE p.kind \in {"fail", "park"}
    <2>1. Applied(row, p) = [row EXCEPT !.fail = p.gen, !.parked = (p.kind = "park")]
      BY <1>3 DEF Applied
    <2> QED
      BY <1>1, <1>3, <2>1 DEF Row, Result
  <1>4. CASE p.kind \notin {"ok", "fail", "park"}
    <2>1. Applied(row, p) = row
      BY <1>4 DEF Applied
    <2> QED
      BY <1>4, <2>1
  <1> QED
    BY <1>2, <1>3, <1>4

\* The resource rows after the generation of some has been bumped.
LEMMA BumpedRow ==
    ASSUME NEW w \in [Resources -> Row], NEW ids
    PROVE  /\ Bumped(w, ids) \in [Resources -> Row]
           /\ \A r \in Resources :
                /\ Bumped(w, ids)[r].gen = w[r].gen + (IF r \in ids THEN 1 ELSE 0)
                /\ Bumped(w, ids)[r].synced = w[r].synced
                /\ Bumped(w, ids)[r].fail = w[r].fail
                /\ Bumped(w, ids)[r].frozen = w[r].frozen
                /\ Bumped(w, ids)[r].status = w[r].status
                /\ r \notin ids => Bumped(w, ids)[r] = w[r]
  BY SMTT(30) DEF Bumped, Row

(* what a batch makes of a row: hit if it drains a result p of it, moved   *)
(* if a value flows into it                                                *)
RowAfter(v, row, p, hit, moved) ==
    /\ v.gen = row.gen + (IF moved THEN 1 ELSE 0)
    /\ v.frozen = row.frozen
    /\ v.synced = IF hit /\ p.kind = "ok" THEN Larger(row.synced, p.gen) ELSE row.synced
    /\ v.status = IF hit /\ p.kind = "ok" THEN p.status ELSE row.status
    /\ v.fail = IF hit /\ p.kind = "ok" THEN 0
                ELSE IF hit /\ p.kind \in {"fail", "park"} THEN p.gen ELSE row.fail

(* how a batch moves a row: the generation and the synced generation never *)
(* fall, a row it neither drains nor bumps stays put, and a result that is *)
(* not ahead of the row leaves the row consistent and catches it up only   *)
(* if no value flowed into it                                              *)
RowMoves(v, row, p, hit, moved) ==
    /\ v.gen >= row.gen /\ v.synced >= row.synced /\ v.frozen = row.frozen
    /\ ~moved => v.gen = row.gen
    /\ ~hit => v.synced = row.synced /\ v.status = row.status
    /\ row.fail <= row.gen /\ row.synced <= row.gen /\ p.gen <= row.gen
         => v.fail <= v.gen /\ v.synced <= v.gen
    /\ row.synced < row.gen /\ v.synced >= v.gen => hit /\ p.kind = "ok" /\ p.gen >= v.gen
    /\ p.gen <= row.gen /\ p.gen >= v.gen => ~moved /\ p.gen = row.gen

\* A batch that makes RowAfter of a row moves it the way RowMoves says.
LEMMA RowStep ==
    ASSUME NEW v \in Row, NEW row \in Row, NEW p \in Result, NEW hit, NEW moved,
           RowAfter(v, row, p, hit, moved)
    PROVE  RowMoves(v, row, p, hit, moved)
  BY SMTT(30) DEF RowMoves, RowAfter, Larger, Row, Result

\* Order facts about generations, stated once.
LEMMA Order ==
    ASSUME NEW x \in Nat, NEW y \in Nat, NEW z \in Nat
    PROVE  /\ x <= y /\ z >= y => x <= z
           /\ x > 0 /\ y >= x => y > 0
           /\ x > 0 /\ x <= y => y > 0
           /\ x >= z /\ y >= x => y >= z
           /\ x <= y /\ z >= y /\ x = z => x = y
           /\ 0 <= x /\ ~(0 > 0) /\ (x = 0 \/ x > 0)
  BY SMT

(* A row that lags has been asked for.                                     *)
LEMMA LaggingRow ==
    ASSUME NEW R, NEW r, R[r] \in Row, Lagging(R, r)
    PROVE  R[r].gen > 0
  BY SMTT(30) DEF Lagging, Row

(* A row that was asked for, and did not lag even after it was bumped, has *)
(* synced something.                                                       *)
LEMMA UpToDateRow ==
    ASSUME NEW R, NEW r, R[r] \in Row, ~Lagging(R, r),
           NEW row \in Row, R[r].synced = row.synced, R[r].gen >= row.gen, row.gen > 0
    PROVE  row.synced > 0
  BY SMTT(30) DEF Lagging, Row

\* The resource rows a drain sees once its results are applied and the heads of its
\* edges bumped.
LEMMA ViewRow ==
    ASSUME TypeOK, NEW S, NEW edges
    PROVE  /\ View(S, edges) \in [Resources -> Row]
           /\ \A r \in Resources : RowAfter(View(S, edges)[r], rows[r], outbox[r],
                                            r \in S, r \in Heads(edges))
  <1> DEFINE pat == Patched(edges)
  <1>1. rows \in [Resources -> Row] /\ outbox \in [Resources -> Result]
    BY DEF TypeOK
  <1>2. /\ pat \in [Resources -> Row]
        /\ \A r \in Resources :
             /\ pat[r].gen = rows[r].gen + (IF r \in Heads(edges) THEN 1 ELSE 0)
             /\ pat[r].synced = rows[r].synced /\ pat[r].fail = rows[r].fail
             /\ pat[r].frozen = rows[r].frozen /\ pat[r].status = rows[r].status
    BY SMTT(30), <1>1, BumpedRow DEF Patched
  <1>3. View(S, edges) = [r \in Resources |-> IF r \in S THEN Applied(pat[r], outbox[r]) ELSE pat[r]]
    BY DEF View
  <1> HIDE DEF pat
  <1>4. \A r \in Resources : pat[r] \in Row /\ outbox[r] \in Result
    BY <1>1, <1>2
  <1>5. \A r \in Resources : RowAfter(Applied(pat[r], outbox[r]), rows[r], outbox[r],
                                      TRUE, r \in Heads(edges))
    BY SMTT(30), <1>2, <1>4, AppliedRow DEF RowAfter
  <1>6. \A r \in Resources : RowAfter(pat[r], rows[r], outbox[r], FALSE, r \in Heads(edges))
    BY <1>2 DEF RowAfter
  <1>7. View(S, edges) \in [Resources -> Row]
    BY <1>3, <1>4, AppliedRow
  <1>8. \A r \in Resources : View(S, edges)[r] = IF r \in S THEN Applied(pat[r], outbox[r]) ELSE pat[r]
    BY <1>3
  <1> QED
    BY SMTT(30), <1>5, <1>6, <1>7, <1>8 DEF RowAfter

QueueRow == [gen : Nat, claimed : BOOLEAN]

\* The queue rows after schedule_eligible: only an eligible resource with a newer
\* generation gets a task.
LEMMA ScheduledRow ==
    ASSUME NEW w \in [Resources -> Row], NEW q \in [Resources -> QueueRow], NEW ids
    PROVE  /\ Scheduled(w, q, ids) \in [Resources -> QueueRow]
           /\ \A r \in Resources :
                \/ Scheduled(w, q, ids)[r] = q[r] /\ r \notin schedule_eligible(w, q, ids)
                \/ /\ r \in ids /\ Eligible(w, r) /\ q[r].gen < w[r].gen
                   /\ Scheduled(w, q, ids)[r] = Task(w[r].gen)
  BY DEF Scheduled, schedule_eligible, Task, QueueRow, Row

\* A kid that is eligible has upstreams that all reported.
LEMMA EligibleReported ==
    ASSUME TypeOK, GenInv, FlowInv, NEW w \in [Resources -> Row], NEW d \in Kids,
           \A c \in Kids : w[c].gen = rows[c].gen /\ w[c].synced = rows[c].synced,
           Eligible(w, d)
    PROVE  w[d].gen > 0 /\ Reported(d)
  <1>1. w[d] \in Row /\ Lagging(w, d) /\ \A u \in Upstreams(d) : ~Lagging(w, u)
    BY Members DEF Eligible
  <1>2. w[d].gen > 0
    BY SMTT(30), <1>1 DEF Lagging, Row
  <1>3. ASSUME NEW u \in Upstreams(d) PROVE rows[u].status # 0
    <2>1. u \in Kids /\ rows[u] \in Row
      BY UpstreamsOf, Members DEF TypeOK
    <2>2. rows[u].gen > 0 /\ rows[u].synced >= rows[u].gen
      BY SMTT(30), <1>1, <1>2, <1>3, <2>1 DEF GenInv, Lagging, Row
    <2> QED
      BY SMTT(30), <2>1, <2>2 DEF FlowInv, Row
  <1> QED
    BY <1>2, <1>3 DEF Reported

----------------------------------------------------------------------------
(* Claims, rechecks, requeues and resyncs only move work_queue rows.       *)

QueueStep ==
    /\ UNCHANGED <<rootKind, rows, input, outbox, tx, want, excused>>
    /\ toSchedule' \subseteq Kids /\ faults' \in Nat
    /\ recheck' \in BOOLEAN /\ consumed' \in BOOLEAN
    /\ composed' = composed \/ (composed' = 0 /\ rootKind.recomposes)
    /\ queue' \in [Resources -> QueueRow]
    /\ \A r \in Resources :
         /\ \/ queue'[r].gen = queue[r].gen
            \/ queue'[r].gen = rows[r].gen /\ (r \in Kids => Reported(r))
         /\ queue'[r].claimed => queue'[r].gen > 0
    /\ Remembered => Remembered'
    /\ consumed => consumed' \/ Remembered'

QueueMoves ==
    /\ queue' \in [Resources -> QueueRow]
    /\ \A r \in Resources :
         /\ \/ queue'[r].gen = queue[r].gen
            \/ queue'[r].gen = rows[r].gen /\ (r \in Kids => Reported(r))
         /\ queue'[r].claimed => queue'[r].gen > 0
    /\ queue[Root].gen > 0 => queue'[Root].gen > 0
    /\ queue'[Root] # queue[Root] => queue'[Root].gen > 0

\* Scheduling moves queue rows only as QueueMoves allows.
LEMMA ScheduleSteps ==
    ASSUME TypeOK, GenInv, FlowInv, NEW ids \in SUBSET Resources,
           queue' = Scheduled(rows, queue, ids)
    PROVE  QueueMoves
  <1>1. rows \in [Resources -> Row] /\ queue \in [Resources -> QueueRow]
    BY DEF TypeOK, QueueRow
  <1>2. queue' \in [Resources -> QueueRow]
    BY <1>1, ScheduledRow
  <1>3. ASSUME NEW r \in Resources
        PROVE  \/ queue'[r] = queue[r]
               \/ /\ r \in ids /\ Eligible(rows, r)
                  /\ queue'[r] = Task(rows[r].gen)
    BY SMTT(30), <1>1, ScheduledRow
  <1>4. ASSUME NEW r \in Resources, Eligible(rows, r)
        PROVE  rows[r].gen > 0 /\ (r \in Kids => Reported(r))
    <2>1. rows[r].gen > 0
      BY SMTT(30), <1>1, <1>4 DEF Eligible, Lagging, Row
    <2> QED
      BY <1>1, <1>4, <2>1, EligibleReported
  <1>5. \A r \in Resources : queue'[r].claimed => queue'[r].gen > 0
    <2>1. \A r \in Resources : queue[r].claimed => queue[r].gen > 0
      BY DEF GenInv
    <2>2. \A r \in Resources : Task(rows[r].gen).claimed = FALSE
      BY DEF Task
    <2> QED
      BY <1>3, <2>1, <2>2
  <1> QED
    BY SMTT(30), <1>2, <1>3, <1>4, <1>5, Members DEF Task, QueueMoves

\* A claim, a requeue, a resync and the rechecks leave the rows, the inputs and the
\* results alone, and queue a kid only when its upstreams have reported.
LEMMA QueueSteps ==
    ASSUME Inv,
           \/ \E r \in Resources : Claim(r) \/ Requeue(r) \/ Resync(r)
           \/ RollupRecheck
           \/ \E b \in Bands : ScheduleRecheck(b)
    PROVE  QueueStep
  <1>t. /\ TypeOK /\ GenInv /\ FlowInv /\ CoverInv
        /\ rows \in [Resources -> Row] /\ queue \in [Resources -> QueueRow]
        /\ toSchedule \subseteq Kids /\ faults \in Nat
        /\ recheck \in BOOLEAN /\ consumed \in BOOLEAN
    BY DEF Inv, TypeOK, QueueRow
  <1>c. NotConsumedIfQueued => consumed' = (consumed /\ queue'[Root] = queue[Root]) /\ consumed' \in BOOLEAN
    BY DEF NotConsumedIfQueued
  <1>1. ASSUME NEW r \in Resources, Claim(r) PROVE QueueStep
    <2>1. queue[r].gen > 0 /\ queue' = [queue EXCEPT ![r].claimed = TRUE]
      BY <1>1 DEF Claim
    <2>2. queue' \in [Resources -> QueueRow] /\ \A x \in Resources : queue'[x].gen = queue[x].gen
      BY <1>t, <2>1 DEF QueueRow
    <2>3. \A x \in Resources : queue'[x].claimed => queue'[x].gen > 0
      BY <1>t, <2>1, <2>2 DEF QueueRow, GenInv
    <2> QED
      BY <1>t, <1>1, <2>2, <2>3, Members DEF Claim, QueueStep, Remembered, observers
  <1>2. ASSUME NEW r \in Resources, Requeue(r) PROVE QueueStep
    <2>1. queue' = Scheduled(rows, queue, {r}) /\ NotConsumedIfQueued
      BY <1>2 DEF Requeue
    <2>2. {r} \in SUBSET Resources
      OBVIOUS
    <2>3. QueueMoves
      BY <1>t, <2>1, <2>2, ScheduleSteps
    <2> QED
      BY <1>t, <1>c, <1>2, <2>1, <2>3 DEF Requeue, QueueStep, QueueMoves, Remembered
  <1>3. ASSUME NEW r \in Resources, Resync(r) PROVE QueueStep
    <2>1. /\ queue' = [queue EXCEPT ![r] = Task(rows[r].gen)] /\ NotConsumedIfQueued
          /\ rows[r].gen > 0 /\ rows[r].synced >= rows[r].gen /\ faults' = faults + 1
          /\ composed' = IF r = Root /\ rootKind.recomposes THEN 0 ELSE composed
      BY SMTT(30), <1>t, <1>3 DEF Resync, Lagging, Fault, Row
    <2>2. queue' \in [Resources -> QueueRow] /\ \A x \in Resources : queue'[x] = IF x = r THEN Task(rows[r].gen) ELSE queue[x]
      BY <1>t, <2>1 DEF QueueRow, Task, Row
    <2>3. r \in Kids => Reported(r)
      BY SMTT(30), <1>t, <2>1 DEF FlowInv, Row
    <2>4. \A x \in Resources : queue'[x].claimed => queue'[x].gen > 0
      BY <1>t, <2>1, <2>2 DEF Task, GenInv
    <2>5. queue'[Root].gen > 0 \/ queue'[Root] = queue[Root]
      BY <2>1, <2>2, Members DEF Task
    <2>6. \A x \in Resources : queue'[x].gen = queue[x].gen
                               \/ (queue'[x].gen = rows[x].gen /\ (x \in Kids => Reported(x)))
      BY SMTT(30), <2>2, <2>3 DEF Task
    <2> QED
      BY SMTT(30), <1>t, <1>c, <1>3, <2>1, <2>2, <2>4, <2>5, <2>6 DEF Resync, QueueStep, Remembered
  <1>4. ASSUME RollupRecheck PROVE QueueStep
    <2>1. queue' = Scheduled(rows, queue, {Root}) /\ NotConsumedIfQueued /\ recheck' = (queue'[Root].gen = 0)
      BY <1>4 DEF RollupRecheck
    <2>2. {Root} \in SUBSET Resources
      BY Members
    <2>3. QueueMoves
      BY <1>t, <2>1, <2>2, ScheduleSteps
    <2>4. queue'[Root].gen \in Nat
      BY <2>3, Members DEF QueueMoves, QueueRow
    <2>5. queue'[Root].gen > 0 \/ queue'[Root].gen = 0
      BY SMTT(30), <2>4
    <2>6. Remembered'
      BY <2>1, <2>5, Zenon DEF Remembered
    <2>7. recheck' \in BOOLEAN
      BY <2>1, Zenon
    <2> QED
      BY <1>t, <1>c, <1>4, <2>3, <2>6, <2>7 DEF RollupRecheck, QueueStep, QueueMoves
  <1>5. ASSUME NEW b \in Bands, ScheduleRecheck(b) PROVE QueueStep
    <2> DEFINE ids == {c \in toSchedule : BandOf[c] = b}
    <2>1. queue' = Scheduled(rows, queue, ids) /\ toSchedule' = toSchedule \ ids
      BY <1>5 DEF ScheduleRecheck
    <2>2. ids \subseteq Resources
      BY <1>t, Members
    <2> HIDE DEF ids
    <2>3. QueueMoves
      BY <1>t, <2>1, <2>2, ScheduleSteps
    <2> QED
      BY <1>t, <1>5, <2>1, <2>3 DEF ScheduleRecheck, QueueStep, QueueMoves, Remembered, observers
  <1> QED
    BY <1>1, <1>2, <1>3, <1>4, <1>5

\* What a drain will settle does not depend on the queue.
LEMMA SameSettling ==
    ASSUME rows' = rows, outbox' = outbox, tx' = tx, NEW b \in Bands, NEW c \in Kids
    PROVE  WillSettle(b, c)' = WillSettle(b, c)
  BY DEF WillSettle, Lagging, Heads

\* A step of the queue keeps the invariant.
LEMMA QueueKeeps ==
    ASSUME Inv, QueueStep
    PROVE  Inv'
  <1>t. /\ TypeOK /\ rows \in [Resources -> Row] /\ queue \in [Resources -> QueueRow]
        /\ queue' \in [Resources -> QueueRow] /\ composed \in Nat
    BY DEF Inv, TypeOK, QueueStep, QueueRow
  <1>s. rows' = rows /\ outbox' = outbox /\ tx' = tx /\ want' = want /\ excused' = excused
        /\ input' = input /\ rootKind' = rootKind
    BY DEF QueueStep
  <1>1. TypeOK'
    BY SMTT(30), <1>t, <1>s DEF TypeOK, QueueStep, Deps, QueueRow, Tx
  <1>2. GenInv'
    <2>1. \A r \in Resources : queue'[r].gen <= rows[r].gen
      BY SMTT(30), <1>t DEF Inv, GenInv, QueueStep, Row, QueueRow
    <2>2. \A r \in Resources : queue'[r].claimed => queue'[r].gen > 0
      BY DEF QueueStep
    <2> QED
      BY <1>s, <2>1, <2>2 DEF Inv, GenInv
  <1>3. TxInv'
    BY <1>s DEF Inv, TxInv, Locked, Heads
  <1>4. RollInv'
    <2>1. composed' = composed \/ rootKind.recomposes
      BY DEF QueueStep
    <2> QED
      BY <1>s, <2>1 DEF Inv, RollInv, ChildDone, Failed, RollupAfterChildren
  <1>5. CoverInv'
    <2>1. \A b \in Bands : Inserted(b)' = Inserted(b) /\ \A c \in Kids : WillSettle(b, c)' = WillSettle(b, c)
      BY <1>s, SameSettling DEF Inserted
    <2>2. Remembered => Remembered'
      BY DEF QueueStep
    <2>3. consumed => consumed' \/ Remembered'
      BY DEF QueueStep
    <2> QED
      BY <1>s, <2>1, <2>2, <2>3 DEF Inv, CoverInv
  <1>6. FlowInv'
    <2>1. \A c \in Kids : queue'[c].gen > 0 \/ outbox[c].kind # "none" \/ rows[c].synced > 0 => Reported(c)
      <3> SUFFICES ASSUME NEW c \in Kids,
                          queue'[c].gen > 0 \/ outbox[c].kind # "none" \/ rows[c].synced > 0
                   PROVE  Reported(c)
        OBVIOUS
      <3>1. queue'[c].gen = queue[c].gen \/ Reported(c)
        BY Members DEF QueueStep
      <3> QED
        BY <3>1 DEF Inv, FlowInv
    <2>2. \A c \in Kids : Reported(c)' = Reported(c) /\ Upstreams(c)' = Upstreams(c)
      BY <1>s DEF Reported, Upstreams, Deps
    <2>3. \A b \in Bands : \A d \in Inserted(b)' : d \in Inserted(b) /\ Upstreams(d)' = Upstreams(d)
      BY <1>s DEF Inserted, Upstreams, Deps
    <2>4. Unedited' => Unedited /\ composed' = composed
      BY <1>s DEF Unedited, QueueStep
    <2> QED
      BY <1>s, <2>1, <2>2, <2>3, <2>4 DEF Inv, FlowInv, Deps
  <1> QED
    BY <1>1, <1>2, <1>3, <1>4, <1>5, <1>6 DEF Inv

----------------------------------------------------------------------------
(* Executions only report results.                                         *)

ReportStep(r, p) ==
    /\ UNCHANGED <<rootKind, rows, input, composed, queue, recheck, toSchedule, tx,
                   observers>>
    /\ faults' \in Nat
    /\ queue[r].claimed /\ outbox[r] = NoResult
    /\ outbox' = [outbox EXCEPT ![r] = p]
    /\ p.gen = queue[r].gen /\ p.kind # "none"
    /\ p.kind = "ok" => IF r = Root
                        THEN DescendantsSettled(rows) /\ composed >= queue[Root].gen
                        ELSE p.status # 0

\* A worker's result and a rollup are appended to the outbox.
LEMMA ReportSteps ==
    ASSUME TypeOK, Rollup \/ \E c \in Kids : Work(c) \/ WorkDrifts(c)
    PROVE  \E r \in Resources : \E p \in Result : ReportStep(r, p)
  <1>t. /\ rows \in [Resources -> Row] /\ faults \in Nat
        /\ \A r \in Resources : queue[r].gen \in Nat
    BY DEF TypeOK
  <1> DEFINE P(r, k, h, s) == [gen |-> queue[r].gen, kind |-> k, health |-> h, status |-> s]
  <1>f. FailedKinds \subseteq {"fail", "park"}
    BY DEF FailedKinds
  <1>p. \A r \in Resources : \A k \in {"ok", "wait", "fail", "park"} : \A h \in BOOLEAN : \A s \in Nat :
           /\ P(r, k, h, s) \in Result /\ P(r, k, h, s).gen = queue[r].gen
           /\ P(r, k, h, s).kind = k /\ P(r, k, h, s).status = s
           /\ Report(r, k, h, s) => outbox' = [outbox EXCEPT ![r] = P(r, k, h, s)]
    BY SMTT(30), <1>t DEF Result, Report
  <1> HIDE DEF P
  <1>1. CASE Rollup
    <2>0. faults' = faults \/ Fault
      BY <1>1, Zenon DEF Rollup
    <2>1. faults' \in Nat
      BY SMTT(30), <1>t, <2>0 DEF Fault
    <2>2. (\A c \in Kids : rows[c].frozen \/ Ready(rows, c)) \in BOOLEAN
      OBVIOUS
    <2>3. \E k \in {"ok", "wait", "fail", "park"} : \E h \in BOOLEAN :
             Report(Root, k, h, 0) /\ (k = "ok" => DescendantsSettled(rows))
      BY <1>1, <1>f, <2>2 DEF Rollup
    <2>4. PICK k \in {"ok", "wait", "fail", "park"}, h \in BOOLEAN :
             Report(Root, k, h, 0) /\ (k = "ok" => DescendantsSettled(rows))
      BY <2>3
    <2> DEFINE p == P(Root, k, h, 0)
    <2>5. /\ p \in Result /\ p.gen = queue[Root].gen /\ p.kind = k
          /\ outbox' = [outbox EXCEPT ![Root] = p]
      BY SMT, <1>p, <2>4, Members
    <2> HIDE DEF p
    <2>6. k # "none" /\ (k = "ok" => DescendantsSettled(rows))
      BY <2>4
    <2>7. /\ queue[Root].claimed /\ outbox[Root] = NoResult /\ composed >= queue[Root].gen
          /\ UNCHANGED <<rootKind, rows, input, composed, queue, recheck, toSchedule, tx,
                         observers>>
      BY <1>1 DEF Rollup
    <2>8. ReportStep(Root, p)
      BY <2>1, <2>5, <2>6, <2>7 DEF ReportStep
    <2> QED
      BY <2>5, <2>8, Members
  <1>2. ASSUME NEW c \in Kids, Work(c) \/ WorkDrifts(c) PROVE \E p \in Result : ReportStep(c, p)
    <2>0. /\ faults' = faults \/ Fault
          /\ queue[c].claimed /\ outbox[c] = NoResult
          /\ UNCHANGED <<rootKind, rows, input, composed, queue, recheck, toSchedule, tx,
                         observers>>
      <3>1. CASE Work(c)
        BY <3>1 DEF Work
      <3>2. CASE WorkDrifts(c)
        BY <3>2, Zenon DEF WorkDrifts
      <3> QED
        BY <1>2, <3>1, <3>2
    <2>1. faults' \in Nat
      BY SMTT(30), <1>t, <2>0 DEF Fault
    <2>2. rows[c].status \in Nat
      BY <1>t, Members DEF Row
    <2>3. \E k \in {"ok", "wait", "fail", "park"} : \E h \in BOOLEAN : \E s \in Nat :
             Report(c, k, h, s) /\ (k = "ok" => s # 0)
      <3>1. CASE Work(c)
        <4> DEFINE s == IF rows[c].status = 0 THEN 1 ELSE rows[c].status
        <4>1. s \in Nat /\ s # 0
          BY SMTT(30), <2>2
        <4>2. Report(c, "ok", TRUE, s)
          BY <3>1 DEF Work
        <4> HIDE DEF s
        <4> QED
          BY <4>1, <4>2
      <3>2. CASE WorkDrifts(c)
        <4>1. 0 \in Nat /\ \A s \in {1, 2} : s \in Nat /\ s # 0
          BY SMTT(30)
        <4>2. \A k \in FailedKinds : k \in {"ok", "wait", "fail", "park"} /\ k # "ok"
          BY <1>f
        <4>3. \/ \E h \in BOOLEAN, s \in {1, 2} : Report(c, "ok", h, s)
              \/ \E k \in FailedKinds : Report(c, k, TRUE, 0)
          BY <3>2 DEF WorkDrifts
        <4> QED
          BY <4>1, <4>2, <4>3, Zenon
      <3> QED
        BY <1>2, <3>1, <3>2
    <2>4. PICK k \in {"ok", "wait", "fail", "park"}, h \in BOOLEAN, s \in Nat :
             Report(c, k, h, s) /\ (k = "ok" => s # 0)
      BY <2>3
    <2> DEFINE p == P(c, k, h, s)
    <2>5. /\ p \in Result /\ p.gen = queue[c].gen /\ p.kind = k /\ p.status = s
          /\ outbox' = [outbox EXCEPT ![c] = p]
      BY SMT, <1>p, <2>4, Members
    <2> HIDE DEF p
    <2>6. k # "none" /\ (k = "ok" => s # 0) /\ c # Root
      BY <2>4, Members
    <2>7. ReportStep(c, p)
      BY <2>0, <2>1, <2>5, <2>6 DEF ReportStep
    <2> QED
      BY <2>5, <2>7, Members
  <1> QED
    BY <1>1, <1>2, Members

(* a settled subtree that a rollup finds has done what was asked of it     *)
LEMMA SettledIsDone ==
    ASSUME Inv, DescendantsSettled(rows), NEW c \in Kids
    PROVE  ChildDone(c)
  <1>1. rows[c] \in Row /\ want[c] \in Nat /\ want[c] <= rows[c].gen
    BY Members DEF Inv, TypeOK, GenInv
  <1>2. CASE ~Lagging(rows, c)
    BY SMTT(30), <1>1, <1>2 DEF Lagging, ChildDone, Row
  <1>3. CASE Lagging(rows, c)
    <2>1. rows[c].gen > 0 /\ (Failed(rows, c) \/ rows[c].frozen)
      BY SMTT(30), <1>1, <1>3 DEF Lagging, DescendantsSettled, Row
    <2> QED
      BY <2>1 DEF Inv, RollInv, ChildDone
  <1> QED
    BY <1>2, <1>3

\* A result appended to the outbox keeps the invariant.
LEMMA ReportKeeps ==
    ASSUME Inv, NEW r \in Resources, NEW p \in Result, ReportStep(r, p)
    PROVE  Inv'
  <1>t. /\ TypeOK /\ rows \in [Resources -> Row] /\ queue \in [Resources -> QueueRow]
        /\ outbox \in [Resources -> Result] /\ composed \in Nat
    BY DEF Inv, TypeOK, QueueRow
  <1>s. /\ rows' = rows /\ queue' = queue /\ tx' = tx /\ want' = want /\ excused' = excused
        /\ input' = input /\ rootKind' = rootKind /\ composed' = composed /\ recheck' = recheck
        /\ toSchedule' = toSchedule /\ consumed' = consumed /\ faults' \in Nat
    BY DEF ReportStep, observers
  <1>o. /\ outbox' \in [Resources -> Result] /\ outbox'[r] = p
        /\ \A x \in Resources : x # r => outbox'[x] = outbox[x]
        /\ outbox[r] = NoResult
        /\ p.gen = queue[r].gen /\ p.kind # "none" /\ queue[r].claimed
    BY <1>t DEF ReportStep
  <1>g. queue[r].gen > 0 /\ queue[r].gen <= rows[r].gen
    BY <1>o DEF Inv, GenInv
  <1>b. \A b \in Bands : r \notin tx[b].batch /\ tx[b].batch \subseteq Resources /\ tx[b].flowed \subseteq Deps
    BY <1>o DEF Inv, TxInv, TypeOK, Tx
  <1>1. TypeOK'
    BY <1>s, <1>o DEF Inv, TypeOK, Deps, Tx
  <1>2. GenInv'
    <2>1. \A x \in Resources : /\ outbox'[x].gen <= rows[x].gen
                               /\ outbox'[x] # NoResult => outbox'[x].kind # "none" /\ outbox'[x].gen > 0
      BY <1>o, <1>g DEF Inv, GenInv
    <2> QED
      BY <1>s, <2>1 DEF Inv, GenInv
  <1>3. TxInv'
    <2>1. \A b \in Bands : \A x \in tx[b].batch : outbox'[x] = outbox[x]
      BY <1>o, <1>b
    <2>2. \A b \in Bands : Locked(b)' = Locked(b)
      BY <1>s DEF Locked, Heads
    <2> QED
      BY SMTT(30), <1>s, <2>1, <2>2 DEF Inv, TxInv
  <1>4. RollInv'
    <2>1. outbox'[Root].kind = "ok" => \A c \in Kids : ChildDone(c)
      BY <1>o, SettledIsDone, Members DEF Inv, RollInv, ReportStep
    <2>2. ~rootKind.recomposes /\ outbox'[Root].kind = "ok" => outbox'[Root].gen <= composed
      <3>1. CASE r = Root
        BY <1>t, <1>o, <3>1 DEF ReportStep, QueueRow
      <3>2. CASE r # Root
        BY <1>o, <3>2, Members DEF Inv, RollInv
      <3> QED
        BY <3>1, <3>2
    <2> QED
      BY <1>s, <2>1, <2>2 DEF Inv, RollInv, ChildDone, Failed, RollupAfterChildren
  <1>5. CoverInv'
    <2>1. ASSUME NEW b \in Bands, NEW c \in Kids, WillSettle(b, c)' PROVE WillSettle(b, c)
      <3>1. c \in tx[b].batch /\ outbox'[c] = outbox[c]
        BY <1>s, <1>o, <1>b, <2>1, Members DEF WillSettle
      <3> QED
        BY <1>s, <2>1, <3>1 DEF WillSettle, Lagging, Heads
    <2>2. Remembered' = Remembered /\ \A b \in Bands : Inserted(b)' = Inserted(b)
      BY <1>s DEF Remembered, Inserted
    <2> QED
      BY <1>s, <2>1, <2>2 DEF Inv, CoverInv
  <1>6. FlowInv'
    <2>1. \A c \in Kids : outbox'[c].kind = "ok" => outbox'[c].status # 0
      BY SMTT(30), <1>o, Members DEF Inv, FlowInv, ReportStep
    <2>2. \A c \in Kids : queue[c].gen > 0 \/ outbox'[c].kind # "none" \/ rows[c].synced > 0 => Reported(c)
      BY <1>o, <1>g, Members DEF Inv, FlowInv
    <2>3. \A d : Reported(d)' = Reported(d) /\ Upstreams(d)' = Upstreams(d)
      BY <1>s DEF Reported, Upstreams, Deps
    <2>4. \A b \in Bands : Inserted(b)' = Inserted(b) /\ \A x \in tx[b].batch : outbox'[x] = outbox[x]
      BY <1>s, <1>o, <1>b DEF Inserted
    <2>5. Unedited' = Unedited /\ Deps' = Deps
      BY <1>s DEF Unedited, Deps
    <2> QED
      BY SMTT(30), <1>s, <2>1, <2>2, <2>3, <2>4, <2>5 DEF Inv, FlowInv
  <1> QED
    BY <1>1, <1>2, <1>3, <1>4, <1>5, <1>6 DEF Inv

----------------------------------------------------------------------------
(* A quarantine and its release touch one child.                           *)

FreezeStep(c) ==
    /\ UNCHANGED <<rootKind, input, composed, outbox, recheck, toSchedule, tx, want,
                   consumed>>
    /\ faults' \in Nat
    /\ rows' \in [Resources -> Row]
    /\ \A r \in Resources :
         /\ rows'[r].gen = rows[r].gen /\ rows'[r].synced = rows[r].synced
         /\ rows'[r].fail = rows[r].fail /\ rows'[r].status = rows[r].status
         /\ r # c => rows'[r].frozen = rows[r].frozen
    /\ excused \subseteq excused' /\ excused' \subseteq Kids
    /\ rows'[c].frozen => c \in excused'
    /\ queue' \in [Resources -> QueueRow]
    /\ \A r \in Resources : \/ queue'[r] = queue[r]
                            \/ r = c /\ queue'[r] = NoTask
                            \/ r = c /\ queue'[r] = Task(rows[r].gen) /\ Reported(r)

\* Quarantine and its end leave generations, statuses and results alone.
LEMMA FreezeSteps ==
    ASSUME Inv, NEW c \in Kids, Quarantine(c) \/ Unquarantine(c)
    PROVE  FreezeStep(c)
  <1>t. /\ TypeOK /\ GenInv /\ FlowInv /\ RollInv /\ c \in Resources /\ faults \in Nat
        /\ rows \in [Resources -> Row] /\ queue \in [Resources -> QueueRow] /\ excused \subseteq Kids
    BY Members DEF Inv, TypeOK, QueueRow
  <1>1. ASSUME NEW v \in BOOLEAN, rows' = [rows EXCEPT ![c].frozen = v]
        PROVE  /\ rows' \in [Resources -> Row] /\ rows'[c].frozen = v
               /\ \A r \in Resources :
                    /\ rows'[r].gen = rows[r].gen /\ rows'[r].synced = rows[r].synced
                    /\ rows'[r].fail = rows[r].fail /\ rows'[r].status = rows[r].status
                    /\ r # c => rows'[r].frozen = rows[r].frozen
    BY <1>t, <1>1 DEF Row
  <1>2. CASE Quarantine(c)
    <2>1. queue' \in [Resources -> QueueRow]
          /\ \A r \in Resources : queue'[r] = queue[r] \/ (r = c /\ queue'[r] = NoTask)
      BY <1>t, <1>2 DEF Quarantine, QueueRow, NoTask
    <2>2. faults' \in Nat /\ excused' = excused \cup {c}
      BY SMTT(30), <1>t, <1>2 DEF Quarantine, Fault
    <2>3. rows' = [rows EXCEPT ![c].frozen = TRUE]
      BY <1>2 DEF Quarantine
    <2> QED
      BY <1>t, <1>1, <1>2, <2>1, <2>2, <2>3 DEF Quarantine, FreezeStep
  <1>3. CASE Unquarantine(c)
    <2>1. rows' = [rows EXCEPT ![c].frozen = FALSE] /\ queue' = Scheduled(rows', queue, {c})
      BY <1>3 DEF Unquarantine
    <2>2. /\ rows' \in [Resources -> Row] /\ rows'[c].frozen = FALSE
          /\ \A r \in Resources : rows'[r].gen = rows[r].gen /\ rows'[r].synced = rows[r].synced
      BY <1>1, <2>1
    <2>3. PICK w \in [Resources -> Row] : w = rows'
      BY <2>2
    <2>4. Eligible(w, c) => Reported(c)
      BY <1>t, <2>2, <2>3, EligibleReported, Members
    <2>5. /\ queue' \in [Resources -> QueueRow]
          /\ \A r \in Resources : \/ queue'[r] = queue[r]
                                  \/ r = c /\ queue'[r] = Task(w[r].gen) /\ Eligible(w, r)
      <3>1. queue' = Scheduled(w, queue, {c})
        BY <2>1, <2>3
      <3> QED
        BY SMTT(30), <1>t, <3>1, ScheduledRow
    <2>6. faults' \in Nat /\ excused' = excused
      BY <1>t, <1>3 DEF Unquarantine, observers
    <2>7. \A r \in Resources : \/ queue'[r] = queue[r]
                               \/ r = c /\ queue'[r] = Task(rows[r].gen) /\ Reported(r)
      BY <2>2, <2>3, <2>4, <2>5
    <2> QED
      BY <1>t, <1>1, <1>3, <2>1, <2>2, <2>5, <2>6, <2>7 DEF Unquarantine, FreezeStep, observers
  <1> QED
    BY <1>2, <1>3

\* Freezing or thawing a kid keeps the invariant.
LEMMA FreezeKeeps ==
    ASSUME Inv, NEW c \in Kids, FreezeStep(c)
    PROVE  Inv'
  <1>t. /\ TypeOK /\ rows \in [Resources -> Row] /\ queue \in [Resources -> QueueRow]
        /\ want \in [Kids -> Nat] /\ c \in Resources /\ c # Root
    BY Members DEF Inv, TypeOK, QueueRow
  <1>s. /\ outbox' = outbox /\ tx' = tx /\ want' = want /\ consumed' = consumed
        /\ input' = input /\ rootKind' = rootKind /\ composed' = composed /\ recheck' = recheck
        /\ toSchedule' = toSchedule /\ faults' \in Nat
        /\ excused \subseteq excused' /\ excused' \subseteq Kids
    BY DEF FreezeStep
  <1>r. /\ rows' \in [Resources -> Row]
        /\ \A r \in Resources :
             /\ rows'[r].gen = rows[r].gen /\ rows'[r].synced = rows[r].synced
             /\ rows'[r].fail = rows[r].fail /\ rows'[r].status = rows[r].status
             /\ r # c => rows'[r].frozen = rows[r].frozen
        /\ rows'[c].frozen => c \in excused'
    BY DEF FreezeStep
  <1>q. queue' \in [Resources -> QueueRow] /\ queue'[Root] = queue[Root]
    BY <1>t, Members DEF FreezeStep
  <1>1. TypeOK'
    <2>1. queue' \in [Resources -> [gen : Nat, claimed : BOOLEAN]]
      BY <1>q DEF QueueRow
    <2>2. rows' \in [Resources -> Row]
      BY <1>r
    <2> QED
      BY <1>s, <2>1, <2>2 DEF Inv, TypeOK, Deps, Tx
  <1>2. GenInv'
    <2>1. \A r \in Resources : queue'[r].gen <= rows'[r].gen /\ (queue'[r].claimed => queue'[r].gen > 0)
      BY SMTT(30), <1>t, <1>r DEF Inv, GenInv, FreezeStep, NoTask, Task, Row, QueueRow
    <2> QED
      BY <1>t, <1>s, <1>r, <2>1, Members DEF Inv, GenInv
  <1>3. TxInv'
    <2>1. \A b \in Bands : Locked(b)' = Locked(b)
      BY <1>s DEF Locked, Heads
    <2>2. rows'[Root].gen = rows[Root].gen
      BY <1>r, Members
    <2> QED
      BY SMTT(30), <1>s, <2>1, <2>2 DEF Inv, TxInv
  <1>4. RollInv'
    <2>1. \A d \in Kids : rows'[d].frozen \/ (rows'[d].gen > 0 /\ Failed(rows', d)) => d \in excused'
      BY <1>s, <1>r, Members DEF Inv, RollInv, Failed
    <2>2. \A d \in Kids : ChildDone(d) => ChildDone(d)'
      BY <1>s, <1>r, Members DEF ChildDone
    <2> QED
      BY <1>s, <1>r, <2>1, <2>2, Members DEF Inv, RollInv, RollupAfterChildren, ChildDone
  <1>5. CoverInv'
    <2>1. \A b \in Bands : \A d \in Kids : WillSettle(b, d)' => WillSettle(b, d)
      BY <1>s, <1>r, Members DEF WillSettle, Lagging, Heads
    <2>2. Remembered' = Remembered /\ \A b \in Bands : Inserted(b)' = Inserted(b)
      BY <1>s, <1>q DEF Remembered, Inserted
    <2> QED
      BY <1>s, <1>r, <2>1, <2>2, Members DEF Inv, CoverInv
  <1>6. FlowInv'
    <2>1. \A d : Upstreams(d)' = Upstreams(d) /\ Upstreams(d) \subseteq Kids
      BY <1>s DEF Upstreams, Deps
    <2>2. \A d : Reported(d)' = Reported(d)
      BY <1>r, <2>1, Members DEF Reported
    <2>3. \A d \in Kids : queue'[d].gen > 0 \/ outbox[d].kind # "none" \/ rows[d].synced > 0 => Reported(d)
      BY SMTT(30), Members DEF Inv, FlowInv, FreezeStep, NoTask
    <2>4. \A b \in Bands : Inserted(b)' = Inserted(b)
      BY <1>s DEF Inserted
    <2>5. Unedited' = Unedited /\ Deps' = Deps /\ \A e \in Deps : e[2] \in Resources
      BY <1>t, <1>s, <1>r, Edges, Members DEF Unedited, Deps
    <2>6. \A d \in Kids : /\ d \in Resources /\ rows'[d].synced = rows[d].synced
                          /\ rows'[d].gen = rows[d].gen /\ rows'[d].status = rows[d].status
      BY <1>r, Members
    <2>7. \A d \in Kids : /\ outbox[d].kind = "ok" => outbox[d].status # 0
                          /\ rows'[d].synced > 0 => rows'[d].status # 0
      BY <2>6 DEF Inv, FlowInv
    <2>8. \A b \in Bands : \A d \in Inserted(b)' : \A u \in Upstreams(d)' :
             rows'[u].status # 0 \/ (u \in tx[b].batch /\ outbox[u].kind = "ok")
      BY <2>1, <2>4, <2>6 DEF Inv, FlowInv
    <2>9. ASSUME Unedited
          PROVE  /\ composed = 0 => /\ \A d \in Kids : rows'[d].gen = 0 /\ rows'[d].status = 0
                                    /\ \A e \in Deps : input[e] = 0
                 /\ \A e \in Deps : input[e] = rows'[e[2]].status \/ e[1] \in excused'
                 /\ \A b \in Bands : \A e \in Deps :
                      e[2] \in tx[b].batch /\ outbox[e[2]].kind = "ok" /\ e \notin tx[b].flowed
                        => \/ outbox[e[2]].status = rows'[e[2]].status
                           \/ outbox[e[2]].status = input[e]
                           \/ e[1] \in excused'
      <3>1. \A e \in Deps : rows'[e[2]].status = rows[e[2]].status
        BY <1>r, <2>5
      <3> QED
        BY <1>s, <2>6, <2>9, <3>1 DEF Inv, FlowInv
    <2> QED
      BY ZenonT(40), <1>s, <2>2, <2>3, <2>5, <2>6, <2>7, <2>8, <2>9 DEF FlowInv
  <1> QED
    BY <1>1, <1>2, <1>3, <1>4, <1>5, <1>6 DEF Inv

----------------------------------------------------------------------------
(* A spec edit moves the root one generation on and schedules it if its    *)
(* subtree is settled.  The first one finds no subtree at all.             *)

\* A new spec of the root keeps the invariant.
LEMMA ApplyKeeps ==
    ASSUME Inv, ApplySpec
    PROVE  Inv'
  <1>t. /\ TypeOK /\ GenInv /\ rows \in [Resources -> Row] /\ queue \in [Resources -> QueueRow]
        /\ want \in [Kids -> Nat] /\ faults \in Nat /\ consumed \in BOOLEAN
    BY Members DEF Inv, TypeOK, QueueRow
  <1>s. /\ outbox' = outbox /\ tx' = tx /\ want' = want /\ excused' = excused
        /\ input' = input /\ rootKind' = rootKind /\ composed' = composed /\ recheck' = recheck
        /\ toSchedule' = toSchedule
        /\ consumed' = (consumed /\ queue'[Root] = queue[Root])
    BY DEF ApplySpec, NotConsumedIfQueued
  <1>r. /\ rows' \in [Resources -> Row] /\ rows'[Root].gen = rows[Root].gen + 1
        /\ \A r \in Resources :
             /\ r # Root => rows'[r] = rows[r]
             /\ rows'[r].synced = rows[r].synced /\ rows'[r].fail = rows[r].fail
             /\ rows'[r].status = rows[r].status /\ rows'[r].frozen = rows[r].frozen
    BY SMTT(30), <1>t, Members DEF ApplySpec, Row
  <1>q. /\ queue' \in [Resources -> QueueRow]
        /\ \A c \in Kids : queue'[c] = queue[c]
        /\ \/ queue'[Root] = queue[Root] /\ Root \notin schedule_eligible(rows', queue, {Root})
           \/ queue'[Root] = Task(rows[Root].gen + 1)
    <2>1. PICK w \in [Resources -> Row] : w = rows'
      BY <1>r
    <2>2. queue' = Scheduled(w, queue, {Root})
      BY <2>1 DEF ApplySpec
    <2>3. /\ queue' \in [Resources -> QueueRow]
          /\ \A r \in Resources :
                \/ queue'[r] = queue[r] /\ r \notin schedule_eligible(w, queue, {Root})
                \/ r \in {Root} /\ queue'[r] = Task(w[r].gen)
      BY SMTT(30), <1>t, <2>2, ScheduledRow
    <2> QED
      BY <1>r, <2>1, <2>3, Members
  <1>f. faults' \in Nat
    BY SMTT(30), <1>t DEF ApplySpec, Fault
  <1>k. \A c \in Kids : rows'[c] = rows[c] /\ queue'[c] = queue[c] /\ c \in Resources
    BY <1>r, <1>q, Members
  <1>1. TypeOK'
    <2>1. queue' \in [Resources -> [gen : Nat, claimed : BOOLEAN]]
      BY <1>q DEF QueueRow
    <2>2. rows' \in [Resources -> Row] /\ consumed' \in BOOLEAN
      BY <1>r, <1>s
    <2> QED
      BY <1>s, <1>f, <2>1, <2>2 DEF Inv, TypeOK, Deps, Tx
  <1>2. GenInv'
    <2>1. \A r \in Resources : rows[r].gen \in Nat /\ rows'[r].gen \in Nat /\ rows'[r].gen >= rows[r].gen
                               /\ queue[r].gen \in Nat /\ outbox[r].gen \in Nat
      BY SMTT(30), <1>t, <1>r DEF Row, QueueRow, TypeOK, Result
    <2>2. \A r \in Resources : queue'[r].gen <= rows'[r].gen /\ (queue'[r].claimed => queue'[r].gen > 0)
      BY SMTT(30), <1>t, <1>r, <1>q, <2>1, Members DEF GenInv, Task
    <2>3. \A r \in Resources : /\ rows'[r].fail <= rows'[r].gen /\ rows'[r].synced <= rows'[r].gen
                               /\ outbox[r].gen <= rows'[r].gen
      BY SMTT(30), <1>t, <1>r, <2>1 DEF GenInv, Row
    <2> QED
      BY SMTT(30), <1>t, <1>s, <1>r, <1>k, <2>1, <2>2, <2>3, Members DEF GenInv
  <1>3. TxInv'
    <2>1. \A b \in Bands : Locked(b)' = Locked(b) /\ \A p \in tx[b].put : p[2] \in Nat
      BY SMTT(30), <1>s DEF Inv, TypeOK, Tx, Locked, Heads
    <2> QED
      BY SMTT(30), <1>t, <1>s, <1>r, <2>1, Members DEF Inv, TxInv, Row
  <1>4. RollInv'
    BY <1>s, <1>r, <1>k, Members DEF Inv, RollInv, ChildDone, Failed, RollupAfterChildren
  <1>5. CoverInv'
    <2>1. \A b \in Bands : \A d \in Kids : WillSettle(b, d)' => WillSettle(b, d)
      BY <1>s, <1>k DEF WillSettle, Lagging, Heads
    <2>2. queue'[Root] = queue[Root] \/ queue'[Root].gen > 0
      BY SMTT(30), <1>t, <1>q, Members DEF Task, Row
    <2>3. Remembered => Remembered'
      BY <1>s, <2>2 DEF Remembered
    <2>4. consumed => consumed' \/ Remembered'
      BY <1>s, <2>2 DEF Remembered
    <2>5. rows[Root].gen = 0 => Remembered'
      <3> SUFFICES ASSUME rows[Root].gen = 0 PROVE queue'[Root].gen > 0
        BY DEF Remembered
      <3>1. /\ rows'[Root].gen = 1 /\ rows'[Root].synced = 0 /\ rows'[Root].fail = 0 /\ queue[Root].gen = 0
            /\ ~rows'[Root].frozen
        BY SMTT(30), <1>t, <1>r, Members DEF GenInv, Row, QueueRow
      <3>2. \A c \in Kids : rows'[c].synced = 0 /\ rows'[c].gen = 0
        BY SMTT(30), <1>t, <1>k DEF GenInv, Row
      <3>3. DescendantsSettled(rows')
        BY SMTT(30), <3>2 DEF DescendantsSettled, Lagging
      <3>4. Upstreams(Root)' = {}
        BY <1>t, <1>s, UpstreamsOf, Members DEF Upstreams, Deps
      <3>5. Root \in schedule_eligible(rows', queue, {Root})
        BY SMTT(30), <3>1, <3>3, UpstreamsOf, Members, <1>t DEF schedule_eligible, Eligible, Lagging, Failed
      <3> QED
        BY SMTT(30), <1>q, <3>1, <3>5 DEF Task
    <2>6. rows[Root].gen > 0 \/ rows[Root].gen = 0
      BY SMTT(30), <1>t, Members DEF Row
    <2> QED
      BY <1>s, <2>1, <2>3, <2>4, <2>5, <2>6 DEF Inv, CoverInv, Inserted
  <1>6. FlowInv'
    <2>1. \A d : Upstreams(d)' = Upstreams(d) /\ Upstreams(d) \subseteq Kids
      BY <1>s DEF Upstreams, Deps
    <2>2. \A d : Reported(d)' = Reported(d)
      BY <1>k, <2>1 DEF Reported
    <2>3. \A b \in Bands : Inserted(b)' = Inserted(b)
      BY <1>s DEF Inserted
    <2>4. (Unedited' => Unedited) /\ Deps' = Deps /\ \A e \in Deps : e[2] \in Kids
      BY SMTT(30), <1>t, <1>s, <1>r, Edges, Members DEF Unedited, Deps, Row
    <2> QED
      BY ZenonT(40), <1>s, <1>k, <2>1, <2>2, <2>3, <2>4 DEF Inv, FlowInv
  <1> QED
    BY <1>1, <1>2, <1>3, <1>4, <1>5, <1>6 DEF Inv

----------------------------------------------------------------------------
(* A compose moves the children on while none of them is in an open batch. *)

\* A composition that changes some kids keeps the invariant.
LEMMA ComposeKeeps ==
    ASSUME Inv, NEW changed \in SUBSET Kids, Compose(changed)
    PROVE  Inv'
  <1> DEFINE E == Emitted(changed)
             U == EmittedInput(changed)
             F == Bootstrapped(E, U)
  <1>t. /\ TypeOK /\ GenInv /\ rows \in [Resources -> Row] /\ input \in [Deps -> Nat] /\ composed \in Nat
        /\ queue[Root].gen \in Nat /\ toSchedule \subseteq Kids
    BY Members DEF Inv, TypeOK
  <1>s. /\ queue' = queue /\ outbox' = outbox /\ tx' = tx /\ rootKind' = rootKind /\ recheck' = recheck
        /\ consumed' = consumed /\ faults' = faults
    BY DEF Compose
  <1>c. /\ queue[Root].claimed /\ outbox[Root] = NoResult /\ composed < queue[Root].gen
        /\ changed \subseteq Kids \ Uncomposed
        /\ \A c \in Kids : Free(c)
        /\ rows' = Bumped(E, Heads(F))
        /\ input' = [e \in Deps |-> IF e \in F THEN E[e[2]].status ELSE U[e]]
        /\ toSchedule' = toSchedule \cup Uncomposed \cup changed \cup Heads(Deps)
        /\ composed' = queue[Root].gen
        /\ want' = [c \in Kids |-> rows'[c].gen]
        /\ excused' = {c \in Kids : rows'[c].frozen \/ Failed(rows', c)}
    BY DEF Compose
  <1>e. /\ E \in [Resources -> Row]
        /\ \A r \in Resources :
             /\ E[r].gen = rows[r].gen + (IF r \in Uncomposed \cup changed THEN 1 ELSE 0)
             /\ E[r].synced = rows[r].synced /\ E[r].fail = rows[r].fail
             /\ E[r].frozen = rows[r].frozen /\ E[r].status = rows[r].status
             /\ r \notin Uncomposed \cup changed => E[r] = rows[r]
    BY SMTT(30), <1>t, BumpedRow DEF Emitted
  <1>u. U \in [Deps -> Nat] /\ \A e \in Deps : e[1] \notin changed => U[e] = input[e]
    BY <1>t DEF EmittedInput
  <1>f. /\ F \subseteq Deps /\ Heads(F) \subseteq Kids /\ Heads(Deps) \subseteq Kids
        /\ \A e \in F : E[e[2]].status # 0
    BY <1>t, Edges DEF Bootstrapped, Heads
  <1> HIDE DEF E, U, F
  <1>b. /\ rows' \in [Resources -> Row]
        /\ \A r \in Resources :
             /\ rows'[r].gen = E[r].gen + (IF r \in Heads(F) THEN 1 ELSE 0)
             /\ rows'[r].synced = E[r].synced /\ rows'[r].fail = E[r].fail
             /\ rows'[r].frozen = E[r].frozen /\ rows'[r].status = E[r].status
             /\ r \notin Heads(F) => rows'[r] = E[r]
    BY SMTT(30), <1>c, <1>e, BumpedRow
  <1>r. /\ rows'[Root] = rows[Root]
        /\ \A c \in Kids :
             /\ rows[c].gen \in Nat /\ rows'[c].gen \in Nat
             /\ rows'[c].gen >= rows[c].gen /\ rows'[c].gen > 0
             /\ rows'[c].synced = rows[c].synced /\ rows'[c].fail = rows[c].fail
             /\ rows'[c].frozen = rows[c].frozen /\ rows'[c].status = rows[c].status
    <2>1. rows'[Root] = rows[Root]
      BY <1>b, <1>e, <1>f, Members DEF Uncomposed
    <2>2. ASSUME NEW c \in Kids
          PROVE  /\ rows[c].gen \in Nat /\ rows'[c].gen \in Nat
                 /\ rows'[c].gen >= rows[c].gen /\ rows'[c].gen > 0
      <3>1. rows[c].gen \in Nat /\ c \in Resources
        BY <1>t, Members DEF Row
      <3> QED
        BY SMTT(30), <1>b, <1>e, <3>1 DEF Uncomposed
    <2> QED
      BY <1>b, <1>e, <2>1, <2>2, Members
  <1>k. \A b \in Bands : \A c \in Kids : c \notin tx[b].batch
    BY <1>c DEF Free, Locked
  <1>g. queue[Root].gen > 0 /\ queue[Root].gen <= rows[Root].gen
    BY <1>t, <1>c, Members DEF GenInv
  <1>1. TypeOK'
    <2>1. input' \in [Deps' -> Nat]
      <3>1. \A e \in Deps : E[e[2]].status \in Nat
        BY <1>t, <1>e, Edges, Members DEF Row
      <3> QED
        BY <1>s, <1>c, <1>u, <3>1 DEF Deps
    <2>2. toSchedule' \subseteq Kids
      BY <1>t, <1>c, <1>f DEF Uncomposed
    <2>3. want' \in [Kids -> Nat] /\ excused' \subseteq Kids /\ composed' \in Nat
      BY <1>t, <1>c, <1>r
    <2>4. rows' \in [Resources -> Row]
      BY <1>b
    <2> QED
      BY <1>s, <2>1, <2>2, <2>3, <2>4 DEF Inv, TypeOK, Deps, Tx
  <1>2. GenInv'
    <2>1. \A c \in Kids : want'[c] = rows'[c].gen
      BY <1>c
    <2>2. \A r \in Resources :
             /\ rows'[r].fail <= rows'[r].gen /\ rows'[r].synced <= rows'[r].gen
             /\ queue[r].gen <= rows'[r].gen /\ outbox[r].gen <= rows'[r].gen
      <3>1. \A r \in Resources : /\ rows[r].fail \in Nat /\ rows[r].synced \in Nat /\ queue[r].gen \in Nat
                                 /\ outbox[r].gen \in Nat
        BY <1>t DEF TypeOK, Row, Result
      <3> QED
        BY SMTT(30), <1>t, <1>r, <3>1, Members DEF GenInv
    <2>3. rows[Root].gen > 0 /\ \A c \in Kids : want'[c] <= rows'[c].gen
      BY SMTT(30), <1>t, <1>r, <1>g, <2>1, Members DEF Row
    <2>4. \A r \in Resources :
             /\ queue[r].claimed => queue[r].gen > 0
             /\ outbox[r] # NoResult => outbox[r].kind # "none" /\ outbox[r].gen > 0
      BY <1>t DEF GenInv
    <2>5. ~rows[Root].frozen
      BY <1>t DEF GenInv
    <2> QED
      BY <1>s, <1>r, <2>2, <2>3, <2>4, <2>5 DEF GenInv
  <1>3. TxInv'
    <2>1. \A b \in Bands : Locked(b)' = Locked(b)
      BY <1>s DEF Locked, Heads
    <2> QED
      BY <1>s, <1>r, <2>1 DEF Inv, TxInv
  <1>4. RollInv'
    <2>1. \A c \in Kids : rows'[c].frozen \/ (rows'[c].gen > 0 /\ Failed(rows', c)) => c \in excused'
      BY <1>c
    <2>2. outbox'[Root].kind # "ok"
      <3>1. outbox'[Root] = NoResult
        BY <1>s, <1>c, Zenon
      <3>2. NoResult.kind # "ok"
        BY SMT DEF NoResult
      <3> QED
        BY <3>1, <3>2, Zenon
    <2>3. ~rootKind.recomposes => rows[Root].synced < composed'
      BY SMTT(30), <1>t, <1>c, Members DEF Inv, RollInv, Row
    <2>4. rows[Root].synced \in Nat /\ composed' \in Nat
      BY <1>t, <1>c, Members DEF Row
    <2> QED
      <3>1. rows'[Root].synced = rows[Root].synced /\ rootKind'.recomposes = rootKind.recomposes
        BY <1>s, <1>r
      <3>2. ~rootKind.recomposes => rows[Root].synced <= composed' /\ ~(rows[Root].synced >= composed')
        BY SMT, <2>3, <2>4
      <3> QED
        BY <1>s, <2>1, <2>2, <3>1, <3>2 DEF RollInv, RollupAfterChildren
  <1>5. CoverInv'
    <2>1. \A b \in Bands : \A c \in Kids : ~WillSettle(b, c)'
      BY <1>s, <1>k DEF WillSettle
    <2> QED
      BY <1>s, <1>r, <2>1 DEF Inv, CoverInv, Remembered
  <1>6. FlowInv'
    <2>1. \A d : Upstreams(d)' = Upstreams(d) /\ Upstreams(d) \subseteq Kids
      BY <1>s DEF Upstreams, Deps
    <2>2. \A d : Reported(d)' = Reported(d)
      BY <1>r, <2>1 DEF Reported
    <2>3. \A b \in Bands : Inserted(b)' = Inserted(b)
      BY <1>s DEF Inserted
    <2>4. Deps' = Deps /\ composed' # 0 /\ \A e \in Deps : e[1] \in Kids /\ e[2] \in Kids
      BY SMTT(30), <1>t, <1>s, <1>c, <1>g, Edges DEF Deps
    <2>5. Unedited' => \A e \in Deps : input'[e] = rows'[e[2]].status
      <3> SUFFICES ASSUME Unedited', NEW e \in Deps PROVE input'[e] = rows'[e[2]].status
        OBVIOUS
      <3>0. Unedited
        BY <1>s, <1>r DEF Unedited
      <3>a. rows[Root].gen <= 1
        BY <3>0 DEF Unedited
      <3>b. composed = 0
        <4>1. composed \in Nat /\ queue[Root].gen \in Nat /\ composed < queue[Root].gen
          BY <1>t, <1>c
        <4>2. rows[Root].gen \in Nat
          BY <1>t, Members DEF Row
        <4> QED
          BY SMTT(30), <1>g, <3>a, <4>1, <4>2
      <3>1. Unedited /\ composed = 0
        BY <3>0, <3>b
      <3>2. (\A c \in Kids : rows[c].gen = 0 /\ rows[c].status = 0) /\ \A d \in Deps : input[d] = 0
        BY <3>1 DEF Inv, FlowInv
      <3>3. changed = {}
        BY <1>c, <3>2 DEF Uncomposed
      <3>4. e \notin F
        BY SMTT(30), <1>e, <1>f, <2>4, <3>2, Members
      <3> QED
        <4>1. input'[e] = U[e] /\ U[e] = input[e] /\ input[e] = 0
          BY <1>c, <1>u, <3>2, <3>3, <3>4
        <4>2. rows'[e[2]].status = 0
          BY <1>r, <2>4, <3>2
        <4> QED
          BY <4>1, <4>2
    <2>6. \A b \in Bands : \A e \in Deps : e[2] \notin tx[b].batch
      BY <1>k, <2>4
    <2>7. \A c \in Kids : rows'[c].synced = rows[c].synced /\ rows'[c].status = rows[c].status
      BY <1>r
    <2>8. \A c \in Kids : /\ outbox[c].kind = "ok" => outbox[c].status # 0
                          /\ rows'[c].synced > 0 => rows'[c].status # 0
                          /\ queue[c].gen > 0 \/ outbox[c].kind # "none" \/ rows'[c].synced > 0
                               => Reported(c)
      BY <2>7 DEF Inv, FlowInv
    <2>9. \A b \in Bands : \A d \in Inserted(b)' : \A u \in Upstreams(d)' :
             rows'[u].status # 0 \/ (u \in tx[b].batch /\ outbox[u].kind = "ok")
      BY <2>1, <2>3, <2>7 DEF Inv, FlowInv
    <2> QED
      BY <1>s, <2>2, <2>4, <2>5, <2>6, <2>8, <2>9 DEF FlowInv
  <1> QED
    BY <1>1, <1>2, <1>3, <1>4, <1>5, <1>6 DEF Inv

----------------------------------------------------------------------------
(* A batch begins: its gates read the committed rows and its own writes.   *)

\* A drain that reads its batch keeps the invariant.
LEMMA BeginKeeps ==
    ASSUME Inv, NEW b \in Bands, NEW S \in SUBSET Resources, DrainBegin(b, S)
    PROVE  Inv'
  <1> DEFINE edges == Flowed(S)
             old == Patched(edges)
             new == View(S, edges)
             q == Unqueued(S)
             up == Upgraded(old, new)
             cand == {d \in Kids : Upstreams(d) \cap up # {}}
                     \cup (IF up \cap Kids # {} THEN {Root} ELSE {})
             sched == schedule_eligible(new, q, cand)
             rep == Repend(new, q, sched, up, Demoted(old, new))
             put == sched \cup (IF rep THEN {Root} ELSE {})
             puts == {<<r, new[r].gen>> : r \in put}
             arm == Arm(new, q, sched, up)
             seen == q[Root].gen > 0
             rec == [batch |-> S, flowed |-> edges, put |-> puts, arm |-> arm, seen |-> seen]
  <1>t. /\ TypeOK /\ GenInv /\ TxInv /\ rows \in [Resources -> Row] /\ outbox \in [Resources -> Result]
        /\ tx \in [Bands -> Tx]
    BY DEF Inv, TypeOK
  <1>s. /\ rows' = rows /\ queue' = queue /\ outbox' = outbox /\ want' = want /\ excused' = excused
        /\ input' = input /\ rootKind' = rootKind /\ composed' = composed /\ recheck' = recheck
        /\ toSchedule' = toSchedule /\ consumed' = consumed /\ faults' = faults
    BY DEF DrainBegin, observers
  <1>d. /\ S # {} /\ \A r \in S : outbox[r] # NoResult /\ BandOf[r] = b
        /\ \A o \in Bands : (S \cup Heads(edges)) \cap Locked(o) = {}
        /\ tx' = [tx EXCEPT ![b] = rec]
    BY DEF DrainBegin
  <1>e. /\ edges \subseteq Deps
        /\ \A e \in edges : e[2] \in S /\ outbox[e[2]].kind = "ok" /\ rows[e[1]].gen > 0
        /\ Heads(edges) \subseteq Kids /\ Root \notin Heads(edges)
        /\ \A d \in Heads(edges) : rows[d].gen > 0
    BY <1>t, Edges, Members DEF Flowed, Heads
  <1>o. /\ old \in [Resources -> Row]
        /\ \A r \in Resources :
             /\ old[r].gen = rows[r].gen + (IF r \in Heads(edges) THEN 1 ELSE 0)
             /\ old[r].synced = rows[r].synced
    BY SMTT(30), <1>t, BumpedRow DEF Patched
  <1>n. /\ new \in [Resources -> Row]
        /\ \A r \in Resources : RowAfter(new[r], rows[r], outbox[r], r \in S, r \in Heads(edges))
    BY <1>t, ViewRow
  <1>q. /\ q[Root].gen \in Nat
        /\ q[Root].gen > 0 \/ q[Root].gen = 0
    BY SMTT(30), <1>t, Members DEF Unqueued, NoTask, TypeOK
  <1>p. /\ cand \subseteq Resources
        /\ sched \subseteq cand
        /\ \A r \in sched : Eligible(new, r)
    BY Members DEF schedule_eligible
  <1>a. arm = (up \cap Kids # {} /\ Lagging(new, Root) /\ ~new[Root].frozen
                /\ q[Root].gen = 0 /\ Root \notin sched /\ ~recheck)
    BY DEF Arm
  <1>v. up \cap Kids # {} /\ ~Lagging(new, Root) /\ ~new[Root].frozen /\ q[Root].gen = 0 /\ Root \notin sched
          => rep
    BY DEF Repend
  <1>l. up = {r \in Resources : Lagging(old, r) /\ ~Lagging(new, r)}
    BY DEF Upgraded
  <1>fl. \A e \in Deps : e \in edges <=> /\ e[2] \in S /\ outbox[e[2]].kind = "ok"
                                        /\ outbox[e[2]].status # rows[e[2]].status
                                        /\ input[e] # outbox[e[2]].status
                                        /\ rows[e[1]].gen > 0 /\ ~rows[e[1]].frozen
    BY DEF Flowed
  <1>b. arm \in BOOLEAN /\ seen \in BOOLEAN
    BY SMTT(30) DEF Arm
  <1> HIDE DEF edges, old, new, q, up, cand, sched, rep, arm, seen
  <1>pr. put \subseteq Resources /\ put \subseteq sched \cup {Root}
    BY <1>p, Members
  <1>x. /\ tx' \in [Bands -> Tx] /\ tx'[b] = rec /\ \A o \in Bands : o # b => tx'[o] = tx[o]
    <2>1. puts \subseteq Resources \X Nat
      BY SMTT(30), <1>n, <1>pr DEF Row
    <2> HIDE DEF puts
    <2>2. rec \in Tx
      BY <1>e, <1>b, <2>1 DEF Tx
    <2> HIDE DEF rec
    <2> QED
      BY <1>t, <1>d, <2>2
  <1>y. /\ tx'[b].batch = S /\ tx'[b].flowed = edges /\ tx'[b].put = puts /\ tx'[b].arm = arm
        /\ tx'[b].seen = seen
    BY SMTT(30), <1>x
  <1>i. Inserted(b)' = put
    <2> HIDE DEF put, rec
    <2>1. \A p \in puts : p[1] \in put
      BY SMTT(30)
    <2>2. \A r \in put : \E p \in puts : p[1] = r
      <3> TAKE r \in put
      <3>1. <<r, new[r].gen>> \in puts /\ <<r, new[r].gen>>[1] = r
        OBVIOUS
      <3> QED
        BY <3>1
    <2> HIDE DEF puts
    <2>3. Inserted(b)' = {p[1] : p \in puts}
      BY <1>y DEF Inserted
    <2> QED
      BY <2>1, <2>2, <2>3
  <1> HIDE DEF rec, put
  <1>k. rows[Root].gen > 0
    <2>1. PICK r \in S : outbox[r] # NoResult
      BY <1>d
    <2>2. r \in Resources /\ outbox[r].gen > 0 /\ outbox[r].gen <= rows[r].gen
      BY <1>t, <2>1 DEF GenInv
    <2>3. rows[r].gen > 0
      BY SMTT(30), <1>t, <2>2 DEF Row, Result
    <2> QED
      BY <1>t, <2>2, <2>3, Members DEF GenInv
  <1>1. TypeOK'
    BY <1>s, <1>x DEF Inv, TypeOK, Deps, Tx
  <1>2. GenInv'
    BY <1>s DEF Inv, GenInv
  <1>3. TxInv'
    <2>1. \A o \in Bands : \A r \in tx'[o].batch : outbox[r] # NoResult /\ BandOf[r] = o
      BY <1>t, <1>d, <1>x, <1>y DEF TxInv
    <2>2. \A o \in Bands : \A e \in tx'[o].flowed : e[2] \in tx'[o].batch /\ outbox[e[2]].kind = "ok"
      BY <1>t, <1>e, <1>x, <1>y DEF TxInv
    <2>3. \A o \in Bands : \A p \in tx'[o].put : p[1] = Root => p[2] > 0 /\ p[2] <= rows[Root].gen
      <3>1. new[Root].gen = rows[Root].gen
        BY SMTT(30), <1>t, <1>e, <1>n, Members DEF RowAfter, Row
      <3>2. \A p \in puts : p[1] = Root => p[2] = new[Root].gen
        BY SMTT(30)
      <3> HIDE DEF puts
      <3>3. \A p \in tx'[b].put : p[1] = Root => p[2] > 0 /\ p[2] <= rows[Root].gen
        BY SMTT(30), <1>t, <1>k, <1>y, <3>1, <3>2, Members DEF Row
      <3> QED
        BY <1>t, <1>x, <3>3 DEF TxInv
    <2>4. Locked(b)' = S \cup Heads(edges) /\ \A o \in Bands : o # b => Locked(o)' = Locked(o)
      BY <1>x, <1>y DEF Locked, Heads
    <2>5. \A o \in Bands : o # b => Locked(b)' \cap Locked(o)' = {}
      BY <1>d, <2>4
    <2>6. \A o, n \in Bands : o # n => Locked(o)' \cap Locked(n)' = {}
      <3>1. \A o, n \in Bands : o # n => Locked(o) \cap Locked(n) = {}
        BY <1>t DEF TxInv
      <3>2. ASSUME NEW o \in Bands, NEW n \in Bands, o # n PROVE Locked(o)' \cap Locked(n)' = {}
        BY <2>4, <2>5, <3>1, <3>2
      <3> QED
        BY <3>2
    <2> QED
      BY <1>s, <2>1, <2>2, <2>3, <2>6 DEF TxInv
  <1>4. RollInv'
    BY <1>s DEF Inv, RollInv, ChildDone, Failed, RollupAfterChildren
  <1>5. CoverInv'
    <2>1. ASSUME NEW c \in Kids, WillSettle(b, c)'
          PROVE  Root \in Inserted(b)' \/ tx'[b].arm \/ tx'[b].seen \/ Remembered
      <3>1. /\ c \in Resources /\ c \in S /\ c \notin Heads(edges) /\ Lagging(rows, c)
            /\ outbox[c].kind = "ok" /\ outbox[c].gen = rows[c].gen
        BY <1>s, <1>y, <2>1, Members DEF WillSettle, Lagging, Heads
      <3>2. Lagging(old, c)
        BY SMTT(30), <1>t, <1>o, <3>1 DEF Lagging, Row
      <3>3. ~Lagging(new, c)
        BY SMTT(30), <1>t, <1>n, <3>1 DEF Lagging, Row, RowAfter, Larger
      <3>4. up \cap Kids # {}
        BY <1>l, <3>1, <3>2, <3>3
      <3>5. ~new[Root].frozen
        BY <1>t, <1>n, Members DEF RowAfter, GenInv
      <3>6. Root \in put \/ (Root \notin sched /\ ~rep)
        BY DEF put
      <3> QED
        BY <1>q, <1>a, <1>v, <1>y, <1>i, <3>4, <3>5, <3>6, Zenon DEF Remembered, seen
    <2>2. \A o \in Bands : o # b => /\ Inserted(o)' = Inserted(o)
                                    /\ \A c \in Kids : WillSettle(o, c)' = WillSettle(o, c)
      BY <1>s, <1>x DEF Inserted, WillSettle, Lagging, Heads
    <2>3. Remembered' = Remembered
      BY <1>s DEF Remembered
    <2> QED
      BY <1>s, <1>x, <2>1, <2>2, <2>3 DEF Inv, CoverInv
  <1>6. FlowInv'
    <2>1. \A d : Upstreams(d)' = Upstreams(d) /\ Upstreams(d) \subseteq Kids
      BY <1>s DEF Upstreams, Deps
    <2>2. \A d : Reported(d)' = Reported(d)
      BY <1>s, <2>1 DEF Reported
    <2>3. \A d \in put : \A u \in Upstreams(d) : rows[u].status # 0 \/ (u \in S /\ outbox[u].kind = "ok")
      <3> SUFFICES ASSUME NEW d \in put, NEW u \in Upstreams(d), ~(u \in S /\ outbox[u].kind = "ok")
                   PROVE  rows[u].status # 0
        OBVIOUS
      <3>1. d \in Kids /\ u \in Kids /\ d \in sched
        BY <1>t, <1>pr, UpstreamsOf, Members DEF put
      <3>2. Lagging(new, d) /\ ~Lagging(new, u)
        BY <1>p, <3>1 DEF Eligible
      <3>3. rows[d] \in Row /\ rows[u] \in Row /\ new[d] \in Row /\ new[u] \in Row
        BY <1>t, <1>n, <3>1, Members
      <3>4. rows[d].gen > 0
        <4>1. CASE d \in Heads(edges)
          BY <1>e, <4>1
        <4>2. CASE d \notin Heads(edges)
          <5>1. new[d].gen = rows[d].gen
            <6>1. new[d].gen = rows[d].gen + 0 /\ rows[d].gen \in Nat
              BY <1>n, <3>1, <3>3, <4>2, Members DEF RowAfter, Row
            <6> QED
              BY SMT, <6>1
          <5>2. new[d].gen > 0
            BY <3>2, <3>3, LaggingRow
          <5> QED
            BY <5>1, <5>2
        <4> QED
          BY <4>1, <4>2
      <3>5. rows[u].gen > 0
        BY <1>t, <3>1, <3>4 DEF GenInv
      <3>6. new[u].synced = rows[u].synced /\ new[u].gen >= rows[u].gen
        BY SMTT(30), <1>n, <3>1, <3>3, Members DEF RowAfter, Row
      <3>7. rows[u].synced > 0
        BY <3>2, <3>3, <3>5, <3>6, UpToDateRow
      <3> QED
        BY <3>1, <3>7 DEF Inv, FlowInv
    <2>4. \A o \in Bands : \A d \in Inserted(o)' : \A u \in Upstreams(d) :
             rows[u].status # 0 \/ (u \in tx'[o].batch /\ outbox[u].kind = "ok")
      <3>1. \A o \in Bands : o # b => Inserted(o)' = Inserted(o)
        BY <1>x DEF Inserted
      <3>2. \A o \in Bands : \A d \in Inserted(o) : \A u \in Upstreams(d) :
              rows[u].status # 0 \/ (u \in tx[o].batch /\ outbox[u].kind = "ok")
        BY DEF Inv, FlowInv
      <3>3. \A o \in Bands : o # b => tx'[o] = tx[o]
        BY <1>x
      <3> QED
        BY <1>y, <1>i, <2>3, <3>1, <3>2, <3>3
    <2>5. Unedited' = Unedited /\ Deps' = Deps
      BY <1>s DEF Unedited, Deps
    <2>6. Unedited => \A e \in Deps :
             e[2] \in S /\ outbox[e[2]].kind = "ok" /\ e \notin edges
               => \/ outbox[e[2]].status = rows[e[2]].status
                  \/ outbox[e[2]].status = input[e]
                  \/ e[1] \in excused
      <3> SUFFICES ASSUME NEW e \in Deps, e[2] \in S, outbox[e[2]].kind = "ok", e \notin edges,
                          outbox[e[2]].status # rows[e[2]].status, outbox[e[2]].status # input[e]
                   PROVE  e[1] \in excused
        OBVIOUS
      <3>1. e[1] \in Kids /\ e[2] \in Kids
        BY <1>t, Edges
      <3>2. outbox[e[2]].gen > 0 /\ outbox[e[2]].gen <= rows[e[2]].gen
        BY <1>t, <1>d, <3>1, Members DEF GenInv
      <3>3. rows[e[2]].gen > 0
        BY SMTT(30), <1>t, <3>1, <3>2, Members DEF Row, Result
      <3>4. rows[e[1]].gen > 0
        BY <1>t, <3>1, <3>3 DEF GenInv
      <3>5. rows[e[1]].frozen
        BY <1>fl, <3>4
      <3> QED
        BY <3>1, <3>5 DEF Inv, RollInv
    <2>7. Unedited => \A o \in Bands : \A e \in Deps :
             e[2] \in tx'[o].batch /\ outbox[e[2]].kind = "ok" /\ e \notin tx'[o].flowed
               => \/ outbox[e[2]].status = rows[e[2]].status
                  \/ outbox[e[2]].status = input[e]
                  \/ e[1] \in excused
      <3>1. Unedited => \A o \in Bands : \A e \in Deps :
               e[2] \in tx[o].batch /\ outbox[e[2]].kind = "ok" /\ e \notin tx[o].flowed
                 => \/ outbox[e[2]].status = rows[e[2]].status
                    \/ outbox[e[2]].status = input[e]
                    \/ e[1] \in excused
        BY DEF Inv, FlowInv
      <3>2. \A o \in Bands : o # b => tx'[o] = tx[o]
        BY <1>x
      <3> QED
        BY <1>y, <2>6, <3>1, <3>2
    <2> QED
      BY <1>s, <2>1, <2>2, <2>4, <2>5, <2>7 DEF Inv, FlowInv
  <1> QED
    BY <1>1, <1>2, <1>3, <1>4, <1>5, <1>6 DEF Inv

----------------------------------------------------------------------------
(* A batch commits.  What it does to rows, queue and the other batches:    *)

CommitStep(b) ==
    LET S == tx[b].batch
        W == tx[b].flowed
    IN /\ UNCHANGED <<rootKind, composed, toSchedule, faults, want>>
       /\ rows' \in [Resources -> Row]
       /\ \A r \in Resources : RowAfter(rows'[r], rows[r], outbox[r], r \in S, r \in Heads(W))
       /\ input' = [e \in Deps |-> IF e \in W THEN outbox[e[2]].status ELSE input[e]]
       /\ queue' \in [Resources -> QueueRow]
       /\ \A r \in Resources :
            \/ queue'[r] = queue[r]
            \/ queue'[r] = NoTask /\ r \in S
            \/ r \in Inserted(b) /\ ~queue'[r].claimed
               /\ queue'[r].gen > 0 /\ queue'[r].gen <= rows'[r].gen
       /\ Root \in Inserted(b) => queue'[Root].gen > 0
       /\ outbox' = [r \in Resources |-> IF r \in S THEN NoResult ELSE outbox[r]]
       /\ recheck' = (recheck \/ tx[b].arm)
       /\ tx' \in [Bands -> Tx]
       /\ tx'[b] = NoTx
       /\ \A o \in Bands : o # b =>
            /\ tx'[o].batch = tx[o].batch /\ tx'[o].flowed = tx[o].flowed
            /\ tx'[o].put = {p \in tx[o].put : p[1] \notin Inserted(b)}
            /\ tx'[o].arm = (tx[o].arm /\ ~tx[b].arm)
            /\ tx'[o].seen = (tx[o].seen \/ (Open(o) /\ Root \in S))
       /\ excused' = excused \cup {c \in S \cap Kids : outbox[c].kind \in {"fail", "park"}}
       /\ consumed' \in BOOLEAN
       /\ queue'[Root].gen = 0 =>
            /\ Root \in S => consumed'
            /\ Upgraded(rows, rows') \cap Kids # {} /\ tx[b].seen => consumed'
            /\ Upgraded(rows, rows') \cap Kids = {} /\ consumed => consumed'

\* What a drain writes when it commits.
LEMMA CommitSteps ==
    ASSUME Inv, NEW b \in Bands, DrainCommit(b)
    PROVE  CommitStep(b)
  <1> DEFINE S == tx[b].batch
             W == tx[b].flowed
             q == Unqueued(S)
  <1>t. /\ TypeOK /\ GenInv /\ TxInv /\ rows \in [Resources -> Row] /\ outbox \in [Resources -> Result]
        /\ tx \in [Bands -> Tx] /\ queue \in [Resources -> QueueRow] /\ tx[b] \in Tx
        /\ consumed \in BOOLEAN /\ tx[b].seen \in BOOLEAN /\ tx[b].put \subseteq Resources \X Nat
    BY DEF Inv, TypeOK, QueueRow, Tx
  <1>1. /\ rows' \in [Resources -> Row]
        /\ \A r \in Resources : RowAfter(rows'[r], rows[r], outbox[r], r \in S, r \in Heads(W))
    BY <1>t, ViewRow DEF DrainCommit
  <1>2. /\ q \in [Resources -> QueueRow]
        /\ \A r \in Resources : q[r] = queue[r] \/ (q[r] = NoTask /\ r \in S)
    BY <1>t DEF Unqueued, QueueRow, NoTask
  <1>3. queue' = [r \in Resources |->
                      IF \E g \in 1..rows'[r].gen : <<r, g>> \in tx[b].put /\ q[r].gen < g
                      THEN Task(CHOOSE g \in 1..rows'[r].gen : <<r, g>> \in tx[b].put)
                      ELSE q[r]]
    BY DEF DrainCommit
  <1> HIDE DEF q
  <1>4. ASSUME NEW r \in Resources
        PROVE  /\ queue'[r] \in QueueRow
               /\ \/ queue'[r] = q[r] /\ \A g \in 1..rows'[r].gen : <<r, g>> \in tx[b].put => ~(q[r].gen < g)
                  \/ r \in Inserted(b) /\ ~queue'[r].claimed
                     /\ queue'[r].gen > 0 /\ queue'[r].gen <= rows'[r].gen
    <2>0. rows'[r].gen \in Nat
      BY <1>1 DEF Row
    <2>1. CASE \E g \in 1..rows'[r].gen : <<r, g>> \in tx[b].put /\ q[r].gen < g
      <3>1. PICK h \in 1..rows'[r].gen : /\ <<r, h>> \in tx[b].put
                                        /\ h = CHOOSE g \in 1..rows'[r].gen : <<r, g>> \in tx[b].put
        BY <2>1
      <3>2. queue'[r] = Task(h)
        BY <1>3, <2>1, <3>1
      <3>3. r \in Inserted(b)
        <4>1. <<r, h>>[1] = r
          OBVIOUS
        <4> QED
          BY <3>1, <4>1 DEF Inserted
      <3> QED
        BY SMTT(30), <2>0, <3>1, <3>2, <3>3 DEF Task, QueueRow
    <2>2. CASE ~\E g \in 1..rows'[r].gen : <<r, g>> \in tx[b].put /\ q[r].gen < g
      BY <1>2, <1>3, <2>2
    <2> QED
      BY <2>1, <2>2
  <1>5. queue' \in [Resources -> QueueRow]
    <2>1. queue' = [r \in Resources |-> queue'[r]]
      BY SMTT(30), <1>3
    <2> QED
      BY <1>4, <2>1
  <1>6. Root \in Inserted(b) => queue'[Root].gen > 0
    <2> SUFFICES ASSUME Root \in Inserted(b) PROVE queue'[Root].gen > 0
      OBVIOUS
    <2>1. PICK p \in tx[b].put : p[1] = Root
      BY DEF Inserted
    <2>2. p[2] \in Nat /\ p = <<Root, p[2]>> /\ p[2] > 0 /\ p[2] <= rows[Root].gen
      BY SMTT(30), <1>t, <2>1 DEF TxInv
    <2>3. rows'[Root].gen >= rows[Root].gen /\ rows'[Root].gen \in Nat /\ rows[Root].gen \in Nat
      BY SMTT(30), <1>t, <1>1, Members DEF RowAfter, Row
    <2>4. p[2] \in 1..rows'[Root].gen /\ <<Root, p[2]>> \in tx[b].put
      BY SMTT(30), <2>1, <2>2, <2>3
    <2>5. q[Root].gen \in Nat
      BY <1>2, Members DEF QueueRow
    <2> QED
      BY SMTT(30), <1>4, <2>2, <2>4, <2>5, Members
  <1>7. tx' = [o \in Bands |->
                   IF o = b THEN NoTx
                   ELSE [tx[o] EXCEPT
                           !.put = {p \in @ : p[1] \notin Inserted(b)},
                           !.arm = @ /\ ~tx[b].arm,
                           !.seen = @ \/ (Open(o) /\ Root \in S)]]
    BY DEF DrainCommit
  <1>8. ASSUME NEW o \in Bands, o # b
        PROVE  /\ tx'[o] \in Tx
               /\ tx'[o].batch = tx[o].batch /\ tx'[o].flowed = tx[o].flowed
               /\ tx'[o].put = {p \in tx[o].put : p[1] \notin Inserted(b)}
               /\ tx'[o].arm = (tx[o].arm /\ ~tx[b].arm)
               /\ tx'[o].seen = (tx[o].seen \/ (Open(o) /\ Root \in S))
    <2> DEFINE put == {p \in tx[o].put : p[1] \notin Inserted(b)}
               arm == tx[o].arm /\ ~tx[b].arm
               seen == tx[o].seen \/ (Open(o) /\ Root \in S)
    <2>1. tx[o] \in Tx /\ put \subseteq tx[o].put
      BY <1>t
    <2>2. arm \in BOOLEAN /\ seen \in BOOLEAN
      BY Zenon
    <2>3. tx'[o] = [tx[o] EXCEPT !.put = put, !.arm = arm, !.seen = seen]
      BY <1>7, <1>8
    <2> HIDE DEF put, arm, seen
    <2>4. tx'[o] = [batch |-> tx[o].batch, flowed |-> tx[o].flowed, put |-> put, arm |-> arm, seen |-> seen]
      BY <2>1, <2>3 DEF Tx
    <2>5. tx'[o] \in Tx
      BY SMTT(30), <2>1, <2>2, <2>4 DEF Tx
    <2> QED
      BY SMTT(30), <2>4, <2>5 DEF put, arm, seen
  <1>9. tx' \in [Bands -> Tx] /\ tx'[b] = NoTx
    <2>1. NoTx \in Tx
      BY DEF NoTx, Tx
    <2>2. tx' = [o \in Bands |-> tx'[o]] /\ tx'[b] = NoTx
      BY <1>7
    <2> QED
      BY <1>8, <2>1, <2>2
  <1>10. consumed' = IF queue'[Root].gen > 0 THEN FALSE
                     ELSE \/ Root \in S
                          \/ IF Upgraded(rows, rows') \cap Kids # {}
                             THEN tx[b].seen ELSE consumed
    BY DEF DrainCommit
  <1>11. queue'[Root].gen = 0 => ~(queue'[Root].gen > 0)
    BY SMTT(30)
  <1>12. /\ consumed' \in BOOLEAN
         /\ queue'[Root].gen = 0 =>
              /\ Root \in S => consumed'
              /\ Upgraded(rows, rows') \cap Kids # {} /\ tx[b].seen => consumed'
              /\ Upgraded(rows, rows') \cap Kids = {} /\ consumed => consumed'
    BY <1>t, <1>10, <1>11, Zenon
  <1>13. \A r \in Resources :
            \/ queue'[r] = queue[r]
            \/ queue'[r] = NoTask /\ r \in S
            \/ r \in Inserted(b) /\ ~queue'[r].claimed
               /\ queue'[r].gen > 0 /\ queue'[r].gen <= rows'[r].gen
    BY SMTT(30), <1>2, <1>4
  <1> QED
    BY <1>1, <1>5, <1>6, <1>8, <1>9, <1>12, <1>13 DEF DrainCommit, CommitStep

\* A drain's commit keeps the invariant.
LEMMA CommitKeeps ==
    ASSUME Inv, NEW b \in Bands, CommitStep(b)
    PROVE  Inv'
  <1> DEFINE S == tx[b].batch
             W == tx[b].flowed
  <1>t. /\ TypeOK /\ GenInv /\ TxInv /\ rows \in [Resources -> Row] /\ outbox \in [Resources -> Result]
        /\ tx \in [Bands -> Tx] /\ queue \in [Resources -> QueueRow] /\ input \in [Deps -> Nat]
        /\ composed \in Nat /\ want \in [Kids -> Nat] /\ excused \subseteq Kids
    BY DEF Inv, TypeOK, QueueRow
  <1>w. \A o \in Bands : /\ tx[o].batch \subseteq Resources /\ tx[o].flowed \subseteq Deps
                         /\ tx[o].put \subseteq Resources \X Nat
    BY <1>t DEF Tx
  <1>s. /\ rootKind' = rootKind /\ composed' = composed /\ toSchedule' = toSchedule
        /\ faults' = faults /\ want' = want
    BY DEF CommitStep
  <1>r. /\ rows' \in [Resources -> Row]
        /\ \A r \in Resources : RowAfter(rows'[r], rows[r], outbox[r], r \in S, r \in Heads(W))
    BY DEF CommitStep
  <1>q. /\ queue' \in [Resources -> QueueRow]
        /\ \A r \in Resources :
             \/ queue'[r] = queue[r]
             \/ queue'[r] = NoTask /\ r \in S
             \/ r \in Inserted(b) /\ ~queue'[r].claimed
                /\ queue'[r].gen > 0 /\ queue'[r].gen <= rows'[r].gen
        /\ Root \in Inserted(b) => queue'[Root].gen > 0
    BY DEF CommitStep
  <1>o. /\ outbox' \in [Resources -> Result]
        /\ \A r \in Resources : outbox'[r] = IF r \in S THEN NoResult ELSE outbox[r]
    BY <1>t DEF CommitStep, NoResult, Result
  <1>x. /\ tx' \in [Bands -> Tx] /\ tx'[b] = NoTx
        /\ \A o \in Bands : o # b =>
             /\ tx'[o].batch = tx[o].batch /\ tx'[o].flowed = tx[o].flowed
             /\ tx'[o].put = {p \in tx[o].put : p[1] \notin Inserted(b)}
             /\ tx'[o].arm = (tx[o].arm /\ ~tx[b].arm)
             /\ tx'[o].seen = (tx[o].seen \/ (Open(o) /\ Root \in S))
    BY DEF CommitStep
  <1>n. tx'[b].batch = {} /\ tx'[b].flowed = {} /\ tx'[b].put = {}
    BY SMTT(30), <1>x DEF NoTx
  <1>i. /\ input' = [e \in Deps |-> IF e \in W THEN outbox[e[2]].status ELSE input[e]]
        /\ excused' = excused \cup {c \in S \cap Kids : outbox[c].kind \in {"fail", "park"}}
        /\ recheck' = (recheck \/ tx[b].arm)
    BY DEF CommitStep
  <1>h. Heads(W) \subseteq Kids /\ Root \notin Heads(W)
    BY <1>t, <1>w, Edges, Members DEF Heads
  <1>g. \A r \in S : outbox[r].gen > 0 /\ rows[r].gen > 0 /\ r \in Resources
    <2> SUFFICES ASSUME NEW r \in S PROVE outbox[r].gen > 0 /\ rows[r].gen > 0 /\ r \in Resources
      OBVIOUS
    <2>1. r \in Resources /\ outbox[r] # NoResult
      BY <1>t, <1>w DEF TxInv
    <2>2. outbox[r].gen > 0 /\ outbox[r].gen <= rows[r].gen
      BY <1>t, <2>1 DEF GenInv
    <2>3. outbox[r].gen \in Nat /\ rows[r].gen \in Nat
      BY <1>t, <2>1 DEF Row, Result
    <2> QED
      BY <2>1, <2>2, <2>3, Order
  <1>p. \A d \in Heads(W) : \A c \in Kids : rows[c].gen > 0
    <2> SUFFICES ASSUME NEW e \in W, NEW c \in Kids PROVE rows[c].gen > 0
      BY DEF Heads
    <2>1. e[2] \in S /\ e[2] \in Kids
      BY <1>t, <1>w, Edges DEF TxInv
    <2> QED
      BY <1>t, <1>g, <2>1 DEF GenInv
  <1>y. \A r \in Resources :
           /\ rows[r].gen \in Nat /\ rows'[r].gen \in Nat /\ rows[r].synced \in Nat /\ rows'[r].synced \in Nat
           /\ rows[r].fail \in Nat /\ rows'[r].fail \in Nat /\ outbox[r].gen \in Nat
           /\ queue[r].gen \in Nat /\ queue'[r].gen \in Nat
    BY <1>t, <1>r, <1>q DEF Row, Result, QueueRow
  <1>v. \A r \in Resources : RowMoves(rows'[r], rows[r], outbox[r], r \in S, r \in Heads(W))
    <2> TAKE r \in Resources
    <2>1. rows'[r] \in Row /\ rows[r] \in Row /\ outbox[r] \in Result
      BY <1>t, <1>r
    <2>2. RowAfter(rows'[r], rows[r], outbox[r], r \in S, r \in Heads(W))
      BY <1>r
    <2> QED
      BY <2>1, <2>2, RowStep
  <1>m. \A r \in Resources :
           /\ rows'[r].gen >= rows[r].gen /\ rows'[r].synced >= rows[r].synced
           /\ rows'[r].frozen = rows[r].frozen
           /\ r \notin Heads(W) => rows'[r].gen = rows[r].gen
    BY <1>v DEF RowMoves
  <1>z. \A o \in Bands : \A r \in tx[o].batch : o # b =>
           /\ r \in Resources /\ r \notin S /\ r \notin Heads(W) /\ outbox'[r] = outbox[r]
           /\ rows'[r].gen = rows[r].gen /\ rows'[r].synced = rows[r].synced
           /\ rows'[r].status = rows[r].status
    <2> SUFFICES ASSUME NEW o \in Bands, NEW r \in tx[o].batch, o # b
                 PROVE  /\ r \in Resources /\ r \notin S /\ r \notin Heads(W) /\ outbox'[r] = outbox[r]
                        /\ rows'[r].gen = rows[r].gen /\ rows'[r].synced = rows[r].synced
                        /\ rows'[r].status = rows[r].status
      OBVIOUS
    <2>1. r \in Locked(o) /\ r \in Resources
      BY <1>w DEF Locked
    <2>2. r \notin Locked(b)
      BY <1>t, <2>1 DEF TxInv
    <2>3. r \notin S /\ r \notin Heads(W)
      BY <2>2 DEF Locked
    <2> QED
      BY <1>v, <1>o, <2>1, <2>3 DEF RowMoves
  <1> HIDE DEF S, W
  <1>1. TypeOK'
    <2>1. input' \in [Deps' -> Nat]
      <3>1. \A e \in Deps : outbox[e[2]].status \in Nat
        BY <1>t, Edges, Members DEF Result
      <3> QED
        BY <1>t, <1>s, <1>i, <3>1 DEF Deps
    <2>2. excused' \subseteq Kids /\ recheck' \in BOOLEAN /\ consumed' \in BOOLEAN
      <3>1. excused' \subseteq Kids
        BY <1>t, <1>i
      <3>2. recheck' \in BOOLEAN
        BY <1>i, Zenon
      <3> QED
        BY <3>1, <3>2 DEF CommitStep
    <2>3. queue' \in [Resources -> [gen : Nat, claimed : BOOLEAN]]
      BY <1>q DEF QueueRow
    <2>4. rows' \in [Resources -> Row] /\ outbox' \in [Resources -> Result] /\ tx' \in [Bands -> Tx]
      BY <1>r, <1>o, <1>x
    <2> QED
      BY <1>s, <2>1, <2>2, <2>3, <2>4 DEF Inv, TypeOK, Deps, Tx
  <1>2. GenInv'
    <2>1. \A r \in Resources : rows'[r].fail <= rows'[r].gen /\ rows'[r].synced <= rows'[r].gen
      <3>1. \A r \in Resources : /\ rows[r].fail <= rows[r].gen /\ rows[r].synced <= rows[r].gen
                                 /\ outbox[r].gen <= rows[r].gen
        BY <1>t DEF GenInv
      <3> QED
        BY <1>v, <3>1 DEF RowMoves
    <2>2. \A r \in Resources : queue'[r].gen <= rows'[r].gen /\ (queue'[r].claimed => queue'[r].gen > 0)
      <3>1. NoTask.gen = 0 /\ NoTask.claimed = FALSE
        BY DEF NoTask
      <3>2. \A r \in Resources : queue[r].gen <= rows[r].gen /\ (queue[r].claimed => queue[r].gen > 0)
        BY <1>t DEF GenInv
      <3> QED
        <4> TAKE r \in Resources
        <4>1. /\ queue[r].gen \in Nat /\ rows[r].gen \in Nat /\ rows'[r].gen \in Nat
              /\ rows'[r].gen >= rows[r].gen /\ queue[r].gen <= rows[r].gen
          BY <1>y, <1>m, <3>2
        <4>2. queue[r].gen <= rows'[r].gen /\ 0 <= rows'[r].gen
          BY SMT, <4>1
        <4> QED
          BY <1>q, <3>1, <3>2, <4>2
    <2>3. \A r \in Resources :
             /\ outbox'[r].gen <= rows'[r].gen
             /\ outbox'[r] # NoResult => outbox'[r].kind # "none" /\ outbox'[r].gen > 0
      <3>1. NoResult.gen = 0
        BY DEF NoResult
      <3>2. \A r \in Resources : /\ outbox[r].gen <= rows[r].gen
                                 /\ outbox[r] # NoResult => outbox[r].kind # "none" /\ outbox[r].gen > 0
        BY <1>t DEF GenInv
      <3> QED
        <4> TAKE r \in Resources
        <4>1. /\ outbox[r].gen \in Nat /\ rows[r].gen \in Nat /\ rows'[r].gen \in Nat
              /\ rows'[r].gen >= rows[r].gen /\ outbox[r].gen <= rows[r].gen
          BY <1>y, <1>m, <3>2
        <4>2. outbox[r].gen <= rows'[r].gen /\ 0 <= rows'[r].gen
          BY SMT, <4>1
        <4> QED
          BY <1>o, <3>1, <3>2, <4>2
    <2>4. ~rows'[Root].frozen
      BY <1>t, <1>m, Members DEF GenInv
    <2>5. \A c, d \in Kids : rows'[c].gen > 0 => rows'[d].gen > 0 /\ rows'[Root].gen > 0
      <3> SUFFICES ASSUME NEW c \in Kids, NEW d \in Kids, rows'[c].gen > 0
                   PROVE  rows'[d].gen > 0 /\ rows'[Root].gen > 0
        OBVIOUS
      <3>1. rows[c].gen > 0
        BY <1>p, <1>m, Members
      <3>2. rows[d].gen > 0 /\ rows[Root].gen > 0
        BY <1>t, <3>1 DEF GenInv
      <3> QED
        <4>1. \A r \in {d, Root} : /\ rows[r].gen \in Nat /\ rows'[r].gen \in Nat
                                   /\ rows[r].gen > 0 /\ rows'[r].gen >= rows[r].gen
          BY <1>y, <1>m, <3>2, Members
        <4> QED
          BY SMT, <4>1
    <2>6. \A c \in Kids : want[c] <= rows'[c].gen
      BY <1>t, <1>y, <1>m, Members, Order DEF GenInv
    <2> QED
      BY <1>s, <2>1, <2>2, <2>3, <2>4, <2>5, <2>6 DEF GenInv
  <1>3. TxInv'
    <2>1. \A o \in Bands : \A r \in tx'[o].batch : outbox'[r] # NoResult /\ BandOf[r] = o
      <3> SUFFICES ASSUME NEW o \in Bands, NEW r \in tx'[o].batch
                   PROVE  outbox'[r] # NoResult /\ BandOf[r] = o
        OBVIOUS
      <3>1. o # b /\ r \in tx[o].batch
        BY <1>x, <1>n
      <3>2. outbox[r] # NoResult /\ BandOf[r] = o
        BY <1>t, <3>1 DEF TxInv
      <3> QED
        BY <1>z, <3>1, <3>2
    <2>2. \A o \in Bands : \A e \in tx'[o].flowed : e[2] \in tx'[o].batch /\ outbox'[e[2]].kind = "ok"
      <3> SUFFICES ASSUME NEW o \in Bands, NEW e \in tx'[o].flowed
                   PROVE  e[2] \in tx'[o].batch /\ outbox'[e[2]].kind = "ok"
        OBVIOUS
      <3>1. o # b /\ e \in tx[o].flowed /\ tx'[o].batch = tx[o].batch
        BY <1>x, <1>n
      <3>2. e[2] \in tx[o].batch /\ outbox[e[2]].kind = "ok"
        BY <1>t, <3>1 DEF TxInv
      <3> QED
        BY <1>z, <3>1, <3>2
    <2>3. \A o \in Bands : \A p \in tx'[o].put : p[1] = Root => p[2] > 0 /\ p[2] <= rows'[Root].gen
      <3>1. rows'[Root].gen = rows[Root].gen
        BY <1>h, <1>m, Members
      <3> SUFFICES ASSUME NEW o \in Bands, NEW p \in tx'[o].put, p[1] = Root
                   PROVE  p[2] > 0 /\ p[2] <= rows'[Root].gen
        OBVIOUS
      <3>2. p \in tx[o].put
        BY <1>x, <1>n
      <3> QED
        BY <1>t, <3>1, <3>2 DEF TxInv
    <2>4. Locked(b)' = {} /\ \A o \in Bands : o # b => Locked(o)' = Locked(o)
      BY <1>x, <1>n DEF Locked, Heads
    <2>5. \A o, n \in Bands : o # n => Locked(o)' \cap Locked(n)' = {}
      <3>1. \A o, n \in Bands : o # n => Locked(o) \cap Locked(n) = {}
        BY <1>t DEF TxInv
      <3>2. ASSUME NEW o \in Bands, NEW n \in Bands, o # n PROVE Locked(o)' \cap Locked(n)' = {}
        BY <2>4, <3>1, <3>2
      <3> QED
        BY <3>2
    <2> QED
      BY <2>1, <2>2, <2>3, <2>5 DEF TxInv
  <1>4. RollInv'
    <2>1. \A c \in Kids : rows'[c].frozen \/ (rows'[c].gen > 0 /\ Failed(rows', c)) => c \in excused'
      <3> SUFFICES ASSUME NEW c \in Kids, rows'[c].frozen \/ (rows'[c].gen > 0 /\ Failed(rows', c)),
                          c \notin excused'
                   PROVE  FALSE
        OBVIOUS
      <3>1. /\ c \in Resources /\ c \notin excused
            /\ ~(c \in S /\ outbox[c].kind \in {"fail", "park"})
        BY <1>i, Members
      <3>2. ~rows[c].frozen /\ (rows[c].gen > 0 => rows[c].fail # rows[c].gen)
        BY <3>1 DEF Inv, RollInv, Failed
      <3>3. rows'[c].gen > 0 /\ rows'[c].fail = rows'[c].gen
        <4>1. rows'[c].frozen = rows[c].frozen
          BY <1>m, <3>1
        <4>2. ~rows'[c].frozen
          BY <3>2, <4>1, Zenon
        <4> QED
          BY <4>2, Zenon DEF Failed
      <3>4. rows'[c].fail = rows[c].fail
        <4>1. rows'[c].fail = IF c \in S /\ outbox[c].kind = "ok" THEN 0
                              ELSE IF c \in S /\ outbox[c].kind \in {"fail", "park"} THEN outbox[c].gen
                              ELSE rows[c].fail
          BY <1>r, <3>1 DEF RowAfter
        <4>2. rows'[c].fail # 0
          BY SMTT(30), <3>3
        <4> QED
          BY <3>1, <4>1, <4>2
      <3>5. rows[c].fail <= rows[c].gen
        BY <1>t, <3>1 DEF GenInv
      <3>6. rows'[c].gen >= rows[c].gen /\ rows[c].gen \in Nat /\ rows'[c].gen \in Nat
        BY <1>y, <1>m, <3>1
      <3>7. rows[c].fail = rows[c].gen /\ rows[c].gen > 0
        <4>1. rows'[c].gen <= rows[c].gen
          BY <3>3, <3>4, <3>5
        <4> QED
          BY SMT, <3>3, <3>4, <3>6, <4>1
      <3> QED
        BY <3>2, <3>7
    <2>2. \A c \in Kids : ChildDone(c) => ChildDone(c)'
      <3> SUFFICES ASSUME NEW c \in Kids, ChildDone(c) PROVE ChildDone(c)'
        OBVIOUS
      <3>1. /\ want'[c] = want[c] /\ want[c] \in Nat /\ excused \subseteq excused'
            /\ rows[c].synced \in Nat /\ rows'[c].synced \in Nat /\ rows'[c].synced >= rows[c].synced
        BY <1>t, <1>s, <1>y, <1>m, <1>i, Members
      <3> QED
        BY <3>1, Order DEF ChildDone
    <2>3. outbox'[Root].kind = "ok" => outbox'[Root] = outbox[Root]
      <3>1. NoResult.kind # "ok"
        BY SMT DEF NoResult
      <3> QED
        BY <1>o, <3>1, Members
    <2>4. (Root \in S /\ outbox[Root].kind = "ok") \/ rows'[Root].synced = rows[Root].synced
      BY <1>r, Members DEF RowAfter
    <2>5. ~rootKind.recomposes => rows'[Root].synced <= composed
      BY <1>t, <1>r, <1>y, Members DEF Inv, RollInv, RowAfter, Larger
    <2>6. outbox[Root].kind = "ok" => \A c \in Kids : ChildDone(c)
      BY DEF Inv, RollInv
    <2>7. RollupAfterChildren'
      BY <1>s, <2>2, <2>4, <2>6 DEF Inv, RollInv, RollupAfterChildren, ChildDone
    <2> QED
      BY <1>s, <2>1, <2>2, <2>3, <2>5, <2>7 DEF Inv, RollInv
  <1>5. CoverInv'
    <2>1. queue[Root].gen > 0 /\ Root \notin S => queue'[Root].gen > 0
      BY <1>q, Members
    <2>2. ASSUME Upgraded(rows, rows') \cap Kids # {} PROVE \E c \in Kids : WillSettle(b, c)
      <3>1. PICK c \in Kids : c \in Upgraded(rows, rows')
        BY <2>2
      <3>2. c \in Resources /\ Lagging(rows, c) /\ ~Lagging(rows', c)
        BY <3>1, Members DEF Upgraded
      <3>3. rows[c].synced < rows[c].gen /\ rows'[c].synced >= rows'[c].gen
        BY SMTT(30), <1>y, <3>2 DEF Lagging
      <3>4. c \in S /\ outbox[c].kind = "ok" /\ outbox[c].gen >= rows'[c].gen
        BY <1>v, <3>2, <3>3 DEF RowMoves
      <3>5. outbox[c].gen <= rows[c].gen
        BY <1>t, <3>2 DEF GenInv
      <3>6. outbox[c].gen = rows[c].gen /\ c \notin Heads(W)
        BY <1>v, <3>2, <3>4, <3>5 DEF RowMoves
      <3>7. WillSettle(b, c)
        BY <3>2, <3>4, <3>6 DEF WillSettle, S, W
      <3> QED
        BY <3>7
    <2>3. queue'[Root].gen = 0 \/ queue'[Root].gen > 0
      BY SMTT(30), <1>y, Members
    <2>4. rows'[Root].gen > 0 => Remembered' \/ consumed'
      <3> SUFFICES ASSUME rows'[Root].gen > 0, queue'[Root].gen = 0 PROVE recheck' \/ consumed'
        BY <2>3 DEF Remembered
      <3>0. ~(queue'[Root].gen > 0)
        BY SMTT(30)
      <3>1. rows[Root].gen > 0
        BY <1>h, <1>m, Members
      <3>2. /\ Root \in S => consumed'
            /\ Upgraded(rows, rows') \cap Kids # {} /\ tx[b].seen => consumed'
            /\ Upgraded(rows, rows') \cap Kids = {} /\ consumed => consumed'
        BY DEF CommitStep, S
      <3>3. Remembered \/ consumed
        BY <3>1 DEF Inv, CoverInv
      <3>4. (\E c \in Kids : WillSettle(b, c)) => Root \in Inserted(b) \/ tx[b].arm \/ tx[b].seen \/ Remembered
        BY DEF Inv, CoverInv
      <3> QED
        BY <1>q, <1>i, <2>1, <2>2, <3>0, <3>2, <3>3, <3>4 DEF Remembered
    <2>5. ASSUME NEW o \in Bands, NEW c \in Kids, WillSettle(o, c)'
          PROVE  Root \in Inserted(o)' \/ tx'[o].arm \/ tx'[o].seen \/ Remembered'
      <3>1. o # b /\ c \in tx[o].batch
        BY <1>x, <1>n, <2>5 DEF WillSettle
      <3>2. WillSettle(o, c)
        BY <1>x, <1>z, <2>5, <3>1 DEF WillSettle, Lagging, Heads
      <3>3. Root \in Inserted(o) \/ tx[o].arm \/ tx[o].seen \/ Remembered
        BY <3>2 DEF Inv, CoverInv
      <3>4. Root \in Inserted(o) => Root \in Inserted(o)' \/ queue'[Root].gen > 0
        <4> SUFFICES ASSUME Root \in Inserted(o), Root \notin Inserted(b) PROVE Root \in Inserted(o)'
          BY <1>q
        <4>1. PICK p \in tx[o].put : p[1] = Root
          BY DEF Inserted
        <4>2. p \in tx'[o].put
          BY <1>x, <3>1, <4>1
        <4> QED
          BY <4>1, <4>2 DEF Inserted
      <3>5. Open(o)
        BY <3>1 DEF Open
      <3> QED
        BY <1>i, <1>x, <2>1, <3>1, <3>3, <3>4, <3>5 DEF Remembered
    <2> QED
      BY <2>4, <2>5 DEF CoverInv
  <1>6. FlowInv'
    <2>0. \A d : Upstreams(d)' = Upstreams(d) /\ Upstreams(d) \subseteq Kids
      BY <1>s DEF Upstreams, Deps
    <2>1. \A c \in Kids : outbox'[c].kind = "ok" => outbox'[c].status # 0
      <3>1. \A c \in Kids : outbox[c].kind = "ok" => outbox[c].status # 0
        BY DEF Inv, FlowInv
      <3>2. NoResult.kind # "ok"
        BY SMTT(30) DEF NoResult
      <3> QED
        BY <1>o, <3>1, <3>2, Members
    <2>2. \A c \in Kids : /\ outbox[c].kind = "ok" => outbox[c].status # 0
                          /\ rows[c].synced > 0 => rows[c].status # 0
      BY DEF Inv, FlowInv
    <2>3. \A c \in Kids : /\ rows'[c].synced > 0 => rows'[c].status # 0
                          /\ rows[c].status # 0 => rows'[c].status # 0
                          /\ c \in S /\ outbox[c].kind = "ok" => rows'[c].status # 0
      BY <1>r, <2>2, Members DEF RowAfter
    <2>4. \A d : Reported(d) => Reported(d)'
      BY <2>0, <2>3 DEF Reported
    <2>5. ASSUME NEW c \in Kids, queue'[c].gen > 0 \/ outbox'[c].kind # "none" \/ rows'[c].synced > 0
          PROVE  Reported(c)'
      <3>1. queue[c].gen > 0 \/ outbox[c].kind # "none" \/ rows[c].synced > 0 => Reported(c)
        BY DEF Inv, FlowInv
      <3>2. rows'[c].synced > 0 => rows[c].synced > 0 \/ outbox[c].kind # "none"
        BY <1>r, Members DEF RowAfter
      <3>3. outbox'[c].kind # "none" => outbox[c].kind # "none"
        BY SMTT(30), <1>o, Members DEF NoResult
      <3>4. c \in Inserted(b) => Reported(c)'
        <4>1. c \in Inserted(b) => \A u \in Upstreams(c) :
                 rows[u].status # 0 \/ (u \in S /\ outbox[u].kind = "ok")
          BY DEF Inv, FlowInv, S
        <4> QED
          BY <2>0, <2>3, <4>1 DEF Reported
      <3>5. queue'[c].gen > 0 => queue[c].gen > 0 \/ c \in Inserted(b)
        BY SMTT(30), <1>q, Members DEF NoTask
      <3> QED
        BY <2>4, <2>5, <3>1, <3>2, <3>3, <3>4, <3>5
    <2>6. \A o \in Bands : \A d \in Inserted(o)' : \A u \in Upstreams(d) :
             rows'[u].status # 0 \/ (u \in tx'[o].batch /\ outbox'[u].kind = "ok")
      <3>1. \A o \in Bands : o # b => Inserted(o)' \subseteq Inserted(o)
        <4>1. \A o \in Bands : o # b => tx'[o].put \subseteq tx[o].put
          BY <1>x
        <4> QED
          BY <4>1 DEF Inserted
      <3>2. Inserted(b)' = {}
        BY <1>n DEF Inserted
      <3>3. \A o \in Bands : \A d \in Inserted(o) : \A u \in Upstreams(d) :
             rows[u].status # 0 \/ (u \in tx[o].batch /\ outbox[u].kind = "ok")
        BY DEF Inv, FlowInv
      <3> SUFFICES ASSUME NEW o \in Bands, NEW d \in Inserted(o)', NEW u \in Upstreams(d),
                          rows'[u].status = 0
                   PROVE  u \in tx'[o].batch /\ outbox'[u].kind = "ok"
        OBVIOUS
      <3>4. o # b /\ d \in Inserted(o)
        BY <3>1, <3>2
      <3>5. u \in Kids /\ rows[u].status = 0
        BY <2>0, <2>3
      <3>6. u \in tx[o].batch /\ outbox[u].kind = "ok"
        BY <3>3, <3>4, <3>5
      <3> QED
        BY <1>x, <1>z, <3>4, <3>6
    <2>7. Unedited' => Unedited /\ Deps' = Deps
      BY <1>s, <1>h, <1>m, Members DEF Unedited, Deps
    <2>8. \A e \in Deps : /\ e[1] \in Kids /\ e[2] \in Kids /\ e[2] \in Resources
                          /\ input'[e] = IF e \in W THEN outbox[e[2]].status ELSE input[e]
                          /\ e \in W => e[2] \in S /\ outbox[e[2]].kind = "ok"
      BY <1>t, <1>i, Edges, Members DEF TxInv, S, W
    <2>9. ASSUME Unedited, composed = 0
          PROVE  /\ \A c \in Kids : rows'[c].gen = 0 /\ rows'[c].status = 0
                 /\ \A e \in Deps : input'[e] = 0
      <3>1. (\A c \in Kids : rows[c].gen = 0 /\ rows[c].status = 0) /\ \A e \in Deps : input[e] = 0
        BY <2>9 DEF Inv, FlowInv
      <3>2. \A c \in Kids : c \notin S
        BY SMTT(30), <1>g, <3>1
      <3>3. \A c \in Kids : c \notin Heads(W)
        BY SMTT(30), <1>p, <3>1
      <3> QED
        <4>1. \A c \in Kids : rows'[c].gen = rows[c].gen /\ rows'[c].status = rows[c].status
          BY <1>v, <3>2, <3>3, Members DEF RowMoves
        <4>2. \A e \in Deps : input'[e] = input[e]
          BY <2>8, <3>2
        <4> QED
          BY <3>1, <4>1, <4>2
    <2>10. ASSUME Unedited, NEW e \in Deps, e[1] \notin excused'
           PROVE  input'[e] = rows'[e[2]].status
      <3>1. e[1] \notin excused
        BY <1>i, <2>10
      <3>2. input[e] = rows[e[2]].status
        BY <2>10, <3>1 DEF Inv, FlowInv
      <3>3. rows'[e[2]].status = IF e[2] \in S /\ outbox[e[2]].kind = "ok" THEN outbox[e[2]].status
                                 ELSE rows[e[2]].status
        BY <1>r, <2>8 DEF RowAfter
      <3>4. e[2] \in S /\ outbox[e[2]].kind = "ok" /\ e \notin W
              => outbox[e[2]].status = rows[e[2]].status \/ outbox[e[2]].status = input[e]
        BY <2>10, <3>1 DEF Inv, FlowInv, S, W
      <3> QED
        BY <2>8, <3>2, <3>3, <3>4
    <2>11. ASSUME Unedited, NEW o \in Bands, NEW e \in Deps,
                  e[2] \in tx'[o].batch, outbox'[e[2]].kind = "ok", e \notin tx'[o].flowed
           PROVE  \/ outbox'[e[2]].status = rows'[e[2]].status
                  \/ outbox'[e[2]].status = input'[e]
                  \/ e[1] \in excused'
      <3>1. o # b /\ e[2] \in tx[o].batch /\ e \notin tx[o].flowed
        BY <1>x, <1>n, <2>11
      <3>2. /\ outbox'[e[2]] = outbox[e[2]] /\ rows'[e[2]].status = rows[e[2]].status /\ e[2] \notin S
        BY <1>z, <3>1
      <3>3. input'[e] = input[e] /\ excused \subseteq excused'
        BY <1>i, <2>8, <3>2
      <3>4. \/ outbox[e[2]].status = rows[e[2]].status
            \/ outbox[e[2]].status = input[e]
            \/ e[1] \in excused
        BY <2>11, <3>1, <3>2 DEF Inv, FlowInv
      <3> QED
        BY <3>2, <3>3, <3>4
    <2> QED
      BY <1>s, <2>0, <2>1, <2>3, <2>5, <2>6, <2>7, <2>9, <2>10, <2>11 DEF FlowInv
  <1> QED
    BY <1>1, <1>2, <1>3, <1>4, <1>5, <1>6 DEF Inv

----------------------------------------------------------------------------
(* The invariant, and what it says of every composite.                     *)

\* The cascade starts in the invariant.
LEMMA InvInit == Init => Inv
  <1> SUFFICES ASSUME Init PROVE Inv
    OBVIOUS
  <1>a. AbsentRow \in Row /\ NoTask \in QueueRow /\ NoResult \in Result /\ NoTx \in Tx
    BY DEF AbsentRow, Row, NoTask, QueueRow, NoResult, Result, NoTx, Tx
  <1>r. \A r \in Resources : /\ rows[r].gen = 0 /\ rows[r].synced = 0 /\ rows[r].fail = 0
                             /\ rows[r].status = 0 /\ rows[r].frozen = FALSE
    BY DEF Init, AbsentRow
  <1>q. \A r \in Resources : /\ queue[r].gen = 0 /\ queue[r].claimed = FALSE
                             /\ outbox[r] = NoResult /\ outbox[r].gen = 0 /\ outbox[r].kind = "none"
    BY DEF Init, NoTask, NoResult
  <1>x. \A b \in Bands : tx[b].batch = {} /\ tx[b].flowed = {} /\ tx[b].put = {}
    BY DEF Init, NoTx
  <1>1. TypeOK
    BY <1>a DEF Init, TypeOK, QueueRow
  <1>2. GenInv
    BY SMTT(30), <1>r, <1>q, Members DEF Init, GenInv
  <1>3. TxInv
    BY <1>x DEF TxInv, Locked, Heads
  <1>4. RollInv
    <2>1. composed = 0
      BY DEF Init
    <2> QED
      BY SMTT(30), <1>r, <1>q, <2>1, Members DEF RollInv, RollupAfterChildren
  <1>5. CoverInv
    <2>1. ~(rows[Root].gen > 0)
      BY SMT, <1>r, Members
    <2> QED
      BY <1>x, <2>1 DEF CoverInv, WillSettle
  <1>6. FlowInv
    <2>1. \A b \in Bands : Inserted(b) = {}
      BY <1>x DEF Inserted
    <2>2. \A e \in Deps : e[2] \in Resources /\ input[e] = 0
      BY <1>1, Edges, Members DEF Init
    <2> QED
      <3>1. NoResult.kind # "ok" /\ ~(0 > 0)
        BY SMT DEF NoResult
      <3>2. \A c \in Kids : /\ outbox[c].kind # "ok" /\ outbox[c].kind = "none"
                            /\ ~(rows[c].synced > 0) /\ ~(queue[c].gen > 0)
                            /\ rows[c].gen = 0 /\ rows[c].status = 0
        BY <1>r, <1>q, <3>1, Members
      <3>3. \A e \in Deps : input[e] = 0 /\ rows[e[2]].status = 0
        BY <1>r, <2>2
      <3> QED
        BY <1>x, <2>1, <3>2, <3>3 DEF FlowInv
  <1> QED
    BY <1>1, <1>2, <1>3, <1>4, <1>5, <1>6 DEF Inv

\* A step that changes nothing keeps the invariant.
LEMMA StutterKeeps == ASSUME Inv, UNCHANGED vars PROVE Inv'
  <1>1. /\ UNCHANGED <<rootKind, rows, input, outbox, tx, want, excused, composed, queue, recheck,
                       toSchedule, faults, consumed>>
    BY DEF vars, observers
  <1>2. QueueStep
    BY <1>1 DEF Inv, TypeOK, GenInv, QueueStep, QueueRow, Remembered
  <1> QED
    BY <1>2, QueueKeeps

\* Every step of the cascade keeps the invariant.
LEMMA InvStep == Inv /\ [Next]_vars => Inv'
  <1> SUFFICES ASSUME Inv, [Next]_vars PROVE Inv'
    OBVIOUS
  <1>1. ASSUME \/ \E r \in Resources : Claim(r) \/ Requeue(r) \/ Resync(r)
               \/ RollupRecheck
               \/ \E b \in Bands : ScheduleRecheck(b)
        PROVE  Inv'
    BY <1>1, QueueSteps, QueueKeeps
  <1>2. ASSUME Rollup \/ \E c \in Kids : Work(c) \/ WorkDrifts(c) PROVE Inv'
    <2>1. TypeOK
      BY DEF Inv
    <2>2. PICK r \in Resources, p \in Result : ReportStep(r, p)
      BY <1>2, <2>1, ReportSteps
    <2> QED
      BY <2>2, ReportKeeps
  <1>3. ASSUME NEW c \in Kids, Quarantine(c) \/ Unquarantine(c) PROVE Inv'
    BY <1>3, FreezeSteps, FreezeKeeps
  <1>4. ASSUME ApplySpec PROVE Inv'
    BY <1>4, ApplyKeeps
  <1>5. ASSUME NEW changed \in SUBSET Kids, Compose(changed) PROVE Inv'
    BY <1>5, ComposeKeeps
  <1>6. ASSUME NEW b \in Bands, NEW S \in SUBSET Resources, DrainBegin(b, S) PROVE Inv'
    BY <1>6, BeginKeeps
  <1>7. ASSUME NEW b \in Bands, DrainCommit(b) PROVE Inv'
    BY <1>7, CommitSteps, CommitKeeps
  <1>8. ASSUME UNCHANGED vars PROVE Inv'
    BY <1>8, StutterKeeps
  <1> QED
    BY <1>1, <1>2, <1>3, <1>4, <1>5, <1>6, <1>7, <1>8 DEF Next, System

\* The invariant holds in every behaviour of the cascade.
LEMMA Invariant == Spec => []Inv
  BY InvInit, InvStep, PTL DEF Spec

(* reactReconcile's rollup, cascade_on_ready_change's re-pend and recheck: *)
(* for any number of children, bands and edges, and whatever fails, drifts *)
(* or is frozen, the root's sync comes after its children's, and a lagging *)
(* root whose subtree is settled is never forgotten.                       *)
THEOREM RootFollowsChildrenHolds == Spec => []RootFollowsChildren
  <1>1. Inv => RootFollowsChildren
    <2> SUFFICES ASSUME Inv PROVE RootFollowsChildren
      OBVIOUS
    <2>1. RollupAfterChildren
      BY DEF Inv, RollInv
    <2>2. Lagging(rows, Root) => rows[Root].gen > 0
      BY SMTT(30), Members DEF Inv, TypeOK, Lagging, Row
    <2>3. StraddleClosed
      BY <2>2 DEF Inv, CoverInv, Remembered, StraddleClosed
    <2> QED
      BY <2>1, <2>3 DEF RootFollowsChildren
  <1> QED
    BY <1>1, Invariant, PTL

(* drain_outbox_batch's substitute pass: whatever the edges between the    *)
(* children, a dependent that is scheduled has its flowed field filled,    *)
(* and at rest it holds what its upstream reports.                         *)
THEOREM FlowsDeliveredHolds == Spec => []FlowsDelivered
  <1>1. Inv => FlowsDelivered
    <2> SUFFICES ASSUME Inv, FirstCompose PROVE FlowsDelivered
      BY DEF FlowsDelivered, FlowedBeforeRun, FlowDelivered
    <2>1. Unedited
      BY SMTT(30) DEF FirstCompose, Unedited
    <2>2. \A e \in Deps : input[e] = rows[e[2]].status \/ e[1] \in excused
      BY <2>1 DEF Inv, FlowInv
    <2>3. ASSUME NEW e \in Deps, queue[e[1]].gen > 0 PROVE rows[e[2]].status # 0
      <3>1. e[1] \in Kids /\ e[2] \in Kids /\ e = <<e[1], e[2]>>
        BY Edges DEF Inv
      <3>2. Reported(e[1])
        BY <2>3, <3>1 DEF Inv, FlowInv
      <3>3. e[2] \in Upstreams(e[1])
        BY <3>1 DEF Upstreams
      <3> QED
        BY <3>2, <3>3 DEF Reported
    <2> QED
      BY <2>2, <2>3 DEF FlowsDelivered, FlowedBeforeRun, FlowDelivered
  <1> QED
    BY <1>1, Invariant, PTL
=============================================================================
