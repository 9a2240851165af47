-------------------------- MODULE DispatcherProofs --------------------------
(***************************************************************************)
(* Proofs about one pod's Dispatcher, for any tasks, pairs, deployments    *)
(* and bounds: a task has one recorded result, no pair is overfilled, and  *)
(* the heartbeat covers the live claims.                                   *)
(***************************************************************************)
EXTENDS Dispatcher, FiniteSetTheorems, TLAPS

(* Zenon is the prover of this module; leaves that need arithmetic, records *)
(* or sequences ask for SMT.                                               *)
USE Zenon

-----------------------------------------------------------------------------
(* Types.                                                                  *)

Goroutines == [task : Tasks, epoch : Nat, slot : Nat, at : Stages, silent : BOOLEAN]
Ring == [pair : Pairs, inFlight : Int]

(* TypeOK but for the counters, which may be any integers here, and with   *)
(* what keeps Slot and every g.slot inside the ring.                       *)
TypeInv ==
    /\ row \in [Tasks -> [epoch : Nat, holder : Holders]]
    /\ outbox \subseteq Tasks
    /\ outcomes \in [Tasks -> Nat]
    /\ pairOf \in [Tasks -> Pairs]
    /\ maxParallel \in Nat
    /\ ring \in Seq(Ring)
    /\ newPairs \in Seq(Pairs) /\ announced \in Seq(Pairs)
    /\ off \in Nat /\ cursor \in Nat
    /\ loop = "sweep" => ring # <<>>
    /\ gos \subseteq Goroutines
    /\ \A g \in gos : g.slot \in DOMAIN ring
    /\ orphans \subseteq [task : Tasks, epoch : Nat, writing : BOOLEAN]
    /\ releasing \subseteq Tasks
    /\ doubled \in [Tasks -> 0 .. MaxDoubles]

(* Slot is a position of a non-empty ring.                                 *)
LEMMA SlotInRing ==
    ASSUME TypeInv, ring # <<>> PROVE Slot \in DOMAIN ring /\ Slot \in Nat
  <1>1. Len(ring) \in Nat /\ Len(ring) > 0
    BY SMTT(30) DEF TypeInv
  <1>2. cursor + off \in Nat
    BY SMTT(30) DEF TypeInv
  <1>3. (cursor + off) % Len(ring) \in 0 .. (Len(ring) - 1)
    BY SMTT(30), <1>1, <1>2
  <1> QED
    BY SMTT(30), <1>1, <1>3 DEF Slot, TypeInv

\* What a slot of the ring holds.
LEMMA RingAt ==
    ASSUME TypeInv, NEW i \in DOMAIN ring
    PROVE  ring[i] \in Ring /\ ring[i].pair \in Pairs /\ ring[i].inFlight \in Int
  <1>1. ring \in Seq(Ring)
    BY DEF TypeInv
  <1>2. ring[i] \in Ring
    BY SMTT(30), <1>1
  <1> QED
    BY <1>2 DEF Ring

(* A counter of the ring changes by an integer.                            *)
LEMMA CounterSet ==
    ASSUME TypeInv, NEW i \in DOMAIN ring, NEW n \in Int
    PROVE  /\ [ring EXCEPT ![i].inFlight = n] \in Seq(Ring)
           /\ DOMAIN [ring EXCEPT ![i].inFlight = n] = DOMAIN ring
           /\ Len([ring EXCEPT ![i].inFlight = n]) = Len(ring)
  <1>1. ring \in Seq(Ring) /\ ring[i] \in Ring
    BY SMTT(30) DEF TypeInv
  <1>2. [ring[i] EXCEPT !.inFlight = n] \in Ring
    BY <1>1 DEF Ring
  <1> QED
    BY SMTT(30), <1>1, <1>2

\* Setting the in-flight counter of one slot of the ring leaves the rest alone.
LEMMA CounterChanged ==
    ASSUME TypeInv, NEW i \in DOMAIN ring, NEW n \in Int, NEW q,
           q = [ring EXCEPT ![i].inFlight = n]
    PROVE  /\ DOMAIN q = DOMAIN ring
           /\ \A j \in DOMAIN ring : q[j].pair = ring[j].pair
           /\ \A j \in DOMAIN ring \ {i} : q[j].inFlight = ring[j].inFlight
           /\ q[i].inFlight = n
  <1>1. ring[i] \in Ring
    BY RingAt
  <1>2. q[i] = [ring[i] EXCEPT !.inFlight = n] /\ \A j \in DOMAIN ring \ {i} : q[j] = ring[j]
    OBVIOUS
  <1>3. q[i].pair = ring[i].pair /\ q[i].inFlight = n
    BY <1>1, <1>2 DEF Ring
  <1> QED
    BY <1>2, <1>3

(* drainNewPairs keeps the slots of the ring and its types.                *)
LEMMA AddedKeeps ==
    ASSUME TypeInv, NEW p \in Pairs
    PROVE  /\ Added(ring, p) \in Seq(Ring)
           /\ DOMAIN ring \subseteq DOMAIN Added(ring, p)
           /\ \A i \in DOMAIN ring : Added(ring, p)[i] = ring[i]
  <1>1. [pair |-> p, inFlight |-> 0] \in Ring
    BY SMTT(30) DEF Ring
  <1> QED
    BY SMTT(30), <1>1 DEF Added, TypeInv

(* A batch is a finite set of rows that are free, of the pair at Slot.     *)
LEMMA BatchFinite ==
    ASSUME NEW b \in SUBSET Claimable
    PROVE  b \subseteq Tasks /\ IsFiniteSet(b) /\ Cardinality(b) \in Nat
  <1>1. b \subseteq Tasks
    BY DEF Claimable
  <1>2. IsFiniteSet(b)
    BY ZenonT(60), <1>1, SetsAssumption, FS_Subset
  <1> QED
    BY <1>1, <1>2, FS_CardinalityType
(* The steps of a goroutine that has not ended yet.                        *)
Works(g) ==
    \/ StageReturns(g) \/ ApplyCompose(g) \/ Report(g) \/ Deadline(g) \/ Abandoned(g)
    \/ FreeSlot(g) \/ GoSilent(g) \/ StreamDrops(g)

(* The steps that change neither the rows nor the goroutines nor the ring. *)
Apart ==
    \/ BeginSweep \/ SkipPair \/ Decide \/ Wake \/ LeaveLoop \/ JoinTasks \/ JoinHeartbeat
    \/ Beat \/ BeatFails \/ EndHeartbeat \/ AddPairLive \/ TriggerLive \/ Notify
    \/ Stop \/ DrainGraceElapses
    \/ (\E p \in Pairs : GateShuts(p) \/ GateOpens(p))
    \/ UNCHANGED vars

(* The steps that change rows only.                                        *)
RowStep(t) == ReleaseTask(t) \/ Reap(t) \/ OtherTakes(t) \/ OtherEnds(t) \/ DrainOutbox(t)

(* A row step frees, hands over or ends one row; one that is gone stays.   *)
LEMMA RowStepIs ==
    ASSUME TypeInv, NEW t \in Tasks, RowStep(t)
    PROVE  \E r \in [epoch : Nat, holder : Holders] :
              /\ row' = row \/ row' = [row EXCEPT ![t] = r]
              /\ row[t].epoch <= r.epoch
              /\ r.holder # "me"
              /\ row[t].holder = "gone" => r.holder = "gone"
  <1>1. row[t] \in [epoch : Nat, holder : Holders]
    BY DEF TypeInv
  <1> DEFINE freed == [epoch |-> row[t].epoch + 1, holder |-> "free"]
             taken == [epoch |-> row[t].epoch + 1, holder |-> "other"]
             gone == [epoch |-> row[t].epoch, holder |-> "gone"]
  <1>2. /\ freed \in [epoch : Nat, holder : Holders]
        /\ freed.epoch = row[t].epoch + 1 /\ freed.holder = "free"
    BY SMTT(30), <1>1 DEF Holders
  <1>3. /\ taken \in [epoch : Nat, holder : Holders]
        /\ taken.epoch = row[t].epoch + 1 /\ taken.holder = "other"
    BY SMTT(30), <1>1 DEF Holders
  <1>4. /\ gone \in [epoch : Nat, holder : Holders]
        /\ gone.epoch = row[t].epoch /\ gone.holder = "gone"
    BY <1>1 DEF Holders
  <1>5. row[t].epoch \in Nat
    BY <1>1
  <1>6. CASE row' = [row EXCEPT ![t] = freed] /\ row[t].holder # "gone"
    <2> HIDE DEF freed
    <2>1. row[t].epoch <= freed.epoch /\ freed.holder # "me"
      BY SMTT(30), <1>2, <1>5
    <2> QED
      BY <1>2, <1>6, <2>1, Zenon
  <1>7. CASE row' = [row EXCEPT ![t] = taken] /\ row[t].holder # "gone"
    <2> HIDE DEF taken
    <2>1. row[t].epoch <= taken.epoch /\ taken.holder # "me"
      BY SMTT(30), <1>3, <1>5
    <2> QED
      BY <1>3, <1>7, <2>1, Zenon
  <1>8. CASE row' = [row EXCEPT ![t] = gone] \/ row' = row
    <2> HIDE DEF gone
    <2> QED
      BY SMTT(30), <1>4, <1>5, <1>8
  <1> QED
    BY <1>6, <1>7, <1>8
        DEF RowStep, ReleaseTask, Reap, OtherTakes, OtherEnds, DrainOutbox, Freed

(* Every step is one of these.                                             *)
LEMMA Cases ==
    ASSUME [Next]_vars
    PROVE  \/ Apart \/ DrainNewPairs \/ TakeBatch \/ TakeBatchFails \/ ReleaseClaims \/ Exit
           \/ (\E g \in gos : Works(g) \/ Trigger(g))
           \/ (\E o \in orphans : OrphanEnds(o))
           \/ (\E t \in Tasks : RowStep(t))
  BY DEF Next, RunStep, TaskStep, Works, Apart, RowStep

\* The steps apart change no row, result, goroutine or counter of the ring.
LEMMA ApartUnchanged ==
    ASSUME Apart PROVE UNCHANGED <<row, outbox, outcomes, deployment, ring, taskVars, inFlight>>
  BY DEF Apart, BeginSweep, SkipPair, Decide, Wake, LeaveLoop, JoinTasks, JoinHeartbeat, Beat,
      BeatFails, EndHeartbeat, AddPairLive, TriggerLive, Notify, Stop, DrainGraceElapses,
      GateShuts, GateOpens, vars, database, taskVars, runVars, podVars, beatVars, deployment

(* A working goroutine keeps its task, its claim's epoch and its slot.     *)
LEMMA WorksReplaces ==
    ASSUME TypeInv, NEW g \in gos, Works(g)
    PROVE  \E h \in Goroutines :
              /\ gos' = (gos \ {g}) \cup {h}
              /\ h.task = g.task /\ h.epoch = g.epoch /\ h.slot = g.slot
              /\ h.at = "trigger" <=> FreeSlot(g)
  <1>1. g \in Goroutines
    BY DEF TypeInv
  <1>2. ASSUME NEW s \in Stages
        PROVE  LET h == [g EXCEPT !.at = s] IN
               h \in Goroutines /\ h.task = g.task /\ h.epoch = g.epoch /\ h.slot = g.slot /\ h.at = s
    BY <1>1 DEF Goroutines
  <1>3. CASE StageReturns(g) \/ ApplyCompose(g) \/ Report(g) \/ Deadline(g) \/ Abandoned(g) \/ StreamDrops(g)
    <2>1. PICK s \in Stages \ {"trigger"} : Move(g, s)
      BY <1>3 DEF StageReturns, ApplyCompose, Report, Deadline, Abandoned, StreamDrops, Stages
    <2>2. ~FreeSlot(g)
      BY <1>3, <1>1, <2>1 DEF StageReturns, ApplyCompose, Report, Deadline, Abandoned, StreamDrops, FreeSlot
    <2> QED
      BY <1>2, <2>1, <2>2 DEF Move
  <1>4. CASE FreeSlot(g)
    BY <1>2, <1>4 DEF FreeSlot, Move, Stages
  <1>5. CASE GoSilent(g)
    <2> DEFINE h == [g EXCEPT !.silent = TRUE]
    <2>1. h \in Goroutines /\ h.task = g.task /\ h.epoch = g.epoch /\ h.slot = g.slot /\ h.at = g.at
      BY <1>1 DEF Goroutines
    <2>2. g.at # "trigger" /\ ~FreeSlot(g) /\ gos' = (gos \ {g}) \cup {h}
      BY <1>5 DEF GoSilent, FreeSlot
    <2> HIDE DEF h
    <2> QED
      BY <2>1, <2>2
  <1> QED
    BY <1>3, <1>4, <1>5 DEF Works

\* A fenced append keeps the types of the outbox and of the outcomes.
LEMMA AppendTypes ==
    ASSUME TypeInv, NEW x, x.task \in Tasks, AppendOutbox(x)
    PROVE  outbox' \subseteq Tasks /\ outcomes' \in [Tasks -> Nat]
  <1>1. outcomes[x.task] + 1 \in Nat
    BY SMTT(30) DEF TypeInv
  <1>2. [outcomes EXCEPT ![x.task] = outcomes[x.task] + 1] \in [Tasks -> Nat]
    BY <1>1 DEF TypeInv
  <1> QED
    BY ZenonT(60), <1>2 DEF AppendOutbox, TypeInv

(* A step keeps the types, and the goroutines their slots of the ring.     *)
LEMMA TypeStep == TypeInv /\ [Next]_vars => TypeInv'
  <1> SUFFICES ASSUME TypeInv, [Next]_vars PROVE TypeInv'
    OBVIOUS
  <1> USE DEF database, taskVars, runVars, podVars, beatVars, deployment
  <1>1. CASE Apart
    <2>1. /\ newPairs' \in Seq(Pairs) /\ announced' \in Seq(Pairs)
          /\ off' \in Nat /\ cursor' \in Nat
          /\ loop' = "sweep" => ring # <<>>
      <3>1. CASE SkipPair
        <4>1. ring # <<>> /\ Len(ring) \in Nat /\ Len(ring) > 0
          BY SMTT(30), <3>1 DEF SkipPair, TypeInv
        <4>2. (cursor + 1) % Len(ring) \in Nat
          BY SMTT(30), <4>1 DEF TypeInv
        <4> QED
          BY SMTT(30), <3>1, <4>1, <4>2 DEF SkipPair, Advance, TypeInv
      <3>2. CASE AddPairLive
        <4>1. announced \in Seq(Pairs) /\ announced # <<>> /\ newPairs \in Seq(Pairs)
          BY <3>2 DEF AddPairLive, TypeInv
        <4>2. Head(announced) \in Pairs /\ Tail(announced) \in Seq(Pairs)
          BY SMTT(30), <4>1
        <4>3. Append(newPairs, Head(announced)) \in Seq(Pairs)
          BY SMTT(30), <4>1, <4>2
        <4> QED
          BY <3>2, <4>1, <4>2, <4>3 DEF AddPairLive, TypeInv
      <3>3. CASE UNCHANGED vars
        BY <3>3 DEF vars, TypeInv
      <3>4. CASE ~SkipPair /\ ~AddPairLive /\ ~UNCHANGED vars
        BY <1>1, <3>4 DEF Apart, BeginSweep, Decide, Wake, LeaveLoop, JoinTasks, JoinHeartbeat,
            Beat, BeatFails, EndHeartbeat, TriggerLive, Notify, Stop, DrainGraceElapses,
            GateShuts, GateOpens, TypeInv
      <3> QED
        BY ZenonT(60), <3>1, <3>2, <3>3, <3>4
    <2> QED
      BY <1>1, <2>1, ApartUnchanged DEF TypeInv
  <1>2. CASE DrainNewPairs
    <2>1. Head(newPairs) \in Pairs /\ Tail(newPairs) \in Seq(Pairs)
      BY SMTT(30), <1>2 DEF DrainNewPairs, TypeInv
    <2> QED
      BY <1>2, <2>1, AddedKeeps DEF DrainNewPairs, TypeInv
  <1>3. CASE TakeBatch
    <2>1. ring # <<>> /\ Slot \in DOMAIN ring /\ Slot \in Nat
      BY <1>3, SlotInRing DEF TakeBatch, TypeInv
    <2>2. PICK b \in Batches :
             /\ Taken(b)
             /\ ring' = [ring EXCEPT ![Slot].inFlight = @ + Cardinality(b)]
             /\ gos' = gos \cup Launched(b)
             /\ Advance(claimed \/ b # {})
      BY <1>3 DEF TakeBatch
    <2>3. b \in SUBSET Claimable
      BY <2>2 DEF Batches
    <2>4. b \subseteq Tasks /\ Cardinality(b) \in Nat
      BY <2>3, BatchFinite
    <2>5. ring[Slot].inFlight \in Int
      BY <2>1, RingAt
    <2>6. ring' \in Seq(Ring) /\ DOMAIN ring' = DOMAIN ring /\ Len(ring') = Len(ring)
      BY SMTT(30), <2>1, <2>2, <2>4, <2>5, CounterSet
    <2>7. row' \in [Tasks -> [epoch : Nat, holder : Holders]]
      BY SMTT(30), <2>2, <2>4 DEF Taken, TypeInv, Holders
    <2>8. Launched(b) \subseteq Goroutines /\ \A g \in Launched(b) : g.slot \in DOMAIN ring
      <3>1. \A t \in b : row[t].epoch + 1 \in Nat
        BY SMTT(30), <2>4 DEF TypeInv
      <3>2. \A t \in Tasks, n \in Nat, i \in Nat, c \in Stages :
               [task |-> t, epoch |-> n, slot |-> i, silent |-> FALSE, at |-> c] \in Goroutines
        BY Zenon DEF Goroutines
      <3>3. \A t \in b : (IF t \in Composing THEN "compose" ELSE "work") \in Stages
        BY DEF Stages
      <3>4. Launched(b) \subseteq Goroutines
        <4> SUFFICES ASSUME NEW t \in b
                     PROVE  [task |-> t, epoch |-> row[t].epoch + 1, slot |-> Slot, silent |-> FALSE,
                             at |-> IF t \in Composing THEN "compose" ELSE "work"] \in Goroutines
          BY DEF Launched
        <4>1. t \in Tasks /\ row[t].epoch + 1 \in Nat
          BY <2>4, <3>1
        <4> QED
          BY <2>1, <3>2, <3>3, <4>1, Zenon
      <3>5. \A g \in Launched(b) : g.slot = Slot
        BY SMTT(30) DEF Launched
      <3> QED
        BY <2>1, <3>4, <3>5
    <2>9. Len(ring) \in Nat /\ Len(ring) > 0 /\ ring' # <<>>
      BY SMTT(30), <2>1, <2>6 DEF TypeInv
    <2>10. (cursor + 1) % Len(ring) \in Nat
      BY SMTT(30), <2>9 DEF TypeInv
    <2>11. off' \in Nat /\ cursor' \in Nat
      BY SMTT(30), <2>2, <2>9, <2>10 DEF Advance, TypeInv
    <2> QED
      BY <1>3, <2>2, <2>6, <2>7, <2>8, <2>9, <2>11 DEF TakeBatch, TypeInv
  <1>4. CASE TakeBatchFails
    <2>1. row' \in [Tasks -> [epoch : Nat, holder : Holders]]
      BY SMTT(30), <1>4 DEF TakeBatchFails, Taken, TypeInv, Holders
    <2> QED
      BY <1>4, <2>1 DEF TakeBatchFails, TypeInv
  <1>5. ASSUME NEW g \in gos, Works(g) PROVE TypeInv'
    <2>1. g \in Goroutines /\ g.task \in Tasks /\ g.slot \in DOMAIN ring
      BY DEF TypeInv, Goroutines
    <2>2. ring' \in Seq(Ring) /\ DOMAIN ring' = DOMAIN ring /\ (ring # <<>> => ring' # <<>>)
      <3>1. CASE FreeSlot(g)
        <4>1. ring[g.slot].inFlight - 1 \in Int
          BY SMTT(30), <2>1, RingAt
        <4>2. /\ ring' = [ring EXCEPT ![g.slot].inFlight = ring[g.slot].inFlight - 1]
          BY <3>1 DEF FreeSlot
        <4>3. ring' \in Seq(Ring) /\ DOMAIN ring' = DOMAIN ring /\ Len(ring') = Len(ring)
          BY ZenonT(60), <2>1, <4>1, <4>2, CounterSet
        <4> QED
          BY SMTT(30), <4>3 DEF TypeInv
      <3>2. CASE ~FreeSlot(g)
        BY <1>5, <3>2 DEF Works, StageReturns, ApplyCompose, Report, Deadline, Abandoned, GoSilent,
            StreamDrops, TypeInv
      <3> QED
        BY <3>1, <3>2
    <2>3. gos' \subseteq Goroutines /\ \A h \in gos' : h.slot \in DOMAIN ring
      BY SMTT(30), <1>5, <2>1, WorksReplaces DEF TypeInv
    <2>4. orphans' \subseteq [task : Tasks, epoch : Nat, writing : BOOLEAN]
      <3>1. [task |-> g.task, epoch |-> g.epoch, writing |-> g.at = "append"]
               \in [task : Tasks, epoch : Nat, writing : BOOLEAN]
        BY <2>1 DEF Goroutines
      <3>2. CASE Deadline(g)
        BY <3>1, <3>2 DEF Deadline, TypeInv
      <3>3. CASE ~Deadline(g)
        BY <1>5, <3>3 DEF Works, StageReturns, ApplyCompose, Report, Abandoned, FreeSlot,
            GoSilent, StreamDrops, TypeInv
      <3> QED
        BY <3>2, <3>3
    <2>5. releasing' \subseteq Tasks
      BY <1>5, <2>1 DEF Works, StageReturns, ApplyCompose, Report, Deadline, Abandoned,
          FreeSlot, GoSilent, StreamDrops, TypeInv
    <2>7. outbox' \subseteq Tasks /\ outcomes' \in [Tasks -> Nat]
      <3>1. UNCHANGED <<outbox, outcomes>> \/ AppendOutbox(g)
        BY <1>5 DEF Works, StageReturns, ApplyCompose, Report, Deadline, Abandoned, FreeSlot,
            GoSilent, StreamDrops
      <3> QED
        BY <2>1, <3>1, AppendTypes DEF TypeInv
    <2>6. UNCHANGED <<row, pairOf, maxParallel, newPairs, announced, off, cursor, loop, doubled>>
      BY <1>5 DEF Works, StageReturns, ApplyCompose, Report, Deadline, Abandoned, FreeSlot,
          GoSilent, StreamDrops
    <2> QED
      BY <2>2, <2>3, <2>4, <2>5, <2>6, <2>7 DEF TypeInv
  <1>6. ASSUME NEW g \in gos, Trigger(g) PROVE TypeInv'
    BY <1>6 DEF Trigger, TypeInv
  <1>7. ASSUME NEW o \in orphans, OrphanEnds(o) PROVE TypeInv'
    <2>1. o.task \in Tasks
      BY DEF TypeInv
    <2>2. outbox' \subseteq Tasks /\ outcomes' \in [Tasks -> Nat]
      BY <1>7, <2>1, AppendTypes DEF OrphanEnds, TypeInv
    <2> QED
      BY <1>7, <2>2 DEF OrphanEnds, TypeInv
  <1>8. ASSUME NEW t \in Tasks, RowStep(t) PROVE TypeInv'
    <2>1. row[t] \in [epoch : Nat, holder : Holders]
      BY DEF TypeInv
    <2>2. row' \in [Tasks -> [epoch : Nat, holder : Holders]]
      <3>1. PICK r \in [epoch : Nat, holder : Holders] : row' = row \/ row' = [row EXCEPT ![t] = r]
        BY <1>8, RowStepIs
      <3> QED
        BY <3>1 DEF TypeInv
    <2>3. doubled' \in [Tasks -> 0 .. MaxDoubles]
      <3>1. LosesClaim(t) \/ UNCHANGED doubled
        BY <1>8 DEF RowStep, ReleaseTask, Reap, OtherTakes, OtherEnds, DrainOutbox
      <3>2. CASE LosesClaim(t)
        BY SMTT(30), <3>2, BoundsAssumption DEF LosesClaim, TypeInv
      <3> QED
        BY <3>1, <3>2 DEF TypeInv
    <2> QED
      BY <1>8, <2>2, <2>3 DEF RowStep, ReleaseTask, Reap, OtherTakes, OtherEnds, DrainOutbox, TypeInv
  <1>9. CASE ReleaseClaims
    BY SMTT(30), <1>9 DEF ReleaseClaims, TypeInv, Holders
  <1>10. CASE Exit
    BY SMTT(30), <1>10 DEF Exit, TypeInv
  <1> QED
    BY <1>1, <1>2, <1>3, <1>4, <1>5, <1>6, <1>7, <1>8, <1>9, <1>10, Cases

\* The dispatcher starts well typed.
LEMMA TypeInit == Init => TypeInv
  <1> SUFFICES ASSUME Init PROVE TypeInv
    OBVIOUS
  <1>1. PICK d \in Deployments :
           /\ row = [t \in Tasks |-> [epoch |-> 1, holder |-> IF t \in d.queued THEN "free" ELSE "gone"]]
           /\ pairOf = d.pairOf /\ maxParallel = d.maxParallel /\ announced = d.announced
           /\ ring = [i \in 1 .. Len(d.boot) |-> [pair |-> d.boot[i], inFlight |-> 0]]
    BY DEF Init
  <1>2. /\ d.pairOf \in [Tasks -> Pairs] /\ d.maxParallel \in Nat
        /\ d.boot \in Seq(Pairs) /\ d.announced \in Seq(Pairs)
    BY DeploymentsAssumption
  <1>3. ring \in Seq(Ring)
    BY SMTT(30), <1>1, <1>2 DEF Ring
  <1> QED
    BY SMTT(30), <1>1, <1>2, <1>3, BoundsAssumption DEF Init, TypeInv, Holders

-----------------------------------------------------------------------------
(* One result for a task.                                                  *)

(* The inductive invariant: a task with a result still has it undrained,   *)
(* or its row is gone, and a row that is gone is never held again.         *)
OutcomeInv ==
    \A t \in Tasks :
        /\ outcomes[t] <= 1
        /\ t \in outbox => outcomes[t] = 1
        /\ outcomes[t] = 1 => t \in outbox \/ row[t].holder = "gone"

(* AppendOutbox keeps it: its fence wants a held row with no undrained     *)
(* result, so the task has none yet.                                       *)
LEMMA AppendKeepsOutcomes ==
    ASSUME TypeInv, OutcomeInv, NEW x, x.task \in Tasks, AppendOutbox(x), row' = row
    PROVE  OutcomeInv'
  <1>1. CASE row[x.task] = [epoch |-> x.epoch, holder |-> "me"] /\ x.task \notin outbox
    <2>1. row[x.task].holder = "me"
      BY SMTT(30), <1>1
    <2>2. outcomes[x.task] \in Nat /\ outcomes[x.task] <= 1 /\ outcomes[x.task] # 1
      BY <1>1, <2>1 DEF OutcomeInv, TypeInv
    <2>3. outcomes[x.task] = 0
      BY SMTT(30), <2>2
    <2>4. outbox' = outbox \cup {x.task} /\ outcomes' = [outcomes EXCEPT ![x.task] = 1]
      BY SMTT(30), <1>1, <2>3 DEF AppendOutbox
    <2>5. outcomes'[x.task] = 1 /\ \A t \in Tasks \ {x.task} : outcomes'[t] = outcomes[t]
      BY <2>4 DEF TypeInv
    <2> QED
      BY SMTT(30), <2>4, <2>5 DEF OutcomeInv
  <1>2. CASE ~(row[x.task] = [epoch |-> x.epoch, holder |-> "me"] /\ x.task \notin outbox)
    BY SMTT(30), <1>2 DEF AppendOutbox, OutcomeInv
  <1> QED
    BY <1>1, <1>2

(* One step keeps it.                                                      *)
LEMMA OutcomeStep == TypeInv /\ OutcomeInv /\ [Next]_vars => OutcomeInv'
  <1> SUFFICES ASSUME TypeInv, OutcomeInv, [Next]_vars PROVE OutcomeInv'
    OBVIOUS
  <1> USE DEF database, taskVars, runVars, podVars, beatVars, deployment
  <1>1. ASSUME UNCHANGED <<outbox, outcomes>>,
               \A t \in Tasks : row[t].holder = "gone" => row'[t].holder = "gone"
        PROVE  OutcomeInv'
    BY <1>1 DEF OutcomeInv
  <1>2. CASE Apart
    BY <1>1, <1>2, ApartUnchanged
  <1>3. CASE DrainNewPairs
    BY <1>1, <1>3 DEF DrainNewPairs
  <1>4. CASE TakeBatch \/ TakeBatchFails
    <2>1. row' = row \/ \E b \in SUBSET Claimable : Taken(b)
      BY <1>4 DEF TakeBatch, TakeBatchFails, Batches
    <2>2. \A t \in Tasks : row[t].holder = "gone" => row'[t].holder = "gone"
      BY <2>1 DEF Taken, Claimable
    <2> QED
      BY <1>1, <1>4, <2>2 DEF TakeBatch, TakeBatchFails
  <1>5. ASSUME NEW g \in gos, Works(g) \/ Trigger(g) PROVE OutcomeInv'
    <2>1. g.task \in Tasks
      BY DEF TypeInv, Goroutines
    <2>2. row' = row /\ (UNCHANGED <<outbox, outcomes>> \/ AppendOutbox(g))
      BY ZenonT(60), <1>5 DEF Works, StageReturns, ApplyCompose, Report, Deadline, Abandoned, FreeSlot,
          GoSilent, StreamDrops, Trigger
    <2> QED
      BY <1>1, <2>1, <2>2, AppendKeepsOutcomes
  <1>6. ASSUME NEW o \in orphans, OrphanEnds(o) PROVE OutcomeInv'
    <2>1. o.task \in Tasks
      BY DEF TypeInv
    <2>2. row' = row /\ (UNCHANGED <<outbox, outcomes>> \/ AppendOutbox(o))
      BY <1>6 DEF OrphanEnds
    <2> QED
      BY <1>1, <2>1, <2>2, AppendKeepsOutcomes
  <1>7. ASSUME NEW t \in Tasks, RowStep(t) PROVE OutcomeInv'
    <2>1. CASE DrainOutbox(t)
      BY <2>1 DEF DrainOutbox, OutcomeInv, TypeInv
    <2>2. CASE ~DrainOutbox(t)
      <3>1. UNCHANGED <<outbox, outcomes>>
        BY <1>7, <2>2 DEF RowStep, ReleaseTask, Reap, OtherTakes, OtherEnds
      <3>2. \A u \in Tasks : row[u].holder = "gone" => row'[u].holder = "gone"
        BY <1>7, RowStepIs DEF TypeInv
      <3> QED
        BY <1>1, <3>1, <3>2
    <2> QED
      BY <2>1, <2>2
  <1>8. CASE ReleaseClaims
    BY <1>1, <1>8 DEF ReleaseClaims
  <1>9. CASE Exit
    BY <1>1, <1>9 DEF Exit
  <1> QED
    BY <1>2, <1>3, <1>4, <1>5, <1>6, <1>7, <1>8, <1>9, Cases

(* In every behaviour a task has at most one recorded result: what runOne  *)
(* reports at a deadline and what a late dispatch appends never both count *)
(* (AppendOutbox, drain_outbox_batch).                                     *)
THEOREM OneOutcomeHolds == Spec => []OneOutcome
  <1>1. Init => OutcomeInv
    BY SMTT(30) DEF Init, OutcomeInv
  <1>2. OutcomeInv => OneOutcome
    BY DEF OutcomeInv, OneOutcome
  <1> QED
    BY <1>1, <1>2, TypeInit, TypeStep, OutcomeStep, PTL DEF Spec

-----------------------------------------------------------------------------
(* The ceiling.                                                            *)

(* A goroutine is known by its task and its claim's epoch: a new claim has *)
(* an epoch no goroutine has.                                              *)
ClaimInv ==
    /\ IsFiniteSet(gos)
    /\ \A g \in gos : g.epoch <= row[g.task].epoch
    /\ \A g, h \in gos : g.task = h.task /\ g.epoch = h.epoch => g = h

(* No step takes an epoch back.                                            *)
LEMMA EpochsGrow ==
    ASSUME TypeInv, [Next]_vars PROVE \A t \in Tasks : row[t].epoch <= row'[t].epoch
  <1> USE DEF database, taskVars, runVars, podVars, beatVars, deployment
  <1>1. \A t \in Tasks : row[t].epoch \in Nat
    BY DEF TypeInv
  <1>2. CASE row' = row
    BY SMTT(30), <1>1, <1>2
  <1>3. CASE TakeBatch \/ TakeBatchFails
    <2>1. row' = row \/ \E b \in SUBSET Tasks : Taken(b)
      BY <1>3 DEF TakeBatch, TakeBatchFails, Batches, Claimable
    <2> QED
      BY SMTT(30), <1>1, <2>1 DEF Taken
  <1>4. ASSUME NEW t \in Tasks, RowStep(t) PROVE \A u \in Tasks : row[u].epoch <= row'[u].epoch
    <2>1. PICK r \in [epoch : Nat, holder : Holders] :
             (row' = row \/ row' = [row EXCEPT ![t] = r]) /\ row[t].epoch <= r.epoch
      BY <1>4, RowStepIs
    <2>2. CASE row' = [row EXCEPT ![t] = r]
      <3>1. row'[t] = r /\ \A u \in Tasks \ {t} : row'[u] = row[u]
        BY <2>2 DEF TypeInv
      <3> QED
        BY SMTT(30), <1>1, <2>1, <3>1
    <2> QED
      BY <1>2, <2>1, <2>2
  <1>5. CASE ReleaseClaims
    BY SMTT(30), <1>1, <1>5 DEF ReleaseClaims
  <1>6. CASE DrainNewPairs \/ Exit \/ \E o \in orphans : OrphanEnds(o)
    BY <1>2, <1>6 DEF DrainNewPairs, Exit, OrphanEnds
  <1>7. ASSUME NEW g \in gos, Works(g) \/ Trigger(g) PROVE row' = row
    BY <1>7 DEF Works, StageReturns, ApplyCompose, Report, Deadline, Abandoned, FreeSlot,
        GoSilent, StreamDrops, Trigger
  <1> QED
    BY <1>2, <1>3, <1>4, <1>5, <1>6, <1>7, Cases, ApartUnchanged

(* What a batch starts: one goroutine for each row, and each a new one.    *)
LEMMA LaunchedIsNew ==
    ASSUME TypeInv, ClaimInv, ring # <<>>, NEW b \in SUBSET Claimable
    PROVE  /\ IsFiniteSet(Launched(b)) /\ Cardinality(Launched(b)) = Cardinality(b)
           /\ \A g \in Launched(b) :
                 /\ g.task \in b /\ g.epoch = row[g.task].epoch + 1
                 /\ g.slot = Slot /\ g.at \in {"compose", "work"}
           /\ \A g, h \in Launched(b) : g.task = h.task => g = h
           /\ gos \cap Launched(b) = {}
  <1> DEFINE go(t) == [task |-> t, epoch |-> row[t].epoch + 1, slot |-> Slot, silent |-> FALSE,
                       at |-> IF t \in Composing THEN "compose" ELSE "work"]
             f == [t \in b |-> go(t)]
  <1>1. b \subseteq Tasks /\ IsFiniteSet(b)
    BY BatchFinite
  <1>2. Launched(b) = {f[t] : t \in b}
    BY DEF Launched
  <1>3. \A t \in b : /\ f[t].task = t /\ f[t].epoch = row[t].epoch + 1
                     /\ f[t].slot = Slot /\ f[t].at \in {"compose", "work"}
    OBVIOUS
  <1>4. f \in Bijection(b, Launched(b))
    <2>1. f \in [b -> Launched(b)]
      BY <1>2
    <2>2. \A t, u \in b : f[t] = f[u] => t = u
      BY <1>3
    <2> HIDE DEF f
    <2> QED
      BY <1>2, <2>1, <2>2 DEF Bijection, Injection, Surjection, IsInjective
  <1>5. IsFiniteSet(Launched(b)) /\ Cardinality(Launched(b)) = Cardinality(b)
    <2>1. ExistsBijection(b, Launched(b))
      BY <1>4 DEF ExistsBijection
    <2> QED
      BY <1>1, <2>1, FS_Bijection
  <1>6. \A g \in gos : g.task \in Tasks /\ g.epoch \in Nat /\ g.epoch # row[g.task].epoch + 1
    BY SMTT(30) DEF TypeInv, ClaimInv, Goroutines
  <1> HIDE DEF f
  <1> QED
    BY SMTT(30), <1>2, <1>3, <1>5, <1>6

(* A step leaves the goroutines, ends some, moves one on or starts a batch *)
(* of new ones.                                                            *)
LEMMA GoroutineCases ==
    ASSUME TypeInv, [Next]_vars
    PROVE  \/ gos' \subseteq gos
           \/ \E g \in gos : Works(g)
           \/ TakeBatch
  <1> USE DEF database, taskVars, runVars, podVars, beatVars, deployment
  <1>1. ASSUME NEW t \in Tasks, RowStep(t) PROVE gos' = gos
    BY <1>1 DEF RowStep, ReleaseTask, Reap, OtherTakes, OtherEnds, DrainOutbox
  <1>2. CASE DrainNewPairs \/ TakeBatchFails \/ ReleaseClaims \/ Exit
    BY <1>2 DEF DrainNewPairs, TakeBatchFails, ReleaseClaims, Exit
  <1>3. ASSUME NEW g \in gos, Trigger(g) PROVE gos' \subseteq gos
    BY <1>3 DEF Trigger
  <1>4. ASSUME NEW o \in orphans, OrphanEnds(o) PROVE gos' = gos
    BY <1>4 DEF OrphanEnds
  <1> QED
    BY <1>1, <1>2, <1>3, <1>4, Cases, ApartUnchanged

(* One step keeps ClaimInv.                                                *)
LEMMA ClaimStep == TypeInv /\ ClaimInv /\ [Next]_vars => ClaimInv'
  <1> SUFFICES ASSUME TypeInv, ClaimInv, [Next]_vars PROVE ClaimInv'
    OBVIOUS
  <1>1. \A t \in Tasks : row[t].epoch \in Nat /\ row'[t].epoch \in Nat /\ row[t].epoch <= row'[t].epoch
    BY EpochsGrow, TypeStep DEF TypeInv
  <1>2. \A g \in gos : g.task \in Tasks /\ g.epoch \in Nat /\ g.epoch <= row'[g.task].epoch
    BY SMTT(30), <1>1 DEF TypeInv, Goroutines, ClaimInv
  <1>3. CASE gos' \subseteq gos
    <2>1. IsFiniteSet(gos')
      BY <1>3, FS_Subset DEF ClaimInv
    <2> QED
      BY <1>2, <1>3, <2>1 DEF ClaimInv
  <1>4. ASSUME NEW g \in gos, Works(g) PROVE ClaimInv'
    <2>1. PICK h \in Goroutines :
             gos' = (gos \ {g}) \cup {h} /\ h.task = g.task /\ h.epoch = g.epoch
      BY <1>4, WorksReplaces
    <2>2. IsFiniteSet(gos')
      BY <2>1, FS_AddElement, FS_RemoveElement DEF ClaimInv
    <2> QED
      BY SMTT(30), <1>2, <2>1, <2>2 DEF ClaimInv
  <1>5. CASE TakeBatch
    <2>1. PICK b \in Batches : Taken(b) /\ gos' = gos \cup Launched(b)
      BY <1>5 DEF TakeBatch
    <2>2. b \in SUBSET Claimable /\ b \subseteq Tasks /\ ring # <<>>
      BY <1>5, <2>1, BatchFinite DEF Batches, TakeBatch, TypeInv
    <2> DEFINE L == Launched(b)
    <2>3. /\ IsFiniteSet(L)
          /\ \A g \in L : g.task \in b /\ g.epoch = row[g.task].epoch + 1
          /\ \A g, h \in L : g.task = h.task => g = h
      BY <2>2, LaunchedIsNew
    <2>4. \A g \in L : g.epoch <= row'[g.task].epoch
      BY SMTT(30), <1>1, <2>1, <2>2, <2>3 DEF Taken
    <2>5. IsFiniteSet(gos')
      BY <2>1, <2>3, FS_Union DEF ClaimInv
    <2>6. \A g \in gos, h \in L : ~(g.task = h.task /\ g.epoch = h.epoch)
      BY SMTT(30), <1>1, <1>2, <2>2, <2>3 DEF ClaimInv
    <2> HIDE DEF L
    <2> QED
      BY SMTT(30), <1>2, <2>1, <2>3, <2>4, <2>5, <2>6 DEF ClaimInv, L
  <1> QED
    BY <1>3, <1>4, <1>5, GoroutineCases

(* The goroutines a counter of the ring stands for.                        *)
OnSlot(i) == {g \in gos : g.at # "trigger" /\ g.slot = i}

(* Every pair has one slot, every goroutine runs on the slot of its task's *)
(* pair, and each counter is exact and within the ceiling.                 *)
CountInv ==
    /\ \A i, j \in DOMAIN ring : ring[i].pair = ring[j].pair => i = j
    /\ \A g \in gos : pairOf[g.task] = ring[g.slot].pair
    /\ \A i \in DOMAIN ring :
          ring[i].inFlight = Cardinality(OnSlot(i)) /\ ring[i].inFlight <= maxParallel

\* Finitely many goroutines are on a slot.
LEMMA OnSlotFinite ==
    ASSUME ClaimInv, NEW i PROVE IsFiniteSet(OnSlot(i)) /\ Cardinality(OnSlot(i)) \in Nat
  <1>1. OnSlot(i) \in SUBSET gos
    BY DEF OnSlot
  <1> QED
    BY <1>1, FS_Subset, FS_CardinalityType DEF ClaimInv

(* The ceiling follows.                                                    *)
LEMMA CountImpliesCeiling == TypeInv /\ ClaimInv /\ CountInv => NeverOverfilled
  <1> SUFFICES ASSUME TypeInv, ClaimInv, CountInv, NEW p \in Pairs
               PROVE  Cardinality({g \in gos : g.at # "trigger" /\ pairOf[g.task] = p}) <= maxParallel
    BY DEF NeverOverfilled
  <1> DEFINE S == {g \in gos : g.at # "trigger" /\ pairOf[g.task] = p}
  <1>1. \A g \in gos : g.slot \in DOMAIN ring
    BY DEF TypeInv
  <1>2. CASE \E i \in DOMAIN ring : ring[i].pair = p
    <2>1. PICK i \in DOMAIN ring : ring[i].pair = p
      BY <1>2
    <2>2. S = OnSlot(i)
      BY SMTT(30), <1>1, <2>1 DEF CountInv, OnSlot
    <2> QED
      BY ZenonT(60), <2>2 DEF CountInv
  <1>3. CASE ~\E i \in DOMAIN ring : ring[i].pair = p
    <2>1. S = {}
      BY SMTT(30), <1>1, <1>3 DEF CountInv
    <2> QED
      <3>1. maxParallel \in Nat /\ Cardinality(S) = 0
        BY <2>1, FS_EmptySet DEF TypeInv
      <3> HIDE DEF S
      <3>2. Cardinality(S) <= maxParallel
        BY SMTT(30), <3>1
      <3> QED
        BY <3>2 DEF S
  <1> QED
    BY <1>2, <1>3

(* The counters stay exact: a step that changes no slot's goroutines ...   *)
LEMMA CountKept ==
    ASSUME TypeInv, CountInv, UNCHANGED <<pairOf, maxParallel, ring>>,
           \A h \in gos' : \E g \in gos : h.task = g.task /\ h.slot = g.slot,
           \A i \in DOMAIN ring : Cardinality(OnSlot(i))' = Cardinality(OnSlot(i))
    PROVE  CountInv'
  <1>1. \A i \in DOMAIN ring : Cardinality(OnSlot(i)') = Cardinality(OnSlot(i))
    OBVIOUS
  <1>2. \A h \in gos' : pairOf'[h.task] = ring'[h.slot].pair
    BY DEF CountInv
  <1> QED
    BY <1>1, <1>2 DEF CountInv

(* ... one that moves a goroutine on ...                                   *)
LEMMA CountWorks ==
    ASSUME TypeInv, ClaimInv, CountInv, NEW g \in gos, Works(g) PROVE CountInv'
  <1> USE DEF database, taskVars, runVars, podVars, beatVars, deployment
  <1>1. PICK h \in Goroutines :
           /\ gos' = (gos \ {g}) \cup {h}
           /\ h.task = g.task /\ h.epoch = g.epoch /\ h.slot = g.slot
           /\ h.at = "trigger" <=> FreeSlot(g)
    BY WorksReplaces
  <1>2. g.at # "trigger" /\ UNCHANGED <<pairOf, maxParallel>>
    BY DEF Works, StageReturns, ApplyCompose, Report, Deadline, Abandoned, FreeSlot, GoSilent, StreamDrops
  <1>3. h \notin gos \ {g}
    BY <1>1 DEF ClaimInv
  <1>4. g \in OnSlot(g.slot) /\ g.slot \in DOMAIN ring
    BY <1>2 DEF OnSlot, TypeInv
  <1>5. CASE FreeSlot(g)
    <2>1. \A i : OnSlot(i)' = OnSlot(i) \ {g}
      BY <1>1, <1>5 DEF OnSlot
    <2>2. \A i : i # g.slot => OnSlot(i)' = OnSlot(i)
      BY <2>1 DEF OnSlot
    <2>3. Cardinality(OnSlot(g.slot)') = Cardinality(OnSlot(g.slot)) - 1
      BY ZenonT(60), <1>4, <2>1, OnSlotFinite, FS_RemoveElement
    <2>4. ring' = [ring EXCEPT ![g.slot].inFlight = ring[g.slot].inFlight - 1]
      BY <1>5 DEF FreeSlot
    <2>5. /\ DOMAIN ring' = DOMAIN ring
          /\ \A i \in DOMAIN ring : ring'[i].pair = ring[i].pair
          /\ \A i \in DOMAIN ring \ {g.slot} : ring'[i].inFlight = ring[i].inFlight
          /\ ring'[g.slot].inFlight = ring[g.slot].inFlight - 1
      <3> DEFINE n == ring[g.slot].inFlight - 1
      <3>1. n \in Int
        BY SMTT(30), <1>4, RingAt
      <3>2. ring' = [ring EXCEPT ![g.slot].inFlight = n]
        BY <2>4
      <3> HIDE DEF n
      <3>3. /\ DOMAIN ring' = DOMAIN ring
            /\ \A i \in DOMAIN ring : ring'[i].pair = ring[i].pair
            /\ \A i \in DOMAIN ring \ {g.slot} : ring'[i].inFlight = ring[i].inFlight
            /\ ring'[g.slot].inFlight = n
        BY SMTT(30), <1>4, <3>1, <3>2, CounterChanged
      <3> QED
        BY <3>3 DEF n
    <2>6. \A i \in DOMAIN ring' :
             ring'[i].inFlight = Cardinality(OnSlot(i)') /\ ring'[i].inFlight <= maxParallel'
      <3> SUFFICES ASSUME NEW i \in DOMAIN ring
                   PROVE  ring'[i].inFlight = Cardinality(OnSlot(i)') /\ ring'[i].inFlight <= maxParallel
        BY <1>2, <2>5
      <3>1. /\ ring[i].inFlight = Cardinality(OnSlot(i)) /\ ring[i].inFlight <= maxParallel
            /\ ring[i].inFlight \in Int /\ maxParallel \in Int
        BY SMTT(30), RingAt DEF CountInv, TypeInv
      <3> QED
        BY SMTT(30), <2>2, <2>3, <2>5, <3>1
    <2>7. \A k \in gos' : pairOf'[k.task] = ring'[k.slot].pair
      <3>1. \A k \in gos : k.slot \in DOMAIN ring /\ pairOf[k.task] = ring[k.slot].pair
        BY DEF CountInv, TypeInv
      <3>2. \A k \in gos' : \E m \in gos : k.task = m.task /\ k.slot = m.slot
        BY <1>1
      <3> QED
        BY SMTT(30), <1>2, <2>5, <3>1, <3>2
    <2>8. \A i, j \in DOMAIN ring' : ring'[i].pair = ring'[j].pair => i = j
      BY <2>5 DEF CountInv
    <2> QED
      BY <2>6, <2>7, <2>8 DEF CountInv
  <1>6. CASE ~FreeSlot(g)
    <2>1. ring' = ring
      BY <1>6 DEF Works, StageReturns, ApplyCompose, Report, Deadline, Abandoned, GoSilent, StreamDrops
    <2>2. \A i : i # g.slot => OnSlot(i)' = OnSlot(i)
      BY <1>1 DEF OnSlot
    <2>3. OnSlot(g.slot)' = (OnSlot(g.slot) \ {g}) \cup {h}
      BY <1>1, <1>6 DEF OnSlot
    <2>4. h \notin OnSlot(g.slot) \ {g}
      BY <1>3 DEF OnSlot
    <2>5. Cardinality(OnSlot(g.slot)') = Cardinality(OnSlot(g.slot))
      <3> DEFINE T == OnSlot(g.slot) \ {g}
      <3>1. /\ IsFiniteSet(T) /\ Cardinality(T) = Cardinality(OnSlot(g.slot)) - 1
            /\ Cardinality(OnSlot(g.slot)) \in Nat
        BY <1>4, OnSlotFinite, FS_RemoveElement
      <3>2. Cardinality(T \cup {h}) = Cardinality(T) + 1
        BY <2>4, <3>1, FS_AddElement
      <3> QED
        BY SMTT(30), <2>3, <3>1, <3>2
    <2>6. \A k \in gos' : \E m \in gos : k.task = m.task /\ k.slot = m.slot
      BY <1>1
    <2> QED
      BY ZenonT(60), <1>2, <2>1, <2>2, <2>5, <2>6, CountKept
  <1> QED
    BY <1>5, <1>6

(* ... and one that starts a batch, which fits into what is free.          *)
LEMMA CountTakes ==
    ASSUME TypeInv, ClaimInv, CountInv, TakeBatch PROVE CountInv'
  <1> USE DEF deployment
  <1>1. PICK b \in Batches :
           /\ ring' = [ring EXCEPT ![Slot].inFlight = ring[Slot].inFlight + Cardinality(b)]
           /\ gos' = gos \cup Launched(b)
    BY DEF TakeBatch
  <1>2. ring # <<>> /\ Free > 0 /\ UNCHANGED <<pairOf, maxParallel>>
    BY DEF TakeBatch, TypeInv
  <1>3. PICK s \in DOMAIN ring : s = Slot
    BY <1>2, SlotInRing
  <1>4. b \in SUBSET Claimable /\ b \subseteq Tasks /\ Cardinality(b) \in Nat
    BY <1>1, BatchFinite DEF Batches
  <1> DEFINE L == Launched(b)
             n == ring[s].inFlight + Cardinality(b)
  <1>5. /\ IsFiniteSet(L) /\ Cardinality(L) = Cardinality(b)
        /\ \A g \in L : g.task \in b /\ g.slot = s /\ g.at \in {"compose", "work"}
        /\ gos \cap L = {}
    BY <1>2, <1>3, <1>4, LaunchedIsNew
  <1>6. /\ ring[s].inFlight \in Int /\ maxParallel \in Nat
        /\ ring[s].inFlight = Cardinality(OnSlot(s))
    BY <1>3, RingAt DEF TypeInv, CountInv
  <1>7. n \in Int /\ n <= maxParallel
    <2>1. Free = maxParallel - ring[s].inFlight
      BY SMTT(30), <1>2, <1>3, <1>6 DEF Free
    <2>2. Cardinality(Claimable) \in Nat
      BY BatchFinite
    <2>3. Cardinality(b) <= Free
      BY SMTT(30), <1>1, <1>6, <2>1, <2>2 DEF Batches
    <2> QED
      BY SMTT(30), <1>4, <1>6, <2>1, <2>3
  <1>8. ring' = [ring EXCEPT ![s].inFlight = n]
    BY <1>1, <1>3
  <1>9. \A i : i # s => OnSlot(i)' = OnSlot(i)
    BY <1>1, <1>5 DEF OnSlot
  <1>10. Cardinality(OnSlot(s)') = n
    <2>1. OnSlot(s)' = OnSlot(s) \cup L /\ OnSlot(s) \cap L = {}
      BY <1>1, <1>5 DEF OnSlot
    <2>2. Cardinality(OnSlot(s) \cup L) = Cardinality(OnSlot(s)) + Cardinality(L) - Cardinality({})
      BY ZenonT(60), <1>5, <2>1, OnSlotFinite, FS_Union
    <2>3. Cardinality({}) = 0 /\ Cardinality(OnSlot(s)) \in Nat
      BY FS_EmptySet, OnSlotFinite
    <2> QED
      BY SMTT(30), <1>4, <1>5, <1>6, <2>1, <2>2, <2>3
  <1>11. \A g \in L : pairOf[g.task] = ring[s].pair
    BY ZenonT(60), <1>3, <1>4, <1>5 DEF Claimable
  <1> HIDE DEF L, n
  <1>12. /\ DOMAIN ring' = DOMAIN ring
         /\ \A i \in DOMAIN ring : ring'[i].pair = ring[i].pair
         /\ \A i \in DOMAIN ring \ {s} : ring'[i].inFlight = ring[i].inFlight
         /\ ring'[s].inFlight = n
    BY SMTT(30), <1>3, <1>7, <1>8, CounterChanged
  <1>13. \A i \in DOMAIN ring' :
            ring'[i].inFlight = Cardinality(OnSlot(i)') /\ ring'[i].inFlight <= maxParallel'
    <2> SUFFICES ASSUME NEW i \in DOMAIN ring
                 PROVE  ring'[i].inFlight = Cardinality(OnSlot(i)') /\ ring'[i].inFlight <= maxParallel
      BY <1>2, <1>12
    <2>1. ring[i].inFlight = Cardinality(OnSlot(i)) /\ ring[i].inFlight <= maxParallel
      BY DEF CountInv
    <2> QED
      BY <1>7, <1>9, <1>10, <1>12, <2>1
  <1>14. \A g \in gos' : pairOf'[g.task] = ring'[g.slot].pair
    <2>1. \A g \in gos : g.slot \in DOMAIN ring /\ pairOf[g.task] = ring[g.slot].pair
      BY DEF TypeInv, CountInv
    <2>2. \A g \in L : g.slot = s /\ pairOf[g.task] = ring[s].pair
      BY <1>5, <1>11
    <2>3. gos' = gos \cup L
      BY <1>1 DEF L
    <2> QED
      BY ZenonT(60), <1>2, <1>3, <1>12, <2>1, <2>2, <2>3
  <1>15. \A i, j \in DOMAIN ring' : ring'[i].pair = ring'[j].pair => i = j
    BY <1>12 DEF CountInv
  <1> QED
    BY <1>13, <1>14, <1>15 DEF CountInv

(* One step keeps CountInv.                                                *)
LEMMA CountStep == TypeInv /\ ClaimInv /\ CountInv /\ [Next]_vars => CountInv'
  <1> SUFFICES ASSUME TypeInv, ClaimInv, CountInv, [Next]_vars PROVE CountInv'
    OBVIOUS
  <1> USE DEF database, taskVars, runVars, podVars, beatVars, deployment
  <1>1. CASE UNCHANGED <<pairOf, maxParallel, ring, gos>>
    BY <1>1 DEF CountInv, OnSlot
  <1>2. ASSUME NEW t \in Tasks, RowStep(t) PROVE UNCHANGED <<pairOf, maxParallel, ring, gos>>
    BY <1>2 DEF RowStep, ReleaseTask, Reap, OtherTakes, OtherEnds, DrainOutbox
  <1>3. CASE TakeBatchFails \/ ReleaseClaims \/ \E o \in orphans : OrphanEnds(o)
    BY <1>1, <1>3 DEF TakeBatchFails, ReleaseClaims, OrphanEnds
  <1>4. CASE DrainNewPairs
    <2>1. Head(newPairs) \in Pairs
      BY SMTT(30), <1>4 DEF DrainNewPairs, TypeInv
    <2> DEFINE p == Head(newPairs)
    <2>2. UNCHANGED <<pairOf, maxParallel, gos>> /\ ring' = Added(ring, p)
      BY <1>4 DEF DrainNewPairs
    <2>3. CASE \E i \in 1 .. Len(ring) : ring[i].pair = p
      BY <1>1, <2>2, <2>3 DEF Added
    <2>4. CASE ~\E i \in 1 .. Len(ring) : ring[i].pair = p
      <3> DEFINE k == Len(ring) + 1
      <3>1. ring' = Append(ring, [pair |-> p, inFlight |-> 0]) /\ ring \in Seq(Ring) /\ maxParallel \in Nat
        BY <2>2, <2>4 DEF Added, TypeInv
      <3>2. /\ DOMAIN ring = 1 .. Len(ring) /\ Len(ring) \in Nat
            /\ DOMAIN ring' = DOMAIN ring \cup {k} /\ k \notin DOMAIN ring
            /\ ring'[k] = [pair |-> p, inFlight |-> 0]
            /\ \A i \in DOMAIN ring : ring'[i] = ring[i]
        BY SMTT(30), <3>1
      <3>3. \A i : OnSlot(i)' = OnSlot(i)
        BY <2>2 DEF OnSlot
      <3>4. \A g \in gos : g.slot \in DOMAIN ring
        BY DEF TypeInv
      <3>5. Cardinality(OnSlot(k)) = 0
        <4>1. OnSlot(k) = {}
          BY <3>2, <3>4 DEF OnSlot
        <4> QED
          BY <4>1, FS_EmptySet
      <3>6. ring'[k].pair = p /\ ring'[k].inFlight = 0
        BY SMTT(30), <3>2
      <3>7. \A i \in DOMAIN ring : ring[i].pair # p
        BY <2>4, <3>2
      <3> HIDE DEF k, p
      <3>8. \A i, j \in DOMAIN ring' : ring'[i].pair = ring'[j].pair => i = j
        BY <3>2, <3>6, <3>7 DEF CountInv
      <3>9. \A g \in gos' : pairOf'[g.task] = ring'[g.slot].pair
        BY ZenonT(60), <2>2, <3>2, <3>4 DEF CountInv
      <3>10. \A i \in DOMAIN ring' :
                ring'[i].inFlight = Cardinality(OnSlot(i)') /\ ring'[i].inFlight <= maxParallel'
        BY SMTT(30), <2>2, <3>1, <3>2, <3>3, <3>5, <3>6 DEF CountInv
      <3> QED
        BY <3>8, <3>9, <3>10 DEF CountInv
    <2> QED
      BY <2>3, <2>4
  <1>5. ASSUME NEW g \in gos, Trigger(g) PROVE CountInv'
    <2>1. gos' = gos \ {g} /\ g.at = "trigger" /\ UNCHANGED <<pairOf, maxParallel, ring>>
      BY <1>5 DEF Trigger
    <2>2. \A i : OnSlot(i)' = OnSlot(i)
      BY <2>1 DEF OnSlot
    <2> QED
      BY <2>1, <2>2, CountKept
  <1>6. CASE Exit
    BY SMTT(30), <1>6 DEF Exit, CountInv
  <1> QED
    BY ZenonT(60), <1>1, <1>2, <1>3, <1>4, <1>5, <1>6, CountWorks, CountTakes, Cases, ApartUnchanged

(* In every behaviour no pair has more tasks running than SetMaxParallel   *)
(* allows, whatever claims are lost and taken back and however often       *)
(* AddPairLive repeats a pair.                                             *)
THEOREM NeverOverfilledHolds == Spec => []NeverOverfilled
  <1>1. Init => ClaimInv
    BY FS_EmptySet DEF Init, ClaimInv
  <1>2. Init => CountInv
    <2> SUFFICES ASSUME Init PROVE CountInv
      OBVIOUS
    <2>1. PICK d \in Deployments :
             /\ maxParallel = d.maxParallel
             /\ ring = [i \in 1 .. Len(d.boot) |-> [pair |-> d.boot[i], inFlight |-> 0]]
      BY DEF Init
    <2>2. IsInjective(d.boot) /\ d.boot \in Seq(Pairs) /\ maxParallel \in Nat
      BY <2>1, DeploymentsAssumption
    <2>3. \A i, j \in 1 .. Len(d.boot) : d.boot[i] = d.boot[j] => i = j
      BY SMTT(30), <2>2 DEF IsInjective
    <2>4. DOMAIN ring = 1 .. Len(d.boot) /\ \A i \in DOMAIN ring : ring[i].pair = d.boot[i] /\ ring[i].inFlight = 0
      BY <2>1
    <2>5. \A i : Cardinality(OnSlot(i)) = 0
      <3>1. \A i : OnSlot(i) = {}
        BY DEF Init, OnSlot
      <3> QED
        BY <3>1, FS_EmptySet
    <2>6. gos = {}
      BY DEF Init
    <2> QED
      BY SMTT(30), <2>2, <2>3, <2>4, <2>5, <2>6 DEF CountInv
  <1> QED
    BY <1>1, <1>2, TypeInit, TypeStep, ClaimStep, CountStep, CountImpliesCeiling, PTL DEF Spec

-----------------------------------------------------------------------------
(* The heartbeat.                                                          *)

(* Until the pod goes down, a task that never lost its claim has the row   *)
(* that its goroutine claimed, so nobody claims it again; it has a single  *)
(* goroutine ...                                                           *)
HoldInv ==
    /\ \A g \in gos :
          doubled[g.task] = 0 /\ ~Cancelled
              => row[g.task].epoch = g.epoch /\ row[g.task].holder \in {"me", "gone"}
    /\ \A g, h \in gos : g.task = h.task /\ doubled[g.task] = 0 => g = h

(* ... and the record of its claim stays in the in-flight set until the    *)
(* goroutine's own completion.                                             *)
RecordInv ==
    /\ \A t \in DOMAIN inFlight : inFlight[t] \in [epoch : Nat, local : BOOLEAN]
    /\ \A g \in gos :
          g.at \notin {"leaving", "trigger"} /\ doubled[g.task] = 0
              => /\ g.task \in DOMAIN inFlight /\ inFlight[g.task].epoch = g.epoch
                 /\ g.at = "apply" => inFlight[g.task].local

(* The heartbeat outlives the drain window.                                *)
BeatInv == ~drainDone => beating

\* What the invariant says of records and heartbeats makes every live lease covered.
LEMMA CoverImplies == TypeInv /\ RecordInv /\ BeatInv => LiveLeaseCovered
  <1> SUFFICES ASSUME TypeInv, RecordInv, BeatInv, NEW g \in gos,
                      HeldBy(g), ~g.silent, g.at \notin {"leaving", "trigger"},
                      doubled[g.task] = 0, ~drainDone
               PROVE  beating /\ (g.task \in Refreshed \/ g.at \in {"append", "report"})
    BY DEF LiveLeaseCovered
  <1>1. beating
    BY DEF BeatInv
  <1>2. g.at \in Stages
    BY DEF TypeInv, Goroutines
  <1>3. /\ g.task \in DOMAIN inFlight /\ inFlight[g.task].epoch = g.epoch
        /\ g.at = "apply" => inFlight[g.task].local
    BY DEF RecordInv
  <1>4. row[g.task].epoch = g.epoch /\ row[g.task].holder = "me"
    BY SMTT(30) DEF HeldBy
  <1>5. CASE g.at \in {"compose", "work"}
    BY <1>1, <1>3, <1>4, <1>5 DEF Refreshed, Snapshot, Attested
  <1>6. CASE g.at = "apply"
    BY <1>1, <1>3, <1>4, <1>6 DEF Refreshed, Snapshot
  <1> QED
    BY <1>1, <1>2, <1>5, <1>6 DEF Stages

(* Run joins the heartbeat only after the drain window has ended.          *)
LEMMA BeatStep == BeatInv /\ [Next]_vars => BeatInv'
  <1> SUFFICES ASSUME BeatInv, [Next]_vars PROVE BeatInv'
    OBVIOUS
  <1> USE DEF database, taskVars, runVars, podVars, beatVars, deployment
  <1>1. CASE UNCHANGED <<drainDone, beating>>
    BY <1>1 DEF BeatInv
  <1>2. CASE JoinTasks \/ DrainGraceElapses \/ EndHeartbeat \/ Exit
    BY SMTT(30), <1>2 DEF JoinTasks, DrainGraceElapses, EndHeartbeat, HeartbeatEnds, Exit, BeatInv
  <1>3. CASE Apart /\ ~JoinTasks /\ ~DrainGraceElapses /\ ~EndHeartbeat
    BY <1>1, <1>3 DEF Apart, BeginSweep, SkipPair, Decide, Wake, LeaveLoop, JoinHeartbeat, Beat,
        BeatFails, AddPairLive, TriggerLive, Notify, Stop, GateShuts, GateOpens, vars
  <1>4. ASSUME NEW g \in gos, Works(g) \/ Trigger(g) PROVE UNCHANGED <<drainDone, beating>>
    BY <1>4 DEF Works, StageReturns, ApplyCompose, Report, Deadline, Abandoned, FreeSlot,
        GoSilent, StreamDrops, Trigger
  <1>5. ASSUME NEW t \in Tasks, RowStep(t) PROVE UNCHANGED <<drainDone, beating>>
    BY <1>5 DEF RowStep, ReleaseTask, Reap, OtherTakes, OtherEnds, DrainOutbox
  <1>6. CASE \/ DrainNewPairs \/ TakeBatch \/ TakeBatchFails \/ ReleaseClaims
             \/ \E o \in orphans : OrphanEnds(o)
    BY <1>1, <1>6 DEF DrainNewPairs, TakeBatch, TakeBatchFails, ReleaseClaims, OrphanEnds
  <1> QED
    BY ZenonT(60), <1>1, <1>2, <1>3, <1>4, <1>5, <1>6, Cases

(* A pod that goes down stays down, and only a row step counts a lost      *)
(* claim.                                                                  *)
LEMMA Monotone ==
    ASSUME TypeInv, [Next]_vars
    PROVE  /\ Cancelled => Cancelled'
           /\ \A t \in Tasks : doubled'[t] = 0 => doubled[t] = 0
  <1> USE DEF database, taskVars, runVars, podVars, beatVars, deployment
  <1>1. CASE UNCHANGED <<proc, doubled>>
    BY <1>1 DEF Cancelled
  <1>2. CASE Stop \/ ReleaseClaims \/ Exit
    BY <1>2 DEF Stop, ReleaseClaims, Exit, Cancelled
  <1>3. CASE Apart /\ ~Stop
    BY <1>1, <1>3 DEF Apart, BeginSweep, SkipPair, Decide, Wake, LeaveLoop, JoinTasks, JoinHeartbeat,
        Beat, BeatFails, EndHeartbeat, AddPairLive, TriggerLive, Notify, DrainGraceElapses,
        GateShuts, GateOpens, vars
  <1>4. ASSUME NEW g \in gos, Works(g) \/ Trigger(g) PROVE UNCHANGED <<proc, doubled>>
    BY <1>4 DEF Works, StageReturns, ApplyCompose, Report, Deadline, Abandoned, FreeSlot,
        GoSilent, StreamDrops, Trigger
  <1>5. ASSUME NEW t \in Tasks, RowStep(t)
        PROVE  UNCHANGED proc /\ \A u \in Tasks : doubled'[u] = 0 => doubled[u] = 0
    <2>1. UNCHANGED proc /\ (UNCHANGED doubled \/ LosesClaim(t))
      BY <1>5 DEF RowStep, ReleaseTask, Reap, OtherTakes, OtherEnds, DrainOutbox
    <2>2. doubled[t] \in Nat /\ doubled \in [Tasks -> 0 .. MaxDoubles]
      BY SMTT(30), BoundsAssumption DEF TypeInv
    <2>3. CASE doubled' = [doubled EXCEPT ![t] = doubled[t] + 1]
      <3>1. doubled'[t] = doubled[t] + 1 /\ \A u \in Tasks \ {t} : doubled'[u] = doubled[u]
        BY <2>2, <2>3
      <3> QED
        BY SMTT(30), <2>1, <2>2, <3>1
    <2> QED
      BY <2>1, <2>3 DEF LosesClaim
  <1>6. CASE \/ DrainNewPairs \/ TakeBatch \/ TakeBatchFails
             \/ \E o \in orphans : OrphanEnds(o)
    BY <1>1, <1>6 DEF DrainNewPairs, TakeBatch, TakeBatchFails, OrphanEnds
  <1> QED
    BY ZenonT(60), <1>1, <1>2, <1>3, <1>4, <1>5, <1>6, Cases DEF Cancelled

(* The steps that change rows leave alone a row that a goroutine which     *)
(* never lost its claim is on, except that its result is drained.          *)
LEMMA RowsHeld ==
    ASSUME TypeInv, HoldInv, [Next]_vars, NEW g \in gos,
           doubled'[g.task] = 0, ~Cancelled'
    PROVE  row'[g.task].epoch = g.epoch /\ row'[g.task].holder \in {"me", "gone"}
  <1> USE DEF database, taskVars, runVars, podVars, beatVars, deployment
  <1>1. g.task \in Tasks
    BY DEF TypeInv, Goroutines
  <1>2. doubled[g.task] = 0 /\ ~Cancelled
    BY <1>1, Monotone
  <1>3. row[g.task].epoch = g.epoch /\ row[g.task].holder \in {"me", "gone"}
    BY <1>2 DEF HoldInv
  <1>4. CASE row' = row
    BY <1>3, <1>4
  <1>5. CASE TakeBatch \/ TakeBatchFails
    <2>1. row' = row \/ \E b \in SUBSET Claimable : Taken(b)
      BY <1>5 DEF TakeBatch, TakeBatchFails, Batches
    <2>2. ASSUME NEW b \in SUBSET Claimable, Taken(b) PROVE row'[g.task] = row[g.task]
      BY <1>1, <1>3, <2>2 DEF Taken, Claimable
    <2> QED
      BY ZenonT(60), <1>3, <1>4, <2>1, <2>2
  <1>6. ASSUME NEW t \in Tasks, RowStep(t)
        PROVE  row'[g.task].epoch = g.epoch /\ row'[g.task].holder \in {"me", "gone"}
    <2>1. CASE t # g.task
      <3>1. row'[g.task] = row[g.task]
        BY <1>1, <1>6, <2>1, RowStepIs DEF TypeInv
      <3> QED
        BY <1>3, <3>1
    <2>2. CASE t = g.task
      <3>1. doubled[t] = 0 /\ doubled[t] < MaxDoubles /\ doubled \in [Tasks -> 0 .. MaxDoubles]
        BY SMTT(30), <1>2, <2>2, BoundsAssumption DEF TypeInv
      <3>2. ~LosesClaim(t)
        <4>1. SUFFICES ASSUME LosesClaim(t) PROVE FALSE
          OBVIOUS
        <4>2. doubled' = [doubled EXCEPT ![t] = 0 + 1]
          BY <2>2, <3>1, <4>1 DEF LosesClaim
        <4>3. doubled'[t] = 1
          BY SMTT(30), <3>1, <4>2
        <4> QED
          BY SMTT(30), <2>2, <4>3
      <3>3. row' = row \/ DrainOutbox(t)
        BY <1>3, <1>6, <2>2, <3>2 DEF RowStep, ReleaseTask, Reap, OtherTakes, OtherEnds
      <3>4. CASE DrainOutbox(t)
        <4>1. row'[t] = [epoch |-> row[t].epoch, holder |-> "gone"]
          BY <3>4 DEF DrainOutbox, TypeInv
        <4> QED
          BY SMTT(30), <1>3, <2>2, <4>1
      <3> QED
        BY <1>4, <3>3, <3>4
    <2> QED
      BY <2>1, <2>2
  <1>7. ASSUME NEW h \in gos, Works(h) \/ Trigger(h) PROVE row' = row
    BY <1>7 DEF Works, StageReturns, ApplyCompose, Report, Deadline, Abandoned, FreeSlot,
        GoSilent, StreamDrops, Trigger
  <1>8. CASE ReleaseClaims
    BY <1>8 DEF ReleaseClaims, Cancelled
  <1>9. CASE DrainNewPairs \/ Exit \/ \E o \in orphans : OrphanEnds(o)
    BY <1>4, <1>9 DEF DrainNewPairs, Exit, OrphanEnds
  <1> QED
    BY ZenonT(60), <1>4, <1>5, <1>6, <1>7, <1>8, <1>9, Cases, ApartUnchanged

(* One step keeps HoldInv.                                                 *)
LEMMA HoldStep == TypeInv /\ ClaimInv /\ HoldInv /\ [Next]_vars => HoldInv'
  <1> SUFFICES ASSUME TypeInv, ClaimInv, HoldInv, [Next]_vars PROVE HoldInv'
    OBVIOUS
  <1>1. \A t \in Tasks : doubled'[t] = 0 => doubled[t] = 0
    BY Monotone
  <1>2. \A g \in gos : g.task \in Tasks
    BY DEF TypeInv, Goroutines
  <1>3. \A g \in gos :
           doubled'[g.task] = 0 /\ ~Cancelled'
               => row'[g.task].epoch = g.epoch /\ row'[g.task].holder \in {"me", "gone"}
    BY RowsHeld
  <1>4. \A g, h \in gos : g.task = h.task /\ doubled'[g.task] = 0 => g = h
    BY <1>1, <1>2 DEF HoldInv
  <1>5. CASE gos' \subseteq gos
    BY <1>3, <1>4, <1>5 DEF HoldInv
  <1>6. ASSUME NEW g \in gos, Works(g) PROVE HoldInv'
    <2>1. PICK h \in Goroutines :
             gos' = (gos \ {g}) \cup {h} /\ h.task = g.task /\ h.epoch = g.epoch
      BY <1>6, WorksReplaces
    <2>2. \A k \in gos' : doubled'[k.task] = 0 /\ ~Cancelled'
               => row'[k.task].epoch = k.epoch /\ row'[k.task].holder \in {"me", "gone"}
      BY <1>3, <2>1
    <2>3. \A k, m \in gos' : k.task = m.task /\ doubled'[k.task] = 0 => k = m
      BY SMTT(30), <1>4, <2>1
    <2> QED
      BY <2>2, <2>3 DEF HoldInv
  <1>7. CASE TakeBatch
    <2>1. PICK b \in Batches : Taken(b) /\ gos' = gos \cup Launched(b)
      BY <1>7 DEF TakeBatch
    <2>2. b \in SUBSET Claimable /\ b \subseteq Tasks /\ ring # <<>> /\ ~Cancelled
      BY <1>7, <2>1, BatchFinite DEF Batches, TakeBatch, TypeInv
    <2> DEFINE L == Launched(b)
    <2>3. /\ \A g \in L : g.task \in b /\ g.epoch = row[g.task].epoch + 1
          /\ \A g, h \in L : g.task = h.task => g = h
      BY <2>2, LaunchedIsNew
    <2>4. \A g \in L : row'[g.task].epoch = g.epoch /\ row'[g.task].holder = "me"
      BY <2>1, <2>2, <2>3 DEF Taken
    <2>5. \A g \in gos, h \in L : g.task = h.task => doubled'[g.task] # 0
      <3> SUFFICES ASSUME NEW g \in gos, NEW h \in L, g.task = h.task, doubled'[g.task] = 0
                   PROVE  FALSE
        OBVIOUS
      <3>1. row[g.task].holder \in {"me", "gone"}
        BY <1>1, <1>2, <2>2 DEF HoldInv
      <3>2. row[h.task].holder = "free"
        BY <2>2, <2>3 DEF Claimable
      <3> QED
        BY <3>1, <3>2
    <2>6. gos' = gos \cup L
      BY <2>1
    <2> HIDE DEF L
    <2>7. \A k \in gos' : doubled'[k.task] = 0 /\ ~Cancelled'
               => row'[k.task].epoch = k.epoch /\ row'[k.task].holder \in {"me", "gone"}
      BY <1>3, <2>4, <2>6
    <2>8. \A k, m \in gos' : k.task = m.task /\ doubled'[k.task] = 0 => k = m
      BY ZenonT(60), <1>4, <2>3, <2>5, <2>6
    <2> QED
      BY <2>7, <2>8 DEF HoldInv
  <1> QED
    BY <1>5, <1>6, <1>7, GoroutineCases

(* A working goroutine that does not complete leaves the record alone, or  *)
(* marks it local on its way to apply the composer's result.               *)
LEMMA WorksRecords ==
    ASSUME TypeInv, NEW g \in gos, Works(g), ~FreeSlot(g)
    PROVE  /\ g.at \notin {"leaving", "trigger"}
           /\ \E h \in Goroutines :
                 /\ gos' = (gos \ {g}) \cup {h}
                 /\ h.task = g.task /\ h.epoch = g.epoch
                 /\ \/ inFlight' = inFlight /\ (h.at = "apply" => g.at = "apply")
                    \/ MarkLocal(g.task)
  <1>1. g \in Goroutines
    BY DEF TypeInv
  <1>2. ASSUME NEW s \in Stages
        PROVE  LET h == [g EXCEPT !.at = s] IN
               h \in Goroutines /\ h.task = g.task /\ h.epoch = g.epoch /\ h.at = s
    BY <1>1 DEF Goroutines
  <1>3. g.at \notin {"leaving", "trigger"}
    BY DEF Works, StageReturns, ApplyCompose, Report, Deadline, Abandoned, GoSilent, StreamDrops
  <1>4. CASE GoSilent(g)
    <2> DEFINE h == [g EXCEPT !.silent = TRUE]
    <2>1. h \in Goroutines /\ h.task = g.task /\ h.epoch = g.epoch /\ h.at = g.at
      BY <1>1 DEF Goroutines
    <2>2. gos' = (gos \ {g}) \cup {h} /\ inFlight' = inFlight
      BY <1>4 DEF GoSilent
    <2> HIDE DEF h
    <2> QED
      BY <1>3, <2>1, <2>2
  <1>5. CASE ~GoSilent(g)
    <2>1. PICK s \in Stages : Move(g, s) /\ ((inFlight' = inFlight /\ s # "apply") \/ MarkLocal(g.task))
      BY <1>5 DEF Works, StageReturns, ApplyCompose, Report, Deadline, Abandoned, StreamDrops, Stages
    <2> QED
      BY <1>2, <1>3, <2>1 DEF Move
  <1> QED
    BY <1>4, <1>5

(* One step keeps RecordInv.                                               *)
LEMMA RecordStep == TypeInv /\ HoldInv /\ ClaimInv /\ RecordInv /\ [Next]_vars => RecordInv'
  <1> SUFFICES ASSUME TypeInv, HoldInv, ClaimInv, RecordInv, [Next]_vars PROVE RecordInv'
    OBVIOUS
  <1> USE DEF database, taskVars, runVars, podVars, beatVars, deployment
  <1>1. \A g \in gos : g.task \in Tasks /\ (doubled'[g.task] = 0 => doubled[g.task] = 0)
    BY Monotone DEF TypeInv, Goroutines
  <1>2. CASE inFlight' = inFlight /\ gos' \subseteq gos
    BY <1>1, <1>2 DEF RecordInv
  <1>3. CASE Apart
    BY <1>2, <1>3, ApartUnchanged
  <1>4. CASE DrainNewPairs \/ TakeBatchFails \/ ReleaseClaims \/ \E o \in orphans : OrphanEnds(o)
    BY <1>2, <1>4 DEF DrainNewPairs, TakeBatchFails, ReleaseClaims, OrphanEnds
  <1>5. ASSUME NEW t \in Tasks, RowStep(t) PROVE inFlight' = inFlight /\ gos' \subseteq gos
    BY <1>5 DEF RowStep, ReleaseTask, Reap, OtherTakes, OtherEnds, DrainOutbox
  <1>6. ASSUME NEW g \in gos, Trigger(g) PROVE inFlight' = inFlight /\ gos' \subseteq gos
    BY <1>6 DEF Trigger
  <1>7. CASE Exit
    BY SMTT(30), <1>7 DEF Exit, RecordInv
  <1>8. CASE TakeBatch
    <2>1. PICK b \in Batches : gos' = gos \cup Launched(b) /\ inFlight' = Recorded(b)
      BY <1>8 DEF TakeBatch
    <2>2. b \in SUBSET Claimable /\ b \subseteq Tasks /\ ring # <<>> /\ ~Cancelled
      BY <1>8, <2>1, BatchFinite DEF Batches, TakeBatch, TypeInv
    <2> DEFINE L == Launched(b)
    <2>3. \A g \in L : g.task \in b /\ g.epoch = row[g.task].epoch + 1 /\ g.at \in {"compose", "work"}
      BY <2>2, LaunchedIsNew
    <2>4. /\ DOMAIN inFlight' = DOMAIN inFlight \cup b
          /\ \A t \in b : inFlight'[t] = [epoch |-> row[t].epoch + 1, local |-> FALSE]
          /\ \A t \in DOMAIN inFlight \ b : inFlight'[t] = inFlight[t]
      BY <2>1 DEF Recorded
    <2>5. \A t \in b : row[t].epoch \in Nat /\ row[t].holder = "free"
      BY <2>2 DEF TypeInv, Claimable
    <2>6. \A t \in DOMAIN inFlight' : inFlight'[t] \in [epoch : Nat, local : BOOLEAN]
      <3>1. \A n \in Nat : [epoch |-> n, local |-> FALSE] \in [epoch : Nat, local : BOOLEAN]
        BY Zenon
      <3>2. \A t \in b : row[t].epoch + 1 \in Nat
        BY SMTT(30), <2>5
      <3>3. \A t \in b : inFlight'[t] \in [epoch : Nat, local : BOOLEAN]
        BY <2>4, <3>1, <3>2, Zenon
      <3> QED
        BY <2>4, <3>3, Zenon DEF RecordInv
    <2>7. \A g \in gos : doubled'[g.task] = 0 => g.task \notin b
      BY <1>1, <2>2, <2>5 DEF HoldInv
    <2>8. gos' = gos \cup L
      BY <2>1
    <2>9. \A t \in b : t \in DOMAIN inFlight' /\ inFlight'[t].epoch = row[t].epoch + 1
      BY SMTT(30), <2>4
    <2> HIDE DEF L
    <2>10. \A g \in L : /\ g.task \in DOMAIN inFlight' /\ inFlight'[g.task].epoch = g.epoch
                        /\ g.at # "apply"
      BY <2>3, <2>9
    <2>11. \A g \in gos :
              g.at \notin {"leaving", "trigger"} /\ doubled'[g.task] = 0
                  => /\ g.task \in DOMAIN inFlight' /\ inFlight'[g.task].epoch = g.epoch
                     /\ g.at = "apply" => inFlight'[g.task].local
      BY <1>1, <2>4, <2>7 DEF RecordInv
    <2> QED
      BY <2>6, <2>8, <2>10, <2>11 DEF RecordInv
  <1>9. ASSUME NEW g \in gos, FreeSlot(g) PROVE RecordInv'
    <2>1. PICK h \in Goroutines :
             gos' = (gos \ {g}) \cup {h} /\ h.task = g.task /\ h.at = "trigger"
      BY <1>9, WorksReplaces DEF Works
    <2>2. /\ DOMAIN inFlight' = DOMAIN inFlight \ {g.task}
          /\ \A t \in DOMAIN inFlight' : inFlight'[t] = inFlight[t]
      BY <1>9 DEF FreeSlot, Removed
    <2>3. \A k \in gos \ {g} : doubled'[k.task] = 0 => k.task # g.task
      BY <1>1 DEF HoldInv
    <2> QED
      BY SMTT(30), <1>1, <2>1, <2>2, <2>3 DEF RecordInv
  <1>10. ASSUME NEW g \in gos, Works(g), ~FreeSlot(g) PROVE RecordInv'
    <2>1. PICK h \in Goroutines :
             /\ gos' = (gos \ {g}) \cup {h}
             /\ h.task = g.task /\ h.epoch = g.epoch
             /\ \/ inFlight' = inFlight /\ (h.at = "apply" => g.at = "apply")
                \/ MarkLocal(g.task)
      BY <1>10, WorksRecords
    <2>2. g.at \notin {"leaving", "trigger"}
      BY <1>10, WorksRecords
    <2>3. CASE inFlight' = inFlight /\ (h.at = "apply" => g.at = "apply")
      BY SMTT(30), <1>1, <2>1, <2>2, <2>3 DEF RecordInv
    <2>4. CASE MarkLocal(g.task)
      <3>1. /\ DOMAIN inFlight' = DOMAIN inFlight
            /\ \A t \in DOMAIN inFlight \ {g.task} : inFlight'[t] = inFlight[t]
            /\ g.task \in DOMAIN inFlight => inFlight'[g.task] = [inFlight[g.task] EXCEPT !.local = TRUE]
        BY <2>4 DEF MarkLocal
      <3>2. g.task \in DOMAIN inFlight =>
               /\ inFlight'[g.task] \in [epoch : Nat, local : BOOLEAN]
               /\ inFlight'[g.task].epoch = inFlight[g.task].epoch
               /\ inFlight'[g.task].local
        <4>1. \A r \in [epoch : Nat, local : BOOLEAN] :
                 LET q == [r EXCEPT !.local = TRUE] IN
                 q \in [epoch : Nat, local : BOOLEAN] /\ q.epoch = r.epoch /\ q.local
          BY Zenon
        <4> QED
          BY <3>1, <4>1, Zenon DEF RecordInv
      <3> QED
        BY SMTT(30), <1>1, <2>1, <2>2, <3>1, <3>2 DEF RecordInv
    <2> QED
      BY <2>1, <2>3, <2>4
  <1> QED
    BY ZenonT(60), <1>2, <1>3, <1>4, <1>5, <1>6, <1>7, <1>8, <1>9, <1>10, Cases

(* In every behaviour the next beat covers each live claim whose work goes *)
(* on, unless the task once lost its claim under a running goroutine       *)
(* (inFlightSet, heartbeatLoop).                                           *)
THEOREM LiveLeaseCoveredHolds == Spec => []LiveLeaseCovered
  <1>1. Init => ClaimInv /\ HoldInv /\ RecordInv
    <2> SUFFICES ASSUME Init PROVE ClaimInv /\ HoldInv /\ RecordInv
      OBVIOUS
    <2>1. gos = {} /\ inFlight = <<>>
      BY Zenon DEF Init
    <2>2. \A t \in DOMAIN <<>> : FALSE
      BY SMT
    <2> QED
      BY <2>1, <2>2, FS_EmptySet, Zenon DEF ClaimInv, HoldInv, RecordInv
  <1>2. Init => BeatInv
    BY DEF Init, BeatInv
  <1> QED
    BY <1>1, <1>2, TypeInit, TypeStep, ClaimStep, HoldStep, RecordStep, BeatStep, CoverImplies, PTL
        DEF Spec
=============================================================================
