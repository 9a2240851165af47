--------------------------- MODULE ReactorProofs ---------------------------
(***************************************************************************)
(* Proofs about the reactor spine, for any number of resources, bindings,  *)
(* pods and faults: every crossing is reported, and a delivery is kept     *)
(* until it was reacted to and ended only by the holder of its claim.      *)
(***************************************************************************)
EXTENDS Reactor, TLAPS

Counts == [gen : Nat, synced : Nat, health : BOOLEAN, fail : Nat]

(* What the tables and the pods hold.  Generations never run ahead: the    *)
(* generations a resource synced or failed at are generations it had.      *)
TypeInv ==
    /\ res \in [Resources -> Counts]
    /\ \A r \in Resources : res[r].synced <= res[r].gen /\ res[r].fail <= res[r].gen
    /\ enabled \subseteq Bindings
    /\ \A d \in outbox :
          d = [key |-> d.key, epoch |-> d.epoch, broker |-> d.broker] /\ d.epoch \in Nat
    /\ \A e \in held :
          /\ e = [key |-> e.key, epoch |-> e.epoch, pod |-> e.pod, phase |-> e.phase]
          /\ e.epoch \in Nat

(* The edge a key stands for has been crossed, or its generation is over.  *)
(* Without a recurrence no edge is crossed twice at one generation, so a   *)
(* key that has been crossed is not emitted again.                         *)
Crossed(k) ==
    \/ k.gen < res[k.res].gen
    \/ /\ k.gen = res[k.res].gen
       /\ \/ k.edge = "created"
          \/ res[k.res].synced = res[k.res].gen
          \/ res[k.res].fail = res[k.res].gen

(* The strengthening of DeliveriesKept: a key has one row; what has a row  *)
(* or an execution was crossed; an execution is no newer than the row and  *)
(* alone with its epoch; what has been reacted to is not owed.             *)
DeliveryInv ==
    /\ TypeInv
    /\ \A d \in outbox : d.key.res \in Resources /\ d.key.gen \in Nat /\ Crossed(d.key)
    /\ \A e \in held : e.key.res \in Resources /\ e.key.gen \in Nat /\ Crossed(e.key)
    /\ \A d1, d2 \in outbox : d1.key = d2.key => d1 = d2
    /\ \A e \in held, d \in outbox : e.key = d.key => e.epoch <= d.epoch
    /\ \A e1, e2 \in held : e1.key = e2.key /\ e1.epoch = e2.epoch => e1 = e2
    /\ \A e \in held : e.phase = "reacted" => e.key \notin owed
    /\ AtLeastOnce

(* The status UPDATE of drain_outbox_batch leaves the generation alone and *)
(* sets synced_gen and the failure to it, or leaves them.                  *)
LEMMA AppliedRow ==
  ASSUME NEW row \in Counts, NEW o \in {"ok", "unhealthy", "failed"}
  PROVE  /\ Applied(row, o) \in Counts
         /\ Applied(row, o).gen = row.gen
         /\ Applied(row, o).synced \in {row.synced, row.gen}
         /\ Applied(row, o).fail \in {0, row.fail, row.gen}
         /\ o = "failed" => /\ Applied(row, o).fail = row.gen
                            /\ Applied(row, o).health = row.health
         /\ o # "failed" => Applied(row, o).synced = row.gen
  <1>1. CASE o = "ok"
    BY <1>1 DEF Applied, Counts
  <1>2. CASE o = "unhealthy"
    BY <1>2 DEF Applied, Counts
  <1>3. CASE o = "failed"
    BY <1>3 DEF Applied, Counts
  <1> QED
    BY <1>1, <1>2, <1>3

(* What a drain does to the table: the rows of the batch are applied, the  *)
(* others stay, and no generation moves.                                   *)
LEMMA DrainedRows ==
  ASSUME TypeInv, NEW batch \in SUBSET Resources,
         NEW outcome \in [batch -> {"ok", "unhealthy", "failed"}],
         Drain(batch, outcome), NEW r \in Resources
  PROVE  /\ res' \in [Resources -> Counts]
         /\ res'[r].gen = res[r].gen
         /\ res'[r].synced <= res'[r].gen
         /\ res'[r].fail <= res'[r].gen
         /\ res'[r] # res[r] => r \in batch
         /\ r \in batch => res'[r] = Applied(res[r], outcome[r])
  <1> DEFINE after == [x \in Resources |-> IF x \in batch THEN Applied(res[x], outcome[x])
                                           ELSE res[x]]
  <1>1. res' = after
    BY DEF Drain
  <1>2. \A x \in Resources : res[x] \in Counts
    BY DEF TypeInv
  <1>3. \A x \in Resources : after[x] \in Counts
    BY <1>2, AppliedRow
  <1>4. after \in [Resources -> Counts]
    BY <1>3
  <1>5. CASE r \in batch
    <2>1. after[r] = Applied(res[r], outcome[r]) /\ outcome[r] \in {"ok", "unhealthy", "failed"}
      BY <1>5
    <2>2. /\ after[r].gen = res[r].gen
          /\ after[r].synced \in {res[r].synced, res[r].gen}
          /\ after[r].fail \in {0, res[r].fail, res[r].gen}
      BY <2>1, <1>2, AppliedRow
    <2>3. res[r].gen \in Nat /\ res[r].synced <= res[r].gen /\ res[r].fail <= res[r].gen
      BY <1>2 DEF TypeInv, Counts
    <2> QED
      BY <1>1, <1>4, <1>5, <2>1, <2>2, <2>3
  <1>6. CASE r \notin batch
    <2>1. after[r] = res[r]
      BY <1>6
    <2> QED
      BY <1>1, <1>4, <1>6, <2>1 DEF TypeInv
  <1> QED
    BY <1>5, <1>6

(* A key of a fanout belongs to a crossed resource and to an enabled       *)
(* binding on the edge that matches it, and there is one for each.         *)
LEMMA FanoutKeys ==
  ASSUME NEW edge, NEW crossed, NEW after
  PROVE  /\ \A k \in Fanout(edge, crossed, after) : \E r \in crossed, b \in enabled :
               k = [res |-> r, edge |-> edge, gen |-> after[r].gen, bind |-> b]
         /\ \A r \in crossed, b \in enabled : Edge[b] = edge /\ r \in Matching[b] =>
               [res |-> r, edge |-> edge, gen |-> after[r].gen, bind |-> b]
                  \in Fanout(edge, crossed, after)
  <1>1. ASSUME NEW k \in Fanout(edge, crossed, after)
        PROVE  \E r \in crossed, b \in enabled :
                 k = [res |-> r, edge |-> edge, gen |-> after[r].gen, bind |-> b]
    <2>1. PICK x \in crossed \X enabled :
             k = [res |-> x[1], edge |-> edge, gen |-> after[x[1]].gen, bind |-> x[2]]
      BY <1>1 DEF Fanout
    <2> QED
      BY <2>1
  <1>2. ASSUME NEW r \in crossed, NEW b \in enabled, Edge[b] = edge, r \in Matching[b]
        PROVE  [res |-> r, edge |-> edge, gen |-> after[r].gen, bind |-> b]
                  \in Fanout(edge, crossed, after)
    <2>1. <<r, b>> \in {y \in crossed \X enabled : Edge[y[2]] = edge /\ y[1] \in Matching[y[2]]}
      BY <1>2
    <2> QED
      BY <2>1, <<r, b>>[1] = r, <<r, b>>[2] = b DEF Fanout
  <1> QED
    BY <1>1, <1>2

(* The inserts of an emission: a key that has no row gets one of epoch 1,  *)
(* every other row stays.                                                  *)
LEMMA EmittedRows ==
  ASSUME NEW keys, Emit(keys)
  PROVE  /\ outbox \subseteq outbox'
         /\ \A d \in outbox' \ outbox :
               /\ d = [key |-> d.key, epoch |-> 1, broker |-> NoPod]
               /\ d.key \in keys /\ NewRow(d.key)
         /\ \A k \in keys : \E d \in outbox' : d.key = k
         /\ \A k \in owed' : k \in owed \/ k \in keys
  <1>1. ASSUME NEW d \in outbox', d \notin outbox
        PROVE  /\ d = [key |-> d.key, epoch |-> 1, broker |-> NoPod]
               /\ d.key \in keys /\ NewRow(d.key)
    <2>1. PICK k \in keys : NewRow(k) /\ d = [key |-> k, epoch |-> 1, broker |-> NoPod]
      BY <1>1 DEF Emit
    <2> QED
      BY <2>1
  <1>2. ASSUME NEW k \in keys PROVE \E d \in outbox' : d.key = k
    <2>1. CASE NewRow(k)
      <3>1. [key |-> k, epoch |-> 1, broker |-> NoPod] \in outbox'
        BY <1>2, <2>1 DEF Emit
      <3> QED
        BY <3>1
    <2>2. CASE ~NewRow(k)
      BY <2>2 DEF Emit, NewRow
    <2> QED
      BY <2>1, <2>2
  <1> QED
    BY <1>1, <1>2 DEF Emit

(* An emission of keys that are only now crossed keeps DeliveryInv: no     *)
(* execution is left of an earlier incarnation of the row.                 *)
LEMMA EmissionKeeps ==
  ASSUME DeliveryInv, TypeInv', NEW keys, Emit(keys), held' = held,
         \A k \in keys : k.res \in Resources /\ k.gen \in Nat /\ ~Crossed(k) /\ Crossed(k)',
         \A k : k.res \in Resources /\ k.gen \in Nat /\ Crossed(k) => Crossed(k)'
  PROVE  DeliveryInv'
  <1> USE EmittedRows
  <1>1. \A d \in outbox' : d.key.res \in Resources /\ d.key.gen \in Nat /\ Crossed(d.key)'
    BY DEF DeliveryInv
  <1>2. \A e \in held' : e.key.res \in Resources /\ e.key.gen \in Nat /\ Crossed(e.key)'
    BY DEF DeliveryInv
  <1>3. \A d1, d2 \in outbox' : d1.key = d2.key => d1 = d2
    BY DEF DeliveryInv, NewRow
  <1>4. \A e \in held : e.key \notin keys
    BY DEF DeliveryInv
  <1>5. \A e \in held', d \in outbox' : e.key = d.key => e.epoch <= d.epoch
    BY <1>4 DEF DeliveryInv
  <1>6. \A e \in held' : e.phase = "reacted" => e.key \notin owed'
    BY <1>4 DEF DeliveryInv
  <1>7. AtLeastOnce'
    BY DEF DeliveryInv, AtLeastOnce
  <1> QED
    BY <1>1, <1>2, <1>3, <1>5, <1>6, <1>7 DEF DeliveryInv

(* An action that leaves the resources alone crosses nothing.              *)
LEMMA CrossedUnchanged ==
  ASSUME res' = res, NEW k
  PROVE  Crossed(k)' <=> Crossed(k)
  BY DEF Crossed

----------------------------------------------------------------------------
(* The rows of an emission and the resources after it keep their types.    *)
LEMMA TypeEmission ==
  ASSUME TypeInv, NEW keys, Emit(keys), held' = held, enabled' = enabled,
         res' \in [Resources -> Counts],
         \A r \in Resources : res'[r].synced <= res'[r].gen /\ res'[r].fail <= res'[r].gen
  PROVE  TypeInv'
  <1>1. \A d \in outbox' :
          d = [key |-> d.key, epoch |-> d.epoch, broker |-> d.broker] /\ d.epoch \in Nat
    BY EmittedRows DEF TypeInv
  <1> QED
    BY <1>1 DEF TypeInv

(* ApplySpec moves one generation up by one.                               *)
LEMMA AppliedSpec ==
  ASSUME TypeInv, NEW r \in Resources, Apply(r)
  PROVE  /\ res' \in [Resources -> Counts]
         /\ res'[r].gen = res[r].gen + 1
         /\ res'[r].synced = res[r].synced /\ res'[r].fail = res[r].fail
         /\ \A x \in Resources : x # r => res'[x] = res[x]
         /\ \A x \in Resources : res'[x].synced <= res'[x].gen /\ res'[x].fail <= res'[x].gen
  <1>1. res' = [res EXCEPT ![r] = [res[r] EXCEPT !.gen = res[r].gen + 1]]
    BY DEF Apply
  <1>2. \A x \in Resources : res[x] \in Counts
    BY DEF TypeInv
  <1>3. [res[r] EXCEPT !.gen = res[r].gen + 1] \in Counts
    BY <1>2 DEF Counts
  <1>4. /\ res'[r] = [res[r] EXCEPT !.gen = res[r].gen + 1]
        /\ \A x \in Resources : x # r => res'[x] = res[x]
        /\ res' \in [Resources -> Counts]
    BY <1>1, <1>2, <1>3 DEF TypeInv
  <1>5. /\ res'[r].gen = res[r].gen + 1
        /\ res'[r].synced = res[r].synced /\ res'[r].fail = res[r].fail
    BY <1>2, <1>4 DEF Counts
  <1>6. res[r].gen \in Nat /\ res[r].synced \in Nat /\ res[r].fail \in Nat
    BY <1>2 DEF Counts
  <1>7. \A x \in Resources : res'[x].synced <= res'[x].gen /\ res'[x].fail <= res'[x].gen
    <2> TAKE x \in Resources
    <2>1. CASE x = r
      BY <1>5, <1>6, <2>1 DEF TypeInv
    <2>2. CASE x # r
      BY <1>4, <2>2 DEF TypeInv
    <2> QED
      BY <2>1, <2>2
  <1> QED
    BY <1>4, <1>5, <1>7

(* The fields of an execution whose phase moves.                           *)
LEMMA PhaseFields ==
  ASSUME TypeInv, NEW e \in held, NEW phase
  PROVE  [e EXCEPT !.phase = phase] =
            [key |-> e.key, epoch |-> e.epoch, pod |-> e.pod, phase |-> phase]
  BY DEF TypeInv

(* Every step keeps TypeInv.                                               *)
LEMMA TypeStep == TypeInv /\ [Next]_vars => TypeInv'
  <1> SUFFICES ASSUME TypeInv, [Next]_vars PROVE TypeInv'
    OBVIOUS
  <1>1. ASSUME NEW r \in Resources, Apply(r) PROVE TypeInv'
    BY <1>1, AppliedSpec, TypeEmission DEF Apply
  <1>2. ASSUME NEW r \in Resources, HardDelete(r) PROVE TypeInv'
    BY <1>2 DEF HardDelete, TypeInv
  <1>3. ASSUME NEW batch \in SUBSET Resources,
               NEW outcome \in [batch -> {"ok", "unhealthy", "failed"}], Drain(batch, outcome)
        PROVE  TypeInv'
    <2>1. CASE Resources = {}
      BY <1>3, <2>1 DEF Drain
    <2>2. CASE Resources # {}
      <3>1. /\ res' \in [Resources -> Counts]
            /\ \A r \in Resources : res'[r].synced <= res'[r].gen /\ res'[r].fail <= res'[r].gen
        BY <1>3, <2>2, DrainedRows
      <3>2. held' = held /\ enabled' = enabled /\ \E keys : Emit(keys)
        BY <1>3 DEF Drain
      <3> QED
        BY <3>1, <3>2, TypeEmission
    <2> QED
      BY <2>1, <2>2
  <1>4. ASSUME NEW b \in Bindings, EditBinding(b) PROVE TypeInv'
    BY <1>4 DEF EditBinding, TypeInv
  <1>5. ASSUME NEW p \in Pods, NEW rows \in SUBSET outbox, Claim(p, rows) PROVE TypeInv'
    <2>1. \A d \in outbox' :
            d = [key |-> d.key, epoch |-> d.epoch, broker |-> d.broker] /\ d.epoch \in Nat
      <3> SUFFICES ASSUME NEW d \in outbox', d \notin outbox
                   PROVE  d = [key |-> d.key, epoch |-> d.epoch, broker |-> d.broker] /\ d.epoch \in Nat
        BY DEF TypeInv
      <3>1. PICK c \in rows : d = [key |-> c.key, epoch |-> c.epoch + 1, broker |-> p]
        BY <1>5 DEF Claim
      <3> QED
        BY <3>1 DEF TypeInv
    <2>2. \A e \in held' :
            /\ e = [key |-> e.key, epoch |-> e.epoch, pod |-> e.pod, phase |-> e.phase]
            /\ e.epoch \in Nat
      <3> SUFFICES ASSUME NEW e \in held', e \notin held
                   PROVE  /\ e = [key |-> e.key, epoch |-> e.epoch, pod |-> e.pod, phase |-> e.phase]
                          /\ e.epoch \in Nat
        BY DEF TypeInv
      <3>1. PICK c \in rows : e = [key |-> c.key, epoch |-> c.epoch + 1, pod |-> p, phase |-> "waiting"]
        BY <1>5 DEF Claim, Execution
      <3> QED
        BY <3>1 DEF TypeInv
    <2> QED
      BY <1>5, <2>1, <2>2 DEF Claim, TypeInv
  <1>6. ASSUME NEW e \in held, Start(e) \/ React(e) PROVE TypeInv'
    <2>1. \A phase : [e EXCEPT !.phase = phase] =
                        [key |-> e.key, epoch |-> e.epoch, pod |-> e.pod, phase |-> phase]
      BY PhaseFields
    <2>2. \A x \in held' \ held : \E phase :
             x = [key |-> e.key, epoch |-> e.epoch, pod |-> e.pod, phase |-> phase]
      BY ZenonT(60), <1>6, <2>1 DEF Start, React, Phase
    <2>3. \A x \in held' :
            /\ x = [key |-> x.key, epoch |-> x.epoch, pod |-> x.pod, phase |-> x.phase]
            /\ x.epoch \in Nat
      BY <2>2 DEF TypeInv
    <2> QED
      BY <1>6, <2>3 DEF Start, React, TypeInv
  <1>7. ASSUME NEW e \in held, Ack(e) \/ Fail(e) PROVE TypeInv'
    BY <1>7 DEF Ack, Fail, TypeInv
  <1>8. ASSUME NEW p \in Pods, PodCrash(p) \/ \E shards \in SUBSET Resources : Reshard(p, shards)
        PROVE  TypeInv'
    BY <1>8 DEF PodCrash, Reshard, TypeInv
  <1>9. ASSUME NEW d \in outbox, Reap(d) PROVE TypeInv'
    <2>1. \A c \in outbox' \ outbox : c = [key |-> d.key, epoch |-> d.epoch + 1, broker |-> NoPod]
      BY <1>9 DEF Reap
    <2>2. d.epoch + 1 \in Nat
      BY <1>9 DEF TypeInv
    <2>3. \A c \in outbox' :
            c = [key |-> c.key, epoch |-> c.epoch, broker |-> c.broker] /\ c.epoch \in Nat
      BY <1>9, <2>1, <2>2 DEF TypeInv
    <2> QED
      BY <1>9, <2>3 DEF Reap, TypeInv
  <1>10. CASE UNCHANGED vars
    BY <1>10 DEF vars, TypeInv
  <1> QED
    BY <1>1, <1>2, <1>3, <1>4, <1>5, <1>6, <1>7, <1>8, <1>9, <1>10 DEF Next

(* The reactor starts well typed.                                          *)
LEMMA TypeInit == Init => TypeInv
  <1>1. Absent \in Counts
    BY DEF Absent, Counts
  <1> QED
    BY <1>1 DEF Init, TypeInv, Absent

----------------------------------------------------------------------------
(* What crosses an edge in a drain is in the batch.                        *)
LEMMA CrossedInBatch ==
  ASSUME TypeInv, NEW batch \in SUBSET Resources,
         NEW outcome \in [batch -> {"ok", "unhealthy", "failed"}], Drain(batch, outcome)
  PROVE  Upgraded(res') \subseteq batch /\ Demoted(res') \subseteq batch
  <1>1. \A r \in Resources : res'[r] # res[r] => r \in batch
    BY DrainedRows
  <1>2. \A r \in Upgraded(res') : r \in Resources /\ res'[r] # res[r]
    <2>1. \A r \in Resources : res[r].synced \in Nat /\ res[r].gen \in Nat
      BY DEF TypeInv, Counts
    <2> QED
      BY <2>1 DEF Upgraded
  <1>3. \A r \in NewlyFailed(res') : r \in Resources /\ res'[r] # res[r]
    BY DEF NewlyFailed
  <1>4. \A r \in {x \in Resources : res[x].health /\ ~res'[x].health} :
          r \in Resources /\ res'[r] # res[r]
    BY Zenon
  <1> QED
    BY <1>1, <1>2, <1>3, <1>4 DEF Demoted

(* The keys of a statement's crossings.                                    *)
LEMMA CrossingKeys ==
  ASSUME NEW after, NEW k \in Crossings(after)
  PROVE  \E r \in Upgraded(after) \cup Demoted(after) :
           k.res = r /\ k.gen = after[r].gen /\ k.edge # "created"
  <1> DEFINE failed == {r \in Demoted(after) : after[r].fail = after[r].gen}
  <1>1. ASSUME NEW crossed \in SUBSET (Upgraded(after) \cup Demoted(after)),
               NEW edge \in {"synced", "failed", "degraded"}, k \in Fanout(edge, crossed, after)
        PROVE  \E r \in Upgraded(after) \cup Demoted(after) :
                 k.res = r /\ k.gen = after[r].gen /\ k.edge # "created"
    <2>1. PICK r \in crossed, b \in enabled :
             k = [res |-> r, edge |-> edge, gen |-> after[r].gen, bind |-> b]
      BY <1>1, FanoutKeys
    <2>2. k.res = r /\ k.gen = after[r].gen /\ k.edge # "created"
      BY <2>1
    <2> QED
      BY <2>2
  <1>2. \/ k \in Fanout("synced", Upgraded(after), after)
        \/ k \in Fanout("failed", failed, after)
        \/ k \in Fanout("degraded", Demoted(after) \ failed, after)
    BY DEF Crossings
  <1>3. failed \subseteq Demoted(after)
    OBVIOUS
  <1> HIDE DEF failed
  <1> QED
    BY <1>1, <1>2, <1>3

(* Without a recurrence, what a drain emits is crossed by that drain and   *)
(* was not before: a resource of the batch had neither synced nor failed   *)
(* at its generation.                                                      *)
LEMMA DrainKeeps ==
  ASSUME ~Recurs, DeliveryInv, TypeInv', NEW batch \in SUBSET Resources,
         NEW outcome \in [batch -> {"ok", "unhealthy", "failed"}], Drain(batch, outcome)
  PROVE  DeliveryInv'
  <1>1. TypeInv
    BY DEF DeliveryInv
  <1>2. Emit(Crossings(res')) /\ held' = held
    BY DEF Drain
  <1>3. \A r \in batch : res[r].synced < res[r].gen /\ res[r].fail # res[r].gen
    BY DEF Drain
  <1>4. \A r \in Resources : res[r] \in Counts /\ res[r].synced \in Nat /\ res[r].gen \in Nat
    BY <1>1 DEF TypeInv, Counts
  <1>5. \A r \in batch : res'[r].synced = res'[r].gen \/ res'[r].fail = res'[r].gen
    <2> TAKE r \in batch
    <2>1. /\ outcome[r] \in {"ok", "unhealthy", "failed"}
          /\ res'[r] = Applied(res[r], outcome[r]) /\ res'[r].gen = res[r].gen
      BY <1>1, DrainedRows
    <2> QED
      BY <1>4, <2>1, AppliedRow
  <1>6. \A r \in Resources : /\ res'[r].gen = res[r].gen
                             /\ res'[r] # res[r] => r \in batch
    BY <1>1, DrainedRows
  <1>7. ASSUME NEW k \in Crossings(res')
        PROVE  k.res \in Resources /\ k.gen \in Nat /\ ~Crossed(k) /\ Crossed(k)'
    <2>1. PICK r \in batch : k.res = r /\ k.gen = res'[r].gen /\ k.edge # "created"
      BY <1>1, CrossingKeys, CrossedInBatch
    <2> QED
      BY <1>3, <1>4, <1>5, <1>6, <2>1 DEF Crossed
  <1>8. ASSUME NEW k, k.res \in Resources, k.gen \in Nat, Crossed(k) PROVE Crossed(k)'
    <2>1. CASE k.res \in batch
      BY <1>3, <1>4, <1>6, <1>8, <2>1 DEF Crossed
    <2>2. CASE k.res \notin batch
      BY <1>6, <1>8, <2>2 DEF Crossed
    <2> QED
      BY <2>1, <2>2
  <1> QED
    BY <1>2, <1>7, <1>8, EmissionKeeps

(* An apply emits at a generation the resource did not have before.        *)
LEMMA ApplyKeeps ==
  ASSUME DeliveryInv, TypeInv', NEW r \in Resources, Apply(r)
  PROVE  DeliveryInv'
  <1>1. TypeInv
    BY DEF DeliveryInv
  <1>2. /\ res'[r].gen = res[r].gen + 1
        /\ \A x \in Resources : x # r => res'[x] = res[x]
    BY <1>1, AppliedSpec
  <1>3. res[r].gen \in Nat
    BY <1>1 DEF TypeInv, Counts
  <1>4. PICK keys : /\ Emit(keys)
                    /\ keys = IF r \in Roots THEN Fanout("created", {r}, res') ELSE {}
    BY DEF Apply
  <1>5. ASSUME NEW k \in keys
        PROVE  k.res = r /\ k.gen = res[r].gen + 1 /\ k.edge = "created"
    <2>1. k \in Fanout("created", {r}, res')
      BY <1>4
    <2>2. PICK x \in {r}, b \in enabled :
             k = [res |-> x, edge |-> "created", gen |-> res'[x].gen, bind |-> b]
      BY <2>1, FanoutKeys
    <2> QED
      BY <1>2, <2>2
  <1>6. \A k \in keys : k.res \in Resources /\ k.gen \in Nat /\ ~Crossed(k) /\ Crossed(k)'
    BY <1>2, <1>3, <1>5 DEF Crossed
  <1>7. ASSUME NEW k, k.res \in Resources, k.gen \in Nat, Crossed(k) PROVE Crossed(k)'
    BY <1>2, <1>3, <1>7 DEF Crossed
  <1>8. held' = held
    BY DEF Apply
  <1> QED
    BY <1>4, <1>6, <1>7, <1>8, EmissionKeeps

(* Every step keeps DeliveryInv.                                           *)
LEMMA DeliveryStep == ASSUME ~Recurs PROVE DeliveryInv /\ [Next]_vars => DeliveryInv'
  <1> SUFFICES ASSUME DeliveryInv, [Next]_vars PROVE DeliveryInv'
    OBVIOUS
  <1>t. TypeInv /\ TypeInv'
    BY TypeStep DEF DeliveryInv
  <1>1. ASSUME NEW r \in Resources, Apply(r) PROVE DeliveryInv'
    BY <1>t, <1>1, ApplyKeeps
  <1>2. ASSUME NEW batch \in SUBSET Resources,
               NEW outcome \in [batch -> {"ok", "unhealthy", "failed"}], Drain(batch, outcome)
        PROVE  DeliveryInv'
    BY <1>t, <1>2, DrainKeeps
  <1>3. ASSUME res' = res, \A k : Crossed(k)' <=> Crossed(k), outbox' = outbox, owed' = owed,
               held' \subseteq held
        PROVE  DeliveryInv'
    BY <1>t, <1>3 DEF DeliveryInv, AtLeastOnce
  <1>4. ASSUME NEW r \in Resources, HardDelete(r) PROVE DeliveryInv'
    BY <1>3, <1>4, CrossedUnchanged DEF HardDelete
  <1>5. ASSUME NEW b \in Bindings, EditBinding(b) PROVE DeliveryInv'
    BY <1>3, <1>5, CrossedUnchanged DEF EditBinding
  <1>6. ASSUME NEW e \in held, Fail(e) PROVE DeliveryInv'
    BY <1>3, <1>6, CrossedUnchanged DEF Fail
  <1>7. ASSUME NEW p \in Pods, PodCrash(p) \/ \E shards \in SUBSET Resources : Reshard(p, shards)
        PROVE  DeliveryInv'
    BY <1>3, <1>7, CrossedUnchanged DEF PodCrash, Reshard
  <1>8. ASSUME NEW e \in held, Start(e) \/ React(e) PROVE DeliveryInv'
    <2>1. PICK x : /\ held' = (held \ {e}) \cup {x}
                   /\ x.key = e.key /\ x.epoch = e.epoch
                   /\ owed' \subseteq owed
                   /\ x.phase = "reacted" => e.key \notin owed'
      <3>1. ASSUME NEW phase, held' = Phase(e, phase), owed' \subseteq owed,
                   phase = "reacted" => e.key \notin owed'
            PROVE  \E x : /\ held' = (held \ {e}) \cup {x}
                          /\ x.key = e.key /\ x.epoch = e.epoch
                          /\ owed' \subseteq owed
                          /\ x.phase = "reacted" => e.key \notin owed'
        <4> DEFINE y == [key |-> e.key, epoch |-> e.epoch, pod |-> e.pod, phase |-> phase]
        <4>1. held' = (held \ {e}) \cup {y}
          BY <1>t, <3>1, PhaseFields DEF Phase
        <4>2. y.key = e.key /\ y.epoch = e.epoch /\ y.phase = phase
          OBVIOUS
        <4> HIDE DEF y
        <4> QED
          BY <3>1, <4>1, <4>2
      <3> QED
        BY <1>8, <3>1 DEF Start, React
    <2>2. res' = res /\ outbox' = outbox /\ \A k : Crossed(k)' <=> Crossed(k)
      BY <1>8, CrossedUnchanged DEF Start, React
    <2> QED
      BY <1>t, <2>1, <2>2 DEF DeliveryInv, AtLeastOnce
  <1>9. ASSUME NEW e \in held, Ack(e) PROVE DeliveryInv'
    <2>1. res' = res /\ owed' = owed /\ held' \subseteq held /\ \A k : Crossed(k)' <=> Crossed(k)
      BY <1>9, CrossedUnchanged DEF Ack
    <2>2. outbox' \subseteq outbox /\ \A d \in outbox \ outbox' : d.key = e.key
      BY <1>9 DEF Ack, AckedBy
    <2>3. e.key \notin owed
      BY <1>9 DEF Ack, DeliveryInv
    <2>4. AtLeastOnce'
      BY <2>1, <2>2, <2>3 DEF DeliveryInv, AtLeastOnce
    <2> QED
      BY <1>t, <2>1, <2>2, <2>4 DEF DeliveryInv
  <1>10. ASSUME NEW p \in Pods, NEW rows \in SUBSET outbox, Claim(p, rows) PROVE DeliveryInv'
    <2>1. res' = res /\ owed' = owed /\ \A k : Crossed(k)' <=> Crossed(k)
      BY <1>10, CrossedUnchanged DEF Claim
    <2>2. \A d \in outbox' : \/ d \in outbox \ rows
                             \/ \E c \in rows : d = [key |-> c.key, epoch |-> c.epoch + 1, broker |-> p]
      BY <1>10 DEF Claim
    <2>3. \A e \in held' : \/ e \in held
                           \/ \E c \in rows : e = Execution(c, p)
      BY <1>10 DEF Claim
    <2>4. \A c \in rows : [key |-> c.key, epoch |-> c.epoch + 1, broker |-> p] \in outbox'
      BY <1>10 DEF Claim
    <2>5. outbox \ rows \subseteq outbox'
      BY <1>10 DEF Claim
    <2>6. \A c \in outbox : c.epoch \in Nat
      BY <1>t DEF TypeInv
    <2>7. \A e \in held : e.epoch \in Nat
      BY <1>t DEF TypeInv
    <2>8. \A d \in outbox' : d.key.res \in Resources /\ d.key.gen \in Nat /\ Crossed(d.key)
      BY <2>2 DEF DeliveryInv
    <2>9. \A e \in held' : e.key.res \in Resources /\ e.key.gen \in Nat /\ Crossed(e.key)
      BY <2>3 DEF DeliveryInv, Execution
    <2>10. \A d1, d2 \in outbox' : d1.key = d2.key => d1 = d2
      BY <2>2 DEF DeliveryInv
    <2>11. ASSUME NEW e \in held', NEW d \in outbox', e.key = d.key PROVE e.epoch <= d.epoch
      <3>1. PICK c \in outbox : c.key = d.key /\ c.epoch <= d.epoch
                               /\ (c \in rows => d.epoch = c.epoch + 1)
        BY <2>2, <2>6
      <3>2. d.epoch \in Nat
        BY <1>t DEF TypeInv
      <3>3. CASE e \in held
        <4>1. e.epoch <= c.epoch
          BY <2>11, <3>1, <3>3 DEF DeliveryInv
        <4> QED
          BY <2>6, <2>7, <3>1, <3>2, <3>3, <4>1
      <3>4. ASSUME NEW r \in rows, e = Execution(r, p) PROVE e.epoch <= d.epoch
        <4>1. e.key = r.key /\ e.epoch = r.epoch + 1
          BY <3>4 DEF Execution
        <4>2. c = r
          BY <2>11, <3>1, <4>1 DEF DeliveryInv
        <4> QED
          BY <2>6, <3>1, <3>2, <4>1, <4>2
      <3> QED
        BY <2>3, <3>3, <3>4
    <2>12. ASSUME NEW e \in held, NEW c \in rows PROVE ~(e.key = c.key /\ e.epoch = c.epoch + 1)
      <3>1. e.key = c.key => e.epoch <= c.epoch
        BY DEF DeliveryInv
      <3> QED
        BY <2>6, <2>7, <3>1
    <2>13. ASSUME NEW e1 \in held', NEW e2 \in held', e1.key = e2.key, e1.epoch = e2.epoch
           PROVE  e1 = e2
      <3>1. \A c \in rows : Execution(c, p).key = c.key /\ Execution(c, p).epoch = c.epoch + 1
        BY DEF Execution
      <3>2. CASE e1 \in held /\ e2 \in held
        BY <2>13, <3>2 DEF DeliveryInv
      <3>3. CASE e1 \in held <=> e2 \notin held
        BY <2>3, <2>12, <2>13, <3>1, <3>3
      <3>4. CASE e1 \notin held /\ e2 \notin held
        <4>1. PICK c1 \in rows, c2 \in rows : e1 = Execution(c1, p) /\ e2 = Execution(c2, p)
          BY <2>3, <3>4
        <4>2. c1 = c2
          BY <2>13, <3>1, <4>1 DEF DeliveryInv
        <4> QED
          BY <4>1, <4>2
      <3> QED
        BY <3>2, <3>3, <3>4
    <2>14. \A e \in held' : e.phase = "reacted" => e.key \notin owed
      BY <2>3 DEF DeliveryInv, Execution
    <2>15. AtLeastOnce'
      <3> SUFFICES ASSUME NEW k \in owed PROVE \E d \in outbox' : d.key = k
        BY <2>1 DEF AtLeastOnce
      <3>1. PICK c \in outbox : c.key = k
        BY DEF DeliveryInv, AtLeastOnce
      <3>2. CASE c \in rows
        BY <2>4, <3>1, <3>2
      <3>3. CASE c \notin rows
        BY <2>5, <3>1, <3>3
      <3> QED
        BY <3>2, <3>3
    <2> QED
      BY <1>t, <2>1, <2>8, <2>9, <2>10, <2>11, <2>13, <2>14, <2>15 DEF DeliveryInv
  <1>11. ASSUME NEW d \in outbox, Reap(d) PROVE DeliveryInv'
    <2>1. PICK x : /\ outbox' = (outbox \ {d}) \cup {x}
                   /\ x.key = d.key /\ x.epoch = d.epoch + 1
      <3> DEFINE y == [key |-> d.key, epoch |-> d.epoch + 1, broker |-> NoPod]
      <3>1. outbox' = (outbox \ {d}) \cup {y}
        BY <1>11 DEF Reap
      <3>2. y.key = d.key /\ y.epoch = d.epoch + 1
        OBVIOUS
      <3> HIDE DEF y
      <3> QED
        BY <3>1, <3>2
    <2>2. res' = res /\ held' = held /\ owed' = owed /\ \A k : Crossed(k)' <=> Crossed(k)
      BY <1>11, CrossedUnchanged DEF Reap
    <2>3. d.epoch \in Nat /\ \A e \in held : e.epoch \in Nat
      BY <1>t DEF TypeInv
    <2>4. \A e \in held', c \in outbox' : e.key = c.key => e.epoch <= c.epoch
      BY <2>1, <2>2, <2>3 DEF DeliveryInv
    <2>5. AtLeastOnce'
      BY <2>1, <2>2 DEF DeliveryInv, AtLeastOnce
    <2> QED
      BY <1>t, <2>1, <2>2, <2>4, <2>5 DEF DeliveryInv
  <1>12. CASE UNCHANGED vars
    BY <1>3, <1>12, CrossedUnchanged DEF vars
  <1> QED
    BY <1>1, <1>2, <1>4, <1>5, <1>6, <1>7, <1>8, <1>9, <1>10, <1>11, <1>12 DEF Next

(* As long as no resource crosses an edge twice at one generation: a       *)
(* delivery that has not been reacted to keeps its row whatever fails,     *)
(* crashes, is reaped or is acked late, and of its executions only the     *)
(* holder of the current claim can delete the row (deliver,                *)
(* claim_reactor_deliveries, ack_reactor_delivery, reap_stale_lifecycle).  *)
THEOREM DeliveriesKeptHolds == ASSUME ~Recurs PROVE Spec => []DeliveriesKept
  <1>1. Init => DeliveryInv
    BY TypeInit DEF Init, DeliveryInv, AtLeastOnce
  <1>2. DeliveryInv => DeliveriesKept
    <2> SUFFICES ASSUME DeliveryInv PROVE OneAcker
      BY DEF DeliveryInv, DeliveriesKept
    <2> QED
      BY DEF DeliveryInv, OneAcker, AckedBy
  <1>3. DeliveryInv /\ [Next]_vars => DeliveryInv'
    BY DeliveryStep
  <1> QED
    BY <1>1, <1>2, <1>3, PTL DEF Spec

----------------------------------------------------------------------------
(* What one step reports of one binding and one resource.                  *)
Reported(b, r) ==
    \E d \in outbox' :
        d.key = [res |-> r, edge |-> Edge[b], gen |-> res'[r].gen, bind |-> b]

(* A drain hands the edges its batch crosses to the matching bindings.     *)
LEMMA DrainReports ==
  ASSUME TypeInv, NEW batch \in SUBSET Resources,
         NEW outcome \in [batch -> {"ok", "unhealthy", "failed"}], Drain(batch, outcome),
         NEW b \in enabled, NEW r \in Matching[b], r \in Resources
  PROVE  /\ Edge[b] = "synced" /\ res'[r].synced = res'[r].gen /\ res[r].synced < res[r].gen
               => Reported(b, r)
         /\ Edge[b] = "failed" /\ r \notin Roots
               /\ res'[r].fail = res'[r].gen /\ res[r].fail # res[r].gen
               => Reported(b, r)
  <1> DEFINE k == [res |-> r, edge |-> Edge[b], gen |-> res'[r].gen, bind |-> b]
             failed == {x \in Demoted(res') : res'[x].fail = res'[x].gen}
  <1>1. Emit(Crossings(res'))
    BY DEF Drain
  <1>2. k \in Crossings(res') => Reported(b, r)
    BY <1>1, EmittedRows DEF Reported
  <1>3. ASSUME Edge[b] = "synced", res'[r].synced = res'[r].gen, res[r].synced < res[r].gen
        PROVE  k \in Crossings(res')
    <2>1. res'[r].gen \in Nat
      BY DrainedRows DEF Counts
    <2>2. r \in Upgraded(res')
      BY <1>3, <2>1 DEF Upgraded
    <2>3. k \in Fanout("synced", Upgraded(res'), res')
      BY <1>3, <2>2, FanoutKeys
    <2> QED
      BY <2>3 DEF Crossings
  <1>4. ASSUME Edge[b] = "failed", r \notin Roots,
               res'[r].fail = res'[r].gen, res[r].fail # res[r].gen
        PROVE  k \in Crossings(res')
    <2>1. r \in Demoted(res')
      BY <1>4 DEF Demoted, NewlyFailed
    <2>2. r \in failed /\ ~(Demoted(res') \subseteq Roots)
      BY <1>4, <2>1
    <2>3. k \in Fanout("failed", failed, res')
      BY <1>4, <2>2, FanoutKeys
    <2> QED
      BY <2>2, <2>3 DEF Crossings
  <1> QED
    BY <1>2, <1>3, <1>4

(* Every crossing of a drain batch is handed to every enabled binding that *)
(* matches: whatever else is in the batch, whichever older rows are still  *)
(* undelivered, and also when an edge is crossed again at one generation   *)
(* (cascade_on_ready_change).                                              *)
THEOREM CrossingsReportedHolds == Spec => CrossingsReported
  <1> DEFINE fails(row) == row.gen > 0 /\ row.fail = row.gen
             step == \A b \in enabled : \A r \in Matching[b] :
                 /\ Edge[b] = "synced" /\ res'[r].synced = res'[r].gen
                       /\ res[r].synced < res[r].gen => Reported(b, r)
                 /\ Edge[b] = "failed" /\ r \notin Roots
                       /\ fails(res'[r]) /\ ~fails(res[r]) => Reported(b, r)
  <1>1. TypeInv /\ [Next]_vars => [step]_vars
    <2> SUFFICES ASSUME TypeInv, Next,
                        NEW b \in enabled, NEW r \in Matching[b]
                 PROVE  /\ Edge[b] = "synced" /\ res'[r].synced = res'[r].gen
                             /\ res[r].synced < res[r].gen => Reported(b, r)
                        /\ Edge[b] = "failed" /\ r \notin Roots
                             /\ fails(res'[r]) /\ ~fails(res[r]) => Reported(b, r)
      OBVIOUS
    <2>1. r \in Resources
      BY ReactorAssumption DEF TypeInv
    <2>2. /\ res[r].gen \in Nat /\ res[r].synced \in Nat /\ res[r].fail \in Nat
          /\ res[r].synced <= res[r].gen /\ res[r].fail <= res[r].gen
      BY <2>1 DEF TypeInv, Counts
    <2>3. CASE res' = res
      BY <2>2, <2>3
    <2>4. ASSUME NEW x \in Resources, Apply(x) PROVE x = r \/ res'[r] = res[r]
      BY <2>1, <2>4, AppliedSpec
    <2>5. CASE Apply(r)
      <3>1. /\ res'[r].gen = res[r].gen + 1
            /\ res'[r].synced = res[r].synced /\ res'[r].fail = res[r].fail
        BY <2>1, <2>5, AppliedSpec
      <3> QED
        BY SMTT(30), <2>2, <3>1
    <2>6. CASE res'[r] = res[r]
      BY <2>2, <2>6
    <2>7. ASSUME NEW batch \in SUBSET Resources,
                 NEW outcome \in [batch -> {"ok", "unhealthy", "failed"}], Drain(batch, outcome)
          PROVE  res'[r].gen = res[r].gen
      BY <2>1, <2>7, DrainedRows
    <2>8. ASSUME NEW batch \in SUBSET Resources,
                 NEW outcome \in [batch -> {"ok", "unhealthy", "failed"}], Drain(batch, outcome)
          PROVE  /\ Edge[b] = "synced" /\ res'[r].synced = res'[r].gen
                      /\ res[r].synced < res[r].gen => Reported(b, r)
                 /\ Edge[b] = "failed" /\ r \notin Roots
                      /\ res'[r].fail = res'[r].gen /\ res[r].fail # res[r].gen => Reported(b, r)
      BY <2>1, <2>8, DrainReports
    <2>9. \/ \E x \in Resources : Apply(x)
          \/ \E batch \in SUBSET Resources :
                \E outcome \in [batch -> {"ok", "unhealthy", "failed"}] : Drain(batch, outcome)
          \/ res' = res
      BY DEF Next, HardDelete, EditBinding, Claim, Start, React, Ack, Fail, PodCrash, Reshard, Reap
    <2> QED
      BY <2>2, <2>3, <2>4, <2>5, <2>6, <2>7, <2>8, <2>9
  <1>2. [step]_vars <=> [\A b \in enabled : \A r \in Matching[b] :
          LET reported == \E d \in outbox' :
                  d.key = [res |-> r, edge |-> Edge[b], gen |-> res'[r].gen, bind |-> b]
              f(row) == row.gen > 0 /\ row.fail = row.gen
          IN  /\ Edge[b] = "synced" /\ res'[r].synced = res'[r].gen
                    /\ res[r].synced < res[r].gen => reported
              /\ Edge[b] = "failed" /\ r \notin Roots
                    /\ f(res'[r]) /\ ~f(res[r]) => reported]_vars
    BY DEF Reported
  <1> QED
    BY <1>1, <1>2, TypeInit, TypeStep, PTL DEF Spec, CrossingsReported
=============================================================================
