-------------------------- MODULE WorkQueueProofs --------------------------
(***************************************************************************)
(* Proofs about WorkQueue for any number of resources, pods, edits and     *)
(* faults.  IInv is the inductive invariant: ids are not reused, a token   *)
(* held by an execution is never ahead of its row, tokens are unique, and  *)
(* every success on its way to the drain was carried out.                  *)
(***************************************************************************)
EXTENDS WorkQueue, TLAPS

(* Zenon is the prover of this module; leaves that need arithmetic, records *)
(* or sequences ask for SMT.                                               *)
USE Zenon

(* A row's id was handed out, and no two resources share a row.            *)
RowsInv ==
    /\ \A r \in Resources : queue[r].id < nextId
    /\ \A r, s \in Resources :
          queue[r].id # 0 /\ queue[r].id = queue[s].id => r = s

(* A claim's id was handed out, its token is at most its row's, and no     *)
(* other claim bears it.                                                   *)
TokensInv ==
    /\ \A e \in execs : e.id # 0 /\ e.id < nextId
    /\ \A e \in execs, r \in Resources :
          queue[r].id = e.id => e.epoch <= queue[r].epoch
    /\ \A e, f \in execs : e.id = f.id /\ e.epoch = f.epoch => e = f

(* Work is queued and carried out only for generations that were asked for. *)
GenerationsInv ==
    /\ \A r \in Resources :
          queue[r].id # 0 => queue[r].gen \in 1..generation[r]
    /\ \A e \in execs : e.gen \in 1..generation[e.res]

(* Whatever says "success" was carried out.                                *)
CarriedOutInv ==
    /\ \A e \in execs : e.result = "success" => e.gen \in done[e.res]
    /\ \A o \in outbox : o.result = "success" => o.gen \in done[o.res]
    /\ SyncedWasCarriedOut

IInv == TypeOK /\ RowsInv /\ TokensInv /\ GenerationsInv /\ CarriedOutInv

----------------------------------------------------------------------------

\* The queue starts in the invariant.
LEMMA InitInvariant == Init => IInv
<1>1. ASSUME Init PROVE TypeOK
  <2>1. disordered \in BOOLEAN
    BY <1>1, Zenon DEF Init
  <2>2. queue \in [Resources -> Row]
    BY <1>1 DEF Init, Row, NoRow
  <2> QED
    BY <1>1, <2>1, <2>2, SMT DEF Init, TypeOK
<1>2. Init => RowsInv /\ TokensInv /\ GenerationsInv /\ CarriedOutInv
  BY SMTT(30), ConstantsAssumption
  DEF Init, RowsInv, TokensInv, GenerationsInv, CarriedOutInv,
      SyncedWasCarriedOut, NoRow
<1> QED
  BY <1>1, <1>2 DEF IInv

(* schedule_eligible leaves the queue as it is, adds a row with a fresh id *)
(* or re-points the row with a later token.                                *)
LEMMA ScheduleStep ==
    ASSUME TypeOK, NEW r \in Resources, NEW g \in Nat \ {0}, NEW fz \in BOOLEAN,
           schedule_eligible(r, g, fz)
    PROVE  /\ queue' \in [Resources -> Row]
           /\ nextId' \in Nat \ {0} /\ nextId' >= nextId
           /\ \A s \in Resources : s # r => queue'[s] = queue[s]
           /\ \/ queue'[r] = queue[r] /\ nextId' = nextId
              \/ queue'[r].id = nextId /\ nextId' = nextId + 1
                 /\ queue'[r].gen = g
              \/ /\ queue'[r].id = queue[r].id /\ nextId' = nextId
                 /\ queue[r].id # 0
                 /\ queue'[r].gen = g /\ queue'[r].epoch = queue[r].epoch + 1
<1> USE ConstantsAssumption DEF TypeOK, Row
<1>1. CASE /\ ~Queued(r)
           /\ queue' = [queue EXCEPT ![r] = NewRow(g)]
           /\ nextId' = nextId + 1
  <2>1. NewRow(g) \in Row
    BY DEF NewRow
  <2> QED
    BY SMTT(30), <1>1, <2>1 DEF NewRow
<1>2. CASE /\ Queued(r)
           /\ queue' = [queue EXCEPT ![r] = Repointed(queue[r], g)]
           /\ UNCHANGED nextId
  <2>1. /\ Repointed(queue[r], g) \in Row
        /\ Repointed(queue[r], g).id = queue[r].id
        /\ Repointed(queue[r], g).gen = g
        /\ Repointed(queue[r], g).epoch = queue[r].epoch + 1
    BY SMTT(30) DEF Repointed
  <2>2. queue'[r] = Repointed(queue[r], g)
    BY <1>2
  <2>3. queue' \in [Resources -> Row]
    BY <1>2, <2>1
  <2> QED
    BY SMTT(30), <1>2, <2>1, <2>2, <2>3 DEF Queued
<1>3. CASE UNCHANGED <<queue, nextId>>
  BY SMTT(30), <1>3
<1> QED
  BY <1>1, <1>2, <1>3 DEF schedule_eligible

(* What a step other than a claim may do to the row of a resource: remove  *)
(* it, keep its id with a token that is not older, or give it a fresh id.  *)
RowEvolves(r) ==
    \/ queue'[r].id = 0
    \/ /\ queue'[r].id = queue[r].id
       /\ queue'[r].epoch >= queue[r].epoch
       /\ queue'[r].gen \in 1..generation'[r]
    \/ /\ queue'[r].id = nextId /\ nextId' = nextId + 1
       /\ queue'[r].gen \in 1..generation'[r]
       /\ \A s \in Resources : s # r => queue'[s] = queue[s]

(* Steps that only let rows evolve and executions end keep the facts about *)
(* rows, tokens and generations.                                           *)
LEMMA RowsEvolve ==
    ASSUME IInv,
           queue' \in [Resources -> Row],
           nextId' \in Nat \ {0}, nextId' >= nextId,
           generation' \in [Resources -> Nat],
           \A r \in Resources : generation'[r] >= generation[r],
           execs' \subseteq execs,
           \A r \in Resources : RowEvolves(r)
    PROVE  RowsInv' /\ TokensInv' /\ GenerationsInv'
<1>a. \A r \in Resources :
         /\ queue[r].id \in Nat /\ queue[r].epoch \in Nat
         /\ queue'[r].id \in Nat /\ queue'[r].epoch \in Nat
  BY DEF IInv, TypeOK, Row
<1>b. \A e \in execs : e.id \in Nat /\ e.epoch \in Nat /\ e.res \in Resources
                        /\ e.gen \in Nat
  BY DEF IInv, TypeOK, Exec
<1>c. nextId \in Nat /\ nextId' \in Nat /\ generation \in [Resources -> Nat]
  BY DEF IInv, TypeOK
<1>d. RowsInv /\ TokensInv /\ GenerationsInv
  BY DEF IInv
<1>1. \A r \in Resources : queue'[r].id < nextId'
  <2> TAKE r \in Resources
  <2> QED BY SMTT(30), <1>a, <1>c, <1>d DEF RowEvolves, RowsInv
<1>2. \A r, s \in Resources :
         queue'[r].id # 0 /\ queue'[r].id = queue'[s].id => r = s
  <2> SUFFICES ASSUME NEW r \in Resources, NEW s \in Resources,
                      queue'[r].id # 0, queue'[r].id = queue'[s].id, r # s
               PROVE FALSE
    OBVIOUS
  <2>1. queue[r].id < nextId /\ queue[s].id < nextId
    BY <1>d DEF RowsInv
  <2> QED
    BY SMTT(30), <2>1, <1>a, <1>c, <1>d DEF RowEvolves, RowsInv
<1>3. \A e \in execs' : e.id # 0 /\ e.id < nextId'
  BY SMTT(30), <1>b, <1>c, <1>d DEF TokensInv
<1>4. \A e \in execs', r \in Resources :
         queue'[r].id = e.id => e.epoch <= queue'[r].epoch
  <2> SUFFICES ASSUME NEW e \in execs, NEW r \in Resources,
                      queue'[r].id = e.id
               PROVE e.epoch <= queue'[r].epoch
    OBVIOUS
  <2>1. e.id # 0 /\ e.id < nextId
    BY <1>d DEF TokensInv
  <2>2. queue'[r].id = queue[r].id /\ queue'[r].epoch >= queue[r].epoch
    BY SMTT(30), <2>1, <1>a, <1>b, <1>c DEF RowEvolves
  <2>3. e.epoch <= queue[r].epoch
    BY <2>2, <1>d DEF TokensInv
  <2> QED
    BY SMTT(30), <2>2, <2>3, <1>a, <1>b
<1>5. \A e, f \in execs' : e.id = f.id /\ e.epoch = f.epoch => e = f
  BY <1>d DEF TokensInv
<1>6. \A r \in Resources :
         queue'[r].id # 0 => queue'[r].gen \in 1..generation'[r]
  BY DEF RowEvolves
<1>7. \A e \in execs' : e.gen \in 1..generation'[e.res]
  <2> SUFFICES ASSUME NEW e \in execs
               PROVE e.gen \in 1..generation'[e.res]
    OBVIOUS
  <2>1. e.gen \in 1..generation[e.res]
    BY <1>d DEF GenerationsInv
  <2>2. generation'[e.res] >= generation[e.res] /\ generation'[e.res] \in Nat
    BY <1>b
  <2> QED
    BY SMTT(30), <2>1, <2>2, <1>b, <1>c
<1> QED
  BY <1>1, <1>2, <1>3, <1>4, <1>5, <1>6, <1>7
  DEF RowsInv, TokensInv, GenerationsInv

(* Steps that leave the success records alone keep CarriedOutInv.          *)
LEMMA CarriedOutKept ==
    ASSUME CarriedOutInv, execs' \subseteq execs, outbox' \subseteq outbox,
           UNCHANGED <<done, synced_gen>>
    PROVE  CarriedOutInv'
  BY DEF CarriedOutInv, SyncedWasCarriedOut

(* A row that is left as it is evolves.                                    *)
LEMMA RowKept ==
    ASSUME IInv, NEW r \in Resources, queue'[r] = queue[r],
           generation' \in [Resources -> Nat], generation'[r] >= generation[r]
    PROVE  RowEvolves(r)
<1>1. queue[r].id = 0 \/ queue[r].gen \in 1..generation[r]
  BY DEF IInv, GenerationsInv
<1>2. queue[r].gen \in Nat /\ queue[r].epoch \in Nat /\ generation[r] \in Nat
  BY DEF IInv, TypeOK, Row
<1> QED
  BY SMTT(30), <1>1, <1>2 DEF RowEvolves

(* A row that schedule_eligible may have touched evolves.                  *)
LEMMA ScheduleEvolves ==
    ASSUME IInv, NEW r \in Resources, NEW g \in Nat \ {0}, NEW fz \in BOOLEAN,
           schedule_eligible(r, g, fz),
           generation' \in [Resources -> Nat], generation'[r] = g,
           \A s \in Resources : generation'[s] >= generation[s]
    PROVE  /\ queue' \in [Resources -> Row]
           /\ nextId' \in Nat \ {0} /\ nextId' >= nextId
           /\ \A s \in Resources : RowEvolves(s)
<1>1. TypeOK
  BY DEF IInv
<1>2. /\ queue' \in [Resources -> Row]
      /\ nextId' \in Nat \ {0} /\ nextId' >= nextId
      /\ \A s \in Resources : s # r => queue'[s] = queue[s]
      /\ \/ queue'[r] = queue[r] /\ nextId' = nextId
         \/ queue'[r].id = nextId /\ nextId' = nextId + 1 /\ queue'[r].gen = g
         \/ /\ queue'[r].id = queue[r].id /\ nextId' = nextId
            /\ queue[r].id # 0
            /\ queue'[r].gen = g /\ queue'[r].epoch = queue[r].epoch + 1
  BY SMTT(30), <1>1, ScheduleStep
<1>3. ASSUME NEW s \in Resources, s # r PROVE RowEvolves(s)
  BY <1>2, <1>3, RowKept
<1>4. RowEvolves(r)
  <2>1. CASE queue'[r] = queue[r]
    BY <2>1, RowKept
  <2>2. CASE queue'[r].id = nextId /\ nextId' = nextId + 1 /\ queue'[r].gen = g
    BY SMTT(30), <2>2, <1>2 DEF RowEvolves
  <2>3. CASE /\ queue'[r].id = queue[r].id
             /\ queue'[r].gen = g /\ queue'[r].epoch = queue[r].epoch + 1
    <3>1. queue[r].epoch \in Nat
      BY <1>1 DEF TypeOK, Row
    <3> QED
      BY SMTT(30), <2>3, <3>1 DEF RowEvolves
  <2> QED
    BY <1>2, <2>1, <2>2, <2>3
<1> QED
  BY <1>2, <1>3, <1>4

(* A freed row evolves.                                                    *)
LEMMA FreedEvolves ==
    ASSUME IInv, NEW r \in Resources,
           queue'[r] = Freed(queue[r]),
           UNCHANGED generation
    PROVE  RowEvolves(r) /\ Freed(queue[r]) \in Row
<1>1. queue[r] \in Row /\ generation[r] \in Nat
  BY DEF IInv, TypeOK
<1>2. queue[r].id = 0 \/ queue[r].gen \in 1..generation[r]
  BY DEF IInv, GenerationsInv
<1> QED
  BY SMTT(30), <1>1, <1>2 DEF Freed, Row, RowEvolves

----------------------------------------------------------------------------

(* The actions that go through schedule_eligible.                          *)
LEMMA ScheduleActions ==
    ASSUME IInv, NEW r \in Resources,
           \/ ApplySpec(r) \/ ApplyLabels(r) \/ Unquarantine(r)
           \/ requeue_failed_and_pending(r)
    PROVE  IInv'
<1>1. PICK fz \in BOOLEAN : schedule_eligible(r, generation'[r], fz)
  BY DEF IInv, TypeOK, ApplySpec, ApplyLabels, Unquarantine,
         requeue_failed_and_pending, resourceVars
<1>2. /\ generation' \in [Resources -> Nat] /\ generation'[r] \in Nat \ {0}
      /\ \A s \in Resources : generation'[s] >= generation[s]
  <2>0. /\ generation \in [Resources -> Nat] /\ synced_gen \in [Resources -> Nat]
    BY DEF IInv, TypeOK
  <2>1. CASE ApplySpec(r)
    BY SMTT(30), <2>0, <2>1 DEF ApplySpec
  <2>2. CASE generation[r] > 0 /\ UNCHANGED generation
    BY SMTT(30), <2>0, <2>2
  <2>3. CASE requeue_failed_and_pending(r)
    BY SMTT(30), <2>0, <2>3 DEF requeue_failed_and_pending, Eligible, resourceVars
  <2> QED
    BY <2>1, <2>2, <2>3 DEF ApplyLabels, Unquarantine, resourceVars
<1>3. /\ queue' \in [Resources -> Row]
      /\ nextId' \in Nat \ {0} /\ nextId' >= nextId
      /\ \A s \in Resources : RowEvolves(s)
  BY <1>1, <1>2, ScheduleEvolves
<1>4. /\ UNCHANGED <<synced_gen, status, failureVars, outbox, execs, reaping,
                     done, disordered, faults>>
      /\ frozen' \in [Resources -> BOOLEAN]
  BY DEF IInv, TypeOK, ApplySpec, ApplyLabels, Unquarantine,
         requeue_failed_and_pending, resourceVars, failureVars,
         ledger
<1>5. TypeOK'
  BY <1>2, <1>3, <1>4 DEF IInv, TypeOK, failureVars
<1>6. RowsInv' /\ TokensInv' /\ GenerationsInv'
  BY <1>2, <1>3, <1>4, RowsEvolve
<1>7. CarriedOutInv'
  BY <1>4, CarriedOutKept DEF IInv
<1> QED
  BY <1>5, <1>6, <1>7 DEF IInv

(* The actions that remove rows, free them, or leave the queue alone, and  *)
(* at most end executions.                                                 *)
LEMMA RowActions ==
    ASSUME IInv,
           queue' \in [Resources -> Row],
           \A r \in Resources : \/ queue'[r] = queue[r]
                                \/ queue'[r] = NoRow
                                \/ queue'[r] = Freed(queue[r]),
           execs' \subseteq execs, outbox' \subseteq outbox,
           UNCHANGED <<generation, nextId, done, synced_gen>>
    PROVE  RowsInv' /\ TokensInv' /\ GenerationsInv' /\ CarriedOutInv'
<1>1. generation' \in [Resources -> Nat]
      /\ \A r \in Resources : generation'[r] >= generation[r]
  BY SMTT(30) DEF IInv, TypeOK
<1>2. nextId' \in Nat \ {0} /\ nextId' >= nextId
  BY SMTT(30) DEF IInv, TypeOK
<1>3. ASSUME NEW r \in Resources PROVE RowEvolves(r)
  <2>1. CASE queue'[r] = queue[r]
    BY <2>1, <1>1, RowKept
  <2>2. CASE queue'[r] = NoRow
    BY SMTT(30), <2>2 DEF RowEvolves, NoRow
  <2>3. CASE queue'[r] = Freed(queue[r])
    BY <2>3, FreedEvolves
  <2> QED
    BY <2>1, <2>2, <2>3
<1>4. RowsInv' /\ TokensInv' /\ GenerationsInv'
  BY <1>1, <1>2, <1>3, RowsEvolve
<1>5. CarriedOutInv'
  BY CarriedOutKept DEF IInv
<1> QED
  BY <1>4, <1>5

\* A freed queue row is a queue row.
LEMMA FreedIsRow ==
    ASSUME TypeOK, NEW r \in Resources PROVE Freed(queue[r]) \in Row
  BY SMTT(30) DEF TypeOK, Row, Freed

\* The absence of a row has the type of one.
LEMMA NoRowIsRow == NoRow \in Row
  BY DEF NoRow, Row

\* quarantine_resource keeps the invariant.
LEMMA QuarantineStep ==
    ASSUME IInv, NEW r \in Resources, Quarantine(r) PROVE IInv'
<1>1. TypeOK'
  BY SMTT(30), NoRowIsRow DEF IInv, TypeOK, Quarantine, Charge, failureVars
<1>2. \A s \in Resources : queue'[s] = queue[s] \/ queue'[s] = NoRow
  BY DEF IInv, TypeOK, Quarantine
<1>3. UNCHANGED <<generation, nextId, done, synced_gen, execs, outbox>>
  BY DEF Quarantine
<1>4. queue' \in [Resources -> Row]
  BY <1>1 DEF TypeOK
<1> QED
  BY <1>1, <1>2, <1>3, <1>4, RowActions DEF IInv

\* delete_unclaimed_work keeps the invariant.
LEMMA DeleteUnclaimedStep ==
    ASSUME IInv, NEW r \in Resources, delete_unclaimed_work(r) PROVE IInv'
<1>1. TypeOK'
  BY SMTT(30), NoRowIsRow DEF IInv, TypeOK, delete_unclaimed_work, Charge, resourceVars
<1>2. \A s \in Resources : queue'[s] = queue[s] \/ queue'[s] = NoRow
  BY DEF IInv, TypeOK, delete_unclaimed_work
<1>3. UNCHANGED <<generation, nextId, done, synced_gen, execs, outbox>>
  BY DEF delete_unclaimed_work, resourceVars
<1>4. queue' \in [Resources -> Row]
  BY <1>1 DEF TypeOK
<1> QED
  BY <1>1, <1>2, <1>3, <1>4, RowActions DEF IInv

\* WorkQueueReleaseTasks keeps the invariant.
LEMMA ReleaseStep ==
    ASSUME IInv, NEW r \in Resources, ReleaseTasks(r) PROVE IInv'
<1>1. TypeOK'
  BY SMTT(30), FreedIsRow DEF IInv, TypeOK, ReleaseTasks, Fault, Charge, resourceVars
<1>2. \A s \in Resources : queue'[s] = queue[s] \/ queue'[s] = Freed(queue[s])
  BY DEF IInv, TypeOK, ReleaseTasks
<1>3. UNCHANGED <<generation, nextId, done, synced_gen, execs, outbox>>
  BY DEF ReleaseTasks, resourceVars
<1>4. queue' \in [Resources -> Row]
  BY <1>1 DEF TypeOK
<1> QED
  BY <1>1, <1>2, <1>3, <1>4, RowActions DEF IInv

\* A pod that stops or crashes keeps the invariant.
LEMMA PodStep ==
    ASSUME IInv, NEW p \in Pods, PodStop(p) \/ PodCrash(p) PROVE IInv'
<1>1. \A s \in Resources : queue'[s] = queue[s] \/ queue'[s] = Freed(queue[s])
  BY DEF IInv, TypeOK, PodStop, PodCrash
<1>2. /\ UNCHANGED <<generation, nextId, done, synced_gen, outbox>>
      /\ execs' \subseteq execs
  BY DEF PodStop, PodCrash, resourceVars
<1>3. queue' \in [Resources -> Row]
  BY FreedIsRow DEF IInv, TypeOK, PodStop, PodCrash
<1>4. TypeOK'
  BY SMTT(30), <1>2, <1>3 DEF IInv, TypeOK, PodStop, PodCrash, Fault, Charge, resourceVars
<1> QED
  BY <1>1, <1>2, <1>3, <1>4, RowActions DEF IInv

\* A crash of Postgres, which truncates the UNLOGGED tables, keeps the invariant.
LEMMA PostgresCrashStep ==
    ASSUME IInv, PostgresCrash PROVE IInv'
<1>1. TypeOK'
  BY SMTT(30), NoRowIsRow DEF IInv, TypeOK, PostgresCrash, Fault, Charge, resourceVars
<1>2. \A s \in Resources : queue'[s] = NoRow
  BY DEF PostgresCrash
<1>3. /\ UNCHANGED <<generation, nextId, done, synced_gen>>
      /\ execs' \subseteq execs /\ outbox' \subseteq outbox
  BY DEF PostgresCrash, resourceVars
<1>4. queue' \in [Resources -> Row]
  BY <1>1 DEF TypeOK
<1> QED
  BY <1>1, <1>2, <1>3, <1>4, RowActions DEF IInv

\* The stale reaper's selection and update keep the invariant.
LEMMA ReaperStep ==
    ASSUME IInv,
           (\E r \in Resources : ReapSelect(r)) \/ ReapUpdate
    PROVE  IInv'
<1>1. \A s \in Resources : queue'[s] = queue[s] \/ queue'[s] = Freed(queue[s])
  BY DEF IInv, TypeOK, ReapSelect, ReapUpdate
<1>2. UNCHANGED <<resourceVars, nextId, done, execs, outbox>>
  BY DEF ReapSelect, ReapUpdate
<1>3. queue' \in [Resources -> Row]
  BY ZenonT(60), FreedIsRow DEF IInv, TypeOK, ReapSelect, ReapUpdate
<1>4. disordered' \in BOOLEAN /\ faults' \in Nat
  BY SMTT(30) DEF IInv, TypeOK, ReapSelect, ReapUpdate, Fault, Charge, ledger
<1>5. reaping' \subseteq [id : Nat, epoch : Nat]
  BY SMTT(30) DEF IInv, TypeOK, Row, ReapSelect, ReapUpdate
<1>6. TypeOK'
  BY <1>2, <1>3, <1>4, <1>5 DEF IInv, TypeOK, resourceVars
<1> QED
  BY <1>1, <1>2, <1>3, <1>6, RowActions DEF IInv, resourceVars

\* requeue_for_resync keeps the invariant.
LEMMA ResyncStep ==
    ASSUME IInv, NEW r \in Resources, requeue_for_resync(r) PROVE IInv'
<1>1. /\ generation[r] \in Nat \ {0} /\ nextId \in Nat \ {0}
      /\ generation' = generation /\ generation \in [Resources -> Nat]
  BY SMTT(30) DEF IInv, TypeOK, requeue_for_resync, resourceVars
<1>2. /\ NewRow(generation[r]) \in Row
      /\ NewRow(generation[r]).id = nextId
      /\ NewRow(generation[r]).gen = generation[r]
  BY <1>1, ConstantsAssumption DEF NewRow, Row
<1>3. queue' = [queue EXCEPT ![r] = NewRow(generation[r])] /\ nextId' = nextId + 1
  BY DEF requeue_for_resync
<1>4. queue' \in [Resources -> Row] /\ queue'[r] = NewRow(generation[r])
      /\ \A s \in Resources : s # r => queue'[s] = queue[s]
  BY <1>2, <1>3 DEF IInv, TypeOK
<1>5. nextId' \in Nat \ {0} /\ nextId' >= nextId
  BY SMTT(30), <1>1, <1>3
<1>6. ASSUME NEW s \in Resources PROVE RowEvolves(s)
  <2>1. CASE s = r
    BY SMTT(30), <2>1, <1>1, <1>2, <1>3, <1>4 DEF RowEvolves
  <2>2. CASE s # r
    BY SMTT(30), <2>2, <1>1, <1>4, RowKept
  <2> QED
    BY <2>1, <2>2
<1>7. RowsInv' /\ TokensInv' /\ GenerationsInv'
  BY SMTT(30), <1>1, <1>4, <1>5, <1>6, RowsEvolve DEF requeue_for_resync
<1>8. CarriedOutInv'
  BY CarriedOutKept DEF IInv, requeue_for_resync, resourceVars
<1>9. TypeOK'
  BY SMTT(30), <1>4, <1>5 DEF IInv, TypeOK, requeue_for_resync, resourceVars, Fault,
                    Charge
<1> QED
  BY <1>7, <1>8, <1>9 DEF IInv

----------------------------------------------------------------------------

(* A claim's token is later than that of every execution of its row.       *)
LEMMA ClaimStep ==
    ASSUME IInv, NEW p \in Pods, NEW r \in Resources, Claim(p, r) PROVE IInv'
<1> DEFINE new == [pod |-> p, res |-> r, id |-> queue[r].id, gen |-> queue[r].gen,
                   epoch |-> queue[r].epoch + 1, result |-> "none",
                   fenced |-> FALSE]
<1>1. execs' = execs \cup {new} /\ queue' = [queue EXCEPT ![r] = ClaimedBy(p, queue[r])]
  BY DEF Claim
<1>2. /\ queue[r].id \in Nat \ {0} /\ queue[r].gen \in Nat /\ queue[r].epoch \in Nat
      /\ generation \in [Resources -> Nat]
  BY DEF IInv, TypeOK, Row, Claim, Queued
<1>3. new \in Exec
  BY SMTT(30), <1>2 DEF Exec, Results
<1>4. /\ ClaimedBy(p, queue[r]) \in Row
      /\ ClaimedBy(p, queue[r]).id = queue[r].id
      /\ ClaimedBy(p, queue[r]).gen = queue[r].gen
      /\ ClaimedBy(p, queue[r]).epoch = queue[r].epoch + 1
  BY SMTT(30), <1>2 DEF ClaimedBy, Row
<1>5. /\ queue' \in [Resources -> Row] /\ queue'[r] = ClaimedBy(p, queue[r])
      /\ \A s \in Resources : s # r => queue'[s] = queue[s]
  BY <1>1, <1>4 DEF IInv, TypeOK
<1>6. UNCHANGED <<resourceVars, outbox, reaping, nextId, done, ledger>>
  BY DEF Claim
<1>7. TypeOK'
  BY <1>1, <1>3, <1>5, <1>6 DEF IInv, TypeOK, resourceVars, ledger
<1>8. \A s \in Resources : queue'[s].id = queue[s].id /\ queue'[s].gen = queue[s].gen
  BY <1>4, <1>5
<1>9. RowsInv'
  BY ZenonT(60), <1>6, <1>8 DEF IInv, RowsInv
<1>10. TokensInv'
  <2>1. new.id # 0 /\ new.id < nextId
    BY <1>2 DEF IInv, RowsInv
  <2>2. \A e \in execs : e.id = new.id => e.epoch < new.epoch
    <3> SUFFICES ASSUME NEW e \in execs, e.id = queue[r].id
                 PROVE e.epoch < queue[r].epoch + 1
      OBVIOUS
    <3>1. e.epoch <= queue[r].epoch
      BY DEF IInv, TokensInv
    <3>2. e.epoch \in Nat
      BY DEF IInv, TypeOK, Exec
    <3> QED
      BY SMTT(30), <1>2, <3>1, <3>2
  <2>3. \A e \in execs' : e.id # 0 /\ e.id < nextId'
    BY <1>1, <1>6, <2>1 DEF IInv, TokensInv
  <2>4. \A e \in execs', s \in Resources :
           queue'[s].id = e.id => e.epoch <= queue'[s].epoch
    <3> SUFFICES ASSUME NEW e \in execs', NEW s \in Resources, queue'[s].id = e.id
                 PROVE e.epoch <= queue'[s].epoch
      OBVIOUS
    <3>1. CASE s # r
      <4>1. e \in execs
        <5>1. queue[s].id = e.id
          BY <1>8
        <5>2. queue[s].id # queue[r].id
          BY <1>2, <3>1 DEF IInv, RowsInv
        <5> QED
          BY SMTT(30), <1>1, <5>1, <5>2
      <4> QED
        BY <3>1, <4>1, <1>5 DEF IInv, TokensInv
    <3>2. CASE s = r
      <4>1. queue'[s].epoch = new.epoch /\ new.id = e.id
        BY <3>2, <1>4, <1>5
      <4>2. CASE e = new
        BY SMTT(30), <4>1, <4>2, <1>2
      <4>3. CASE e \in execs
        <5>1. e.epoch < new.epoch
          BY <4>1, <4>3, <2>2
        <5>2. e.epoch \in Nat /\ new.epoch \in Nat
          BY SMTT(30), <4>3, <1>2 DEF IInv, TypeOK, Exec
        <5> QED
          BY SMTT(30), <4>1, <5>1, <5>2
      <4> QED
        BY <4>2, <4>3, <1>1
    <3> QED
      BY <3>1, <3>2
  <2>5. \A e, f \in execs' : e.id = f.id /\ e.epoch = f.epoch => e = f
    <3>1. \A e \in execs : ~(e.id = new.id /\ e.epoch = new.epoch)
      <4> SUFFICES ASSUME NEW e \in execs, e.id = new.id PROVE e.epoch # new.epoch
        OBVIOUS
      <4>1. e.epoch < new.epoch /\ e.epoch \in Nat /\ new.epoch \in Nat
        BY SMTT(30), <2>2, <1>2 DEF IInv, TypeOK, Exec
      <4> QED
        BY SMTT(30), <4>1
    <3> QED
      BY <1>1, <3>1 DEF IInv, TokensInv
  <2> QED
    BY <2>3, <2>4, <2>5 DEF TokensInv
<1>11. GenerationsInv'
  BY SMTT(30), <1>1, <1>2, <1>6, <1>8 DEF IInv, GenerationsInv, resourceVars
<1>12. CarriedOutInv'
  BY SMTT(30), <1>1, <1>6 DEF IInv, CarriedOutInv, SyncedWasCarriedOut, resourceVars
<1> QED
  BY <1>7, <1>9, <1>10, <1>11, <1>12 DEF IInv

(* An execution that moves on keeps its row, its token and its generation. *)
LEMMA ExecMovesOn ==
    ASSUME IInv, NEW e \in execs, NEW f \in Exec,
           f.id = e.id, f.epoch = e.epoch, f.gen = e.gen, f.res = e.res,
           execs' = (execs \ {e}) \cup {f},
           UNCHANGED <<queue, nextId, generation>>
    PROVE  RowsInv' /\ TokensInv' /\ GenerationsInv'
<1>1. RowsInv'
  BY DEF IInv, RowsInv
<1>2. TokensInv'
  <2>1. \A d \in execs' : d.id # 0 /\ d.id < nextId'
    BY DEF IInv, TokensInv
  <2>2. \A d \in execs', r \in Resources :
           queue'[r].id = d.id => d.epoch <= queue'[r].epoch
    BY ZenonT(60) DEF IInv, TokensInv
  <2>3. \A d \in execs \ {e} : ~(d.id = e.id /\ d.epoch = e.epoch)
    BY DEF IInv, TokensInv
  <2>4. \A c, d \in execs' : c.id = d.id /\ c.epoch = d.epoch => c = d
    BY SMTT(30), <2>3 DEF IInv, TokensInv
  <2> QED
    BY <2>1, <2>2, <2>4 DEF TokensInv
<1>3. GenerationsInv'
  BY DEF IInv, GenerationsInv
<1> QED
  BY <1>1, <1>2, <1>3

\* An execution that ends keeps the invariant.
LEMMA FinishStep ==
    ASSUME IInv, NEW e \in execs, NEW result \in Results \ {"none"},
           Finish(e, result)
    PROVE  IInv'
<1> DEFINE f == [e EXCEPT !.result = result]
<1>1. e \in Exec
  BY DEF IInv, TypeOK
<1>2. /\ f \in Exec /\ f.result = result
      /\ f.id = e.id /\ f.epoch = e.epoch /\ f.gen = e.gen /\ f.res = e.res
  BY <1>1 DEF Exec
<1>3. /\ execs' = (execs \ {e}) \cup {f}
      /\ UNCHANGED <<resourceVars, queue, outbox, reaping, nextId>>
  BY DEF Finish
<1> HIDE DEF f
<1>4. /\ done' \in [Resources -> SUBSET Nat]
      /\ \A r \in Resources : done[r] \subseteq done'[r]
      /\ result = "success" => e.gen \in done'[e.res]
  <2>1. e.gen \in Nat /\ e.res \in Resources
    BY <1>1 DEF Exec
  <2> QED
    BY SMTT(30), <2>1 DEF IInv, TypeOK, Finish
<1>5. TypeOK'
  BY SMTT(30), <1>2, <1>3, <1>4 DEF IInv, TypeOK, Finish, Fault, Charge,
                          resourceVars, ledger
<1>6. RowsInv' /\ TokensInv' /\ GenerationsInv'
  BY <1>2, <1>3, ExecMovesOn DEF resourceVars
<1>7. CarriedOutInv'
  <2>1. \A d \in execs' : d.result = "success" => d.gen \in done'[d.res]
    BY <1>2, <1>3, <1>4 DEF IInv, TypeOK, Exec, CarriedOutInv
  <2>2. \A o \in outbox' : o.result = "success" => o.gen \in done'[o.res]
    BY <1>3, <1>4 DEF IInv, TypeOK, OutboxRow, CarriedOutInv
  <2>3. SyncedWasCarriedOut'
    BY <1>3, <1>4 DEF IInv, CarriedOutInv, SyncedWasCarriedOut, resourceVars
  <2> QED
    BY <2>1, <2>2, <2>3 DEF CarriedOutInv
<1> QED
  BY <1>5, <1>6, <1>7 DEF IInv

\* The snapshot of a fenced append keeps the invariant.
LEMMA AppendSnapshotStep ==
    ASSUME IInv, NEW e \in execs, AppendSnapshot(e) PROVE IInv'
<1> DEFINE f == [e EXCEPT !.fenced = TRUE]
<1>1. e \in Exec
  BY DEF IInv, TypeOK
<1>2. /\ f \in Exec /\ f.result = e.result
      /\ f.id = e.id /\ f.epoch = e.epoch /\ f.gen = e.gen /\ f.res = e.res
  BY <1>1 DEF Exec
<1>3. /\ execs' = (execs \ {e}) \cup {f}
      /\ UNCHANGED <<resourceVars, queue, outbox, reaping, nextId, done, ledger>>
  BY DEF AppendSnapshot
<1> HIDE DEF f
<1>4. TypeOK'
  BY <1>2, <1>3 DEF IInv, TypeOK, resourceVars, ledger
<1>5. RowsInv' /\ TokensInv' /\ GenerationsInv'
  BY <1>2, <1>3, ExecMovesOn DEF resourceVars
<1>6. CarriedOutInv'
  BY <1>2, <1>3 DEF IInv, CarriedOutInv, SyncedWasCarriedOut, resourceVars
<1> QED
  BY <1>4, <1>5, <1>6 DEF IInv

(* The outbox gains at most the result of the execution that ends.         *)
LEMMA AppendStep ==
    ASSUME IInv, NEW e \in execs, AppendOutbox(e) \/ AppendWrite(e) PROVE IInv'
<1> DEFINE o == [id |-> e.id, res |-> e.res, gen |-> e.gen, result |-> e.result]
<1>1. e \in Exec
  BY DEF IInv, TypeOK
<1>2. o \in OutboxRow
  BY <1>1 DEF Exec, OutboxRow
<1>3. /\ outbox' \subseteq outbox \cup {o}
      /\ execs' \subseteq execs
      /\ UNCHANGED <<resourceVars, queue, reaping, nextId, done, faults>>
      /\ disordered' \in BOOLEAN
  BY DEF IInv, TypeOK, AppendOutbox, AppendWrite, OutboxAfter, ledger
<1>4. o.result = "success" => o.gen \in done[o.res]
  BY DEF IInv, CarriedOutInv
<1> HIDE DEF o
<1>5. TypeOK'
  BY <1>2, <1>3 DEF IInv, TypeOK, resourceVars
<1>6. \A r \in Resources : RowEvolves(r)
  BY SMTT(30), <1>3, RowKept DEF IInv, TypeOK, resourceVars
<1>7. RowsInv' /\ TokensInv' /\ GenerationsInv'
  <2>1. /\ queue' \in [Resources -> Row] /\ nextId' \in Nat \ {0}
        /\ nextId' >= nextId /\ generation' \in [Resources -> Nat]
        /\ \A r \in Resources : generation'[r] >= generation[r]
    BY SMTT(30), <1>3 DEF IInv, TypeOK, resourceVars
  <2> QED
    BY <1>3, <1>6, <2>1, RowsEvolve
<1>8. CarriedOutInv'
  BY <1>3, <1>4 DEF IInv, CarriedOutInv, SyncedWasCarriedOut, resourceVars
<1> QED
  BY <1>5, <1>7, <1>8 DEF IInv

(* What a drain may do to synced_gen: leave it, or raise it to a success   *)
(* of the batch, which was carried out.                                    *)
LEMMA DrainSyncs ==
    ASSUME IInv, NEW batch \in SUBSET outbox, drain_outbox_batch(batch)
    PROVE  /\ synced_gen' \in [Resources -> Nat]
           /\ \A r \in Resources :
                 \/ synced_gen'[r] = synced_gen[r]
                 \/ synced_gen'[r] > synced_gen[r] /\ synced_gen'[r] \in done[r]
<1>1. PICK pick \in Choices(batch) : WriteStatus(pick)
  BY DEF drain_outbox_batch
<1>2. ASSUME NEW r \in Resources
      PROVE  /\ synced_gen'[r] \in Nat
             /\ \/ synced_gen'[r] = synced_gen[r]
                \/ synced_gen'[r] > synced_gen[r] /\ synced_gen'[r] \in done[r]
  <2>1. synced_gen'[r] = SyncedAfter(pick[r], r) /\ synced_gen[r] \in Nat
    BY <1>1 DEF WriteStatus, IInv, TypeOK
  <2>2. CASE pick[r] = NoResult
    BY SMTT(30), <2>1, <2>2 DEF NoResult, SyncedAfter
  <2>3. CASE pick[r] \in Applicable(batch, r)
    <3>1. pick[r] \in outbox /\ pick[r].res = r
      BY <2>3 DEF Applicable
    <3>2. pick[r].gen \in Nat
      BY <3>1 DEF IInv, TypeOK, OutboxRow
    <3>3. pick[r].result = "success" => pick[r].gen \in done[r]
      BY <3>1 DEF IInv, CarriedOutInv
    <3> QED
      BY <2>1, <3>2, <3>3 DEF SyncedAfter
  <2> QED
    BY <2>2, <2>3 DEF Choices
<1>3. synced_gen' = [r \in Resources |-> SyncedAfter(pick[r], r)]
  BY <1>1 DEF WriteStatus
<1> QED
  BY <1>2, <1>3

\* drain_outbox_batch keeps the types.
LEMMA DrainTypes ==
    ASSUME IInv, NEW batch \in SUBSET outbox, drain_outbox_batch(batch)
    PROVE  TypeOK'
<1>1. PICK pick \in Choices(batch) : WriteStatus(pick)
  BY DEF drain_outbox_batch
<1>2. \A r \in Resources :
         /\ status[r] \in Nat /\ failure_gen[r] \in Nat
         /\ failure_attempts[r] \in Nat /\ failure_terminal[r] \in BOOLEAN
  BY DEF IInv, TypeOK
<1>3. \A r \in Resources : pick[r].gen \in Nat
  <2> SUFFICES ASSUME NEW r \in Resources PROVE pick[r].gen \in Nat
    OBVIOUS
  <2>1. pick[r] = NoResult \/ pick[r] \in outbox
    BY DEF Choices
  <2> QED
    BY SMTT(30), <2>1 DEF NoResult, IInv, TypeOK, OutboxRow
<1>4. status' \in [Resources -> Nat]
  BY <1>1, <1>2, <1>3 DEF WriteStatus
<1>5. failure_gen' \in [Resources -> Nat]
  BY <1>1, <1>2, <1>3 DEF WriteStatus
<1>6. failure_attempts' \in [Resources -> Nat]
  BY SMTT(30), <1>1, <1>2, <1>3 DEF WriteStatus, AttemptsAfter
<1>7. failure_terminal' \in [Resources -> BOOLEAN]
  <2>1. \A r \in Resources : TerminalAfter(pick[r], r) \in BOOLEAN
    BY <1>2 DEF TerminalAfter
  <2> QED
    BY <1>1, <2>1 DEF WriteStatus
<1>8. queue' \in [Resources -> Row]
  BY NoRowIsRow DEF IInv, TypeOK, drain_outbox_batch
<1>9. /\ UNCHANGED <<generation, frozen, execs, reaping, nextId, done,
                     disordered, faults>>
      /\ outbox' \subseteq outbox
  BY DEF drain_outbox_batch, ledger
<1>10. synced_gen' \in [Resources -> Nat]
  BY DrainSyncs
<1> QED
  BY <1>4, <1>5, <1>6, <1>7, <1>8, <1>9, <1>10 DEF IInv, TypeOK

\* drain_outbox_batch keeps the invariant.
LEMMA DrainStep ==
    ASSUME IInv, NEW batch \in SUBSET outbox, drain_outbox_batch(batch)
    PROVE  IInv'
<1>1. TypeOK'
  BY DrainTypes
<1>2. /\ UNCHANGED <<generation, execs, nextId, done>>
      /\ outbox' \subseteq outbox
  BY DEF drain_outbox_batch
<1>3. ASSUME NEW r \in Resources PROVE RowEvolves(r)
  <2>1. queue'[r] = NoRow \/ queue'[r] = queue[r]
    BY DEF drain_outbox_batch
  <2>2. CASE queue'[r] = NoRow
    BY SMTT(30), <2>2 DEF RowEvolves, NoRow
  <2>3. CASE queue'[r] = queue[r]
    BY SMTT(30), <2>3, <1>2, RowKept DEF IInv, TypeOK
  <2> QED
    BY <2>1, <2>2, <2>3
<1>4. RowsInv' /\ TokensInv' /\ GenerationsInv'
  <2>1. /\ queue' \in [Resources -> Row] /\ nextId' \in Nat \ {0}
        /\ nextId' >= nextId /\ generation' \in [Resources -> Nat]
        /\ \A r \in Resources : generation'[r] >= generation[r]
    BY SMTT(30), <1>1, <1>2 DEF IInv, TypeOK
  <2> QED
    BY <1>2, <1>3, <2>1, RowsEvolve
<1>5. SyncedWasCarriedOut'
  BY <1>2, DrainSyncs DEF IInv, CarriedOutInv, SyncedWasCarriedOut
<1>6. CarriedOutInv'
  BY <1>2, <1>5 DEF IInv, CarriedOutInv
<1> QED
  BY <1>1, <1>4, <1>6 DEF IInv

----------------------------------------------------------------------------

\* Every step of the queue keeps the invariant.
LEMMA NextInvariant == IInv /\ [Next]_vars => IInv'
<1> SUFFICES ASSUME IInv, [Next]_vars PROVE IInv'
  OBVIOUS
<1>1. ASSUME NEW r \in Resources,
             \/ ApplySpec(r) \/ ApplyLabels(r) \/ Unquarantine(r)
             \/ requeue_failed_and_pending(r)
      PROVE  IInv'
  BY <1>1, ScheduleActions
<1>2. ASSUME NEW r \in Resources, Quarantine(r) PROVE IInv'
  BY <1>2, QuarantineStep
<1>3. ASSUME NEW r \in Resources, ReleaseTasks(r) PROVE IInv'
  BY <1>3, ReleaseStep
<1>4. ASSUME NEW r \in Resources, delete_unclaimed_work(r) PROVE IInv'
  BY <1>4, DeleteUnclaimedStep
<1>5. ASSUME NEW r \in Resources, requeue_for_resync(r) PROVE IInv'
  BY <1>5, ResyncStep
<1>6. ASSUME NEW r \in Resources, NEW p \in Pods, Claim(p, r) PROVE IInv'
  BY <1>6, ClaimStep
<1>7. ASSUME (\E r \in Resources : ReapSelect(r)) \/ ReapUpdate PROVE IInv'
  BY <1>7, ReaperStep
<1>8. ASSUME NEW e \in execs, NEW result \in Results \ {"none"}, Finish(e, result)
      PROVE  IInv'
  BY <1>8, FinishStep
<1>9. ASSUME NEW e \in execs, AppendOutbox(e) \/ AppendWrite(e) PROVE IInv'
  BY <1>9, AppendStep
<1>10. ASSUME NEW e \in execs, AppendSnapshot(e) PROVE IInv'
  BY <1>10, AppendSnapshotStep
<1>11. ASSUME NEW p \in Pods, PodStop(p) \/ PodCrash(p) PROVE IInv'
  BY <1>11, PodStep
<1>12. CASE PostgresCrash
  BY <1>12, PostgresCrashStep
<1>13. ASSUME NEW batch \in SUBSET outbox, drain_outbox_batch(batch) PROVE IInv'
  BY <1>13, DrainStep
<1>14. CASE UNCHANGED vars
  BY <1>14 DEF IInv, TypeOK, RowsInv, TokensInv, GenerationsInv, CarriedOutInv,
               SyncedWasCarriedOut, vars, resourceVars
<1> QED
  BY <1>1, <1>2, <1>3, <1>4, <1>5, <1>6, <1>7, <1>8, <1>9, <1>10, <1>11, <1>12,
     <1>13, <1>14 DEF Next

(* IInv holds in every reachable state of the pipeline.                    *)
THEOREM InductiveInvariant == Spec => []IInv
  BY InitInvariant, NextInvariant, PTL DEF Spec

(* The rows of resources, work_queue and work_outbox, the executions and   *)
(* the reaper's selection keep their types.                                *)
THEOREM TypeCorrect == Spec => []TypeOK
<1>1. IInv => TypeOK
  BY DEF IInv
<1> QED
  BY <1>1, InductiveInvariant, PTL

(* At most one execution passes the fence of AppendOutbox, for any number  *)
(* of pods and any sequence of reaps, releases, re-points and crashes.     *)
THEOREM OneWriterHolds == Spec => []OneWriter
<1>1. IInv => OneWriter
  BY SMTT(30) DEF IInv, TokensInv, OneWriter, FencePasses
<1> QED
  BY <1>1, InductiveInvariant, PTL

(* drain_outbox_batch never reports a generation nobody carried out.       *)
THEOREM SyncedHolds == Spec => []SyncedWasCarriedOut
<1>1. IInv => SyncedWasCarriedOut
  BY DEF IInv, CarriedOutInv
<1> QED
  BY <1>1, InductiveInvariant, PTL

(* drain_outbox_batch dead-letters the failure that reaches the cap of the *)
(* kind, whatever the order of the results.                                *)
THEOREM CapParksHolds == Spec => []CapParks
<1>1. Init => CapParks
  BY SMTT(30), ConstantsAssumption DEF Init, CapParks
<1>2. TypeOK /\ CapParks /\ [Next]_vars => CapParks'
  <2> SUFFICES ASSUME TypeOK, CapParks, [Next]_vars PROVE CapParks'
    OBVIOUS
  <2>1. CASE UNCHANGED <<failure_attempts, failure_terminal>>
    BY <2>1 DEF CapParks
  <2>2. ASSUME NEW batch \in SUBSET outbox, drain_outbox_batch(batch)
        PROVE  CapParks'
    <3>1. PICK pick \in Choices(batch) : WriteStatus(pick)
      BY <2>2 DEF drain_outbox_batch
    <3>2. SUFFICES ASSUME NEW r \in Resources,
                          AttemptCap > 0, failure_attempts'[r] >= AttemptCap
                   PROVE  failure_terminal'[r]
      BY DEF CapParks
    <3>3. failure_terminal'[r] = TerminalAfter(pick[r], r)
      BY <3>1 DEF WriteStatus
    <3>4. failure_attempts'[r] = CASE pick[r].result = "transient" -> AttemptsAfter(pick[r], r)
                                   [] pick[r].result = "success" -> 0
                                   [] OTHER -> failure_attempts[r]
      BY <3>1 DEF WriteStatus
    <3>5. CASE pick[r].result = "transient"
      BY <3>2, <3>3, <3>4, <3>5 DEF TerminalAfter
    <3>6. CASE pick[r].result = "success"
      BY SMTT(30), <3>2, <3>4, <3>6, ConstantsAssumption
    <3>7. CASE pick[r].result = "terminal"
      BY <3>3, <3>7 DEF TerminalAfter
    <3>8. CASE pick[r].result \notin {"transient", "success", "terminal"}
      <4>1. failure_attempts'[r] = failure_attempts[r]
        BY <3>4, <3>8
      <4>2. failure_terminal'[r] = failure_terminal[r]
        BY <3>3, <3>8 DEF TerminalAfter
      <4> QED
        BY <3>2, <4>1, <4>2 DEF CapParks
    <3> QED
      BY <3>5, <3>6, <3>7, <3>8
  <2> QED
    BY <2>1, <2>2
    DEF Next, vars, resourceVars, failureVars, ApplySpec, ApplyLabels, Quarantine,
        Unquarantine, ReleaseTasks, ReapSelect, delete_unclaimed_work,
        requeue_failed_and_pending, requeue_for_resync, Claim, Finish,
        AppendOutbox, AppendSnapshot, AppendWrite, PodStop, PodCrash,
        PostgresCrash, ReapUpdate
<1> QED
  BY <1>1, <1>2, TypeCorrect, PTL DEF Spec

----------------------------------------------------------------------------

(* Every step of the pipeline is an edit, a carried-out generation or a    *)
(* report of Convergence, or invisible there.                              *)
LEMMA StepRefines == IInv /\ [Next]_vars => [C!Next]_C!vars
<1> SUFFICES ASSUME IInv, [Next]_vars PROVE [C!Next]_C!vars
  OBVIOUS
<1>1. CASE UNCHANGED <<generation, synced_gen, done>>
  BY <1>1 DEF C!vars
<1>2. ASSUME NEW r \in Resources, ApplySpec(r) PROVE C!Next
  BY <1>2 DEF ApplySpec, C!Next, C!Edit
<1>3. ASSUME NEW e \in execs, NEW result \in Results, Finish(e, result),
             result = "success"
      PROVE  C!Next
  <2>1. e.res \in Resources /\ e.gen \in 1..generation[e.res]
    BY DEF IInv, TypeOK, Exec, GenerationsInv
  <2>2. done' = [done EXCEPT ![e.res] = @ \cup {e.gen}]
        /\ UNCHANGED <<generation, synced_gen>>
    BY <1>3 DEF Finish, resourceVars
  <2> QED
    BY <2>1, <2>2 DEF C!Next, C!CarryOut
<1>4. ASSUME NEW batch \in SUBSET outbox, drain_outbox_batch(batch) PROVE C!Next
  <2>1. UNCHANGED <<generation, done>>
    BY <1>4 DEF drain_outbox_batch
  <2> QED
    BY <1>4, <2>1, DrainSyncs DEF C!Next, C!Report
<1> QED
  BY <1>1, <1>2, <1>3, <1>4
  DEF Next, vars, resourceVars, failureVars, ApplyLabels, Quarantine,
      Unquarantine, ReleaseTasks, ReapSelect, delete_unclaimed_work,
      requeue_failed_and_pending, requeue_for_resync, Claim, Finish,
      AppendOutbox, AppendSnapshot, AppendWrite, PodStop, PodCrash,
      PostgresCrash, ReapUpdate

(* The pipeline implements Convergence: a generation is reported only      *)
(* after it was carried out and the report never moves backwards.          *)
THEOREM Refinement == Spec => ImplementsConvergence
<1>1. Init => C!Init
  BY DEF Init, C!Init
<1> QED
  BY <1>1, StepRefines, InductiveInvariant, PTL
  DEF Spec, ImplementsConvergence, C!Spec

----------------------------------------------------------------------------
(* Why results reach the drain in order.  As long as no pending row was    *)
(* dropped and no result written past its fence, an undrained result is    *)
(* the only one of its resource and belongs to the row that is queued, and *)
(* neither is of an earlier generation than the stored status.             *)
OrderInv ==
    ~disordered =>
        /\ \A r \in Resources :
              /\ status[r] <= generation[r]
              /\ queue[r].id # 0 => status[r] <= queue[r].gen
        /\ \A o \in outbox :
              /\ o.id # 0 /\ queue[o.res].id = o.id
              /\ status[o.res] <= o.gen /\ o.gen <= queue[o.res].gen
        /\ \A o, p \in outbox : o.res = p.res => o = p

(* What a step other than an append, a drain or a crash of Postgres may do *)
(* to the row of a resource while nothing is disordered: keep it at an     *)
(* equal or later generation, or insert it at the current one.             *)
RowOrdered(r) ==
    \/ /\ queue'[r].id = queue[r].id
       /\ queue[r].id # 0 => queue'[r].gen >= queue[r].gen
    \/ queue[r].id = 0 /\ queue'[r].gen = generation'[r]

\* The statuses and generations compared by the order are naturals.
LEMMA OrderTypes ==
    ASSUME IInv
    PROVE  /\ \A r \in Resources :
                 /\ status[r] \in Nat /\ generation[r] \in Nat
                 /\ queue[r].id \in Nat /\ queue[r].gen \in Nat
           /\ \A o \in outbox : o.res \in Resources /\ o.gen \in Nat
  BY DEF IInv, TypeOK, Row, OutboxRow

\* The order of the generations is kept when generations only grow and results only
\* leave.
LEMMA RowsOrdered ==
    ASSUME IInv, IInv', OrderInv, ~disordered,
           UNCHANGED status, outbox' \subseteq outbox,
           \A r \in Resources : generation'[r] >= generation[r],
           \A r \in Resources : RowOrdered(r)
    PROVE  OrderInv'
<1>1. ASSUME NEW r \in Resources
      PROVE  /\ status[r] \in Nat /\ generation[r] \in Nat /\ generation'[r] \in Nat
             /\ queue[r].gen \in Nat /\ queue'[r].gen \in Nat
             /\ status[r] <= generation[r]
             /\ queue[r].id # 0 => status[r] <= queue[r].gen
  BY DEF IInv, TypeOK, Row, OrderInv
<1>2. ASSUME NEW r \in Resources
      PROVE  /\ status'[r] <= generation'[r]
             /\ queue'[r].id # 0 => status'[r] <= queue'[r].gen
  <2>1. status[r] <= generation'[r]
    BY SMTT(30), <1>1
  <2>2. ASSUME queue'[r].id # 0 PROVE status[r] <= queue'[r].gen
    <3>1. CASE queue'[r].id = queue[r].id /\ queue'[r].gen >= queue[r].gen
      BY SMTT(30), <1>1, <2>2, <3>1
    <3>2. CASE queue'[r].gen = generation'[r]
      BY <2>1, <3>2
    <3> QED
      BY <2>2, <3>1, <3>2 DEF RowOrdered
  <2> QED
    BY <2>1, <2>2
<1>3. ASSUME NEW o \in outbox'
      PROVE  /\ o.id # 0 /\ queue'[o.res].id = o.id
             /\ status'[o.res] <= o.gen /\ o.gen <= queue'[o.res].gen
  <2>1. /\ o \in outbox /\ o.res \in Resources /\ o.gen \in Nat
        /\ o.id # 0 /\ queue[o.res].id = o.id
        /\ status[o.res] <= o.gen /\ o.gen <= queue[o.res].gen
    BY OrderTypes DEF OrderInv
  <2>2. queue'[o.res].id = queue[o.res].id /\ queue'[o.res].gen >= queue[o.res].gen
    BY <2>1 DEF RowOrdered
  <2>3. o.gen <= queue'[o.res].gen
    BY SMTT(30), <1>1, <2>1, <2>2
  <2> QED
    BY <2>1, <2>2, <2>3
<1>4. \A o, p \in outbox' : o.res = p.res => o = p
  BY DEF OrderInv
<1> QED
  BY <1>2, <1>3, <1>4 DEF OrderInv

(* schedule_eligible inserts only where no row is, and re-points only to a *)
(* later generation.                                                       *)
LEMMA ScheduleOrders ==
    ASSUME TypeOK, TypeOK', NEW r \in Resources, NEW fz \in BOOLEAN,
           schedule_eligible(r, generation'[r], fz)
    PROVE  \A s \in Resources : RowOrdered(s)
<1> DEFINE g == generation'[r]
<1> SUFFICES ASSUME NEW s \in Resources PROVE RowOrdered(s)
  OBVIOUS
<1>0. ASSUME queue'[s] = queue[s] PROVE RowOrdered(s)
  <2>1. queue[s].gen \in Nat
    BY DEF TypeOK, Row
  <2>2. queue[s].gen >= queue[s].gen
    BY SMTT(30), <2>1
  <2> QED
    BY <1>0, <2>2 DEF RowOrdered
<1>1. CASE ~Queued(r) /\ queue' = [queue EXCEPT ![r] = NewRow(g)]
  <2>1. CASE s = r
    <3>1. queue'[r] = NewRow(g)
      BY <1>1 DEF TypeOK
    <3>2. queue'[r].gen = g
      BY SMT, <3>1 DEF NewRow
    <3> QED
      BY <1>1, <2>1, <3>2 DEF RowOrdered, Queued
  <2>2. CASE s # r
    BY <1>0, <1>1, <2>2 DEF TypeOK
  <2> QED
    BY <2>1, <2>2
<1>2. CASE /\ Queued(r) /\ queue[r].gen < g
           /\ queue' = [queue EXCEPT ![r] = Repointed(queue[r], g)]
  <2>1. CASE s = r
    <3>1. queue'[r] = Repointed(queue[r], g)
      BY <1>2 DEF TypeOK
    <3>2. queue'[r].id = queue[r].id /\ queue'[r].gen = g
      BY SMT, <3>1 DEF Repointed
    <3>3. queue[r].gen \in Nat /\ g \in Nat
      BY DEF TypeOK, Row
    <3>4. g >= queue[r].gen
      BY SMTT(30), <1>2, <3>3
    <3> QED
      BY <2>1, <3>2, <3>4 DEF RowOrdered
  <2>2. CASE s # r
    BY <1>0, <1>2, <2>2 DEF TypeOK
  <2> QED
    BY <2>1, <2>2
<1>3. CASE UNCHANGED queue
  BY <1>0, <1>3
<1> QED
  BY <1>1, <1>2, <1>3 DEF schedule_eligible

(* An append that passes its fence adds the result of the queued row, and  *)
(* only when that row has none in the outbox.                              *)
LEMMA AppendOrders ==
    ASSUME IInv, OrderInv, ~disordered', NEW e \in execs,
           AppendOutbox(e) \/ AppendWrite(e)
    PROVE  OrderInv'
<1> DEFINE new == [id |-> e.id, res |-> e.res, gen |-> e.gen, result |-> e.result]
<1>1. /\ ~disordered
      /\ UNCHANGED <<status, generation, queue>>
      /\ outbox' = outbox \/ (FencePasses(e) /\ outbox' = OutboxAfter(e))
  <2>1. CASE AppendOutbox(e)
    BY <2>1 DEF AppendOutbox, resourceVars, ledger
  <2>2. CASE AppendWrite(e)
    <3>1. ~disordered /\ FencePasses(e)
      BY <2>2 DEF AppendWrite
    <3> QED
      BY <2>2, <3>1 DEF AppendWrite, resourceVars
  <2> QED
    BY <2>1, <2>2
<1>2. CASE outbox' = outbox
  BY <1>1, <1>2 DEF OrderInv
<1>3. CASE FencePasses(e) /\ outbox' = outbox \cup {new} /\ ~\E o \in outbox : o.id = e.id
  <2>1. /\ new.id = e.id /\ new.res = e.res /\ new.gen = e.gen
        /\ e.res \in Resources /\ e.gen \in Nat /\ e.id # 0
    BY SMT DEF IInv, TypeOK, Exec, TokensInv
  <2> HIDE DEF new
  <2>2. queue[e.res].id = e.id /\ queue[e.res].gen = e.gen
    BY <1>3 DEF FencePasses
  <2>3. status[e.res] <= e.gen /\ e.gen <= queue[e.res].gen
    <3>1. e.gen <= e.gen
      BY SMT, <2>1
    <3> QED
      BY <1>1, <2>1, <2>2, <3>1 DEF OrderInv
  <2>4. \A o \in outbox : o.res # e.res
    BY <1>1, <1>3, <2>2 DEF OrderInv
  <2>5. \A o \in outbox' : /\ o.id # 0 /\ queue'[o.res].id = o.id
                           /\ status'[o.res] <= o.gen /\ o.gen <= queue'[o.res].gen
    BY <1>1, <1>3, <2>1, <2>2, <2>3 DEF OrderInv
  <2>6. \A o, p \in outbox' : o.res = p.res => o = p
    <3> SUFFICES ASSUME NEW o \in outbox', NEW p \in outbox', o.res = p.res PROVE o = p
      OBVIOUS
    <3>1. CASE o = new \/ p = new
      BY <1>3, <2>1, <2>4, <3>1
    <3>2. CASE o \in outbox /\ p \in outbox
      BY <1>1, <3>2 DEF OrderInv
    <3> QED
      BY <1>3, <3>1, <3>2
  <2> QED
    BY <1>1, <2>5, <2>6 DEF OrderInv
<1> QED
  BY <1>1, <1>2, <1>3 DEF OutboxAfter

(* A drain writes the status of a resource from the one result it has, and *)
(* leaves no other behind: the status moves forward and stays behind what  *)
(* is still queued.                                                        *)
LEMMA DrainOrders ==
    ASSUME IInv, OrderInv, ~disordered', NEW batch \in SUBSET outbox,
           drain_outbox_batch(batch)
    PROVE  OrderInv' /\ \A r \in Resources : status'[r] >= status[r]
<1>1. PICK pick \in Choices(batch) : WriteStatus(pick)
  BY DEF drain_outbox_batch
<1>2. /\ ~disordered /\ UNCHANGED generation /\ outbox' = outbox \ batch
      /\ \A r \in Resources : queue'[r] = queue[r] \/ queue'[r] = NoRow
  BY DEF drain_outbox_batch, ledger
<1>3. ASSUME NEW r \in Resources
      PROVE  /\ status[r] \in Nat /\ generation[r] \in Nat /\ queue[r].gen \in Nat
             /\ status[r] <= generation[r]
             /\ queue[r].id # 0 => status[r] <= queue[r].gen
  BY <1>2, OrderTypes DEF OrderInv
<1>4. ASSUME NEW r \in Resources
      PROVE  \/ status'[r] = status[r]
             \/ \E o \in batch : o.res = r /\ status'[r] = o.gen
  <2>1. status'[r] = IF pick[r].result = "success" THEN pick[r].gen ELSE status[r]
    BY <1>1 DEF WriteStatus
  <2>2. CASE pick[r] = NoResult
    BY SMT, <2>1, <2>2 DEF NoResult
  <2>3. CASE pick[r] \in Applicable(batch, r)
    BY <2>1, <2>3 DEF Applicable
  <2> QED
    BY <2>2, <2>3 DEF Choices
<1>5. ASSUME NEW r \in Resources
      PROVE  /\ status'[r] >= status[r] /\ status'[r] <= generation[r]
             /\ queue[r].id # 0 => status'[r] <= queue[r].gen
  <2>1. CASE status'[r] = status[r]
    BY SMT, <1>3, <2>1
  <2>2. ASSUME NEW o \in batch, o.res = r, status'[r] = o.gen
        PROVE  /\ status'[r] >= status[r] /\ status'[r] <= generation[r]
               /\ queue[r].id # 0 => status'[r] <= queue[r].gen
    <3>1. /\ o.gen \in Nat /\ status[r] <= o.gen /\ o.gen <= queue[r].gen
          /\ queue[r].id # 0
      BY <1>2, <2>2, OrderTypes DEF OrderInv
    <3>2. queue[r].gen \in 1..generation[r]
      BY <3>1 DEF IInv, GenerationsInv
    <3> QED
      BY SMT, <1>3, <2>2, <3>1, <3>2
  <2> QED
    BY <1>4, <2>1, <2>2
<1>6. ASSUME NEW r \in Resources, queue'[r].id # 0 PROVE status'[r] <= queue'[r].gen
  <2>1. queue'[r] = queue[r]
    BY SMT, <1>2, <1>6 DEF NoRow
  <2> QED
    BY <1>5, <1>6, <2>1
<1>7. ASSUME NEW o \in outbox'
      PROVE  /\ o.id # 0 /\ queue'[o.res].id = o.id
             /\ status'[o.res] <= o.gen /\ o.gen <= queue'[o.res].gen
  <2>1. /\ o \in outbox /\ o \notin batch /\ o.res \in Resources
        /\ o.id # 0 /\ queue[o.res].id = o.id
        /\ status[o.res] <= o.gen /\ o.gen <= queue[o.res].gen
    BY <1>2, OrderTypes DEF OrderInv
  <2>2. \A p \in batch : p.res # o.res
    BY <1>2, <2>1 DEF OrderInv
  <2>3. status'[o.res] = status[o.res]
    BY <1>4, <2>1, <2>2
  <2>4. queue'[o.res] = queue[o.res]
    <3>1. ~\E p \in batch : p.id = queue[o.res].id
      <4> SUFFICES ASSUME NEW p \in batch, p.id = queue[o.res].id PROVE FALSE
        OBVIOUS
      <4>1. p.res \in Resources /\ queue[p.res].id = p.id
        BY <1>2, OrderTypes DEF OrderInv
      <4>2. p.res = o.res
        BY <2>1, <4>1 DEF IInv, RowsInv
      <4> QED
        BY <2>2, <4>2
    <3> QED
      BY <2>1, <3>1 DEF drain_outbox_batch
  <2> QED
    BY <2>1, <2>3, <2>4
<1>8. \A o, p \in outbox' : o.res = p.res => o = p
  BY <1>2 DEF OrderInv
<1> QED
  BY <1>2, <1>5, <1>6, <1>7, <1>8 DEF OrderInv

\* Every step keeps the order of the generations.
LEMMA OrderStep == IInv /\ OrderInv /\ [Next]_vars => OrderInv'
<1> SUFFICES ASSUME IInv, OrderInv, [Next]_vars, ~disordered' PROVE OrderInv'
  BY DEF OrderInv
<1>1. IInv' /\ TypeOK /\ TypeOK'
  BY NextInvariant DEF IInv
<1>2. ASSUME UNCHANGED <<status, generation, disordered>>, outbox' \subseteq outbox,
             \A r \in Resources : queue'[r].id = queue[r].id /\ queue'[r].gen = queue[r].gen
      PROVE  OrderInv'
  <2>1. \A r \in Resources : queue[r].gen >= queue[r].gen /\ generation[r] >= generation[r]
    BY SMT, OrderTypes
  <2>2. \A r \in Resources : RowOrdered(r)
    BY <1>2, <2>1 DEF RowOrdered
  <2> QED
    BY <1>1, <1>2, <2>1, <2>2, RowsOrdered
<1>3. ASSUME NEW r \in Resources,
             \/ ApplySpec(r) \/ ApplyLabels(r) \/ Unquarantine(r)
             \/ requeue_failed_and_pending(r)
      PROVE  OrderInv'
  <2>1. PICK fz \in BOOLEAN : schedule_eligible(r, generation'[r], fz)
    BY <1>1, <1>3 DEF TypeOK, ApplySpec, ApplyLabels, Unquarantine,
                      requeue_failed_and_pending, resourceVars
  <2>2. UNCHANGED <<status, outbox, disordered>>
    BY <1>3 DEF ApplySpec, ApplyLabels, Unquarantine, requeue_failed_and_pending,
                resourceVars, ledger
  <2>3. \A s \in Resources : generation'[s] >= generation[s]
    <3>1. \A s \in Resources : generation'[s] = generation[s] \/ generation'[s] = generation[s] + 1
      BY <1>1, <1>3 DEF TypeOK, ApplySpec, ApplyLabels, Unquarantine,
                        requeue_failed_and_pending, resourceVars
    <3> QED
      BY SMT, <3>1, OrderTypes
  <2> QED
    BY <1>1, <2>1, <2>2, <2>3, ScheduleOrders, RowsOrdered
<1>4. ASSUME NEW r \in Resources, Quarantine(r) PROVE OrderInv'
  <2>1. /\ UNCHANGED <<status, generation, outbox>>
        /\ disordered' = (disordered \/ (Queued(r) /\ ~Claimed(r)))
        /\ queue' = IF Claimed(r) THEN queue ELSE [queue EXCEPT ![r] = NoRow]
    BY <1>4 DEF Quarantine
  <2>2. ~disordered /\ (Claimed(r) \/ ~Queued(r))
    BY <2>1
  <2>3. \A s \in Resources : generation[s] >= generation[s] /\ queue[s].gen >= queue[s].gen
    BY SMT, OrderTypes
  <2>4. ASSUME NEW s \in Resources PROVE RowOrdered(s)
    <3>1. CASE queue'[s] = queue[s]
      BY <2>3, <3>1 DEF RowOrdered
    <3>2. CASE s = r /\ ~Claimed(r)
      <4>1. queue'[r] = NoRow
        BY <1>1, <2>1, <3>2 DEF TypeOK
      <4>2. queue'[r].id = 0 /\ queue[r].id = 0
        BY SMT, <4>1, <2>2, <3>2 DEF NoRow, Queued
      <4> QED
        BY <3>2, <4>2 DEF RowOrdered
    <3> QED
      BY <1>1, <2>1, <3>1, <3>2 DEF TypeOK
  <2> QED
    BY <1>1, <2>1, <2>2, <2>3, <2>4, RowsOrdered
<1>5. ASSUME NEW r \in Resources, requeue_for_resync(r) PROVE OrderInv'
  <2>1. /\ UNCHANGED <<status, generation, outbox, disordered>>
        /\ queue[r].id = 0
        /\ queue' = [queue EXCEPT ![r] = NewRow(generation[r])]
    BY <1>5 DEF requeue_for_resync, resourceVars, Fault, Queued
  <2>2. \A s \in Resources : generation[s] >= generation[s] /\ queue[s].gen >= queue[s].gen
    BY SMT, OrderTypes
  <2>3. ASSUME NEW s \in Resources PROVE RowOrdered(s)
    <3>1. CASE s # r
      BY <1>1, <2>1, <2>2, <3>1 DEF RowOrdered, TypeOK
    <3>2. CASE s = r
      <4>1. queue'[r] = NewRow(generation[r])
        BY <1>1, <2>1 DEF TypeOK
      <4>2. queue'[r].gen = generation[r]
        BY SMT, <4>1 DEF NewRow
      <4> QED
        BY <2>1, <3>2, <4>2 DEF RowOrdered
    <3> QED
      BY <3>1, <3>2
  <2> QED
    BY <1>1, <2>1, <2>2, <2>3, RowsOrdered
<1>6. ASSUME NEW p \in Pods, NEW r \in Resources, Claim(p, r) PROVE OrderInv'
  <2>1. /\ UNCHANGED <<status, generation, outbox, disordered>>
        /\ queue' = [queue EXCEPT ![r] = ClaimedBy(p, queue[r])]
    BY <1>6 DEF Claim, resourceVars, ledger
  <2>2. ClaimedBy(p, queue[r]).id = queue[r].id /\ ClaimedBy(p, queue[r]).gen = queue[r].gen
    BY SMT DEF ClaimedBy
  <2>3. \A s \in Resources : queue'[s].id = queue[s].id /\ queue'[s].gen = queue[s].gen
    BY <1>1, <2>1, <2>2 DEF TypeOK
  <2> QED
    BY <1>2, <2>1, <2>3
<1>7. ASSUME \/ \E r \in Resources : ReleaseTasks(r) \/ ReapSelect(r)
             \/ \E p \in Pods : PodStop(p) \/ PodCrash(p)
             \/ ReapUpdate
      PROVE  OrderInv'
  <2>1. /\ UNCHANGED <<status, generation, outbox>>
        /\ \A s \in Resources : queue'[s] = queue[s] \/ queue'[s] = Freed(queue[s])
    BY <1>1, <1>7 DEF TypeOK, ReleaseTasks, ReapSelect, PodStop, PodCrash, ReapUpdate,
                      resourceVars
  <2>2. UNCHANGED disordered
    BY <1>7 DEF ReleaseTasks, ReapSelect, PodStop, PodCrash, ReapUpdate, Fault, ledger
  <2>3. \A s \in Resources : Freed(queue[s]).id = queue[s].id /\ Freed(queue[s]).gen = queue[s].gen
    BY SMT DEF Freed
  <2>4. \A s \in Resources : queue'[s].id = queue[s].id /\ queue'[s].gen = queue[s].gen
    BY <2>1, <2>3
  <2> QED
    BY <1>2, <2>1, <2>2, <2>4
<1>8. CASE \/ UNCHANGED vars
           \/ \E e \in execs : \/ \E result \in Results \ {"none"} : Finish(e, result)
                               \/ AppendSnapshot(e)
  <2>1. UNCHANGED <<status, generation, outbox, queue>>
    BY <1>8 DEF Finish, AppendSnapshot, vars, resourceVars
  <2>2. UNCHANGED disordered
    BY <1>8 DEF Finish, AppendSnapshot, Fault, vars, ledger
  <2> QED
    BY <1>2, <2>1, <2>2
<1>9. CASE PostgresCrash
  <2>1. /\ UNCHANGED <<status, generation, disordered>> /\ outbox' = {}
        /\ \A r \in Resources : queue'[r] = NoRow
    BY <1>9 DEF PostgresCrash, Fault, resourceVars
  <2>2. NoRow.id = 0
    BY SMT DEF NoRow
  <2> QED
    BY <2>1, <2>2 DEF OrderInv
<1>10. ASSUME NEW r \in Resources, delete_unclaimed_work(r) PROVE FALSE
  BY <1>10 DEF delete_unclaimed_work
<1>11. ASSUME NEW e \in execs, AppendOutbox(e) \/ AppendWrite(e) PROVE OrderInv'
  BY <1>11, AppendOrders
<1>12. ASSUME NEW batch \in SUBSET outbox, drain_outbox_batch(batch) PROVE OrderInv'
  BY <1>12, DrainOrders
<1> QED
  BY <1>3, <1>4, <1>5, <1>6, <1>7, <1>8, <1>9, <1>10, <1>11, <1>12 DEF Next

\* The queue starts with its generations in order.
LEMMA OrderInitial == Init => OrderInv
  <1> SUFFICES ASSUME Init PROVE OrderInv
    OBVIOUS
  <1>1. \A r \in Resources : status[r] = 0 /\ generation[r] = 0 /\ queue[r] = NoRow
    BY DEF Init
  <1>2. NoRow.id = 0 /\ 0 <= 0
    BY SMT DEF NoRow
  <1> QED
    BY <1>1, <1>2 DEF Init, OrderInv

(* The stored status never falls back to an earlier generation's output,   *)
(* for any number of resources, pods, edits and faults, as long as no      *)
(* pending row was dropped and no result written past its fence: the write *)
(* of drain_outbox_batch needs no comparison of generations.               *)
THEOREM StatusHolds == Spec => StatusNeverRegresses
<1>1. IInv /\ OrderInv /\ [Next]_vars
        => [~disordered' => \A r \in Resources : status'[r] >= status[r]]_vars
  <2> SUFFICES ASSUME IInv, OrderInv, Next, ~disordered', NEW r \in Resources
               PROVE  status'[r] >= status[r]
    OBVIOUS
  <2>1. CASE UNCHANGED status
    BY SMT, <2>1, OrderTypes
  <2>2. ASSUME NEW batch \in SUBSET outbox, drain_outbox_batch(batch)
        PROVE  status'[r] >= status[r]
    BY <2>2, DrainOrders
  <2> QED
    BY <2>1, <2>2
    DEF Next, resourceVars, ApplySpec, ApplyLabels, Quarantine, Unquarantine,
        ReleaseTasks, ReapSelect, delete_unclaimed_work, requeue_failed_and_pending,
        requeue_for_resync, Claim, Finish, AppendOutbox, AppendSnapshot, AppendWrite,
        PodStop, PodCrash, PostgresCrash, ReapUpdate
<1> QED
  BY <1>1, InductiveInvariant, OrderInitial, OrderStep, PTL
  DEF Spec, StatusNeverRegresses

=============================================================================
