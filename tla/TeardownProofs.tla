--------------------------- MODULE TeardownProofs ---------------------------
(***************************************************************************)
(* Proofs about the teardown of a composite, for any children, edges,      *)
(* finalizers and composers: no infrastructure is left behind a row that   *)
(* is gone, the two uses of frozen_until are never taken for each other,   *)
(* and, where no end of a dependency is pruned, teardown runs against the  *)
(* dependencies.                                                           *)
(***************************************************************************)
EXTENDS Teardown, TLAPS

(* Zenon is the prover of this module; leaves that need arithmetic, records *)
(* or sequences ask for SMT.                                               *)
USE Zenon

(* What a queue row, a result or a mark on a resource says about its row.  *)
QueueInv ==
    \A x \in Resources :
        /\ rec[x] # "none" => rows[x].life # "absent"
        /\ del[x] # "none" => rows[x].life = "deleting"
        /\ rows[x].frozen # "no" => rows[x].life = "live"

(* The teardown of the child has run, or its row needed none, or is gone.  *)
Past(c) ==
    del[c] = "done" \/ rows[c].life = "absent" \/ (rows[c].life = "deleting" /\ ~rows[c].fin)

(* Its infrastructure exists, or may yet be built.                         *)
Busy(c) == c \in built \/ rec[c] # "none" \/ <<c, "rec">> \in running

(* The strengthening of TornDownBeforeGone: once a child with a finalizer  *)
(* is past its teardown nothing of it is built or to be built, unless its  *)
(* teardown raced with a reconcile.                                        *)
RacedInv == \A c \in Kids \cap Finalized : Past(c) /\ Busy(c) => c \in raced

Inv == TypeOK /\ QueueInv /\ RacedInv /\ OrphansWereDropped

(* The composer emits the two ends of a dependency in every run: it prunes *)
(* neither.  (A compose replaces the edges by those of what it emits, so   *)
(* a pruned dependent no longer holds up what it depends on.)              *)
DependenciesEmitted ==
    \A s \in Composites : \A P \in s.outputs, e \in s.deps : e[1] \in P /\ e[2] \in P

Present(x) == rows[x].life # "absent"

(* The strengthening of TeardownInOrder, for each dependency: its edge is  *)
(* there while both rows are, its dependent is marked with it and goes     *)
(* before it, and before its teardown is dispatched.                       *)
OrderInv ==
    /\ \A x \in Kids : <<x, "del">> \in running => rows[x].life # "live"
    /\ \A d, u \in Kids : <<d, u>> \in Deps =>
          /\ Present(d) => d \in produced
          /\ Present(u) => u \in produced
          /\ Present(d) /\ Present(u) => <<d, u>> \in edges
          /\ d \notin late =>
                /\ rows[u].life = "deleting" => rows[d].life # "live"
                /\ ~Present(u) \/ del[u] # "none" \/ <<u, "del">> \in running => ~Present(d)

----------------------------------------------------------------------------
(* The tables after a mark and after a removal.                            *)

\* The fields of a resource row.
LEMMA RowFields ==
  ASSUME NEW r \in Row
  PROVE  /\ r.life \in {"absent", "live", "deleting"} /\ r.synced \in BOOLEAN
         /\ r.fin \in BOOLEAN /\ r.frozen \in {"no", "orphan", "infinity"}
  BY DEF Row

\* The rows of a resource that does not exist and of one just created.
LEMMA AbsentRow ==
  /\ Absent \in Row /\ Absent.life = "absent" /\ Absent.frozen = "no"
  /\ Live \in Row /\ Live.life = "live" /\ Live.frozen = "no"
  BY DEF Absent, Live, Row

\* Marking for deletion touches the live rows among the marked, and gives them their
\* finalizer.
LEMMA MarkedRow ==
  ASSUME NEW w \in [Resources -> Row], NEW ids, NEW x \in Resources
  PROVE  /\ Marked(w, ids) \in [Resources -> Row]
         /\ IF x \in ids /\ w[x].life = "live"
            THEN /\ Marked(w, ids)[x].life = "deleting" /\ Marked(w, ids)[x].frozen = "no"
                 /\ Marked(w, ids)[x].fin <=> x \in Finalized
            ELSE Marked(w, ids)[x] = w[x]
  <1>1. ASSUME NEW y \in Resources
        PROVE  [w[y] EXCEPT !.life = "deleting", !.fin = y \in Finalized, !.frozen = "no"] \in Row
    <2>1. w[y] \in Row /\ (y \in Finalized) \in BOOLEAN
      BY SMTT(30)
    <2> QED
      BY <2>1 DEF Row
  <1>2. Marked(w, ids) \in [Resources -> Row]
    BY <1>1 DEF Marked
  <1>3. w[x] \in Row
    OBVIOUS
  <1> QED
    BY <1>2, <1>3 DEF Marked, Row

\* Removing rows takes what hangs on them along.
LEMMA RemovedRow ==
  ASSUME NEW w \in [Resources -> Row], NEW ids, NEW x \in Resources
  PROVE  /\ Removed(w, ids) \in [Resources -> Row]
         /\ Removed(w, ids)[x] = IF x \in Doomed(ids) THEN Absent ELSE w[x]
  BY AbsentRow DEF Removed

\* What goes with a set of rows; only the root takes others along.
LEMMA DoomedIds ==
  ASSUME NEW ids \in SUBSET Resources
  PROVE  /\ Doomed(ids) \subseteq Resources /\ ids \subseteq Doomed(ids)
         /\ Root \notin ids => Doomed(ids) = ids
  BY DEF Doomed

----------------------------------------------------------------------------
(* The passes of sweep_deletable.                                          *)

\* What a sweep collapses is marked and has no finalizer left.
LEMMA Collapse ==
  ASSUME NEW w, NEW range \in SUBSET Resources, NEW x \in Collapsing(w, range)
  PROVE  x \in range /\ w[x].life = "deleting" /\ ~w[x].fin
  <1> DEFINE S == {y \in range : w[y].life = "deleting" /\ ~w[y].fin}
  <1>1. S \in SUBSET range
    OBVIOUS
  <1>2. x \in S
    BY <1>1 DEF Collapsing
  <1> QED
    BY <1>2

(* The root goes last: with it go only children that go themselves.        *)
LEMMA RootLast ==
  ASSUME TypeOK, NEW w \in [Resources -> Row], NEW range \in SUBSET Resources,
         Root \in Collapsing(w, range), NEW c \in Kids, w[c].life # "absent"
  PROVE  c \in Collapsing(w, range)
  <1> DEFINE Gated(S, y) == /\ w[y].life = "deleting" /\ ~w[y].fin
                            /\ ~Blocked(Removed(w, S), y)
             Closed(S) == \A y \in range : Gated(S, y) => y \in S
  <1>0. /\ Root \in Resources /\ Root \notin Kids /\ Kids \subseteq Resources
        /\ \A e \in edges : e[1] \in Resources
    BY SMTT(30), ConstantsAssumption DEF Resources, TypeOK, Deps, Composite
  <1> SUFFICES ASSUME c \notin Collapsing(w, range) PROVE FALSE
    OBVIOUS
  <1>1. PICK S \in SUBSET range : Closed(S) /\ c \notin S
    <2>1. CASE c \in range
      BY <2>1 DEF Collapsing
    <2>2. CASE c \notin range
      <3>1. Closed(range) /\ range \in SUBSET range
        OBVIOUS
      <3> QED
        BY <2>2, <3>1
    <2> QED
      BY <2>1, <2>2
  <1> DEFINE T == S \ {Root}
  <1>2. T \in SUBSET range /\ T \in SUBSET Resources /\ S \in SUBSET Resources /\ Root \notin T /\ c \notin T
    BY <1>1
  <1>3. \A y \in Resources : /\ Removed(w, T)[y] = IF y \in T THEN Absent ELSE w[y]
                             /\ Removed(w, S)[y].life = "deleting" => Removed(w, T)[y].life = "deleting"
    <2> TAKE y \in Resources
    <2>1. Removed(w, T)[y] = IF y \in T THEN Absent ELSE w[y]
      BY <1>2, DoomedIds DEF Removed
    <2>2. Removed(w, S)[y] = IF y \in Doomed(S) THEN Absent ELSE w[y]
      BY DEF Removed
    <2>3. T \subseteq Doomed(S) /\ Absent.life = "absent"
      BY <1>2, AbsentRow, DoomedIds
    <2> QED
      BY <2>1, <2>2, <2>3
  <1>4. Closed(T)
    <2> SUFFICES ASSUME NEW y \in range, Gated(T, y) PROVE y \in T
      OBVIOUS
    <2>1. y # Root
      BY <1>0, <1>2, <1>3 DEF Blocked
    <2>2. ~Blocked(Removed(w, S), y)
      BY <1>0, <1>3, <2>1 DEF Blocked
    <2> QED
      BY <1>1, <2>1, <2>2
  <1>5. Root \in T
    BY <1>2, <1>4 DEF Collapsing
  <1> QED
    BY <1>2, <1>5

----------------------------------------------------------------------------
(* Types.                                                                  *)

RecStates == {"none", "pending", "claimed"}
DelStates == {"none", "pending", "claimed", "done", "failed"}

\* The queue rows, edges and builds after rows are gone keep their types.
LEMMA QueueTypes ==
  ASSUME TypeOK, NEW gone, NEW ready
  PROVE  /\ Unqueued(rec, gone) \in [Resources -> RecStates]
         /\ Dispatched(Unqueued(del, gone), ready) \in [Resources -> DelStates]
         /\ Without(edges, gone) \subseteq Deps
         /\ BuiltAfter(gone) \subseteq Kids
  <1>1. rec \in [Resources -> RecStates] /\ del \in [Resources -> DelStates]
        /\ edges \subseteq Deps /\ built \subseteq Kids
    BY DEF TypeOK, RecStates, DelStates
  <1>2. Unqueued(rec, gone) \in [Resources -> RecStates]
    BY <1>1 DEF Unqueued, RecStates
  <1>3. Unqueued(del, gone) \in [Resources -> DelStates]
    BY <1>1 DEF Unqueued, DelStates
  <1>4. Dispatched(Unqueued(del, gone), ready) \in [Resources -> DelStates]
    BY <1>3 DEF Dispatched, DelStates
  <1> QED
    BY <1>1, <1>2, <1>4 DEF Without, BuiltAfter

(* What the composer does to the rows it keeps: upsert, orphan, re-adopt.  *)
LEMMA UpsertedRow ==
  ASSUME TypeOK, NEW P
  PROVE  Upserted(P) \in [Resources -> Row]
  BY AbsentRow DEF TypeOK, Upserted

\* Orphaning freezes live rows and changes nothing else.
LEMMA OrphanedRow ==
  ASSUME NEW w \in [Resources -> Row], NEW ids
  PROVE  /\ Orphaned(w, ids) \in [Resources -> Row]
         /\ \A x \in Resources :
              /\ Orphaned(w, ids)[x].life = w[x].life /\ (Orphaned(w, ids)[x].fin <=> w[x].fin)
              /\ Orphaned(w, ids)[x].frozen \in {w[x].frozen, "orphan"}
              /\ x \notin ids \/ w[x].life # "live" => Orphaned(w, ids)[x] = w[x]
  BY DEF Orphaned, Row

\* Readoption thaws orphans and changes nothing else.
LEMMA ReadoptedRow ==
  ASSUME NEW w \in [Resources -> Row], NEW P
  PROVE  /\ Readopted(w, P) \in [Resources -> Row]
         /\ \A x \in Resources :
              /\ Readopted(w, P)[x].life = w[x].life /\ (Readopted(w, P)[x].fin <=> w[x].fin)
              /\ Readopted(w, P)[x].frozen \in {w[x].frozen, "no"}
              /\ w[x].frozen # "orphan" => Readopted(w, P)[x] = w[x]
              /\ x \in P => Readopted(w, P)[x].frozen # "orphan"
  BY DEF Readopted, Row

\* Stripping the finalizer of a resource whose delete task is done changes its row
\* alone.
LEMMA StrippedRow ==
  ASSUME TypeOK, NEW r \in Resources
  PROVE  /\ Stripped(rows, r) \in [Resources -> Row]
         /\ \A x \in Resources :
              /\ Stripped(rows, r)[x].life = rows[x].life
              /\ Stripped(rows, r)[x].frozen = rows[x].frozen
              /\ x # r \/ del[r] # "done" => Stripped(rows, r)[x] = rows[x]
  <1>1. rows \in [Resources -> Row] /\ rows[r] \in Row
    BY DEF TypeOK
  <1>2. CASE del[r] = "done"
    <2> DEFINE stripped == [rows[r] EXCEPT !.fin = FALSE]
    <2>1. stripped \in Row /\ stripped.life = rows[r].life /\ stripped.frozen = rows[r].frozen
      BY <1>1 DEF Row
    <2>2. Stripped(rows, r) = [rows EXCEPT ![r] = stripped]
      BY <1>2 DEF Stripped
    <2> HIDE DEF stripped
    <2> QED
      BY <1>1, <1>2, <2>1, <2>2
  <1>3. CASE del[r] # "done"
    BY <1>1, <1>3 DEF Stripped
  <1> QED
    BY <1>2, <1>3

(* the rows sweep_expired_orphans leaves when it has marked one            *)
Expired(c) == [rows EXCEPT ![c] = [@ EXCEPT !.life = "deleting", !.fin = TRUE, !.frozen = "no"]]

\* An orphan whose grace has expired is marked, with its finalizer.
LEMMA ExpiredRow ==
  ASSUME TypeOK, NEW c \in Kids
  PROVE  /\ Expired(c) \in [Resources -> Row]
         /\ Expired(c)[c].life = "deleting" /\ Expired(c)[c].fin /\ Expired(c)[c].frozen = "no"
         /\ \A x \in Resources : x # c => Expired(c)[x] = rows[x]
  <1>1. rows \in [Resources -> Row] /\ rows[c] \in Row /\ c \in Resources
    BY DEF TypeOK, Resources
  <1> DEFINE marked == [rows[c] EXCEPT !.life = "deleting", !.fin = TRUE, !.frozen = "no"]
  <1>2. marked \in Row /\ marked.life = "deleting" /\ marked.fin /\ marked.frozen = "no"
    BY <1>1 DEF Row
  <1>3. Expired(c) = [rows EXCEPT ![c] = marked]
    BY DEF Expired
  <1> HIDE DEF marked
  <1> QED
    BY <1>1, <1>2, <1>3

\* What a composition emits, and the ends of the edges, are kids.
LEMMA OutputKids == ASSUME TypeOK, NEW P \in shape.outputs PROVE P \subseteq Kids /\ Deps \subseteq Kids \X Kids
  BY ConstantsAssumption DEF TypeOK, Composite, Deps

\* A sweep keeps the types.
LEMMA SweepTypes ==
  ASSUME TypeOK, NEW w \in [Resources -> Row], NEW range, SweepAfter(w, range),
         UNCHANGED <<shape, running, faults, uses, produced, raced, late>>
  PROVE  TypeOK'
  <1> DEFINE gone == Collapsing(w, range)
             left == Removed(w, gone)
  <1>1. left \in [Resources -> Row]
    BY RemovedRow, AbsentRow DEF Removed
  <1>2. /\ rows' = left /\ edges' = Without(edges, gone) /\ rec' = Unqueued(rec, gone)
        /\ del' = Dispatched(Unqueued(del, gone), Dispatchable(left, range))
        /\ built' = BuiltAfter(gone)
    BY DEF SweepAfter, Commit
  <1> HIDE DEF gone, left
  <1>3. /\ rec' \in [Resources -> RecStates] /\ del' \in [Resources -> DelStates]
        /\ edges' \subseteq Deps /\ built' \subseteq Kids
    BY <1>2, QueueTypes
  <1> QED
    BY <1>1, <1>2, <1>3 DEF TypeOK, Deps, RecStates, DelStates

\* Every step of the teardown keeps the types.
LEMMA TypeStep == TypeOK /\ [Next]_vars => TypeOK'
  <1> SUFFICES ASSUME TypeOK, [Next]_vars PROVE TypeOK'
    OBVIOUS
  <1> USE DEF observers
  <1>r. rows \in [Resources -> Row] /\ Kids \subseteq Resources /\ Root \in Resources
    BY DEF TypeOK, Resources
  <1>1. ASSUME NEW range, Sweep(range) PROVE TypeOK'
    BY <1>r, <1>1, SweepTypes DEF Sweep
  <1>2. ASSUME NEW r \in Resources, RequestDeletion(r) PROVE TypeOK'
    <2>1. Marked(rows, Tree(rows, r)) \in [Resources -> Row]
      BY <1>r, MarkedRow
    <2> QED
      BY <1>2, <2>1, SweepTypes DEF RequestDeletion
  <1>3. ASSUME NEW P \in shape.outputs, Compose(P) PROVE TypeOK'
    <2> DEFINE soft  == (Dropped(P) \ Graced) \cap Finalized
               hard  == (Dropped(P) \ Graced) \ Finalized
               w     == Marked(Upserted(P), UNION {Tree(Upserted(P), c) : c \in soft})
               gone  == IF soft = {} THEN {} ELSE Collapsing(w, Resources)
               swept == Removed(w, gone)
               kept  == Removed(Orphaned(swept, Dropped(P) \cap Graced), hard)
               ready == IF soft = {} THEN {} ELSE Dispatchable(swept, Resources)
               fresh == {c \in P : rows[c].life = "absent"}
    <2>1. /\ rows' = Readopted(kept, P)
          /\ edges' = {e \in Deps : e[1] \in P /\ e[2] \in P}
          /\ rec' = [Unqueued(rec, gone \cup hard) EXCEPT ![Root] = "none"]
          /\ del' = Dispatched(Unqueued(del, gone \cup hard), ready)
          /\ built' = BuiltAfter(gone \cup hard) \ fresh
          /\ running' = {t \in running : t[1] \notin fresh}
          /\ uses' = {e \in uses : e[1] \notin fresh}
          /\ raced' = raced \ fresh
          /\ produced' = P
          /\ late' \subseteq late \cup fresh
          /\ UNCHANGED <<shape, faults>>
      BY <1>3 DEF Compose
    <2>2. w \in [Resources -> Row]
      BY UpsertedRow, MarkedRow, <1>r
    <2>3. swept \in [Resources -> Row]
      BY <2>2, RemovedRow, <1>r
    <2>4. Orphaned(swept, Dropped(P) \cap Graced) \in [Resources -> Row]
      BY <2>3, OrphanedRow
    <2>5. kept \in [Resources -> Row]
      BY <2>4, RemovedRow, <1>r
    <2>6. rows' \in [Resources -> Row]
      BY <2>1, <2>5, ReadoptedRow
    <2>7. fresh \subseteq Kids /\ P \subseteq Kids
      BY OutputKids
    <2> HIDE DEF soft, hard, w, gone, swept, kept, ready, fresh
    <2>8. /\ rec' \in [Resources -> RecStates] /\ del' \in [Resources -> DelStates]
          /\ built' \subseteq Kids
      BY <1>r, <2>1, QueueTypes DEF RecStates
    <2> QED
      BY <2>1, <2>6, <2>7, <2>8 DEF TypeOK, Deps, RecStates, DelStates
  <1>4. ASSUME NEW c \in Kids, SweepOrphan(c) PROVE TypeOK'
    <2> DEFINE gone == {c} \ Finalized
               w == Expired(c)
    <2>1. w \in [Resources -> Row]
      BY ExpiredRow
    <2>2. Removed(w, gone) \in [Resources -> Row]
      BY <1>r, <2>1, RemovedRow
    <2>3. /\ rows' = Removed(w, gone) /\ edges' = Without(edges, gone) /\ rec' = Unqueued(rec, gone)
          /\ del' = Dispatched(Unqueued(del, gone), {c} \ gone)
          /\ built' = BuiltAfter(gone)
          /\ UNCHANGED <<shape, running, faults, uses, produced, raced, late>>
      BY <1>4 DEF SweepOrphan, Commit, Expired
    <2> HIDE DEF gone, w
    <2>4. /\ rec' \in [Resources -> RecStates] /\ del' \in [Resources -> DelStates]
          /\ edges' \subseteq Deps /\ built' \subseteq Kids
      BY <2>3, QueueTypes
    <2> QED
      BY <2>2, <2>3, <2>4 DEF TypeOK, Deps, RecStates, DelStates
  <1>5. ASSUME NEW c \in Kids, Quarantine(c) \/ Unquarantine(c) PROVE TypeOK'
    <2>0. \A f \in {"no", "infinity"} : [rows[c] EXCEPT !.frozen = f] \in Row
      BY <1>r DEF Row
    <2>1. rows' \in [Resources -> Row]
      BY <1>r, <1>5, <2>0 DEF Quarantine, Unquarantine
    <2> QED
      BY <1>5, <2>1 DEF Quarantine, Unquarantine, TypeOK, Deps
  <1>6. ASSUME NEW r \in Resources, Schedule(r) \/ ClaimReconcile(r) \/ ClaimDelete(r) PROVE TypeOK'
    BY SMTT(30), <1>6 DEF Schedule, ClaimReconcile, ClaimDelete, TypeOK, Deps
  <1>7. ASSUME NEW c \in Kids, Reconcile(c) PROVE TypeOK'
    <2>1. (rows[c].synced \/ rec[c] = "claimed") \in BOOLEAN
      BY Zenon
    <2>2. rows' \in [Resources -> Row]
      BY ZenonT(60), <1>r, <1>7, <2>1 DEF Reconcile, Row
    <2> QED
      BY <1>7, <2>2 DEF Reconcile, TypeOK, Deps, Resources
  <1>8. ASSUME NEW r \in Resources, Teardown(r) PROVE TypeOK'
    BY <1>8 DEF Teardown, TypeOK, Deps
  <1>9. ASSUME NEW r \in Resources, TeardownFails(r) \/ DropUnclaimed(r) \/ \E t \in {"rec", "del"} : Reap(r, t)
        PROVE  TypeOK'
    <2>1. faults' \in 0 .. MaxFaults
      BY SMTT(30), <1>9, ConstantsAssumption DEF TeardownFails, DropUnclaimed, Reap, Fault, TypeOK
    <2> QED
      BY <1>9, <2>1 DEF TeardownFails, DropUnclaimed, Reap, TypeOK, Deps
  <1>10. ASSUME NEW r \in Resources, DrainDelete(r) PROVE TypeOK'
    <2> DEFINE w == Stripped(rows, r)
               gone == IF w[r].life = "deleting" /\ ~w[r].fin /\ ~Blocked(w, r) THEN {r} ELSE {}
               again == IF del[r] = "failed" /\ w[r].life = "deleting" /\ w[r].fin THEN "pending" ELSE "none"
    <2>1. /\ rows' = Removed(w, gone) /\ edges' = Without(edges, gone) /\ rec' = Unqueued(rec, gone)
          /\ del' = Unqueued([del EXCEPT ![r] = again], gone)
          /\ built' = BuiltAfter(gone)
          /\ UNCHANGED <<shape, running, faults, uses, produced, raced, late>>
      BY <1>10 DEF DrainDelete
    <2>2. rows' \in [Resources -> Row]
      BY <1>r, <2>1, StrippedRow, RemovedRow
    <2>3. again \in {"pending", "none"}
      OBVIOUS
    <2> HIDE DEF w, gone, again
    <2>4. rec' \in [Resources -> RecStates] /\ edges' \subseteq Deps /\ built' \subseteq Kids
      BY <2>1, QueueTypes
    <2>5. del' \in [Resources -> DelStates]
      BY <2>1, <2>3 DEF Unqueued, TypeOK, DelStates
    <2> QED
      BY <2>1, <2>2, <2>4, <2>5 DEF TypeOK, Deps, RecStates, DelStates
  <1>11. CASE UNCHANGED vars
    BY <1>11 DEF vars, TypeOK, Deps
  <1> QED
    BY <1>r, <1>1, <1>2, <1>3, <1>4, <1>5, <1>6, <1>7, <1>8, <1>9, <1>10, <1>11, ConstantsAssumption
       DEF Next, System

----------------------------------------------------------------------------
(* The transactions that mark and remove rows.                             *)

(* What a transaction must leave of the invariant and of a quarantine.     *)
Kept == QueueInv' /\ RacedInv' /\ OrphansWereDropped' /\ QuarantineStands

(* w is a table of which some live rows have been marked.                  *)
MarksOf(v, w) ==
    \A x \in Resources :
        \/ w[x] = v[x]
        \/ v[x].life = "live" /\ w[x].life = "deleting" /\ w[x].frozen = "no" /\ (w[x].fin <=> x \in Finalized)

\* Marking takes live rows to deleting, with their finalizers, and nothing else.
LEMMA MarkedMarks ==
  ASSUME NEW v \in [Resources -> Row], NEW ids
  PROVE  Marked(v, ids) \in [Resources -> Row] /\ MarksOf(v, Marked(v, ids))
  <1>1. \A x \in Resources :
          IF x \in ids /\ v[x].life = "live"
          THEN /\ Marked(v, ids)[x].life = "deleting" /\ Marked(v, ids)[x].frozen = "no"
               /\ Marked(v, ids)[x].fin <=> x \in Finalized
          ELSE Marked(v, ids)[x] = v[x]
    BY MarkedRow
  <1>2. Marked(v, ids) \in [Resources -> Row]
    BY MarkedRow DEF Resources
  <1> QED
    BY <1>1, <1>2 DEF MarksOf

(* A child that goes with a sweep is gone already, or needs no teardown.   *)
LEMMA DoomedKids ==
  ASSUME TypeOK, NEW w \in [Resources -> Row], NEW range \in SUBSET Resources,
         NEW c \in Kids, c \in Doomed(Collapsing(w, range))
  PROVE  w[c].life = "absent" \/ (w[c].life = "deleting" /\ ~w[c].fin)
  <1>1. CASE Root \in Collapsing(w, range)
    BY <1>1, RootLast, Collapse
  <1>2. CASE Root \notin Collapsing(w, range)
    BY <1>2, Collapse DEF Doomed
  <1> QED
    BY <1>1, <1>2

\* What a sweep collapses are resources.
LEMMA CollapsingIn ==
  ASSUME NEW w, NEW range \in SUBSET Resources PROVE Collapsing(w, range) \subseteq Resources
  BY Collapse

\* A sweep after a marking keeps what every step must keep.
LEMMA SweepKeeps ==
  ASSUME Inv, NEW w \in [Resources -> Row], MarksOf(rows, w), NEW range \in SUBSET Resources,
         SweepAfter(w, range), UNCHANGED <<shape, running, faults, uses, produced, raced, late>>
  PROVE  Kept
  <1> DEFINE gone == Collapsing(w, range)
             D == Doomed(gone)
             left == Removed(w, gone)
             ready == Dispatchable(left, range)
  <1>t. /\ rows \in [Resources -> Row] /\ Kids \subseteq Resources
        /\ rec \in [Resources -> RecStates] /\ del \in [Resources -> DelStates]
    BY DEF Inv, TypeOK, Resources, RecStates, DelStates
  <1>1. \A x \in Resources : left[x] = IF x \in D THEN Absent ELSE w[x]
    BY RemovedRow
  <1>2. /\ rows' = left /\ rec' = Unqueued(rec, gone) /\ del' = Dispatched(Unqueued(del, gone), ready)
        /\ built' \subseteq built
    BY DEF SweepAfter, Commit, BuiltAfter
  <1>3. \A c \in Kids : c \in D => w[c].life = "absent" \/ (w[c].life = "deleting" /\ ~w[c].fin)
    BY DoomedKids DEF Inv
  <1>4. \A x \in Resources : x \in ready => left[x].life = "deleting"
    BY DEF Dispatchable
  <1>5. \A x \in Resources : /\ rec'[x] = IF x \in D THEN "none" ELSE rec[x]
                             /\ del'[x] \in {"none", "pending"} \/ (x \notin D /\ del'[x] = del[x])
                             /\ del'[x] # "none" => x \in ready \/ (x \notin D /\ del[x] # "none")
    BY <1>2, <1>t DEF Unqueued, Dispatched
  <1> HIDE DEF gone, D, left, ready
  <1>6. \A x \in Resources : IF x \in D THEN rows'[x] = Absent ELSE rows'[x] = w[x]
    BY <1>1, <1>2
  <1>7. QueueInv'
    <2> SUFFICES ASSUME NEW x \in Resources
                 PROVE  /\ rec'[x] # "none" => rows'[x].life # "absent"
                        /\ del'[x] # "none" => rows'[x].life = "deleting"
                        /\ rows'[x].frozen # "no" => rows'[x].life = "live"
      BY DEF QueueInv
    <2>1. /\ rec[x] # "none" => rows[x].life # "absent"
          /\ del[x] # "none" => rows[x].life = "deleting"
          /\ rows[x].frozen # "no" => rows[x].life = "live"
      BY DEF Inv, QueueInv
    <2> QED
      BY SMTT(30), <1>2, <1>4, <1>5, <1>6, <2>1, AbsentRow DEF MarksOf
  <1>8. RacedInv'
    <2> SUFFICES ASSUME NEW c \in Kids \cap Finalized, Past(c)', Busy(c)' PROVE c \in raced
      BY DEF RacedInv, Finalized
    <2>1. Busy(c)
      BY <1>2, <1>5, <1>t DEF Busy
    <2>2. Past(c)
      <3>1. CASE del'[c] = "done"
        BY <1>5, <1>t, <3>1 DEF Past
      <3>2. CASE rows'[c].life = "absent" \/ (rows'[c].life = "deleting" /\ ~rows'[c].fin)
        <4>1. w[c].life = "absent" \/ (w[c].life = "deleting" /\ ~w[c].fin)
          BY <1>3, <1>6, <1>t, <3>2
        <4> QED
          BY <1>t, <4>1 DEF MarksOf, Past
      <3> QED
        BY <3>1, <3>2 DEF Past
    <2> QED
      BY <2>1, <2>2 DEF Inv, RacedInv
  <1>9. \A c \in Kids : rows[c].frozen # "no" => rows[c].life = "live"
    BY <1>t DEF Inv, QueueInv
  <1>10. OrphansWereDropped'
    BY <1>6, <1>t, AbsentRow DEF Inv, OrphansWereDropped, MarksOf
  <1>11. QuarantineStands
    BY <1>6, <1>9, <1>t, AbsentRow DEF QuarantineStands, Gone, MarksOf
  <1> QED
    BY <1>7, <1>8, <1>10, <1>11 DEF Kept

(* ApplyComposeResult: a child that is composed anew starts afresh, one    *)
(* that is pruned without a teardown has no finalizer.                     *)
LEMMA ComposeKeeps ==
  ASSUME Inv, NEW P \in shape.outputs, Compose(P)
  PROVE  Kept
  <1> DEFINE soft  == (Dropped(P) \ Graced) \cap Finalized
             hard  == (Dropped(P) \ Graced) \ Finalized
             grace == Dropped(P) \cap Graced
             up    == Upserted(P)
             w     == Marked(up, UNION {Tree(up, c) : c \in soft})
             gone  == IF soft = {} THEN {} ELSE Collapsing(w, Resources)
             D     == Doomed(gone)
             swept == Removed(w, gone)
             held  == Orphaned(swept, grace)
             kept  == Removed(held, hard)
             ready == IF soft = {} THEN {} ELSE Dispatchable(swept, Resources)
             fresh == {c \in P : rows[c].life = "absent"}
  <1>t. /\ rows \in [Resources -> Row] /\ Kids \subseteq Resources /\ Root \in Resources /\ Root \notin Kids
        /\ rec \in [Resources -> RecStates] /\ del \in [Resources -> DelStates]
    BY ConstantsAssumption DEF Inv, TypeOK, Resources, RecStates, DelStates
  <1>1. /\ rows' = Readopted(kept, P)
        /\ rec' = [Unqueued(rec, gone \cup hard) EXCEPT ![Root] = "none"]
        /\ del' = Dispatched(Unqueued(del, gone \cup hard), ready)
        /\ built' \subseteq built \ fresh
        /\ running' = {t \in running : t[1] \notin fresh}
        /\ raced' = raced \ fresh
        /\ produced' = P
        /\ UNCHANGED shape
    BY DEF Compose, BuiltAfter
  <1>2. P \subseteq Kids /\ fresh \subseteq Kids /\ fresh = {c \in P : rows[c].life = "absent"}
    BY OutputKids DEF Inv
  <1>3. /\ hard \subseteq Kids /\ hard \cap Finalized = {} /\ Root \notin hard
        /\ \A c \in hard \cup grace : rows[c].frozen = "no" /\ rows[c].life = "live" /\ c \notin P
    BY <1>t DEF Dropped
  <1>4. up \in [Resources -> Row] /\ \A x \in Resources : up[x] = IF x \in fresh THEN Live ELSE rows[x]
    BY UpsertedRow DEF Inv, Upserted
  <1>5. w \in [Resources -> Row] /\ MarksOf(up, w)
    BY <1>4, MarkedMarks
  <1>6. /\ gone \subseteq Resources
        /\ \A c \in Kids : c \in D => w[c].life = "absent" \/ (w[c].life = "deleting" /\ ~w[c].fin)
    <2>1. CASE soft = {}
      BY <2>1 DEF Doomed
    <2>2. CASE soft # {}
      BY <1>5, <2>2, DoomedKids, CollapsingIn DEF Inv
    <2> QED
      BY <2>1, <2>2
  <1>7. Doomed(gone \cup hard) = D \cup hard /\ Doomed(hard) = hard
    BY <1>3, <1>t DEF Doomed, Resources
  <1>8. swept \in [Resources -> Row] /\ \A x \in Resources : swept[x] = IF x \in D THEN Absent ELSE w[x]
    <2> HIDE DEF w, gone
    <2> QED
      BY <1>5, <1>t, RemovedRow
  <1>9. \A x \in Resources : x \in ready => swept[x].life = "deleting" /\ swept[x].fin
    <2> HIDE DEF soft, swept
    <2> QED
      BY DEF Dispatchable
  <1>10. /\ held \in [Resources -> Row]
         /\ \A x \in Resources :
              /\ held[x].life = swept[x].life /\ (held[x].fin <=> swept[x].fin)
              /\ held[x].frozen \in {swept[x].frozen, "orphan"}
              /\ x \notin grace \/ swept[x].life # "live" => held[x] = swept[x]
    <2> HIDE DEF swept, grace
    <2> QED
      BY SMTT(30), <1>8, OrphanedRow
  <1>11. kept \in [Resources -> Row] /\ \A x \in Resources : kept[x] = IF x \in hard THEN Absent ELSE held[x]
    <2>1. held \in [Resources -> Row] /\ Doomed(hard) = hard
      BY <1>7, <1>10
    <2> HIDE DEF held, hard
    <2>2. \A x \in Resources : /\ Removed(held, hard) \in [Resources -> Row]
                               /\ Removed(held, hard)[x] = IF x \in hard THEN Absent ELSE held[x]
      BY <2>1, RemovedRow
    <2> QED
      BY <1>t, <2>2
  <1>12. \A x \in Resources :
           /\ rows'[x].life = kept[x].life /\ (rows'[x].fin <=> kept[x].fin)
           /\ rows'[x].frozen \in {kept[x].frozen, "no"}
           /\ kept[x].frozen # "orphan" => rows'[x] = kept[x]
           /\ x \in P => rows'[x].frozen # "orphan"
    <2> HIDE DEF kept
    <2> QED
      BY SMTT(30), <1>1, <1>11, ReadoptedRow
  <1>13. \A x \in Resources :
           /\ rec'[x] = IF x \in D \cup hard \/ x = Root THEN "none" ELSE rec[x]
           /\ del'[x] \in {"none", "pending"} \/ (x \notin D \cup hard /\ del'[x] = del[x])
           /\ del'[x] # "none" => x \in ready \/ (x \notin D \cup hard /\ del[x] # "none")
    BY <1>1, <1>7, <1>t DEF Unqueued, Dispatched
  <1> HIDE DEF soft, hard, grace, up, w, gone, D, swept, held, kept, ready, fresh
  <1>a. Absent.life = "absent" /\ Absent.frozen = "no" /\ Live.life = "live" /\ Live.frozen = "no"
    BY AbsentRow
  (* the row of a resource that goes through the prune and one that does not *)
  <1>14. \A x \in Resources :
           /\ x \in D \cup hard => rows'[x].life = "absent" /\ rows'[x].frozen = "no"
           /\ x \notin D \cup hard => rows'[x].life = w[x].life /\ (rows'[x].fin <=> w[x].fin)
    <2> TAKE x \in Resources
    <2>1. CASE x \in hard
      BY <1>11, <1>12, <1>a, <2>1
    <2>2. CASE x \notin hard /\ x \in D
      <3>1. kept[x] = Absent
        BY <1>8, <1>10, <1>11, <1>a, <2>2
      <3> QED
        BY <1>12, <1>a, <2>2, <3>1
    <2>3. CASE x \notin hard /\ x \notin D
      BY SMTT(30), <1>8, <1>10, <1>11, <1>12, <2>3
    <2> QED
      BY <2>1, <2>2, <2>3
  <1>15. QueueInv'
    <2> SUFFICES ASSUME NEW x \in Resources
                 PROVE  /\ rec'[x] # "none" => rows'[x].life # "absent"
                        /\ del'[x] # "none" => rows'[x].life = "deleting"
                        /\ rows'[x].frozen # "no" => rows'[x].life = "live"
      BY DEF QueueInv
    <2>0. /\ rec[x] # "none" => rows[x].life # "absent"
          /\ del[x] # "none" => rows[x].life = "deleting"
          /\ rows[x].frozen # "no" => rows[x].life = "live"
      BY DEF Inv, QueueInv
    <2>1. rec'[x] # "none" => rows'[x].life # "absent"
      BY SMTT(30), <1>2, <1>4, <1>5, <1>13, <1>14, <2>0 DEF MarksOf
    <2>2. del'[x] # "none" => rows'[x].life = "deleting"
      <3>1. CASE x \in ready
        <4>1. x \notin D /\ w[x].life = "deleting" /\ w[x].fin
          BY <1>8, <1>9, <1>a, <3>1
        <4>2. x \notin hard
          BY <1>2, <1>3, <1>4, <1>5, <4>1 DEF MarksOf
        <4> QED
          BY <1>14, <4>1, <4>2
      <3>2. CASE x \notin D \cup hard /\ del[x] # "none"
        BY SMTT(30), <1>2, <1>4, <1>5, <1>14, <2>0, <3>2 DEF MarksOf
      <3> QED
        BY <1>13, <3>1, <3>2
    <2>3. rows'[x].frozen # "no" => rows'[x].life = "live"
      <3> SUFFICES ASSUME rows'[x].frozen # "no" PROVE rows'[x].life = "live"
        OBVIOUS
      <3>1. x \notin D \cup hard /\ held[x].frozen # "no"
        BY <1>11, <1>12, <1>14
      <3>2. CASE swept[x].life = "live"
        BY <1>8, <1>14, <3>1, <3>2
      <3>3. CASE held[x] = swept[x]
        <4>1. w[x].frozen # "no"
          BY <1>8, <3>1, <3>3
        <4> QED
          BY ZenonT(60), <1>4, <1>5, <1>14, <1>a, <2>0, <3>1, <4>1 DEF MarksOf
      <3> QED
        BY <1>10, <3>2, <3>3
    <2> QED
      BY <2>1, <2>2, <2>3
  <1>16. RacedInv'
    <2> SUFFICES ASSUME NEW c \in Kids \cap Finalized, Past(c)', Busy(c)' PROVE c \in raced \ fresh
      BY <1>1 DEF RacedInv, Finalized
    <2>1. c \in Resources /\ c # Root /\ c \notin hard
      BY <1>3, <1>t
    <2>2. c \notin fresh
      <3>1. c \in fresh => rec[c] = "none"
        BY <1>2, <2>1 DEF Inv, QueueInv
      <3> QED
        BY <1>1, <1>13, <2>1, <3>1 DEF Busy
    <2>3. Busy(c)
      BY <1>1, <1>13, <2>1 DEF Busy
    <2>4. Past(c)
      <3>1. CASE del'[c] = "done"
        BY <1>13, <2>1, <3>1 DEF Past
      <3>2. CASE rows'[c].life = "absent" \/ (rows'[c].life = "deleting" /\ ~rows'[c].fin)
        <4>1. w[c].life = "absent" \/ (w[c].life = "deleting" /\ ~w[c].fin)
          BY <1>6, <1>14, <2>1, <3>2
        <4>2. w[c] = up[c] /\ up[c] = rows[c]
          BY <1>4, <1>5, <2>1, <2>2, <4>1 DEF MarksOf
        <4> QED
          BY <4>1, <4>2 DEF Past
      <3> QED
        BY <3>1, <3>2 DEF Past
    <2> QED
      BY <2>2, <2>3, <2>4 DEF Inv, RacedInv
  <1>17. OrphansWereDropped'
    BY <1>1, <1>12, <1>t DEF OrphansWereDropped
  <1>18. QuarantineStands
    <2> SUFFICES ASSUME NEW c \in Kids, rows[c].frozen = "infinity"
                 PROVE  rows'[c].frozen = "infinity" \/ rows'[c].life = "deleting" \/ Gone(c)
      BY DEF QuarantineStands
    <2>1. rows[c].life = "live" /\ c \in Resources
      BY <1>t DEF Inv, QueueInv
    <2>2. c \notin hard \cup grace /\ up[c] = rows[c]
      BY <1>2, <1>3, <1>4, <2>1
    <2>3. CASE c \in D
      BY <1>14, <2>1, <2>3 DEF Gone
    <2>4. CASE c \notin D /\ w[c] = up[c]
      <3>1. held[c] = w[c]
        BY <1>8, <1>10, <2>1, <2>2, <2>4
      <3>2. kept[c] = w[c]
        BY <1>11, <2>1, <2>2, <3>1
      <3> QED
        BY <1>12, <2>1, <2>2, <2>4, <3>2
    <2>5. CASE c \notin D /\ w[c].life = "deleting"
      BY <1>14, <2>1, <2>2, <2>5
    <2> QED
      BY <1>5, <2>1, <2>3, <2>4, <2>5 DEF MarksOf
  <1> QED
    BY <1>15, <1>16, <1>17, <1>18 DEF Kept

(* drain_outbox_batch: the finalizer goes only with a teardown's result.   *)
LEMMA DrainKeeps ==
  ASSUME Inv, NEW r \in Resources, DrainDelete(r)
  PROVE  Kept
  <1> DEFINE w == Stripped(rows, r)
             gone == IF w[r].life = "deleting" /\ ~w[r].fin /\ ~Blocked(w, r) THEN {r} ELSE {}
             again == IF del[r] = "failed" /\ w[r].life = "deleting" /\ w[r].fin THEN "pending" ELSE "none"
             D == Doomed(gone)
  <1>t. /\ rows \in [Resources -> Row] /\ Kids \subseteq Resources /\ Root \notin Kids
        /\ rec \in [Resources -> RecStates] /\ del \in [Resources -> DelStates]
    BY ConstantsAssumption DEF Inv, TypeOK, Resources, RecStates, DelStates
  <1>1. /\ rows' = Removed(w, gone) /\ rec' = Unqueued(rec, gone)
        /\ del' = Unqueued([del EXCEPT ![r] = again], gone)
        /\ built' \subseteq built /\ UNCHANGED <<shape, running, produced, raced>>
    BY DEF DrainDelete, BuiltAfter
  <1>2. /\ w \in [Resources -> Row]
        /\ \A x \in Resources : /\ w[x].life = rows[x].life /\ w[x].frozen = rows[x].frozen
                                /\ x # r \/ del[r] # "done" => w[x] = rows[x]
    BY StrippedRow DEF Inv
  <1>3. \A c \in Kids : c \in D => w[c].life = "absent" \/ (w[c].life = "deleting" /\ ~w[c].fin)
    <2> HIDE DEF w
    <2>1. CASE gone = {}
      BY <2>1 DEF Doomed
    <2>2. CASE gone = {r} /\ r = Root /\ ~Blocked(w, Root)
      BY <2>2 DEF Blocked
    <2>3. CASE gone = {r} /\ r # Root /\ w[r].life = "deleting" /\ ~w[r].fin
      BY <2>3 DEF Doomed
    <2> QED
      BY <2>1, <2>2, <2>3
  <1>4. again \in {"none", "pending"} /\ (again # "none" => w[r].life = "deleting")
    OBVIOUS
  <1> HIDE DEF w, gone, again
  <1>5. \A x \in Resources : /\ rows'[x] = IF x \in D THEN Absent ELSE w[x]
                             /\ rec'[x] = IF x \in D THEN "none" ELSE rec[x]
                             /\ del'[x] = IF x \in D THEN "none" ELSE IF x = r THEN again ELSE del[x]
    BY <1>1, <1>t DEF Removed, Unqueued
  <1> HIDE DEF D
  <1>q. \A x \in Resources : /\ rec[x] # "none" => rows[x].life # "absent"
                             /\ del[x] # "none" => rows[x].life = "deleting"
                             /\ rows[x].frozen # "no" => rows[x].life = "live"
    BY DEF Inv, QueueInv
  <1>6. QueueInv'
    <2> SUFFICES ASSUME NEW x \in Resources
                 PROVE  /\ rec'[x] # "none" => rows'[x].life # "absent"
                        /\ del'[x] # "none" => rows'[x].life = "deleting"
                        /\ rows'[x].frozen # "no" => rows'[x].life = "live"
      BY DEF QueueInv
    <2>1. CASE x \in D
      BY <1>5, <2>1, AbsentRow
    <2>2. CASE x \notin D
      BY SMTT(30), <1>2, <1>4, <1>5, <1>q, <2>2
    <2> QED
      BY <2>1, <2>2
  <1>7. RacedInv'
    <2> SUFFICES ASSUME NEW c \in Kids \cap Finalized, Past(c)', Busy(c)' PROVE c \in raced
      BY <1>1 DEF RacedInv, Finalized
    <2>1. Busy(c)
      BY <1>1, <1>5, <1>t DEF Busy
    <2>2. Past(c)
      <3>1. CASE del'[c] = "done"
        BY <1>4, <1>5, <1>t, <3>1 DEF Past
      <3>2. CASE rows'[c].life = "absent" \/ (rows'[c].life = "deleting" /\ ~rows'[c].fin)
        <4>1. w[c].life = "absent" \/ (w[c].life = "deleting" /\ ~w[c].fin)
          BY <1>3, <1>5, <1>t, <3>2
        <4> QED
          BY <1>2, <1>t, <4>1 DEF Past
      <3> QED
        BY <3>1, <3>2 DEF Past
    <2> QED
      BY <2>1, <2>2 DEF Inv, RacedInv
  <1>8. OrphansWereDropped'
    BY <1>1, <1>2, <1>5, <1>t, AbsentRow DEF Inv, OrphansWereDropped
  <1>9. QuarantineStands
    BY <1>2, <1>5, <1>q, <1>t, AbsentRow DEF QuarantineStands, Gone
  <1> QED
    BY <1>6, <1>7, <1>8, <1>9 DEF Kept

(* sweep_expired_orphans: a child with a finalizer keeps it.               *)
LEMMA OrphanKeeps ==
  ASSUME Inv, NEW c \in Kids, SweepOrphan(c)
  PROVE  Kept
  <1> DEFINE gone == {c} \ Finalized
             w == Expired(c)
  <1>t. /\ rows \in [Resources -> Row] /\ Kids \subseteq Resources /\ Root \notin Kids /\ c \in Resources
        /\ rec \in [Resources -> RecStates] /\ del \in [Resources -> DelStates]
    BY ConstantsAssumption DEF Inv, TypeOK, Resources, RecStates, DelStates
  <1>1. /\ rows' = Removed(w, gone) /\ rec' = Unqueued(rec, gone)
        /\ del' = Dispatched(Unqueued(del, gone), {c} \ gone)
        /\ built' \subseteq built /\ UNCHANGED <<shape, running, produced, raced>>
        /\ rows[c].life = "live" /\ rows[c].frozen = "orphan"
    BY DEF SweepOrphan, Commit, Expired, BuiltAfter
  <1>2. /\ w[c].life = "deleting" /\ w[c].fin /\ w[c].frozen = "no"
        /\ \A x \in Resources : x # c => w[x] = rows[x]
    BY ExpiredRow DEF Inv
  <1>3. Doomed(gone) = gone /\ (c \in gone <=> c \notin Finalized) /\ gone \subseteq {c}
    BY <1>t DEF Doomed
  <1> HIDE DEF w, gone
  <1>4. \A x \in Resources : /\ rows'[x] = IF x \in gone THEN Absent ELSE w[x]
                             /\ rec'[x] = IF x \in gone THEN "none" ELSE rec[x]
                             /\ x # c => del'[x] = del[x]
    BY <1>1, <1>3, <1>t DEF Removed, Unqueued, Dispatched
  <1>q. \A x \in Resources : /\ rec[x] # "none" => rows[x].life # "absent"
                             /\ del[x] # "none" => rows[x].life = "deleting"
                             /\ rows[x].frozen # "no" => rows[x].life = "live"
    BY DEF Inv, QueueInv
  <1>5. del'[c] = IF c \in gone THEN "none" ELSE "pending"
    <2>1. del[c] = "none"
      BY <1>1, <1>q, <1>t
    <2> QED
      BY <1>1, <1>3, <1>t, <2>1 DEF Unqueued, Dispatched
  <1>6. \A x \in Resources : x # c => rows'[x] = rows[x] /\ rec'[x] = rec[x] /\ del'[x] = del[x]
    BY <1>2, <1>3, <1>4
  <1>7. QueueInv'
    <2>1. /\ rec'[c] # "none" => rows'[c].life # "absent"
          /\ del'[c] # "none" => rows'[c].life = "deleting"
          /\ rows'[c].frozen # "no" => rows'[c].life = "live"
      BY <1>2, <1>4, <1>5, <1>t, AbsentRow
    <2> QED
      BY <1>6, <1>q, <2>1 DEF QueueInv
  <1>8. RacedInv'
    <2> SUFFICES ASSUME NEW k \in Kids \cap Finalized, Past(k)', Busy(k)' PROVE k \in raced
      BY <1>1 DEF RacedInv, Finalized
    <2>1. k # c
      BY <1>2, <1>3, <1>4, <1>5, <1>t DEF Past
    <2>2. Past(k) /\ Busy(k)
      BY <1>1, <1>6, <1>t, <2>1 DEF Past, Busy
    <2> QED
      BY <2>2 DEF Inv, RacedInv
  <1>9. OrphansWereDropped'
    <2>1. rows'[c].frozen = "no"
      BY <1>2, <1>4, <1>t, AbsentRow
    <2> QED
      BY <1>1, <1>6, <1>t, <2>1 DEF Inv, OrphansWereDropped
  <1>10. QuarantineStands
    BY <1>1, <1>6, <1>t DEF QuarantineStands
  <1> QED
    BY <1>7, <1>8, <1>9, <1>10 DEF Kept

----------------------------------------------------------------------------
(* Scheduling and executing: no row comes or goes.                         *)
LEMMA WorkKeeps ==
  ASSUME Inv, UNCHANGED <<shape, produced>>,
         \A x \in Resources : /\ rows'[x].life = rows[x].life /\ (rows'[x].fin <=> rows[x].fin)
                              /\ rows'[x].frozen = rows[x].frozen
                              /\ rec'[x] # "none" => rec[x] # "none" \/ rows[x].life = "live"
                              /\ del'[x] # "none" => del[x] # "none",
         \A c \in Kids : Busy(c)' => Busy(c) \/ rows[c].life = "live",
         \A c \in Kids : del'[c] = "done" /\ del[c] # "done" /\ Busy(c)' => c \in raced',
         raced \subseteq raced'
  PROVE  Kept
  <1>t. Kids \subseteq Resources
    BY DEF Resources
  <1>q. \A x \in Resources : /\ rec[x] # "none" => rows[x].life # "absent"
                             /\ del[x] # "none" => rows[x].life = "deleting"
                             /\ rows[x].frozen # "no" => rows[x].life = "live"
    BY DEF Inv, QueueInv
  <1>1. QueueInv'
    BY <1>q DEF QueueInv
  <1>2. RacedInv'
    <2> SUFFICES ASSUME NEW c \in Kids \cap Finalized, Past(c)', Busy(c)' PROVE c \in raced'
      BY DEF RacedInv, Finalized
    <2>1. CASE del'[c] = "done" /\ del[c] # "done"
      BY <2>1
    <2>2. CASE ~(del'[c] = "done" /\ del[c] # "done")
      <3>1. Past(c)
        BY <1>t, <2>2 DEF Past
      <3>2. rows[c].life # "live"
        BY <1>q, <1>t, <3>1 DEF Past
      <3> QED
        BY <3>1, <3>2 DEF Inv, RacedInv
    <2> QED
      BY <2>1, <2>2
  <1>3. OrphansWereDropped' /\ QuarantineStands
    BY <1>t DEF Inv, OrphansWereDropped, QuarantineStands
  <1> QED
    BY <1>1, <1>2, <1>3 DEF Kept

\* Every step of the teardown keeps what it must.
LEMMA KeptStep == ASSUME Inv, [Next]_vars PROVE Kept
  <1> USE DEF observers
  <1>t. /\ rows \in [Resources -> Row] /\ Kids \subseteq Resources /\ Root \in Resources /\ Root \notin Kids
        /\ rec \in [Resources -> RecStates] /\ del \in [Resources -> DelStates]
        /\ \A c \in Kids : <<c, "rec">> # <<c, "del">>
    BY ConstantsAssumption DEF Inv, TypeOK, Resources, RecStates, DelStates
  <1>1. ASSUME NEW range \in SUBSET Resources, Sweep(range) PROVE Kept
    <2>1. MarksOf(rows, rows)
      BY DEF MarksOf
    <2> QED
      BY <1>t, <1>1, <2>1, SweepKeeps DEF Sweep
  <1>2. ASSUME NEW r \in Resources, RequestDeletion(r) PROVE Kept
    <2>1. /\ Marked(rows, Tree(rows, r)) \in [Resources -> Row]
          /\ MarksOf(rows, Marked(rows, Tree(rows, r)))
      BY <1>t, MarkedMarks
    <2> QED
      BY <1>2, <2>1, SweepKeeps DEF RequestDeletion
  <1>3. ASSUME NEW c \in Kids, Quarantine(c) \/ Unquarantine(c) PROVE Kept
    <2>1. PICK f \in {"no", "infinity"} :
            /\ rows' = [rows EXCEPT ![c] = [rows[c] EXCEPT !.frozen = f]]
            /\ f = "infinity" => rows[c].life = "live" /\ rows[c].frozen # "infinity"
            /\ f = "no" => Unquarantine(c)
      BY <1>3 DEF Quarantine, Unquarantine
    <2>2. /\ \A x \in Resources : rows'[x].life = rows[x].life /\ (rows'[x].fin <=> rows[x].fin)
          /\ \A x \in Resources : x # c => rows'[x] = rows[x]
          /\ rows'[c].frozen = f
      <3> DEFINE row == [rows[c] EXCEPT !.frozen = f]
      <3>1. row.life = rows[c].life /\ (row.fin <=> rows[c].fin) /\ row.frozen = f
        BY ZenonT(60), <1>t DEF Row
      <3> HIDE DEF row
      <3>2. rows' = [rows EXCEPT ![c] = row]
        BY <2>1 DEF row
      <3> QED
        BY <1>t, <3>1, <3>2
    <2>3. /\ UNCHANGED <<shape, del, running, built, produced, raced>>
          /\ \A x \in Resources : rec'[x] \in {rec[x], "none"}
      BY <1>t, <1>3 DEF Quarantine, Unquarantine
    <2>q. \A x \in Resources : /\ rec[x] # "none" => rows[x].life # "absent"
                               /\ del[x] # "none" => rows[x].life = "deleting"
                               /\ rows[x].frozen # "no" => rows[x].life = "live"
      BY DEF Inv, QueueInv
    <2>4. QueueInv'
      <3>1. f = "infinity" => rows'[c].life = "live"
        BY <1>t, <2>1, <2>2
      <3> QED
        BY SMTT(30), <1>t, <2>1, <2>2, <2>3, <2>q, <3>1 DEF QueueInv
    <2>5. RacedInv'
      BY <1>t, <2>2, <2>3 DEF Inv, RacedInv, Past, Busy, Finalized
    <2>6. OrphansWereDropped'
      BY <1>t, <2>1, <2>2, <2>3 DEF Inv, OrphansWereDropped
    <2>7. QuarantineStands
      BY <1>t, <2>1, <2>2 DEF QuarantineStands
    <2> QED
      BY <2>4, <2>5, <2>6, <2>7 DEF Kept
  <1>4. ASSUME NEW r \in Resources, Schedule(r) \/ ClaimReconcile(r) PROVE Kept
    <2>1. /\ UNCHANGED <<shape, produced, rows, del, raced, built>>
          /\ \A x \in Resources : rec'[x] # "none" => rec[x] # "none" \/ rows[x].life = "live"
          /\ \A c \in Kids : <<c, "rec">> \in running' => <<c, "rec">> \in running \/ rec[c] # "none"
      BY <1>t, <1>4 DEF Schedule, ClaimReconcile
    <2> QED
      BY <1>t, <2>1, WorkKeeps DEF Busy
  <1>5. ASSUME NEW r \in Resources,
               ClaimDelete(r) \/ TeardownFails(r) \/ DropUnclaimed(r) \/ \E t \in {"rec", "del"} : Reap(r, t)
        PROVE  Kept
    <2>1. UNCHANGED <<shape, produced, rows, raced, built>>
      BY <1>5 DEF ClaimDelete, TeardownFails, DropUnclaimed, Reap
    <2>2. \A x \in Resources : /\ rec'[x] # "none" => rec[x] # "none"
                               /\ del'[x] # "none" => del[x] # "none"
                               /\ del'[x] = "done" => del[x] = "done"
      BY <1>t, <1>5 DEF ClaimDelete, TeardownFails, DropUnclaimed, Reap
    <2>3. \A c \in Kids : <<c, "rec">> \in running' => <<c, "rec">> \in running
      BY SMTT(30), <1>t, <1>5 DEF ClaimDelete, TeardownFails, DropUnclaimed, Reap
    <2> QED
      BY <1>t, <2>1, <2>2, <2>3, WorkKeeps DEF Busy
  <1>6. ASSUME NEW c \in Kids, Reconcile(c) PROVE Kept
    <2> DEFINE synced == rows[c].synced \/ rec[c] = "claimed"
               row == [rows[c] EXCEPT !.synced = synced]
    <2>1. row.life = rows[c].life /\ (row.fin <=> rows[c].fin) /\ row.frozen = rows[c].frozen
      BY ZenonT(60), <1>t DEF Row
    <2>2. rows' = [rows EXCEPT ![c] = row]
      BY <1>6 DEF Reconcile
    <2> HIDE DEF row
    <2>3. \A x \in Resources : /\ rows'[x].life = rows[x].life /\ (rows'[x].fin <=> rows[x].fin)
                               /\ rows'[x].frozen = rows[x].frozen
      BY <1>t, <2>1, <2>2
    <2>4. /\ UNCHANGED <<shape, del, produced, raced>> /\ \A x \in Resources : rec'[x] \in {rec[x], "none"}
          /\ running' \subseteq running /\ built' = built \cup {c} /\ <<c, "rec">> \in running
      BY <1>t, <1>6 DEF Reconcile
    <2> QED
      BY <1>t, <2>3, <2>4, WorkKeeps DEF Busy
  <1>7. ASSUME NEW r \in Resources, Teardown(r) PROVE Kept
    <2>1. /\ UNCHANGED <<shape, rows, rec, produced>> /\ running' = running \ {<<r, "del">>}
          /\ built' = built \ {r} /\ raced \subseteq raced'
          /\ \A x \in Resources : /\ x # r => del'[x] = del[x]
                                  /\ del'[x] # "none" => del[x] # "none"
          /\ r \in Kids /\ (rec[r] # "none" \/ <<r, "rec">> \in running) => r \in raced'
      BY <1>t, <1>7 DEF Teardown
    <2>2. \A c \in Kids : del'[c] = "done" /\ del[c] # "done" /\ Busy(c)' => c \in raced'
      BY <1>t, <2>1 DEF Busy
    <2> QED
      BY <1>t, <2>1, <2>2, WorkKeeps DEF Busy
  <1>8. CASE UNCHANGED vars
    BY <1>t, <1>8, WorkKeeps DEF vars, Busy
  <1>9. {} \in SUBSET Resources /\ Resources \in SUBSET Resources /\ \A r \in Resources : {r} \in SUBSET Resources
    OBVIOUS
  <1> QED
    BY <1>t, <1>1, <1>2, <1>3, <1>4, <1>5, <1>6, <1>7, <1>8, <1>9, ComposeKeeps, DrainKeeps, OrphanKeeps,
       ConstantsAssumption DEF Next, System

\* The teardown starts in the invariant.
LEMMA InvInit == Init => Inv
  <1> SUFFICES ASSUME Init PROVE Inv
    OBVIOUS
  <1>1. Root \notin Kids /\ Kids \subseteq Resources /\ MaxFaults \in Nat
    BY ConstantsAssumption DEF Resources
  <1>2. rows \in [Resources -> Row] /\ \A x \in Resources : rows[x] = IF x = Root THEN Live ELSE Absent
    BY AbsentRow DEF Init
  <1>3. TypeOK
    BY SMTT(30), <1>1, <1>2 DEF Init, TypeOK, Deps
  <1>4. QueueInv
    BY <1>2, AbsentRow DEF Init, QueueInv
  <1>5. RacedInv /\ OrphansWereDropped
    BY <1>1, <1>2, AbsentRow DEF Init, RacedInv, Busy, OrphansWereDropped
  <1> QED
    BY <1>3, <1>4, <1>5 DEF Inv

\* The invariant holds in every behaviour of the teardown.
LEMMA Invariant == Spec => []Inv
  <1>1. Inv /\ [Next]_vars => Inv'
    BY TypeStep, KeptStep DEF Inv, Kept
  <1> QED
    BY <1>1, InvInit, PTL DEF Spec

----------------------------------------------------------------------------
(* The order of teardown.                                                  *)

\* The tree of a resource holds whatever is owned by or depends on one of its
\* members.
LEMMA TreeClosed ==
  ASSUME NEW w, NEW r \in Resources, NEW x \in Tree(w, r), NEW z \in Resources, OwnedOrDependent(w, x, z)
  PROVE  z \in Tree(w, r)
  BY DEF Tree

(* What nothing depends on is marked alone.                                *)
LEMMA TreeOfOne ==
  ASSUME NEW w, NEW r \in Resources, r # Root, \A z \in Resources : <<z, r>> \notin edges
  PROVE  Tree(w, r) \subseteq {r}
  <1>1. {r} \in SUBSET Resources
    OBVIOUS
  <1>2. \A y \in {r}, z \in Resources : ~OwnedOrDependent(w, y, z)
    BY DEF OwnedOrDependent
  <1> QED
    BY <1>1, <1>2 DEF Tree

(* A dependent that is being deleted goes before its dependency: what goes *)
(* in a pass of sweep_deletable goes with all such dependents.             *)
LEMMA DependentFirst ==
  ASSUME TypeOK, NEW w \in [Resources -> Row], NEW range \in SUBSET Resources,
         NEW u \in Collapsing(w, range), u \in Kids,
         NEW d \in Kids, <<d, u>> \in edges, w[d].life = "deleting"
  PROVE  d \in Collapsing(w, range)
  <1> DEFINE Gated(S, y) == /\ w[y].life = "deleting" /\ ~w[y].fin
                            /\ ~Blocked(Removed(w, S), y)
             Closed(S) == \A y \in range : Gated(S, y) => y \in S
  <1>0. /\ Root \in Resources /\ Root \notin Kids /\ Kids \subseteq Resources
        /\ \A e \in edges : e[1] \in Resources
        /\ <<d, u>>[1] = d /\ <<d, u>>[2] = u
    BY SMTT(30), ConstantsAssumption DEF Resources, TypeOK, Deps, Composite
  <1>u. w[u].life = "deleting" /\ "deleting" # "absent"
    BY Collapse
  <1> SUFFICES ASSUME d \notin Collapsing(w, range) PROVE FALSE
    OBVIOUS
  <1>1. PICK S \in SUBSET range : Closed(S) /\ d \notin S
    <2>1. CASE d \in range
      BY <2>1 DEF Collapsing
    <2>2. CASE d \notin range
      <3>1. Closed(range) /\ range \in SUBSET range
        OBVIOUS
      <3> QED
        BY <2>2, <3>1
    <2> QED
      BY <2>1, <2>2
  <1> DEFINE T == S \ {Root, u}
  <1>2. T \in SUBSET range /\ T \in SUBSET Resources /\ S \in SUBSET Resources /\ Root \notin T /\ d \notin T /\ u \notin T
    BY <1>1
  <1>3. \A y \in Resources : /\ Removed(w, T)[y] = IF y \in T THEN Absent ELSE w[y]
                             /\ Removed(w, S)[y].life = "deleting" => Removed(w, T)[y].life = "deleting"
    <2> TAKE y \in Resources
    <2>1. Removed(w, T)[y] = IF y \in T THEN Absent ELSE w[y]
      BY <1>2, DoomedIds DEF Removed
    <2>2. Removed(w, S)[y] = IF y \in Doomed(S) THEN Absent ELSE w[y]
      BY DEF Removed
    <2>3. T \subseteq Doomed(S) /\ Absent.life = "absent"
      BY <1>2, AbsentRow, DoomedIds
    <2> QED
      BY <2>1, <2>2, <2>3
  <1>4. Closed(T)
    <2> SUFFICES ASSUME NEW y \in range, Gated(T, y) PROVE y \in T
      OBVIOUS
    <2>1. y # Root
      BY <1>0, <1>2, <1>3, <1>u DEF Blocked
    <2>2. y # u
      BY <1>0, <1>2, <1>3 DEF Blocked
    <2>3. ~Blocked(Removed(w, S), y)
      BY <1>0, <1>3, <2>1 DEF Blocked
    <2> QED
      BY <1>1, <2>1, <2>2, <2>3
  <1>5. u \in T
    BY <1>2, <1>4 DEF Collapsing
  <1> QED
    BY <1>2, <1>5

(* What a step that composes nothing must do to keep the order.            *)
LEMMA OrderKept ==
  ASSUME Inv, OrderInv, UNCHANGED <<shape, produced, late>>,
         \A x \in Kids : /\ rows'[x].life = "live" => rows[x].life = "live"
                         /\ Present(x)' => Present(x)
                         /\ <<x, "del">> \in running' => <<x, "del">> \in running \/ del[x] # "none",
         \A d, u \in Kids : <<d, u>> \in Deps =>
            /\ Present(d)' /\ Present(u)' /\ <<d, u>> \in edges => <<d, u>> \in edges'
            /\ d \notin late =>
                  /\ rows'[u].life = "deleting" => rows'[d].life # "live"
                  /\ Present(u) /\ ~Present(u)' => ~Present(d)'
                  /\ del'[u] # "none" => del[u] # "none" \/ ~Present(d)'
  PROVE  OrderInv'
  <1>1. \A x \in Kids : <<x, "del">> \in running' => rows'[x].life # "live"
    BY DEF Inv, QueueInv, OrderInv, Resources
  <1>2. ASSUME NEW d \in Kids, NEW u \in Kids, <<d, u>> \in Deps
        PROVE  /\ Present(d)' => d \in produced
               /\ Present(u)' => u \in produced
               /\ Present(d)' /\ Present(u)' => <<d, u>> \in edges'
               /\ d \notin late =>
                     /\ rows'[u].life = "deleting" => rows'[d].life # "live"
                     /\ ~Present(u)' \/ del'[u] # "none" \/ <<u, "del">> \in running' => ~Present(d)'
    BY <1>2 DEF OrderInv
  <1> HIDE DEF Present
  <1> QED
    BY <1>1, <1>2 DEF OrderInv, Deps

(* w marks no dependency without its dependents.                           *)
MarksDown(w) ==
    \A d, u \in Kids : <<d, u>> \in Deps /\ d \notin late /\ w[u].life = "deleting" => w[d].life # "live"

\* A sweep after a marking that goes down the edges keeps the order of the teardown.
LEMMA SweepOrder ==
  ASSUME Inv, OrderInv, NEW w \in [Resources -> Row], MarksOf(rows, w), MarksDown(w),
         NEW range \in SUBSET Resources,
         SweepAfter(w, range), UNCHANGED <<shape, running, faults, uses, produced, raced, late>>
  PROVE  OrderInv'
  <1> DEFINE gone == Collapsing(w, range)
             D == Doomed(gone)
             left == Removed(w, gone)
             ready == Dispatchable(left, range)
  <1>t. /\ rows \in [Resources -> Row] /\ Kids \subseteq Resources /\ Root \notin Kids
        /\ rec \in [Resources -> RecStates] /\ del \in [Resources -> DelStates]
    BY ConstantsAssumption DEF Inv, TypeOK, Resources, RecStates, DelStates
  <1>1. \A x \in Resources : left[x] = IF x \in D THEN Absent ELSE w[x]
    BY RemovedRow
  <1>2. /\ rows' = left /\ edges' = Without(edges, gone) /\ del' = Dispatched(Unqueued(del, gone), ready)
    BY DEF SweepAfter, Commit
  <1>3. \A d, u \in Kids : u \in D /\ <<d, u>> \in edges /\ w[d].life = "deleting" => d \in D
    <2> SUFFICES ASSUME NEW d \in Kids, NEW u \in Kids, u \in D, <<d, u>> \in edges, w[d].life = "deleting"
                 PROVE  d \in D
      OBVIOUS
    <2>1. CASE Root \in gone
      BY <2>1, <1>t DEF Doomed
    <2>2. CASE Root \notin gone
      BY <2>2, DependentFirst DEF Doomed, Inv
    <2> QED
      BY <2>1, <2>2
  <1>4. \A d, u \in Kids : <<d, u>> \in edges /\ u \in ready => left[d].life # "deleting"
    <2>1. \A d, u \in Kids : <<d, u>>[1] = d /\ <<d, u>>[2] = u
      BY SMT
    <2> HIDE DEF left
    <2> QED
      BY <2>1 DEF Dispatchable, Blocked
  <1>5. \A x \in Resources : del'[x] # "none" => x \in ready \/ del[x] # "none"
    BY <1>2, <1>t DEF Unqueued, Dispatched
  <1>6. \A x \in ready : left[x].life = "deleting"
    BY DEF Dispatchable
  <1>7. \A d, u \in Kids : <<d, u>> \in edges /\ d \notin D /\ u \notin D => <<d, u>> \in edges'
    <2>1. \A d, u \in Kids : <<d, u>>[1] = d /\ <<d, u>>[2] = u
      BY SMT
    <2> HIDE DEF gone
    <2> QED
      BY <1>2, <2>1 DEF Without
  <1> HIDE DEF gone, D, left, ready
  <1>8. \A x \in Resources : /\ rows'[x] = IF x \in D THEN Absent ELSE w[x]
                             /\ x \in D => rows'[x].life = "absent"
                             /\ x \notin D => rows'[x].life = w[x].life
    BY <1>1, <1>2, AbsentRow
  <1>9. \A x \in Kids : /\ rows'[x].life = "live" => rows[x].life = "live"
                        /\ Present(x)' => Present(x)
                        /\ x \notin D /\ Present(x) => Present(x)'
    BY ZenonT(60), <1>8, <1>t, RowFields DEF MarksOf, Present
  <1>10. ASSUME NEW d \in Kids, NEW u \in Kids, <<d, u>> \in Deps
         PROVE  /\ Present(d)' /\ Present(u)' /\ <<d, u>> \in edges => <<d, u>> \in edges'
                /\ d \notin late =>
                     /\ rows'[u].life = "deleting" => rows'[d].life # "live"
                     /\ Present(u) /\ ~Present(u)' => ~Present(d)'
                     /\ del'[u] # "none" => del[u] # "none" \/ ~Present(d)'
    <2>1. Present(d)' /\ Present(u)' /\ <<d, u>> \in edges => <<d, u>> \in edges'
      BY <1>7, <1>8, <1>t DEF Present
    <2>2. ASSUME d \notin late, rows'[u].life = "deleting" PROVE rows'[d].life # "live"
      BY <1>8, <1>10, <1>t, <2>2 DEF MarksDown
    <2>3. Present(d)' /\ Present(u) => <<d, u>> \in edges
      BY <1>9, <1>10 DEF OrderInv
    <2>4. w[d].life \in {"absent", "live", "deleting"}
      BY <1>t, RowFields
    <2>5. ASSUME d \notin late, Present(u), ~Present(u)', Present(d)' PROVE FALSE
      <3>1. u \in D /\ d \notin D /\ w[d].life # "absent"
        BY <1>8, <1>9, <1>t, <2>5 DEF Present
      <3>3. Root \notin gone
        BY <3>1, <1>t DEF D, Doomed
      <3>4. w[u].life = "deleting"
        BY <3>1, <3>3, Collapse DEF D, gone, Doomed
      <3>5. w[d].life = "deleting"
        BY <1>10, <2>4, <2>5, <3>1, <3>4 DEF MarksDown
      <3> QED
        BY <1>3, <2>3, <2>5, <3>1, <3>5
    <2>6. ASSUME d \notin late, del'[u] # "none", del[u] = "none", Present(d)' PROVE FALSE
      <3>1. u \in ready /\ rows'[u].life = "deleting"
        BY <1>2, <1>5, <1>6, <1>t, <2>6
      <3>2. rows'[d].life # "live" /\ rows'[d].life # "absent"
        BY <2>2, <2>6, <3>1 DEF Present
      <3>3. Present(u)
        BY <1>9, <3>1 DEF Present
      <3>4. rows'[d].life = "deleting"
        BY <1>8, <1>t, <2>4, <3>2
      <3> QED
        BY <1>2, <1>4, <2>3, <2>6, <3>1, <3>3, <3>4
    <2> QED
      BY <2>1, <2>2, <2>5, <2>6
  <1>11. \A x \in Kids : <<x, "del">> \in running' => <<x, "del">> \in running \/ del[x] # "none"
    OBVIOUS
  <1> QED
    BY <1>9, <1>10, <1>11, OrderKept

(* cascade_mark_for_deletion marks what depends on what it marks.          *)
LEMMA RequestMarksDown ==
  ASSUME Inv, OrderInv, NEW r \in Resources
  PROVE  MarksDown(Marked(rows, Tree(rows, r)))
  <1> DEFINE ids == Tree(rows, r)
             w == Marked(rows, ids)
  <1>t. rows \in [Resources -> Row] /\ Kids \subseteq Resources /\ w \in [Resources -> Row]
    BY MarkedMarks DEF Inv, TypeOK, Resources
  <1>1. \A x \in Resources :
          IF x \in ids /\ rows[x].life = "live" THEN w[x].life = "deleting" ELSE w[x] = rows[x]
    <2> TAKE x \in Resources
    <2> HIDE DEF ids
    <2>1. IF x \in ids /\ rows[x].life = "live"
          THEN /\ Marked(rows, ids)[x].life = "deleting" /\ Marked(rows, ids)[x].frozen = "no"
               /\ Marked(rows, ids)[x].fin <=> x \in Finalized
          ELSE Marked(rows, ids)[x] = rows[x]
      BY <1>t, MarkedRow
    <2> QED
      BY <2>1
  <1>2. \A d, u \in Kids : <<d, u>> \in edges /\ u \in ids => d \in ids
    BY <1>t, TreeClosed DEF OwnedOrDependent
  <1> HIDE DEF ids, w
  <1>3. ASSUME NEW d \in Kids, NEW u \in Kids, <<d, u>> \in Deps, d \notin late,
               w[u].life = "deleting", w[d].life = "live"
        PROVE  FALSE
    <2>1. rows[d].life = "live" /\ d \notin ids
      BY <1>1, <1>3, <1>t
    <2>2. rows[u].life # "deleting"
      BY <1>3, <2>1 DEF OrderInv
    <2>3. u \in ids /\ rows[u].life = "live"
      BY <1>1, <1>3, <1>t, <2>2
    <2>4. <<d, u>> \in edges
      BY <1>3, <2>1, <2>3 DEF OrderInv, Present
    <2> QED
      BY <1>2, <2>1, <2>3, <2>4
  <1> QED
    BY <1>3 DEF MarksDown, w, ids

(* drain_outbox_batch: the gate of the hard delete.                        *)
LEMMA DrainOrder ==
  ASSUME Inv, OrderInv, NEW r \in Resources, DrainDelete(r)
  PROVE  OrderInv'
  <1> DEFINE w == Stripped(rows, r)
             gone == IF w[r].life = "deleting" /\ ~w[r].fin /\ ~Blocked(w, r) THEN {r} ELSE {}
             again == IF del[r] = "failed" /\ w[r].life = "deleting" /\ w[r].fin THEN "pending" ELSE "none"
             D == Doomed(gone)
  <1>t. /\ rows \in [Resources -> Row] /\ Kids \subseteq Resources /\ Root \notin Kids
        /\ rec \in [Resources -> RecStates] /\ del \in [Resources -> DelStates]
        /\ \A d, u \in Kids : <<d, u>>[1] = d /\ <<d, u>>[2] = u
    BY SMTT(30), ConstantsAssumption DEF Inv, TypeOK, Resources, RecStates, DelStates
  <1>1. /\ rows' = Removed(w, gone) /\ edges' = Without(edges, gone)
        /\ del' = Unqueued([del EXCEPT ![r] = again], gone) /\ del[r] # "none"
        /\ UNCHANGED <<shape, running, produced, late>>
    BY DEF DrainDelete
  <1>2. /\ w \in [Resources -> Row]
        /\ \A x \in Resources : w[x].life = rows[x].life
    BY StrippedRow DEF Inv
  <1>3. \A d, u \in Kids : u \in D /\ <<d, u>> \in edges /\ rows[d].life = "deleting" => d \in D
    <2> HIDE DEF w
    <2>1. CASE gone = {}
      BY <2>1 DEF Doomed
    <2>2. CASE gone = {r} /\ r = Root
      BY <1>t, <2>2 DEF Doomed
    <2>3. CASE gone = {r} /\ r # Root /\ ~Blocked(w, r)
      <3>1. D = {r}
        BY <2>3 DEF Doomed
      <3>2. \A e \in edges : e[2] = r => w[e[1]].life # "deleting"
        BY <2>3 DEF Blocked
      <3> HIDE DEF D, gone
      <3>3. \A d \in Kids : <<d, r>> \in edges => w[d].life # "deleting"
        <4> TAKE d \in Kids
        <4>1. <<d, r>>[1] = d /\ <<d, r>>[2] = r
          BY SMT
        <4> QED
          BY <3>2, <4>1
      <3> QED
        BY <1>2, <1>t, <3>1, <3>3
    <2> QED
      BY <2>1, <2>2, <2>3
  <1>4. \A x \in Kids : x \in D => rows[x].life = "deleting" \/ Root \in gone
    <2> HIDE DEF w
    <2> QED
      BY <1>2, <1>t DEF Doomed
  <1> HIDE DEF w, gone, again
  <1>5. \A x \in Resources : /\ rows'[x] = IF x \in D THEN Absent ELSE w[x]
                             /\ x \in D => rows'[x].life = "absent"
                             /\ x \notin D => rows'[x].life = rows[x].life
                             /\ del'[x] # "none" => del[x] # "none"
    BY <1>1, <1>2, <1>t, AbsentRow DEF Removed, Unqueued
  <1>6. \A d, u \in Kids : <<d, u>> \in edges /\ d \notin D /\ u \notin D => <<d, u>> \in edges'
    BY <1>1, <1>t DEF Without
  <1>7. Root \in gone => Kids \subseteq D
    BY <1>t DEF Doomed
  <1> HIDE DEF D
  <1>8. \A x \in Kids : /\ rows'[x].life = "live" => rows[x].life = "live"
                        /\ Present(x)' => Present(x) /\ x \notin D
                        /\ <<x, "del">> \in running' => <<x, "del">> \in running
                        /\ x \notin D /\ Present(x) => Present(x)'
    BY <1>1, <1>5, <1>t DEF Present
  <1>9. ASSUME NEW d \in Kids, NEW u \in Kids, <<d, u>> \in Deps
        PROVE  /\ Present(d)' /\ Present(u)' /\ <<d, u>> \in edges => <<d, u>> \in edges'
               /\ d \notin late =>
                    /\ rows'[u].life = "deleting" => rows'[d].life # "live"
                    /\ Present(u) /\ ~Present(u)' => ~Present(d)'
                    /\ del'[u] # "none" => del[u] # "none" \/ ~Present(d)'
    <2>1. ASSUME d \notin late, Present(u), ~Present(u)', Present(d)' PROVE FALSE
      <3>1. u \in D /\ d \notin D /\ Present(d)
        BY <1>8, <2>1
      <3>2. rows[u].life = "deleting" /\ <<d, u>> \in edges
        BY <1>4, <1>7, <1>9, <2>1, <3>1 DEF OrderInv
      <3>3. rows[d].life = "deleting"
        BY ZenonT(60), <1>9, <1>t, <2>1, <3>1, <3>2, RowFields DEF OrderInv, Present
      <3> QED
        BY <1>3, <3>1, <3>2, <3>3
    <2>2. ASSUME d \notin late, rows'[u].life = "deleting" PROVE rows'[d].life # "live"
      <3>1. rows[u].life = "deleting"
        BY <1>5, <1>t, <2>2
      <3> QED
        BY <1>8, <1>9, <2>2, <3>1 DEF OrderInv
    <2> QED
      BY <1>5, <1>6, <1>8, <1>t, <2>1, <2>2
  <1> QED
    BY <1>1, <1>8, <1>9, OrderKept

(* sweep_expired_orphans: an orphan is no end of a dependency.             *)
LEMMA OrphanOrder ==
  ASSUME Inv, OrderInv, NEW c \in Kids, SweepOrphan(c)
  PROVE  OrderInv'
  <1> DEFINE gone == {c} \ Finalized
             w == Expired(c)
  <1>t. /\ rows \in [Resources -> Row] /\ Kids \subseteq Resources /\ Root \notin Kids /\ c \in Resources
        /\ rec \in [Resources -> RecStates] /\ del \in [Resources -> DelStates]
        /\ \A d, u \in Kids : <<d, u>>[1] = d /\ <<d, u>>[2] = u
    BY SMTT(30), ConstantsAssumption DEF Inv, TypeOK, Resources, RecStates, DelStates
  <1>1. /\ rows' = Removed(w, gone) /\ edges' = Without(edges, gone)
        /\ del' = Dispatched(Unqueued(del, gone), {c} \ gone)
        /\ UNCHANGED <<shape, running, produced, late>>
        /\ rows[c].life = "live" /\ rows[c].frozen = "orphan"
    BY DEF SweepOrphan, Commit, Expired
  <1>2. /\ w[c].life = "deleting"
        /\ \A x \in Resources : x # c => w[x] = rows[x]
    BY ExpiredRow DEF Inv
  <1>3. Doomed(gone) = gone /\ gone \subseteq {c}
    BY <1>t DEF Doomed
  <1> HIDE DEF w, gone
  <1>4. /\ rows'[c].life # "live"
        /\ \A x \in Resources : x # c => rows'[x] = rows[x] /\ del'[x] = del[x]
    <2>1. \A x \in Resources : rows'[x] = IF x \in gone THEN Absent ELSE w[x]
      BY <1>1, <1>3 DEF Removed
    <2>2. \A x \in Resources : x # c => del'[x] = del[x]
      BY <1>1, <1>3 DEF Unqueued, Dispatched
    <2> QED
      BY ZenonT(60), <1>2, <1>3, <1>t, <2>1, <2>2, AbsentRow
  <1>5. \A d, u \in Kids : <<d, u>> \in edges /\ d # c /\ u # c => <<d, u>> \in edges'
    BY <1>1, <1>3, <1>t DEF Without
  <1>6. \A d, u \in Kids : <<d, u>> \in Deps => d # c /\ u # c
    BY <1>1 DEF Inv, OrphansWereDropped, OrderInv, Present
  <1>7. \A x \in Kids : /\ rows'[x].life = "live" => rows[x].life = "live"
                        /\ Present(x)' => Present(x)
                        /\ <<x, "del">> \in running' => <<x, "del">> \in running
    BY <1>1, <1>4, <1>t DEF Present
  <1>8. ASSUME NEW d \in Kids, NEW u \in Kids, <<d, u>> \in Deps
        PROVE  /\ Present(d)' /\ Present(u)' /\ <<d, u>> \in edges => <<d, u>> \in edges'
               /\ d \notin late =>
                    /\ rows'[u].life = "deleting" => rows'[d].life # "live"
                    /\ Present(u) /\ ~Present(u)' => ~Present(d)'
                    /\ del'[u] # "none" => del[u] # "none" \/ ~Present(d)'
    <2>1. rows'[d] = rows[d] /\ rows'[u] = rows[u] /\ del'[u] = del[u]
      BY <1>4, <1>6, <1>8, <1>t
    <2>2. <<d, u>> \in edges => <<d, u>> \in edges'
      BY <1>5, <1>6, <1>8
    <2>3. d \notin late /\ rows[u].life = "deleting" => rows[d].life # "live"
      BY <1>8 DEF OrderInv
    <2> QED
      BY <2>1, <2>2, <2>3 DEF Present
  <1> QED
    BY <1>1, <1>7, <1>8, OrderKept

(* The prune of a compose: what it soft-deletes, what it removes, the      *)
(* table it marks and the rows that its sweep takes.                       *)
SoftDropped(P) == (Dropped(P) \ Graced) \cap Finalized
HardDropped(P) == (Dropped(P) \ Graced) \ Finalized
PruneMarked(P) == Marked(Upserted(P), UNION {Tree(Upserted(P), c) : c \in SoftDropped(P)})
PruneGone(P)   == IF SoftDropped(P) = {} THEN {} ELSE Collapsing(PruneMarked(P), Resources)
PruneLeft(P)   == Removed(PruneMarked(P), PruneGone(P))
PruneReady(P)  == IF SoftDropped(P) = {} THEN {} ELSE Dispatchable(PruneLeft(P), Resources)

\* The tables after a composition: what is upserted, marked, dropped and gone.
LEMMA ComposeTables ==
  ASSUME Inv, NEW P \in shape.outputs, Compose(P)
  PROVE  /\ PruneMarked(P) \in [Resources -> Row] /\ MarksOf(Upserted(P), PruneMarked(P))
         /\ HardDropped(P) \subseteq Kids \ P /\ PruneGone(P) \subseteq Resources
         /\ \A x \in Resources :
              /\ PruneLeft(P)[x] = IF x \in Doomed(PruneGone(P)) THEN Absent ELSE PruneMarked(P)[x]
              /\ x \in Doomed(PruneGone(P)) \cup HardDropped(P) => rows'[x].life = "absent"
              /\ x \notin Doomed(PruneGone(P)) \cup HardDropped(P) => rows'[x].life = PruneMarked(P)[x].life
              /\ del'[x] # "none" => x \in PruneReady(P) \/ (x \notin Doomed(PruneGone(P)) /\ del[x] # "none")
  <1> DEFINE hard  == HardDropped(P)
             w     == PruneMarked(P)
             gone  == PruneGone(P)
             D     == Doomed(gone)
             swept == PruneLeft(P)
             grace == Dropped(P) \cap Graced
             held  == Orphaned(swept, grace)
             kept  == Removed(held, hard)
             ready == PruneReady(P)
  <1>t. /\ rows \in [Resources -> Row] /\ Kids \subseteq Resources /\ Root \in Resources /\ Root \notin Kids
        /\ del \in [Resources -> DelStates]
    BY ConstantsAssumption DEF Inv, TypeOK, Resources, DelStates
  <1>1. /\ rows' = Readopted(kept, P)
        /\ del' = Dispatched(Unqueued(del, gone \cup hard), ready)
    BY DEF Compose, SoftDropped, HardDropped, PruneMarked, PruneGone, PruneLeft, PruneReady
  <1>2. hard \subseteq Kids \ P /\ Root \notin hard
    BY <1>t DEF Dropped, HardDropped
  <1>3. w \in [Resources -> Row] /\ MarksOf(Upserted(P), w)
    BY MarkedMarks, UpsertedRow DEF Inv, PruneMarked
  <1>4. gone \subseteq Resources
    BY CollapsingIn DEF PruneGone
  <1>5. Doomed(gone \cup hard) = D \cup hard /\ Doomed(hard) = hard
    BY <1>2, <1>t DEF Doomed, Resources
  <1>6. swept \in [Resources -> Row] /\ \A x \in Resources : swept[x] = IF x \in D THEN Absent ELSE w[x]
    <2> HIDE DEF w, gone
    <2>1. swept = Removed(w, gone)
      BY DEF PruneLeft, w, gone
    <2> HIDE DEF swept
    <2> QED
      BY <1>3, <1>t, <2>1, RemovedRow
  <1> HIDE DEF hard, w, gone, swept, grace, ready
  <1>7. held \in [Resources -> Row] /\ \A x \in Resources : held[x].life = swept[x].life
    BY SMTT(30), <1>6, OrphanedRow
  <1> HIDE DEF held
  <1>8. kept \in [Resources -> Row] /\ \A x \in Resources : kept[x] = IF x \in hard THEN Absent ELSE held[x]
    <2>1. \A x \in Resources : /\ Removed(held, hard) \in [Resources -> Row]
                               /\ Removed(held, hard)[x] = IF x \in Doomed(hard) THEN Absent ELSE held[x]
      BY <1>7, RemovedRow
    <2> QED
      BY <1>5, <1>t, <2>1
  <1> HIDE DEF kept
  <1>9. \A x \in Resources : rows'[x].life = kept[x].life
    BY SMTT(30), <1>1, <1>8, ReadoptedRow
  <1>10. \A x \in Resources : del'[x] # "none" => x \in ready \/ (x \notin D /\ del[x] # "none")
    <2> DEFINE q == Unqueued(del, gone \cup hard)
    <2>1. \A x \in Resources : q[x] = IF x \in D \cup hard THEN "none" ELSE del[x]
      BY <1>5 DEF Unqueued
    <2> HIDE DEF q, D
    <2>2. del' = [x \in Resources |-> IF x \in ready /\ q[x] = "none" THEN "pending" ELSE q[x]]
      BY <1>1 DEF Dispatched, q
    <2> QED
      BY <2>1, <2>2
  <1> HIDE DEF D
  <1>11. \A x \in Resources : /\ x \in D \cup hard => rows'[x].life = "absent"
                              /\ x \notin D \cup hard => rows'[x].life = w[x].life
    <2> TAKE x \in Resources
    <2>1. Absent.life = "absent"
      BY AbsentRow
    <2> QED
      BY <1>6, <1>7, <1>8, <1>9, <2>1
  <1> QED
    BY <1>2, <1>3, <1>4, <1>6, <1>10, <1>11 DEF hard, w, gone, swept, ready, D

(* ApplyComposeResult prunes no end of a dependency.                       *)
LEMMA EndsUnmarked ==
  ASSUME Inv, DependenciesEmitted, NEW P \in shape.outputs,
         NEW d \in Kids, NEW u \in Kids, <<d, u>> \in Deps, NEW x \in {d, u}
  PROVE  x \in P /\ PruneMarked(P)[x] = Upserted(P)[x]
  <1>t. /\ Kids \subseteq Resources /\ Root \notin Kids /\ edges \subseteq Deps
        /\ shape \in Composites /\ Upserted(P) \in [Resources -> Row]
        /\ \A y, z \in Resources : <<y, z>>[1] = y /\ <<y, z>>[2] = z
    BY SMTT(30), ConstantsAssumption, UpsertedRow DEF Inv, TypeOK, Resources
  <1>1. \A y, z \in Resources : <<y, z>> \in Deps => y \in P /\ z \in P
    <2>1. \A e \in Deps : e[1] \in P /\ e[2] \in P
      BY <1>t DEF DependenciesEmitted, Deps
    <2> QED
      BY <1>t, <2>1
  <1>2. \A c \in SoftDropped(P) : c \in Kids /\ c \notin P
    BY DEF SoftDropped, Dropped
  <1>3. \A c \in SoftDropped(P) : Tree(Upserted(P), c) \subseteq {c}
    <2> TAKE c \in SoftDropped(P)
    <2>1. \A z \in Resources : <<z, c>> \notin edges
      BY <1>1, <1>2, <1>t
    <2>2. c \in Resources /\ c # Root
      BY <1>2, <1>t, Zenon
    <2> QED
      BY <2>1, <2>2, TreeOfOne, Zenon
  <1>4. x \in P /\ x \in Resources
    <2>1. d \in Resources /\ u \in Resources
      BY <1>t, Zenon
    <2>2. d \in P /\ u \in P
      BY <1>1, <2>1, Zenon
    <2> QED
      BY <2>1, <2>2, Zenon
  <1>5. x \notin UNION {Tree(Upserted(P), c) : c \in SoftDropped(P)}
    BY <1>2, <1>3, <1>4
  <1>6. Marked(Upserted(P), UNION {Tree(Upserted(P), c) : c \in SoftDropped(P)})[x] = Upserted(P)[x]
    BY <1>4, <1>5 DEF Marked
  <1> QED
    BY <1>4, <1>6 DEF PruneMarked

\* A composition that emits what its kids depend on keeps the order of the teardown.
LEMMA ComposeOrder ==
  ASSUME Inv, DependenciesEmitted, OrderInv, NEW P \in shape.outputs, Compose(P)
  PROVE  OrderInv'
  <1> DEFINE up == Upserted(P)
             w == PruneMarked(P)
             gone == PruneGone(P)
             D == Doomed(gone)
             fresh == {c \in P : rows[c].life = "absent"}
  <1>t. /\ rows \in [Resources -> Row] /\ Kids \subseteq Resources /\ Root \notin Kids
        /\ P \subseteq Kids /\ shape \in Composites
        /\ \A d, u \in Kids : <<d, u>>[1] = d /\ <<d, u>>[2] = u
    BY SMTT(30), ConstantsAssumption, OutputKids DEF Inv, TypeOK, Resources
  <1>1. /\ edges' = {e \in Deps : e[1] \in P /\ e[2] \in P}
        /\ running' = {t \in running : t[1] \notin fresh}
        /\ produced' = P
        /\ late' = (late \ fresh) \cup
                   {c \in fresh : \/ rows[Root].life = "deleting"
                                  \/ \E e \in Deps : /\ e[1] = c
                                                     /\ rows[e[2]].life = "deleting"}
        /\ shape' = shape
    BY DEF Compose
  <1>2. \A x \in Resources : /\ x \in fresh => up[x].life = "live" /\ ~Present(x)
                             /\ x \notin fresh => up[x] = rows[x]
    BY <1>t, AbsentRow DEF Upserted, Present
  <1>3. /\ w \in [Resources -> Row] /\ MarksOf(up, w)
        /\ HardDropped(P) \subseteq Kids \ P
        /\ \A x \in Resources :
             /\ PruneLeft(P)[x] = IF x \in D THEN Absent ELSE w[x]
             /\ x \in D \cup HardDropped(P) => rows'[x].life = "absent"
             /\ x \notin D \cup HardDropped(P) => rows'[x].life = w[x].life
             /\ del'[x] # "none" => x \in PruneReady(P) \/ (x \notin D /\ del[x] # "none")
    BY ComposeTables
  <1>4. \A x \in Kids : <<x, "del">> \in running' => rows'[x].life # "live"
    <2> SUFFICES ASSUME NEW x \in Kids, <<x, "del">> \in running' PROVE rows'[x].life # "live"
      OBVIOUS
    <2>1. <<x, "del">> \in running /\ x \notin fresh
      <3>1. <<x, "del">>[1] = x
        BY SMT
      <3> QED
        BY <1>1, <3>1
    <2>2. up[x].life # "live"
      BY <1>2, <1>t, <2>1 DEF OrderInv
    <2> HIDE DEF up, w, D
    <2>3. w[x].life # "live"
      BY <1>3, <1>t, <2>2 DEF MarksOf
    <2> QED
      BY <1>3, <1>t, <2>3
  <1>5. ASSUME NEW d \in Kids, NEW u \in Kids, <<d, u>> \in Deps
        PROVE  /\ d \in P /\ u \in P /\ <<d, u>> \in edges'
               /\ d \notin late' =>
                     /\ rows'[u].life = "deleting" => rows'[d].life # "live"
                     /\ ~Present(u)' \/ del'[u] # "none" \/ <<u, "del">> \in running' => ~Present(d)'
    <2>1. d \in P /\ u \in P /\ w[d] = up[d] /\ w[u] = up[u]
      BY <1>5, EndsUnmarked
    <2>2. <<d, u>> \in edges'
      BY <1>1, <1>5, <1>t, <2>1
    <2>3. d \in fresh /\ d \notin late' => rows[u].life # "deleting"
      <3>1. d \in fresh /\ d \notin late' => \A e \in Deps : e[1] = d => rows[e[2]].life # "deleting"
        BY <1>1
      <3>2. <<d, u>>[1] = d /\ <<d, u>>[2] = u
        BY <1>t
      <3> HIDE DEF fresh
      <3> QED
        BY <1>5, <3>1, <3>2
    <2>4. d \notin fresh /\ d \notin late' => d \notin late
      BY <1>1
    <2>5. u \in D /\ <<d, u>> \in edges /\ w[d].life = "deleting" => d \in D
      <3>1. CASE Root \in gone
        BY <3>1, <1>t DEF Doomed
      <3>2. CASE Root \notin gone /\ SoftDropped(P) = {}
        BY <3>2 DEF Doomed, PruneGone
      <3>3. CASE Root \notin gone /\ SoftDropped(P) # {}
        <4>1. D = Collapsing(w, Resources)
          BY <3>3 DEF Doomed, PruneGone
        <4> HIDE DEF D, w
        <4> QED
          BY <1>3, <4>1, DependentFirst DEF Inv
      <3> QED
        BY <3>1, <3>2, <3>3
    <2>6. u \in D /\ d \notin D => w[u].life = "deleting"
      <3>1. u \in D /\ d \notin D => Root \notin gone
        BY <1>t DEF Doomed
      <3>2. u \in gone => w[u].life = "deleting"
        BY Collapse DEF PruneGone
      <3> QED
        BY <3>1, <3>2 DEF Doomed
    <2>7. u \in PruneReady(P) =>
            PruneLeft(P)[u].life = "deleting" /\ (<<d, u>> \in edges => PruneLeft(P)[d].life # "deleting")
      <3>1. \A l : u \in Dispatchable(l, Resources) =>
                 l[u].life = "deleting" /\ (<<d, u>> \in edges => l[d].life # "deleting")
        BY <1>t DEF Dispatchable, Blocked
      <3> QED
        BY <3>1 DEF PruneReady
    <2> HIDE DEF up, w, gone, D
    <2>8. /\ up[d].life = IF d \in fresh THEN "live" ELSE rows[d].life
          /\ up[u].life = IF u \in fresh THEN "live" ELSE rows[u].life
          /\ d \in fresh <=> ~Present(d)
          /\ u \in fresh <=> ~Present(u)
      BY <1>2, <1>t, <2>1 DEF Present
    <2> HIDE DEF fresh
    <2>9. /\ rows'[d].life = IF d \in D THEN "absent" ELSE up[d].life
          /\ rows'[u].life = IF u \in D THEN "absent" ELSE up[u].life
      BY <1>3, <1>t, <2>1
    <2>i. /\ Present(d) /\ Present(u) => <<d, u>> \in edges
          /\ d \notin late =>
                /\ rows[u].life = "deleting" => rows[d].life # "live"
                /\ ~Present(u) \/ del[u] # "none" \/ <<u, "del">> \in running => ~Present(d)
          /\ del[u] # "none" => rows[u].life = "deleting"
          /\ <<u, "del">> \in running => rows[u].life # "live"
          /\ rows[d].life \in {"absent", "live", "deleting"}
      BY <1>5, <1>t, RowFields DEF OrderInv, Inv, QueueInv
    <2>a. Absent.life = "absent"
      BY AbsentRow
    <2>10. ASSUME d \notin late', rows'[u].life = "deleting", rows'[d].life = "live" PROVE FALSE
      BY <2>3, <2>4, <2>8, <2>9, <2>10, <2>i
    <2>11. ASSUME d \notin late', Present(d)', ~Present(u)' PROVE FALSE
      <3>1. u \in D /\ d \notin D
        BY <2>8, <2>9, <2>11 DEF Present
      <3>2. rows[u].life = "deleting"
        BY <2>1, <2>6, <2>8, <3>1
      <3> QED
        BY <2>1, <2>3, <2>4, <2>5, <2>8, <3>1, <3>2, <2>i, <2>11 DEF Present
    <2>12. ASSUME d \notin late', Present(d)', del'[u] # "none" PROVE FALSE
      <3>1. d \notin D
        BY <2>9, <2>12 DEF Present
      <3>2. CASE u \in PruneReady(P)
        <4>1. u \notin D /\ w[u].life = "deleting" /\ (<<d, u>> \in edges => w[d].life # "deleting")
          <5>1. PruneLeft(P)[u] = IF u \in D THEN Absent ELSE w[u]
            BY <1>3, <1>t
          <5>2. PruneLeft(P)[d] = w[d]
            BY <1>3, <1>t, <3>1
          <5>3. PruneLeft(P)[u].life = "deleting" /\ (<<d, u>> \in edges => PruneLeft(P)[d].life # "deleting")
            BY <2>7, <3>2
          <5>4. CASE u \in D
            BY <2>a, <5>1, <5>3, <5>4
          <5>5. CASE u \notin D
            BY <5>1, <5>2, <5>3, <5>5
          <5> QED
            BY <5>4, <5>5
        <4>2. rows[u].life = "deleting"
          BY <2>1, <2>8, <4>1
        <4> QED
          BY <2>1, <2>3, <2>4, <2>8, <2>i, <4>1, <4>2, <2>12 DEF Present
      <3>3. CASE del[u] # "none"
        BY <2>3, <2>4, <2>8, <2>i, <2>12, <3>3
      <3> QED
        BY <1>3, <1>t, <2>12, <3>2, <3>3
    <2>13. ASSUME d \notin late', Present(d)', <<u, "del">> \in running' PROVE FALSE
      <3>1. <<u, "del">> \in running /\ u \notin fresh
        <4>1. <<u, "del">>[1] = u
          BY SMT
        <4> QED
          BY <1>1, <2>13, <4>1
      <3>2. rows[u].life = "deleting"
        BY <1>t, <2>8, <2>i, <3>1, RowFields DEF Present
      <3> QED
        BY <2>3, <2>4, <2>8, <2>i, <2>13, <3>1, <3>2
    <2> QED
      BY <2>1, <2>2, <2>10, <2>11, <2>12, <2>13
  <1> HIDE DEF up, w, gone, D, fresh
  <1> QED
    BY <1>1, <1>4, <1>5 DEF OrderInv, Deps

(* Every step keeps the order.                                             *)
LEMMA OrderStep == ASSUME DependenciesEmitted, Inv, OrderInv, [Next]_vars PROVE OrderInv'
  <1> USE DEF observers
  <1>t. /\ rows \in [Resources -> Row] /\ Kids \subseteq Resources /\ Root \in Resources
        /\ rec \in [Resources -> RecStates] /\ del \in [Resources -> DelStates]
        /\ ApiDeletes \subseteq Resources
    BY ConstantsAssumption DEF Inv, TypeOK, Resources, RecStates, DelStates
  <1>1. ASSUME NEW range \in SUBSET Resources, Sweep(range) PROVE OrderInv'
    <2>1. MarksOf(rows, rows) /\ MarksDown(rows)
      BY DEF MarksOf, MarksDown, OrderInv
    <2> QED
      BY <1>t, <1>1, <2>1, SweepOrder DEF Sweep
  <1>2. ASSUME NEW r \in Resources, RequestDeletion(r) PROVE OrderInv'
    <2>1. /\ Marked(rows, Tree(rows, r)) \in [Resources -> Row]
          /\ MarksOf(rows, Marked(rows, Tree(rows, r)))
          /\ MarksDown(Marked(rows, Tree(rows, r)))
      BY <1>t, MarkedMarks, RequestMarksDown
    <2> QED
      BY <1>2, <2>1, SweepOrder DEF RequestDeletion
  (* the other steps leave every row's life and every edge alone *)
  <1>3. ASSUME UNCHANGED <<shape, edges, produced, late>>,
               \A x \in Resources : rows'[x].life = rows[x].life,
               \A x \in Resources : del'[x] # "none" => del[x] # "none",
               \A x \in Kids : <<x, "del">> \in running' => <<x, "del">> \in running \/ del[x] # "none"
        PROVE  OrderInv'
    <2>1. \A x \in Kids : /\ rows'[x].life = rows[x].life
                          /\ Present(x)' <=> Present(x)
                          /\ del'[x] # "none" => del[x] # "none"
      BY <1>3, <1>t DEF Present
    <2>2. ASSUME NEW d \in Kids, NEW u \in Kids, <<d, u>> \in Deps
          PROVE  /\ Present(d)' /\ Present(u)' /\ <<d, u>> \in edges => <<d, u>> \in edges'
                 /\ d \notin late =>
                      /\ rows'[u].life = "deleting" => rows'[d].life # "live"
                      /\ Present(u) /\ ~Present(u)' => ~Present(d)'
                      /\ del'[u] # "none" => del[u] # "none" \/ ~Present(d)'
      <3>1. d \notin late /\ rows[u].life = "deleting" => rows[d].life # "live"
        BY <2>2 DEF OrderInv
      <3> QED
        BY <1>3, <2>1, <3>1
    <2> QED
      BY <1>3, <2>1, <2>2, OrderKept
  <1>4. ASSUME NEW c \in Kids, Quarantine(c) \/ Unquarantine(c) \/ Reconcile(c) PROVE OrderInv'
    <2>1. /\ UNCHANGED <<shape, edges, produced, late, del>>
          /\ running' \subseteq running
      BY <1>4 DEF Quarantine, Unquarantine, Reconcile
    <2>2. \A x \in Resources : rows'[x].life = rows[x].life
      <3>1. \A f : [rows[c] EXCEPT !.frozen = f].life = rows[c].life
        BY ZenonT(60), <1>t DEF Row
      <3>2. \A b : [rows[c] EXCEPT !.synced = b].life = rows[c].life
        BY ZenonT(60), <1>t DEF Row
      <3>3. \E row : rows' = [rows EXCEPT ![c] = row] /\ row.life = rows[c].life
        <4>1. CASE Quarantine(c)
          BY <3>1, <4>1 DEF Quarantine
        <4>2. CASE Unquarantine(c)
          BY <3>1, <4>2 DEF Unquarantine
        <4>3. CASE Reconcile(c)
          BY <3>2, <4>3 DEF Reconcile
        <4> QED
          BY <1>4, <4>1, <4>2, <4>3
      <3> QED
        BY <1>t, <3>3
    <2> QED
      BY <1>3, <2>1, <2>2
  <1>5. ASSUME NEW r \in Resources,
               \/ Schedule(r) \/ ClaimReconcile(r) \/ ClaimDelete(r) \/ Teardown(r) \/ TeardownFails(r)
               \/ DropUnclaimed(r) \/ \E t \in {"rec", "del"} : Reap(r, t)
        PROVE  OrderInv'
    <2>1. UNCHANGED <<shape, edges, produced, late, rows>>
      BY <1>5 DEF Schedule, ClaimReconcile, ClaimDelete, Teardown, TeardownFails, DropUnclaimed, Reap
    <2>2. \A x \in Resources : del'[x] # "none" => del[x] # "none"
      BY <1>t, <1>5 DEF Schedule, ClaimReconcile, ClaimDelete, Teardown, TeardownFails, DropUnclaimed, Reap
    <2>3. \A x \in Kids : <<x, "del">> \in running' => <<x, "del">> \in running \/ del[x] # "none"
      BY SMTT(30), <1>t, <1>5
         DEF Schedule, ClaimReconcile, ClaimDelete, Teardown, TeardownFails, DropUnclaimed, Reap
    <2> QED
      BY <1>3, <2>1, <2>2, <2>3
  <1>6. CASE UNCHANGED vars
    BY <1>3, <1>6 DEF vars
  <1>7. {} \in SUBSET Resources /\ Resources \in SUBSET Resources /\ \A r \in Resources : {r} \in SUBSET Resources
    OBVIOUS
  <1> QED
    BY <1>t, <1>1, <1>2, <1>4, <1>5, <1>6, <1>7, ComposeOrder, DrainOrder, OrphanOrder DEF Next, System

(* Infrastructure goes with a teardown, or with a row that needs none.     *)
LEMMA InOrderStep ==
  ASSUME DependenciesEmitted, Inv, Inv', OrderInv, OrderInv', [Next]_vars
  PROVE  \A u \in built \ built' : InOrder(u, raced \cup late)
  <1> USE DEF observers
  <1>t. /\ Kids \subseteq Resources /\ Root \notin Kids /\ built \subseteq Kids /\ uses \subseteq Kids \X Kids
        /\ uses \subseteq Deps /\ ApiDeletes \subseteq Resources /\ Finalized' = Finalized /\ Deps' = Deps
    <2>1. shape' = shape
      BY DEF Next, System, vars, Sweep, RequestDeletion, Compose, SweepOrphan, Quarantine, Unquarantine, Schedule,
             ClaimReconcile, ClaimDelete, Reconcile, Teardown, TeardownFails, DrainDelete, Reap, DropUnclaimed
    <2> QED
      BY <2>1, ConstantsAssumption DEF Inv, TypeOK, Resources, Deps, Composite, Finalized
  <1> SUFFICES ASSUME NEW u \in built \ built', NEW d \in Kids, <<d, u>> \in uses,
                      d \in built, d \in Finalized, d \notin raced, d \notin late
               PROVE  FALSE
    <2>1. \A e \in uses : e[1] \in Kids /\ e = <<e[1], e[2]>>
      BY SMT, <1>t
    <2> QED
      BY <2>1 DEF InOrder
  <1>1. u \in Kids /\ <<d, u>> \in Deps
    BY <1>t
  <1>2. Present(d)
    BY DEF Inv, RacedInv, Past, Busy, Present
  <1>3. Present(u) /\ del[u] = "none" /\ <<u, "del">> \notin running
    BY <1>1, <1>2 DEF OrderInv
  (* what a removal of rows does *)
  <1>4. ASSUME NEW gone, built' = BuiltAfter(gone), \A x \in Resources : x \in Doomed(gone) => rows'[x].life = "absent",
               UNCHANGED <<raced, late>>
        PROVE  FALSE
    <2>1. ~Present(u)' /\ d \in built'
      BY <1>1, <1>4, <1>t DEF BuiltAfter, Present
    <2>2. ~Present(d)'
      BY <1>1, <1>4, <1>t, <2>1 DEF OrderInv
    <2> QED
      BY <1>4, <1>t, <2>1, <2>2 DEF Inv, RacedInv, Past, Busy, Present
  <1>5. ASSUME NEW w, NEW range, SweepAfter(w, range), UNCHANGED <<raced, late>> PROVE FALSE
    <2>1. PICK gone : built' = BuiltAfter(gone) /\ rows' = Removed(w, gone)
      BY <1>5 DEF SweepAfter, Commit
    <2>2. \A x \in Resources : x \in Doomed(gone) => rows'[x].life = "absent"
      BY <2>1, AbsentRow DEF Removed
    <2> QED
      BY <1>4, <1>5, <2>1, <2>2
  <1>6. ASSUME NEW r \in Resources, DrainDelete(r) PROVE FALSE
    <2>1. PICK gone : built' = BuiltAfter(gone) /\ rows' = Removed(Stripped(rows, r), gone)
      BY <1>6 DEF DrainDelete
    <2>2. \A x \in Resources : x \in Doomed(gone) => rows'[x].life = "absent"
      BY <2>1, AbsentRow DEF Removed
    <2> QED
      BY <1>4, <1>6, <2>1, <2>2 DEF DrainDelete
  <1>7. ASSUME NEW c \in Kids, SweepOrphan(c) PROVE FALSE
    <2>1. PICK gone : built' = BuiltAfter(gone) /\ rows' = Removed(Expired(c), gone)
      BY <1>7 DEF SweepOrphan, Commit, Expired
    <2>2. \A x \in Resources : x \in Doomed(gone) => rows'[x].life = "absent"
      BY <2>1, AbsentRow DEF Removed
    <2> QED
      BY <1>4, <1>7, <2>1, <2>2 DEF SweepOrphan
  <1>8. ASSUME NEW P \in shape.outputs, Compose(P) PROVE FALSE
    <2> DEFINE fresh == {c \in P : rows[c].life = "absent"}
    <2>1. /\ built' = BuiltAfter(PruneGone(P) \cup HardDropped(P)) \ fresh
          /\ raced' \subseteq raced /\ late' \subseteq late \cup fresh
      BY <1>8 DEF Compose, SoftDropped, HardDropped, PruneMarked, PruneGone
    <2>2. u \notin fresh /\ d \notin fresh
      BY <1>2, <1>3 DEF Present
    <2>3. Doomed(PruneGone(P) \cup HardDropped(P)) \subseteq Doomed(PruneGone(P)) \cup HardDropped(P)
      BY <1>8, <1>t, ComposeTables DEF Doomed
    <2>4. u \in Doomed(PruneGone(P)) \cup HardDropped(P) /\ d \in built'
      BY <2>1, <2>2, <2>3 DEF BuiltAfter
    <2>5. ~Present(u)'
      BY <1>1, <1>8, <1>t, <2>4, ComposeTables DEF Present
    <2>6. ~Present(d)'
      BY <1>1, <1>t, <2>1, <2>2, <2>5 DEF OrderInv
    <2> QED
      BY <1>t, <2>1, <2>4, <2>6 DEF Inv, RacedInv, Past, Busy, Present
  <1>9. ASSUME NEW r \in Resources, Teardown(r) PROVE FALSE
    BY <1>3, <1>9 DEF Teardown
  <1>10. built \subseteq built' => FALSE
    OBVIOUS
  <1>11. ASSUME NEW c \in Kids, Quarantine(c) \/ Unquarantine(c) \/ Reconcile(c) PROVE FALSE
    BY <1>10, <1>11 DEF Quarantine, Unquarantine, Reconcile
  <1>12. ASSUME NEW r \in Resources,
               \/ Schedule(r) \/ ClaimReconcile(r) \/ ClaimDelete(r) \/ TeardownFails(r)
               \/ DropUnclaimed(r) \/ \E t \in {"rec", "del"} : Reap(r, t)
         PROVE  FALSE
    BY <1>10, <1>12 DEF Schedule, ClaimReconcile, ClaimDelete, TeardownFails, DropUnclaimed, Reap
  <1>13. CASE UNCHANGED vars
    BY <1>10, <1>13 DEF vars
  <1>14. ASSUME NEW range, Sweep(range) PROVE FALSE
    BY <1>5, <1>14 DEF Sweep
  <1>15. ASSUME NEW r, RequestDeletion(r) PROVE FALSE
    BY <1>5, <1>15 DEF RequestDeletion
  <1> QED
    BY <1>6, <1>7, <1>8, <1>9, <1>11, <1>12, <1>13, <1>14, <1>15 DEF Next, System

(* schema.sql sweep_deletable, drain_outbox_batch, sweep_expired_orphans   *)
(* and the composer's prune: whatever the composite, its edges and its     *)
(* kinds, and whatever faults occur, a row of a kind with a finalizer goes *)
(* only after the teardown of what it stands for, unless a reconcile was   *)
(* pending or running while that teardown ran.                             *)
THEOREM TornDownBeforeGoneHolds == Spec => []TornDownBeforeGone
  <1>1. Inv => TornDownBeforeGone
    BY DEF Inv, RacedInv, Past, Busy, TornDownBeforeGone
  <1> QED
    BY <1>1, Invariant, PTL

(* schema.sql cascade_mark_for_deletion, sweep_deletable and               *)
(* drain_outbox_batch: whatever the edges, the kinds, the deletions and    *)
(* the faults, a composite whose composer prunes no end of a dependency is *)
(* torn down in reverse dependency order, save for dependents that raced   *)
(* with a reconcile or were composed onto a dependency under deletion.     *)
THEOREM TeardownInOrderHolds == ASSUME DependenciesEmitted PROVE Spec => TeardownInOrder
  <1>1. Init => OrderInv
    <2> SUFFICES ASSUME Init PROVE OrderInv
      OBVIOUS
    <2>1. \A x \in Kids : ~Present(x)
      BY AbsentRow, ConstantsAssumption DEF Init, Present, Resources
    <2> QED
      BY <2>1 DEF OrderInv, Init, Present
  <1>2. Inv /\ OrderInv /\ [Next]_vars => OrderInv'
    BY OrderStep
  <1>3. Inv /\ Inv' /\ OrderInv /\ OrderInv' /\ [Next]_vars
          => [\A u \in built \ built' : InOrder(u, raced \cup late)]_vars
    BY InOrderStep
  <1> QED
    BY <1>1, <1>2, <1>3, Invariant, PTL DEF Spec, TeardownInOrder

(* MarkChildrenOrphaned, ClearOrphanMarks, quarantine_resource: in any     *)
(* order of drops, re-emits, quarantines and deletions, only a child the   *)
(* last compose did not emit is in its grace window, and only a release or *)
(* a deletion ends a quarantine.                                           *)
THEOREM FrozenKeptHolds == Spec => FrozenKept
  <1>1. Inv /\ [Next]_vars => [OrphansWereDropped' /\ QuarantineStands]_vars
    BY KeptStep DEF Kept
  <1> QED
    BY <1>1, Invariant, PTL DEF Spec, FrozenKept
=============================================================================
