----------------------------- MODULE ApiProofs -----------------------------
(***************************************************************************)
(* Proofs about what the API records, for every value of the constants:    *)
(* the record and the task of an operation are never apart; the spec of a  *)
(* resource fits the published schema of its version; the guards of the    *)
(* versions; and the account of the tasks in flight under a cap.           *)
(***************************************************************************)
EXTENDS KindVersions, Operations, FiniteSetTheorems, WellFoundedInduction, TLAPS

-----------------------------------------------------------------------------
(* Operations.                                                             *)

(* The inductive invariant: a recorded operation that was neither drained  *)
(* nor lost is the one in the slot, so there is at most one of them; what  *)
(* Drain, Collect and a crash may remove is always an operation.           *)
OperateInv ==
    /\ DOMAIN state = Ops
    /\ slot.op \in Ops \cup {NoOp}
    /\ \A x \in outbox : x.op \in Ops
    /\ \A e \in execs : e.op \in Ops
    /\ RecordedHasTask

(* One step keeps it: only Invoke records an operation, and only into an   *)
(* empty slot; whatever empties the slot notes the operation as drained or *)
(* lost.                                                                   *)
LEMMA OperateStep == OperateInv /\ [OperateNext]_operateVars => OperateInv'
  <1> SUFFICES ASSUME OperateInv, [OperateNext]_operateVars PROVE OperateInv'
    OBVIOUS
  <1> USE OperationsAssumption DEF OperateInv, RecordedHasTask, EmptySlot, observers
  <1>1. ASSUME NEW o \in Ops, Invoke(o) PROVE OperateInv'
    BY <1>1 DEF Invoke
  <1>2. CASE Freeze
    BY <1>2 DEF Freeze
  <1>3. ASSUME NEW p \in BrokerPods, Claim(p) PROVE OperateInv'
    BY <1>3 DEF Claim
  <1>4. ASSUME NEW p \in BrokerPods, PodCrash(p) PROVE OperateInv'
    BY <1>4 DEF PodCrash
  <1>5. ASSUME NEW e \in execs, ReactOperate(e) PROVE OperateInv'
    BY <1>5 DEF ReactOperate
  <1>6. ASSUME NEW x \in outbox, Drain(x) PROVE OperateInv'
    BY <1>6 DEF Drain
  <1>7. CASE Free
    BY <1>7 DEF Free
  <1>8. CASE QueueTruncated
    BY <1>8 DEF QueueTruncated
  <1>9. CASE Collect
    BY <1>9 DEF Collect
  <1>10. CASE UNCHANGED operateVars
    BY <1>10 DEF operateVars
  <1> QED
    BY <1>1, <1>2, <1>3, <1>4, <1>5, <1>6, <1>7, <1>8, <1>9, <1>10 DEF OperateNext

(* In every behaviour a recorded operation has its task in the queue until *)
(* its result is drained or the task is lost (CreateOperationRow,          *)
(* drain_outbox_batch, delete_unclaimed_work).                             *)
THEOREM RecordedHasTaskHolds == OperateSpec => []RecordedHasTask
  <1>1. OperateInit => OperateInv
    BY DEF OperateInit, OperateInv, RecordedHasTask, EmptySlot
  <1>2. OperateInv => RecordedHasTask
    BY DEF OperateInv
  <1> QED
    BY <1>1, <1>2, OperateStep, PTL DEF OperateSpec

-----------------------------------------------------------------------------
(* The sum of a function over a finite set.                                *)

(* A set of naturals has a least one.                                      *)
LEMMA LeastNat ==
    ASSUME NEW T, T \subseteq Nat, T # {}
    PROVE  \E n \in T : \A m \in T : n <= m
  <1> DEFINE R == OpToRel(<, Nat)
  <1>1. IsWellFoundedOn(R, Nat)
    BY NatLessThanWellFounded
  <1>2. \A y, x \in Nat : y < x => <<y, x>> \in R
    BY SMT DEF OpToRel
  <1> HIDE DEF R
  <1>3. PICK x \in T : \A y \in T : ~(<<y, x>> \in R)
    BY <1>1, WFMin, Zenon
  <1>4. \A y \in T : ~(y < x)
    BY <1>2, <1>3, Zenon
  <1> QED
    BY <1>4, SMT

Pick(s) == CHOOSE x \in s : TRUE
Total(g, D) == MapThenSumSet(LAMBDA x : g[x], D)
Adds(g, f, T) == f = [s \in T |-> IF s = {} THEN 0 ELSE g[Pick(s)] + f[s \ {Pick(s)}]]

(* The total that the community module defines is the value at the whole   *)
(* set of a function that adds one element at a time.                      *)
LEMMA SumIs ==
    ASSUME NEW g, NEW D, NEW h, Adds(g, h, SUBSET D)
    PROVE \E f : Adds(g, f, SUBSET D) /\ Total(g, D) = f[D]
  <1> DEFINE P(f) == f = [s \in SUBSET D |-> IF s = {} THEN 0 ELSE g[CHOOSE x \in s : TRUE] + f[s \ {CHOOSE x \in s : TRUE}]]
             c == CHOOSE f : P(f)
  <1>1. P(h)
    BY DEF Adds, Pick
  <1>2. P(c)
    BY <1>1
  <1>3. Total(g, D) = c[D]
    BY DEF Total, MapThenSumSet, MapThenFoldSet
  <1> QED
    BY <1>2, <1>3 DEF Adds, Pick

Small(D, n) == {s \in SUBSET D : Cardinality(s) <= n}

(* What is left of a finite set without the element picked from it.        *)
LEMMA Smaller ==
    ASSUME NEW D, IsFiniteSet(D), NEW n \in Nat, NEW s \in Small(D, n), s # {}
    PROVE  /\ Pick(s) \in s /\ Pick(s) \in D /\ n # 0
           /\ s \ {Pick(s)} \in Small(D, n - 1) /\ s \ {Pick(s)} \in Small(D, n)
           /\ IsFiniteSet(s) /\ Cardinality(s) \in Nat /\ Cardinality(s \ {Pick(s)}) = Cardinality(s) - 1
  <1>1. s \subseteq D /\ Cardinality(s) <= n
    BY Zenon DEF Small
  <1>2. Pick(s) \in s
    BY Zenon DEF Pick
  <1>3. IsFiniteSet(s)
    BY <1>1, FS_Subset, Zenon
  <1>4. Cardinality(s) \in Nat /\ Cardinality(s) # 0
    BY <1>3, FS_CardinalityType, FS_EmptySet, Zenon
  <1>5. Cardinality(s \ {Pick(s)}) = Cardinality(s) - 1
    BY <1>2, <1>3, FS_RemoveElement, Zenon
  <1>6. n # 0 /\ Cardinality(s) - 1 <= n - 1 /\ Cardinality(s) - 1 <= n
    BY <1>1, <1>4, SMT
  <1> QED
    BY <1>1, <1>2, <1>3, <1>4, <1>5, <1>6, Zenon DEF Small

(* Over a finite set there is a function that adds one element at a time.  *)
LEMMA SumExists ==
    ASSUME NEW g, NEW D, IsFiniteSet(D)
    PROVE  \E h : Adds(g, h, SUBSET D)
  <1> DEFINE Bad == {n \in Nat : ~\E h : Adds(g, h, Small(D, n))}
  <1>1. Bad = {}
    <2> SUFFICES ASSUME Bad # {} PROVE FALSE
      OBVIOUS
    <2>1. PICK n \in Bad : \A m \in Bad : n <= m
      BY LeastNat, Zenon
    <2>2. n \in Nat /\ ~\E h : Adds(g, h, Small(D, n))
      OBVIOUS
    <2>3. CASE n = 0
      <3> DEFINE h == [s \in Small(D, n) |-> 0]
      <3>1. \A s \in Small(D, n) : s = {}
        BY <2>3, Smaller, Zenon
      <3>2. Adds(g, h, Small(D, n))
        BY <3>1, Zenon DEF Adds
      <3> QED
        BY <2>2, <3>2, Zenon
    <2>4. CASE n # 0
      <3>1. n - 1 \in Nat /\ ~(n <= n - 1)
        BY <2>2, <2>4, SMT
      <3>2. PICK k : Adds(g, k, Small(D, n - 1))
        BY <2>1, <3>1, Zenon
      <3> DEFINE h == [s \in Small(D, n) |-> IF s = {} THEN 0 ELSE g[Pick(s)] + k[s \ {Pick(s)}]]
      <3>3. ASSUME NEW s \in Small(D, n), s # {} PROVE h[s \ {Pick(s)}] = k[s \ {Pick(s)}]
        <4> DEFINE t == s \ {Pick(s)}
        <4>1. t \in Small(D, n) /\ t \in Small(D, n - 1)
          BY <2>2, <3>3, Smaller, Zenon
        <4> HIDE DEF t
        <4>2. h[t] = IF t = {} THEN 0 ELSE g[Pick(t)] + k[t \ {Pick(t)}]
          BY <4>1, Zenon
        <4>3. k[t] = IF t = {} THEN 0 ELSE g[Pick(t)] + k[t \ {Pick(t)}]
          BY <3>2, <4>1, Zenon DEF Adds
        <4>4. h[t] = k[t]
          BY <4>2, <4>3, Zenon
        <4> QED
          BY <4>4 DEF t
      <3>4. \A s \in Small(D, n) : h[s] = IF s = {} THEN 0 ELSE g[Pick(s)] + h[s \ {Pick(s)}]
        BY <3>3, Zenon
      <3>5. h = [s \in Small(D, n) |-> h[s]]
        BY Zenon
      <3> HIDE DEF h
      <3>6. Adds(g, h, Small(D, n))
        BY <3>4, <3>5, Zenon DEF Adds
      <3> QED
        BY <2>2, <3>6, Zenon
    <2> QED
      BY <2>3, <2>4, Zenon
  <1>2. Cardinality(D) \in Nat
    BY FS_CardinalityType, Zenon
  <1>3. Small(D, Cardinality(D)) = SUBSET D
    BY FS_Subset, Zenon DEF Small
  <1>4. \E h : Adds(g, h, Small(D, Cardinality(D)))
    BY <1>1, <1>2
  <1> QED
    BY <1>3, <1>4, Zenon

(* One more summand.                                                       *)
LEMMA CoverOne ==
    ASSUME NEW A, NEW B, IsFiniteSet(A), IsFiniteSet(B), NEW i, NEW j \in Int,
           i \in Nat, Cardinality(A) <= i, Cardinality(B) <= j
    PROVE  IsFiniteSet(A \cup B) /\ Cardinality(A \cup B) <= i + j
  <1>1. IsFiniteSet(A \cup B) /\ Cardinality(A \cup B) = Cardinality(A) + Cardinality(B) - Cardinality(A \cap B)
    BY FS_Union, Zenon
  <1>2. Cardinality(A) \in Nat /\ Cardinality(B) \in Nat
    BY FS_CardinalityType, Zenon
  <1>3. IsFiniteSet(A \cap B)
    BY FS_Subset, Zenon
  <1>4. Cardinality(A \cap B) \in Nat
    BY <1>3, FS_CardinalityType, Zenon
  <1> QED
    BY <1>1, <1>2, <1>4, SMT

Naturals(g, D) == \A x \in D : g[x] \in Nat
Bounded(S, g, D) == \A x \in D : IsFiniteSet(S[x]) /\ Cardinality(S[x]) <= g[x]
Bounds(S, n, D) == n \in Nat /\ Cardinality(UNION {S[x] : x \in D}) <= n

(* When each summand bounds the size of a set, the sum bounds the size of  *)
(* their union.                                                            *)
LEMMA SumCovers ==
    ASSUME NEW g, NEW D, IsFiniteSet(D), NEW f, Adds(g, f, SUBSET D), Naturals(g, D),
           NEW S, Bounded(S, g, D)
    PROVE  Bounds(S, f[D], D)
  <1>0. (\A x \in D : g[x] \in Nat) /\ \A x \in D : IsFiniteSet(S[x]) /\ Cardinality(S[x]) <= g[x]
    BY Zenon DEF Naturals, Bounded
  <1> DEFINE U(s) == UNION {S[x] : x \in s}
             Good(s) == f[s] \in Nat /\ IsFiniteSet(U(s)) /\ Cardinality(U(s)) <= f[s]
             Bad == {n \in Nat : \E s \in Small(D, n) : ~Good(s)}
  <1>1. Good({})
    <2>1. U({}) = {}
      BY Zenon
    <2>2. f[{}] = 0
      BY Zenon DEF Adds
    <2> HIDE DEF U
    <2>3. IsFiniteSet(U({})) /\ Cardinality(U({})) = 0
      BY <2>1, FS_EmptySet, Zenon
    <2> QED
      BY <2>2, <2>3, SMT
  <1>2. Bad = {}
    <2> SUFFICES ASSUME Bad # {} PROVE FALSE
      OBVIOUS
    <2> HIDE DEF Good
    <2>1. PICK n \in Bad : \A m \in Bad : n <= m
      BY LeastNat, Zenon
    <2>2. PICK s \in Small(D, n) : ~Good(s)
      BY Zenon
    <2>3. n \in Nat /\ s # {}
      BY <1>1, <2>2, Zenon
    <2> DEFINE x == Pick(s)
               t == s \ {x}
    <2>4. x \in s /\ x \in D /\ n # 0 /\ t \in Small(D, n - 1) /\ s \subseteq D
      BY <2>3, Smaller, Zenon DEF Small
    <2>5. n - 1 \in Nat /\ ~(n <= n - 1)
      BY <2>3, <2>4, SMT
    <2>6. Good(t)
      BY <2>1, <2>4, <2>5, Zenon
    <2>7. f[s] = g[x] + f[t]
      BY <2>3, <2>4, Zenon DEF Adds
    <2>8. U(s) = S[x] \cup U(t)
      BY <2>4, Zenon
    <2> HIDE DEF x, t, U
    <2>9. f[t] \in Nat /\ IsFiniteSet(U(t)) /\ Cardinality(U(t)) <= f[t]
      BY <2>6 DEF Good
    <2>10. g[x] \in Nat /\ f[t] \in Int /\ IsFiniteSet(S[x]) /\ Cardinality(S[x]) <= g[x]
      BY <1>0, <2>4, <2>9, SMT
    <2>11. IsFiniteSet(S[x] \cup U(t)) /\ Cardinality(S[x] \cup U(t)) <= g[x] + f[t]
      BY <2>9, <2>10, CoverOne, Zenon
    <2>12. g[x] + f[t] \in Nat
      BY <2>9, <2>10, SMT
    <2>13. Good(s)
      BY <2>7, <2>8, <2>11, <2>12, Zenon DEF Good
    <2> QED
      BY <2>2, <2>13, Zenon
  <1>3. Cardinality(D) \in Nat /\ D \in Small(D, Cardinality(D))
    BY FS_CardinalityType, SMT DEF Small
  <1>4. Good(D)
    BY <1>2, <1>3
  <1> QED
    BY <1>4 DEF Bounds

(* The same, of the sum itself.                                            *)
LEMMA TotalCovers ==
    ASSUME NEW g, NEW D, IsFiniteSet(D), Naturals(g, D), NEW S, Bounded(S, g, D)
    PROVE  Bounds(S, Total(g, D), D)
  <1>1. PICK h : Adds(g, h, SUBSET D)
    BY SumExists, Zenon
  <1>2. PICK f : Adds(g, f, SUBSET D) /\ Total(g, D) = f[D]
    BY <1>1, SumIs, Zenon
  <1>3. Bounds(S, f[D], D)
    BY <1>2, SumCovers, Zenon
  <1> QED
    BY <1>2, <1>3, Zenon

-----------------------------------------------------------------------------
(* The state of the versions.                                              *)

Copies == [Versions -> EditionIds]
Resources == [id : Nat, ver : {0} \cup Versions, spec : {0} \cup DOMAIN Documents]
Revisions == [ver : Versions, spec : DOMAIN Documents, excused : BOOLEAN]
Places == {"start", "gate", "write", "lock", "rebuild"}
Budgets == [calls : Nat, faults : Nat, counting : BOOLEAN, plan : DOMAIN Deployments]

CallRecords ==
    [op : Verbs, v : {0} \cup Versions, spec : {0} \cup DOMAIN Documents, edition : EditionIds, row : Rows,
     at : Places, found : Resources, by : EditionIds \cup {1}, list : Copies \cup {NoList}]

CallTypes == calls \in [Callers -> CallRecords \cup {NoCall}]

KindTypes ==
    /\ manifest \in Copies
    /\ config \in [Versions -> Rows \cup {NoRow}]
    /\ res \in Resources
    /\ history \subseteq Revisions
    /\ CallTypes
    /\ gateway \in [Replicas -> Copies]
    /\ reloads \in [Processes -> Copies \cup {NoList}]
    /\ seen = [x \in Processes |-> seen[x]] /\ \A a \in Replicas : seen[a] \in Copies
    /\ excused \in BOOLEAN
    /\ bounds \in Budgets

(* What a request brings, and what the edge has checked it against.        *)
CallFits(q) ==
    /\ q.op \in Verbs \ {"rollback", "remove"} => q.v \in Versions
    /\ q.op = "apply" => q.spec \in DOMAIN Documents
    /\ q.op = "publish" => q.edition \in DOMAIN Editions
    /\ q.op = "apply" /\ q.at \in {"gate", "write"} /\ q.by # 0 =>
          q.by \in DOMAIN Editions /\ Validates(Editions[q.by].spec, Documents[q.spec])

CallsFit == \A c \in Callers : CallFits(calls[c])

Guarded == \A c \in Callers : c \notin overtaken => Holds(c)

OnVersion == res.ver # 0 => res.spec \in DOMAIN Documents

Fitting(v, d) == manifest[v] # 0 /\ Validates(Editions[manifest[v]].spec, Documents[d])

HistoryFits == \A h \in history : ~h.excused => Fitting(h.ver, h.spec)

HasRow == \A v \in Versions : manifest[v] # 0 => config[v] # NoRow

KindInv == KindTypes /\ CallsFit /\ Guarded /\ OnVersion /\ SpecFits /\ HistoryFits /\ HasRow

-----------------------------------------------------------------------------
(* The record of a call.                                                   *)

(* A call moves on.                                                        *)
LEMMA SetAt ==
    ASSUME NEW A1, NEW A2, NEW A3, NEW A4, NEW A5, NEW A6, NEW A7, NEW A8, NEW A9,
           NEW r \in [op : A1, v : A2, spec : A3, edition : A4, row : A5, at : A6, found : A7, by : A8, list : A9],
           NEW x \in A6, NEW s, s = [r EXCEPT !.at = x]
    PROVE
        /\ s \in [op : A1, v : A2, spec : A3, edition : A4, row : A5, at : A6, found : A7, by : A8, list : A9]
        /\ s.op = r.op
        /\ s.v = r.v
        /\ s.spec = r.spec
        /\ s.edition = r.edition
        /\ s.row = r.row
        /\ s.found = r.found
        /\ s.by = r.by
        /\ s.list = r.list
        /\ s.at = x
  BY SMT

(* A call has looked up the resource.                                      *)
LEMMA SetFound ==
    ASSUME NEW A1, NEW A2, NEW A3, NEW A4, NEW A5, NEW A6, NEW A7, NEW A8, NEW A9,
           NEW r \in [op : A1, v : A2, spec : A3, edition : A4, row : A5, at : A6, found : A7, by : A8, list : A9],
           NEW x \in A7, NEW s, s = [r EXCEPT !.found = x]
    PROVE
        /\ s \in [op : A1, v : A2, spec : A3, edition : A4, row : A5, at : A6, found : A7, by : A8, list : A9]
        /\ s.op = r.op
        /\ s.v = r.v
        /\ s.spec = r.spec
        /\ s.edition = r.edition
        /\ s.row = r.row
        /\ s.at = r.at
        /\ s.by = r.by
        /\ s.list = r.list
        /\ s.found = x
  BY SMT

(* A call notes what it was checked against.                               *)
LEMMA SetBy ==
    ASSUME NEW A1, NEW A2, NEW A3, NEW A4, NEW A5, NEW A6, NEW A7, NEW A8, NEW A9,
           NEW r \in [op : A1, v : A2, spec : A3, edition : A4, row : A5, at : A6, found : A7, by : A8, list : A9],
           NEW x \in A8, NEW s, s = [r EXCEPT !.by = x]
    PROVE
        /\ s \in [op : A1, v : A2, spec : A3, edition : A4, row : A5, at : A6, found : A7, by : A8, list : A9]
        /\ s.op = r.op
        /\ s.v = r.v
        /\ s.spec = r.spec
        /\ s.edition = r.edition
        /\ s.row = r.row
        /\ s.at = r.at
        /\ s.found = r.found
        /\ s.list = r.list
        /\ s.by = x
  BY SMT

(* A call has the list of the manifests.                                   *)
LEMMA SetList ==
    ASSUME NEW A1, NEW A2, NEW A3, NEW A4, NEW A5, NEW A6, NEW A7, NEW A8, NEW A9,
           NEW r \in [op : A1, v : A2, spec : A3, edition : A4, row : A5, at : A6, found : A7, by : A8, list : A9],
           NEW x \in A9, NEW s, s = [r EXCEPT !.list = x]
    PROVE
        /\ s \in [op : A1, v : A2, spec : A3, edition : A4, row : A5, at : A6, found : A7, by : A8, list : A9]
        /\ s.op = r.op
        /\ s.v = r.v
        /\ s.spec = r.spec
        /\ s.edition = r.edition
        /\ s.row = r.row
        /\ s.at = r.at
        /\ s.found = r.found
        /\ s.by = r.by
        /\ s.list = x
  BY SMT

(* What stays of a call that moves on.                                     *)
SameRequest(s, r) ==
    s.op = r.op /\ s.v = r.v /\ s.spec = r.spec /\ s.edition = r.edition /\ s.row = r.row

Others(c) == \A d \in Callers \ {c} : calls'[d] = calls[d]

(* A call that is under way has its record.                                *)
LEMMA UnderWay ==
    ASSUME CallTypes, NEW c \in Callers, calls[c].op \in Verbs
    PROVE  calls[c] \in CallRecords /\ calls[c] # NoCall
  BY DEF CallTypes, NoCall, Verbs

(* A call that ends.                                                       *)
LEMMA EndCall ==
    ASSUME CallTypes, NEW c \in Callers, End(c)
    PROVE  CallTypes' /\ Others(c) /\ calls'[c] = NoCall
  BY DEF CallTypes, End, Others

(* A call that gets another record.                                        *)
LEMMA PutCall ==
    ASSUME CallTypes, NEW c \in Callers, NEW s \in CallRecords, calls' = [calls EXCEPT ![c] = s]
    PROVE  CallTypes' /\ Others(c) /\ calls'[c] = s
  BY DEF CallTypes, Others

(* A call that moves on.                                                   *)
LEMMA StepCall ==
    ASSUME CallTypes, NEW c \in Callers, calls[c].op \in Verbs, NEW x \in Places, Step(c, x)
    PROVE  /\ CallTypes' /\ Others(c)
           /\ calls'[c] \in CallRecords /\ SameRequest(calls'[c], calls[c]) /\ calls'[c].at = x
           /\ calls'[c].found = calls[c].found /\ calls'[c].by = calls[c].by /\ calls'[c].list = calls[c].list
  <1> DEFINE s == [calls[c] EXCEPT !.at = x]
  <1>1. calls[c] \in CallRecords
    BY UnderWay, Zenon
  <1>2. /\ s \in CallRecords /\ SameRequest(s, calls[c]) /\ s.at = x
        /\ s.found = calls[c].found /\ s.by = calls[c].by /\ s.list = calls[c].list
    BY <1>1, SetAt, Zenon DEF CallRecords, SameRequest
  <1>3. calls' = [calls EXCEPT ![c] = s]
    BY DEF Step
  <1> HIDE DEF s
  <1>4. CallTypes' /\ Others(c) /\ calls'[c] = s
    BY <1>2, <1>3, PutCall, Zenon
  <1> QED
    BY <1>2, <1>4, Zenon

Resolved(c, x, f, b) == calls' = [calls EXCEPT ![c].at = x, ![c].found = f, ![c].by = b]
Holding(c, x, b) == calls' = [calls EXCEPT ![c].at = x, ![c].by = b]

LookedUp(c, x, f, b) ==
    /\ CallTypes' /\ Others(c)
    /\ calls'[c] \in CallRecords /\ SameRequest(calls'[c], calls[c])
    /\ calls'[c].at = x /\ calls'[c].found = f /\ calls'[c].by = b

(* A call that has looked up the resource.                                 *)
LEMMA ResolveCall ==
    ASSUME CallTypes, NEW c \in Callers, calls[c].op \in Verbs,
           NEW x \in Places, NEW f \in Resources, NEW b \in EditionIds,
           Resolved(c, x, f, b)
    PROVE  LookedUp(c, x, f, b)
  <1> DEFINE s1 == [calls[c] EXCEPT !.at = x]
             s2 == [s1 EXCEPT !.found = f]
             s3 == [s2 EXCEPT !.by = b]
  <1>1. calls[c] \in CallRecords
    BY UnderWay, Zenon
  <1>2. s1 \in CallRecords /\ SameRequest(s1, calls[c]) /\ s1.at = x
    BY <1>1, SetAt, Zenon DEF CallRecords, SameRequest
  <1>3. calls' = [calls EXCEPT ![c] = s3]
    BY Zenon DEF CallTypes, Resolved
  <1> HIDE DEF s1
  <1>4. s2 \in CallRecords /\ SameRequest(s2, calls[c]) /\ s2.at = x /\ s2.found = f
    BY <1>2, SetFound, Zenon DEF CallRecords, SameRequest
  <1> HIDE DEF s2
  <1>5. b \in EditionIds \cup {1}
    OBVIOUS
  <1>6. s3 \in CallRecords /\ SameRequest(s3, calls[c]) /\ s3.at = x /\ s3.found = f /\ s3.by = b
    BY <1>4, <1>5, SetBy, Zenon DEF CallRecords, SameRequest
  <1> HIDE DEF s3
  <1>7. CallTypes' /\ Others(c) /\ calls'[c] = s3
    BY <1>3, <1>6, PutCall, Zenon
  <1> QED
    BY <1>6, <1>7, Zenon DEF LookedUp

Held(c, x, b) ==
    /\ CallTypes' /\ Others(c)
    /\ calls'[c] \in CallRecords /\ SameRequest(calls'[c], calls[c]) /\ calls'[c].at = x /\ calls'[c].by = b

(* A delete that has its lock.                                             *)
LEMMA LockCall ==
    ASSUME CallTypes, NEW c \in Callers, calls[c].op \in Verbs, NEW x \in Places, NEW b \in {0, 1},
           Holding(c, x, b)
    PROVE  Held(c, x, b)
  <1> DEFINE s1 == [calls[c] EXCEPT !.at = x]
             s2 == [s1 EXCEPT !.by = b]
  <1>1. calls[c] \in CallRecords
    BY UnderWay, Zenon
  <1>2. s1 \in CallRecords /\ SameRequest(s1, calls[c]) /\ s1.at = x
    BY <1>1, SetAt, Zenon DEF CallRecords, SameRequest
  <1>3. calls' = [calls EXCEPT ![c] = s2]
    BY Zenon DEF CallTypes, Holding
  <1> HIDE DEF s1
  <1>4. b \in EditionIds \cup {1}
    BY DEF EditionIds
  <1>5. s2 \in CallRecords /\ SameRequest(s2, calls[c]) /\ s2.at = x /\ s2.by = b
    BY <1>2, <1>4, SetBy, Zenon DEF CallRecords, SameRequest
  <1> HIDE DEF s2
  <1>6. CallTypes' /\ Others(c) /\ calls'[c] = s2
    BY <1>3, <1>5, PutCall, Zenon
  <1> QED
    BY <1>5, <1>6, Zenon DEF Held

(* A call that has the list.                                               *)
LEMMA ListCall ==
    ASSUME CallTypes, NEW c \in Callers, calls[c].op \in Verbs, NEW l \in Copies,
           calls' = [calls EXCEPT ![c].list = l]
    PROVE  /\ CallTypes' /\ Others(c)
           /\ calls'[c] \in CallRecords /\ SameRequest(calls'[c], calls[c])
           /\ calls'[c].at = calls[c].at /\ calls'[c].found = calls[c].found /\ calls'[c].by = calls[c].by
  <1> DEFINE s == [calls[c] EXCEPT !.list = l]
  <1>1. calls[c] \in CallRecords
    BY UnderWay, Zenon
  <1>2. l \in Copies \cup {NoList}
    OBVIOUS
  <1>3. /\ s \in CallRecords /\ SameRequest(s, calls[c])
        /\ s.at = calls[c].at /\ s.found = calls[c].found /\ s.by = calls[c].by
    BY <1>1, <1>2, SetList, Zenon DEF CallRecords, SameRequest
  <1>4. calls' = [calls EXCEPT ![c] = s]
    OBVIOUS
  <1> HIDE DEF s
  <1>5. CallTypes' /\ Others(c) /\ calls'[c] = s
    BY <1>3, <1>4, PutCall, Zenon
  <1> QED
    BY <1>3, <1>5, Zenon

-----------------------------------------------------------------------------
(* What each step changes.                                                 *)

Steps == \* Next without its observer
    \/ \E c \in Callers : CallStep(c) \/ (\E q \in Plan.menu : Call(c, q))
    \/ \E c, d \in Callers : Deadlock(c, d)
    \/ \E x \in Processes : ReloadLists(x) \/ ReloadStores(x)
    \/ \E b \in Brokers, v \in Versions : MissFill(b, v)
    \/ \E a \in Replicas : Restart(a)
    \/ Crash
    \/ CapNext /\ UNCHANGED <<calls, apiVars>>

(* The claims of the cap change neither the calls nor the versions.        *)
LEMMA CapFrame == CapNext => UNCHANGED config /\ (UNCHANGED bounds \/ Spend("faults"))
  BY Zenon DEF CapNext, ClaimBegin, ClaimCommit, Complete, Release, RecountBegin, RecountCommit

(* The manifests, their policies, the resource and the pins change by the  *)
(* calls that write them.                                                  *)
LEMMA DataFrame ==
    ASSUME Steps
    PROVE  \/ \E c \in Callers : \/ Write(c) \/ Rollback(c) \/ Remove(c) \/ Publish(c)
                                 \/ Delete(c) \/ EditConfig(c) \/ Bind(c)
           \/ UNCHANGED <<manifest, config, pins, res, history, excused>>
  <1> DEFINE Same == UNCHANGED <<manifest, config, pins, res, history, excused>>
  <1>1. ASSUME NEW c \in Callers,
               \/ Resolve(c) \/ RetirementGate(c) \/ SchemaGate(c) \/ DeleteGuards(c)
               \/ DeleteConfig(c) \/ CallLists(c) \/ CallStores(c)
        PROVE  Same
    BY <1>1, Zenon DEF Resolve, RetirementGate, SchemaGate, DeleteGuards, DeleteConfig, CallLists, CallStores, apiVars
  <1>2. ASSUME NEW c \in Callers, NEW q \in Plan.menu, Call(c, q) PROVE Same
    BY <1>2, Zenon DEF Call, apiVars
  <1>3. ASSUME NEW c \in Callers, NEW d \in Callers, Deadlock(c, d) PROVE Same
    BY <1>3, Zenon DEF Deadlock, apiVars
  <1>4. ASSUME NEW x \in Processes, ReloadLists(x) \/ ReloadStores(x) PROVE Same
    BY <1>4, Zenon DEF ReloadLists, ReloadStores
  <1>5. ASSUME NEW b \in Brokers, NEW v \in Versions, MissFill(b, v) PROVE Same
    BY <1>5, Zenon DEF MissFill
  <1>6. ASSUME NEW a \in Replicas, Restart(a) PROVE Same
    BY <1>6, Zenon DEF Restart
  <1>7. CASE Crash
    BY <1>7, Zenon DEF Crash, PostgresCrash, apiVars
  <1>8. CASE CapNext /\ UNCHANGED <<calls, apiVars>>
    BY <1>8, CapFrame, Zenon DEF apiVars
  <1> HIDE DEF Same
  <1>9. ASSUME NEW c \in Callers, CallStep(c)
        PROVE  \/ Same \/ Write(c) \/ Rollback(c) \/ Remove(c) \/ Publish(c)
               \/ Delete(c) \/ EditConfig(c) \/ Bind(c)
    BY <1>1, <1>9, Zenon DEF CallStep
  <1> USE DEF Same
  <1> QED
    BY <1>2, <1>3, <1>4, <1>5, <1>6, <1>7, <1>8, <1>9, Zenon DEF Steps

(* The copies change by the reloads of the processes.                      *)
LEMMA CopyFrame ==
    ASSUME Steps
    PROVE  \/ \E c \in Callers : CallStores(c)
           \/ \E x \in Processes : ReloadLists(x) \/ ReloadStores(x)
           \/ \E b \in Brokers, v \in Versions : MissFill(b, v)
           \/ \E a \in Replicas : Restart(a)
           \/ UNCHANGED <<seen, gateway, reloads>>
  <1> DEFINE Same == UNCHANGED <<seen, gateway, reloads>>
  <1>1. ASSUME NEW c \in Callers,
               \/ Resolve(c) \/ RetirementGate(c) \/ SchemaGate(c) \/ DeleteGuards(c)
               \/ DeleteConfig(c) \/ CallLists(c) \/ EditConfig(c)
        PROVE  Same
    BY <1>1, Zenon DEF Resolve, RetirementGate, SchemaGate, DeleteGuards, DeleteConfig, CallLists, EditConfig, apiVars
  <1>2. ASSUME NEW c \in Callers,
               Write(c) \/ Rollback(c) \/ Remove(c) \/ Publish(c) \/ Delete(c) \/ Bind(c)
        PROVE  Same
    BY <1>2, Zenon DEF Write, Rollback, Remove, Publish, Delete, Bind
  <1>3. ASSUME NEW c \in Callers, NEW q \in Plan.menu, Call(c, q) PROVE Same
    BY <1>3, Zenon DEF Call, apiVars
  <1>4. ASSUME NEW c \in Callers, NEW d \in Callers, Deadlock(c, d) PROVE Same
    BY <1>4, Zenon DEF Deadlock, apiVars
  <1>5. CASE Crash
    BY <1>5, Zenon DEF Crash, apiVars
  <1>6. CASE CapNext /\ UNCHANGED <<calls, apiVars>>
    BY <1>6, Zenon DEF apiVars
  <1> HIDE DEF Same
  <1>7. ASSUME NEW c \in Callers, CallStep(c) PROVE Same \/ CallStores(c)
    BY <1>1, <1>2, <1>7, Zenon DEF CallStep
  <1> USE DEF Same
  <1> QED
    BY <1>3, <1>4, <1>5, <1>6, <1>7, Zenon DEF Steps

(* The budgets: each step spends one unit at most.                         *)
LEMMA SpendBudget ==
    ASSUME bounds \in Budgets, NEW what \in {"calls", "faults"}, Spend(what)
    PROVE  bounds' \in Budgets /\ (what = "faults" => bounds'.faults < bounds.faults)
  BY SMT DEF Budgets, Spend

(* The budgets of calls and faults stay naturals.                          *)
LEMMA BudgetStep ==
    ASSUME bounds \in Budgets, Steps
    PROVE  bounds' \in Budgets
  <1> DEFINE Paid == UNCHANGED bounds \/ Spend("calls") \/ Spend("faults")
  <1>1. ASSUME NEW c \in Callers,
               \/ Resolve(c) \/ RetirementGate(c) \/ SchemaGate(c) \/ DeleteGuards(c)
               \/ DeleteConfig(c) \/ CallLists(c) \/ CallStores(c)
        PROVE  Paid
    BY <1>1, Zenon DEF Resolve, RetirementGate, SchemaGate, DeleteGuards, DeleteConfig, CallLists, CallStores
  <1>2. ASSUME NEW c \in Callers,
               Write(c) \/ Rollback(c) \/ Remove(c) \/ Publish(c) \/ Delete(c) \/ Bind(c) \/ EditConfig(c)
        PROVE  Paid
    BY <1>2, Zenon DEF Write, Rollback, Remove, Publish, Delete, Bind, EditConfig
  <1>3. ASSUME NEW c \in Callers, NEW q \in Plan.menu, Call(c, q) PROVE Paid
    BY <1>3, Zenon DEF Call
  <1>4. ASSUME NEW c \in Callers, NEW d \in Callers, Deadlock(c, d) PROVE Paid
    BY <1>4, Zenon DEF Deadlock
  <1>5. ASSUME NEW x \in Processes, ReloadLists(x) \/ ReloadStores(x) PROVE Paid
    BY <1>5, Zenon DEF ReloadLists, ReloadStores
  <1>6. ASSUME NEW b \in Brokers, NEW v \in Versions, MissFill(b, v) PROVE Paid
    BY <1>6, Zenon DEF MissFill
  <1>7. ASSUME NEW a \in Replicas, Restart(a) PROVE Paid
    BY <1>7, Zenon DEF Restart
  <1>8. ASSUME Crash PROVE Paid
    BY <1>8, Zenon DEF Crash, PostgresCrash
  <1>9. ASSUME CapNext PROVE Paid
    BY <1>9, CapFrame, Zenon
  <1> HIDE DEF Paid
  <1>10. ASSUME NEW c \in Callers, CallStep(c) PROVE Paid
    BY <1>1, <1>2, <1>10, Zenon DEF CallStep
  <1>11. Paid
    BY <1>3, <1>4, <1>5, <1>6, <1>7, <1>8, <1>9, <1>10, Zenon DEF Steps
  <1> USE DEF Paid
  <1> QED
    BY <1>11, SpendBudget, Zenon

-----------------------------------------------------------------------------
(* The calls: their records, what they were checked against, and what the  *)
(* checks found.                                                           *)

(* Among the steps of a caller c, and of the rest, what the calls become.  *)
CallInv == CallTypes /\ CallsFit /\ Guarded

(* A call that is not overtaken by a step that is not its own has checks   *)
(* that hold.                                                              *)
LEMMA Watched ==
    ASSUME Observed, NEW c \in Callers, calls'[c] = calls[c] \/ bounds'.faults < bounds.faults,
           calls[c] # NoCall, calls'[c] # NoCall, c \notin overtaken'
    PROVE  Holds(c)'
  BY Zenon DEF Observed

(* Once overtaken, a call stays so.                                        *)
LEMMA StaysOvertaken ==
    ASSUME Observed, NEW c \in Callers, calls[c] # NoCall, calls'[c] # NoCall, c \notin overtaken'
    PROVE  c \notin overtaken
  BY Zenon DEF Observed

(* No call, no checks.                                                     *)
LEMMA NoCallHolds ==
    ASSUME NEW c \in Callers
    PROVE  calls'[c] = NoCall => Holds(c)' /\ CallFits(calls'[c])
  <1>1. NoCall.op = "none"
    BY DEF NoCall
  <1>2. ASSUME calls'[c].op = "none" PROVE Holds(c)' /\ CallFits(calls'[c])
    BY <1>2, Zenon DEF Holds, CallFits, Verbs
  <1> QED
    BY <1>1, <1>2, Zenon

(* What is left to show of a step of one caller: its own record.           *)
LEMMA OwnStep ==
    ASSUME CallInv, Observed, NEW c \in Callers, Others(c), CallTypes',
           CallFits(calls'[c]), c \notin overtaken' => Holds(c)'
    PROVE  CallInv'
  <1>1. ASSUME NEW d \in Callers PROVE CallFits(calls'[d])
    BY Zenon DEF CallInv, CallsFit, Others
  <1>2. ASSUME NEW d \in Callers, d \notin overtaken' PROVE Holds(d)'
    <2>1. CASE d = c
      BY <1>2, <2>1, Zenon
    <2>2. CASE d # c /\ calls[d] # NoCall
      BY <1>2, <2>2, Watched, Zenon DEF Others
    <2>3. CASE d # c /\ calls[d] = NoCall
      BY <2>3, NoCallHolds, Zenon DEF Others
    <2> QED
      BY <2>1, <2>2, <2>3, Zenon
  <1> QED
    BY <1>1, <1>2, Zenon DEF CallInv, CallsFit, Guarded

(* A step that ends calls, or leaves them alone.                           *)
LEMMA EndingStep ==
    ASSUME CallInv, Observed, CallTypes', \A d \in Callers : calls'[d] \in {calls[d], NoCall}
    PROVE  CallInv'
  <1>1. ASSUME NEW d \in Callers PROVE CallFits(calls'[d])
    BY NoCallHolds, Zenon DEF CallInv, CallsFit
  <1>2. ASSUME NEW d \in Callers, d \notin overtaken' PROVE Holds(d)'
    <2>1. CASE calls'[d] = NoCall
      BY <2>1, NoCallHolds, Zenon
    <2>2. CASE calls'[d] # NoCall
      <3>1. calls'[d] = calls[d]
        BY <2>2, Zenon
      <3> QED
        BY <1>2, <2>2, <3>1, Watched, Zenon
    <2> QED
      BY <2>1, <2>2, Zenon
  <1> QED
    BY <1>1, <1>2, Zenon DEF CallInv, CallsFit, Guarded

(* A call that ends leaves nothing to guard.                               *)
LEMMA EndStep ==
    ASSUME CallInv, Observed, NEW c \in Callers, End(c)
    PROVE  CallInv'
  BY EndCall, EndingStep, Zenon DEF CallInv, Others

(* A step of no call keeps what the calls have found, save those it        *)
(* overtakes.                                                              *)
LEMMA SameStep ==
    ASSUME CallInv, Observed, UNCHANGED calls
    PROVE  CallInv'
  BY EndingStep, Zenon DEF CallInv, CallTypes

(* The record of a new call.                                               *)
LEMMA NewRecord ==
    ASSUME NEW q \in Requests, NEW s,
           s = [op |-> q.op, v |-> q.v, spec |-> q.spec, edition |-> q.edition,
                row |-> q.row, at |-> "start", found |-> NoRes(0), by |-> 0, list |-> NoList]
    PROVE  s \in CallRecords /\ s.at = "start" /\ SameRequest(s, q)
  <1> DEFINE R == [op : Verbs, v : {0} \cup Versions, spec : {0} \cup DOMAIN Documents,
                   edition : EditionIds, row : Rows]
  <1>1. q \in R
    BY Zenon DEF Requests
  <1>2. NoRes(0) \in Resources
    BY SMT DEF NoRes, Resources
  <1>3. 0 \in EditionIds \cup {1} /\ NoList \in Copies \cup {NoList} /\ "start" \in Places
    BY Zenon DEF EditionIds, Places
  <1> QED
    BY <1>1, <1>2, <1>3, SMT DEF CallRecords, SameRequest

(* What the menu of a deployment offers is a request.                      *)
LEMMA MenuRequests ==
    ASSUME bounds \in Budgets, NEW q \in Plan.menu
    PROVE  q \in Requests
  <1>1. bounds.plan \in DOMAIN Deployments
    BY SMT DEF Budgets
  <1> QED
    BY <1>1, DeploymentsAssumption, Zenon DEF Plan

(* A request of a version names one.                                       *)
LEMMA RequestFits ==
    ASSUME NEW q \in Requests, NEW s, SameRequest(s, q), s.at = "start"
    PROVE  CallFits(s)
  <1>1. /\ q.v \in {0} \cup Versions /\ q.spec \in {0} \cup DOMAIN Documents /\ q.edition \in EditionIds
        /\ q.op \notin {"rollback", "remove"} => q.v # 0
        /\ q.op = "apply" => q.spec # 0
        /\ q.op = "publish" => q.edition # 0
    BY SMT DEF Requests
  <1> QED
    BY <1>1, Zenon DEF CallFits, SameRequest, EditionIds

(* A call that begins has found nothing yet.                               *)
LEMMA CallCalls ==
    ASSUME KindTypes, CallInv, Observed, NEW c \in Callers, NEW q \in Plan.menu, Call(c, q)
    PROVE  CallInv'
  <1> DEFINE s == [op |-> q.op, v |-> q.v, spec |-> q.spec, edition |-> q.edition,
                   row |-> q.row, at |-> "start", found |-> NoRes(0), by |-> 0, list |-> NoList]
  <1>1. q \in Requests
    BY MenuRequests, Zenon DEF KindTypes
  <1>2. calls' = [calls EXCEPT ![c] = s]
    BY Zenon DEF Call
  <1>3. s \in CallRecords /\ s.at = "start" /\ SameRequest(s, q)
    BY <1>1, NewRecord, Zenon
  <1> HIDE DEF s
  <1>4. CallTypes' /\ Others(c) /\ calls'[c] = s
    BY <1>2, <1>3, PutCall, Zenon DEF CallInv
  <1>5. CallFits(calls'[c])
    BY <1>1, <1>3, <1>4, RequestFits, Zenon
  <1>6. Holds(c)'
    BY <1>3, <1>4, Zenon DEF Holds
  <1> QED
    BY <1>4, <1>5, <1>6, OwnStep, Zenon

(* A call that moves on, to a place where what it has checked holds.       *)
LEMMA StepCalls ==
    ASSUME CallInv, Observed, NEW c \in Callers, calls[c].op \in Verbs, NEW x \in Places, Step(c, x),
           calls[c].op = "apply" => calls[c].at \in {"gate", "write"},
           c \notin overtaken' => Holds(c)'
    PROVE  CallInv'
  <1>1. /\ CallTypes' /\ Others(c) /\ SameRequest(calls'[c], calls[c])
        /\ calls'[c].by = calls[c].by
    BY StepCall, Zenon DEF CallInv
  <1>2. CallFits(calls[c])
    BY Zenon DEF CallInv, CallsFit
  <1>3. CallFits(calls'[c])
    BY <1>1, <1>2, Zenon DEF CallFits, SameRequest
  <1> QED
    BY <1>1, <1>3, OwnStep, Zenon

(* The edge checks the spec, and looks up the resource.                    *)
LEMMA ResolveCalls ==
    ASSUME KindTypes, CallInv, Observed, NEW c \in Callers, Resolve(c)
    PROVE  CallInv'
  <1> DEFINE q == calls[c]
             edge == seen[Home[c]]
             x == IF res.ver = q.v THEN "write" ELSE "gate"
  <1>1. CASE End(c)
    BY <1>1, EndStep, Zenon
  <1>2. CASE /\ Fits(edge, q.v, q.spec)
             /\ calls' = [calls EXCEPT ![c].at = x, ![c].found = res, ![c].by = edge[q.v]]
    <2>1. q.op = "apply" /\ q.at = "start" /\ q.op \in Verbs
      BY Zenon DEF Resolve, At, Verbs
    <2>2. CallFits(q)
      BY Zenon DEF CallInv, CallsFit
    <2>3. q.v \in Versions /\ q.spec \in DOMAIN Documents
      BY <2>1, <2>2, Zenon DEF CallFits
    <2>4. edge \in Copies
      BY DeploymentsAssumption, Zenon DEF KindTypes
    <2>5. edge[q.v] \in EditionIds
      BY <2>3, <2>4, Zenon DEF Copies
    <2>6. res \in Resources /\ x \in Places
      BY Zenon DEF KindTypes, Places
    <2>12. Resolved(c, x, res, edge[q.v])
      BY <1>2, Zenon DEF Resolved
    <2> HIDE DEF x, edge
    <2>13. CallTypes /\ calls[c].op \in Verbs
      BY <2>1, Zenon DEF CallInv
    <2>7. LookedUp(c, x, res, edge[q.v])
      BY <2>12, <2>13, <2>5, <2>6, ResolveCall, Zenon
    <2>8. CallFits(calls'[c])
      BY <1>2, <2>1, <2>3, <2>5, <2>7, Zenon DEF LookedUp, CallFits, SameRequest, Fits, EditionIds
    <2>9. res' = res
      BY Zenon DEF Resolve, apiVars
    <2>10. x = "write" => res.ver = q.v
      BY Zenon DEF x
    <2>11. Holds(c)'
      BY <2>1, <2>7, <2>9, <2>10, Zenon DEF LookedUp, Holds, SameRequest
    <2> QED
      BY <2>7, <2>8, <2>11, OwnStep, Zenon DEF LookedUp
  <1> QED
    BY <1>1, <1>2, Zenon DEF Resolve

(* What a call that is under way, and stays so, was before.                *)
LEMMA StillGuarded ==
    ASSUME CallInv, Observed, NEW c \in Callers, calls[c].op \in Verbs, CallTypes', calls'[c].op \in Verbs,
           c \notin overtaken'
    PROVE  Holds(c)
  <1>1. calls[c] # NoCall
    BY UnderWay, Zenon DEF CallInv
  <1>2. calls'[c] # NoCall
    BY DEF NoCall, Verbs
  <1> QED
    BY <1>1, <1>2, StaysOvertaken, Zenon DEF CallInv, Guarded

(* The gate of retired versions: a read that fails is noted.               *)
LEMMA RetirementCalls ==
    ASSUME KindTypes, CallInv, Observed, NEW c \in Callers, RetirementGate(c)
    PROVE  CallInv'
  <1>1. /\ calls[c].op = "apply" /\ calls[c].at = "gate" /\ calls[c].op \in Verbs
        /\ UNCHANGED <<res, config>> /\ "write" \in Places
    BY Zenon DEF RetirementGate, At, Verbs, apiVars, Places
  <1>2. CASE End(c)
    BY <1>2, EndStep, Zenon
  <1>3. CASE Step(c, "write") /\ (~Retired(calls[c].v) \/ Spend("faults"))
    <2>1. /\ CallTypes' /\ SameRequest(calls'[c], calls[c]) /\ calls'[c].at = "write"
          /\ calls'[c].found = calls[c].found
      BY <1>1, <1>3, StepCall, Zenon DEF CallInv
    <2>2. calls'[c].op \in Verbs
      BY <1>1, <2>1, Zenon DEF SameRequest
    <2>3. ASSUME c \notin overtaken' PROVE Holds(c)'
      <3>1. CASE ~Retired(calls[c].v)
        <4>1. Holds(c)
          BY <1>1, <2>1, <2>2, <2>3, StillGuarded, Zenon
        <4>2. res.id = calls[c].found.id /\ res.ver = calls[c].found.ver
          BY <1>1, <4>1, Zenon DEF Holds
        <4> QED
          BY <1>1, <2>1, <3>1, <4>2, Zenon DEF Holds, SameRequest, Retired
      <3>2. CASE Spend("faults")
        <4>1. bounds'.faults < bounds.faults
          BY <3>2, SpendBudget, Zenon DEF KindTypes
        <4>2. calls[c] # NoCall
          BY <1>1, UnderWay, Zenon DEF CallInv
        <4>3. calls'[c] # NoCall
          BY <2>2 DEF NoCall, Verbs
        <4> QED
          BY <2>3, <4>1, <4>2, <4>3, Watched, Zenon
      <3> QED
        BY <1>3, <3>1, <3>2, Zenon
    <2> QED
      BY <1>1, <1>3, <2>3, StepCalls, Zenon
  <1> QED
    BY <1>2, <1>3, Zenon DEF RetirementGate

(* The publish gate.                                                       *)
LEMMA SchemaCalls ==
    ASSUME KindTypes, CallInv, Observed, NEW c \in Callers, SchemaGate(c)
    PROVE  CallInv'
  <1>1. /\ calls[c].op = "publish" /\ calls[c].op \in Verbs
        /\ UNCHANGED manifest /\ "write" \in Places
    BY Zenon DEF SchemaGate, At, Verbs, apiVars, Places
  <1>2. CASE End(c)
    BY <1>2, EndStep, Zenon
  <1>3. CASE Step(c, "write") /\ Republishable(manifest[calls[c].v], calls[c].edition)
    <2>1. SameRequest(calls'[c], calls[c])
      BY <1>1, <1>3, StepCall, Zenon DEF CallInv
    <2>2. Holds(c)'
      BY <1>1, <1>3, <2>1, Zenon DEF Holds, SameRequest
    <2> QED
      BY <1>1, <1>3, <2>2, StepCalls, Zenon
  <1> QED
    BY <1>2, <1>3, Zenon DEF SchemaGate

(* A publish that has committed has no checks left, nor has a delete.      *)
LEMMA RebuildCalls ==
    ASSUME KindTypes, CallInv, Observed, NEW c \in Callers, calls[c].op \in {"publish", "delete"},
           Step(c, "rebuild")
    PROVE  CallInv'
  <1>1. calls[c].op \in Verbs /\ calls[c].op # "apply" /\ "rebuild" \in Places
    BY Zenon DEF Verbs, Places
  <1>2. SameRequest(calls'[c], calls[c]) /\ calls'[c].at = "rebuild"
    BY <1>1, StepCall, Zenon DEF CallInv
  <1>3. Holds(c)'
    BY <1>2, Zenon DEF Holds, SameRequest
  <1> QED
    BY <1>1, <1>3, StepCalls, Zenon

(* The guards of a delete.                                                 *)
LEMMA GuardCalls ==
    ASSUME KindTypes, CallInv, Observed, NEW c \in Callers, DeleteGuards(c)
    PROVE  CallInv'
  <1>1. /\ calls[c].op = "delete" /\ calls[c].op \in Verbs
        /\ UNCHANGED <<res, pins>> /\ "lock" \in Places
    BY Zenon DEF DeleteGuards, At, Verbs, apiVars, Places
  <1>2. CASE End(c)
    BY <1>2, EndStep, Zenon
  <1>3. CASE Step(c, "lock") /\ ~InUse(calls[c].v)
    <2>1. SameRequest(calls'[c], calls[c])
      BY <1>1, <1>3, StepCall, Zenon DEF CallInv
    <2>2. Holds(c)'
      BY <1>1, <1>3, <2>1, Zenon DEF Holds, SameRequest, InUse
    <2> QED
      BY <1>1, <1>3, <2>2, StepCalls, Zenon
  <1> QED
    BY <1>2, <1>3, Zenon DEF DeleteGuards

(* A delete locks the policy; what its guards found must hold on.          *)
LEMMA LockCalls ==
    ASSUME KindTypes, CallInv, Observed, NEW c \in Callers, DeleteConfig(c)
    PROVE  CallInv'
  <1> DEFINE b == IF config[calls[c].v] = NoRow THEN 0 ELSE 1
  <1>1. /\ calls[c].op = "delete" /\ calls[c].at = "lock" /\ calls[c].op \in Verbs
        /\ UNCHANGED <<res, pins>> /\ "write" \in Places
    BY Zenon DEF DeleteConfig, At, Verbs, apiVars, Places
  <1>2. Holding(c, "write", b) /\ b \in {0, 1}
    BY Zenon DEF DeleteConfig, Holding
  <1> HIDE DEF b
  <1>3. Held(c, "write", b)
    BY <1>1, <1>2, LockCall, Zenon DEF CallInv
  <1>4. CallFits(calls[c])
    BY Zenon DEF CallInv, CallsFit
  <1>5. CallFits(calls'[c]) /\ calls'[c].op \in Verbs /\ CallTypes' /\ Others(c)
    BY <1>1, <1>3, <1>4, Zenon DEF CallFits, Held, SameRequest
  <1>6. ASSUME c \notin overtaken' PROVE Holds(c)'
    <2>1. Holds(c)
      BY <1>1, <1>5, <1>6, StillGuarded, Zenon
    <2> QED
      BY <1>1, <1>3, <2>1, Zenon DEF Holds, Held, SameRequest
  <1> QED
    BY <1>5, <1>6, OwnStep, Zenon

(* A call lists the manifests; its checks are behind it.                   *)
LEMMA ListCalls ==
    ASSUME KindTypes, CallInv, Observed, NEW c \in Callers, CallLists(c)
    PROVE  CallInv'
  <1>1. CASE End(c)
    BY <1>1, EndStep, Zenon
  <1>2. CASE calls' = [calls EXCEPT ![c].list = manifest]
    <2>1. calls[c] # NoCall /\ calls[c].at = "rebuild"
      BY Zenon DEF CallLists, Rebuilding
    <2>2. calls[c] \in CallRecords
      BY <2>1, Zenon DEF CallInv, CallTypes
    <2>3. calls[c].op \in Verbs
      BY <2>2, SMT DEF CallRecords
    <2>4. /\ CallTypes' /\ Others(c) /\ SameRequest(calls'[c], calls[c])
          /\ calls'[c].at = "rebuild"
      BY <1>2, <2>1, <2>3, ListCall, Zenon DEF KindTypes
    <2>5. CallFits(calls[c])
      BY Zenon DEF CallInv, CallsFit
    <2>6. CallFits(calls'[c]) /\ Holds(c)'
      BY <2>4, <2>5, Zenon DEF CallFits, Holds, SameRequest
    <2> QED
      BY <2>4, <2>6, OwnStep, Zenon
  <1> QED
    BY <1>1, <1>2, Zenon DEF CallLists

(* No step breaks what the calls rest on.                                  *)
LEMMA CallsStep ==
    ASSUME KindTypes, CallInv, Steps, Observed
    PROVE  CallInv'
  <1>1. ASSUME NEW c \in Callers, CallStep(c) PROVE CallInv'
    <2>1. CASE Write(c) \/ Rollback(c) \/ Remove(c) \/ EditConfig(c) \/ Bind(c) \/ CallStores(c)
      <3>1. End(c)
        BY <2>1, Zenon DEF Write, Rollback, Remove, EditConfig, Bind, CallStores
      <3> QED
        BY <3>1, EndStep, Zenon
    <2>2. CASE Publish(c)
      <3>1. calls[c].op = "publish" /\ Step(c, "rebuild")
        BY <2>2, Zenon DEF Publish, At
      <3> QED
        BY <3>1, RebuildCalls, Zenon
    <2>3. CASE Delete(c)
      <3>1. calls[c].op = "delete" /\ (End(c) \/ Step(c, "rebuild"))
        BY <2>3, Zenon DEF Delete, At
      <3> QED
        BY <3>1, RebuildCalls, EndStep, Zenon
    <2> QED
      BY <1>1, <2>1, <2>2, <2>3, ResolveCalls, RetirementCalls, SchemaCalls, GuardCalls, LockCalls, ListCalls, Zenon
         DEF CallStep
  <1>2. ASSUME NEW c \in Callers, NEW d \in Callers, Deadlock(c, d) PROVE CallInv'
    BY <1>2, EndStep, Zenon DEF Deadlock
  <1>3. CASE UNCHANGED calls
    BY <1>3, SameStep, Zenon
  <1>4. ASSUME NEW a \in Replicas, Restart(a) PROVE CallInv'
    <2>1. calls' = [c \in Callers |-> IF Home[c] = a THEN NoCall ELSE calls[c]]
      BY <1>4, Zenon DEF Restart
    <2>2. CallTypes' /\ \A d \in Callers : calls'[d] \in {calls[d], NoCall}
      BY <2>1, SMT DEF CallInv, CallTypes
    <2> QED
      BY <2>2, EndingStep, Zenon
  <1>5. CASE Crash
    <2>1. \A c \in Callers : calls'[c] \in {calls[c], NoCall}
      BY <1>5, Zenon DEF Crash
    <2>2. calls' = [c \in Callers |-> calls'[c]]
      BY <1>5, Zenon DEF Crash
    <2>3. CallTypes'
      BY <2>1, <2>2, SMT DEF CallInv, CallTypes
    <2> QED
      BY <2>1, <2>3, EndingStep, Zenon
  <1>6. ASSUME NEW x \in Processes, ReloadLists(x) \/ ReloadStores(x) PROVE UNCHANGED calls
    BY <1>6, Zenon DEF ReloadLists, ReloadStores
  <1>7. ASSUME NEW b \in Brokers, NEW v \in Versions, MissFill(b, v) PROVE UNCHANGED calls
    BY <1>7, Zenon DEF MissFill
  <1> QED
    BY <1>1, <1>2, <1>3, <1>4, <1>5, <1>6, <1>7, CallCalls, Zenon DEF Steps

-----------------------------------------------------------------------------
(* The manifests, the resource and its revisions.                          *)

PolicyTypes == config \in [Versions -> Rows \cup {NoRow}]
DataTypes == manifest \in Copies /\ PolicyTypes /\ res \in Resources /\ history \subseteq Revisions /\ excused \in BOOLEAN
DataInv == DataTypes /\ OnVersion /\ SpecFits /\ HistoryFits /\ HasRow

(* What a widened edition does to a document that fitted.                  *)
LEMMA StillFits ==
    ASSUME NEW i \in EditionIds, NEW j \in EditionIds, NEW d \in DOMAIN Documents,
           Widens(i, j), Validates(Editions[i].spec, Documents[d])
    PROVE  j # 0 /\ Validates(Editions[j].spec, Documents[d])
  <1>1. i \in DOMAIN Editions /\ j \in DOMAIN Editions /\ j # 0
    BY Zenon DEF Widens, EditionIds
  <1> QED
    BY <1>1, LinterSound, Zenon

(* The fields of a resource.                                               *)
LEMMA ResourceFields ==
    ASSUME NEW r \in Resources
    PROVE  r.id \in Nat /\ r.ver \in {0} \cup Versions /\ r.spec \in {0} \cup DOMAIN Documents
  BY SMT DEF Resources

(* A resource with another spec.                                           *)
LEMMA SetSpec ==
    ASSUME NEW r \in Resources, NEW x \in {0} \cup DOMAIN Documents, NEW s, s = [r EXCEPT !.spec = x]
    PROVE  s \in Resources /\ s.ver = r.ver /\ s.spec = x
  BY SMT DEF Resources

(* A resource at another version.                                          *)
LEMMA SetVer ==
    ASSUME NEW r \in Resources, NEW x \in {0} \cup Versions, NEW s, s = [r EXCEPT !.ver = x]
    PROVE  s \in Resources /\ s.ver = x
  BY SMT DEF Resources

(* A resource that is created, and one that is no more.                    *)
LEMMA NewResource ==
    ASSUME NEW i \in Nat, NEW v \in {0} \cup Versions, NEW d \in {0} \cup DOMAIN Documents,
           NEW s, s = [id |-> i, ver |-> v, spec |-> d]
    PROVE  s \in Resources /\ s.ver = v /\ s.spec = d
  BY SMT DEF Resources

(* A revision of a resource.                                               *)
LEMMA RevisionRecord ==
    ASSUME NEW r, r.ver \in Versions, r.spec \in DOMAIN Documents, NEW ex \in BOOLEAN
    PROVE  /\ Revision(r, ex) \in Revisions /\ Revision(r, ex).ver = r.ver
           /\ Revision(r, ex).spec = r.spec /\ Revision(r, ex).excused = ex
  BY SMT DEF Revision, Revisions

(* Where a write puts the resource: on the version it names, unless        *)
(* another call has overtaken it or nothing is written.                    *)
LEMMA WrittenResource ==
    ASSUME res \in Resources, OnVersion, NEW c \in Callers, calls[c].v \in Versions, calls[c].spec \in DOMAIN Documents
    PROVE  LET r == Written(calls[c]) IN
           /\ r \in Resources
           /\ r # res => r.ver # 0 /\ r.spec = calls[c].spec
           /\ r # res /\ res.ver = calls[c].found.ver => r.ver = calls[c].v
           /\ r.ver \in {res.ver, calls[c].v}
           /\ r.ver # 0 => r.spec \in DOMAIN Documents
  <1> DEFINE q == calls[c]
             r0 == [res EXCEPT !.ver = q.v]
             r1 == [r0 EXCEPT !.spec = q.spec]
             r2 == [id |-> res.id + 1, ver |-> q.v, spec |-> q.spec]
             r3 == [res EXCEPT !.spec = q.spec]
  <1>1. /\ r1 \in Resources /\ r2 \in Resources /\ r3 \in Resources
        /\ r1.ver = q.v /\ r1.spec = q.spec /\ r2.ver = q.v /\ r2.spec = q.spec
        /\ r3.ver = res.ver /\ r3.spec = q.spec
    <2>1. q.v \in {0} \cup Versions /\ q.spec \in {0} \cup DOMAIN Documents
      OBVIOUS
    <2>2. r0 \in Resources /\ r0.ver = q.v
      BY <2>1, SetVer, Zenon
    <2> HIDE DEF r0
    <2>3. r1 \in Resources /\ r1.ver = q.v /\ r1.spec = q.spec
      BY <2>1, <2>2, SetSpec, SMT
    <2>4. res.id + 1 \in Nat
      BY ResourceFields
    <2>5. r2 \in Resources /\ r2.ver = q.v /\ r2.spec = q.spec
      BY <2>1, <2>4, SMT DEF Resources
    <2>6. r3 \in Resources /\ r3.ver = res.ver /\ r3.spec = q.spec
      BY <2>1, SetSpec, SMT
    <2> QED
      BY <2>3, <2>5, <2>6, Zenon
  <1>2. q.v # 0
    BY DeploymentsAssumption
  <1>3. \/ Written(q) = res
        \/ Written(q) = r1
        \/ Written(q) = r2 /\ res.ver = 0
        \/ Written(q) = r3 /\ res.ver # 0 /\ q.found.ver \in {0, q.v}
    BY Zenon DEF Written, Flips
  <1> HIDE DEF r0, r1, r2, r3
  <1> QED
    BY <1>1, <1>2, <1>3, Zenon DEF OnVersion

(* What a call under way brings.                                           *)
LEMMA CallBrings ==
    ASSUME CallInv, NEW c \in Callers, calls[c].op \in Verbs
    PROVE  /\ calls[c].row \in Rows /\ calls[c].by \in EditionIds \cup {1}
           /\ CallFits(calls[c]) /\ (c \notin overtaken => Holds(c))
  <1>1. calls[c] \in CallRecords
    BY UnderWay, Zenon DEF CallInv
  <1>2. calls[c].row \in Rows /\ calls[c].by \in EditionIds \cup {1}
    BY <1>1, SMT DEF CallRecords
  <1> QED
    BY <1>2, Zenon DEF CallInv, CallsFit, Guarded

(* The gateway lets a write pass, and one of the editions that the spec    *)
(* was checked against stands for the published one.                       *)
LEMMA VouchedFits ==
    ASSUME KindTypes, CallInv, NEW c \in Callers, At(c, "apply", "write"),
           Fits(gateway[Home[c]], calls[c].v, calls[c].spec),
           Vouched({calls[c].by, gateway[Home[c]][calls[c].v]}, calls[c].v)
    PROVE  Fitting(calls[c].v, calls[c].spec)
  <1> DEFINE q == calls[c]
             validator == gateway[Home[c]]
  <1>1. q.op = "apply" /\ q.at = "write" /\ q.op \in Verbs
    BY Zenon DEF At, Verbs
  <1>2. CallFits(q)
    BY <1>1, CallBrings, Zenon
  <1>3. q.v \in Versions /\ q.spec \in DOMAIN Documents
    BY <1>1, <1>2, Zenon DEF CallFits
  <1>4. validator \in Copies /\ manifest \in Copies
    BY DeploymentsAssumption, Zenon DEF KindTypes
  <1>5. validator[q.v] \in EditionIds /\ manifest[q.v] \in EditionIds
    BY <1>3, <1>4, Zenon DEF Copies
  <1> HIDE DEF validator
  <1>6. PICK e \in {q.by, validator[q.v]} : Widens(e, manifest[q.v])
    BY Zenon DEF Vouched, validator
  <1>7. e # 0
    BY <1>6, Zenon DEF Widens
  <1>8. e \in EditionIds /\ Validates(Editions[e].spec, Documents[q.spec])
    <2>1. CASE e = q.by
      BY <1>1, <1>2, <1>7, <2>1, Zenon DEF CallFits, EditionIds
    <2>2. CASE e = validator[q.v]
      BY <1>5, <1>7, <2>2, Zenon DEF Fits, validator
    <2> QED
      BY <2>1, <2>2, Zenon
  <1> QED
    BY <1>3, <1>5, <1>6, <1>8, StillFits, Zenon DEF Fitting

(* A write.                                                                *)
LEMMA WriteData ==
    ASSUME KindTypes, CallInv, DataInv, NEW c \in Callers, Write(c)
    PROVE  DataInv'
  <1> DEFINE q == calls[c]
             validator == gateway[Home[c]]
             ex == c \in overtaken \/ ~Vouched({q.by, validator[q.v]}, q.v)
  <1>1. q.op = "apply" /\ q.at = "write" /\ q.op \in Verbs /\ At(c, "apply", "write")
    BY Zenon DEF Write, At, Verbs
  <1>2. CallFits(q) /\ (c \notin overtaken => Holds(c))
    BY <1>1, CallBrings, Zenon
  <1>3. q.v \in Versions /\ q.spec \in DOMAIN Documents
    BY <1>1, <1>2, Zenon DEF CallFits
  <1>4. UNCHANGED <<manifest, config>>
    BY Zenon DEF Write
  <1>5. CASE UNCHANGED <<res, history, excused>>
    BY <1>4, <1>5, Zenon DEF DataInv, DataTypes, PolicyTypes, OnVersion, SpecFits, HistoryFits, HasRow, Fitting
  <1>6. CASE /\ Fits(validator, q.v, q.spec) /\ res' = Written(q) /\ res' # res /\ excused' = ex
             /\ \/ history' = history
                \/ history' = history \cup {Revision(res', excused')}
    <2>1. /\ res' \in Resources /\ res'.ver # 0 /\ res'.spec = q.spec /\ res'.spec \in DOMAIN Documents
          /\ res.ver = q.found.ver => res'.ver = q.v
      BY <1>3, <1>6, WrittenResource, Zenon DEF DataInv, DataTypes
    <2>2. res'.ver \in Versions
      BY <2>1, ResourceFields, Zenon
    <2>3. excused' \in BOOLEAN
      BY <1>6, Zenon
    <2>4. ASSUME ~excused' PROVE Fitting(res'.ver, res'.spec)
      <3>1. c \notin overtaken /\ Vouched({q.by, validator[q.v]}, q.v)
        BY <1>6, <2>4, Zenon
      <3>2. res.ver = q.found.ver
        BY <1>1, <1>2, <3>1, Zenon DEF Holds
      <3>3. Fitting(q.v, q.spec)
        BY <1>1, <1>6, <3>1, VouchedFits, Zenon
      <3> QED
        BY <2>1, <3>2, <3>3, Zenon
    <2> HIDE DEF ex
    <2>5. /\ Revision(res', excused') \in Revisions /\ Revision(res', excused').ver = res'.ver
          /\ Revision(res', excused').spec = res'.spec /\ Revision(res', excused').excused = excused'
      BY <2>1, <2>2, <2>3, RevisionRecord, Zenon
    <2>6. history' \subseteq Revisions
      BY <1>6, <2>5, Zenon DEF DataInv, DataTypes
    <2>7. HistoryFits'
      BY <1>4, <1>6, <2>4, <2>5, Zenon DEF DataInv, HistoryFits, Fitting
    <2>8. SpecFits' /\ OnVersion'
      BY <1>4, <2>1, <2>4, Zenon DEF SpecFits, Fitting, OnVersion
    <2>9. HasRow' /\ DataTypes'
      BY <1>4, <2>1, <2>3, <2>6, Zenon DEF DataInv, DataTypes, PolicyTypes, HasRow
    <2> QED
      BY <2>7, <2>8, <2>9, Zenon DEF DataInv
  <1> QED
    BY <1>5, <1>6, Zenon DEF Write

(* A revision that is excused.                                             *)
LEMMA SetExcused ==
    ASSUME NEW h \in Revisions, NEW x \in BOOLEAN, NEW s, s = [h EXCEPT !.excused = x]
    PROVE  s \in Revisions /\ s.ver = h.ver /\ s.spec = h.spec /\ s.excused = x
  BY SMT DEF Revisions

(* The fields of a revision.                                               *)
LEMMA RevisionFields ==
    ASSUME NEW h \in Revisions
    PROVE  h.ver \in Versions /\ h.spec \in DOMAIN Documents /\ h.excused \in BOOLEAN
  BY SMT DEF Revisions

(* A rollback brings back a spec that fits when its version is the same.   *)
LEMMA RollbackData ==
    ASSUME DataInv, NEW c \in Callers, Rollback(c)
    PROVE  DataInv'
  <1>1. UNCHANGED <<manifest, config, history>>
    BY Zenon DEF Rollback
  <1>2. CASE UNCHANGED <<res, excused>>
    BY <1>1, <1>2, Zenon DEF DataInv, DataTypes, PolicyTypes, OnVersion, SpecFits, HistoryFits, HasRow, Fitting
  <1>3. ASSUME NEW h \in history, res' = [res EXCEPT !.spec = h.spec], excused' = (h.excused \/ h.ver # res.ver)
        PROVE  DataInv'
    <2>1. h \in Revisions
      BY Zenon DEF DataInv, DataTypes
    <2>2. h.ver \in Versions /\ h.spec \in DOMAIN Documents /\ h.excused \in BOOLEAN
      BY <2>1, RevisionFields, Zenon
    <2>3. h.spec \in {0} \cup DOMAIN Documents
      BY <2>2, Zenon
    <2>4. res' \in Resources /\ res'.ver = res.ver /\ res'.spec = h.spec
      <3>1. res \in Resources
        BY Zenon DEF DataInv, DataTypes
      <3> QED
        BY <1>3, <2>3, <3>1, SetSpec, SMT
    <2>5. excused' \in BOOLEAN
      BY <1>3, Zenon
    <2>6. SpecFits' /\ OnVersion'
      BY <1>1, <1>3, <2>2, <2>4, Zenon DEF DataInv, HistoryFits, SpecFits, Fitting, OnVersion
    <2>7. HistoryFits' /\ HasRow'
      BY <1>1, Zenon DEF DataInv, HistoryFits, Fitting, HasRow
    <2>8. DataTypes'
      BY <1>1, <2>4, <2>5, Zenon DEF DataInv, DataTypes, PolicyTypes
    <2> QED
      BY <2>6, <2>7, <2>8, Zenon DEF DataInv
  <1> QED
    BY <1>2, <1>3, Zenon DEF Rollback

(* The resource is removed with its revisions.                             *)
LEMMA RemoveData ==
    ASSUME DataInv, NEW c \in Callers, Remove(c)
    PROVE  DataInv'
  <1>1. UNCHANGED <<manifest, config>> /\ res' = NoRes(res.id) /\ history' = {} /\ excused' = FALSE
    BY Zenon DEF Remove
  <1>2. res' \in Resources /\ res'.ver = 0
    <2>1. res.id \in Nat
      BY ResourceFields, Zenon DEF DataInv, DataTypes
    <2> QED
      BY <1>1, <2>1, SMT DEF NoRes, Resources
  <1> QED
    BY <1>1, <1>2, Zenon DEF DataInv, DataTypes, PolicyTypes, OnVersion, SpecFits, HistoryFits, HasRow

FitsInv == OnVersion /\ SpecFits /\ HistoryFits /\ history \subseteq Revisions /\ excused \in BOOLEAN

(* The editions widen, and whatever fitted fits.                           *)
LEMMA WidenedFits ==
    ASSUME FitsInv, res \in Resources, UNCHANGED <<res, history, excused>>,
           \A v \in Versions, d \in DOMAIN Documents : Fitting(v, d) => Fitting(v, d)'
    PROVE  FitsInv'
  <1>1. res.ver \in {0} \cup Versions
    BY ResourceFields, Zenon
  <1>2. SpecFits'
    BY <1>1, Zenon DEF FitsInv, SpecFits, OnVersion, Fitting
  <1>3. \A h \in history : h.ver \in Versions /\ h.spec \in DOMAIN Documents
    BY RevisionFields, Zenon DEF FitsInv
  <1>4. HistoryFits'
    BY <1>3, Zenon DEF FitsInv, HistoryFits, Fitting
  <1> QED
    BY <1>2, <1>4, Zenon DEF FitsInv, OnVersion

(* What fitted the editions of a version is excused.                       *)
LEMMA ForfeitedFits ==
    ASSUME FitsInv, UNCHANGED res, NEW v, Forfeit(v), NEW e, manifest \in Copies,
           manifest' = [manifest EXCEPT ![v] = e], res \in Resources
    PROVE  FitsInv'
  <1>1. \A w \in Versions : w # v => manifest'[w] = manifest[w]
    BY Zenon DEF Copies
  <1>2. res.ver \in {0} \cup Versions
    BY ResourceFields, Zenon
  <1>3. excused' \in BOOLEAN /\ (~excused' => ~excused /\ res.ver # v)
    BY Zenon DEF Forfeit
  <1>4. SpecFits' /\ OnVersion'
    BY <1>1, <1>2, <1>3, Zenon DEF FitsInv, SpecFits, OnVersion
  <1>5. ASSUME NEW k \in history'
        PROVE  k \in Revisions /\ (~k.excused => Fitting(k.ver, k.spec)')
    <2>1. PICK h \in history : k = [h EXCEPT !.excused = h.excused \/ h.ver = v]
      BY <1>5, Zenon DEF Forfeit
    <2>2. h \in Revisions
      BY Zenon DEF FitsInv
    <2>3. h.ver \in Versions /\ h.excused \in BOOLEAN
      BY <2>2, RevisionFields, Zenon
    <2> DEFINE x == h.excused \/ h.ver = v
    <2>4. x \in BOOLEAN /\ k = [h EXCEPT !.excused = x]
      BY <2>1, Zenon
    <2> HIDE DEF x
    <2>5. k \in Revisions /\ k.ver = h.ver /\ k.spec = h.spec /\ k.excused = x
      BY <2>2, <2>4, SetExcused, SMT
    <2>6. ASSUME ~k.excused PROVE Fitting(k.ver, k.spec)'
      <3>1. ~h.excused /\ h.ver # v
        BY <2>3, <2>5, <2>6, Zenon DEF x
      <3>2. Fitting(h.ver, h.spec)
        BY <3>1, Zenon DEF FitsInv, HistoryFits
      <3> QED
        BY <1>1, <2>3, <2>5, <3>1, <3>2, Zenon DEF Fitting
    <2> QED
      BY <2>5, <2>6, Zenon
  <1> QED
    BY <1>3, <1>4, <1>5, Zenon DEF FitsInv, HistoryFits, Fitting

(* A policy is a row.                                                      *)
LEMMA RowsAreRows == NoRow \notin Rows
  BY SMT DEF NoRow, Rows

(* A publish: the documents fit the new edition, or are excused, and the   *)
(* manifest has its row.                                                   *)
LEMMA PublishData ==
    ASSUME CallInv, DataInv, NEW c \in Callers, Publish(c)
    PROVE  DataInv'
  <1> DEFINE q == calls[c]
  <1>1. q.op = "publish" /\ q.op \in Verbs
    BY Zenon DEF Publish, At, Verbs
  <1>2. q.v \in Versions /\ q.edition \in DOMAIN Editions /\ q.row \in Rows /\ q.row # NoRow
    BY <1>1, CallBrings, RowsAreRows, Zenon DEF CallFits
  <1>3. q.edition \in EditionIds
    BY <1>2, Zenon DEF EditionIds
  <1>4. /\ manifest' = [manifest EXCEPT ![q.v] = q.edition] /\ config' = Synced(q.v, q.row) /\ UNCHANGED res
        /\ manifest \in Copies /\ PolicyTypes /\ res \in Resources
    BY Zenon DEF Publish, DataInv, DataTypes
  <1> HIDE DEF q
  <1>5. manifest' \in Copies
    BY <1>2, <1>3, <1>4, Zenon DEF Copies
  <1>6. PolicyTypes'
    BY <1>2, <1>4, Zenon DEF PolicyTypes, Synced
  <1>7. HasRow'
    <2> SUFFICES ASSUME NEW v \in Versions, manifest'[v] # 0 PROVE config'[v] # NoRow
      BY Zenon DEF HasRow
    <2>1. CASE v = q.v
      BY <1>2, <1>4, <2>1, Zenon DEF Synced, PolicyTypes
    <2>2. CASE v # q.v
      <3>1. manifest'[v] = manifest[v] /\ config'[v] = config[v]
        BY <1>4, <2>2, Zenon DEF Synced, PolicyTypes, Copies
      <3> QED
        BY <3>1, Zenon DEF DataInv, HasRow
    <2> QED
      BY <2>1, <2>2, Zenon
  <1>8. FitsInv
    BY Zenon DEF DataInv, DataTypes, FitsInv
  <1>9. FitsInv'
    <2>1. CASE Forfeit(q.v)
      BY <1>4, <1>8, <2>1, ForfeitedFits, Zenon
    <2>2. CASE Widens(manifest[q.v], q.edition) /\ UNCHANGED <<excused, history>>
      <3>1. ASSUME NEW v \in Versions, NEW d \in DOMAIN Documents, Fitting(v, d) PROVE Fitting(v, d)'
        <4>1. CASE v # q.v
          <5>1. manifest'[v] = manifest[v]
            BY <1>4, <4>1, Zenon DEF Copies
          <5> QED
            BY <3>1, <5>1, Zenon DEF Fitting
        <4>2. CASE v = q.v
          <5>1. manifest'[v] = q.edition /\ manifest[v] \in EditionIds
            BY <1>4, <4>2, Zenon DEF Copies
          <5>2. Validates(Editions[manifest[v]].spec, Documents[d]) /\ Widens(manifest[v], q.edition)
            BY <2>2, <3>1, <4>2, Zenon DEF Fitting
          <5>3. q.edition # 0 /\ Validates(Editions[q.edition].spec, Documents[d])
            BY <1>3, <5>1, <5>2, StillFits, Zenon
          <5> QED
            BY <5>1, <5>3, Zenon DEF Fitting
        <4> QED
          BY <4>1, <4>2, Zenon
      <3> QED
        BY <1>4, <1>8, <2>2, <3>1, WidenedFits, Zenon
    <2> QED
      BY <2>1, <2>2, Zenon DEF Publish, q
  <1> QED
    BY <1>4, <1>5, <1>6, <1>7, <1>9, Zenon DEF DataInv, DataTypes, FitsInv

(* A delete takes the row with the manifest.                               *)
LEMMA DeleteData ==
    ASSUME CallInv, DataInv, NEW c \in Callers, Delete(c)
    PROVE  DataInv'
  <1> DEFINE q == calls[c]
  <1>1. q.op = "delete" /\ q.op \in Verbs
    BY Zenon DEF Delete, At, Verbs
  <1>2. q.v \in Versions
    BY <1>1, CallBrings, Zenon DEF CallFits
  <1>3. /\ manifest' = [manifest EXCEPT ![q.v] = 0] /\ config' \in {config, [config EXCEPT ![q.v] = NoRow]}
        /\ UNCHANGED res /\ Forfeit(q.v)
        /\ manifest \in Copies /\ PolicyTypes /\ res \in Resources
    BY Zenon DEF Delete, DataInv, DataTypes
  <1> HIDE DEF q
  <1>4. 0 \in EditionIds
    BY Zenon DEF EditionIds
  <1>5. manifest' \in Copies /\ PolicyTypes'
    BY <1>2, <1>3, <1>4, Zenon DEF Copies, PolicyTypes
  <1>6. HasRow'
    BY <1>2, <1>3, Zenon DEF DataInv, HasRow, Copies, PolicyTypes
  <1>7. FitsInv
    BY Zenon DEF DataInv, DataTypes, FitsInv
  <1>8. FitsInv'
    BY <1>3, <1>7, ForfeitedFits, Zenon
  <1> QED
    BY <1>3, <1>5, <1>6, <1>8, Zenon DEF DataInv, DataTypes, FitsInv

(* An operator's policy is a row too.                                      *)
LEMMA EditData ==
    ASSUME CallInv, DataInv, NEW c \in Callers, EditConfig(c)
    PROVE  DataInv'
  <1> DEFINE q == calls[c]
  <1>1. q.op = "config" /\ q.op \in Verbs
    BY Zenon DEF EditConfig, At, Verbs
  <1>2. q.v \in Versions /\ q.row \in Rows /\ q.row # NoRow
    BY <1>1, CallBrings, RowsAreRows, Zenon DEF CallFits
  <1>3. /\ UNCHANGED <<manifest, res, history, excused>> /\ config' \in {config, [config EXCEPT ![q.v] = q.row]}
        /\ PolicyTypes
    BY Zenon DEF EditConfig, apiVars, DataInv, DataTypes
  <1> HIDE DEF q
  <1>4. PolicyTypes'
    BY <1>2, <1>3, Zenon DEF PolicyTypes
  <1>5. HasRow'
    BY <1>2, <1>3, Zenon DEF DataInv, HasRow, PolicyTypes
  <1> QED
    BY <1>3, <1>4, <1>5, Zenon DEF DataInv, DataTypes, OnVersion, SpecFits, HistoryFits, Fitting

(* No step breaks what the data promise.                                   *)
LEMMA DataStep ==
    ASSUME KindTypes, CallInv, DataInv, Steps
    PROVE  DataInv'
  <1>1. CASE UNCHANGED <<manifest, config, res, history, excused>>
    BY <1>1, Zenon DEF DataInv, DataTypes, PolicyTypes, OnVersion, SpecFits, HistoryFits, HasRow, Fitting
  <1>2. ASSUME NEW c \in Callers, Bind(c) PROVE DataInv'
    BY <1>1, <1>2, Zenon DEF Bind
  <1> QED
    BY <1>1, <1>2, DataFrame, WriteData, RollbackData, RemoveData, PublishData, DeleteData, EditData, Zenon

-----------------------------------------------------------------------------
(* The copies of the manifests.                                            *)

CopyTypes ==
    /\ gateway \in [Replicas -> Copies]
    /\ reloads \in [Processes -> Copies \cup {NoList}]
    /\ seen = [x \in Processes |-> seen[x]] /\ \A a \in Replicas : seen[a] \in Copies

(* Whatever the copies are, a replica's holds editions only: the absences  *)
(* are remembered by brokers.                                              *)
LEMMA CopyStep ==
    ASSUME CallTypes, CopyTypes, manifest \in Copies, Steps
    PROVE  CopyTypes'
  <1>1. CASE UNCHANGED <<seen, gateway, reloads>>
    BY <1>1, Zenon DEF CopyTypes
  <1>2. ASSUME NEW c \in Callers, CallStores(c) PROVE CopyTypes'
    <2>1. calls[c] # NoCall /\ calls[c].list # NoList
      BY <1>2, Zenon DEF CallStores, Rebuilding
    <2>2. calls[c] \in CallRecords
      BY <2>1, Zenon DEF CallTypes
    <2>3. calls[c].list \in Copies \cup {NoList}
      BY <2>2, SMT DEF CallRecords
    <2>4. calls[c].list \in Copies
      BY <2>1, <2>3, Zenon
    <2>5. seen' = [seen EXCEPT ![Home[c]] = calls[c].list] /\ UNCHANGED <<gateway, reloads>>
      BY <1>2, Zenon DEF CallStores, Replaced
    <2> QED
      BY <2>4, <2>5, Zenon DEF CopyTypes, Processes
  <1>3. ASSUME NEW x \in Processes, ReloadLists(x) PROVE CopyTypes'
    BY <1>3, Zenon DEF ReloadLists, CopyTypes
  <1>4. ASSUME NEW x \in Processes, ReloadStores(x) PROVE CopyTypes'
    <2>1. reloads[x] \in Copies
      BY <1>4, Zenon DEF ReloadStores, CopyTypes
    <2>2. seen' = [seen EXCEPT ![x] = reloads[x]] /\ reloads' = [reloads EXCEPT ![x] = NoList] /\ UNCHANGED gateway
      BY <1>4, Zenon DEF ReloadStores, Replaced
    <2> QED
      BY <2>1, <2>2, Zenon DEF CopyTypes, Processes
  <1>5. ASSUME NEW b \in Brokers, NEW v \in Versions, MissFill(b, v) PROVE CopyTypes'
    <2>1. PICK w : seen' = [seen EXCEPT ![b] = w]
      BY <1>5, Zenon DEF MissFill
    <2>2. b \notin Replicas
      BY DeploymentsAssumption, Zenon
    <2>3. UNCHANGED <<gateway, reloads>>
      BY <1>5, Zenon DEF MissFill
    <2> QED
      BY <2>1, <2>2, <2>3, Zenon DEF CopyTypes, Processes
  <1>6. ASSUME NEW a \in Replicas, Restart(a) PROVE CopyTypes'
    BY <1>6, Zenon DEF Restart, CopyTypes, Processes
  <1> QED
    BY <1>1, <1>2, <1>3, <1>4, <1>5, <1>6, CopyFrame, Zenon

-----------------------------------------------------------------------------
(* The invariant, and what it promises.                                    *)

(* One step keeps the invariant.                                           *)
LEMMA KindStep == KindInv /\ [Next]_vars => KindInv'
  <1> SUFFICES ASSUME KindInv, [Next]_vars PROVE KindInv'
    OBVIOUS
  <1>1. KindTypes /\ CallInv /\ DataInv /\ CopyTypes /\ bounds \in Budgets /\ manifest \in Copies /\ CallTypes
    BY Zenon DEF KindInv, KindTypes, CallInv, DataInv, DataTypes, PolicyTypes, CopyTypes
  <1>2. CASE Next
    <2>1. Steps /\ Observed
      BY <1>2, Zenon DEF Next, Steps
    <2>2. CallInv' /\ DataInv' /\ CopyTypes' /\ bounds' \in Budgets
      BY <1>1, <2>1, CallsStep, DataStep, CopyStep, BudgetStep, Zenon
    <2> QED
      BY <2>2, Zenon DEF KindInv, KindTypes, CallInv, DataInv, DataTypes, PolicyTypes, CopyTypes
  <1>3. CASE UNCHANGED vars
    BY <1>3, Zenon DEF vars, apiVars, capVars, KindInv, KindTypes, CallTypes, CallsFit, Guarded, Holds, Retired, OnVersion, SpecFits,
         HistoryFits, Fitting, HasRow
  <1> QED
    BY <1>2, <1>3, Zenon

(* The resource before it is created.                                      *)
LEMMA NoResource == NoRes(0) \in Resources /\ NoRes(0).ver = 0
  BY SMT DEF NoRes, Resources

(* Every deployment starts in the invariant.                               *)
LEMMA KindStart == Init => KindInv
  <1> SUFFICES ASSUME Init PROVE KindInv
    OBVIOUS
  <1>1. PICK n \in DOMAIN Deployments :
           /\ bounds = [calls |-> Deployments[n].calls, faults |-> Deployments[n].faults,
                        counting |-> Deployments[n].tasks # {}, plan |-> n]
           /\ VersionInit(Deployments[n])
    BY Zenon DEF Init
  <1>2. /\ Deployments[n].manifest \in Copies /\ Deployments[n].boot \in Copies /\ Deployments[n].row \in Rows
        /\ Deployments[n].calls \in Nat /\ Deployments[n].faults \in Nat
    BY DeploymentsAssumption, Zenon DEF Copies
  <1>3. bounds \in Budgets
    BY <1>1, <1>2, SMT DEF Budgets
  <1>4. manifest \in Copies /\ config \in [Versions -> Rows \cup {NoRow}] /\ HasRow
    BY <1>1, <1>2, RowsAreRows, Zenon DEF VersionInit, HasRow, Copies
  <1>5. res \in Resources /\ res.ver = 0
    <2>1. res = NoRes(0)
      BY <1>1, Zenon DEF VersionInit
    <2> QED
      BY <2>1, NoResource, Zenon
  <1>6. history = {} /\ excused = FALSE /\ calls = [c \in Callers |-> NoCall]
    BY <1>1, Zenon DEF VersionInit
  <1>7. CallTypes
    BY <1>6, Zenon DEF CallTypes
  <1>8. /\ gateway \in [Replicas -> Copies] /\ reloads \in [Processes -> Copies \cup {NoList}]
        /\ seen = [x \in Processes |-> seen[x]] /\ \A a \in Replicas : seen[a] \in Copies
    BY <1>1, <1>2, Zenon DEF VersionInit, Processes
  <1>9. KindTypes
    BY <1>3, <1>4, <1>5, <1>6, <1>7, <1>8, Zenon DEF KindTypes
  <1>10. \A c \in Callers : calls[c].op = "none"
    BY <1>6, SMT DEF NoCall
  <1>11. CallsFit /\ Guarded
    BY <1>10, Zenon DEF CallsFit, CallFits, Guarded, Holds, Verbs
  <1>12. OnVersion /\ SpecFits /\ HistoryFits
    BY <1>5, <1>6, Zenon DEF OnVersion, SpecFits, HistoryFits
  <1> QED
    BY <1>4, <1>9, <1>11, <1>12, Zenon DEF KindInv

(* A call that ends, or moves to another place, has changed.               *)
LEMMA CallChanges ==
    ASSUME CallTypes, NEW c \in Callers, calls[c].op \in Verbs, NEW x \in Places, calls[c].at # x,
           End(c) \/ Step(c, x)
    PROVE  calls'[c] # calls[c]
  <1>1. CASE End(c)
    BY <1>1, EndCall, UnderWay, Zenon
  <1>2. CASE Step(c, x)
    BY <1>2, StepCall, Zenon
  <1> QED
    BY <1>1, <1>2, Zenon

(* A delete finds the version in no use, unless it is overtaken.           *)
LEMMA DeleteGuarded ==
    ASSUME CallInv, manifest \in Copies, NEW c \in Callers, Delete(c), NEW v \in Versions
    PROVE  /\ manifest'[v] \in {0, manifest[v]}
           /\ manifest[v] # manifest'[v] => (res.ver # v /\ v \notin pins) \/ Overtakes
  <1>1. /\ calls[c].op = "delete" /\ calls[c].op \in Verbs /\ calls[c].at = "write"
        /\ "rebuild" \in Places /\ (End(c) \/ Step(c, "rebuild"))
        /\ manifest' = [manifest EXCEPT ![calls[c].v] = 0]
    BY Zenon DEF Delete, At, Verbs, Places
  <1>2. CASE calls[c].v # v
    BY <1>1, <1>2, Zenon DEF Copies
  <1>3. CASE calls[c].v = v
    <2>1. manifest'[v] = 0
      BY <1>1, <1>3, Zenon DEF Copies
    <2>2. c \notin overtaken => res.ver # v /\ v \notin pins
      BY <1>1, <1>3, CallBrings, Zenon DEF Holds
    <2>3. calls'[c] # calls[c]
      BY <1>1, CallChanges, Zenon DEF CallInv
    <2> QED
      BY <2>1, <2>2, <2>3, Zenon DEF Overtakes
  <1> QED
    BY <1>2, <1>3, Zenon

(* A publish brings an edition the linter lets pass, unless overtaken.     *)
LEMMA PublishGuarded ==
    ASSUME CallInv, manifest \in Copies, NEW c \in Callers, Publish(c), NEW v \in Versions
    PROVE  /\ manifest'[v] # 0 \/ manifest'[v] = manifest[v]
           /\ manifest'[v] # manifest[v] => Republishable(manifest[v], manifest'[v]) \/ Overtakes
  <1>1. /\ calls[c].op = "publish" /\ calls[c].op \in Verbs /\ calls[c].at = "write"
        /\ "rebuild" \in Places /\ Step(c, "rebuild")
        /\ manifest' = [manifest EXCEPT ![calls[c].v] = calls[c].edition]
    BY Zenon DEF Publish, At, Verbs, Places
  <1>2. CASE calls[c].v # v
    BY <1>1, <1>2, Zenon DEF Copies
  <1>3. CASE calls[c].v = v
    <2>1. manifest'[v] = calls[c].edition
      BY <1>1, <1>3, Zenon DEF Copies
    <2>2. calls[c].edition # 0
      BY <1>1, CallBrings, DeploymentsAssumption, Zenon DEF CallFits
    <2>3. c \notin overtaken => Republishable(manifest[v], calls[c].edition)
      BY <1>1, <1>3, CallBrings, Zenon DEF Holds
    <2>4. calls'[c] # calls[c]
      BY <1>1, CallChanges, Zenon DEF CallInv
    <2> QED
      BY <2>1, <2>2, <2>3, <2>4, Zenon DEF Overtakes
  <1> QED
    BY <1>2, <1>3, Zenon

(* A write puts the resource on no retired version, unless overtaken.      *)
LEMMA WriteGuarded ==
    ASSUME CallInv, res \in Resources, OnVersion, NEW c \in Callers, Write(c), res'.ver \notin {0, res.ver}
    PROVE  ~Retired(res'.ver) \/ Overtakes
  <1>1. /\ calls[c].op = "apply" /\ calls[c].op \in Verbs /\ calls[c].at = "write" /\ End(c)
        /\ res' \in {res, Written(calls[c])} /\ "start" \in Places
    BY Zenon DEF Write, At, Verbs, Places
  <1>2. calls'[c] # calls[c]
    BY <1>1, CallChanges, Zenon DEF CallInv
  <1>3. /\ CallFits(calls[c])
        /\ c \notin overtaken => Holds(c)
    BY <1>1, CallBrings, Zenon
  <1>4. calls[c].v \in Versions /\ calls[c].spec \in DOMAIN Documents
    BY <1>1, <1>3, Zenon DEF CallFits
  <1>5. res'.ver = calls[c].v
    BY <1>1, <1>4, WrittenResource, Zenon
  <1>6. ASSUME c \notin overtaken PROVE ~Retired(calls[c].v)
    <2>1. res.ver = calls[c].found.ver
      BY <1>1, <1>3, <1>6, Zenon DEF Holds
    <2>2. calls[c].found.ver # calls[c].v
      BY <1>5, <2>1, Zenon
    <2> QED
      BY <1>1, <1>3, <1>6, <2>2, Zenon DEF Holds
  <1> QED
    BY <1>2, <1>5, <1>6, Zenon DEF Overtakes

(* A rollback and a removal leave the version alone, or there is none.     *)
LEMMA OtherWrites ==
    ASSUME res \in Resources, history \subseteq Revisions, NEW c \in Callers, Rollback(c) \/ Remove(c)
    PROVE  res'.ver \in {0, res.ver}
  <1>1. CASE Remove(c)
    BY <1>1 DEF Remove, NoRes
  <1>2. CASE Rollback(c)
    <2>1. CASE UNCHANGED res
      BY <2>1, Zenon
    <2>2. ASSUME NEW h \in history, res' = [res EXCEPT !.spec = h.spec] PROVE res'.ver = res.ver
      BY <2>2, SMT DEF Resources
    <2> QED
      BY <1>2, <2>1, <2>2, Zenon DEF Rollback
  <1> QED
    BY <1>1, <1>2, Zenon

(* Every step keeps the guards.                                            *)
LEMMA GuardsStep == KindInv /\ KindInv' /\ [Next]_vars => [GuardsHold]_vars
  <1> SUFFICES ASSUME KindInv, KindInv', Next PROVE GuardsHold
    BY Zenon
  <1>1. /\ CallInv /\ manifest \in Copies /\ res \in Resources /\ OnVersion /\ history \subseteq Revisions
        /\ HasRow'
    BY Zenon DEF KindInv, KindTypes, CallInv
  <1>2. Steps
    BY Zenon DEF Next, Steps
  <1>3. ASSUME NEW v \in Versions
        PROVE  /\ manifest[v] # 0 /\ manifest'[v] = 0 => (res.ver # v /\ v \notin pins) \/ Overtakes
               /\ manifest'[v] \notin {0, manifest[v]} => Republishable(manifest[v], manifest'[v]) \/ Overtakes
    <2>1. ASSUME NEW c \in Callers,
                 Write(c) \/ Rollback(c) \/ Remove(c) \/ EditConfig(c) \/ Bind(c)
          PROVE  UNCHANGED manifest
      BY <2>1, Zenon DEF Write, Rollback, Remove, EditConfig, Bind, apiVars
    <2>2. CASE UNCHANGED manifest
      BY <2>2, Zenon
    <2>3. ASSUME NEW c \in Callers, Delete(c)
          PROVE  /\ manifest'[v] \in {0, manifest[v]}
                 /\ manifest[v] # manifest'[v] => (res.ver # v /\ v \notin pins) \/ Overtakes
      BY <1>1, <2>3, DeleteGuarded, Zenon
    <2>4. ASSUME NEW c \in Callers, Publish(c)
          PROVE  /\ manifest'[v] # 0 \/ manifest'[v] = manifest[v]
                 /\ manifest'[v] # manifest[v] => Republishable(manifest[v], manifest'[v]) \/ Overtakes
      BY <1>1, <2>4, PublishGuarded, Zenon
    <2> QED
      BY <1>2, <2>1, <2>2, <2>3, <2>4, DataFrame, Zenon
  <1>4. ASSUME res'.ver \notin {0, res.ver} PROVE ~Retired(res'.ver) \/ Overtakes
    <2>1. ASSUME NEW c \in Callers, Publish(c) \/ Delete(c) \/ EditConfig(c) \/ Bind(c)
          PROVE  UNCHANGED res
      BY <2>1, Zenon DEF Publish, Delete, EditConfig, Bind, apiVars
    <2>2. PICK c \in Callers : Write(c) \/ Rollback(c) \/ Remove(c)
      BY <1>2, <1>4, <2>1, DataFrame, Zenon
    <2> QED
      BY <1>1, <1>4, <2>2, WriteGuarded, OtherWrites, Zenon
  <1> QED
    BY <1>1, <1>3, <1>4, Zenon DEF GuardsHold, HasRow

(* In every behaviour the spec of a resource fits the published schema of  *)
(* its version, save where it is excused (applyResourceManifest,           *)
(* applySpecOnce, rollback_to_spec, putKindManifest).                      *)
THEOREM SpecFitsHolds == Spec => []SpecFits
  <1>1. KindInv => SpecFits
    BY DEF KindInv
  <1> QED
    BY <1>1, KindStart, KindStep, PTL DEF Spec

(* In every behaviour each step keeps what the guards of the versions      *)
(* promise (DeleteKindManifest, putKindManifest, applyResourceManifest).   *)
THEOREM VersionsGuardedHolds == Spec => VersionsGuarded
  BY KindStart, KindStep, GuardsStep, PTL DEF Spec, VersionsGuarded

-----------------------------------------------------------------------------
(* The cap.                                                                *)

Owned(r) == {s \in Shards : Within(s, ReaperRange[r])}
ClaimRecords == [rows : SUBSET Tasks, cap : Nat, sure : BOOLEAN]

PartialTypes ==
    /\ partials = [lo \in DOMAIN partials |-> partials[lo]]
    /\ DOMAIN partials \subseteq Shards /\ \A lo \in DOMAIN partials : partials[lo] \in Nat

CapTypes ==
    /\ task \in [Tasks -> {"pending", "leased", "done"}]
    /\ PartialTypes
    /\ claims \in [Pods -> ClaimRecords]
    /\ recounts = [r \in Reapers |-> recounts[r]]
    /\ \A r \in Reapers : recounts[r] # Idle => recounts[r] \subseteq Owned(r)

InRange == \A p \in Pods : \A t \in claims[p].rows : Within(ShardOf[t], PodRange[p])

(* The leases that a partial accounts for: no more than it says, and of    *)
(* the reaper that will replace it.                                        *)
Accounts(S) ==
    \A lo \in DOMAIN partials :
        /\ S[lo] \subseteq Tasks /\ Cardinality(S[lo]) <= partials[lo]
        /\ \A t \in S[lo], r \in Reapers : Within(lo, ReaperRange[r]) => Within(ShardOf[t], ReaperRange[r])

Waits(t) == \E r \in uncounted : Within(ShardOf[t], ReaperRange[r])

CoversLeases(S) == Cap > 0 => \A t \in Leased : Waits(t) \/ \E lo \in DOMAIN partials : t \in S[lo]

Accounted == \E S \in [DOMAIN partials -> SUBSET Tasks] : Accounts(S) /\ CoversLeases(S)

(* A claim that began alone, on a tally that counts all.                   *)
SureClaims ==
    \A p \in Pods : claims[p].sure /\ claims[p].cap > 0 =>
        /\ Cardinality(Leased \cup claims[p].rows) <= claims[p].cap
        /\ \A q \in Pods \ {p} : claims[q].rows = {}

CapInv == CapTypes /\ InRange /\ Accounted /\ SureClaims

(* The cap of a row, and of none.                                          *)
LEMMA CapValue ==
    ASSUME NEW row \in Rows \cup {NoRow}
    PROVE  Max({row.cap, 0}) \in Nat /\ (row = NoRow => Max({row.cap, 0}) = 0)
  <1>1. row.cap \in Int /\ (row = NoRow => row.cap = -1)
    BY SMT DEF Rows, NoRow
  <1>2. ASSUME NEW c \in Int PROVE Max({c, 0}) \in Nat /\ (c = -1 => Max({c, 0}) = 0)
    <2>1. \E x \in {c, 0} : \A y \in {c, 0} : x >= y
      BY SMT
    <2> QED
      BY <2>1, SMT DEF Max
  <1> QED
    BY <1>1, <1>2, Zenon

(* The least of three is at most the second.                               *)
LEMMA MinOfThree ==
    ASSUME NEW a \in Int, NEW b \in Int, NEW c \in Int
    PROVE  Min({a, b, c}) \in Int /\ Min({a, b, c}) <= b
  <1>1. \E x \in {a, b, c} : \A y \in {a, b, c} : x =< y
    BY SMT
  <1> QED
    BY <1>1, SMT DEF Min

(* A smaller set of tasks.                                                 *)
LEMMA FewerTasks ==
    ASSUME NEW A \in SUBSET Tasks, NEW B \in SUBSET A
    PROVE  /\ IsFiniteSet(A) /\ IsFiniteSet(B)
           /\ Cardinality(A) \in Nat /\ Cardinality(B) \in Nat /\ Cardinality(B) <= Cardinality(A)
  <1>1. IsFiniteSet(A)
    BY KindCapAssumption, FS_Subset, Zenon
  <1>2. IsFiniteSet(B) /\ Cardinality(B) <= Cardinality(A)
    BY <1>1, FS_Subset, Zenon
  <1> QED
    BY <1>1, <1>2, FS_CardinalityType, Zenon

(* The tally is at least what the partials account for.                    *)
LEMMA TallyCovers ==
    ASSUME PartialTypes, NEW S, Accounts(S)
    PROVE  Tally \in Nat /\ Cardinality(UNION {S[lo] : lo \in DOMAIN partials}) <= Tally
  <1>1. IsFiniteSet(DOMAIN partials)
    <2>1. IsFiniteSet(0 .. (NumShards - 1))
      BY KindCapAssumption, FS_Interval, SMT
    <2> QED
      BY <2>1, FS_Subset, Zenon DEF PartialTypes, Shards
  <1>2. Bounded(S, partials, DOMAIN partials)
    BY FewerTasks, Zenon DEF Accounts, Bounded
  <1>3. Naturals(partials, DOMAIN partials)
    BY Zenon DEF PartialTypes, Naturals
  <1>4. Bounds(S, Total(partials, DOMAIN partials), DOMAIN partials)
    BY <1>1, <1>2, <1>3, TotalCovers, Zenon
  <1>5. Tally = Total(partials, DOMAIN partials)
    BY DEF Tally, Total, MapThenSumSet, MapThenFoldSet
  <1> QED
    BY <1>4, <1>5, Zenon DEF Bounds

(* The tally never undercounts.                                            *)
LEMMA TallyCounts ==
    ASSUME CapTypes, Accounted, Cap > 0, uncounted = {}
    PROVE  Tally \in Nat /\ Cardinality(Leased) \in Nat /\ Cardinality(Leased) <= Tally
  <1>1. PICK S \in [DOMAIN partials -> SUBSET Tasks] : Accounts(S) /\ CoversLeases(S)
    BY Zenon DEF Accounted
  <1> DEFINE U == UNION {S[lo] : lo \in DOMAIN partials}
  <1>2. Leased \in SUBSET U
    BY <1>1, Zenon DEF CoversLeases, Waits
  <1>3. U \in SUBSET Tasks
    BY <1>1, Zenon DEF Accounts
  <1>4. Tally \in Nat /\ Cardinality(U) <= Tally
    BY <1>1, TallyCovers, Zenon DEF CapTypes
  <1>5. Cardinality(Leased) \in Nat /\ Cardinality(U) \in Nat /\ Cardinality(Leased) <= Cardinality(U)
    BY <1>2, <1>3, FewerTasks, Zenon
  <1> QED
    BY <1>4, <1>5, SMT

(* A cap is a natural number.                                              *)
LEMMA CapNat ==
    ASSUME config \in [Versions -> Rows \cup {NoRow}]
    PROVE  Cap \in Nat
  <1>1. config[1] \in Rows \cup {NoRow}
    BY DeploymentsAssumption, Zenon
  <1> QED
    BY <1>1, CapValue, Zenon DEF Cap

(* Every task is of one reaper.                                            *)
LEMMA OneReaper ==
    ASSUME NEW t \in Tasks
    PROVE  ShardOf[t] \in Shards /\ \E r \in Reapers : Within(ShardOf[t], ReaperRange[r])
  <1>1. ShardOf[t] \in Shards
    BY KindCapAssumption, Zenon
  <1> QED
    BY <1>1, KindCapAssumption, Zenon

(* What the partials account for stays so when leases end, when more       *)
(* reapers are to count, and when a kind gets a cap.                       *)
LEMMA AccountKept ==
    ASSUME Accounted, partials' = partials, uncounted \subseteq uncounted', Leased' \subseteq Leased,
           Cap' > 0 => Cap > 0 \/ Covering(Leased) \subseteq uncounted'
    PROVE  Accounted'
  <1>1. PICK S \in [DOMAIN partials -> SUBSET Tasks] : Accounts(S) /\ CoversLeases(S)
    BY Zenon DEF Accounted
  <1>2. S \in [DOMAIN partials' -> SUBSET Tasks] /\ Accounts(S)'
    BY <1>1, Zenon DEF Accounts
  <1>3. ASSUME Cap' > 0, NEW t \in Leased' PROVE Waits(t)' \/ \E lo \in DOMAIN partials' : t \in S[lo]
    <2>1. t \in Leased /\ t \in Tasks
      BY <1>3, Zenon DEF Leased
    <2>2. CASE Cap > 0
      BY <1>1, <2>1, <2>2, Zenon DEF CoversLeases, Waits
    <2>3. CASE Covering(Leased) \subseteq uncounted'
      BY <2>1, <2>3, OneReaper, Zenon DEF Covering, Waits
    <2> QED
      BY <1>3, <2>2, <2>3, Zenon
  <1>4. CoversLeases(S)'
    BY <1>3, Zenon DEF CoversLeases
  <1> QED
    BY <1>2, <1>4, Zenon DEF Accounted

(* A claim that is sure stays so while leases only end.                    *)
LEMMA SureKept ==
    ASSUME SureClaims, claims \in [Pods -> ClaimRecords], claims' = claims, Leased' \subseteq Leased
    PROVE  SureClaims'
  <1> SUFFICES ASSUME NEW p \in Pods, claims[p].sure, claims[p].cap > 0
               PROVE  /\ Cardinality(Leased' \cup claims[p].rows) <= claims[p].cap
                      /\ \A q \in Pods \ {p} : claims[q].rows = {}
    BY Zenon DEF SureClaims
  <1>1. Cardinality(Leased \cup claims[p].rows) <= claims[p].cap /\ \A q \in Pods \ {p} : claims[q].rows = {}
    BY Zenon DEF SureClaims
  <1>2. claims[p].rows \subseteq Tasks /\ claims[p].cap \in Nat
    BY SMT DEF ClaimRecords
  <1>3. /\ Leased \cup claims[p].rows \in SUBSET Tasks
        /\ Leased' \cup claims[p].rows \in SUBSET (Leased \cup claims[p].rows)
    BY <1>2, Zenon DEF Leased
  <1>4. /\ Cardinality(Leased' \cup claims[p].rows) \in Nat /\ Cardinality(Leased \cup claims[p].rows) \in Nat
        /\ Cardinality(Leased' \cup claims[p].rows) <= Cardinality(Leased \cup claims[p].rows)
    BY <1>3, FewerTasks, Zenon
  <1>5. Cardinality(Leased' \cup claims[p].rows) <= claims[p].cap
    BY <1>1, <1>2, <1>4, SMT
  <1> QED
    BY <1>1, <1>5, Zenon

(* The record of a claim.                                                  *)
LEMMA ClaimRecord ==
    ASSUME NEW rows \in SUBSET Tasks, NEW n \in Nat, NEW b \in BOOLEAN,
           NEW c, c = [rows |-> rows, cap |-> n, sure |-> b]
    PROVE  c \in ClaimRecords /\ c.rows = rows /\ c.cap = n /\ c.sure = b
  BY SMT DEF ClaimRecords

(* A claim that is sure no more.                                           *)
LEMMA Unsure ==
    ASSUME NEW c \in ClaimRecords, NEW d, d = [c EXCEPT !.sure = FALSE]
    PROVE  d \in ClaimRecords /\ d.rows = c.rows /\ d.cap = c.cap /\ d.sure = FALSE
  BY Zenon DEF ClaimRecords

(* No claim.                                                               *)
LEMMA NoClaimRecord == NoClaim \in ClaimRecords /\ NoClaim.rows = {} /\ NoClaim.sure = FALSE
  <1>1. {} \in SUBSET Tasks /\ FALSE \in BOOLEAN
    BY Zenon
  <1>2. 0 \in Nat
    BY SMT
  <1> QED
    BY <1>1, <1>2, ClaimRecord, Zenon DEF NoClaim

(* The fields of a claim.                                                  *)
LEMMA ClaimFields ==
    ASSUME NEW c \in ClaimRecords
    PROVE  c.rows \in SUBSET Tasks /\ c.cap \in Nat /\ c.sure \in BOOLEAN
  BY SMT DEF ClaimRecords

(* A claim that begins (the budget and picked CTEs of WorkQueueTakeBatch): *)
(* alone, on a tally that counts all, it takes no more than the cap        *)
(* leaves.                                                                 *)
LEMMA ClaimBeginStep ==
    ASSUME CapInv, Cap \in Nat, NEW p \in Pods, NEW rows \in SUBSET Tasks, ClaimBegin(p, rows)
    PROVE  CapInv'
  <1> DEFINE own == [rows |-> rows, cap |-> Cap, sure |-> Locked = {} /\ uncounted = {}]
  <1>1. /\ UNCHANGED <<task, partials, recounts, uncounted, config, bounds>>
        /\ rows \subseteq {t \in Pending \ Locked : Within(ShardOf[t], PodRange[p])}
        /\ Cardinality(rows)
              = Min({Limit, Headroom, Cardinality({t \in Pending \ Locked : Within(ShardOf[t], PodRange[p])})})
        /\ claims' = [q \in Pods |-> IF q = p THEN own ELSE [claims[q] EXCEPT !.sure = FALSE]]
    BY Zenon DEF ClaimBegin
  <1>2. Leased' = Leased /\ Cap' = Cap
    BY <1>1, Zenon DEF Leased, Cap
  <1>3. /\ own \in ClaimRecords /\ own.rows = rows /\ own.cap = Cap
        /\ own.sure = (Locked = {} /\ uncounted = {})
    <2>1. (Locked = {} /\ uncounted = {}) \in BOOLEAN
      BY Zenon
    <2> DEFINE b == Locked = {} /\ uncounted = {}
    <2>2. b \in BOOLEAN
      BY <2>1
    <2>3. own = [rows |-> rows, cap |-> Cap, sure |-> b]
      OBVIOUS
    <2> HIDE DEF b, own
    <2>4. own \in ClaimRecords /\ own.rows = rows /\ own.cap = Cap /\ own.sure = b
      BY <2>2, <2>3, SMT DEF ClaimRecords
    <2> QED
      BY <2>4, Zenon DEF b
  <1>4. claims'[p] = own
    BY <1>1, Zenon
  <1> HIDE DEF own
  <1>5. ASSUME NEW q \in Pods, q # p
        PROVE  claims'[q] \in ClaimRecords /\ claims'[q].rows = claims[q].rows /\ claims'[q].sure = FALSE
    <2>1. claims[q] \in ClaimRecords /\ claims'[q] = [claims[q] EXCEPT !.sure = FALSE]
      BY <1>1, <1>5, Zenon DEF CapInv, CapTypes
    <2> QED
      BY <2>1, Unsure, Zenon
  <1>6. claims' \in [Pods -> ClaimRecords]
    <2>1. \A q \in Pods : claims'[q] \in ClaimRecords
      BY <1>3, <1>4, <1>5, Zenon
    <2>2. claims' = [q \in Pods |-> claims'[q]]
      BY <1>1, Zenon
    <2> QED
      BY <2>1, <2>2, Zenon
  <1>7. CapTypes'
    BY <1>1, <1>6, Zenon DEF CapInv, CapTypes, PartialTypes
  <1>8. InRange'
    BY <1>1, <1>3, <1>4, <1>5, Zenon DEF CapInv, InRange
  <1>9. Accounted'
    BY <1>1, <1>2, AccountKept, Zenon DEF CapInv
  <1>10. ASSUME own.sure, own.cap > 0 PROVE Cardinality(Leased \cup rows) <= own.cap
    <2>1. Cap > 0 /\ uncounted = {}
      BY <1>3, <1>10, Zenon
    <2>2. Tally \in Nat /\ Cardinality(Leased) \in Nat /\ Cardinality(Leased) <= Tally
      BY <2>1, TallyCounts, Zenon DEF CapInv
    <2>3. Headroom = Cap - Tally
      BY <2>1, SMT DEF Headroom
    <2> DEFINE open == {t \in Pending \ Locked : Within(ShardOf[t], PodRange[p])}
    <2>4. Cardinality(open) \in Nat
      BY FewerTasks, Zenon DEF Pending
    <2> HIDE DEF open
    <2>5. Limit \in Int /\ Headroom \in Int /\ Cardinality(open) \in Int
      BY <2>2, <2>3, <2>4, KindCapAssumption, SMT
    <2>6. Cardinality(rows) <= Headroom
      <3>1. Cardinality(rows) = Min({Limit, Headroom, Cardinality(open)})
        BY <1>1, Zenon DEF open
      <3> QED
        BY <2>5, <3>1, MinOfThree, Zenon
    <2>7. Leased \in SUBSET Tasks
      BY Zenon DEF Leased
    <2>8. IsFiniteSet(Leased) /\ IsFiniteSet(rows) /\ Cardinality(rows) \in Nat
      BY <2>7, FewerTasks, Zenon
    <2>9. Cardinality(rows) \in Int /\ Cardinality(Leased) <= Cardinality(Leased) /\ Cardinality(rows) <= Cardinality(rows)
      BY <2>2, <2>8, SMT
    <2>10. Cardinality(Leased \cup rows) <= Cardinality(Leased) + Cardinality(rows)
      BY <2>2, <2>8, <2>9, CoverOne, Zenon
    <2>11. Cardinality(Leased \cup rows) \in Nat
      BY <2>7, FewerTasks, Zenon
    <2> QED
      BY <1>3, <2>2, <2>3, <2>6, <2>8, <2>10, <2>11, SMT
  <1>11. ASSUME own.sure, NEW q \in Pods \ {p} PROVE claims'[q].rows = {}
    BY <1>3, <1>5, <1>11, ZenonT(60) DEF Locked
  <1>12. SureClaims'
    BY <1>2, <1>3, <1>4, <1>5, <1>10, <1>11, Zenon DEF SureClaims
  <1> QED
    BY <1>7, <1>8, <1>9, <1>12, Zenon DEF CapInv

(* A range begins with a shard.                                            *)
LEMMA RangeStarts ==
    /\ \A p \in Pods : PodRange[p][1] \in Shards
    /\ \A r \in Reapers : ReaperRange[r][1] \in Shards
  <1>1. PodRange \in [Pods -> Shards \X Shards] /\ ReaperRange \in [Reapers -> Shards \X Shards]
    BY KindCapAssumption, Zenon
  <1>2. ASSUME NEW x \in Shards \X Shards PROVE x[1] \in Shards
    BY SMT
  <1> QED
    BY <1>1, <1>2, Zenon

(* A tally that starts is a number.                                        *)
LEMMA ZeroIsNat == 0 \in Nat
  BY SMT

(* No two reapers have a shard in common.                                  *)
LEMMA SameReaper ==
    ASSUME NEW s \in Shards, NEW r1 \in Reapers, NEW r2 \in Reapers,
           Within(s, ReaperRange[r1]), Within(s, ReaperRange[r2])
    PROVE  r1 = r2
  BY KindCapAssumption, Zenon

(* The leases after a claim has committed.                                 *)
LEMMA ClaimLeases ==
    ASSUME NEW p \in Pods, claims[p].rows \in SUBSET Tasks, ClaimCommit(p)
    PROVE  Leased' = Leased \cup claims[p].rows
  <1>1. task' = [t \in Tasks |-> IF t \in claims[p].rows THEN "leased" ELSE task[t]]
    BY Zenon DEF ClaimCommit
  <1>2. ASSUME NEW t \in Tasks PROVE task'[t] = "leased" <=> task[t] = "leased" \/ t \in claims[p].rows
    BY <1>1, Zenon
  <1> QED
    BY <1>2, Zenon DEF Leased

(* A bump accounts for the rows of its claim: they are of the reaper in    *)
(* whose range the claim's pod begins.                                     *)
LEMMA BumpAccounts ==
    ASSUME PodsNested, CapInv, NEW p \in Pods, NEW n \in Nat, n = Cardinality(claims[p].rows),
           partials' = Bumped(PodRange[p][1], n), uncounted' = uncounted, Cap' = Cap,
           Leased' = Leased \cup claims[p].rows
    PROVE  PartialTypes' /\ Accounted'
  <1> DEFINE lo == PodRange[p][1]
             rows == claims[p].rows
             Old(k) == IF k \in DOMAIN partials THEN partials[k] ELSE 0
  <1>1. PICK S \in [DOMAIN partials -> SUBSET Tasks] : Accounts(S) /\ CoversLeases(S)
    BY Zenon DEF CapInv, Accounted
  <1> DEFINE Kept(k) == IF k \in DOMAIN partials THEN S[k] ELSE {}
  <1>0. PICK R : R = [k \in DOMAIN partials \cup {lo} |-> IF k # lo THEN S[k] ELSE rows \cup Kept(k)]
    BY Zenon
  <1>2. lo \in Shards /\ rows \in SUBSET Tasks
    <2>1. lo \in Shards
      BY RangeStarts, Zenon
    <2> QED
      BY <2>1, ClaimFields, Zenon DEF CapInv, CapTypes
  <1>3. /\ DOMAIN partials' = DOMAIN partials \cup {lo}
        /\ partials' = [k \in DOMAIN partials' |-> partials'[k]]
        /\ \A k \in DOMAIN partials : k # lo => partials'[k] = partials[k]
        /\ partials'[lo] = n + Old(lo)
    BY Zenon DEF Bumped
  <1>4. /\ DOMAIN partials \subseteq Shards /\ \A k \in DOMAIN partials : partials[k] \in Nat
    BY Zenon DEF CapInv, CapTypes, PartialTypes
  <1>5. Old(lo) \in Nat
    BY <1>4, ZeroIsNat, Zenon
  <1> HIDE DEF Old
  <1>6. n + Old(lo) \in Nat
    BY <1>5, SMT
  <1>7. PartialTypes'
    BY <1>2, <1>3, <1>4, <1>6, Zenon DEF PartialTypes
  <1>8. R \in [DOMAIN partials' -> SUBSET Tasks]
    BY <1>0, <1>1, <1>2, <1>3, Zenon
  <1>9. ASSUME NEW t \in rows, NEW r \in Reapers, Within(lo, ReaperRange[r])
        PROVE  Within(ShardOf[t], ReaperRange[r])
    <2>1. PICK h \in Reapers : /\ Within(lo, ReaperRange[h])
                               /\ \A s \in Shards : Within(s, PodRange[p]) => Within(s, ReaperRange[h])
      BY Zenon DEF PodsNested
    <2>2. h = r
      BY <1>2, <1>9, <2>1, SameReaper, Zenon
    <2>3. Within(ShardOf[t], PodRange[p]) /\ ShardOf[t] \in Shards
      BY <1>2, <1>9, OneReaper, Zenon DEF CapInv, InRange
    <2> QED
      BY <2>1, <2>2, <2>3, Zenon
  <1>10. Cardinality(rows \cup Kept(lo)) <= n + Old(lo)
    <2>1. CASE lo \in DOMAIN partials
      <3>1. Kept(lo) = S[lo] /\ S[lo] \in SUBSET Tasks /\ Cardinality(S[lo]) <= Old(lo)
        BY <1>1, <2>1, Zenon DEF Accounts, Old
      <3>2. IsFiniteSet(rows) /\ IsFiniteSet(S[lo]) /\ Cardinality(rows) \in Nat
        BY <1>2, <3>1, FewerTasks, Zenon
      <3>3. Cardinality(rows) <= n /\ Old(lo) \in Int
        BY <1>5, <3>2, SMT
      <3>4. Cardinality(rows \cup S[lo]) <= n + Old(lo)
        BY <3>1, <3>2, <3>3, CoverOne, Zenon
      <3> QED
        BY <3>1, <3>4, Zenon
    <2>2. CASE lo \notin DOMAIN partials
      <3>1. rows \cup Kept(lo) = rows /\ Old(lo) = 0
        BY <2>2, Zenon DEF Old
      <3>2. Cardinality(rows \cup Kept(lo)) = n
        BY <3>1, Zenon
      <3>3. n <= n + 0
        BY SMT
      <3> QED
        BY <3>1, <3>2, <3>3, Zenon
    <2> QED
      BY <2>1, <2>2, Zenon
  <1>11. R[lo] = rows \cup Kept(lo) /\ \A k \in DOMAIN partials : k # lo => R[k] = S[k]
    BY <1>0, Zenon
  <1>12. \A t \in Kept(lo), r \in Reapers : Within(lo, ReaperRange[r]) => Within(ShardOf[t], ReaperRange[r])
    BY <1>1, Zenon DEF Accounts
  <1>13. \A k \in DOMAIN partials : S[k] \subseteq R[k]
    BY <1>11, Zenon
  <1> HIDE DEF Kept
  <1>14. Accounts(R)'
    <2> SUFFICES ASSUME NEW k \in DOMAIN partials'
                 PROVE  /\ R[k] \subseteq Tasks /\ Cardinality(R[k]) <= partials'[k]
                        /\ \A t \in R[k], r \in Reapers : Within(k, ReaperRange[r]) => Within(ShardOf[t], ReaperRange[r])
      BY Zenon DEF Accounts
    <2>1. CASE k = lo
      BY <1>3, <1>8, <1>9, <1>10, <1>11, <1>12, <2>1, Zenon
    <2>2. CASE k # lo
      BY <1>1, <1>3, <1>11, <2>2, Zenon DEF Accounts
    <2> QED
      BY <2>1, <2>2, Zenon
  <1>15. CoversLeases(R)'
    <2> SUFFICES ASSUME Cap > 0, NEW t \in Leased \cup rows
                 PROVE  Waits(t)' \/ \E k \in DOMAIN partials' : t \in R[k]
      BY Zenon DEF CoversLeases
    <2>1. CASE t \in rows
      BY <1>3, <1>11, <2>1, Zenon
    <2>2. CASE t \in Leased
      <3>1. Waits(t) \/ \E k \in DOMAIN partials : t \in S[k]
        BY <1>1, <2>2, Zenon DEF CoversLeases
      <3> QED
        BY <1>3, <1>13, <3>1, Zenon DEF Waits
    <2> QED
      BY <2>1, <2>2, Zenon
  <1> QED
    BY <1>7, <1>8, <1>14, <1>15, Zenon DEF Accounted

(* A claim that commits (the claimed and bump CTEs of WorkQueueTakeBatch). *)
LEMMA ClaimCommitStep ==
    ASSUME PodsNested, CapInv, NEW p \in Pods, ClaimCommit(p)
    PROVE  CapInv'
  <1> DEFINE rows == claims[p].rows
  <1>1. /\ UNCHANGED <<recounts, config, bounds>> /\ claims' = [claims EXCEPT ![p] = NoClaim]
        /\ task' = [t \in Tasks |-> IF t \in rows THEN "leased" ELSE task[t]]
        /\ IF claims[p].cap > 0
           THEN partials' = Bumped(PodRange[p][1], Cardinality(rows)) /\ uncounted' = uncounted
           ELSE uncounted' = uncounted \cup Covering(rows) /\ partials' = partials
    BY Zenon DEF ClaimCommit
  <1>2. rows \in SUBSET Tasks /\ claims \in [Pods -> ClaimRecords]
    BY ClaimFields, Zenon DEF CapInv, CapTypes
  <1>3. Leased' = Leased \cup rows /\ Cap' = Cap
    BY <1>1, <1>2, ClaimLeases, Zenon DEF Cap
  <1>4. PartialTypes' /\ Accounted'
    <2>1. CASE claims[p].cap > 0
      <3>1. Cardinality(rows) \in Nat
        BY <1>2, FewerTasks, Zenon
      <3> QED
        BY <1>1, <1>3, <2>1, <3>1, BumpAccounts, Zenon
    <2>2. CASE ~(claims[p].cap > 0)
      <3>1. PICK S \in [DOMAIN partials -> SUBSET Tasks] : Accounts(S) /\ CoversLeases(S)
        BY Zenon DEF CapInv, Accounted
      <3>2. partials' = partials /\ uncounted' = uncounted \cup Covering(rows)
        BY <1>1, <2>2, Zenon
      <3>3. Accounts(S)' /\ S \in [DOMAIN partials' -> SUBSET Tasks]
        BY <3>1, <3>2, Zenon DEF Accounts
      <3>4. \A t \in rows : Waits(t)'
        BY <1>2, <3>2, OneReaper, Zenon DEF Waits, Covering
      <3>5. CoversLeases(S)'
        BY <1>3, <3>1, <3>2, <3>4, Zenon DEF CoversLeases, Waits
      <3> QED
        BY <3>2, <3>3, <3>5, Zenon DEF Accounted, PartialTypes, CapInv, CapTypes
    <2> QED
      BY <2>1, <2>2, Zenon
  <1>5. claims'[p] = NoClaim /\ \A q \in Pods \ {p} : claims'[q] = claims[q]
    BY <1>1, <1>2, Zenon
  <1>6. task' \in [Tasks -> {"pending", "leased", "done"}] /\ claims' \in [Pods -> ClaimRecords]
    BY <1>1, <1>2, NoClaimRecord, Zenon DEF CapInv, CapTypes
  <1>7. CapTypes'
    BY <1>1, <1>4, <1>6, Zenon DEF CapInv, CapTypes
  <1>8. InRange'
    BY <1>5, NoClaimRecord, Zenon DEF CapInv, InRange
  <1>9. SureClaims'
    <2> SUFFICES ASSUME NEW q \in Pods, claims'[q].sure, claims'[q].cap > 0
                 PROVE  /\ Cardinality(Leased' \cup claims'[q].rows) <= claims'[q].cap
                        /\ \A o \in Pods \ {q} : claims'[o].rows = {}
      BY Zenon DEF SureClaims
    <2>1. q # p /\ claims'[q] = claims[q]
      BY <1>5, NoClaimRecord, Zenon
    <2>2. rows = {} /\ Leased' = Leased
      BY <1>3, <2>1, Zenon DEF CapInv, SureClaims
    <2> QED
      BY <1>5, <2>1, <2>2, NoClaimRecord, Zenon DEF CapInv, SureClaims
  <1> QED
    BY <1>4, <1>7, <1>8, <1>9, Zenon DEF CapInv

Recounted(r, kept, lo, live) ==
    /\ recounts[r] # Idle /\ Cap > 0 /\ UNCHANGED <<Cap, Leased>>
    /\ kept = DOMAIN partials \ recounts[r] /\ lo = ReaperRange[r][1] /\ lo \notin kept
    /\ live = {t \in Leased : Within(ShardOf[t], ReaperRange[r])}
    /\ partials' = [k \in kept \cup {lo} |-> IF k \in {lo} THEN Cardinality(live) ELSE partials[k]]
    /\ uncounted' = uncounted \ {r}

(* A recount that commits (recount_inflight): the partial it writes        *)
(* accounts for every lease of its range, and those it has deleted were    *)
(* of its range.                                                           *)
LEMMA RecountAccounts ==
    ASSUME CapInv, NEW r \in Reapers, NEW kept, NEW lo, NEW live, Recounted(r, kept, lo, live)
    PROVE  PartialTypes' /\ Accounted'
  <1> USE DEF Recounted
  <1>1. PICK S \in [DOMAIN partials -> SUBSET Tasks] : Accounts(S) /\ CoversLeases(S)
    BY Zenon DEF CapInv, Accounted
  <1>2. PICK R : R = [k \in kept \cup {lo} |-> IF k = lo THEN live ELSE S[k]]
    BY Zenon
  <1>3. lo \in Shards /\ live \in SUBSET Tasks /\ Leased \subseteq Tasks
    <2>1. lo \in Shards
      BY RangeStarts, Zenon
    <2> QED
      BY <2>1, Zenon DEF Leased
  <1>4. /\ DOMAIN partials' = kept \cup {lo} /\ partials' = [k \in DOMAIN partials' |-> partials'[k]]
        /\ partials'[lo] = Cardinality(live) /\ R[lo] = live
        /\ \A k \in kept : partials'[k] = partials[k] /\ R[k] = S[k] /\ k \in DOMAIN partials
    BY <1>2, Zenon
  <1>5. Cardinality(live) \in Nat
    BY <1>3, FewerTasks, Zenon
  <1>6. PartialTypes'
    BY <1>3, <1>4, <1>5, Zenon DEF PartialTypes, CapInv, CapTypes
  <1>7. R \in [DOMAIN partials' -> SUBSET Tasks]
    BY <1>1, <1>2, <1>3, <1>4, Zenon
  <1>8. ASSUME NEW t \in live, NEW o \in Reapers, Within(lo, ReaperRange[o])
        PROVE  Within(ShardOf[t], ReaperRange[o])
    <2>1. ShardOf[t] \in Shards /\ Within(ShardOf[t], ReaperRange[r])
      BY <1>3, <1>8, OneReaper, Zenon
    <2>2. Within(lo, ReaperRange[r])
      <3>1. ReaperRange[r] \in Shards \X Shards
        BY KindCapAssumption, Zenon
      <3> QED
        BY <2>1, <3>1, SMT DEF Within, Shards
    <2>3. o = r
      BY <1>3, <1>8, <2>2, SameReaper, Zenon
    <2> QED
      BY <2>1, <2>3, Zenon
  <1>9. Cardinality(live) <= Cardinality(live)
    BY <1>5, SMT
  <1>10. Accounts(R)'
    <2> SUFFICES ASSUME NEW k \in DOMAIN partials'
                 PROVE  /\ R[k] \subseteq Tasks /\ Cardinality(R[k]) <= partials'[k]
                        /\ \A t \in R[k], o \in Reapers : Within(k, ReaperRange[o]) => Within(ShardOf[t], ReaperRange[o])
      BY Zenon DEF Accounts
    <2>1. CASE k = lo
      BY <1>3, <1>4, <1>8, <1>9, <2>1, Zenon
    <2>2. CASE k \in kept
      BY <1>1, <1>4, <2>2, Zenon DEF Accounts
    <2> QED
      BY <1>4, <2>1, <2>2, Zenon
  <1>11. CoversLeases(R)'
    <2> SUFFICES ASSUME NEW t \in Leased
                 PROVE  Waits(t)' \/ \E k \in DOMAIN partials' : t \in R[k]
      BY Zenon DEF CoversLeases
    <2>1. CASE Within(ShardOf[t], ReaperRange[r])
      BY <1>4, <2>1, Zenon
    <2>2. CASE ~Within(ShardOf[t], ReaperRange[r])
      <3>1. CASE Waits(t)
        BY <2>2, <3>1, Zenon DEF Waits
      <3>2. ASSUME NEW k \in DOMAIN partials, t \in S[k] PROVE k \in kept
        <4>1. ~Within(k, ReaperRange[r])
          BY <1>1, <2>2, <3>2, Zenon DEF Accounts
        <4> QED
          BY <4>1, Zenon DEF CapInv, CapTypes, Owned
      <3> QED
        BY <1>1, <1>4, <3>1, <3>2, Zenon DEF CoversLeases
    <2> QED
      BY <2>1, <2>2, Zenon
  <1> QED
    BY <1>6, <1>7, <1>10, <1>11, Zenon DEF Accounted

(* A recount of a kind without a cap forgets the partials it has deleted.  *)
LEMMA ForgetAccounts ==
    ASSUME CapInv, NEW kept, kept \subseteq DOMAIN partials, ~(Cap' > 0),
           DOMAIN partials' = kept, \A k \in kept : partials'[k] = partials[k],
           partials' = [k \in DOMAIN partials' |-> partials'[k]]
    PROVE  PartialTypes' /\ Accounted'
  <1>1. PICK S \in [DOMAIN partials -> SUBSET Tasks] : Accounts(S) /\ CoversLeases(S)
    BY Zenon DEF CapInv, Accounted
  <1>2. PICK R : R = [k \in kept |-> S[k]]
    BY Zenon
  <1>3. PartialTypes'
    BY Zenon DEF CapInv, CapTypes, PartialTypes
  <1>4. R \in [DOMAIN partials' -> SUBSET Tasks] /\ \A k \in kept : R[k] = S[k] /\ k \in DOMAIN partials
    BY <1>1, <1>2, Zenon
  <1>5. Accounts(R)'
    BY <1>1, <1>4, Zenon DEF Accounts
  <1>6. CoversLeases(R)'
    BY Zenon DEF CoversLeases
  <1> QED
    BY <1>3, <1>4, <1>5, <1>6, Zenon DEF Accounted

(* A recount's commit keeps the account, whether it replaces its partials, *)
(* forgets them or is undone.                                              *)
LEMMA RecountCommitStep ==
    ASSUME CapInv, NEW r \in Reapers, RecountCommit(r)
    PROVE  CapInv'
  <1> DEFINE lo == ReaperRange[r][1]
             kept == DOMAIN partials \ recounts[r]
             counted == IF Cap > 0 THEN {lo} ELSE {}
             live == {t \in Leased : Within(ShardOf[t], ReaperRange[r])}
  <1>1. /\ recounts[r] # Idle
        /\ IF counted \cap kept # {}
           THEN UNCHANGED <<partials, uncounted>>
           ELSE /\ partials' = [k \in kept \cup counted |-> IF k \in counted THEN Cardinality(live) ELSE partials[k]]
                /\ uncounted' = IF Cap > 0 THEN uncounted \ {r} ELSE uncounted
        /\ recounts' = [recounts EXCEPT ![r] = Idle]
        /\ UNCHANGED <<task, claims, config, bounds>>
    BY Zenon DEF RecountCommit
  <1>2. Leased' = Leased /\ Cap' = Cap
    BY <1>1, Zenon DEF Leased, Cap
  <1>3. PartialTypes' /\ Accounted'
    <2>1. CASE counted \cap kept # {}
      BY <1>1, <1>2, <2>1, AccountKept, Zenon DEF CapInv, CapTypes, PartialTypes
    <2>2. CASE counted \cap kept = {} /\ Cap > 0
      <3>1. counted = {lo} /\ lo \notin kept
        BY <2>2, Zenon
      <3>2. /\ partials' = [k \in kept \cup {lo} |-> IF k \in {lo} THEN Cardinality(live) ELSE partials[k]]
            /\ uncounted' = uncounted \ {r}
        BY <1>1, <2>2, <3>1, Zenon
      <3>3. kept = DOMAIN partials \ recounts[r] /\ lo = ReaperRange[r][1] /\ live = {t \in Leased : Within(ShardOf[t], ReaperRange[r])}
        BY Zenon
      <3>4. recounts[r] # Idle /\ Cap > 0 /\ Cap' = Cap /\ Leased' = Leased
        BY <1>1, <1>2, <2>2, Zenon
      <3> HIDE DEF lo, kept, live, counted
      <3> QED
        <4>1. Recounted(r, kept, lo, live)
          BY <3>1, <3>2, <3>3, <3>4, Zenon DEF Recounted
        <4> QED
          BY <4>1, RecountAccounts, Zenon
    <2>3. CASE counted \cap kept = {} /\ ~(Cap > 0)
      <3>1. counted = {}
        BY <2>3, Zenon
      <3>2. partials' = [k \in kept \cup {} |-> IF k \in {} THEN Cardinality(live) ELSE partials[k]]
        BY <1>1, <2>3, <3>1, Zenon
      <3>3. /\ DOMAIN partials' = kept /\ \A k \in kept : partials'[k] = partials[k]
            /\ partials' = [k \in DOMAIN partials' |-> partials'[k]]
        BY <3>2, Zenon
      <3>4. ~(Cap' > 0) /\ kept \subseteq DOMAIN partials
        BY <1>2, <2>3, Zenon
      <3> HIDE DEF kept
      <3> QED
        BY <3>3, <3>4, ForgetAccounts, Zenon
    <2> QED
      BY <2>1, <2>2, <2>3, Zenon
  <1>4. recounts' = [x \in Reapers |-> recounts'[x]] /\ \A x \in Reapers : recounts'[x] # Idle => recounts'[x] = recounts[x]
    BY <1>1, Zenon DEF CapInv, CapTypes
  <1>5. CapTypes'
    BY <1>1, <1>3, <1>4, Zenon DEF CapInv, CapTypes
  <1>6. InRange' /\ SureClaims'
    BY <1>1, <1>2, SureKept, Zenon DEF CapInv, CapTypes, InRange
  <1> QED
    BY <1>3, <1>5, <1>6, Zenon DEF CapInv

(* A recount begins: it deletes partials of its range.                     *)
LEMMA RecountBeginStep ==
    ASSUME CapInv, NEW r \in Reapers, RecountBegin(r)
    PROVE  CapInv'
  <1>1. recounts' = [recounts EXCEPT ![r] = Reclaimed(r)] /\ UNCHANGED <<task, partials, claims, uncounted, config, bounds>>
    BY Zenon DEF RecountBegin
  <1>2. Leased' = Leased /\ Cap' = Cap
    BY <1>1, Zenon DEF Leased, Cap
  <1>3. Reclaimed(r) \subseteq Owned(r)
    BY Zenon DEF Reclaimed, Owned, CapInv, CapTypes, PartialTypes
  <1>4. recounts' = [x \in Reapers |-> recounts'[x]] /\ \A x \in Reapers : recounts'[x] # Idle => recounts'[x] \subseteq Owned(x)
    BY <1>1, <1>3, Zenon DEF CapInv, CapTypes
  <1>5. CapTypes'
    BY <1>1, <1>4, Zenon DEF CapInv, CapTypes, PartialTypes
  <1>6. InRange' /\ SureClaims' /\ Accounted'
    BY <1>1, <1>2, SureKept, AccountKept, Zenon DEF CapInv, CapTypes, InRange
  <1> QED
    BY <1>5, <1>6, Zenon DEF CapInv

(* A lease ends: the drain, a reap or a release.                           *)
LEMMA LeaseEnds ==
    ASSUME CapInv, NEW t \in Tasks, Complete(t) \/ Release(t)
    PROVE  CapInv'
  <1>1. /\ UNCHANGED <<partials, claims, recounts, uncounted, config>>
        /\ task' = [task EXCEPT ![t] = "done"] \/ task' = [task EXCEPT ![t] = "pending"]
    BY Zenon DEF Complete, Release
  <1>2. task' \in [Tasks -> {"pending", "leased", "done"}] /\ Cap' = Cap
    BY <1>1, Zenon DEF CapInv, CapTypes, Cap
  <1>3. Leased' \subseteq Leased
    BY <1>1, Zenon DEF CapInv, CapTypes, Leased
  <1>4. CapTypes'
    BY <1>1, <1>2, Zenon DEF CapInv, CapTypes, PartialTypes
  <1>5. InRange' /\ SureClaims' /\ Accounted'
    BY <1>1, <1>2, <1>3, SureKept, AccountKept, Zenon DEF CapInv, CapTypes, InRange
  <1> QED
    BY <1>4, <1>5, Zenon DEF CapInv

Emptied ==
    /\ task \in [Tasks -> {"pending", "done"}]
    /\ partials = NoPartials /\ claims = [p \in Pods |-> NoClaim] /\ recounts = [r \in Reapers |-> Idle]

(* With nothing leased and no partial, all is accounted for.               *)
LEMMA EmptyTables == Emptied => CapInv
  <1> SUFFICES ASSUME Emptied PROVE CapInv
    OBVIOUS
  <1>1. DOMAIN partials = {} /\ partials = [lo \in DOMAIN partials |-> partials[lo]]
    BY Zenon DEF Emptied, NoPartials
  <1>2. Leased = {}
    <2>1. ASSUME NEW t \in Tasks PROVE task[t] # "leased"
      BY Zenon DEF Emptied
    <2> QED
      BY <2>1, Zenon DEF Leased
  <1>3. \A p \in Pods : claims[p] = NoClaim
    BY Zenon DEF Emptied
  <1>4. CapTypes
    <2>1. claims \in [Pods -> ClaimRecords]
      BY NoClaimRecord, Zenon DEF Emptied
    <2>2. task \in [Tasks -> {"pending", "leased", "done"}]
      BY Zenon DEF Emptied
    <2>3. recounts = [r \in Reapers |-> recounts[r]] /\ \A r \in Reapers : recounts[r] = Idle
      BY Zenon DEF Emptied
    <2> QED
      BY <1>1, <2>1, <2>2, <2>3, Zenon DEF CapTypes, PartialTypes
  <1>5. InRange /\ SureClaims
    BY <1>3, NoClaimRecord, Zenon DEF InRange, SureClaims
  <1>6. Accounted
    <2>1. PICK S : S = [lo \in DOMAIN partials |-> {}]
      BY Zenon
    <2>2. S \in [DOMAIN partials -> SUBSET Tasks] /\ Accounts(S) /\ CoversLeases(S)
      BY <1>1, <1>2, <2>1, Zenon DEF Accounts, CoversLeases
    <2> QED
      BY <2>2, Zenon DEF Accounted
  <1> QED
    BY <1>4, <1>5, <1>6, Zenon DEF CapInv

(* A crash of Postgres empties both tables.                                *)
LEMMA CapCrashStep == CapInv /\ PostgresCrash => CapInv'
  <1>1. CapInv /\ PostgresCrash => Emptied'
    <2> SUFFICES ASSUME CapInv, PostgresCrash PROVE Emptied'
      OBVIOUS
    <2>1. /\ task' = [t \in Tasks |-> IF task[t] = "done" THEN "done" ELSE "pending"]
          /\ partials' = NoPartials /\ claims' = [p \in Pods |-> NoClaim] /\ recounts' = [r \in Reapers |-> Idle]
      BY Zenon DEF PostgresCrash
    <2> QED
      BY <2>1, Zenon DEF Emptied
  <1> QED
    BY <1>1, EmptyTables, PTL

(* Every deployment starts with nothing leased.                            *)
LEMMA CapStart == Init => CapInv
  <1>1. Init => Emptied
    <2> SUFFICES ASSUME NEW d \in DOMAIN Deployments, CapInit(Deployments[d].tasks) PROVE Emptied
      BY Zenon DEF Init
    <2> QED
      BY Zenon DEF CapInit, Emptied
  <1> QED
    BY <1>1, EmptyTables, Zenon

(* The calls that write a policy: a cap that is new waits for the reapers. *)
LEMMA ConfigStep ==
    ASSUME CapInv, config \in [Versions -> Rows \cup {NoRow}], Cap \in Nat, Cap' \in Nat,
           NEW c \in Callers, Publish(c) \/ Delete(c) \/ EditConfig(c)
    PROVE  CapInv'
  <1>1. UNCHANGED <<task, partials, claims, recounts>>
    BY Zenon DEF Publish, Delete, EditConfig, capVars
  <1>2. Leased' = Leased
    BY <1>1, Zenon DEF Leased
  <1>3. Recap => uncounted \subseteq uncounted' /\ (Cap' > 0 => Cap > 0 \/ Covering(Leased) \subseteq uncounted')
    <2>1. Cap = 0 \/ Cap > 0
      BY SMT
    <2> QED
      BY <2>1, Zenon DEF Recap
  <1>4. ASSUME Delete(c) PROVE uncounted' = uncounted /\ (Cap' > 0 => Cap > 0)
    <2>1. uncounted' = uncounted /\ (config' = config \/ config' = [config EXCEPT ![calls[c].v] = NoRow])
      BY <1>4, Zenon DEF Delete, capVars
    <2>2. config'[1] = config[1] \/ config'[1] = NoRow
      BY <2>1, DeploymentsAssumption, Zenon
    <2>3. Max({NoRow.cap, 0}) = 0 /\ ~(0 > 0)
      BY CapValue, SMT
    <2>4. Cap' = Cap \/ Cap' = 0
      BY <2>2, <2>3, Zenon DEF Cap
    <2> QED
      BY <2>1, <2>3, <2>4, Zenon
  <1>5. uncounted \subseteq uncounted' /\ (Cap' > 0 => Cap > 0 \/ Covering(Leased) \subseteq uncounted')
    <2>1. Publish(c) => Recap
      BY Zenon DEF Publish
    <2>2. EditConfig(c) => Recap \/ UNCHANGED <<config, uncounted>>
      BY Zenon DEF EditConfig
    <2>3. UNCHANGED config => Cap' = Cap
      BY Zenon DEF Cap
    <2> QED
      BY <1>3, <1>4, <2>1, <2>2, <2>3, Zenon
  <1>6. Accounted' /\ SureClaims'
    BY <1>1, <1>2, <1>5, AccountKept, SureKept, Zenon DEF CapInv, CapTypes
  <1>7. CapTypes' /\ InRange'
    BY <1>1, Zenon DEF CapInv, CapTypes, PartialTypes, InRange
  <1> QED
    BY <1>6, <1>7, Zenon DEF CapInv

(* The work queue, the partials and the policies change by their own       *)
(* steps, by a crash and by the calls that write a policy.                 *)
LEMMA QueueFrame ==
    ASSUME Steps
    PROVE  \/ UNCHANGED <<capVars, config>> \/ CapNext \/ PostgresCrash
           \/ \E c \in Callers : Publish(c) \/ Delete(c) \/ EditConfig(c)
  <1> DEFINE Same == UNCHANGED <<capVars, config>>
  <1>1. ASSUME NEW c \in Callers,
               \/ Resolve(c) \/ RetirementGate(c) \/ SchemaGate(c) \/ DeleteGuards(c)
               \/ DeleteConfig(c) \/ CallLists(c) \/ CallStores(c)
        PROVE  Same
    BY <1>1, Zenon DEF Resolve, RetirementGate, SchemaGate, DeleteGuards, DeleteConfig, CallLists, CallStores
  <1>2. ASSUME NEW c \in Callers, Write(c) \/ Rollback(c) \/ Remove(c) \/ Bind(c) PROVE Same
    BY <1>2, Zenon DEF Write, Rollback, Remove, Bind
  <1>3. ASSUME NEW c \in Callers, NEW q \in Plan.menu, Call(c, q) PROVE Same
    BY <1>3, Zenon DEF Call
  <1>4. ASSUME NEW c \in Callers, NEW d \in Callers, Deadlock(c, d) PROVE Same
    BY <1>4, Zenon DEF Deadlock
  <1>5. ASSUME NEW x \in Processes, ReloadLists(x) \/ ReloadStores(x) PROVE Same
    BY <1>5, Zenon DEF ReloadLists, ReloadStores
  <1>6. ASSUME NEW b \in Brokers, NEW v \in Versions, MissFill(b, v) PROVE Same
    BY <1>6, Zenon DEF MissFill
  <1>7. ASSUME NEW a \in Replicas, Restart(a) PROVE Same
    BY <1>7, Zenon DEF Restart
  <1>8. Crash => PostgresCrash
    BY Zenon DEF Crash
  <1> HIDE DEF Same
  <1>9. ASSUME NEW c \in Callers, CallStep(c) PROVE Same \/ Publish(c) \/ Delete(c) \/ EditConfig(c)
    BY <1>1, <1>2, <1>9, Zenon DEF CallStep
  <1> USE DEF Same
  <1> QED
    BY <1>3, <1>4, <1>5, <1>6, <1>7, <1>8, <1>9, Zenon DEF Steps

(* Every step keeps the account of the leases.                             *)
LEMMA CapStep ==
    ASSUME PodsNested
    PROVE  KindInv /\ KindInv' /\ CapInv /\ [Next]_vars => CapInv'
  <1> SUFFICES ASSUME KindInv, KindInv', CapInv, [Next]_vars PROVE CapInv'
    OBVIOUS
  <1>1. config \in [Versions -> Rows \cup {NoRow}] /\ config' \in [Versions -> Rows \cup {NoRow}]
    BY Zenon DEF KindInv, KindTypes
  <1>2. Cap \in Nat
    BY <1>1, CapNat, Zenon
  <1>3. Cap' \in Nat
    <2>1. config'[1] \in Rows \cup {NoRow}
      BY <1>1, DeploymentsAssumption, Zenon
    <2> QED
      BY <2>1, CapValue, Zenon DEF Cap
  <1>4. CASE UNCHANGED <<capVars, config>>
    BY <1>4, ZenonT(60) DEF capVars, CapInv, CapTypes, PartialTypes, InRange, Accounted, Accounts, CoversLeases, Waits, SureClaims,
         Leased, Cap
  <1>5. CASE CapNext
    <2>1. ASSUME NEW p \in Pods, (\E rows \in SUBSET Tasks : ClaimBegin(p, rows)) \/ ClaimCommit(p) PROVE CapInv'
      BY <1>2, <2>1, ClaimBeginStep, ClaimCommitStep, Zenon
    <2>2. ASSUME NEW t \in Tasks, Complete(t) \/ Release(t) PROVE CapInv'
      BY <2>2, LeaseEnds, Zenon
    <2>3. ASSUME NEW r \in Reapers, RecountBegin(r) \/ RecountCommit(r) PROVE CapInv'
      BY <2>3, RecountBeginStep, RecountCommitStep, Zenon
    <2> QED
      BY <1>5, <2>1, <2>2, <2>3, Zenon DEF CapNext
  <1>6. CASE PostgresCrash
    BY <1>6, CapCrashStep, Zenon
  <1>7. ASSUME NEW c \in Callers, Publish(c) \/ Delete(c) \/ EditConfig(c) PROVE CapInv'
    BY <1>1, <1>2, <1>3, <1>7, ConfigStep, Zenon
  <1>8. CASE UNCHANGED vars
    BY <1>4, <1>8, Zenon DEF vars
  <1>9. CASE Next
    <2>1. Steps
      BY <1>9, Zenon DEF Next, Steps
    <2> QED
      BY <1>4, <1>5, <1>6, <1>7, <2>1, QueueFrame, Zenon
  <1> QED
    BY <1>8, <1>9, Zenon

(* The leases grow by the rows of a claim that commits.                    *)
LEMMA LeasesGrow ==
    ASSUME CapInv, [Next]_vars
    PROVE  Leased' \subseteq Leased \/ \E p \in Pods : Leased' = Leased \cup claims[p].rows
  <1> DEFINE Shrinks == Leased' \subseteq Leased
  <1>1. CASE UNCHANGED task
    BY <1>1, Zenon DEF Leased
  <1>2. ASSUME NEW c \in Callers, Publish(c) \/ Delete(c) \/ EditConfig(c) PROVE UNCHANGED task
    BY <1>2, Zenon DEF Publish, Delete, EditConfig, capVars
  <1>3. ASSUME NEW t \in Tasks, Complete(t) \/ Release(t) PROVE Shrinks
    <2>1. task' = [task EXCEPT ![t] = "done"] \/ task' = [task EXCEPT ![t] = "pending"]
      BY <1>3, Zenon DEF Complete, Release
    <2> QED
      BY <2>1, Zenon DEF CapInv, CapTypes, Leased
  <1>4. CASE PostgresCrash
    <2>1. task' = [t \in Tasks |-> IF task[t] = "done" THEN "done" ELSE "pending"]
      BY <1>4, Zenon DEF PostgresCrash
    <2> QED
      BY <2>1, Zenon DEF Leased
  <1>5. CASE CapNext
    <2>1. ASSUME NEW p \in Pods, NEW rows \in SUBSET Tasks, ClaimBegin(p, rows) PROVE UNCHANGED task
      BY <2>1, Zenon DEF ClaimBegin
    <2>2. ASSUME NEW r \in Reapers, RecountBegin(r) \/ RecountCommit(r) PROVE UNCHANGED task
      BY <2>2, Zenon DEF RecountBegin, RecountCommit
    <2>3. ASSUME NEW p \in Pods, ClaimCommit(p) PROVE Leased' = Leased \cup claims[p].rows
      <3>1. claims[p].rows \in SUBSET Tasks
        BY ClaimFields, Zenon DEF CapInv, CapTypes
      <3> QED
        BY <2>3, <3>1, ClaimLeases, Zenon
    <2> QED
      BY <1>1, <1>3, <1>5, <2>1, <2>2, <2>3, Zenon DEF CapNext
  <1>6. CASE Next
    <2>1. Steps
      BY <1>6, Zenon DEF Next, Steps
    <2> QED
      BY <1>1, <1>2, <1>4, <1>5, <2>1, QueueFrame, Zenon DEF capVars
  <1> QED
    BY <1>1, <1>6, Zenon DEF vars, capVars

(* A claim that is sure keeps its cap.                                     *)
LEMMA KeepsCap == CapInv /\ [Next]_vars => CapKept
  <1> SUFFICES ASSUME CapInv, [Next]_vars, NEW p \in Pods, claims[p].sure, claims[p].cap > 0
               PROVE  Cardinality(Leased') <= claims[p].cap
    BY Zenon DEF CapKept
  <1>1. /\ Cardinality(Leased \cup claims[p].rows) <= claims[p].cap
        /\ \A q \in Pods \ {p} : claims[q].rows = {}
    BY Zenon DEF CapInv, SureClaims
  <1>2. claims[p].rows \in SUBSET Tasks /\ claims[p].cap \in Nat
    BY ClaimFields, Zenon DEF CapInv, CapTypes
  <1>3. Leased' \in SUBSET (Leased \cup claims[p].rows)
    BY <1>1, LeasesGrow, Zenon
  <1>4. Leased \cup claims[p].rows \in SUBSET Tasks
    BY <1>2, Zenon DEF Leased
  <1>5. /\ Cardinality(Leased') \in Nat /\ Cardinality(Leased \cup claims[p].rows) \in Nat
        /\ Cardinality(Leased') <= Cardinality(Leased \cup claims[p].rows)
    BY <1>3, <1>4, FewerTasks, Zenon
  <1> QED
    BY <1>1, <1>2, <1>5, SMT

(* The account and the cap, in every behaviour: when the range of every    *)
(* pod lies within that of one reaper, the tally never undercounts, and a  *)
(* claim that commits with no other around it keeps the cap it read        *)
(* (WorkQueueTakeBatch, recount_inflight).                                 *)
THEOREM CapAccountedHolds ==
    ASSUME PodsNested
    PROVE  Spec => CapAccounted
  <1>1. CapInv => NeverUndercounts
    <2> SUFFICES ASSUME CapInv, Cap > 0, uncounted = {} PROVE Tally >= Cardinality(Leased)
      BY Zenon DEF NeverUndercounts
    <2>1. Tally \in Nat /\ Cardinality(Leased) \in Nat /\ Cardinality(Leased) <= Tally
      BY TallyCounts, Zenon DEF CapInv
    <2> QED
      BY <2>1, SMT
  <1>2. KindInv /\ KindInv' /\ CapInv /\ [Next]_vars => CapInv'
    BY CapStep
  <1>3. CapInv /\ [Next]_vars => CapKept
    BY KeepsCap
  <1> QED
    BY <1>1, <1>2, <1>3, CapStart, KindStart, KindStep, PTL DEF Spec, CapAccounted
=============================================================================
