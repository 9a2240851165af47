------------------------------ MODULE FleetProofs ------------------------------
(***************************************************************************)
(* Proofs about the processes of a fleet, for every bound of the models.   *)
(*   - Dynamic sharding: the integer slices neither overlap nor leave a    *)
(*     gap, members that computed their spans from one view of the         *)
(*     registry never own a shard together, and once all agree they own    *)
(*     every shard.                                                        *)
(*   - The route stream between two brokers: once everything said over an  *)
(*     unbroken one has arrived, each knows what the other has.            *)
(*   - The work stream of a worker: the runner tracks exactly what it has, *)
(*     and half-closes the stream only when everything is written.         *)
(***************************************************************************)
EXTENDS Sharding, MeshRoute, WorkerConfig, FiniteSetTheorems, TLAPS

-----------------------------------------------------------------------------
(* The shards of the members: SpansTile and DeregisteredStaysOut.          *)

\* What integer division returns, in the form the slices need.
LEMMA DivBounds ==
    ASSUME NEW a \in Nat, NEW b \in Nat \ {0}
    PROVE  /\ a \div b \in Nat
           /\ b * (a \div b) <= a
           /\ a < b * (a \div b + 1)
  OBVIOUS

\* Integer division is monotone in the dividend.
LEMMA DivMonotone ==
    ASSUME NEW a \in Nat, NEW c \in Nat, NEW b \in Nat \ {0}, a <= c
    PROVE  a \div b <= c \div b
  <1> DEFINE p == a \div b
             q == c \div b
  <1>1. p \in Nat /\ q \in Nat /\ b * p <= a /\ c < b * (q + 1)
    BY DivBounds
  <1> HIDE DEF p, q
  <1>2. SUFFICES ASSUME q + 1 <= p PROVE FALSE
    BY <1>1 DEF p, q
  <1>3. b * (q + 1) <= b * p
    BY <1>1, <1>2
  <1> QED
    BY <1>1, <1>3

\* The bounds of a slice are naturals within 0 .. total.
LEMMA SliceBounds ==
    ASSUME NEW n \in Nat \ {0}, NEW total \in Nat, NEW k \in 0 .. n - 1
    PROVE  /\ SliceStart(k, n, total) \in Nat
           /\ SliceEnd(k, n, total) \in 0 .. total
  <1>1. k * total \in Nat /\ (k + 1) * total \in Nat
    OBVIOUS
  <1>2. (k + 1) * total <= n * total
    OBVIOUS
  <1>3. n * total \in Nat /\ (n * total) \div n = total
    OBVIOUS
  <1>4. ((k + 1) * total) \div n <= total
    BY <1>1, <1>2, <1>3, DivMonotone
  <1> QED
    BY <1>1, <1>4, DivBounds DEF SliceStart, SliceEnd

\* A slice ends before any later slice starts: the slices of
\* assign_member_shards, ShardsForPod and bandShards are disjoint.
THEOREM SlicesDisjoint ==
    ASSUME NEW n \in Nat \ {0}, NEW total \in Nat,
           NEW j \in 0 .. n - 1, NEW k \in 0 .. n - 1, j < k
    PROVE  Slice(j, n, total) \cap Slice(k, n, total) = {}
  <1>1. (j + 1) * total \in Nat /\ k * total \in Nat
    OBVIOUS
  <1>2. (j + 1) * total <= k * total
    OBVIOUS
  <1>3. SliceEnd(j, n, total) <= SliceStart(k, n, total)
    BY <1>1, <1>2, DivMonotone DEF SliceEnd, SliceStart
  <1> QED
    BY <1>3, SliceBounds DEF Slice

\* Every shard lies in some slice, whether or not the number of slices divides
\* or exceeds the number of shards: no shard is left without an owner.
THEOREM SlicesCover ==
    ASSUME NEW n \in Nat \ {0}, NEW total \in Nat, NEW s \in 0 .. total - 1
    PROVE  \E k \in 0 .. n - 1 : s \in Slice(k, n, total)
  <1> DEFINE a == (s + 1) * n - 1
             k == a \div total
  <1>1. total \in Nat \ {0} /\ s \in Nat /\ s + 1 <= total
    OBVIOUS
  <1>2. (s + 1) * n >= 1 /\ (s + 1) * n <= total * n /\ (s + 1) * n \in Nat /\ total * n \in Nat
    BY <1>1
  <1>3. a \in Nat /\ a < total * n
    BY <1>2
  <1>4. k \in Nat /\ total * k <= a /\ a < total * (k + 1)
    BY <1>1, <1>3, DivBounds
  <1> HIDE DEF k
  <1>5. k < n
    <2>1. SUFFICES ASSUME n <= k PROVE FALSE
      BY <1>4
    <2>2. total * n <= total * k
      BY <1>1, <1>4, <2>1
    <2> QED
      BY <1>1, <1>2, <1>3, <1>4, <2>2
  <1>6. SliceStart(k, n, total) <= s
    <2>1. k * total \in Nat /\ k * total < (s + 1) * n
      BY <1>1, <1>2, <1>4
    <2> DEFINE q == (k * total) \div n
    <2>2. q \in Nat /\ n * q <= k * total
      BY <2>1, DivBounds
    <2> HIDE DEF q
    <2>3. SUFFICES ASSUME s + 1 <= q PROVE FALSE
      BY <1>1, <2>2 DEF SliceStart, q
    <2>4. (s + 1) * n <= n * q
      BY <1>1, <2>2, <2>3
    <2> QED
      BY <1>2, <2>1, <2>2, <2>4
  <1>7. s < SliceEnd(k, n, total)
    <2>1. (k + 1) * total \in Nat /\ (s + 1) * n <= (k + 1) * total
      BY <1>1, <1>2, <1>4
    <2>2. ((s + 1) * n) \div n = s + 1
      BY <1>1
    <2>3. s + 1 <= ((k + 1) * total) \div n
      BY <1>2, <2>1, <2>2, DivMonotone
    <2> QED
      BY <1>1, <2>1, <2>3, DivBounds DEF SliceEnd
  <1>8. k \in 0 .. n - 1
    BY <1>4, <1>5
  <1>9. s \in Slice(k, n, total)
    BY <1>1, <1>6, <1>7, <1>8, SliceBounds DEF Slice
  <1> QED
    BY <1>8, <1>9
--------------------------------------------------------------------------------
(* From slices to members *)

\* Leaving out an element makes a finite set smaller.
LEMMA SmallerSubset ==
    ASSUME NEW T, IsFiniteSet(T), NEW R \in SUBSET T, NEW x \in T, x \notin R
    PROVE  /\ IsFiniteSet(R)
           /\ Cardinality(R) \in Nat /\ Cardinality(T) \in Nat
           /\ Cardinality(R) < Cardinality(T)
  <1>1. IsFiniteSet(R) /\ Cardinality(R) <= Cardinality(T)
    BY FS_Subset
  <1>2. Cardinality(T) # Cardinality(R)
    BY FS_Subset
  <1>3. Cardinality(R) \in Nat /\ Cardinality(T) \in Nat
    BY <1>1, FS_CardinalityType
  <1> QED
    BY <1>1, <1>2, <1>3

\* The ranks of two members of one live set are ordered as their ids and lie
\* below the count: row_number() gives no rank twice.
LEMMA RanksOrdered ==
    ASSUME NEW S \in SUBSET Members, NEW m \in S, NEW n \in S, m < n
    PROVE  /\ Cardinality(S) \in Nat \ {0}
           /\ Rank(m, S) \in 0 .. Cardinality(S) - 1
           /\ Rank(n, S) \in 0 .. Cardinality(S) - 1
           /\ Rank(m, S) < Rank(n, S)
  <1> DEFINE A == {x \in S : x < m}
             B == {x \in S : x < n}
  <1>1. IsFiniteSet(S) /\ S \subseteq Nat
    BY MembersAssumption, FS_Subset
  <1>2. A \in SUBSET B /\ B \in SUBSET S
    <2>1. ASSUME NEW x \in A PROVE x \in B
      BY <1>1, <2>1
    <2> QED
      BY <2>1
  <1>3. m \in B /\ m \notin A /\ n \notin B
    BY <1>1
  <1> HIDE DEF A, B
  <1>4. /\ IsFiniteSet(B) /\ Cardinality(B) \in Nat /\ Cardinality(S) \in Nat
        /\ Cardinality(B) < Cardinality(S)
    BY <1>1, <1>2, <1>3, SmallerSubset
  <1>5. Cardinality(A) \in Nat /\ Cardinality(A) < Cardinality(B)
    BY <1>2, <1>3, <1>4, SmallerSubset
  <1>6. Rank(m, S) = Cardinality(A) /\ Rank(n, S) = Cardinality(B)
    BY DEF Rank, A, B
  <1> QED
    BY <1>4, <1>5, <1>6

\* What each process has in its ShardSet is what assign_member_shards returned
\* for the view it was computed from.
SpanOfView(m, V, s) ==
    \/ V = {} /\ s = {}
    \/ m \in V /\ s = Slice(Rank(m, V), Cardinality(V), Total)

\* The inductive invariant: every span is that of its view.
SpanInv ==
    /\ view \in [Members -> SUBSET Members]
    /\ DOMAIN span = Members
    /\ \A m \in Members : SpanOfView(m, view[m], span[m])

\* One step keeps SpanInv: only AssignOnce computes a span, and a process that
\* ends forgets both.
LEMMA SpanInvStep == SpanInv /\ [Next]_vars => SpanInv'
  <1> SUFFICES ASSUME SpanInv, [Next]_vars PROVE SpanInv'
    OBVIOUS
  <1>1. ASSUME NEW m \in Members, AssignOnce(m) PROVE SpanInv'
    <2> DEFINE S == Live(Role[m])
    <2>1. S \in SUBSET Members
      BY DEF Live
    <2>2. /\ span' = [span EXCEPT ![m] = AssignMemberShards(m, S)]
          /\ view' = [view EXCEPT ![m] = IF m \in S THEN S ELSE {}]
      BY <1>1 DEF AssignOnce
    <2> HIDE DEF S
    <2>3. SpanOfView(m, IF m \in S THEN S ELSE {}, AssignMemberShards(m, S))
      BY DEF SpanOfView, AssignMemberShards
    <2> QED
      BY <2>1, <2>2, <2>3 DEF SpanInv
  <1>2. ASSUME NEW m \in Members, Deregister(m) \/ Crash(m) PROVE SpanInv'
    <2>1. span' = [span EXCEPT ![m] = {}] /\ view' = [view EXCEPT ![m] = {}]
      BY <1>2 DEF Deregister, Crash
    <2>2. SpanOfView(m, {}, {})
      BY DEF SpanOfView
    <2> QED
      BY <2>1, <2>2 DEF SpanInv
  <1>3. ASSUME UNCHANGED <<span, view>> PROVE SpanInv'
    BY <1>3 DEF SpanInv, SpanOfView
  <1>4. ASSUME NEW m \in Members,
               \/ Boot(m) \/ BeatBegin(m) \/ BeatCommit(m) \/ BeatFail(m)
               \/ Stop(m) \/ Lapse(m) \/ Expire(m) \/ RefreshOnce(m)
        PROVE  UNCHANGED <<span, view>>
    BY <1>4 DEF Boot, BeatBegin, BeatCommit, BeatFail, Stop, Lapse, Expire,
                Aging, RefreshOnce
  <1>5. ASSUME GCStaleClusterMembers \/ UNCHANGED vars PROVE UNCHANGED <<span, view>>
    BY <1>5 DEF GCStaleClusterMembers, vars
  <1> QED
    BY <1>1, <1>2, <1>3, <1>4, <1>5 DEF Next

\* SpanInv makes equal views disjoint, by the order of the ranks.
LEMMA SpanInvDisjoint == SpanInv => SameViewDisjoint
  <1> SUFFICES ASSUME SpanInv, NEW m \in Members, NEW n \in Members,
                      m # n, view[m] = view[n]
               PROVE  span[m] \cap span[n] = {}
    BY DEF SameViewDisjoint
  <1> DEFINE V == view[m]
  <1>1. CASE V = {}
    BY <1>1 DEF SpanInv, SpanOfView
  <1>2. CASE V # {}
    <2>1. /\ V \in SUBSET Members
          /\ m \in V /\ span[m] = Slice(Rank(m, V), Cardinality(V), Total)
          /\ n \in V /\ span[n] = Slice(Rank(n, V), Cardinality(V), Total)
      BY <1>2 DEF SpanInv, SpanOfView
    <2> HIDE DEF V
    <2>2. m \in Nat /\ n \in Nat
      BY MembersAssumption
    <2>3. CASE m < n
      BY <2>1, <2>3, RanksOrdered, SlicesDisjoint, TotalAssumption
    <2>4. CASE n < m
      BY <2>1, <2>4, RanksOrdered, SlicesDisjoint, TotalAssumption
    <2> QED
      BY <2>2, <2>3, <2>4
  <1> QED
    BY <1>1, <1>2

\* A rank lies below the count.
LEMMA RankBelowCount ==
    ASSUME NEW S \in SUBSET Members, NEW m \in S
    PROVE  Cardinality(S) \in Nat \ {0} /\ Rank(m, S) \in 0 .. Cardinality(S) - 1
  <1> DEFINE A == {x \in S : x < m}
  <1>1. IsFiniteSet(S) /\ m \in Nat
    BY MembersAssumption, FS_Subset
  <1>2. A \in SUBSET S /\ m \notin A
    BY <1>1
  <1> HIDE DEF A
  <1>3. /\ Cardinality(A) \in Nat /\ Cardinality(S) \in Nat
        /\ Cardinality(A) < Cardinality(S)
    BY <1>1, <1>2, SmallerSubset
  <1> QED
    BY <1>3 DEF Rank, A

\* Every rank below the count is some member's: row_number() leaves none out.
LEMMA RanksOnto ==
    ASSUME NEW S \in SUBSET Members, NEW k \in 0 .. Cardinality(S) - 1
    PROVE  \E m \in S : Rank(m, S) = k
  <1> DEFINE n == Cardinality(S)
             f == [m \in S |-> Rank(m, S)]
  <1>1. IsFiniteSet(S) /\ S \subseteq Nat /\ n \in Nat
    BY MembersAssumption, FS_Subset, FS_CardinalityType
  <1>2. \A m \in S : f[m] \in 0 .. n - 1
    BY RankBelowCount
  <1>3. \A m1, m2 \in S : f[m1] = f[m2] => m1 = m2
    <2> SUFFICES ASSUME NEW m1 \in S, NEW m2 \in S, m1 # m2 PROVE f[m1] # f[m2]
      OBVIOUS
    <2>1. m1 < m2 \/ m2 < m1
      BY <1>1
    <2> QED
      BY <2>1, RanksOrdered
  <1> HIDE DEF n
  <1>4. f \in Injection(S, 0 .. n - 1)
    BY <1>2, <1>3 DEF Injection, IsInjective
  <1>5. IsFiniteSet(0 .. n - 1) /\ Cardinality(0 .. n - 1) = n
    BY <1>1, FS_Interval
  <1>6. f \in Surjection(S, 0 .. n - 1)
    BY <1>4, <1>5, FS_Injection DEF n
  <1> QED
    BY <1>6 DEF Surjection, n

\* SpanInv leaves no gap once the live members of a role agree: every shard lies
\* in a slice, and every slice belongs to a rank that some member has.
LEMMA SpanInvCovers == SpanInv => SettledCovers
  <1> SUFFICES ASSUME SpanInv, NEW r \in {"all", "control", "broker"},
                      Live(r) # {}, \A m \in Live(r) : view[m] = Live(r)
               PROVE  UNION {span[m] : m \in Live(r)} = Shards
    BY DEF SettledCovers
  <1> DEFINE V == Live(r)
             n == Cardinality(V)
  <1>1. V \in SUBSET Members /\ V # {} /\ \A m \in V : view[m] = V
    BY DEF Live
  <1> HIDE DEF V
  <1>2. \A m \in V : span[m] = Slice(Rank(m, V), n, Total)
    BY <1>1 DEF SpanInv, SpanOfView
  <1>3. IsFiniteSet(V) /\ n \in Nat \ {0}
    BY <1>1, MembersAssumption, FS_Subset, FS_CardinalityType, FS_EmptySet
  <1> HIDE DEF n
  <1>4. ASSUME NEW s \in Shards PROVE \E m \in V : s \in span[m]
    <2>1. PICK k \in 0 .. n - 1 : s \in Slice(k, n, Total)
      BY <1>3, SlicesCover, TotalAssumption DEF Shards
    <2>2. PICK m \in V : Rank(m, V) = k
      BY <1>1, <2>1, RanksOnto DEF n
    <2> QED
      BY <1>2, <2>1, <2>2
  <1>5. ASSUME NEW m \in V, NEW s \in span[m] PROVE s \in Shards
    <2>1. Rank(m, V) \in 0 .. n - 1
      BY <1>1, RankBelowCount DEF n
    <2>2. s \in Slice(Rank(m, V), n, Total)
      BY <1>2, <1>5
    <2> QED
      BY <1>3, <2>1, <2>2, SliceBounds, TotalAssumption DEF Slice, Shards
  <1> QED
    BY <1>4, <1>5 DEF V

\* In every behaviour, for any members, roles and number of shards: members that
\* computed their spans from the same live set share no shard, and once the live
\* members of a role agree they own every shard (assign_member_shards,
\* Resharder.assignOnce).
THEOREM SpansTileHolds == Spec => []SpansTile
  <1>1. Init => SpanInv
    BY DEF Init, SpanInv, SpanOfView
  <1>2. SpanInv => SpansTile
    BY SpanInvDisjoint, SpanInvCovers DEF SpansTile
  <1> QED
    BY <1>1, <1>2, SpanInvStep, PTL DEF Spec
--------------------------------------------------------------------------------
(* The order of a shutdown *)

\* The inductive invariant: from the join of the beat loop on no beat is on its
\* way, so nothing can follow the delete.
ShutdownInv ==
    /\ DOMAIN proc = Members /\ DOMAIN reg = Members /\ DOMAIN beating = Members
    /\ \A m \in Members : proc[m] \in {"draining", "left"} => beating[m] = {}
    /\ \A m \in Members : proc[m] = "left" => reg[m].age = "none"

\* One step keeps ShutdownInv.
LEMMA ShutdownInvStep == ShutdownInv /\ [Next]_vars => ShutdownInv'
  <1> SUFFICES ASSUME ShutdownInv, [Next]_vars PROVE ShutdownInv'
    OBVIOUS
  <1> USE DEF ShutdownInv
  <1>1. ASSUME NEW m \in Members, Boot(m) PROVE ShutdownInv'
    BY <1>1 DEF Boot
  <1>2. ASSUME NEW m \in Members, BeatBegin(m) PROVE ShutdownInv'
    BY <1>2 DEF BeatBegin
  <1>3. ASSUME NEW m \in Members, BeatCommit(m) PROVE ShutdownInv'
    BY <1>3 DEF BeatCommit
  <1>4. ASSUME NEW m \in Members, BeatFail(m) PROVE ShutdownInv'
    BY <1>4 DEF BeatFail
  <1>5. ASSUME NEW m \in Members, Stop(m) PROVE ShutdownInv'
    BY <1>5 DEF Stop
  <1>6. ASSUME NEW m \in Members, Deregister(m) PROVE ShutdownInv'
    <2>1. NoRow.age = "none"
      BY Zenon DEF NoRow
    <2>2. /\ \/ proc' = [proc EXCEPT ![m] = "left"] /\ reg' = [reg EXCEPT ![m] = NoRow]
             \/ proc' = [proc EXCEPT ![m] = "gone"] /\ reg' = reg
          /\ proc[m] = "draining" /\ beating' = beating
      BY Zenon, <1>6 DEF Deregister
    <2> QED
      BY <2>1, <2>2
  <1>7. ASSUME NEW m \in Members, Crash(m) PROVE ShutdownInv'
    BY <1>7 DEF Crash
  <1>8. ASSUME NEW m \in Members, Lapse(m) \/ Expire(m) PROVE ShutdownInv'
    <2>1. PICK to : Aging(m, "fresh", to) \/ Aging(m, "lapsed", to)
      BY <1>8 DEF Lapse, Expire
    <2>2. reg[m].age # "none" /\ reg' = [reg EXCEPT ![m] = [reg[m] EXCEPT !.age = to]]
      BY <2>1 DEF Aging
    <2>3. UNCHANGED <<proc, beating>>
      BY <2>1 DEF Aging
    <2> QED
      BY <2>2, <2>3
  <1>9. ASSUME GCStaleClusterMembers PROVE ShutdownInv'
    BY <1>9 DEF GCStaleClusterMembers, NoRow
  <1>10. ASSUME NEW m \in Members, AssignOnce(m) \/ RefreshOnce(m) PROVE ShutdownInv'
    BY <1>10 DEF AssignOnce, RefreshOnce
  <1>11. CASE UNCHANGED vars
    BY <1>11 DEF vars
  <1> QED
    BY <1>1, <1>2, <1>3, <1>4, <1>5, <1>6, <1>7, <1>8, <1>9, <1>10, <1>11 DEF Next

\* In every behaviour a member that deregistered has no row: the shutdown joins
\* the beat loop before the delete (reporter.Stop, reporter.Deregister).
THEOREM DeregisteredStaysOutHolds == Spec => []DeregisteredStaysOut
  <1>1. Init => ShutdownInv
    BY DEF Init, ShutdownInv
  <1>2. ShutdownInv => DeregisteredStaysOut
    BY DEF ShutdownInv, DeregisteredStaysOut, Registered
  <1> QED
    BY <1>1, <1>2, ShutdownInvStep, PTL DEF Spec

-----------------------------------------------------------------------------
\* A leaf without arithmetic, records or sequences is first-order reasoning.
USE Zenon

-----------------------------------------------------------------------------
(* The route between two brokers: SettledExact.                            *)

\* The last element of a queue.
LastOf(q) == q[Len(q)]

\* The types, and what a queue and a stream's end say about the peer.
RouteTypes ==
    /\ has \in [Sides -> BOOLEAN] /\ self \in [Sides -> BOOLEAN] /\ learned \in [Sides -> BOOLEAN]
    /\ publish \in [Sides -> SUBSET BOOLEAN]
    /\ client \in [Sides -> Nat] /\ link \in [Sides -> Nat] /\ made \in [Sides -> Nat]
    /\ out \in [Sides -> Seq(BOOLEAN)] /\ wire \in [Sides -> Seq(BOOLEAN)]
    /\ lingers \in BOOLEAN
    /\ drops \in Nat /\ flaps \in Nat

\* What a broker is about to publish is what it has.
PublishInv ==
    \A x \in Sides \ muddled :
        /\ publish[x] = {} => self[x] = has[x]
        /\ publish[x] # {} => publish[x] = {has[x]}

\* The shape of a stream that has not broken.
UnbrokenInv ==
    /\ lapsed = {} /\ lingers = FALSE
    /\ \A x \in Sides : link[x] \in {0, client[x]} /\ (client[x] = 0 => out[x] = <<>>)
    /\ ~Pumping(Dialer) => ~Pumping(Acceptor)
    /\ ~Pumping(Acceptor) => learned[Dialer] = FALSE /\ learned[Acceptor] = FALSE /\ wire[Acceptor] = <<>>

\* The last thing said is what holds: it is the last frame queued, or the last one on the
\* stream, or what the other has learned.
LastWordInv ==
    \A x \in Sides \ muddled :
        /\ out[x] # <<>> => LastOf(out[x]) = self[x]
        /\ Pumping(x) /\ out[x] = <<>> /\ wire[x] # <<>> => LastOf(wire[x]) = self[x]
        /\ Pumping(x) /\ out[x] = <<>> /\ wire[x] = <<>> => learned[Other(x)] = self[x]

\* The inductive invariant.
RouteInv == RouteTypes /\ PublishInv /\ (Unbroken => UnbrokenInv /\ LastWordInv)

\* What is put on a queue is its last element.
LEMMA QueueAppend ==
  ASSUME NEW S, NEW q \in Seq(S), NEW p \in S
  PROVE  Append(q, p) \in Seq(S) /\ Append(q, p) # <<>> /\ LastOf(Append(q, p)) = p
  BY SMT DEF LastOf

\* A queue of length zero is empty.
LEMMA EmptyQueue == ASSUME NEW S, NEW q \in Seq(S), Len(q) = 0 PROVE q = <<>>
  BY SMT

\* What is left of a queue when its head is taken ends as the queue did.
LEMMA QueueTail ==
  ASSUME NEW S, NEW q \in Seq(S), q # <<>>
  PROVE  /\ Head(q) \in S /\ Tail(q) \in Seq(S)
         /\ Tail(q) # <<>> => LastOf(Tail(q)) = LastOf(q)
         /\ Tail(q) = <<>> => LastOf(q) = Head(q)
  <1>1. /\ Len(q) \in Nat /\ Len(q) > 0 /\ Head(q) = q[1] /\ Head(q) \in S
        /\ Tail(q) \in Seq(S) /\ Len(Tail(q)) = Len(q) - 1
    BY SMT
  <1>2. \A i \in 1 .. Len(q) - 1 : Tail(q)[i] = q[i + 1]
    BY SMT
  <1>3. Tail(q) # <<>> => Len(Tail(q)) > 0
    <2>1. Len(Tail(q)) \in Nat
      BY SMT, <1>1
    <2>2. Len(Tail(q)) = 0 => Tail(q) = <<>>
      BY <1>1, EmptyQueue
    <2> DEFINE t == Tail(q)
               n == Len(t)
    <2>3. n \in Nat /\ (n = 0 => t = <<>>)
      BY <2>1, <2>2
    <2> HIDE DEF t, n
    <2>4. t # <<>> => n > 0
      BY SMT, <2>3
    <2> QED
      BY <2>4 DEF t, n
  <1>4. Tail(q) = <<>> => Len(q) = 1
    <2>1. Len(<<>>) = 0
      BY SMT
    <2>2. Tail(q) = <<>> => Len(Tail(q)) = 0
      BY <2>1
    <2> DEFINE n == Len(Tail(q))
               m == Len(q)
    <2>3. m \in Nat /\ n = m - 1 /\ (Tail(q) = <<>> => n = 0)
      BY <1>1, <2>2
    <2> HIDE DEF n, m
    <2>4. n = 0 => m = 1
      BY SMT, <2>3
    <2> QED
      BY <2>3, <2>4 DEF m
  <1> QED
    BY SMT, <1>1, <1>2, <1>3, <1>4 DEF LastOf

\* The frames a fresh stream starts with end with what the broker says of itself.
LEMMA BulkFrames ==
  ASSUME RouteTypes, NEW x \in Sides
  PROVE  /\ BulkInterest(x) \in Seq(BOOLEAN)
         /\ BulkInterest(x) # <<>> => LastOf(BulkInterest(x)) = self[x]
         /\ BulkInterest(x) = <<>> => self[x] = FALSE
  <1>1. /\ <<TRUE>> \in Seq(BOOLEAN) /\ <<>> \in Seq(BOOLEAN) /\ <<TRUE>> # <<>>
        /\ <<TRUE>>[Len(<<TRUE>>)] = TRUE
    BY SMT
  <1>2. self[x] \in BOOLEAN
    BY DEF RouteTypes
  <1> QED
    BY <1>1, <1>2 DEF BulkInterest, LastOf

\* The pair: each is the other of the other.
LEMMA TwoSides ==
  /\ Dialer \in Sides /\ Acceptor \in Sides /\ Dialer # Acceptor /\ Sides = {Dialer, Acceptor}
  /\ Other(Dialer) = Acceptor /\ Other(Acceptor) = Dialer
  /\ \A x \in Sides : Other(x) \in Sides /\ Other(Other(x)) = x /\ Other(x) # x
  BY DEF Dialer, Acceptor, Sides, Other

\* No stream, and nothing on it.
LEMMA NothingOnStreams ==
  /\ Down \in [Sides -> Nat] /\ NoFrames \in [Sides -> Seq(BOOLEAN)]
  /\ \A x \in Sides : Down[x] = 0 /\ NoFrames[x] = <<>>
  BY SMT DEF Down, NoFrames

\* Every step keeps the types.
LEMMA RouteTypesStep == RouteTypes /\ [RouteNext]_routeVars => RouteTypes'
  <1> SUFFICES ASSUME RouteTypes, [RouteNext]_routeVars PROVE RouteTypes'
    OBVIOUS
  <1> USE DEF presenceVars, peerVars, linkVars
  <1>b. \A x \in Sides : has[x] \in BOOLEAN /\ (~has[x]) \in BOOLEAN
    BY DEF RouteTypes
  <1>1. ASSUME NEW x \in Sides, PresenceEdge(x) \/ CreditEdge(x) PROVE RouteTypes'
    <2>1. has' \in [Sides -> BOOLEAN]
      BY <1>1, <1>b DEF PresenceEdge, CreditEdge, RouteTypes
    <2>2. publish' \in [Sides -> SUBSET BOOLEAN]
      <3>1. publish[x] \cup {has[x]} \in SUBSET BOOLEAN /\ publish[x] \cup {~has[x]} \in SUBSET BOOLEAN
        BY <1>b DEF RouteTypes
      <3>2. publish' = [publish EXCEPT ![x] = publish[x] \cup {has[x]}]
              \/ publish' = [publish EXCEPT ![x] = publish[x] \cup {~has[x]}]
        BY <1>1 DEF PresenceEdge, CreditEdge
      <3> QED
        BY <3>1, <3>2 DEF RouteTypes
    <2> QED
      BY <1>1, <2>1, <2>2 DEF PresenceEdge, CreditEdge, RouteTypes
  <1>2. ASSUME NEW x \in Sides, AdvertiseCredit(x) PROVE RouteTypes'
    <2>1. PICK p \in publish[x] :
            /\ publish' = [publish EXCEPT ![x] = @ \ {p}]
            /\ self' = [self EXCEPT ![x] = p]
            /\ out' = IF client[x] = 0 THEN out ELSE [out EXCEPT ![x] = Enqueued(@, p)]
            /\ UNCHANGED <<has, lapsed, peerVars, linkVars, edges, drops, flaps>>
      BY <1>2 DEF AdvertiseCredit
    <2>2. p \in BOOLEAN /\ publish[x] \ {p} \in SUBSET BOOLEAN
      BY DEF RouteTypes
    <2>3. Enqueued(out[x], p) \in Seq(BOOLEAN)
      BY <2>2, QueueAppend DEF Enqueued, RouteTypes
    <2> QED
      BY <2>1, <2>2, <2>3 DEF RouteTypes
  <1>3. ASSUME NEW x \in Sides, HeartbeatLapses(x) \/ HeartbeatReturns(x) PROVE RouteTypes'
    <2>1. flaps' \in Nat
      BY SMT, <1>3 DEF HeartbeatLapses, HeartbeatReturns, RouteTypes
    <2> QED
      BY <1>3, <2>1 DEF HeartbeatLapses, HeartbeatReturns, RouteTypes
  <1>4. ASSUME NEW x \in Sides, AddPeer(x) PROVE RouteTypes'
    <2>1. made[x] + 1 \in Nat
      BY SMT DEF RouteTypes
    <2> QED
      BY <1>4, <2>1 DEF AddPeer, RouteTypes
  <1>5. ASSUME NEW x \in Sides, DropPeer(x) PROVE RouteTypes'
    <2>1. 0 \in Nat /\ <<>> \in Seq(BOOLEAN) /\ FALSE \in BOOLEAN
      BY SMT
    <2>2. lingers' \in BOOLEAN
      BY <1>5 DEF DropPeer
    <2> QED
      BY <1>5, <2>1, <2>2, NothingOnStreams DEF DropPeer, RouteTypes
  <1>6. ASSUME NEW x \in Sides, SendFrame(x) PROVE RouteTypes'
    <2>1. /\ Tail(out[x]) \in Seq(BOOLEAN) /\ Append(wire[x], Head(out[x])) \in Seq(BOOLEAN)
      <3>1. wire[x] \in Seq(BOOLEAN) /\ out[x] \in Seq(BOOLEAN) /\ out[x] # <<>>
        BY <1>6 DEF SendFrame, RouteTypes
      <3>2. Head(out[x]) \in BOOLEAN /\ Tail(out[x]) \in Seq(BOOLEAN)
        BY <3>1, QueueTail
      <3> QED
        BY <3>1, <3>2, QueueAppend
    <2> QED
      BY <1>6, <2>1 DEF SendFrame, RouteTypes
  <1>7. ASSUME NEW x \in Sides, HandleInbound(x) PROVE RouteTypes'
    <2>1. Tail(wire[Other(x)]) \in Seq(BOOLEAN) /\ Head(wire[Other(x)]) \in BOOLEAN
      BY <1>7, QueueTail, TwoSides DEF HandleInbound, RouteTypes
    <2> QED
      BY <1>7, <2>1 DEF HandleInbound, RouteTypes
  <1>8. CASE Dial \/ AcceptRoute
    <2>2. PICK x \in Sides : /\ link' = [link EXCEPT ![x] = client[x]]
                             /\ wire' = [wire EXCEPT ![x] = BulkInterest(x)]
      BY <1>8, TwoSides DEF Dial, AcceptRoute
    <2>3. link' \in [Sides -> Nat]
      BY <2>2 DEF RouteTypes
    <2>4. wire' \in [Sides -> Seq(BOOLEAN)]
      BY <2>2, BulkFrames DEF RouteTypes
    <2> QED
      BY <1>8, <2>3, <2>4 DEF Dial, AcceptRoute, RouteTypes
  <1>9. CASE RefuseRoute
    BY <1>9, NothingOnStreams DEF RefuseRoute, RouteTypes
  <1>10. CASE DropRoute
    <2>1. drops' \in Nat
      BY SMT, <1>10 DEF DropRoute, RouteTypes
    <2>2. lingers' \in BOOLEAN
      BY <1>10 DEF DropRoute, RouteTypes, Attached
    <2> QED
      BY <1>10, <2>1, <2>2, NothingOnStreams DEF DropRoute, RouteTypes
  <1>11. CASE SendFails
    <2>1. out[Acceptor] # <<>> => Tail(out[Acceptor]) \in Seq(BOOLEAN)
      BY QueueTail, TwoSides DEF RouteTypes
    <2> QED
      BY <1>11, <2>1 DEF SendFails, RouteTypes
  <1>12. CASE UNCHANGED routeVars
    BY <1>12 DEF routeVars, RouteTypes
  <1> QED
    BY <1>1, <1>2, <1>3, <1>4, <1>5, <1>6, <1>7, <1>8, <1>9, <1>10, <1>11, <1>12 DEF RouteNext, MeshStep

\* Every step keeps PublishInv: an edge is published as what the broker has, unless two are under way.
LEMMA PublishStep == RouteTypes /\ PublishInv /\ [RouteNext]_routeVars => PublishInv'
  <1> SUFFICES ASSUME RouteTypes, PublishInv, [RouteNext]_routeVars, NEW y \in Sides, y \notin muddled'
               PROVE  /\ publish'[y] = {} => self'[y] = has'[y]
                      /\ publish'[y] # {} => publish'[y] = {has'[y]}
    BY DEF PublishInv
  <1> USE DEF presenceVars, peerVars, linkVars
  <1>t. publish \in [Sides -> SUBSET BOOLEAN] /\ self \in [Sides -> BOOLEAN] /\ has \in [Sides -> BOOLEAN]
    BY DEF RouteTypes
  <1>0. y \notin muddled
    BY DEF RouteNext, MeshStep, routeVars, PresenceEdge, CreditEdge, AdvertiseCredit, HeartbeatLapses, HeartbeatReturns, AddPeer, DropPeer, SendFrame,
           HandleInbound, Dial, AcceptRoute, RefuseRoute, DropRoute, SendFails
  <1>1. ASSUME NEW x \in Sides, PresenceEdge(x) \/ CreditEdge(x)
        PROVE  /\ publish'[y] = {} => self'[y] = has'[y]
               /\ publish'[y] # {} => publish'[y] = {has'[y]}
    <2>1. CASE x = y
      <3>1. publish[y] = {}
        BY <1>1, <2>1 DEF PresenceEdge, CreditEdge
      <3>2. publish'[y] = {has'[y]}
        <4>1. CASE PresenceEdge(x)
          <5>1. publish'[y] = {} \cup {~has[y]} /\ has'[y] = ~has[y]
            BY <1>t, <2>1, <3>1, <4>1 DEF PresenceEdge
          <5> QED
            BY <5>1
        <4>2. CASE CreditEdge(x)
          <5>1. publish'[y] = {} \cup {has[y]} /\ has'[y] = has[y]
            BY <1>t, <2>1, <3>1, <4>2 DEF CreditEdge
          <5> QED
            BY <5>1
        <4> QED
          BY <1>1, <4>1, <4>2
      <3> QED
        BY <3>2
    <2>2. CASE x # y
      BY <1>0, <1>1, <1>t, <2>2 DEF PresenceEdge, CreditEdge, PublishInv
    <2> QED
      BY <2>1, <2>2
  <1>2. ASSUME NEW x \in Sides, AdvertiseCredit(x)
        PROVE  /\ publish'[y] = {} => self'[y] = has'[y]
               /\ publish'[y] # {} => publish'[y] = {has'[y]}
    <2>1. PICK p \in publish[x] :
            publish' = [publish EXCEPT ![x] = @ \ {p}] /\ self' = [self EXCEPT ![x] = p] /\ has' = has
      BY <1>2 DEF AdvertiseCredit
    <2>2. CASE x = y
      <3>1. publish[y] = {has[y]} /\ p = has[y]
        BY <1>0, <2>1, <2>2 DEF PublishInv
      <3> QED
        BY <1>t, <2>1, <2>2, <3>1
    <2>3. CASE x # y
      BY <1>0, <1>t, <2>1, <2>3 DEF PublishInv
    <2> QED
      BY <2>2, <2>3
  <1>3. CASE UNCHANGED <<has, self, publish>>
    BY <1>0, <1>3 DEF PublishInv
  <1> QED
    BY <1>1, <1>2, <1>3 DEF RouteNext, MeshStep, routeVars, HeartbeatLapses, HeartbeatReturns, AddPeer, DropPeer, SendFrame, HandleInbound, Dial, AcceptRoute,
           RefuseRoute, DropRoute, SendFails

\* Every step of an unbroken stream keeps its shape and the last word, frame by frame.
LEMMA LastWordStep ==
  ASSUME RouteTypes, Unbroken => UnbrokenInv /\ LastWordInv, [RouteNext]_routeVars, Unbroken'
  PROVE  UnbrokenInv' /\ LastWordInv'
  <1> USE DEF presenceVars, peerVars, linkVars
  <1>t. /\ out \in [Sides -> Seq(BOOLEAN)] /\ wire \in [Sides -> Seq(BOOLEAN)]
        /\ client \in [Sides -> Nat] /\ link \in [Sides -> Nat] /\ made \in [Sides -> Nat]
        /\ self \in [Sides -> BOOLEAN] /\ learned \in [Sides -> BOOLEAN]
    BY DEF RouteTypes
  <1>n. drops + 1 # 0 /\ flaps + 1 # 0 /\ \A n \in Nat : n + 1 # 0
    BY SMT DEF RouteTypes
  <1>1. Unbroken /\ ~DropRoute /\ \A x \in Sides : ~HeartbeatLapses(x)
    <2>1. ~DropRoute
      BY <1>n DEF DropRoute, Unbroken
    <2>2. \A x \in Sides : ~HeartbeatLapses(x)
      BY <1>n DEF HeartbeatLapses, Unbroken
    <2> QED
      BY <2>1, <2>2 DEF Unbroken, RouteNext, MeshStep, routeVars, PresenceEdge, CreditEdge, AdvertiseCredit, HeartbeatReturns, AddPeer, DropPeer,
          SendFrame, HandleInbound, Dial, AcceptRoute, RefuseRoute, SendFails
  <1>2. UnbrokenInv /\ LastWordInv
    BY <1>1
  <1>3. ~SendFails /\ \A x \in Sides : ~HeartbeatReturns(x) /\ ~DropPeer(x)
    BY <1>2 DEF UnbrokenInv, SendFails, HeartbeatReturns, DropPeer
  <1>4. muddled \subseteq muddled'
    BY DEF RouteNext, MeshStep, routeVars, PresenceEdge, CreditEdge, AdvertiseCredit, HeartbeatLapses, HeartbeatReturns, AddPeer, DropPeer, SendFrame,
           HandleInbound, Dial, AcceptRoute, RefuseRoute, DropRoute, SendFails
  <1>5. CASE UNCHANGED <<self, lapsed, peerVars, out, linkVars>>
    BY <1>2, <1>4, <1>5 DEF UnbrokenInv, LastWordInv, Pumping
  <1>6. ASSUME NEW x \in Sides, AdvertiseCredit(x) PROVE UnbrokenInv' /\ LastWordInv'
    <2>1. PICK p \in publish[x] :
            /\ self' = [self EXCEPT ![x] = p]
            /\ out' = IF client[x] = 0 THEN out ELSE [out EXCEPT ![x] = Enqueued(@, p)]
            /\ muddled' = IF client[x] = 0 \/ Len(out[x]) < OutCap THEN muddled ELSE muddled \cup {x}
            /\ UNCHANGED <<lapsed, peerVars, linkVars>>
      BY <1>6 DEF AdvertiseCredit
    <2>2. UnbrokenInv'
      BY <1>2, <1>t, <2>1 DEF UnbrokenInv, Pumping
    <2>3. ASSUME NEW y \in Sides, y \notin muddled'
          PROVE  /\ out'[y] # <<>> => LastOf(out'[y]) = self'[y]
                 /\ Pumping(y)' /\ out'[y] = <<>> /\ wire'[y] # <<>> => LastOf(wire'[y]) = self'[y]
                 /\ Pumping(y)' /\ out'[y] = <<>> /\ wire'[y] = <<>> => learned'[Other(y)] = self'[y]
      <3>1. CASE y # x
        BY <1>2, <1>4, <1>t, <2>1, <2>3, <3>1 DEF LastWordInv, Pumping
      <3>2. CASE y = x /\ client[x] = 0
        <4>1. out'[x] = <<>> /\ link'[x] = 0
          BY <1>2, <2>1, <3>2 DEF UnbrokenInv
        <4> QED
          BY <3>2, <4>1 DEF Pumping
      <3>3. CASE y = x /\ client[x] # 0
        <4>1. out'[x] = Append(out[x], p)
          BY <1>t, <2>1, <2>3, <3>3 DEF Enqueued
        <4>2. p \in BOOLEAN
          BY DEF RouteTypes
        <4> QED
          <5>1. out[x] \in Seq(BOOLEAN) /\ self'[x] = p
            BY <1>t, <2>1
          <5>2. Append(out[x], p) # <<>> /\ LastOf(Append(out[x], p)) = p
            BY SMT, <4>2, <5>1, QueueAppend
          <5>3. out'[x] # <<>> /\ LastOf(out'[x]) = self'[x]
            BY <4>1, <5>1, <5>2
          <5> QED
            BY <3>3, <5>3
      <3> QED
        BY <3>1, <3>2, <3>3
    <2> QED
      BY <2>2, <2>3 DEF LastWordInv
  <1>7. ASSUME NEW x \in Sides, AddPeer(x) PROVE UnbrokenInv' /\ LastWordInv'
    <2>1. /\ client[x] = 0 /\ client' = [client EXCEPT ![x] = made[x] + 1] /\ made[x] + 1 # 0
          /\ UNCHANGED <<presenceVars, lapsed, learned, out, linkVars>>
      BY <1>7, <1>n, <1>t DEF AddPeer
    <2>2. link[x] = 0 /\ out[x] = <<>>
      BY <1>2, <2>1 DEF UnbrokenInv
    <2> QED
      BY <1>2, <1>t, <2>1, <2>2 DEF UnbrokenInv, LastWordInv, Pumping
  <1>8. ASSUME NEW x \in Sides, SendFrame(x) PROVE UnbrokenInv' /\ LastWordInv'
    <2>1. /\ out[x] # <<>> /\ Pumping(x)
          /\ wire' = [wire EXCEPT ![x] = Append(wire[x], Head(out[x]))]
          /\ out' = [out EXCEPT ![x] = Tail(out[x])]
          /\ UNCHANGED <<presenceVars, lapsed, peerVars, link, lingers>>
      BY <1>8 DEF SendFrame, Attached
    <2>2. /\ Head(out[x]) \in BOOLEAN
          /\ Tail(out[x]) # <<>> => LastOf(Tail(out[x])) = LastOf(out[x])
          /\ Tail(out[x]) = <<>> => LastOf(out[x]) = Head(out[x])
      BY <1>t, <2>1, QueueTail
    <2>3. Append(wire[x], Head(out[x])) # <<>> /\ LastOf(Append(wire[x], Head(out[x]))) = Head(out[x])
      <3>1. wire[x] \in Seq(BOOLEAN)
        BY <1>t
      <3> QED
        BY <2>2, <3>1, QueueAppend
    <2>4. UnbrokenInv'
      <3>1. client[x] # 0 /\ (x = Acceptor => Pumping(Acceptor))
        BY <1>2, <2>1 DEF UnbrokenInv
      <3>2. ~Pumping(Acceptor) => wire'[Acceptor] = wire[Acceptor]
        BY <1>t, <2>1, <3>1, TwoSides
      <3>3. \A y \in Sides : client[y] = 0 => out'[y] = out[y]
        BY <1>t, <2>1, <3>1
      <3> QED
        BY <1>2, <2>1, <3>2, <3>3 DEF UnbrokenInv, Pumping
    <2>5. ASSUME NEW y \in Sides, y \notin muddled
          PROVE  /\ out'[y] # <<>> => LastOf(out'[y]) = self[y]
                 /\ Pumping(y) /\ out'[y] = <<>> /\ wire'[y] # <<>> => LastOf(wire'[y]) = self[y]
                 /\ Pumping(y) /\ out'[y] = <<>> /\ wire'[y] = <<>> => learned[Other(y)] = self[y]
      <3>1. CASE y # x
        BY <1>2, <1>t, <2>1, <2>5, <3>1 DEF LastWordInv
      <3>2. CASE y = x
        <4>1. LastOf(out[x]) = self[x]
          BY <1>2, <2>1, <2>5, <3>2 DEF LastWordInv
        <4>2. out'[x] = Tail(out[x]) /\ wire'[x] = Append(wire[x], Head(out[x]))
          BY <1>t, <2>1
        <4> QED
          BY <2>2, <2>3, <3>2, <4>1, <4>2
      <3> QED
        BY <3>1, <3>2
    <2> QED
      BY <2>1, <2>4, <2>5 DEF LastWordInv, Pumping
  <1>9. ASSUME NEW x \in Sides, HandleInbound(x) PROVE UnbrokenInv' /\ LastWordInv'
    <2> DEFINE z == Other(x)
    <2>0. z \in Sides /\ z # x /\ Other(z) = x
      BY TwoSides
    <2>1. /\ Pumping(x) /\ wire[z] # <<>>
          /\ wire' = [wire EXCEPT ![z] = Tail(wire[z])]
          /\ UNCHANGED <<presenceVars, lapsed, client, made, out, link, lingers>>
      BY <1>9 DEF HandleInbound
    <2>2. learned' = [learned EXCEPT ![x] = Head(wire[z])]
      <3>1. Attached(x)
        BY <1>2, <2>1 DEF UnbrokenInv, Attached, Pumping
      <3> QED
        BY <1>9, <3>1 DEF HandleInbound
    <2> HIDE DEF z
    <2>3. /\ Tail(wire[z]) # <<>> => LastOf(Tail(wire[z])) = LastOf(wire[z])
          /\ Tail(wire[z]) = <<>> => LastOf(wire[z]) = Head(wire[z])
      BY <1>t, <2>0, <2>1, QueueTail
    <2>4. UnbrokenInv'
      <3>1. Pumping(Acceptor)
        <4>1. CASE x = Acceptor
          BY <2>1, <4>1
        <4>2. CASE x = Dialer
          <5>1. z = Acceptor
            BY <4>2, TwoSides DEF z
          <5> QED
            BY <1>2, <2>1, <5>1 DEF UnbrokenInv
        <4> QED
          BY <4>1, <4>2, TwoSides
      <3> QED
        BY <1>2, <2>1, <3>1 DEF UnbrokenInv, Pumping
    <2>5. ASSUME NEW y \in Sides, y \notin muddled
          PROVE  /\ Pumping(y) /\ out[y] = <<>> /\ wire'[y] # <<>> => LastOf(wire'[y]) = self[y]
                 /\ Pumping(y) /\ out[y] = <<>> /\ wire'[y] = <<>> => learned'[Other(y)] = self[y]
      <3>1. CASE y = x
        <4>1. Other(y) = z /\ wire'[y] = wire[y] /\ learned'[z] = learned[z]
          BY <1>t, <2>0, <2>1, <2>2, <3>1 DEF z
        <4> QED
          BY <1>2, <2>5, <4>1 DEF LastWordInv
      <3>2. CASE y = z
        <4>1. wire'[z] = Tail(wire[z]) /\ learned'[x] = Head(wire[z])
          BY <1>t, <2>0, <2>1, <2>2
        <4>2. Pumping(z) /\ out[z] = <<>> => LastOf(wire[z]) = self[z]
          BY <1>2, <2>1, <2>5, <3>2 DEF LastWordInv
        <4> QED
          BY <2>0, <2>3, <3>2, <4>1, <4>2
      <3> QED
        BY <2>0, <3>1, <3>2, TwoSides DEF z
    <2> QED
      BY <1>2, <2>1, <2>4, <2>5 DEF LastWordInv, Pumping
  <1>10. ASSUME NEW x \in Sides,
                link' = [link EXCEPT ![x] = client[x]] /\ wire' = [wire EXCEPT ![x] = BulkInterest(x)],
                client[x] # 0, ~Pumping(Acceptor), x = Acceptor <=> Pumping(Dialer),
                UNCHANGED <<lingers, presenceVars, lapsed, peerVars, out>>
         PROVE  UnbrokenInv' /\ LastWordInv'
    <2>1. /\ BulkInterest(x) # <<>> => LastOf(BulkInterest(x)) = self[x]
          /\ BulkInterest(x) = <<>> => self[x] = FALSE
      BY BulkFrames
    <2>2. link'[x] = client[x] /\ wire'[x] = BulkInterest(x)
          /\ \A y \in Sides : y # x => link'[y] = link[y] /\ wire'[y] = wire[y]
      BY <1>t, <1>10
    <2>3. learned[Dialer] = FALSE /\ learned[Acceptor] = FALSE /\ wire[Acceptor] = <<>>
      BY <1>2, <1>10 DEF UnbrokenInv
    <2>4. UnbrokenInv'
      <3>1. ~Pumping(Dialer)' => ~Pumping(Acceptor)'
        BY <1>10, <2>2, TwoSides DEF Pumping
      <3>2. ~Pumping(Acceptor)' => wire'[Acceptor] = <<>>
        BY <1>10, <2>2, <2>3, TwoSides DEF Pumping
      <3>3. \A y \in Sides : link'[y] \in {0, client[y]} /\ (client[y] = 0 => out[y] = <<>>)
        BY <1>2, <2>2 DEF UnbrokenInv
      <3>4. lapsed = {} /\ lingers = FALSE
        BY <1>2 DEF UnbrokenInv
      <3> QED
        BY <1>10, <2>3, <3>1, <3>2, <3>3, <3>4 DEF UnbrokenInv
    <2>5. ASSUME NEW y \in Sides, y \notin muddled
          PROVE  /\ Pumping(y)' /\ out[y] = <<>> /\ wire'[y] # <<>> => LastOf(wire'[y]) = self[y]
                 /\ Pumping(y)' /\ out[y] = <<>> /\ wire'[y] = <<>> => learned[Other(y)] = self[y]
      <3>1. CASE y # x
        BY <1>2, <2>2, <2>5, <3>1 DEF LastWordInv, Pumping
      <3>2. CASE y = x
        <4>1. learned[Other(x)] = FALSE
          BY <2>3, TwoSides
        <4> QED
          BY <2>1, <2>2, <3>2, <4>1
      <3> QED
        BY <3>1, <3>2
    <2> QED
      BY <1>2, <1>10, <2>4, <2>5 DEF LastWordInv
  <1>11. CASE Dial
    BY <1>2, <1>10, <1>11, TwoSides DEF Dial, UnbrokenInv
  <1>12. CASE AcceptRoute
    BY <1>10, <1>12, TwoSides DEF AcceptRoute
  <1>13. CASE RefuseRoute
    <2>1. /\ ~Pumping(Acceptor) /\ link' = Down /\ wire' = NoFrames
          /\ UNCHANGED <<lingers, presenceVars, lapsed, peerVars, out>>
      BY <1>13 DEF RefuseRoute
    <2>2. \A x \in Sides : ~Pumping(x)' /\ link'[x] = 0 /\ wire'[x] = <<>>
      BY <2>1, NothingOnStreams DEF Pumping
    <2>3. UnbrokenInv'
      BY <1>2, <2>1, <2>2, TwoSides DEF UnbrokenInv
    <2>4. LastWordInv'
      BY <1>2, <2>1, <2>2 DEF LastWordInv
    <2> QED
      BY <2>3, <2>4
  <1>14. ASSUME NEW x \in Sides, PresenceEdge(x) \/ CreditEdge(x) PROVE UnbrokenInv' /\ LastWordInv'
    BY <1>5, <1>14 DEF PresenceEdge, CreditEdge
  <1>15. CASE UNCHANGED routeVars
    BY <1>5, <1>15 DEF routeVars
  <1> QED
    BY <1>1, <1>3, <1>6, <1>7, <1>8, <1>9, <1>11, <1>12, <1>13, <1>14, <1>15 DEF RouteNext, MeshStep

\* relay.go advertiseCredit, route_frame.go pump, peer.go setInterest: whatever the order of
\* edges, discoveries, dials and refusals, over a stream that has not broken two brokers that
\* have nothing more to say know exactly whether the other serves.
THEOREM SettledExactHolds == RouteSpec => []SettledExact
  <1>1. RouteInit => RouteInv
    <2> SUFFICES ASSUME RouteInit PROVE RouteInv
      OBVIOUS
    <2>1. 0 \in Nat /\ <<>> \in Seq(BOOLEAN) /\ FALSE \in BOOLEAN /\ {} \in SUBSET BOOLEAN
      BY SMT
    <2>2. RouteTypes
      BY <2>1, NothingOnStreams DEF RouteInit, RouteTypes
    <2>3. PublishInv
      BY DEF RouteInit, PublishInv
    <2>4. UnbrokenInv /\ LastWordInv
      BY NothingOnStreams, TwoSides DEF RouteInit, UnbrokenInv, LastWordInv, Pumping
    <2> QED
      BY <2>2, <2>3, <2>4 DEF RouteInv
  <1>2. RouteInv /\ [RouteNext]_routeVars => RouteInv'
    BY RouteTypesStep, PublishStep, LastWordStep DEF RouteInv
  <1>3. RouteInv => SettledExact
    BY DEF RouteInv, SettledExact, LastWordInv, PublishInv, Quiet, Attached
  <1> QED
    BY <1>1, <1>2, <1>3, PTL DEF RouteSpec

-----------------------------------------------------------------------------
(* The worker's session: ResultsKept.                                      *)

\* Lease tokens, config documents, and the frames sent to a worker.
Tokens == Tasks \X Nat
Docs == [spec : Nat, data : Nat]
Frames == [body : {"task"}, token : Tokens] \cup [body : {"config"}, doc : Docs]

\* The tasks among the frames of a queue, and the tokens of a buffer.
TaskIn(q, tok) == \E i \in 1 .. Len(q) : q[i].body = "task" /\ q[i].token = tok
TasksOnce(q) ==
    \A i, j \in 1 .. Len(q) :
        q[i].body = "task" /\ q[j].body = "task" /\ q[i].token = q[j].token => i = j
In(q, x) == \E i \in 1 .. Len(q) : q[i] = x
Once(q) == \A i, j \in 1 .. Len(q) : q[i] = q[j] => i = j

\* Where a token can be: on its way to the worker, with the receiving loop, with a handler
\* that runs, or among the kept results.
Coming(tok) == TaskIn(down, tok)
Taken(tok) == run = "acquire" /\ held = tok
Runs(tok) == [token |-> tok, at |-> "running"] \in handlers
Kept(tok) == In(resultBuf, tok)

\* The types of what the argument reads.
SessionTypes ==
    /\ lease \in [Tasks -> [n : Nat, at : {"queued", "sent", "done"}, by : Nat]]
    /\ session \in Nat
    /\ down \in Seq(Frames)
    /\ run = "acquire" => held \in Tokens
    /\ handlers \subseteq [token : Tokens, at : {"running", "leaving"}]
    /\ tracked \subseteq [token : Tokens, done : BOOLEAN]
    /\ resultBuf \in Seq(Tokens)

\* ... and of the config on its way.
ConfigTypes ==
    /\ version \in Nat /\ dflt \in Docs /\ current \in Docs
    /\ priming \in Seq(Nat) /\ chan \in Seq(Docs)

\* A token is in one place at most, once.
OnePlace ==
    /\ TasksOnce(down) /\ Once(resultBuf)
    /\ \A tok \in Tokens :
         /\ Coming(tok) => ~Taken(tok) /\ ~Runs(tok) /\ ~Kept(tok)
         /\ Taken(tok) => ~Runs(tok) /\ ~Kept(tok)
         /\ Runs(tok) => ~Kept(tok)

\* The tokens the worker can have are of dispatches made: none is of the next one.
Made(tok) == IF lease[tok[1]].at = "queued" THEN tok[2] < lease[tok[1]].n ELSE tok[2] <= lease[tok[1]].n
Dispatched ==
    \A tok \in Tokens : Coming(tok) \/ Taken(tok) \/ Runs(tok) \/ Kept(tok) => Made(tok)

\* TrackedExact, token by token.
TrackedInv ==
    \A tok \in Tokens :
        /\ [token |-> tok, done |-> FALSE] \in tracked <=> Runs(tok)
        /\ [token |-> tok, done |-> TRUE] \in tracked <=> Kept(tok)

\* A sender that is gone has left nothing on a stream that is up, a stream is half-closed
\* only by a session that receives, and nothing is put on the mux after.
MuxInv ==
    /\ sendCh => sender /\ ~closed
    /\ ~sender /\ stream = "up" => mux = <<>>
    /\ run \in {"idle", "burst", "connect"} => mux = <<>> /\ ~sender
    /\ run \in {"idle", "burst", "connect", "redeliver", "exited"} => watcher = "off" /\ stream # "half"
    /\ stream = "half" => mux = <<>> /\ ~sendCh

\* What Append returns, index by index.
LEMMA AppendFacts ==
  ASSUME NEW S, NEW q \in Seq(S), NEW e \in S
  PROVE  /\ Append(q, e) \in Seq(S) /\ Len(q) \in Nat /\ Len(Append(q, e)) = Len(q) + 1
         /\ Append(q, e)[Len(q) + 1] = e
         /\ \A i \in 1 .. Len(q) : Append(q, e)[i] = q[i]
  BY SMT

\* What Head and Tail return, index by index.
LEMMA TailFacts ==
  ASSUME NEW S, NEW q \in Seq(S), q # <<>>
  PROVE  /\ Tail(q) \in Seq(S) /\ Len(q) \in Nat \ {0} /\ Len(Tail(q)) = Len(q) - 1
         /\ Head(q) = q[1] /\ Head(q) \in S
         /\ \A i \in 1 .. Len(q) - 1 : Tail(q)[i] = q[i + 1]
  <1>1. Tail(q) \in Seq(S) /\ Len(q) \in Nat /\ Len(Tail(q)) = Len(q) - 1
    BY SMT
  <1>2. Len(q) # 0 /\ Head(q) = q[1] /\ Head(q) \in S
    BY SMT
  <1>3. \A i \in 1 .. Len(q) - 1 : Tail(q)[i] = q[i + 1]
    BY SMT
  <1> QED
    BY <1>1, <1>2, <1>3

\* The tasks of a queue a frame was put on.
LEMMA TasksAppend ==
  ASSUME NEW S, NEW q \in Seq(S), NEW e \in S
  PROVE  /\ \A tok : TaskIn(Append(q, e), tok) <=> TaskIn(q, tok) \/ (e.body = "task" /\ e.token = tok)
         /\ TasksOnce(q) /\ (e.body = "task" => ~TaskIn(q, e.token)) => TasksOnce(Append(q, e))
  <1> DEFINE a == Append(q, e)
             n == Len(q)
             m == Len(a)
  <1>1. /\ n \in Nat /\ m = n + 1 /\ a[n + 1] = e
        /\ \A i \in 1 .. n : a[i] = q[i]
    BY SMT, AppendFacts
  <1> HIDE DEF a, n, m
  <1>2. 1 .. m = (1 .. n) \cup {n + 1} /\ n + 1 \notin 1 .. n
    BY SMT, <1>1
  <1>3. \A tok : TaskIn(a, tok) <=> TaskIn(q, tok) \/ (e.body = "task" /\ e.token = tok)
    BY <1>1, <1>2 DEF TaskIn, n, m
  <1>4. TasksOnce(q) /\ (e.body = "task" => ~TaskIn(q, e.token)) => TasksOnce(a)
    BY <1>1, <1>2 DEF TasksOnce, TaskIn, n, m
  <1> QED
    BY <1>3, <1>4 DEF a

\* The tasks of a queue whose head was taken.
LEMMA TasksTail ==
  ASSUME NEW S, NEW q \in Seq(S), q # <<>>
  PROVE  /\ \A tok : TaskIn(Tail(q), tok) => TaskIn(q, tok)
         /\ Head(q).body = "task" => TaskIn(q, Head(q).token)
         /\ TasksOnce(q) => /\ TasksOnce(Tail(q))
                            /\ Head(q).body = "task" => ~TaskIn(Tail(q), Head(q).token)
  <1> DEFINE a == Tail(q)
             n == Len(q)
             m == Len(a)
  <1>1. /\ n \in Nat \ {0} /\ m = n - 1 /\ Head(q) = q[1]
        /\ \A i \in 1 .. n - 1 : a[i] = q[i + 1]
    BY TailFacts
  <1> HIDE DEF a, n, m
  <1>2. /\ 1 \in 1 .. n
        /\ \A i \in 1 .. m : i + 1 \in 1 .. n /\ i + 1 # 1 /\ a[i] = q[i + 1]
        /\ \A i, j \in 1 .. m : i + 1 = j + 1 => i = j
    BY SMT, <1>1
  <1>3. \A tok : TaskIn(a, tok) => TaskIn(q, tok)
    BY <1>2 DEF TaskIn, n, m
  <1>4. Head(q).body = "task" => TaskIn(q, Head(q).token)
    BY <1>1, <1>2 DEF TaskIn, n
  <1>5. TasksOnce(q) => TasksOnce(a)
    BY ZenonT(60), <1>2 DEF TasksOnce, n, m
  <1>6. TasksOnce(q) /\ Head(q).body = "task" => ~TaskIn(a, Head(q).token)
    BY <1>1, <1>2 DEF TasksOnce, TaskIn, n, m
  <1> QED
    BY <1>3, <1>4, <1>5, <1>6 DEF a

\* The tokens of a buffer one was put in.
LEMMA BufferAppend ==
  ASSUME NEW S, NEW q \in Seq(S), NEW e \in S
  PROVE  /\ \A x : In(Append(q, e), x) <=> In(q, x) \/ e = x
         /\ Once(q) /\ ~In(q, e) => Once(Append(q, e))
  <1> DEFINE a == Append(q, e)
             n == Len(q)
             m == Len(a)
  <1>1. /\ n \in Nat /\ m = n + 1 /\ a[n + 1] = e
        /\ \A i \in 1 .. n : a[i] = q[i]
    BY SMT, AppendFacts
  <1> HIDE DEF a, n, m
  <1>2. 1 .. m = (1 .. n) \cup {n + 1} /\ n + 1 \notin 1 .. n
    BY SMT, <1>1
  <1>3. \A x : In(a, x) <=> In(q, x) \/ e = x
    BY <1>1, <1>2 DEF In, n, m
  <1>4. Once(q) /\ ~In(q, e) => Once(a)
    BY <1>1, <1>2 DEF Once, In, n, m
  <1> QED
    BY <1>3, <1>4 DEF a

\* The tokens of a buffer whose head was taken.
LEMMA BufferTail ==
  ASSUME NEW S, NEW q \in Seq(S), q # <<>>
  PROVE  /\ \A x : In(q, x) <=> In(Tail(q), x) \/ x = Head(q)
         /\ Once(q) => Once(Tail(q)) /\ ~In(Tail(q), Head(q))
  <1> DEFINE a == Tail(q)
             n == Len(q)
             m == Len(a)
  <1>1. /\ n \in Nat \ {0} /\ m = n - 1 /\ Head(q) = q[1]
        /\ \A i \in 1 .. n - 1 : a[i] = q[i + 1]
    BY TailFacts
  <1> HIDE DEF a, n, m
  <1>2. /\ 1 \in 1 .. n
        /\ \A i \in 1 .. m : i + 1 \in 1 .. n /\ i + 1 # 1 /\ a[i] = q[i + 1]
        /\ \A i, j \in 1 .. m : i + 1 = j + 1 => i = j
    BY SMT, <1>1
  <1>3. \A k \in 1 .. n : k = 1 \/ \E i \in 1 .. m : k = i + 1
    <2> SUFFICES ASSUME NEW k \in 1 .. n, k # 1 PROVE \E i \in 1 .. m : k = i + 1
      OBVIOUS
    <2>1. k - 1 \in 1 .. m /\ k = (k - 1) + 1
      BY SMT, <1>1
    <2> QED
      BY <2>1
  <1>4. ASSUME NEW x PROVE In(q, x) <=> In(a, x) \/ x = Head(q)
    <2>1. In(a, x) \/ x = Head(q) => In(q, x)
      BY <1>1, <1>2 DEF In, n, m
    <2>2. ASSUME In(q, x) PROVE In(a, x) \/ x = Head(q)
      <3>1. PICK k \in 1 .. n : q[k] = x
        BY <2>2 DEF In, n
      <3> QED
        BY ZenonT(60), <1>1, <1>2, <1>3, <3>1 DEF In, m
    <2> QED
      BY <2>1, <2>2
  <1>5. Once(q) => Once(a) /\ ~In(a, Head(q))
    BY SMTT(30), <1>1, <1>2 DEF Once, In, n, m
  <1> QED
    BY <1>4, <1>5 DEF a

-----------------------------------------------------------------------------
\* What the tokens' invariant reads.
tokenVars == <<lease, session, down, run, held, handlers, tracked, resultBuf>>

\* The steps that change any of it.
LEMMA WorkerCases ==
  ASSUME [WorkerNext]_workerVars
  PROVE  \/ UNCHANGED tokenVars
         \/ \E t \in Tasks : SendTask(t) \/ Reap(t)
         \/ \E s \in open : HandlerEnds(s)
         \/ Prime \/ Push \/ ReceiveConfig
         \/ Subscribe \/ InitialUnready \/ Attach \/ RunStep
         \/ \E h \in handlers : Send(h) \/ LeaveStep(h)
         \/ Flush
  <1>1. CASE UNCHANGED workerVars
    BY <1>1 DEF workerVars, sessionVars, brokerVars, streamVars, runVars, memory, tokenVars
  <1>2. CASE WorkerRun
    BY <1>2 DEF WorkerRun, SubscribePriming, AttachLoaded
  <1>3. CASE Broker
    BY <1>3 DEF Broker, SendTaskPrimed, HandlerEndsStep
  <1>4. CASE HandlerStep \/ SenderStep \/ WatcherStep \/ Poll
    BY <1>4 DEF HandlerStep, SenderStep, WatcherStep, Poll, SenderEnds, WatchTerm, WatchCheck, WatchParks, WatchWoken, WatchEnds,
       CloseRequest, brokerVars, streamVars, runVars, memory, tokenVars
  <1>5. CASE Attest \/ Drop \/ ProbeFlips \/ Terminate \/ GraceExpires
    BY <1>5 DEF Attest, Drop, ProbeFlips, Terminate, GraceExpires, brokerVars, streamVars, runVars, memory, tokenVars
  <1>6. CASE Edit \/ Reload
    BY <1>6 DEF Edit, Reload, sessionVars, brokerVars, streamVars, runVars, memory, tokenVars
  <1>7. CASE \E l \in Loaders : LoadStep(l) \/ LoadFails(l)
    BY ZenonT(60), <1>7 DEF LoadStep, LoadSpec, LoadData, Merge, Fire, LoadFails, sessionVars, brokerVars, streamVars, runVars, memory, tokenVars
  <1> QED
    BY <1>1, <1>2, <1>3, <1>4, <1>5, <1>6, <1>7 DEF WorkerNext

\* Every step keeps the types of the config.
LEMMA ConfigTypesStep == ConfigTypes /\ [WorkerNext]_workerVars => ConfigTypes'
  <1> SUFFICES ASSUME ConfigTypes, [WorkerNext]_workerVars PROVE ConfigTypes'
    OBVIOUS
  <1> USE DEF ConfigTypes
  <1>1. CASE Edit
    <2>1. version' \in Nat
      BY SMT, <1>1 DEF Edit
    <2>2. None \in Docs /\ Both(version') \in Docs /\ [spec |-> version', data |-> 0] \in Docs
      BY SMT, <2>1 DEF None, Both, Docs
    <2> QED
      BY <1>1, <2>1, <2>2 DEF Edit
  <1>2. CASE Reload
    BY <1>2, AppendFacts DEF Reload
  <1>3. CASE Prime
    <2>1. <<>> \in Seq(Nat)
      BY SMT
    <2>2. priming' = <<>> /\ UNCHANGED <<dflt, version, current, chan, cache, loads, provider, overlap>>
      BY Zenon, <1>3 DEF Prime
    <2> QED
      BY Zenon, <2>1, <2>2
  <1>4. CASE Push
    BY <1>4, TailFacts DEF Push
  <1>5. CASE SubscribePriming
    <2>1. current.spec \in Nat
      BY SMT DEF Docs
    <2>2. <<current.spec>> \in Seq(Nat) /\ <<>> \in Seq(Docs)
      BY SMT, <2>1
    <2> QED
      BY <1>5, <2>2 DEF SubscribePriming
  <1>6. ASSUME NEW s \in open, HandlerEndsStep(s) PROVE ConfigTypes'
    <2>1. <<>> \in Seq(Nat) /\ <<>> \in Seq(Docs)
      BY SMT
    <2> QED
      BY <1>6, <2>1 DEF HandlerEndsStep
  <1>7. CASE UNCHANGED <<version, dflt, current, priming, chan>>
    BY <1>7
  <1>8. CASE UNCHANGED workerVars \/ UNCHANGED configVars
    BY <1>7, <1>8 DEF workerVars, configVars
  <1>9. CASE \E l \in Loaders : LoadStep(l) \/ LoadFails(l)
    BY <1>7, <1>9 DEF LoadStep, LoadSpec, LoadData, Merge, Fire, LoadFails
  <1>10. CASE AttachLoaded \/ ReceiveConfig
    BY <1>7, <1>10 DEF AttachLoaded, ReceiveConfig
  <1> QED
    BY <1>1, <1>2, <1>3, <1>4, <1>5, <1>6, <1>8, <1>9, <1>10 DEF WorkerNext, WorkerRun, Broker, SendTaskPrimed

\* A number is not below itself.
LEMMA Irreflexive == \A n \in Nat : ~(n < n) /\ n <= n
  BY SMT

\* Tasks that were sent are claimed anew (abandon, reap_stale_work): a token made stays made.
LEMMA LeaseMoves ==
  ASSUME SessionTypes, NEW ts \in SUBSET {t \in Tasks : lease[t].at = "sent"},
         lease' = Requeued(ts)
  PROVE  /\ lease' \in [Tasks -> [n : Nat, at : {"queued", "sent", "done"}, by : Nat]]
         /\ \A tok \in Tokens : Made(tok) => Made(tok)'
  <1>1. ASSUME NEW t \in ts PROVE lease[t].n + 1 \in Nat /\ [n |-> lease[t].n + 1, at |-> "queued", by |-> 0] \in [n : Nat, at : {"queued", "sent", "done"}, by : Nat]
    BY SMT, <1>1 DEF SessionTypes
  <1>2. lease' \in [Tasks -> [n : Nat, at : {"queued", "sent", "done"}, by : Nat]]
    BY <1>1 DEF SessionTypes, Requeued
  <1>3. ASSUME NEW t \in Tasks, NEW k \in Nat, Made(<<t, k>>) PROVE Made(<<t, k>>)'
    <2>1. CASE t \in ts
      <3>1. lease'[t].n = lease[t].n + 1 /\ lease'[t].at = "queued"
        BY Zenon, <2>1 DEF Requeued
      <3>2. lease[t].at = "sent" /\ lease[t].n \in Nat
        BY SMT, <2>1 DEF SessionTypes
      <3>3. k <= lease[t].n
        BY Zenon, <1>3, <3>2 DEF Made
      <3>4. k < lease'[t].n
        BY SMT, <3>1, <3>2, <3>3
      <3> QED
        BY Zenon, <3>1, <3>4 DEF Made
    <2>2. CASE t \notin ts
      <3>1. lease'[t] = lease[t]
        BY <2>2 DEF Requeued
      <3> QED
        BY Zenon, <1>3, <3>1 DEF Made
    <2> QED
      BY <2>1, <2>2
  <1>4. ASSUME NEW tok \in Tokens, Made(tok) PROVE Made(tok)'
    <2>1. PICK t \in Tasks, k \in Nat : tok = <<t, k>>
      BY SMT DEF Tokens
    <2> QED
      BY <1>3, <1>4, <2>1
  <1> QED
    BY <1>2, <1>4

\* The fields of a lease that is changed.
LEMMA LeaseRecord ==
  ASSUME NEW r \in [n : Nat, at : {"queued", "sent", "done"}, by : Nat]
  PROVE  /\ [r EXCEPT !.at = "done"] \in [n : Nat, at : {"queued", "sent", "done"}, by : Nat]
         /\ [r EXCEPT !.at = "done"].n = r.n /\ [r EXCEPT !.at = "done"].at = "done"
         /\ \A s \in Nat : /\ [r EXCEPT !.at = "sent", !.by = s] \in [n : Nat, at : {"queued", "sent", "done"}, by : Nat]
                            /\ [r EXCEPT !.at = "sent", !.by = s].n = r.n
                            /\ [r EXCEPT !.at = "sent", !.by = s].at = "sent"
         /\ r.n \in Nat
  <1>1. [r EXCEPT !.at = "done"] \in [n : Nat, at : {"queued", "sent", "done"}, by : Nat]
    BY SMT
  <1>2. [r EXCEPT !.at = "done"].n = r.n /\ [r EXCEPT !.at = "done"].at = "done" /\ r.n \in Nat
    BY SMT
  <1>3. ASSUME NEW s \in Nat PROVE [r EXCEPT !.at = "sent", !.by = s] \in [n : Nat, at : {"queued", "sent", "done"}, by : Nat]
    <2> DEFINE R == [n : Nat, at : {"queued", "sent", "done"}, by : Nat]
    <2>1. \A q \in R : [q EXCEPT !.by = s] \in R
      BY SMT
    <2>2. [r EXCEPT !.at = "sent"] \in R
      BY SMT
    <2>3. [r EXCEPT !.at = "sent", !.by = s] = [[r EXCEPT !.at = "sent"] EXCEPT !.by = s]
      BY SMT
    <2> HIDE DEF R
    <2>4. [r EXCEPT !.at = "sent", !.by = s] \in R
      BY <2>1, <2>2, <2>3
    <2> QED
      BY <2>4 DEF R
  <1>4. ASSUME NEW s \in Nat PROVE [r EXCEPT !.at = "sent", !.by = s].n = r.n /\ [r EXCEPT !.at = "sent", !.by = s].at = "sent"
    BY SMT
  <1> QED
    BY <1>1, <1>2, <1>3, <1>4

\* A function changed at one argument.
LEMMA LeaseSet ==
  ASSUME NEW R, NEW f \in [Tasks -> R], NEW u, NEW r \in R
  PROVE  /\ [f EXCEPT ![u] = r] \in [Tasks -> R]
         /\ \A t \in Tasks : [f EXCEPT ![u] = r][t] = IF t = u THEN r ELSE f[t]
  OBVIOUS

\* A result is delivered: a token made stays made.
LEMMA LeaseDelivered ==
  ASSUME SessionTypes, NEW tok, lease' = Delivered(tok)
  PROVE  /\ lease' \in [Tasks -> [n : Nat, at : {"queued", "sent", "done"}, by : Nat]]
         /\ \A x \in Tokens : Made(x) => Made(x)'
  <1> DEFINE R == [n : Nat, at : {"queued", "sent", "done"}, by : Nat]
             u == tok[1]
             r == [lease[u] EXCEPT !.at = "done"]
  <1>1. CASE ~(lease[u].at = "sent" /\ lease[u].n = tok[2])
    BY <1>1 DEF SessionTypes, Delivered, Made
  <1>2. CASE lease[u].at = "sent" /\ u \notin Tasks
    BY <1>2 DEF SessionTypes, Delivered, Made
  <1>3. CASE lease[u].at = "sent" /\ lease[u].n = tok[2] /\ u \in Tasks
    <2>1. lease' = [lease EXCEPT ![u] = r]
      BY <1>3 DEF Delivered
    <2>2. lease[u] \in R /\ lease \in [Tasks -> R]
      BY <1>3 DEF SessionTypes
    <2>3. r \in R /\ r.n = lease[u].n /\ r.at = "done"
      BY <2>2, LeaseRecord
    <2> HIDE DEF R, r, u
    <2>4. lease' \in [Tasks -> R] /\ \A t \in Tasks : lease'[t] = IF t = u THEN r ELSE lease[t]
      BY ZenonT(60), <2>1, <2>2, <2>3, LeaseSet
    <2>5. ASSUME NEW t \in Tasks, NEW k \in Nat, Made(<<t, k>>) PROVE Made(<<t, k>>)'
      <3>1. lease'[t] = IF t = u THEN r ELSE lease[t]
        BY <2>4
      <3> QED
        BY ZenonT(60), <1>3, <2>3, <2>5, <3>1 DEF Made
    <2>6. ASSUME NEW x \in Tokens, Made(x) PROVE Made(x)'
      <3>1. PICK t \in Tasks, k \in Nat : x = <<t, k>>
        BY SMT DEF Tokens
      <3> QED
        BY <2>5, <2>6, <3>1
    <2> QED
      BY <2>4, <2>6 DEF R
  <1> QED
    BY <1>1, <1>2, <1>3

\* A task is sent: its token is made, and no other is unmade.
LEMMA LeaseSent ==
  ASSUME SessionTypes, NEW t \in Tasks, SendTask(t)
  PROVE  /\ lease' \in [Tasks -> [n : Nat, at : {"queued", "sent", "done"}, by : Nat]]
         /\ \A x \in Tokens : Made(x) => Made(x)'
         /\ lease'[t].at = "sent" /\ lease'[t].n = lease[t].n
  <1> DEFINE R == [n : Nat, at : {"queued", "sent", "done"}, by : Nat]
             r == [lease[t] EXCEPT !.at = "sent", !.by = session]
  <1>1. lease' = [lease EXCEPT ![t] = r]
    BY DEF SendTask, SessionTypes
  <1>2. lease[t] \in R /\ lease \in [Tasks -> R] /\ session \in Nat /\ lease[t].at = "queued"
    BY DEF SessionTypes, SendTask
  <1>3. r \in R /\ r.n = lease[t].n /\ r.at = "sent" /\ lease[t].n \in Nat
    BY <1>2, LeaseRecord
  <1> HIDE DEF R, r
  <1>4. lease' \in [Tasks -> R] /\ \A u \in Tasks : lease'[u] = IF u = t THEN r ELSE lease[u]
    BY <1>1, <1>2, <1>3, LeaseSet
  <1>5. ASSUME NEW u \in Tasks, NEW k \in Nat, Made(<<u, k>>) PROVE Made(<<u, k>>)'
    <2>1. lease'[u] = IF u = t THEN r ELSE lease[u]
      BY <1>4
    <2>2. CASE u = t
      <3>1. k < lease[t].n
        BY Zenon, <1>2, <1>5, <2>2 DEF Made
      <3>2. k <= lease[t].n
        BY SMT, <1>3, <3>1
      <3> QED
        BY Zenon, <1>3, <2>1, <2>2, <3>2 DEF Made
    <2>3. CASE u # t
      BY Zenon, <1>5, <2>1, <2>3 DEF Made
    <2> QED
      BY <2>2, <2>3
  <1>6. ASSUME NEW x \in Tokens, Made(x) PROVE Made(x)'
    <2>1. PICK u \in Tasks, k \in Nat : x = <<u, k>>
      BY SMT DEF Tokens
    <2> QED
      BY <1>5, <1>6, <2>1
  <1> QED
    BY <1>3, <1>4, <1>6 DEF R

-----------------------------------------------------------------------------
\* The frames of the stream, and the empty queue.
LEMMA FrameTypes ==
  /\ \A tok \in Tokens : Task(tok) \in Frames /\ Task(tok).body = "task" /\ Task(tok).token = tok
  /\ \A doc \in Docs : [body |-> "config", doc |-> doc] \in Frames /\ [body |-> "config", doc |-> doc].body = "config"
  /\ \A f \in Frames : f.body = "task" => f.token \in Tokens
  /\ <<>> \in Seq(Frames) /\ <<>> \in Seq(Tokens)
  <1>1. ASSUME NEW tok \in Tokens PROVE Task(tok) \in Frames /\ Task(tok).body = "task" /\ Task(tok).token = tok
    BY ZenonT(30) DEF Frames, Task
  <1>2. ASSUME NEW doc \in Docs
        PROVE  [body |-> "config", doc |-> doc] \in Frames /\ [body |-> "config", doc |-> doc].body = "config"
    BY ZenonT(30) DEF Frames
  <1>3. ASSUME NEW f \in Frames, f.body = "task" PROVE f.token \in Tokens
    BY SMT, <1>3 DEF Frames
  <1>4. <<>> \in Seq(Frames) /\ <<>> \in Seq(Tokens)
    BY SMT
  <1> QED
    BY <1>1, <1>2, <1>3, <1>4

\* What primeConfigs sends is a document.
LEMMA PrimedDoc ==
  ASSUME ConfigTypes, priming # <<>>
  PROVE  [spec |-> Head(priming), data |-> current.data] \in Docs
  <1>1. Head(priming) \in Nat
    BY TailFacts DEF ConfigTypes
  <1>2. current.data \in Nat
    BY SMT DEF ConfigTypes, Docs
  <1> QED
    BY SMT, <1>1, <1>2 DEF Docs

\* What a step that puts a config frame on the stream, or takes one off it, does to the tasks.
LEMMA ConfigFrames ==
  ASSUME SessionTypes, ConfigTypes, TasksOnce(down), Prime \/ Push \/ ReceiveConfig
  PROVE  /\ down' \in Seq(Frames) /\ TasksOnce(down)'
         /\ \A tok \in Tokens : Coming(tok)' => Coming(tok)
  <1>1. ASSUME NEW doc \in Docs, down' = Append(down, [body |-> "config", doc |-> doc])
        PROVE  /\ down' \in Seq(Frames) /\ TasksOnce(down)'
               /\ \A tok \in Tokens : Coming(tok)' => Coming(tok)
    <2> DEFINE f == [body |-> "config", doc |-> doc]
    <2>1. f \in Frames /\ f.body = "config" /\ down \in Seq(Frames) /\ down' = Append(down, f)
      BY <1>1, FrameTypes DEF SessionTypes
    <2> HIDE DEF f
    <2>2. f.body # "task"
      BY <2>1
    <2> QED
      BY <2>1, <2>2, AppendFacts, TasksAppend DEF Coming
  <1>2. CASE UNCHANGED down
    BY <1>2 DEF SessionTypes, Coming
  <1>3. CASE Prime
    BY <1>1, <1>2, <1>3, PrimedDoc DEF Prime, ToWorker
  <1>4. CASE Push
    <2>1. Head(chan) \in Docs
      BY <1>4, TailFacts DEF Push, ConfigTypes
    <2> QED
      BY <1>1, <1>4, <2>1 DEF Push, ToWorker
  <1>5. CASE ReceiveConfig
    BY <1>5, TailFacts, TasksTail DEF ReceiveConfig, SessionTypes, Coming
  <1> QED
    BY <1>3, <1>4, <1>5

\* A task is sent: its token is on the stream, once ...
LEMMA TaskSent ==
  ASSUME SessionTypes, NEW t \in Tasks, SendTask(t)
  PROVE  /\ <<t, lease[t].n>> \in Tokens /\ down' \in Seq(Frames)
         /\ \A tok \in Tokens : Coming(tok)' <=> Coming(tok) \/ tok = <<t, lease[t].n>>
         /\ TasksOnce(down) /\ ~Coming(<<t, lease[t].n>>) => TasksOnce(down)'
  <1> DEFINE tok == <<t, lease[t].n>>
  <1>1. tok \in Tokens
    BY SMT DEF SessionTypes, Tokens
  <1>2. down \in Seq(Frames) /\ down' = Append(down, Task(tok))
    BY DEF SessionTypes, SendTask
  <1> HIDE DEF tok
  <1>3. Task(tok) \in Frames /\ Task(tok).body = "task" /\ Task(tok).token = tok
    BY <1>1, FrameTypes
  <1>4. down' \in Seq(Frames)
    BY <1>2, <1>3, AppendFacts
  <1>5. \A x \in Tokens : Coming(x)' <=> Coming(x) \/ x = tok
    BY <1>2, <1>3, TasksAppend DEF Coming
  <1>6. TasksOnce(down) /\ ~Coming(tok) => TasksOnce(down)'
    BY <1>2, <1>3, TasksAppend DEF Coming
  <1> QED
    BY <1>1, <1>4, <1>5, <1>6 DEF tok

\* ... received: its token leaves the stream.
LEMMA TaskReceived ==
  ASSUME SessionTypes, TasksOnce(down), ReceiveTask
  PROVE  /\ held' \in Tokens /\ down' \in Seq(Frames) /\ TasksOnce(down)'
         /\ Coming(held') /\ ~TaskIn(down', held')
         /\ \A tok \in Tokens : Coming(tok)' => Coming(tok)
  <1>1. down \in Seq(Frames) /\ down # <<>> /\ Head(down).body = "task" /\ held' = Head(down).token /\ down' = Tail(down)
    BY DEF SessionTypes, ReceiveTask
  <1>2. Head(down) \in Frames /\ down' \in Seq(Frames)
    BY <1>1, TailFacts
  <1>3. held' \in Tokens
    BY <1>1, <1>2, FrameTypes
  <1> QED
    BY <1>1, <1>2, <1>3, TasksTail DEF Coming

\* A handler has its result, and its token no longer runs.
LEMMA HandlerSends ==
  ASSUME SessionTypes, NEW h \in handlers, Send(h)
  PROVE  /\ h.token \in Tokens /\ Runs(h.token)
         /\ handlers' \subseteq [token : Tokens, at : {"running", "leaving"}]
         /\ \A tok \in Tokens : Runs(tok)' <=> Runs(tok) /\ tok # h.token
  <1>1. h \in [token : Tokens, at : {"running", "leaving"}] /\ h.at = "running"
    BY DEF SessionTypes, Send
  <1>2. h.token \in Tokens /\ h = [token |-> h.token, at |-> "running"]
    BY SMT, <1>1
  <1>3. /\ [h EXCEPT !.at = "leaving"] \in [token : Tokens, at : {"running", "leaving"}]
        /\ \A tok \in Tokens : [token |-> tok, at |-> "running"] # [h EXCEPT !.at = "leaving"]
    BY SMT, <1>1, <1>2
  <1>4. \A tok \in Tokens : [token |-> tok, at |-> "running"] = [token |-> h.token, at |-> "running"] => tok = h.token
    BY SMT, <1>2
  <1> DEFINE g == [h EXCEPT !.at = "leaving"]
             R(tok) == [token |-> tok, at |-> "running"]
             H == [token : Tokens, at : {"running", "leaving"}]
  <1>5. /\ handlers' = (handlers \ {h}) \cup {g} /\ handlers \subseteq H /\ g \in H
        /\ h = R(h.token) /\ \A tok \in Tokens : R(tok) # g /\ (R(tok) = R(h.token) => tok = h.token)
    BY <1>2, <1>3, <1>4 DEF Send, SessionTypes
  <1>6. \A tok : Runs(tok) <=> R(tok) \in handlers
    BY DEF Runs
  <1>7. \A tok : Runs(tok)' <=> R(tok) \in handlers'
    BY DEF Runs
  <1> HIDE DEF g, R, H
  <1>8. handlers' \subseteq H
    BY <1>5
  <1>9. \A tok \in Tokens : R(tok) \in handlers' <=> R(tok) \in handlers /\ tok # h.token
    BY <1>2, <1>5
  <1> QED
    BY <1>2, <1>5, <1>6, <1>7, <1>8, <1>9 DEF H

\* ... one leaves, which stopped running before.
LEMMA HandlerLeaves ==
  ASSUME SessionTypes, NEW h \in handlers, LeaveStep(h)
  PROVE  /\ handlers' \subseteq [token : Tokens, at : {"running", "leaving"}]
         /\ \A tok \in Tokens : Runs(tok)' <=> Runs(tok)
  <1>1. h.at = "leaving" /\ handlers' = handlers \ {h}
    BY DEF LeaveStep, Leave
  <1>2. \A tok \in Tokens : [token |-> tok, at |-> "running"] # h
    BY SMT, <1>1
  <1>3. handlers' \subseteq handlers
    BY <1>1
  <1>4. handlers \subseteq [token : Tokens, at : {"running", "leaving"}]
    BY DEF SessionTypes
  <1> DEFINE H == [token : Tokens, at : {"running", "leaving"}]
             R(tok) == [token |-> tok, at |-> "running"]
  <1>5. handlers \subseteq H /\ \A tok \in Tokens : R(tok) # h
    BY <1>2, <1>4
  <1>6. \A tok : (Runs(tok) <=> R(tok) \in handlers) /\ (Runs(tok)' <=> R(tok) \in handlers')
    BY DEF Runs
  <1> HIDE DEF H, R
  <1>7. handlers' \subseteq H /\ \A tok \in Tokens : Runs(tok)' <=> Runs(tok)
    BY <1>1, <1>3, <1>5, <1>6
  <1> QED
    BY <1>7 DEF H

\* ... and one starts.
LEMMA HandlerStarts ==
  ASSUME SessionTypes, run = "acquire", handlers' = handlers \cup {[token |-> held, at |-> "running"]}
  PROVE  /\ handlers' \subseteq [token : Tokens, at : {"running", "leaving"}]
         /\ \A tok \in Tokens : Runs(tok)' <=> Runs(tok) \/ tok = held
  <1>1. held \in Tokens /\ handlers \subseteq [token : Tokens, at : {"running", "leaving"}]
    BY DEF SessionTypes
  <1>2. [token |-> held, at |-> "running"] \in [token : Tokens, at : {"running", "leaving"}]
    BY SMT, <1>1
  <1>3. \A tok \in Tokens : [token |-> tok, at |-> "running"] = [token |-> held, at |-> "running"] => tok = held
    BY SMT, <1>1
  <1> DEFINE H == [token : Tokens, at : {"running", "leaving"}]
             R(tok) == [token |-> tok, at |-> "running"]
  <1>4. /\ handlers \subseteq H /\ R(held) \in H /\ handlers' = handlers \cup {R(held)}
        /\ \A tok \in Tokens : R(tok) = R(held) => tok = held
    BY <1>1, <1>2, <1>3
  <1>5. \A tok : (Runs(tok) <=> R(tok) \in handlers) /\ (Runs(tok)' <=> R(tok) \in handlers')
    BY DEF Runs
  <1> HIDE DEF H, R
  <1>6. handlers' \subseteq H /\ \A tok \in Tokens : Runs(tok)' <=> Runs(tok) \/ tok = held
    BY <1>4, <1>5
  <1> QED
    BY <1>6 DEF H

\* untrack, and what it leaves.
LEMMA UntrackedOthers ==
  ASSUME SessionTypes, NEW tok \in Tokens
  PROVE  /\ Untracked(tok) \subseteq [token : Tokens, done : BOOLEAN]
         /\ \A x \in Tokens, d \in BOOLEAN :
              [token |-> x, done |-> d] \in Untracked(tok) <=> [token |-> x, done |-> d] \in tracked /\ x # tok
  <1>1. tracked \subseteq [token : Tokens, done : BOOLEAN]
    BY DEF SessionTypes
  <1>2. Untracked(tok) \subseteq [token : Tokens, done : BOOLEAN]
    BY <1>1 DEF Untracked
  <1>3. \A x \in Tokens, d \in BOOLEAN : [token |-> x, done |-> d].token = x
    BY SMT
  <1>4. ASSUME NEW x \in Tokens, NEW d \in BOOLEAN
        PROVE  [token |-> x, done |-> d] \in Untracked(tok) <=> [token |-> x, done |-> d] \in tracked /\ x # tok
    <2> DEFINE y == [token |-> x, done |-> d]
    <2>1. y.token = x
      BY <1>3
    <2> HIDE DEF y
    <2>2. y \in Untracked(tok) <=> y \in tracked /\ x # tok
      BY <2>1 DEF Untracked
    <2> QED
      BY <2>2 DEF y
  <1> QED
    BY <1>2, <1>4

-----------------------------------------------------------------------------
\* The lease, in the steps of the broker: no token made is unmade.
LEMMA LeaseStep ==
  ASSUME SessionTypes, [WorkerNext]_workerVars
  PROVE  /\ lease' \in [Tasks -> [n : Nat, at : {"queued", "sent", "done"}, by : Nat]]
         /\ \A tok \in Tokens : Made(tok) => Made(tok)'
  <1>1. CASE UNCHANGED lease
    BY <1>1 DEF SessionTypes, Made
  <1>2. ASSUME NEW t \in Tasks, SendTask(t)
        PROVE  /\ lease' \in [Tasks -> [n : Nat, at : {"queued", "sent", "done"}, by : Nat]]
               /\ \A tok \in Tokens : Made(tok) => Made(tok)'
    BY <1>2, LeaseSent
  <1>3. ASSUME NEW t \in Tasks, Reap(t)
        PROVE  /\ lease' \in [Tasks -> [n : Nat, at : {"queued", "sent", "done"}, by : Nat]]
               /\ \A tok \in Tokens : Made(tok) => Made(tok)'
    <2>1. {t} \in SUBSET {u \in Tasks : lease[u].at = "sent"} /\ lease' = Requeued({t})
      BY <1>3 DEF Reap
    <2> QED
      BY <2>1, LeaseMoves
  <1>4. ASSUME NEW s \in open, HandlerEnds(s)
        PROVE  /\ lease' \in [Tasks -> [n : Nat, at : {"queued", "sent", "done"}, by : Nat]]
               /\ \A tok \in Tokens : Made(tok) => Made(tok)'
    <2> DEFINE ts == {t \in Tasks : lease[t].at = "sent" /\ lease[t].by = s}
    <2>1. ts \in SUBSET {u \in Tasks : lease[u].at = "sent"} /\ lease' = Requeued(ts)
      BY <1>4 DEF HandlerEnds
    <2> QED
      BY <2>1, LeaseMoves
  <1>5. CASE Flush
    BY <1>1, <1>5, LeaseDelivered DEF Flush, Received
  <1>6. CASE Prime \/ Push \/ ReceiveConfig
    BY <1>1, <1>6 DEF Prime, Push, ReceiveConfig, brokerVars
  <1>7. CASE Subscribe \/ InitialUnready \/ Attach
    BY <1>1, <1>7 DEF Subscribe, InitialUnready, Attach, brokerVars
  <1>8. CASE RunStep
    BY <1>1, <1>8 DEF RunStep, Redeliver, ReceiveTask, Acquire, ReceiveEnds, Drained, Return, Exit, brokerVars
  <1>9. CASE \E h \in handlers : Send(h) \/ LeaveStep(h)
    BY <1>1, <1>9 DEF Send, LeaveStep, brokerVars
  <1>10. CASE UNCHANGED tokenVars
    BY <1>1, <1>10 DEF tokenVars
  <1> QED
    BY <1>2, <1>3, <1>4, <1>5, <1>6, <1>7, <1>8, <1>9, <1>10, WorkerCases

\* What a handler does with its result, to the buffer and to r.inflight.
LEMMA ResultKept ==
  ASSUME SessionTypes, NEW h \in handlers, Send(h)
  PROVE  /\ resultBuf' \in Seq(Tokens) /\ tracked' \subseteq [token : Tokens, done : BOOLEAN]
         /\ \A tok \in Tokens : [token |-> tok, done |-> FALSE] \in tracked' <=> [token |-> tok, done |-> FALSE] \in tracked /\ tok # h.token
         /\ \/ /\ resultBuf' = resultBuf
               /\ \A tok \in Tokens : [token |-> tok, done |-> TRUE] \in tracked' <=> [token |-> tok, done |-> TRUE] \in tracked /\ tok # h.token
            \/ /\ resultBuf' = Append(resultBuf, h.token)
               /\ \A tok \in Tokens : [token |-> tok, done |-> TRUE] \in tracked' <=> [token |-> tok, done |-> TRUE] \in tracked \/ tok = h.token
  <1>1. h.token \in Tokens /\ resultBuf \in Seq(Tokens)
    BY HandlerSends DEF SessionTypes
  <1> DEFINE X == [token : Tokens, done : BOOLEAN]
             R(tok, d) == [token |-> tok, done |-> d]
  <1>2. /\ Untracked(h.token) \subseteq X
        /\ \A x \in Tokens, d \in BOOLEAN : R(x, d) \in Untracked(h.token) <=> R(x, d) \in tracked /\ x # h.token
    BY <1>1, UntrackedOthers
  <1>3. CASE resultBuf' = resultBuf /\ tracked' = Untracked(h.token)
    <2> HIDE DEF X, R
    <2>1. /\ \A tok \in Tokens : R(tok, FALSE) \in tracked' <=> R(tok, FALSE) \in tracked /\ tok # h.token
          /\ \A tok \in Tokens : R(tok, TRUE) \in tracked' <=> R(tok, TRUE) \in tracked /\ tok # h.token
          /\ tracked' \subseteq X
      BY <1>2, <1>3
    <2> QED
      BY <1>1, <1>3, <2>1 DEF X, R
  <1>4. CASE resultBuf' = Append(resultBuf, h.token) /\ tracked' = Untracked(h.token) \cup {R(h.token, TRUE)}
    <2>1. R(h.token, TRUE) \in X /\ \A tok \in Tokens : R(tok, FALSE) # R(h.token, TRUE)
      BY SMT, <1>1
    <2>2. \A tok \in Tokens : R(tok, TRUE) = R(h.token, TRUE) => tok = h.token
      BY SMT, <1>1
    <2>3. resultBuf' \in Seq(Tokens)
      BY <1>1, <1>4, AppendFacts
    <2>4. tracked' = Untracked(h.token) \cup {R(h.token, TRUE)}
      BY <1>4
    <2> HIDE DEF X, R
    <2>5. /\ \A tok \in Tokens : R(tok, FALSE) \in tracked' <=> R(tok, FALSE) \in tracked /\ tok # h.token
          /\ tracked' \subseteq X
      BY <1>2, <2>1, <2>4
    <2>6. \A tok \in Tokens : R(tok, TRUE) \in tracked' <=> R(tok, TRUE) \in tracked \/ tok = h.token
      BY <1>2, <2>2, <2>4
    <2> QED
      BY <1>4, <2>3, <2>5, <2>6 DEF X, R
  <1> QED
    BY <1>3, <1>4 DEF Send

\* Redelivery takes the oldest result off both, or nothing.
LEMMA ResultRedelivered ==
  ASSUME SessionTypes, Redeliver
  PROVE  \/ UNCHANGED <<resultBuf, tracked>>
         \/ /\ resultBuf # <<>> /\ resultBuf' = Tail(resultBuf) /\ resultBuf' \in Seq(Tokens) /\ Head(resultBuf) \in Tokens
            /\ tracked' \subseteq [token : Tokens, done : BOOLEAN]
            /\ \A tok \in Tokens, d \in BOOLEAN :
                 [token |-> tok, done |-> d] \in tracked' <=> [token |-> tok, done |-> d] \in tracked /\ tok # Head(resultBuf)
  <1>1. CASE resultBuf # <<>> /\ resultBuf' = Tail(resultBuf) /\ tracked' = Untracked(Head(resultBuf))
    <2>1. resultBuf' \in Seq(Tokens) /\ Head(resultBuf) \in Tokens
      BY <1>1, TailFacts DEF SessionTypes
    <2> QED
      BY <1>1, <2>1, UntrackedOthers
  <1> QED
    BY <1>1 DEF Redeliver, RedeliverBuffered, memory

\* Every step keeps the types of the session.
LEMMA SessionTypesStep ==
  ASSUME SessionTypes, ConfigTypes, OnePlace, [WorkerNext]_workerVars
  PROVE  SessionTypes'
  <1> USE DEF SessionTypes
  <1>1. lease' \in [Tasks -> [n : Nat, at : {"queued", "sent", "done"}, by : Nat]]
    BY LeaseStep
  <1>2. session' \in Nat /\ (run' = "acquire" => held' \in Tokens)
    <2>1. CASE UNCHANGED <<session, run, held>>
      BY <2>1
    <2>2. CASE UNCHANGED tokenVars \/ (\E t \in Tasks : SendTask(t) \/ Reap(t)) \/ (\E s \in open : HandlerEnds(s)) \/ Flush
      BY <2>1, <2>2 DEF tokenVars, SendTask, Reap, HandlerEnds, Flush, streamVars, runVars
    <2>3. CASE Prime \/ Push \/ ReceiveConfig \/ (\E h \in handlers : Send(h) \/ LeaveStep(h))
      BY <2>1, <2>3 DEF Prime, Push, ReceiveConfig, Send, LeaveStep, streamVars, runVars
    <2>4. CASE Subscribe
      <3>1. session' \in Nat
        BY SMT, <2>4 DEF Subscribe
      <3> QED
        BY <2>4, <3>1 DEF Subscribe
    <2>5. CASE ReceiveTask
      BY <2>5, TaskReceived DEF ReceiveTask, OnePlace
    <2>6. CASE InitialUnready \/ Attach \/ Redeliver \/ Acquire \/ ReceiveEnds \/ Drained \/ Return \/ Exit
      BY <2>6 DEF InitialUnready, Attach, Redeliver, RedeliverBuffered, Acquire, ReceiveEnds, Drained, Return, Exit, streamVars
    <2> QED
      BY <2>2, <2>3, <2>4, <2>5, <2>6, WorkerCases DEF RunStep
  <1>3. down' \in Seq(Frames)
    <2>1. CASE UNCHANGED down
      BY <2>1
    <2>2. CASE down' = <<>>
      BY <2>2, FrameTypes
    <2>3. CASE \E t \in Tasks : SendTask(t)
      BY <2>3, TaskSent
    <2>4. CASE Prime \/ Push \/ ReceiveConfig
      BY <2>4, ConfigFrames DEF OnePlace
    <2>5. CASE ReceiveTask
      BY <2>5, TaskReceived DEF OnePlace
    <2>6. CASE Subscribe \/ Return
      BY <2>2, <2>6 DEF Subscribe, Return
    <2>7. CASE UNCHANGED tokenVars \/ (\E t \in Tasks : Reap(t)) \/ (\E s \in open : HandlerEnds(s)) \/ Flush
      BY <2>1, <2>7 DEF tokenVars, Reap, HandlerEnds, Flush, streamVars
    <2>8. CASE (\E h \in handlers : Send(h) \/ LeaveStep(h)) \/ InitialUnready \/ Attach \/ Redeliver
      BY <2>1, <2>8 DEF Send, LeaveStep, InitialUnready, Attach, Redeliver, streamVars
    <2>9. CASE Acquire \/ ReceiveEnds \/ Drained \/ Exit
      BY <2>1, <2>9 DEF Acquire, ReceiveEnds, Drained, Exit, streamVars
    <2> QED
      BY <2>3, <2>4, <2>5, <2>6, <2>7, <2>8, <2>9, WorkerCases DEF RunStep
  <1>4. /\ handlers' \subseteq [token : Tokens, at : {"running", "leaving"}]
        /\ tracked' \subseteq [token : Tokens, done : BOOLEAN]
        /\ resultBuf' \in Seq(Tokens)
    <2>1. CASE UNCHANGED <<handlers, tracked, resultBuf>>
      BY <2>1
    <2>2. CASE Acquire
      <3>1. CASE UNCHANGED <<handlers, tracked>>
        BY <2>1, <2>2, <3>1 DEF Acquire
      <3>2. CASE /\ handlers' = handlers \cup {[token |-> held, at |-> "running"]}
                 /\ tracked' = tracked \cup {[token |-> held, done |-> FALSE]}
        <4>1. [token |-> held, done |-> FALSE] \in [token : Tokens, done : BOOLEAN]
          BY Zenon, <2>2 DEF Acquire
        <4>2. run = "acquire" /\ resultBuf' = resultBuf
          BY <2>2 DEF Acquire
        <4>3. tracked' \subseteq [token : Tokens, done : BOOLEAN]
          BY <3>2, <4>1
        <4> QED
          BY <3>2, <4>2, <4>3, HandlerStarts
      <3> QED
        BY <2>2, <3>1, <3>2 DEF Acquire
    <2>3. ASSUME NEW h \in handlers, Send(h)
          PROVE  /\ handlers' \subseteq [token : Tokens, at : {"running", "leaving"}]
                 /\ tracked' \subseteq [token : Tokens, done : BOOLEAN]
                 /\ resultBuf' \in Seq(Tokens)
      BY <2>3, HandlerSends, ResultKept
    <2>4. ASSUME NEW h \in handlers, LeaveStep(h)
          PROVE  /\ handlers' \subseteq [token : Tokens, at : {"running", "leaving"}]
                 /\ tracked' \subseteq [token : Tokens, done : BOOLEAN]
                 /\ resultBuf' \in Seq(Tokens)
      BY <2>4, HandlerLeaves DEF LeaveStep, memory
    <2>5. CASE Redeliver
      BY <2>5, ResultRedelivered DEF Redeliver
    <2>6. CASE UNCHANGED tokenVars \/ (\E t \in Tasks : SendTask(t) \/ Reap(t)) \/ (\E s \in open : HandlerEnds(s)) \/ Flush
      BY <2>1, <2>6 DEF tokenVars, SendTask, Reap, HandlerEnds, Flush, runVars, memory
    <2>7. CASE Prime \/ Push \/ ReceiveConfig \/ Subscribe \/ InitialUnready \/ Attach
      BY <2>1, <2>7 DEF Prime, Push, ReceiveConfig, Subscribe, InitialUnready, Attach, runVars, memory
    <2>8. CASE ReceiveTask \/ ReceiveEnds \/ Drained \/ Return \/ Exit
      BY <2>1, <2>8 DEF ReceiveTask, ReceiveEnds, Drained, Return, Exit, runVars, memory
    <2> QED
      BY <2>2, <2>3, <2>4, <2>5, <2>6, <2>7, <2>8, WorkerCases DEF RunStep
  <1> QED
    BY <1>1, <1>2, <1>3, <1>4

-----------------------------------------------------------------------------
\* A step after which no token is in a place it was not in before.
LEMMA FewerPlaces ==
  ASSUME OnePlace, Dispatched, TasksOnce(down)', Once(resultBuf)',
         \A tok \in Tokens : /\ Coming(tok)' => Coming(tok)
                             /\ Taken(tok)' => Taken(tok)
                             /\ Runs(tok)' => Runs(tok)
                             /\ Kept(tok)' => Kept(tok)
                             /\ Made(tok) => Made(tok)'
  PROVE  OnePlace' /\ Dispatched'
  BY DEF OnePlace, Dispatched

\* A token moves on as a whole: sent, received, started, kept.
LEMMA TokensStep ==
  ASSUME SessionTypes, ConfigTypes, OnePlace, Dispatched, [WorkerNext]_workerVars
  PROVE  OnePlace' /\ Dispatched'
  <1>1. \A tok \in Tokens : Made(tok) => Made(tok)'
    BY LeaseStep
  <1>2. TasksOnce(down) /\ Once(resultBuf)
    BY DEF OnePlace
  <1>3. CASE UNCHANGED tokenVars
    BY <1>1, <1>2, <1>3, FewerPlaces DEF tokenVars, Coming, Taken, Runs, Kept
  <1>4. CASE (\E t \in Tasks : Reap(t)) \/ (\E s \in open : HandlerEnds(s)) \/ Flush
    <2>1. UNCHANGED <<down, run, held, handlers, resultBuf>>
      BY <1>4 DEF Reap, HandlerEnds, Flush, streamVars, runVars, memory
    <2> QED
      BY <1>1, <1>2, <2>1, FewerPlaces DEF Coming, Taken, Runs, Kept
  <1>5. ASSUME NEW t \in Tasks, SendTask(t) PROVE OnePlace' /\ Dispatched'
    <2> DEFINE new == <<t, lease[t].n>>
    <2>1. /\ new \in Tokens
          /\ \A tok \in Tokens : Coming(tok)' <=> Coming(tok) \/ tok = new
          /\ TasksOnce(down) /\ ~Coming(new) => TasksOnce(down)'
      BY <1>5, TaskSent
    <2>2. ~Made(new)
      <3>1. lease[t].at = "queued" /\ lease[t].n \in Nat
        BY Zenon, <1>5, LeaseRecord DEF SendTask, SessionTypes
      <3> QED
        BY Zenon, <3>1, Irreflexive DEF Made
    <2>3. Made(<<t, lease[t].n>>)'
      <3>1. lease'[t].at = "sent" /\ lease'[t].n = lease[t].n /\ lease[t].n \in Nat
        BY <1>5, LeaseSent, LeaseRecord DEF SessionTypes
      <3> QED
        BY Zenon, <3>1, Irreflexive DEF Made
    <2>4. \A tok \in Tokens : (Taken(tok)' <=> Taken(tok)) /\ (Runs(tok)' <=> Runs(tok)) /\ (Kept(tok)' <=> Kept(tok))
      BY <1>5 DEF SendTask, runVars, memory, Taken, Runs, Kept
    <2>5. Once(resultBuf)'
      BY <1>2, <1>5 DEF SendTask, memory
    <2>6. \A tok \in Tokens : tok = new => Made(tok)'
      BY <1>5, <2>3, LeaseSent
    <2>7. ~Coming(new) /\ ~Taken(new) /\ ~Runs(new) /\ ~Kept(new)
      BY <2>1, <2>2 DEF Dispatched
    <2> HIDE DEF new
    <2> QED
      BY <1>1, <1>2, <2>1, <2>4, <2>5, <2>6, <2>7 DEF OnePlace, Dispatched
  <1>6. CASE Prime \/ Push \/ ReceiveConfig
    <2>1. TasksOnce(down)' /\ \A tok \in Tokens : Coming(tok)' => Coming(tok)
      BY <1>2, <1>6, ConfigFrames
    <2>2. UNCHANGED <<run, held, handlers, resultBuf>>
      BY <1>6 DEF Prime, Push, ReceiveConfig, runVars, memory
    <2> QED
      BY <1>1, <1>2, <2>1, <2>2, FewerPlaces DEF Taken, Runs, Kept
  <1>7. CASE Subscribe \/ Return
    <2>1. down' = <<>> /\ run' # "acquire" /\ UNCHANGED <<handlers, resultBuf>>
      BY <1>7 DEF Subscribe, Return, memory
    <2>2. TasksOnce(<<>>) /\ \A tok : ~TaskIn(<<>>, tok)
      BY SMT DEF TasksOnce, TaskIn
    <2>3. TasksOnce(down)' /\ \A tok : ~Coming(tok)'
      BY <2>1, <2>2 DEF Coming
    <2> QED
      BY <1>1, <1>2, <2>1, <2>3, FewerPlaces DEF Taken, Runs, Kept
  <1>8. CASE InitialUnready \/ Attach \/ ReceiveEnds \/ Drained \/ Exit
    <2>1. run' # "acquire" /\ UNCHANGED <<down, handlers, resultBuf>>
      BY <1>8 DEF InitialUnready, Attach, ReceiveEnds, Drained, Exit, streamVars, memory
    <2> QED
      BY <1>1, <1>2, <2>1, FewerPlaces DEF Coming, Taken, Runs, Kept
  <1>9. CASE Redeliver
    <2>1. run' # "acquire" /\ UNCHANGED <<down, handlers>>
      BY <1>9 DEF Redeliver, RedeliverBuffered, streamVars
    <2>2. Once(resultBuf)' /\ \A tok \in Tokens : Kept(tok)' => Kept(tok)
      <3>1. CASE UNCHANGED resultBuf
        BY <1>2, <3>1 DEF Kept
      <3>2. CASE resultBuf # <<>> /\ resultBuf' = Tail(resultBuf)
        BY <1>2, <3>2, BufferTail DEF Kept, SessionTypes
      <3> QED
        BY <1>9, <3>1, <3>2, ResultRedelivered
    <2> QED
      BY <1>1, <1>2, <2>1, <2>2, FewerPlaces DEF Coming, Taken, Runs
  <1>10. CASE ReceiveTask
    <2>1. /\ held' \in Tokens /\ TasksOnce(down)'
          /\ Coming(held') /\ ~TaskIn(down', held')
          /\ \A tok \in Tokens : Coming(tok)' => Coming(tok)
      BY <1>2, <1>10, TaskReceived
    <2>2. run = "receive" /\ run' = "acquire" /\ UNCHANGED <<handlers, resultBuf>>
      BY <1>10 DEF ReceiveTask, memory
    <2>3. \A tok \in Tokens : (Taken(tok)' <=> tok = held') /\ (Runs(tok)' <=> Runs(tok)) /\ (Kept(tok)' <=> Kept(tok))
      BY <2>2 DEF Taken, Runs, Kept
    <2>4. PICK tok \in Tokens : tok = held'
      BY <2>1
    <2>5. Coming(tok) /\ ~Coming(tok)'
      BY <2>1, <2>4 DEF Coming
    <2>6. Once(resultBuf)'
      BY <1>2, <2>2
    <2> QED
      BY <1>1, <2>1, <2>3, <2>4, <2>5, <2>6 DEF OnePlace, Dispatched
  <1>11. CASE Acquire
    <2>1. run = "acquire" /\ run' # "acquire" /\ UNCHANGED <<down, resultBuf>>
      BY <1>11 DEF Acquire, streamVars
    <2>2. \A tok \in Tokens : ~Taken(tok)' /\ (Coming(tok)' <=> Coming(tok)) /\ (Kept(tok)' <=> Kept(tok)) /\ (Taken(tok) <=> tok = held)
      BY <2>1 DEF Taken, Coming, Kept
    <2>3. \A tok \in Tokens : Runs(tok)' => Runs(tok) \/ tok = held
      <3>1. CASE UNCHANGED handlers
        BY <3>1 DEF Runs
      <3> QED
        BY <1>11, <2>1, <3>1, HandlerStarts DEF Acquire
    <2>4. TasksOnce(down)' /\ Once(resultBuf)'
      BY <1>2, <2>1
    <2> QED
      BY <1>1, <2>2, <2>3, <2>4 DEF OnePlace, Dispatched
  <1>12. ASSUME NEW h \in handlers, Send(h) PROVE OnePlace' /\ Dispatched'
    <2>1. h.token \in Tokens /\ Runs(h.token) /\ \A tok \in Tokens : Runs(tok)' <=> Runs(tok) /\ tok # h.token
      BY <1>12, HandlerSends
    <2>2. UNCHANGED <<down, run, held>>
      BY <1>12 DEF Send, streamVars
    <2>3. \A tok \in Tokens : (Coming(tok)' <=> Coming(tok)) /\ (Taken(tok)' <=> Taken(tok))
      BY <2>2 DEF Coming, Taken
    <2>4. ~Kept(h.token)
      BY <2>1 DEF OnePlace
    <2>5. Once(resultBuf)' /\ \A tok \in Tokens : Kept(tok)' => Kept(tok) \/ tok = h.token
      <3>1. CASE resultBuf' = resultBuf
        BY <1>2, <3>1 DEF Kept
      <3>2. CASE resultBuf' = Append(resultBuf, h.token)
        BY <1>2, <2>1, <2>4, <3>2, BufferAppend DEF Kept, SessionTypes
      <3> QED
        BY <1>12, <3>1, <3>2, ResultKept
    <2>6. TasksOnce(down)'
      BY <1>2, <2>2
    <2> QED
      BY <1>1, <2>1, <2>3, <2>5, <2>6 DEF OnePlace, Dispatched
  <1>13. ASSUME NEW h \in handlers, LeaveStep(h) PROVE OnePlace' /\ Dispatched'
    <2>1. UNCHANGED <<down, run, held, resultBuf>>
      BY <1>13 DEF LeaveStep, streamVars, memory
    <2> QED
      BY <1>1, <1>2, <1>13, <2>1, HandlerLeaves, FewerPlaces DEF Coming, Taken, Kept
  <1> QED
    BY <1>3, <1>4, <1>5, <1>6, <1>7, <1>8, <1>9, <1>10, <1>11, <1>12, <1>13, WorkerCases DEF RunStep

\* r.inflight follows the handlers and the buffer.
LEMMA TrackedStep ==
  ASSUME SessionTypes, OnePlace, TrackedInv, [WorkerNext]_workerVars
  PROVE  TrackedInv'
  <1> DEFINE R(tok, d) == [token |-> tok, done |-> d]
  <1>1. \A tok \in Tokens : (R(tok, FALSE) \in tracked <=> Runs(tok)) /\ (R(tok, TRUE) \in tracked <=> Kept(tok))
    BY DEF TrackedInv
  <1>2. SUFFICES \A tok \in Tokens : (R(tok, FALSE) \in tracked' <=> Runs(tok)') /\ (R(tok, TRUE) \in tracked' <=> Kept(tok)')
    BY DEF TrackedInv
  <1>3. CASE UNCHANGED <<handlers, tracked, resultBuf>>
    <2>1. \A tok \in Tokens : (Runs(tok)' <=> Runs(tok)) /\ (Kept(tok)' <=> Kept(tok))
      BY <1>3 DEF Runs, Kept
    <2> HIDE DEF R
    <2> QED
      BY <1>1, <1>3, <2>1
  <1>4. CASE Acquire
    <2>1. run = "acquire" /\ resultBuf' = resultBuf
      BY <1>4 DEF Acquire
    <2>2. held \in Tokens /\ \A tok \in Tokens : Kept(tok)' <=> Kept(tok)
      BY <2>1 DEF SessionTypes, Kept
    <2>3. CASE /\ handlers' = handlers \cup {[token |-> held, at |-> "running"]}
               /\ tracked' = tracked \cup {R(held, FALSE)}
      <3>1. \A tok \in Tokens : Runs(tok)' <=> Runs(tok) \/ tok = held
        BY <2>1, <2>3, HandlerStarts
      <3>2. \A tok \in Tokens : R(tok, TRUE) # R(held, FALSE) /\ (R(tok, FALSE) = R(held, FALSE) => tok = held)
        BY SMT, <2>2
      <3>3. tracked' = tracked \cup {R(held, FALSE)}
        BY <2>3
      <3> HIDE DEF R
      <3> QED
        BY <1>1, <2>2, <3>1, <3>2, <3>3
    <2> QED
      BY <1>3, <1>4, <2>1, <2>3 DEF Acquire
  <1>5. ASSUME NEW h \in handlers, Send(h)
        PROVE  \A tok \in Tokens : (R(tok, FALSE) \in tracked' <=> Runs(tok)') /\ (R(tok, TRUE) \in tracked' <=> Kept(tok)')
    <2>1. h.token \in Tokens /\ Runs(h.token) /\ \A tok \in Tokens : Runs(tok)' <=> Runs(tok) /\ tok # h.token
      BY <1>5, HandlerSends
    <2>2. ~Kept(h.token)
      BY <2>1 DEF OnePlace
    <2>3. /\ \A tok \in Tokens : R(tok, FALSE) \in tracked' <=> R(tok, FALSE) \in tracked /\ tok # h.token
          /\ \/ /\ resultBuf' = resultBuf
                /\ \A tok \in Tokens : R(tok, TRUE) \in tracked' <=> R(tok, TRUE) \in tracked /\ tok # h.token
             \/ /\ resultBuf' = Append(resultBuf, h.token)
                /\ \A tok \in Tokens : R(tok, TRUE) \in tracked' <=> R(tok, TRUE) \in tracked \/ tok = h.token
      BY <1>5, ResultKept
    <2>4. resultBuf' = resultBuf => \A tok \in Tokens : Kept(tok)' <=> Kept(tok)
      BY DEF Kept
    <2>5. resultBuf' = Append(resultBuf, h.token) => \A tok \in Tokens : Kept(tok)' <=> Kept(tok) \/ tok = h.token
      <3>1. resultBuf \in Seq(Tokens)
        BY DEF SessionTypes
      <3>2. \A x : In(Append(resultBuf, h.token), x) <=> In(resultBuf, x) \/ h.token = x
        BY <2>1, <3>1, BufferAppend
      <3> QED
        BY <3>2 DEF Kept
    <2> HIDE DEF R
    <2>6. \A tok \in Tokens : R(tok, FALSE) \in tracked' <=> Runs(tok)'
      BY <1>1, <2>1, <2>3
    <2>7. \A tok \in Tokens : R(tok, TRUE) \in tracked' <=> Kept(tok)'
      <3>1. CASE /\ resultBuf' = resultBuf
                 /\ \A tok \in Tokens : R(tok, TRUE) \in tracked' <=> R(tok, TRUE) \in tracked /\ tok # h.token
        BY <1>1, <2>2, <2>4, <3>1
      <3>2. CASE /\ resultBuf' = Append(resultBuf, h.token)
                 /\ \A tok \in Tokens : R(tok, TRUE) \in tracked' <=> R(tok, TRUE) \in tracked \/ tok = h.token
        BY <1>1, <2>5, <3>2
      <3> QED
        BY <2>3, <3>1, <3>2
    <2> QED
      BY <2>6, <2>7
  <1>6. ASSUME NEW h \in handlers, LeaveStep(h)
        PROVE  \A tok \in Tokens : (R(tok, FALSE) \in tracked' <=> Runs(tok)') /\ (R(tok, TRUE) \in tracked' <=> Kept(tok)')
    <2>1. UNCHANGED <<tracked, resultBuf>> /\ \A tok \in Tokens : Runs(tok)' <=> Runs(tok)
      BY <1>6, HandlerLeaves DEF LeaveStep, memory
    <2>2. \A tok \in Tokens : Kept(tok)' <=> Kept(tok)
      BY <2>1 DEF Kept
    <2> HIDE DEF R
    <2> QED
      BY <1>1, <2>1, <2>2
  <1>7. CASE Redeliver
    <2>1. UNCHANGED handlers
      BY <1>7 DEF Redeliver
    <2>2. CASE UNCHANGED <<resultBuf, tracked>>
      BY <1>3, <2>1, <2>2
    <2>3. CASE /\ resultBuf # <<>> /\ resultBuf' = Tail(resultBuf) /\ Head(resultBuf) \in Tokens
               /\ \A tok \in Tokens, d \in BOOLEAN : R(tok, d) \in tracked' <=> R(tok, d) \in tracked /\ tok # Head(resultBuf)
      <3>1. \A tok \in Tokens : /\ Kept(tok) <=> Kept(tok)' \/ tok = Head(resultBuf)
                                /\ tok = Head(resultBuf) => ~Kept(tok)'
        BY <2>3, BufferTail DEF Kept, SessionTypes, OnePlace
      <3>2. \A tok \in Tokens : (Runs(tok)' <=> Runs(tok)) /\ (tok = Head(resultBuf) => ~Runs(tok))
        BY <2>1, <3>1 DEF OnePlace, Runs
      <3>3. \A tok \in Tokens : /\ R(tok, FALSE) \in tracked' <=> R(tok, FALSE) \in tracked /\ tok # Head(resultBuf)
                                /\ R(tok, TRUE) \in tracked' <=> R(tok, TRUE) \in tracked /\ tok # Head(resultBuf)
        BY <2>3
      <3> HIDE DEF R
      <3>4. \A tok \in Tokens : R(tok, FALSE) \in tracked' <=> Runs(tok)'
        BY <1>1, <3>2, <3>3
      <3>5. \A tok \in Tokens : R(tok, TRUE) \in tracked' <=> Kept(tok)'
        BY <1>1, <3>1, <3>3
      <3> QED
        BY <3>4, <3>5
    <2> QED
      BY <1>7, <2>2, <2>3, ResultRedelivered
  <1>8. CASE UNCHANGED tokenVars \/ (\E t \in Tasks : SendTask(t) \/ Reap(t)) \/ (\E s \in open : HandlerEnds(s)) \/ Flush
    BY <1>3, <1>8 DEF tokenVars, SendTask, Reap, HandlerEnds, Flush, runVars, memory
  <1>9. CASE Prime \/ Push \/ ReceiveConfig \/ Subscribe \/ InitialUnready \/ Attach
    BY <1>3, <1>9 DEF Prime, Push, ReceiveConfig, Subscribe, InitialUnready, Attach, runVars, memory
  <1>10. CASE ReceiveTask \/ ReceiveEnds \/ Drained \/ Return \/ Exit
    BY <1>3, <1>10 DEF ReceiveTask, ReceiveEnds, Drained, Return, Exit, runVars, memory
  <1> HIDE DEF R
  <1> QED
    BY <1>4, <1>5, <1>6, <1>7, <1>8, <1>9, <1>10, WorkerCases DEF RunStep

-----------------------------------------------------------------------------
\* The mux, the sender and the stream.
LEMMA MuxStep ==
  ASSUME MuxInv, [WorkerNext]_workerVars
  PROVE  MuxInv'
  <1> USE DEF MuxInv
  <1>1. CASE UNCHANGED <<sendCh, sender, closed, mux, stream, run, watcher>>
    BY <1>1
  <1>2. CASE UNCHANGED workerVars
    BY <1>1, <1>2 DEF workerVars, sessionVars, streamVars, runVars, watchVars, muxVars
  <1>3. CASE Edit \/ Reload \/ \E l \in Loaders : LoadStep(l) \/ LoadFails(l)
    BY ZenonT(60), <1>1, <1>3 DEF Edit, Reload, LoadStep, LoadSpec, LoadData, Merge, Fire, LoadFails, sessionVars, streamVars, runVars, watchVars, muxVars
  <1>4. CASE Prime \/ Push \/ ReceiveConfig \/ \E t \in Tasks : SendTask(t) \/ Reap(t)
    BY <1>1, <1>4 DEF Prime, Push, ReceiveConfig, SendTask, Reap, streamVars, runVars, watchVars, muxVars
  <1>5. CASE ProbeFlips \/ Terminate \/ \E h \in handlers : LeaveStep(h)
    BY <1>1, <1>5 DEF ProbeFlips, Terminate, LeaveStep, streamVars, runVars, watchVars, muxVars
  <1>6. ASSUME UNCHANGED <<sendCh, sender, closed, mux, run, watcher>>, stream' \notin {"up", "half"} PROVE MuxInv'
    BY <1>6
  <1>7. CASE Drop \/ GraceExpires \/ \E s \in open : HandlerEnds(s)
    BY <1>1, <1>6, <1>7 DEF Drop, GraceExpires, HandlerEnds, streamVars, runVars, watchVars, muxVars
  <1>8. ASSUME UNCHANGED <<sendCh, sender, closed, stream, run, watcher>>, HasRoom PROVE MuxInv'
    BY <1>8 DEF HasRoom
  <1>9. CASE Attest \/ Poll \/ \E h \in handlers : Send(h)
    BY <1>1, <1>8, <1>9 DEF Attest, Poll, Emit, Send, streamVars, runVars, watchVars, muxVars
  <1>10. CASE WatchTerm \/ WatchCheck \/ WatchParks \/ WatchWoken \/ WatchEnds
    <2>1. CASE WatchTerm
      BY <2>1 DEF WatchTerm, streamVars, runVars, muxVars
    <2>2. CASE WatchCheck
      BY <2>2 DEF WatchCheck, streamVars, runVars, muxVars
    <2>3. CASE WatchParks
      BY <2>3 DEF WatchParks, streamVars, runVars, muxVars
    <2>4. CASE WatchWoken
      BY <2>4 DEF WatchWoken, streamVars, runVars, muxVars
    <2>5. CASE WatchEnds
      BY <2>5 DEF WatchEnds, streamVars, runVars, muxVars
    <2> QED
      BY <1>10, <2>1, <2>2, <2>3, <2>4, <2>5
  <1>11. CASE CloseRequest
    BY <1>11 DEF CloseRequest, Flushed, runVars, muxVars
  <1>12. CASE Flush \/ SenderEnds
    <2>1. CASE Flush
      <3>1. mux # <<>> /\ sender /\ UNCHANGED <<closed, stream, run, watcher>>
        BY <2>1 DEF Flush, streamVars, runVars, watchVars
      <3>2. UNCHANGED <<sender, sendCh>> \/ (stream # "up" /\ sender' = FALSE /\ sendCh' = FALSE)
        BY <2>1 DEF Flush
      <3>3. stream # "half" /\ run \notin {"idle", "burst", "connect"}
        BY <3>1
      <3>4. CASE UNCHANGED <<sender, sendCh>>
        BY <3>1, <3>3, <3>4
      <3>5. CASE stream # "up" /\ sender' = FALSE /\ sendCh' = FALSE
        BY <3>1, <3>3, <3>5
      <3> QED
        BY <3>2, <3>4, <3>5
    <2>2. CASE SenderEnds
      BY <2>2 DEF SenderEnds, streamVars, runVars, watchVars
    <2> QED
      BY <1>12, <2>1, <2>2
  <1>13. CASE Subscribe \/ InitialUnready
    <2>1. CASE Subscribe
      BY <2>1 DEF Subscribe, watchVars, muxVars
    <2>2. CASE InitialUnready
      BY <2>2 DEF InitialUnready, watchVars, muxVars
    <2> QED
      BY <1>13, <2>1, <2>2
  <1>14. CASE Attach
    BY <1>14 DEF Attach, streamVars, watchVars
  <1>15. CASE Redeliver
    BY <1>15 DEF Redeliver, RedeliverBuffered, HasRoom, streamVars, watchVars
  <1>16. CASE ReceiveTask \/ Acquire \/ ReceiveEnds
    <2>1. CASE ReceiveTask
      BY <2>1 DEF ReceiveTask, streamVars, watchVars, muxVars
    <2>2. CASE Acquire
      BY <2>2 DEF Acquire, streamVars, watchVars, muxVars
    <2>3. CASE ReceiveEnds
      BY <2>3 DEF ReceiveEnds, streamVars, watchVars, muxVars
    <2> QED
      BY <1>16, <2>1, <2>2, <2>3
  <1>17. CASE Drained \/ Return \/ Exit
    <2>1. CASE Drained
      BY <2>1 DEF Drained, streamVars, watchVars, muxVars
    <2>2. CASE Return
      BY <2>2 DEF Return, streamVars, watchVars, muxVars
    <2>3. CASE Exit
      BY <2>3 DEF Exit, streamVars, watchVars, muxVars
    <2> QED
      BY <1>17, <2>1, <2>2, <2>3
  <1> HIDE DEF MuxInv
  <1> QED
    BY <1>2, <1>3, <1>4, <1>5, <1>7, <1>9, <1>10, <1>11, <1>12, <1>13, <1>14, <1>15, <1>16, <1>17
       DEF WorkerNext, WorkerRun, Broker, SubscribePriming, AttachLoaded, SendTaskPrimed, HandlerEndsStep, RunStep, HandlerStep, SenderStep, WatcherStep

\* The inductive invariant.
WorkerInv == SessionTypes /\ ConfigTypes /\ OnePlace /\ Dispatched /\ TrackedInv /\ MuxInv

\* WorkerInv holds at the start: nothing is anywhere.
LEMMA WorkerInvInit == WorkerInit => WorkerInv
  <1> SUFFICES ASSUME NEW d \in Deployments, SessionInit(d), ConfigInit(d) PROVE WorkerInv
    BY DEF WorkerInit
  <1>1. /\ down = <<>> /\ resultBuf = <<>> /\ handlers = {} /\ tracked = {} /\ run = "idle" /\ session = 0
        /\ chan = <<>> /\ priming = <<>>
    BY DEF SessionInit, ConfigInit
  <1>2. /\ <<>> \in Seq(Frames) /\ <<>> \in Seq(Tokens) /\ <<>> \in Seq(Nat) /\ <<>> \in Seq(Docs) /\ 0 \in Nat
        /\ TasksOnce(<<>>) /\ Once(<<>>) /\ \A tok : ~TaskIn(<<>>, tok) /\ ~In(<<>>, tok)
    <2>1. <<>> \in Seq(Frames) /\ <<>> \in Seq(Tokens) /\ <<>> \in Seq(Nat) /\ <<>> \in Seq(Docs) /\ 0 \in Nat
      BY SMT
    <2>2. \A i : i \notin 1 .. Len(<<>>)
      BY SMT
    <2> QED
      BY ZenonT(30), <2>1, <2>2 DEF TasksOnce, Once, TaskIn, In
  <1>3. \A tok : ~Coming(tok) /\ ~Taken(tok) /\ ~Runs(tok) /\ ~Kept(tok)
    BY <1>1, <1>2 DEF Coming, Taken, Runs, Kept
  <1>4. SessionTypes
    <2>1. lease \in [Tasks -> [n : Nat, at : {"queued", "sent", "done"}, by : Nat]]
      <3>1. lease = [t \in Tasks |->
               [n |-> 1, at |-> IF t \in d.tasks THEN "queued" ELSE "done", by |-> 0]]
        BY Zenon DEF SessionInit
      <3> QED
        BY Zenon, <3>1
    <2> QED
      BY <1>1, <1>2, <2>1 DEF SessionTypes
  <1>5. ConfigTypes
    <2>1. d.dflt \in Nat
      BY DefaultAssumption
    <2>2. Both(d.dflt) \in Docs
      BY Zenon, <2>1 DEF Both, Docs
    <2> QED
      BY <1>1, <1>2, <2>1, <2>2 DEF ConfigTypes, ConfigInit
  <1>6. OnePlace /\ Dispatched /\ TrackedInv
    BY <1>1, <1>2, <1>3 DEF OnePlace, Dispatched, TrackedInv
  <1>7. MuxInv
    BY DEF SessionInit, MuxInv
  <1> QED
    BY <1>4, <1>5, <1>6, <1>7 DEF WorkerInv

\* TrackedInv says, token by token, what TrackedExact says of the sets.
LEMMA TrackedSets == SessionTypes /\ TrackedInv => TrackedExact
  <1> SUFFICES ASSUME SessionTypes, TrackedInv PROVE TrackedExact
    OBVIOUS
  <1>1. \A x \in tracked : x.token \in Tokens /\ (x.done => x = [token |-> x.token, done |-> TRUE])
                          /\ (~x.done => x = [token |-> x.token, done |-> FALSE])
    BY SMT DEF SessionTypes
  <1>2. \A h \in handlers : h.token \in Tokens /\ (h.at = "running" => h = [token |-> h.token, at |-> "running"])
    BY SMT DEF SessionTypes
  <1>3. \A tok : /\ [token |-> tok, done |-> TRUE].done /\ [token |-> tok, done |-> TRUE].token = tok
                 /\ ~[token |-> tok, done |-> FALSE].done /\ [token |-> tok, done |-> FALSE].token = tok
                 /\ [token |-> tok, at |-> "running"].at = "running" /\ [token |-> tok, at |-> "running"].token = tok
    BY SMT
  <1>4. \A i \in 1 .. Len(resultBuf) : resultBuf[i] \in Tokens
    BY SMT DEF SessionTypes
  <1> DEFINE T(tok, d) == [token |-> tok, done |-> d]
             H(tok) == [token |-> tok, at |-> "running"]
  <1>5. \A tok \in Tokens : (T(tok, FALSE) \in tracked <=> H(tok) \in handlers) /\ (T(tok, TRUE) \in tracked <=> In(resultBuf, tok))
    BY DEF TrackedInv, Runs, Kept
  <1>6. /\ \A x \in tracked : x.token \in Tokens /\ (x.done => x = T(x.token, TRUE)) /\ (~x.done => x = T(x.token, FALSE))
        /\ \A h \in handlers : h.token \in Tokens /\ (h.at = "running" => h = H(h.token))
        /\ \A tok : /\ T(tok, TRUE).done /\ T(tok, TRUE).token = tok /\ ~T(tok, FALSE).done /\ T(tok, FALSE).token = tok
                    /\ H(tok).at = "running" /\ H(tok).token = tok
    BY <1>1, <1>2, <1>3
  <1> HIDE DEF T, H
  <1>7. \A x \in tracked : ~x.done => \E h \in handlers : h.at = "running" /\ h.token = x.token
    <2> SUFFICES ASSUME NEW x \in tracked, ~x.done PROVE \E h \in handlers : h.at = "running" /\ h.token = x.token
      OBVIOUS
    <2>1. x.token \in Tokens /\ x = T(x.token, FALSE)
      BY <1>6
    <2>2. H(x.token) \in handlers
      BY <1>5, <2>1
    <2> QED
      BY <1>6, <2>2
  <1>8. \A h \in handlers : h.at = "running" => \E x \in tracked : ~x.done /\ x.token = h.token
    BY <1>5, <1>6
  <1>9. \A x \in tracked : x.done => \E i \in 1 .. Len(resultBuf) : resultBuf[i] = x.token
    BY <1>5, <1>6 DEF In
  <1>10. \A i \in 1 .. Len(resultBuf) : \E x \in tracked : x.done /\ x.token = resultBuf[i]
    BY <1>4, <1>5, <1>6 DEF In
  <1> QED
    <2>1. {x.token : x \in {y \in tracked : ~y.done}} = {h.token : h \in {g \in handlers : g.at = "running"}}
      <3>1. ASSUME NEW x \in {y \in tracked : ~y.done}
            PROVE  x.token \in {h.token : h \in {g \in handlers : g.at = "running"}}
        <4>1. PICK h \in handlers : h.at = "running" /\ h.token = x.token
          BY Zenon, <1>7, <3>1
        <4> QED
          BY Zenon, <4>1
      <3>2. ASSUME NEW h \in {g \in handlers : g.at = "running"}
            PROVE  h.token \in {x.token : x \in {y \in tracked : ~y.done}}
        <4>1. PICK x \in tracked : ~x.done /\ x.token = h.token
          BY Zenon, <1>8, <3>2
        <4> QED
          BY Zenon, <4>1
      <3> QED
        BY Zenon, <3>1, <3>2
    <2>2. {x.token : x \in {y \in tracked : y.done}} = {resultBuf[i] : i \in 1 .. Len(resultBuf)}
      <3>1. ASSUME NEW x \in {y \in tracked : y.done}
            PROVE  x.token \in {resultBuf[i] : i \in 1 .. Len(resultBuf)}
        BY Zenon, <1>9, <3>1
      <3>2. ASSUME NEW i \in 1 .. Len(resultBuf)
            PROVE  resultBuf[i] \in {x.token : x \in {y \in tracked : y.done}}
        BY Zenon, <1>10, <3>2
      <3> QED
        BY Zenon, <3>1, <3>2
    <2> QED
      BY <2>1, <2>2 DEF TrackedExact

\* The runner loses no result through its own doing, for any tasks, buffers and deployments.
THEOREM ResultsKeptHolds == WorkerSpec => []ResultsKept
  <1>1. WorkerInit => WorkerInv
    BY WorkerInvInit
  <1>2. WorkerInv /\ [WorkerNext]_workerVars => WorkerInv'
    BY ConfigTypesStep, SessionTypesStep, TokensStep, TrackedStep, MuxStep DEF WorkerInv
  <1>3. WorkerInv => ResultsKept
    BY TrackedSets DEF WorkerInv, ResultsKept, FlushedBeforeClose, MuxInv
  <1> QED
    BY <1>1, <1>2, <1>3, PTL DEF WorkerSpec

=============================================================================
