------------------------------ MODULE KindCap ------------------------------
(***************************************************************************)
(* The global cap on the tasks of one kind in flight.  A claim reads the   *)
(* cap in force from kind_config and the headroom from the kind_inflight   *)
(* partials, leases that many rows and adds them to the partial of its     *)
(* pod's range; a kind with no cap is not counted.                         *)
(* recount_inflight, per reaper range, replaces the partials whose range   *)
(* begins inside it by one true count.                                     *)
(*                                                                         *)
(* A claim is one statement: the headroom is of its snapshot, the rows are *)
(* locked as they are picked, and the leases and the partial appear when   *)
(* it commits.  recount_inflight is one transaction of several statements, *)
(* each with its own snapshot: what it deletes and what it counts are of   *)
(* two moments.                                                            *)
(***************************************************************************)
EXTENDS Integers, FiniteSetsExt

CONSTANTS
    Tasks,
    ShardOf,      \* the shard of a task
    NumShards,
    Pods,         \* the claiming pods
    PodRange,     \* per pod, <<lo, hi>> of its contiguous shard range
    Reapers,
    ReaperRange,  \* per reaper, <<lo, hi>>; the ranges tile the shards
    Limit         \* the limit of one claim

Shards == 0..(NumShards - 1)
Within(s, r) == r[1] <= s /\ s <= r[2]

ASSUME KindCapAssumption ==
    /\ IsFiniteSet(Tasks)
    /\ NumShards \in Nat \ {0}
    /\ ShardOf \in [Tasks -> Shards]
    /\ PodRange \in [Pods -> Shards \X Shards]
    /\ ReaperRange \in [Reapers -> Shards \X Shards]
    /\ \A s \in Shards : \E r \in Reapers : Within(s, ReaperRange[r])
    /\ \A r1, r2 \in Reapers : r1 # r2 =>
          \A s \in Shards : ~(Within(s, ReaperRange[r1]) /\ Within(s, ReaperRange[r2]))
    /\ Limit \in Nat \ {0}

(* The pods slice finely inside the reapers' coarse ranges: one reaper has *)
(* all the shards of a pod.  Nothing in the code makes it so.              *)
PodsNested ==
    \A p \in Pods : \E r \in Reapers :
        /\ Within(PodRange[p][1], ReaperRange[r])
        /\ \A s \in Shards : Within(s, PodRange[p]) => Within(s, ReaperRange[r])

VARIABLES
    task,      \* the state of every task: "pending", "leased", "done"
    partials,  \* kind_inflight: range_lo to in_flight, on the rows that exist
    claims,    \* per pod, its running claim: the rows it has picked, the cap it read
               \* and, observed, whether it alone read a tally that counts all
    recounts,  \* per reaper, the partials its running recount has deleted
    uncounted, \* observer: the reapers yet to count leases that no bump counted
    config,    \* kind_config, per version; the claims here are of version 1
    bounds     \* what may still happen: the budgets of calls and of faults,
               \* and whether the reapers run

capVars == <<task, partials, claims, recounts, uncounted>>

Idle == {-1}   \* no claim or recount is running

NoRow == [cap |-> -1, retired |-> FALSE]
NoClaim == [rows |-> {}, cap |-> 0, sure |-> FALSE]

(* kind_config.max_inflight; without a row, as with 0, there is no cap.    *)
Cap == Max({config[1].cap, 0})

Pending == {t \in Tasks : task[t] = "pending"}
Leased  == {t \in Tasks : task[t] = "leased"}
Locked  == UNION {claims[p].rows : p \in Pods}

(* SUM(in_flight) over the kind's rows.                                    *)
Tally == MapThenSumSet(LAMBDA lo : partials[lo], DOMAIN partials)

NoPartials == [lo \in {} |-> 0]

CapInit(tasks) ==
    /\ task = [t \in Tasks |-> IF t \in tasks THEN "pending" ELSE "done"]
    /\ partials = NoPartials
    /\ claims = [p \in Pods |-> NoClaim]
    /\ recounts = [r \in Reapers |-> Idle]
    /\ uncounted = {}

Covering(rows) == {r \in Reapers : \E t \in rows : Within(ShardOf[t], ReaperRange[r])}

Spend(what) == bounds[what] > 0 /\ bounds' = [bounds EXCEPT ![what] = @ - 1]

----------------------------------------------------------------------------

(* The budget CTE.                                                         *)
Headroom == IF Cap = 0 THEN Limit ELSE Cap - Tally

(* The picked CTE of WorkQueueTakeBatch: as many unlocked pending rows of  *)
(* the range as the limit and the headroom allow.                          *)
ClaimBegin(p, rows) ==
    LET open == {t \in Pending \ Locked : Within(ShardOf[t], PodRange[p])} IN
    /\ claims[p] = NoClaim
    /\ rows \subseteq open
    /\ rows # {}
    /\ Cardinality(rows) = Min({Limit, Headroom, Cardinality(open)})
    /\ claims' = [q \in Pods |->
                     IF q = p THEN [rows |-> rows, cap |-> Cap, sure |-> Locked = {} /\ uncounted = {}]
                     ELSE [claims[q] EXCEPT !.sure = FALSE]]
    /\ UNCHANGED <<task, partials, recounts, uncounted, config, bounds>>

BumpOverwrites(lo, n) ==
    [k \in DOMAIN partials \cup {lo} |-> IF k # lo THEN partials[k] ELSE n]

Bumped(lo, n) ==
    [k \in DOMAIN partials \cup {lo} |->
        IF k # lo THEN partials[k]
        ELSE n + (IF k \in DOMAIN partials THEN partials[k] ELSE 0)]

(* The claimed and bump CTEs, and the commit; a kind that had no cap in    *)
(* the claim's snapshot is not bumped.  The bump of a row that a running   *)
(* recount has deleted waits for the recount.                              *)
ClaimCommit(p) ==
    LET lo == PodRange[p][1]
        c == claims[p] IN
    /\ c # NoClaim
    /\ task' = [t \in Tasks |-> IF t \in c.rows THEN "leased" ELSE task[t]]
    /\ IF c.cap > 0
       THEN /\ \A r \in Reapers : lo \notin recounts[r]
            /\ partials' = Bumped(lo, Cardinality(c.rows))
            /\ UNCHANGED uncounted
       ELSE uncounted' = uncounted \cup Covering(c.rows) /\ UNCHANGED partials
    /\ claims' = [claims EXCEPT ![p] = NoClaim]
    /\ UNCHANGED <<recounts, config, bounds>>

(* The drain deletes the row; no counter is touched.                       *)
Complete(t) ==
    /\ t \in Leased
    /\ task' = [task EXCEPT ![t] = "done"]
    /\ UNCHANGED <<partials, claims, recounts, uncounted, config, bounds>>

(* reap_stale_work and the release queries free the row; no counter is     *)
(* touched.                                                                *)
Release(t) ==
    /\ Spend("faults")
    /\ t \in Leased
    /\ task' = [task EXCEPT ![t] = "pending"]
    /\ UNCHANGED <<partials, claims, recounts, uncounted, config>>

ReclaimOwn(r) == {lo \in DOMAIN partials : lo = ReaperRange[r][1]}

(* The partials a recount deletes: those whose range begins in its own.    *)
Reclaimed(r) == {lo \in DOMAIN partials : Within(lo, ReaperRange[r])}

RecountBegin(r) ==
    /\ recounts[r] = Idle /\ bounds.counting
    /\ recounts' = [recounts EXCEPT ![r] = Reclaimed(r)]
    /\ UNCHANGED <<task, partials, claims, uncounted, config, bounds>>

(* The count, of a kind with a cap, and the commit.  When a claim has      *)
(* inserted a partial under the recount's own key meanwhile, the insert    *)
(* fails and all is undone.                                                *)
RecountCommit(r) ==
    LET lo == ReaperRange[r][1]
        kept == DOMAIN partials \ recounts[r]
        counted == IF Cap > 0 THEN {lo} ELSE {}
        live == {t \in Leased : Within(ShardOf[t], ReaperRange[r])} IN
    /\ recounts[r] # Idle
    /\ IF counted \cap kept # {}
       THEN UNCHANGED <<partials, uncounted>>
       ELSE /\ partials' = [k \in kept \cup counted |->
                               IF k \in counted THEN Cardinality(live) ELSE partials[k]]
            /\ uncounted' = IF Cap > 0 THEN uncounted \ {r} ELSE uncounted
    /\ recounts' = [recounts EXCEPT ![r] = Idle]
    /\ UNCHANGED <<task, claims, config, bounds>>

(* A Postgres crash truncates both UNLOGGED tables; the reaper rebuilds    *)
(* the lagging resources' rows.                                            *)
PostgresCrash ==
    /\ Spend("faults")
    /\ task' = [t \in Tasks |-> IF task[t] = "done" THEN "done" ELSE "pending"]
    /\ partials' = NoPartials
    /\ claims' = [p \in Pods |-> NoClaim]
    /\ recounts' = [r \in Reapers |-> Idle]
    /\ UNCHANGED <<uncounted, config>>

CapNext ==
    \/ \E p \in Pods : (\E rows \in SUBSET Tasks : ClaimBegin(p, rows)) \/ ClaimCommit(p)
    \/ \E t \in Tasks : Complete(t) \/ Release(t)
    \/ \E r \in Reapers : RecountBegin(r) \/ RecountCommit(r)

----------------------------------------------------------------------------
(* The tally never undercounts: with a cap in force, the sum of the        *)
(* partials is at least the number of leased rows, although completions,   *)
(* reaps and releases count nothing and every recount forgets hints; save  *)
(* that leases taken without a cap wait for the reapers' next recounts     *)
(* (bump, recount_inflight).                                               *)
NeverUndercounts == Cap > 0 /\ uncounted = {} => Tally >= Cardinality(Leased)

(* The account and what it is kept for: the tally never undercounts, and   *)
(* a claim that commits with no other claim around it takes the leased     *)
(* rows of the kind, over all pods, no higher than the cap it read (the    *)
(* budget of WorkQueueTakeBatch, which takes no lock).                     *)
CapKept ==
    \A p \in Pods :
        claims[p].sure /\ claims[p].cap > 0 /\ claims[p].rows \subseteq Leased'
            => Cardinality(Leased') <= claims[p].cap

CapAccounted == [][NeverUndercounts' /\ CapKept]_<<capVars, config>>

(* No task starves: hints that outlive their leases do not close the cap   *)
(* for good, and every pending task is eventually claimed and done.        *)
EveryTaskRuns == <>(\A t \in Tasks : task[t] = "done")

============================================================================
