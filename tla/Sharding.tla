------------------------------- MODULE Sharding --------------------------------
(***************************************************************************)
(* Dynamic sharding without a leader.  Every process heartbeats a row into *)
(* cluster_members; each one's TopologyWatcher asks assign_member_shards   *)
(* for its own slice of the shards, by its rank among the members of its   *)
(* role that are live at that moment; a broker's mesh reads the same table *)
(* on a loop of its own.  Members die without a word, stall past the       *)
(* liveness window or the GC's TTL and come back, or shut down in order.   *)
(*                                                                         *)
(* cluster_changed notifications only bring forward a tick that the        *)
(* failsafe poll may take at any moment, so they are no state here.        *)
(***************************************************************************)
EXTENDS ShardTiling, FiniteSets

CONSTANTS
    Members,    \* process ids, in the order of member_id; a restart is a new id
    Role,       \* the ROLE each process runs: "all", "control" or "broker"
    Total,      \* NumShards
    Mesh,       \* whether the brokers run the mesh (EnableRelay)
    Reports,    \* whether the reporter has a ShardSet to report (reporter.Shards)
    MaxFaults   \* bound on crashes, stalls of a running member and failed writes

ASSUME MembersAssumption == Members \subseteq Nat /\ IsFiniteSet(Members)

ASSUME RoleAssumption == Role \in [Members -> {"all", "control", "broker"}]

ASSUME TotalAssumption == Total \in Nat \ {0}

ASSUME SwitchAssumption == Mesh \in BOOLEAN /\ Reports \in BOOLEAN

ASSUME FaultsAssumption == MaxFaults \in Nat

VARIABLES
    proc,     \* "unborn", "up", "draining" (SIGTERM), "left" (deregistered), "gone"
    reg,      \* cluster_members: NoRow, or age of the heartbeat and shards
    span,     \* ShardSet: the shards the process's drivers work on
    view,     \* observer: the live members of its role the span was computed from
    beating,  \* the reporter's upsert on its way, as the set of what it carries
    peers,    \* peerMesh.peers: whom the broker routes to
    faults

vars == <<proc, reg, span, view, beating, peers, faults>>

Shards == 0 .. Total - 1

NoRow == [age |-> "none", shards |-> {}]

\* "fresh": within the liveness window; "lapsed": past it; "expired": past the TTL
Ages == {"fresh", "lapsed", "expired"}

Registered(m) == reg[m].age # "none"

Live(r) == {m \in Members : Role[m] = r /\ reg[m].age = "fresh"}

Up(r) == {m \in Members : Role[m] = r /\ proc[m] = "up"}

MeshRoles == {"broker", "all"}

ControlRoles == {"control", "all"}

MayFail == faults < MaxFaults

Init ==
    /\ proc = [m \in Members |-> "unborn"]
    /\ reg = [m \in Members |-> NoRow]
    /\ span = [m \in Members |-> {}]
    /\ view = [m \in Members |-> {}]
    /\ beating = [m \in Members |-> {}]
    /\ peers = [m \in Members |-> {}]
    /\ faults = 0
--------------------------------------------------------------------------------
(* ClusterMemberReporter *)

\* Start's synchronous first beat: the process owns nothing yet.  It may fail.
Boot(m) ==
    /\ proc[m] = "unborn"
    /\ proc' = [proc EXCEPT ![m] = "up"]
    /\ \/ /\ reg' = [reg EXCEPT ![m] = [age |-> "fresh", shards |-> {}]]
          /\ UNCHANGED faults
       \/ /\ MayFail
          /\ faults' = faults + 1
          /\ UNCHANGED reg
    /\ UNCHANGED <<span, view, beating, peers>>

\* beat reads the ShardSet ...
BeatBegin(m) ==
    /\ proc[m] = "up"
    /\ beating[m] = {}
    /\ beating' = [beating EXCEPT ![m] = {IF Reports THEN span[m] ELSE {}}]
    /\ UNCHANGED <<proc, reg, span, view, peers, faults>>

Upserted(m) == [age |-> "fresh", shards |-> CHOOSE s \in beating[m] : TRUE]

\* ... and the upsert lands, inserting the row anew if the GC has taken it,
BeatCommit(m) ==
    /\ beating[m] # {}
    /\ reg' = [reg EXCEPT ![m] = Upserted(m)]
    /\ beating' = [beating EXCEPT ![m] = {}]
    /\ UNCHANGED <<proc, span, view, peers, faults>>

\* ... or fails; the next tick beats again.
BeatFail(m) ==
    /\ beating[m] # {}
    /\ MayFail
    /\ faults' = faults + 1
    /\ beating' = [beating EXCEPT ![m] = {}]
    /\ UNCHANGED <<proc, reg, span, view, peers>>

\* a plausible slip: shutdown cancels the beat loop without joining it
StopWithoutJoin(m) ==
    /\ proc[m] = "up"
    /\ proc' = [proc EXCEPT ![m] = "draining"]
    /\ UNCHANGED <<reg, span, view, beating, peers, faults>>

\* SIGTERM: reporter.Stop joins the beat loop, topology.Stop the watcher; the
\* ShardSet keeps its last value while the duties drain.
Stop(m) ==
    /\ proc[m] = "up"
    /\ beating[m] = {}
    /\ proc' = [proc EXCEPT ![m] = "draining"]
    /\ UNCHANGED <<reg, span, view, beating, peers, faults>>

\* The last step of the shutdown, on a deadline: the process exits either way.
Deregister(m) ==
    /\ proc[m] = "draining"
    /\ \/ /\ proc' = [proc EXCEPT ![m] = "left"]
          /\ reg' = [reg EXCEPT ![m] = NoRow]
          /\ UNCHANGED faults
       \/ /\ MayFail
          /\ proc' = [proc EXCEPT ![m] = "gone"]
          /\ faults' = faults + 1
          /\ UNCHANGED reg
    /\ span' = [span EXCEPT ![m] = {}]
    /\ view' = [view EXCEPT ![m] = {}]
    /\ peers' = [peers EXCEPT ![m] = {}]
    /\ UNCHANGED beating

\* The process dies; its row stays, and a beat already sent may still land.
Crash(m) ==
    /\ proc[m] \in {"up", "draining"}
    /\ MayFail
    /\ faults' = faults + 1
    /\ proc' = [proc EXCEPT ![m] = "gone"]
    /\ span' = [span EXCEPT ![m] = {}]
    /\ view' = [view EXCEPT ![m] = {}]
    /\ \/ beating' = [beating EXCEPT ![m] = {}]
       \/ UNCHANGED beating
    /\ peers' = [peers EXCEPT ![m] = {}]
    /\ UNCHANGED reg
--------------------------------------------------------------------------------
(* Time and the ClusterMemberGC *)

\* A beat every window/3 keeps a running member's row fresh unless it stalls.
Aging(m, from, to) ==
    /\ reg[m].age = from
    /\ reg' = [reg EXCEPT ![m].age = to]
    /\ IF proc[m] = "up"
       THEN MayFail /\ faults' = faults + 1
       ELSE UNCHANGED faults
    /\ UNCHANGED <<proc, span, view, beating, peers>>

Lapse(m) == Aging(m, "fresh", "lapsed")

Expire(m) == Aging(m, "lapsed", "expired")

Reclaimable(m) == reg[m].age = "expired"

\* gc_stale_cluster_members, run by any pod with the control duty.
GCStaleClusterMembers ==
    /\ \E c \in Members : proc[c] \in {"up", "draining"} /\ Role[c] \in ControlRoles
    /\ \E m \in Members : Reclaimable(m)
    /\ reg' = [m \in Members |-> IF Reclaimable(m) THEN NoRow ELSE reg[m]]
    /\ UNCHANGED <<proc, span, view, beating, peers, faults>>
--------------------------------------------------------------------------------
(* TopologyWatcher and mesh *)

\* row_number() OVER (ORDER BY member_id) - 1
Rank(m, S) == Cardinality({x \in S : x < m})

\* a plausible slip: rank and count over every member, whatever its role
AssignAcrossRoles(m, S) ==
    LET all == {x \in Members : reg[x].age = "fresh"}
    IN  IF m \in S THEN Slice(Rank(m, all), Cardinality(all), Total) ELSE {}

\* assign_member_shards: a member that is not live itself owns nothing.
AssignMemberShards(m, S) ==
    IF m \in S THEN Slice(Rank(m, S), Cardinality(S), Total) ELSE {}

\* Resharder.assignOnce, on a wake or the failsafe poll.  (On a database error
\* the ShardSet keeps its value: no step.)
AssignOnce(m) ==
    /\ proc[m] = "up"
    /\ LET S == Live(Role[m])
       IN  /\ span' = [span EXCEPT ![m] = AssignMemberShards(m, S)]
           /\ view' = [view EXCEPT ![m] = IF m \in S THEN S ELSE {}]
    /\ UNCHANGED <<proc, reg, beating, peers, faults>>

\* a plausible slip: the mesh reads every row, as the cluster view does
RoutedToRegistered(m) == {x \in Members \ {m} : Role[x] \in MeshRoles /\ Registered(x)}

Routed(m) == {x \in Members \ {m} : Role[x] \in MeshRoles /\ reg[x].age = "fresh"}

\* peerMesh.refreshOnce, on the mesh's own wake or ticker.
RefreshOnce(m) ==
    /\ Mesh
    /\ proc[m] = "up"
    /\ Role[m] \in MeshRoles
    /\ peers' = [peers EXCEPT ![m] = Routed(m)]
    /\ UNCHANGED <<proc, reg, span, view, beating, faults>>

Next ==
    \/ \E m \in Members :
          \/ Boot(m) \/ BeatBegin(m) \/ BeatCommit(m) \/ BeatFail(m)
          \/ Stop(m) \/ Deregister(m) \/ Crash(m)
          \/ Lapse(m) \/ Expire(m)
          \/ AssignOnce(m) \/ RefreshOnce(m)
    \/ GCStaleClusterMembers

Spec == Init /\ [][Next]_vars

\* Every loop of a running process keeps ticking, a shutdown ends (its steps
\* have deadlines), and time passes over rows nobody refreshes.
FairSpec ==
    /\ Spec
    /\ \A m \in Members :
          /\ WF_vars(BeatBegin(m))
          /\ WF_vars(BeatCommit(m))
          /\ WF_vars(Deregister(m))
          /\ WF_vars(AssignOnce(m))
          /\ WF_vars(RefreshOnce(m))
          /\ WF_vars(Lapse(m) /\ proc[m] # "up")
          /\ WF_vars(Expire(m) /\ proc[m] # "up")
    /\ WF_vars(GCStaleClusterMembers)
--------------------------------------------------------------------------------
(* Properties *)

\* Types of the registry, the processes and what each has read.
TypeOK ==
    /\ proc \in [Members -> {"unborn", "up", "draining", "left", "gone"}]
    /\ reg \in [Members -> [age : Ages \cup {"none"}, shards : SUBSET Shards]]
    /\ span \in [Members -> SUBSET Shards]
    /\ view \in [Members -> SUBSET Members]
    /\ beating \in [Members -> SUBSET (SUBSET Shards)]
    /\ peers \in [Members -> SUBSET Members]
    /\ faults \in 0 .. MaxFaults

\* Two members whose spans were computed from the same live set never own a
\* shard together: overlap needs a disagreement about who is live
\* (assign_member_shards, Resharder.assignOnce).
SameViewDisjoint ==
    \A m, n \in Members :
        m # n /\ view[m] = view[n] => span[m] \cap span[n] = {}

\* When every live member of a role has looked since the live set last changed,
\* their spans leave no gap: the steady state of the Resharder's comment.
SettledCovers ==
    \A r \in {"all", "control", "broker"} :
        Live(r) # {} /\ (\A m \in Live(r) : view[m] = Live(r))
            => UNION {span[m] : m \in Live(r)} = Shards

\* The two halves of an exact tiling (assign_member_shards): no shard twice among
\* members that agree, none missing once all agree.
SpansTile == SameViewDisjoint /\ SettledCovers

\* A member that deregistered never reappears in the registry: no beat lands
\* after the delete (the order reporter.Stop, Deregister in the shutdown).
DeregisteredStaysOut == \A m \in Members : proc[m] = "left" => ~Registered(m)

\* Once members stop coming and going, every role with a running member ends up
\* exactly tiled by its running members, whatever crashed, stalled or was
\* reclaimed before (TopologyWatcher's failsafe poll, liveness window).
EventuallyTiled ==
    <>[](\A r \in {"all", "control", "broker"} :
            Up(r) # {} =>
                /\ \A m \in Up(r) : view[m] = Up(r)
                /\ UNION {span[m] : m \in Up(r)} = Shards)

\* Every running broker ends up routing to exactly the other running brokers
\* (refreshOnce's liveness filter; no delete is needed for a crashed peer).
EventuallyRouted ==
    <>[](\A m \in Members :
            proc[m] = "up" /\ Role[m] \in MeshRoles =>
                peers[m] = {x \in Members \ {m} : Role[x] \in MeshRoles /\ proc[x] = "up"})

\* Shards and routes both end up with the members that run, from one registry read
\* by two watchers (Resharder, discoverPeers).
EventuallyAgreed == EventuallyTiled /\ EventuallyRouted

================================================================================
