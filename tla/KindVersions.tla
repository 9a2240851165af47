---------------------------- MODULE KindVersions ----------------------------
(***************************************************************************)
(* The published versions of one kind and the calls of the API that change *)
(* them, composed with the cap that the kind's claims read: manifests with *)
(* their derived kind_config rows, one resource of the kind and the        *)
(* version it is pinned to, the reactor bindings that pin a version, and   *)
(* the copies of the manifests in the processes: the schema surface of     *)
(* every API replica, which checks a spec at the edge, the validator of    *)
(* its store, which checks it again at the gateway and is the one that the *)
(* store was built with, and the KindManifestCache of a broker.            *)
(*                                                                         *)
(* A manifest is the number of its edition, a spec that of the document.   *)
(* No call holds a lock from its checks to its write, and every check is a *)
(* read of its own.                                                        *)
(***************************************************************************)
EXTENDS KindCap, Sequences

CONSTANTS
    Versions,
    Editions,     \* the manifests that may be published: their three schemas
    Documents,    \* the specs that may be written
    Validates(_, _),   \* a schema admits a document (huma.Validate)
    Compatible(_, _),  \* the linter lets an edition replace another (ManifestSchemaCompat)
    Overlooked(_, _),  \* two schemas differ where the linter does not look
    Callers,
    Replicas,     \* of the API
    Home,         \* the replica a caller talks to
    Brokers,
    Deployments

VARIABLES
    manifest,   \* kind_manifest: version to edition, 0 when absent
    pins,       \* the versions that a reactor binding pins
    res,        \* the resource: its id, the version it is pinned to, its spec
    history,    \* spec_versions of the resource; of a revision, also its version then
    calls,      \* per caller, the call under way
    seen,       \* the surface of a replica, the cache of a broker
    gateway,    \* the validator of a replica's store
    reloads,    \* per replica and broker, the list its refresher has read
    overtaken,  \* observer: callers whose checks no longer hold, or failed
    excused     \* observer: the spec was written by such a call, or unchecked

apiVars == <<manifest, pins, res, history, seen, gateway, reloads, excused>>
vars == <<capVars, config, bounds, calls, overtaken, apiVars>>

Processes == Replicas \cup Brokers

NoRes(id) == [id |-> id, ver |-> 0, spec |-> 0]
Revision(r, ex) == [ver |-> r.ver, spec |-> r.spec, excused |-> ex]
NoCall == [op |-> "none"]
NoList == <<>>

(* What the publish gate lets pass: a new version, or an edition that the  *)
(* linter finds compatible with the stored one.                            *)
Republishable(old, new) == old = 0 \/ Compatible(Editions[old], Editions[new])

(* Among them, those that the linter could judge.                          *)
Widens(old, new) ==
    0 \notin {old, new} /\ Republishable(old, new) /\ ~Overlooked(Editions[old].spec, Editions[new].spec)

(* What the linter is there for: a change it could judge and lets pass     *)
(* keeps every document valid.                                             *)
ASSUME LinterSound ==
    \A i, j \in DOMAIN Editions, d \in DOMAIN Documents :
        Widens(i, j) /\ Validates(Editions[i].spec, Documents[d]) => Validates(Editions[j].spec, Documents[d])

EditionIds == {0} \cup DOMAIN Editions
Rows == [cap : Nat, retired : BOOLEAN]
Verbs == {"apply", "rollback", "remove", "publish", "delete", "config", "bind", "unbind"}

(* A version is named by every call but those of a resource alone.         *)
Requests ==
    {q \in [op : Verbs, v : {0} \cup Versions, spec : {0} \cup DOMAIN Documents, edition : EditionIds, row : Rows] :
        /\ q.op \notin {"rollback", "remove"} => q.v # 0
        /\ q.op = "apply" => q.spec # 0
        /\ q.op = "publish" => q.edition # 0}

ASSUME DeploymentsAssumption ==
    /\ 1 \in Versions /\ 0 \notin Versions \cup DOMAIN Editions \cup DOMAIN Documents
    /\ Home \in [Callers -> Replicas] /\ Replicas \cap Brokers = {}
    /\ \A n \in DOMAIN Deployments :
          /\ {Deployments[n].manifest, Deployments[n].boot} \subseteq [Versions -> EditionIds]
          /\ Deployments[n].row \in Rows /\ Deployments[n].menu \subseteq Requests
          /\ {Deployments[n].calls, Deployments[n].faults} \subseteq Nat

VersionInit(d) ==
    /\ manifest = d.manifest
    /\ config = [v \in Versions |-> IF manifest[v] = 0 THEN NoRow ELSE d.row]
    /\ pins = {}
    /\ res = NoRes(0) /\ history = {}
    /\ calls = [c \in Callers |-> NoCall]
    /\ seen = [x \in Processes |-> manifest]
    /\ gateway = [a \in Replicas |-> d.boot]
    /\ reloads = [x \in Processes |-> NoList]
    /\ overtaken = {} /\ excused = FALSE

Init ==
    \E d \in DOMAIN Deployments :
        /\ bounds = [calls |-> Deployments[d].calls, faults |-> Deployments[d].faults,
                      counting |-> Deployments[d].tasks # {}, plan |-> d]
        /\ VersionInit(Deployments[d])
        /\ CapInit(Deployments[d].tasks)

Plan == Deployments[bounds.plan]

-----------------------------------------------------------------------------
(* Calls.                                                                  *)

At(c, op, at) == calls[c].op = op /\ calls[c].at = at
Step(c, at) == calls' = [calls EXCEPT ![c].at = at]
End(c) == calls' = [calls EXCEPT ![c] = NoCall]

(* A request arrives: op, the version v it names, and the spec, or the     *)
(* edition and the policy (row), that it brings.                           *)
Call(c, q) ==
    /\ calls[c] = NoCall
    /\ Spend("calls")
    /\ c \in Plan.callers /\ q \in Plan.menu
    /\ calls' = [calls EXCEPT ![c] = [op |-> q.op, v |-> q.v, spec |-> q.spec, edition |-> q.edition,
                                      row |-> q.row, at |-> "start", found |-> NoRes(0), by |-> 0, list |-> NoList]]
    /\ UNCHANGED <<capVars, config, apiVars>>

Retired(v) == config[v].retired

(* What the call's checks, so far, have found; it may cease to be so       *)
(* before the call writes.                                                 *)
Holds(c) ==
    LET q == calls[c] IN
    /\ q.op = "apply" /\ q.at \in {"gate", "write"} =>
          res.id = q.found.id /\ res.ver = q.found.ver
    /\ q.op = "apply" /\ q.at = "write" /\ q.found.ver # q.v => ~Retired(q.v)
    /\ q.op = "publish" /\ q.at = "write" => Republishable(manifest[q.v], q.edition)
    /\ q.op = "delete" /\ q.at \in {"lock", "write"} => res.ver # q.v /\ q.v \notin pins

(* By a step of another, or by a check that failed.                        *)
Observed ==
    overtaken' = {c \in Callers :
                     /\ NoCall \notin {calls[c], calls'[c]}
                     /\ c \in overtaken \/ (~Holds(c)' /\ (calls'[c] = calls[c] \/ bounds'.faults < bounds.faults))}

-----------------------------------------------------------------------------
(* applyResourceManifest.                                                  *)

FitsCurrent(copy, v, spec) ==
    LET w == IF res.ver = 0 THEN v ELSE res.ver IN
    copy[w] = 0 \/ Validates(Editions[copy[w]].spec, Documents[spec])

(* ValidateSpec: a version that the copy does not hold is not checked.     *)
Fits(copy, v, spec) == copy[v] = 0 \/ Validates(Editions[copy[v]].spec, Documents[spec])

(* validateSpec at the edge, ResolveResourceIDKindVersionByKindName: a     *)
(* create or a flip goes on to the retirement gate, an update of a         *)
(* resource that is on the version does not.                               *)
Resolve(c) ==
    LET q == calls[c]
        edge == seen[Home[c]] IN
    /\ At(c, "apply", "start")
    /\ IF Fits(edge, q.v, q.spec)
       THEN calls' = [calls EXCEPT ![c].at = IF res.ver = q.v THEN "write" ELSE "gate",
                                   ![c].found = res, ![c].by = edge[q.v]]
       ELSE End(c)
    /\ UNCHANGED <<capVars, config, bounds, apiVars>>

(* kindVersionRetired; a read that fails lets the call pass.               *)
RetirementGate(c) ==
    /\ At(c, "apply", "gate")
    /\ \/ ~Retired(calls[c].v) /\ Step(c, "write") /\ UNCHANGED bounds
       \/ Retired(calls[c].v) /\ End(c) /\ UNCHANGED bounds
       \/ Retired(calls[c].v) /\ Step(c, "write") /\ Spend("faults")
    /\ UNCHANGED <<capVars, config, apiVars>>

Flips(q) == q.found.ver \notin {0, q.v}

(* FlipResourceKindVersion of the resource and the version the call has    *)
(* found, or UpsertResource, which leaves the version of a row alone.      *)
Written(q) ==
    IF Flips(q)
    THEN IF res.id = q.found.id /\ res.ver = q.found.ver THEN [res EXCEPT !.ver = q.v, !.spec = q.spec] ELSE res
    ELSE IF res.ver = 0 THEN [id |-> res.id + 1, ver |-> q.v, spec |-> q.spec] ELSE [res EXCEPT !.spec = q.spec]

(* One of the editions a spec was checked against stands for the present   *)
(* one.                                                                    *)
Vouched(editions, v) == \E e \in editions : Widens(e, manifest[v])

(* The gateway, and the transaction; the upsert records a new spec in      *)
(* spec_versions.                                                          *)
Write(c) ==
    LET q == calls[c]
        validator == gateway[Home[c]] IN
    /\ At(c, "apply", "write")
    /\ IF Fits(validator, q.v, q.spec)
       THEN /\ res' = Written(q)
            /\ excused' = IF res' = res THEN excused
                          ELSE c \in overtaken \/ ~Vouched({q.by, validator[q.v]}, q.v)
            /\ history' = IF Flips(q) \/ res' = res THEN history
                          ELSE history \cup {Revision(res', excused')}
       ELSE UNCHANGED <<res, history, excused>>
    /\ End(c)
    /\ UNCHANGED <<capVars, config, bounds, manifest, pins, seen, gateway, reloads>>

(* rollback_to_spec: the spec of a revision, at whatever version the       *)
(* resource is now; no revision is recorded.                               *)
Rollback(c) ==
    /\ At(c, "rollback", "start")
    /\ \/ history = {} /\ UNCHANGED <<res, excused>>
       \/ \E h \in history :
             /\ res' = [res EXCEPT !.spec = h.spec]
             /\ excused' = (h.excused \/ h.ver # res.ver)
    /\ End(c)
    /\ UNCHANGED <<capVars, config, bounds, manifest, pins, history, seen, gateway, reloads>>

(* The resource is deleted for good, and its revisions with it.            *)
Remove(c) ==
    /\ At(c, "remove", "start")
    /\ res' = NoRes(res.id) /\ history' = {} /\ excused' = FALSE
    /\ End(c)
    /\ UNCHANGED <<capVars, config, bounds, manifest, pins, seen, gateway, reloads>>

-----------------------------------------------------------------------------
(* putKindManifest and deleteKindManifest.                                 *)

(* A delete in its transaction that has deleted the kind_config row of v.  *)
Deleting(d, v) == At(d, "delete", "write") /\ calls[d].v = v /\ calls[d].by = 1
ConfigLocked(v) == \E d \in Callers : Deleting(d, v)

(* What was checked against the editions of v so far is checked no more.   *)
Forfeit(v) ==
    /\ excused' = (excused \/ res.ver = v)
    /\ history' = {[h EXCEPT !.excused = @ \/ h.ver = v] : h \in history}

(* The stored edition, against the linter.                                 *)
SchemaGate(c) ==
    /\ At(c, "publish", "start")
    /\ IF Republishable(manifest[calls[c].v], calls[c].edition) THEN Step(c, "write") ELSE End(c)
    /\ UNCHANGED <<capVars, config, bounds, apiVars>>

(* sync_kind_config_from_manifest: the policy of a manifest seeds a row    *)
(* that is absent, and leaves an operator's alone.                         *)
Synced(v, row) == IF config[v] = NoRow THEN [config EXCEPT ![v] = row] ELSE config

(* When a kind gets a cap, the leases of which no bump is kept are yet to  *)
(* be counted.                                                             *)
Recap == uncounted' = IF Cap = 0 /\ Cap' > 0 THEN uncounted \cup Covering(Leased) ELSE uncounted

(* UpsertKindManifest with its trigger, which waits for a delete that has  *)
(* deleted the kind_config row.                                            *)
Publish(c) ==
    LET q == calls[c] IN
    /\ At(c, "publish", "write") /\ ~ConfigLocked(q.v)
    /\ manifest' = [manifest EXCEPT ![q.v] = q.edition]
    /\ config' = Synced(q.v, q.row) /\ Recap
    /\ IF c \in overtaken \/ ~Widens(manifest[q.v], q.edition)
       THEN Forfeit(q.v) ELSE UNCHANGED <<excused, history>>
    /\ Step(c, "rebuild")
    /\ UNCHANGED <<task, partials, claims, recounts, bounds, pins, res, seen, gateway, reloads>>

InUseUnpinned(v) == res.ver = v

(* KindVersionHasResources and KindVersionPinnedByBinding.                 *)
InUse(v) == res.ver = v \/ v \in pins

DeleteGuards(c) ==
    /\ At(c, "delete", "start")
    /\ IF InUse(calls[c].v) THEN End(c) ELSE Step(c, "lock")
    /\ UNCHANGED <<capVars, config, bounds, apiVars>>

(* DeleteKindConfig, not committed.                                        *)
DeleteConfig(c) ==
    LET q == calls[c] IN
    /\ At(c, "delete", "lock") /\ ~ConfigLocked(q.v)
    /\ calls' = [calls EXCEPT ![c].at = "write", ![c].by = IF config[q.v] = NoRow THEN 0 ELSE 1]
    /\ UNCHANGED <<capVars, config, bounds, apiVars>>

(* DeleteKindManifest, and the commit of both.                             *)
Delete(c) ==
    LET q == calls[c] IN
    /\ At(c, "delete", "write")
    /\ manifest' = [manifest EXCEPT ![q.v] = 0]
    /\ config' = IF q.by = 1 THEN [config EXCEPT ![q.v] = NoRow] ELSE config
    /\ IF manifest[q.v] = 0 THEN End(c) ELSE Step(c, "rebuild")
    /\ Forfeit(q.v)
    /\ UNCHANGED <<capVars, bounds, pins, res, seen, gateway, reloads>>

(* A publish that holds the manifest's row and waits for the kind_config   *)
(* row, and a delete that holds this one and needs the other: Postgres     *)
(* aborts either.                                                          *)
Deadlock(c, d) ==
    /\ At(c, "publish", "write") /\ manifest[calls[c].v] # 0
    /\ Deleting(d, calls[c].v)
    /\ End(c) \/ End(d)
    /\ UNCHANGED <<capVars, config, bounds, apiVars>>

-----------------------------------------------------------------------------
(* The rest of the API.                                                    *)

Known(a) == \E v \in Versions : seen[a][v] # 0

(* applyKindConfig writes the row of any version of a kind it knows.       *)
EditConfig(c) ==
    LET q == calls[c] IN
    /\ At(c, "config", "start")
    /\ IF Known(Home[c])
       THEN /\ ~ConfigLocked(q.v)
            /\ config' = [config EXCEPT ![q.v] = q.row]
            /\ Recap
       ELSE UNCHANGED <<config, uncounted>>
    /\ End(c)
    /\ UNCHANGED <<task, partials, claims, recounts, bounds, apiVars>>

(* applyReactorBinding with a watch_kind_version, and its deletion.        *)
Bind(c) ==
    LET q == calls[c] IN
    /\ At(c, "bind", "start") \/ At(c, "unbind", "start")
    /\ pins' = IF q.op = "unbind" THEN pins \ {q.v}
               ELSE IF Known(Home[c]) THEN pins \cup {q.v} ELSE pins
    /\ End(c)
    /\ UNCHANGED <<capVars, config, bounds, manifest, res, history, seen, gateway, reloads, excused>>

-----------------------------------------------------------------------------
(* The copies of the manifests.                                            *)

ReplacedKeeping(old, list) == [v \in Versions |-> IF list[v] = 0 THEN old[v] ELSE list[v]]

(* SetDeclaredSchemas and replaceAll put the list in the place of all that *)
(* the copy held.                                                          *)
Replaced(old, list) == list

Rebuilding(c) == calls[c] # NoCall /\ calls[c].at = "rebuild"

(* onManifestApply, before the call is answered: the list, which may fail  *)
(* and leaves the copy as it is ...                                        *)
CallLists(c) ==
    /\ Rebuilding(c) /\ calls[c].list = NoList
    /\ \/ calls' = [calls EXCEPT ![c].list = manifest] /\ UNCHANGED bounds
       \/ End(c) /\ Spend("faults")
    /\ UNCHANGED <<capVars, config, apiVars>>

(* ... and the store, whatever another rebuild has stored meanwhile.       *)
CallStores(c) ==
    /\ Rebuilding(c) /\ calls[c].list # NoList
    /\ seen' = [seen EXCEPT ![Home[c]] = Replaced(@, calls[c].list)]
    /\ End(c)
    /\ UNCHANGED <<capVars, config, bounds, manifest, pins, res, history, gateway, reloads, excused>>

(* The NotifyRefresher of a process, woken or at its failsafe tick; a list *)
(* that fails waits for the next.                                          *)
ReloadLists(x) ==
    /\ x \in Plan.running /\ reloads[x] = NoList
    /\ reloads' = [reloads EXCEPT ![x] = manifest]
    /\ UNCHANGED <<capVars, config, bounds, manifest, pins, res, history, calls, seen, gateway, excused>>

ReloadStores(x) ==
    /\ reloads[x] # NoList
    /\ seen' = [seen EXCEPT ![x] = Replaced(@, reloads[x])]
    /\ reloads' = [reloads EXCEPT ![x] = NoList]
    /\ UNCHANGED <<capVars, config, bounds, manifest, pins, res, history, calls, gateway, excused>>

(* KindManifestCache.Get of a version the last list did not hold: the      *)
(* absence is remembered until the next reload.                            *)
MissFill(b, v) ==
    /\ b \in Plan.running
    /\ seen[b][v] = 0
    /\ seen' = [seen EXCEPT ![b][v] = IF manifest[v] = 0 THEN -1 ELSE manifest[v]]
    /\ UNCHANGED <<capVars, config, bounds, manifest, pins, res, history, calls, gateway, reloads, excused>>

(* A replica starts anew, the only way its store gets another validator.   *)
Restart(a) ==
    /\ Spend("faults")
    /\ seen' = [seen EXCEPT ![a] = manifest]
    /\ gateway' = [gateway EXCEPT ![a] = manifest]
    /\ reloads' = [reloads EXCEPT ![a] = NoList]
    /\ calls' = [c \in Callers |-> IF Home[c] = a THEN NoCall ELSE calls[c]]
    /\ UNCHANGED <<capVars, config, manifest, pins, res, history, excused>>

-----------------------------------------------------------------------------

Capped(A) == A /\ UNCHANGED <<calls, apiVars>> /\ Observed

(* A crash also undoes the transactions of the deletes under way.          *)
Crash ==
    /\ PostgresCrash
    /\ calls' = [c \in Callers |-> IF At(c, "delete", "lock") \/ At(c, "delete", "write") THEN NoCall ELSE calls[c]]
    /\ UNCHANGED apiVars

CallStep(c) ==
    \/ Resolve(c) \/ RetirementGate(c) \/ Write(c)
    \/ Rollback(c) \/ Remove(c)
    \/ SchemaGate(c) \/ Publish(c)
    \/ DeleteGuards(c) \/ DeleteConfig(c) \/ Delete(c)
    \/ EditConfig(c) \/ Bind(c)
    \/ CallLists(c) \/ CallStores(c)

Next ==
    /\ \/ \E c \in Callers : CallStep(c) \/ (\E q \in Plan.menu : Call(c, q))
       \/ \E c, d \in Callers : Deadlock(c, d)
       \/ \E x \in Processes : ReloadLists(x) \/ ReloadStores(x)
       \/ \E b \in Brokers, v \in Versions : MissFill(b, v)
       \/ \E a \in Replicas : Restart(a)
       \/ Crash
       \/ CapNext /\ UNCHANGED <<calls, apiVars>>
    /\ Observed

Spec == Init /\ [][Next]_vars

(* A call is carried out, the refreshers are woken or tick; the reapers    *)
(* tick, a claim that waits for a recount gets its lock, every pod polls   *)
(* and a leased task is completed or released.                             *)
FairSpec ==
    /\ Spec
    /\ WF_vars((\E c \in Callers : CallStep(c)) /\ Observed)
    /\ \A x \in Processes : WF_vars((ReloadLists(x) \/ ReloadStores(x)) /\ Observed)
    /\ \A r \in Reapers : WF_vars(Capped(RecountBegin(r) \/ RecountCommit(r)))
    /\ WF_vars(Capped(\E p \in Pods, rows \in SUBSET Tasks : ClaimBegin(p, rows)))
    /\ SF_vars(Capped(\E p \in Pods : ClaimCommit(p)))
    /\ WF_vars(Capped(\E t \in Tasks : Complete(t)))

-----------------------------------------------------------------------------

(* The spec of a resource is one that the published schema of the version  *)
(* it is pinned to admits, over creates, updates, flips, rollbacks and new *)
(* editions in any order, although the replica's copies are stale          *)
(* (applyResourceManifest, applySpecOnce, FlipResourceKindVersion,         *)
(* rollback_to_spec, putKindManifest).  Excused: the last write moved past *)
(* another call that put the resource elsewhere after it was looked up, no *)
(* copy it was checked against stands for the present edition, it went     *)
(* back to a revision recorded at another version, or the version was      *)
(* since deleted, republished by an overtaken call, or republished with a  *)
(* change that the linter does not look at.                                *)
SpecFits ==
    res.ver # 0 /\ ~excused =>
        manifest[res.ver] # 0 /\ Validates(Editions[manifest[res.ver]].spec, Documents[res.spec])

Overtakes == \E c \in overtaken : calls'[c] # calls[c]

GuardsHold ==
    /\ \A v \in Versions :
          /\ manifest[v] # 0 /\ manifest'[v] = 0 => (res.ver # v /\ v \notin pins) \/ Overtakes
          /\ manifest'[v] \notin {0, manifest[v]} => Republishable(manifest[v], manifest'[v]) \/ Overtakes
          /\ manifest'[v] # 0 => config'[v] # NoRow
    /\ res'.ver \notin {0, res.ver} => ~Retired(res'.ver) \/ Overtakes

(* What publishing, retiring and deleting a version promise to what uses   *)
(* it.  A manifest is deleted only when no resource and no binding is on   *)
(* the version, is replaced only by an edition the linter lets pass, and   *)
(* has its kind_config row at all times; no resource is put on a retired   *)
(* version (DeleteKindManifest, putKindManifest, applyResourceManifest).   *)
(* The first two and the last are excused when another call overtakes this *)
(* one between its checks and its write, the last also when the check      *)
(* itself fails.                                                           *)
VersionsGuarded == [][GuardsHold]_vars

Agrees(x) == \A v \in Versions : seen[x][v] = manifest[v] \/ (manifest[v] = 0 /\ seen[x][v] = -1)

(* Every call is answered, whatever it waits for, and every copy of the    *)
(* manifests catches up with the database for good, although rebuilds of   *)
(* one process overlap and an older list may be stored over a newer one    *)
(* (rebuildKindSchemaSurface, NotifyRefresher, KindManifestCache).  The    *)
(* validators of the stores are not among the copies that do.              *)
CachesCatchUp ==
    <>[](/\ \A c \in Callers : calls[c] = NoCall
         /\ \A x \in Plan.running : Agrees(x))
=============================================================================
