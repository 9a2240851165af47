---------------------------- MODULE WorkerConfig ----------------------------
(* The default provider config on its way to a worker, composed with the   *)
(* session it rides on: the ProviderConfigCache of the broker, the prime   *)
(* of a new stream, the pushes, and the worker's configCache with its two  *)
(* loaders (the periodic refresh and the load of every connect).  One pair *)
(* (kind, kindVersion); a version number stands for the spec document or   *)
(* the bundle written by one edit, 0 for one that is absent.               *)
EXTENDS WorkerSession

CONSTANT ChanCap   \* pushes a stream's channel can hold

ASSUME DefaultAssumption == \A d \in Deployments : d.dflt \in Nat

VARIABLES
    dflt,          \* the default in the database
    version,       \* the number of the last edit
    current,       \* the broker's copy
    chan,          \* pushes that wait for the stream's loop
    priming,       \* the spec the prime of the stream has read, in a sequence
    cache,         \* the worker's copy
    loads,         \* per loader: where it is, and what it holds
    provider,      \* what the provider's OnConfig was last called with
    overlap        \* the last snapshot was taken while an older one was not fired

configVars == <<dflt, version, current, chan, priming, cache, loads, provider, overlap>>
workerVars == <<sessionVars, configVars>>

Loaders == {"refresh", "connect", "stream"}
None == [spec |-> 0, data |-> 0]
Both(v) == [spec |-> v, data |-> v]
Idle == [at |-> "idle", doc |-> None]

ConfigInit(d) ==
    /\ version = d.dflt
    /\ dflt = Both(d.dflt) /\ current = dflt
    /\ chan = <<>> /\ priming = <<>>
    /\ cache = dflt /\ provider = dflt
    /\ loads = [l \in Loaders |-> Idle]
    /\ overlap = FALSE

WorkerInit == \E d \in Deployments : SessionInit(d) /\ ConfigInit(d)

-----------------------------------------------------------------------------
(* The database and the broker.                                            *)

(* applyProviderConfig writes the default, with a bundle or without, and   *)
(* deleteProviderConfig deletes it.                                        *)
Edit ==
    /\ Spend("edits")
    /\ version' = version + 1
    /\ \/ dflt' \in {None, Both(version')}
       \/ bounds.bare /\ dflt' = [spec |-> version', data |-> 0]
    /\ UNCHANGED <<brokerVars, streamVars, runVars, watchVars, muxVars, memory, healthVars, term, graceOver, maxInflight,
                   current, chan, priming, cache, loads, provider, overlap>>

(* ProviderConfigCache.reload, after the notification or at the failsafe:  *)
(* a copy that moved is pushed, if the stream's channel takes it.          *)
Reload ==
    /\ current # dflt
    /\ current' = dflt
    /\ chan' = IF session \in open /\ Len(chan) < ChanCap THEN Append(chan, dflt) ELSE chan
    /\ UNCHANGED <<sessionVars, dflt, version, priming, cache, loads, provider, overlap>>

ToWorker(doc) == down' = Append(down, [body |-> "config", doc |-> doc])

Streaming == session \in open /\ stream \in {"up", "half"}

(* primeConfigs reads the bundle after the spec, and sends them ...        *)
Prime ==
    /\ Streaming /\ priming # <<>>
    /\ priming' = <<>>
    /\ LET doc == [spec |-> Head(priming), data |-> current.data] IN
       IF doc = None THEN UNCHANGED down ELSE ToWorker(doc)
    /\ UNCHANGED <<brokerVars, session, stream, runVars, watchVars, muxVars, memory, healthVars, envVars,
                   dflt, version, current, chan, cache, loads, provider, overlap>>

(* ... before the loop of the stream starts, which sends the pushes.       *)
Push ==
    /\ Streaming /\ priming = <<>> /\ chan # <<>>
    /\ ToWorker(Head(chan))
    /\ chan' = Tail(chan)
    /\ UNCHANGED <<brokerVars, session, stream, runVars, watchVars, muxVars, memory, healthVars, envVars,
                   dflt, version, current, priming, cache, loads, provider, overlap>>

-----------------------------------------------------------------------------
(* The worker's cache.                                                     *)

(* snapshotLocked: what the goroutine will call OnConfig with.             *)
Snapshot(l, doc) ==
    /\ cache' = doc
    /\ loads' = [loads EXCEPT ![l] = [at |-> "fire", doc |-> doc]]
    /\ overlap' = \E m \in Loaders \ {l} : loads[m].at = "fire"

(* apply, on the goroutine of the receiving loop: both halves replaced.    *)
ReceiveConfig ==
    /\ run = "receive" /\ down # <<>> /\ Head(down).body = "config"
    /\ loads["stream"] = Idle
    /\ down' = Tail(down)
    /\ Snapshot("stream", Head(down).doc)
    /\ UNCHANGED <<brokerVars, session, stream, runVars, watchVars, muxVars, memory, healthVars, envVars,
                   dflt, version, current, chan, priming, provider>>

After(l) == IF l = "connect" THEN [Idle EXCEPT !.at = "done"] ELSE Idle

(* With no default the answer has no entry, and the load does nothing.     *)
NothingSet == current = None /\ dflt = None

(* GetProviderConfig: Config, and then Bundle.                             *)
LoadSpec(l) ==
    /\ loads[l] = Idle /\ ~NothingSet
    /\ \/ l = "refresh" /\ ~term
       \/ l = "connect" /\ run = "connect"
    /\ loads' = [loads EXCEPT ![l] = [at |-> "spec", doc |-> [current EXCEPT !.data = 0]]]
    /\ UNCHANGED <<sessionVars, dflt, version, current, chan, priming, cache, provider, overlap>>

LoadData(l) ==
    /\ loads[l].at = "spec"
    /\ loads' = [loads EXCEPT ![l] = [at |-> "data", doc |-> [@.doc EXCEPT !.data = current.data]]]
    /\ UNCHANGED <<sessionVars, dflt, version, current, chan, priming, cache, provider, overlap>>

MergedIfFirst(doc) == IF cache = None THEN doc ELSE cache

(* A half the answer lacks is kept.                                        *)
Merged(doc) ==
    [spec |-> IF doc.spec = 0 THEN cache.spec ELSE doc.spec,
     data |-> IF doc.data = 0 THEN cache.data ELSE doc.data]

Merge(l) ==
    /\ loads[l].at = "data"
    /\ LET doc == Merged(loads[l].doc) IN
       IF doc = cache
       THEN loads' = [loads EXCEPT ![l] = After(l)] /\ UNCHANGED <<cache, overlap>>
       ELSE Snapshot(l, doc)
    /\ UNCHANGED <<sessionVars, dflt, version, current, chan, priming, provider>>

(* fire, without the lock.                                                 *)
Fire(l) ==
    /\ loads[l].at = "fire"
    /\ provider' = loads[l].doc
    /\ loads' = [loads EXCEPT ![l] = After(l)]
    /\ UNCHANGED <<sessionVars, dflt, version, current, chan, priming, cache, overlap>>

(* The call fails: what the worker has it keeps.                           *)
LoadFails(l) ==
    /\ loads[l].at \in {"spec", "data"}
    /\ IF term THEN UNCHANGED bounds ELSE Spend("drops")
    /\ loads' = [loads EXCEPT ![l] = After(l)]
    /\ UNCHANGED <<brokerVars, streamVars, runVars, watchVars, muxVars, memory, healthVars, term, graceOver, maxInflight,
                   dflt, version, current, chan, priming, cache, provider, overlap>>

LoadStep(l) == LoadSpec(l) \/ LoadData(l) \/ Merge(l) \/ Fire(l)

-----------------------------------------------------------------------------
(* The composition: a session's steps, with what they do to the config.    *)

SubscribePriming ==
    /\ Subscribe
    /\ priming' = <<current.spec>> /\ chan' = <<>>
    /\ UNCHANGED <<dflt, version, current, cache, loads, provider, overlap>>

AttachLoaded ==
    /\ Attach
    /\ loads["connect"].at = "done" \/ (loads["connect"] = Idle /\ NothingSet)
    /\ loads' = [loads EXCEPT !["connect"] = Idle]
    /\ UNCHANGED <<dflt, version, current, chan, priming, cache, provider, overlap>>

SendTaskPrimed(t) == SendTask(t) /\ priming = <<>> /\ UNCHANGED configVars

HandlerEndsStep(s) ==
    /\ HandlerEnds(s)
    /\ IF s = session THEN chan' = <<>> /\ priming' = <<>> ELSE UNCHANGED <<chan, priming>>
    /\ UNCHANGED <<dflt, version, current, cache, loads, provider, overlap>>

WorkerRun ==
    \/ SubscribePriming \/ AttachLoaded \/ ReceiveConfig
    \/ loads["stream"] = Idle /\ (InitialUnready \/ RunStep) /\ UNCHANGED configVars

Broker ==
    \/ Prime \/ Push
    \/ \E t \in Tasks : SendTaskPrimed(t) \/ (Reap(t) /\ UNCHANGED configVars)
    \/ \E s \in open : HandlerEndsStep(s)

WorkerNext ==
    \/ WorkerRun \/ Broker
    \/ (HandlerStep \/ SenderStep \/ WatcherStep \/ Poll) /\ UNCHANGED configVars
    \/ (Attest \/ Drop \/ ProbeFlips \/ Terminate \/ GraceExpires) /\ UNCHANGED configVars
    \/ Edit \/ Reload
    \/ \E l \in Loaders : LoadStep(l) \/ LoadFails(l)

WorkerSpec == WorkerInit /\ [][WorkerNext]_workerVars

(* Go schedules what can run; tickers tick.  Nothing is assumed of drops,  *)
(* flips, edits and signals, and DrainGrace need not run out.              *)
WorkerFairness ==
    /\ WF_workerVars(WorkerRun) /\ WF_workerVars(Broker)
    /\ WF_workerVars(HandlerStep /\ UNCHANGED configVars)
    /\ WF_workerVars(SenderStep /\ UNCHANGED configVars)
    /\ WF_workerVars(WatcherStep /\ UNCHANGED configVars)
    /\ WF_workerVars(Poll /\ UNCHANGED configVars)
    /\ WF_workerVars(Reload)
    /\ \A l \in Loaders : WF_workerVars(LoadStep(l))

WorkerFairSpec == WorkerSpec /\ WorkerFairness

-----------------------------------------------------------------------------
(* Properties.                                                             *)

(* The runner tracks a task exactly as long as it has something of it: a   *)
(* handler that runs, or a result kept for the next session.  So the tasks *)
(* a Subscribe names as resumed are the ones the worker still has.         *)
TrackedExact ==
    /\ {x.token : x \in {y \in tracked : ~y.done}}
          = {h.token : h \in {g \in handlers : g.at = "running"}}
    /\ {x.token : x \in {y \in tracked : y.done}} = {resultBuf[i] : i \in 1 .. Len(resultBuf)}

(* The stream is half-closed only when every frame of the session is       *)
(* written: no result is lost to the worker's own exit.                    *)
FlushedBeforeClose == stream = "half" => mux = <<>>

(* The runner loses no result through its own doing: it tracks what it     *)
(* still has, and flushes before it closes (track, untrack, closeSend).    *)
ResultsKept == TrackedExact /\ FlushedBeforeClose

(* A worker told to stop exits, without waiting for DrainGrace to run out. *)
DrainExits == term ~> (run = "exited")

(* Every task is completed, through dropped streams, results kept or lost  *)
(* and full buffers, unless the worker stops or the broker keeps counting  *)
(* it as not ready.                                                        *)
EveryTaskDone == []<>~counted \/ <>(term \/ \A t \in Tasks : lease[t].at = "done")

(* The worker's cache, and the provider, settle on the default that is set *)
(* in the end.  Excused: a provider whose last two calls of OnConfig were  *)
(* prepared at the same time, as they may come in the wrong order; and a   *)
(* document or bundle that was deleted, as a worker that misses the push   *)
(* keeps it.                                                               *)
ConfigCatchesUp ==
    <>[](\/ term
         \/ /\ \A half \in {"spec", "data"} : dflt[half] \in {0, cache[half]}
            /\ overlap \/ provider = cache)

(* The broker learns what the probe says in the end.  Excused: a session   *)
(* at whose start the poller remembered otherwise than was told then.      *)
ReadinessLearned == <>[](term \/ blind \/ counted = probe)
=============================================================================
