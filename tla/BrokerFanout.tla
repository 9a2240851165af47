----------------------------- MODULE BrokerFanout ------------------------------
(***************************************************************************)
(* One broker's fanoutExecutor: the stages it has claimed are parked until *)
(* a worker connected to it, or a peer broker's worker, completes them.    *)
(* The stages are the goroutines of dispatchStage (Local) and the forward- *)
(* ers onRouteTask starts for a peer's references (Refs); each is one task *)
(* with its own lease token, all of one (kind, kindVersion).  A stream is  *)
(* one WorkStream call: its main loop, its fan-in goroutine and its        *)
(* receive loop.                                                           *)
(*                                                                         *)
(* What the code does holding f.mu is one step; what it does between two   *)
(* critical sections is separate steps.  releaseSlot, which follows an     *)
(* unlock and only frees, is taken together with that critical section.    *)
(***************************************************************************)
EXTENDS Integers, Sequences, FiniteSets

CONSTANTS
    Local,        \* stages this broker claimed
    Refs,         \* stages a peer claimed and forwards to this broker
    Streams,      \* worker streams; a worker that reconnects opens another
    None,         \* no stage, no stream
    MaxInflight,  \* Subscribe.max_inflight
    Buffer,       \* capacity of a byKind channel
    Fleets        \* what a behaviour consists of: its stages, its streams, whether
                  \* the mesh is on (EnableRelay), a bound on readiness flips

ASSUME StagesAssumption ==
    /\ Local \cap Refs = {} /\ None \notin Local \cup Refs \cup Streams
    /\ IsFiniteSet(Local \cup Refs) /\ IsFiniteSet(Streams)

ASSUME BoundsAssumption == MaxInflight \in Nat \ {0} /\ Buffer \in Nat \ {0} 

ASSUME FleetsAssumption ==
    Fleets \subseteq [stages : SUBSET (Local \cup Refs), streams : SUBSET Streams,
                      mesh : BOOLEAN, flips : Nat]

Stages == Local \cup Refs

VARIABLES
    park,        \* where the goroutine of a stage stands
    inflight,    \* f.inflight
    resultCh,    \* the stages with a result, genuine or synthetic, in ps.resultCh
    posting,     \* those with one on its way there, the lock no longer held
    sentBy,      \* ps.sentBy, None when ps.slotHeld is false
    gateSub,     \* ps.gateSub
    buffer,      \* the byKind channel of the pair
    loop,        \* where the main loop of a stream stands
    hand,        \* the stage it took from merged
    fan,         \* the stage its fan-in goroutine holds
    fanning,     \* streams whose fan-in goroutine runs
    sent,        \* the tokens it sent
    working,     \* the tasks its worker holds
    unready,     \* streams whose worker has sent RS- for the pair
    credit,      \* sub.inflight
    slots,       \* tokens taken from sub.slots
    ready,       \* f.readySubscribers
    late,        \* streams whose receive loop handled an Interest after the stream had ended
    flips,       \* the readiness flips still to come
    peer,        \* the peer, as the mesh of this broker sees it
    serving,     \* whether it advertises a worker for the pair
    pushedTo     \* stages with ps.pushedTo set

stageVars == <<park, resultCh, posting>>

slotVars == <<inflight, sentBy, gateSub, credit, slots>>

streamVars == <<loop, hand, fan, fanning, sent, working>>

readyVars == <<unready, ready, late, flips>>

meshVars == <<peer, serving, pushedTo>>

vars == <<stageVars, slotVars, buffer, streamVars, readyVars, meshVars>>

Parks == {"absent", "idle", "placing", "sending", "waiting", "recording", "pushed", "returned"}

Loops == {"absent", "off", "free", "slot", "guard", "bounce", "attribute", "gate", "send", "unsent", "abandon", "leave", "ended"}

\* addSubscriber .. removeSubscriber
Subscribed(s) == loop[s] \notin {"absent", "off", "ended"}

\* close(stop)
Stopped(s) == loop[s] \in {"leave", "ended"}

Mesh == peer # "none"

\* the peer's ctx is cancelled
Departed == peer \in {"cancelled", "scanned", "gone"}

\* the peer is in the snapshot loadPeers returns
Listed == peer \in {"up", "cancelled", "scanned"}

Init ==
    /\ \E fleet \in Fleets :
          /\ park = [t \in Stages |-> IF t \in fleet.stages THEN "idle" ELSE "absent"]
          /\ loop = [s \in Streams |-> IF s \in fleet.streams THEN "off" ELSE "absent"]
          /\ peer = IF fleet.mesh THEN "absent" ELSE "none"
          /\ flips = fleet.flips
    /\ inflight = {}
    /\ resultCh = {}
    /\ posting = {}
    /\ sentBy = [t \in Stages |-> None]
    /\ gateSub = [t \in Stages |-> None]
    /\ buffer = <<>>
    /\ hand = [s \in Streams |-> None]
    /\ fan = [s \in Streams |-> None]
    /\ fanning = {}
    /\ sent = [s \in Streams |-> {}]
    /\ working = [s \in Streams |-> {}]
    /\ unready = {}
    /\ credit = [s \in Streams |-> 0]
    /\ slots = [s \in Streams |-> 0]
    /\ ready = 0
    /\ late = {}
    /\ serving = FALSE
    /\ pushedTo = {}

-----------------------------------------------------------------------------
(***************************************************************************)
(* Leaving f.inflight.                                                     *)
(***************************************************************************)

Less(n) == IF n > 0 THEN n - 1 ELSE 0

\* releaseSlot(g) and the credit decrement, for the streams of one stage
Release(f, g) == IF g = None THEN f ELSE [f EXCEPT ![g] = Less(@)]

Leave(t) ==
    IF t \in inflight
    THEN /\ inflight' = inflight \ {t}
         /\ gateSub' = [gateSub EXCEPT ![t] = None]
         /\ slots' = Release(slots, gateSub[t])
         /\ sentBy' = [sentBy EXCEPT ![t] = None]
         /\ credit' = Release(credit, sentBy[t])
    ELSE UNCHANGED slotVars

Deliver(t) ==
    /\ Leave(t)
    /\ posting' = IF t \in inflight THEN posting \cup {t} ELSE posting

\* the send that follows: non-blocking, into a channel of capacity one.  Which result got
\* there first is data the properties do not tell apart
Post ==
    \E t \in posting :
        /\ posting' = posting \ {t}
        /\ resultCh' = resultCh \cup {t}
        /\ UNCHANGED <<park, slotVars, buffer, streamVars, readyVars, meshVars>>

\* drop(token), and the goroutine of the stage returns
Return(t) ==
    /\ Leave(t)
    /\ park' = [park EXCEPT ![t] = "returned"]

-----------------------------------------------------------------------------
(***************************************************************************)
(* dispatchStage.                                                          *)
(***************************************************************************)

\* any stage of a claimed task: the claim gate was consulted long before
Dispatch(t) ==
    /\ park[t] = "idle"
    /\ park' = [park EXCEPT ![t] = "placing"]
    /\ inflight' = inflight \cup {t}
    /\ UNCHANGED <<resultCh, posting, sentBy, gateSub, credit, slots, buffer, streamVars, readyVars, meshVars>>

ServeLocally(t) ==
    /\ park[t] = "placing"
    /\ ~Mesh \/ ready > 0
    /\ park' = [park EXCEPT ![t] = "sending"]
    /\ UNCHANGED <<resultCh, posting, slotVars, buffer, streamVars, readyVars, meshVars>>

\* pushTask found a serving peer in the snapshot; if not, the loop tries again
PushTask(t) ==
    /\ park[t] = "placing"
    /\ Mesh /\ ready = 0
    /\ Listed /\ serving
    /\ park' = [park EXCEPT ![t] = "recording"]
    /\ UNCHANGED <<resultCh, posting, slotVars, buffer, streamVars, readyVars, meshVars>>

RecordPush(t) ==
    /\ park[t] = "recording"
    /\ park' = [park EXCEPT ![t] = "pushed"]
    /\ pushedTo' = IF t \in inflight THEN pushedTo \cup {t} ELSE pushedTo
    /\ UNCHANGED <<resultCh, posting, slotVars, buffer, streamVars, readyVars, peer, serving>>

Enqueue(t) ==
    /\ park[t] = "sending"
    /\ Len(buffer) < Buffer
    /\ park' = [park EXCEPT ![t] = "waiting"]
    /\ buffer' = Append(buffer, t)
    /\ UNCHANGED <<resultCh, posting, slotVars, streamVars, readyVars, meshVars>>

\* case sc := <-ps.resultCh, in dispatchStage and in a reference's forwarder
TakeResult(t) ==
    /\ park[t] \in {"waiting", "pushed"}
    /\ t \in resultCh
    /\ Return(t)
    /\ resultCh' = resultCh \ {t}
    /\ UNCHANGED <<posting, buffer, streamVars, readyVars, meshVars>>

PeerGone(t) ==
    /\ park[t] = "pushed"
    /\ Departed
    /\ Return(t)
    /\ UNCHANGED <<resultCh, posting, buffer, streamVars, readyVars, meshVars>>

\* the task's deadline, if it has one
Expire(t) ==
    /\ park[t] \in {"placing", "sending", "waiting", "pushed"}
    /\ Return(t)
    /\ UNCHANGED <<resultCh, posting, buffer, streamVars, readyVars, meshVars>>

-----------------------------------------------------------------------------
(***************************************************************************)
(* The mesh, from this broker's side.                                      *)
(***************************************************************************)

\* a peer's reference (an accepted stream outlives the peer's ctx); with the buffer full
\* it is dropped, but its forwarder waits on
OnRouteTask(t) ==
    /\ park[t] = "idle"
    /\ peer \notin {"none", "absent"}
    /\ park' = [park EXCEPT ![t] = "waiting"]
    /\ IF Len(buffer) < Buffer
       THEN inflight' = inflight \cup {t} /\ buffer' = Append(buffer, t)
       ELSE UNCHANGED <<inflight, buffer>>
    /\ UNCHANGED <<resultCh, posting, sentBy, gateSub, credit, slots, streamVars, readyVars, meshVars>>

\* case <-ownerGone
OwnerGone(t) ==
    /\ park[t] = "waiting"
    /\ Departed
    /\ Return(t)
    /\ UNCHANGED <<resultCh, posting, buffer, streamVars, readyVars, meshVars>>

\* the peer's worker completed a stage this broker forwarded
OnRouteComplete(t) ==
    /\ park[t] \in {"recording", "pushed"}
    /\ t \in inflight
    /\ Deliver(t)
    /\ UNCHANGED <<park, resultCh, buffer, streamVars, readyVars, meshVars>>

PeerJoins ==
    /\ peer = "absent"
    /\ peer' = "up"
    /\ UNCHANGED <<stageVars, slotVars, buffer, streamVars, readyVars, serving, pushedTo>>

SetInterest ==
    /\ peer = "up"
    /\ serving' = ~serving
    /\ UNCHANGED <<stageVars, slotVars, buffer, streamVars, readyVars, peer, pushedTo>>

\* refreshOnce: cancel, then onPeerGone, then publish the new snapshot
CancelPeer ==
    /\ peer = "up"
    /\ peer' = "cancelled"
    /\ UNCHANGED <<stageVars, slotVars, buffer, streamVars, readyVars, serving, pushedTo>>

OnPeerGone ==
    /\ peer = "cancelled"
    /\ peer' = "scanned"
    /\ posting' = posting \cup (pushedTo \cap inflight)
    /\ UNCHANGED <<park, resultCh, slotVars, buffer, streamVars, readyVars, serving, pushedTo>>

PublishPeers ==
    /\ peer = "scanned"
    /\ peer' = "gone"
    /\ UNCHANGED <<stageVars, slotVars, buffer, streamVars, readyVars, serving, pushedTo>>

-----------------------------------------------------------------------------
(***************************************************************************)
(* WorkStream: subscribing, the fan-in goroutine and the main loop.        *)
(***************************************************************************)

At(s, l) == loop' = [loop EXCEPT ![s] = l]

AddSubscriber(s) ==
    /\ loop[s] = "off"
    /\ At(s, "free")
    /\ ready' = ready + 1
    /\ fanning' = fanning \cup {s}
    /\ UNCHANGED <<stageVars, slotVars, buffer, hand, fan, sent, working, unready, late, flips, meshVars>>

\* case ps := <-q; once stop is closed it is a choice like any other
FanIn(s) ==
    /\ s \in fanning
    /\ fan[s] = None
    /\ buffer # <<>>
    /\ fan' = [fan EXCEPT ![s] = Head(buffer)]
    /\ buffer' = Tail(buffer)
    /\ UNCHANGED <<stageVars, slotVars, loop, hand, fanning, sent, working, readyVars, meshVars>>

FanOut(s) ==
    /\ s \in fanning
    /\ fan[s] = None
    /\ Stopped(s)
    /\ fanning' = fanning \ {s}
    /\ UNCHANGED <<stageVars, slotVars, buffer, loop, hand, fan, sent, working, readyVars, meshVars>>

\* requeue, with a stop that is still open: wait for room, unless the stage is resolved
Requeue(t) ==
    IF t \in inflight
    THEN Len(buffer) < Buffer /\ buffer' = Append(buffer, t)
    ELSE UNCHANGED buffer

\* forward's second arm.  stop is closed, so of requeue's two arms either may run
ForwardStopped(s) ==
    /\ s \in fanning
    /\ fan[s] # None
    /\ Stopped(s)
    /\ fanning' = fanning \ {s}
    /\ fan' = [fan EXCEPT ![s] = None]
    /\ \/ fan[s] \in Local /\ Requeue(fan[s])
       \/ UNCHANGED buffer
    /\ UNCHANGED <<stageVars, slotVars, loop, hand, sent, working, readyVars, meshVars>>

\* a plausible slip: the token is not held across the loop, the channel only probed
AcquireUncounted(s) ==
    /\ loop[s] = "free"
    /\ slots[s] < MaxInflight
    /\ At(s, "slot")
    /\ UNCHANGED <<stageVars, slotVars, buffer, hand, fan, fanning, sent, working, readyVars, meshVars>>

\* case sub.slots <- struct{}{}
Acquire(s) ==
    /\ loop[s] = "free"
    /\ slots[s] < MaxInflight
    /\ At(s, "slot")
    /\ slots' = [slots EXCEPT ![s] = @ + 1]
    /\ UNCHANGED <<stageVars, inflight, sentBy, gateSub, credit, buffer, hand, fan, fanning, sent, working, readyVars, meshVars>>

\* case ps := <-merged
TakeTask(s) ==
    /\ loop[s] = "slot"
    /\ fan[s] # None
    /\ hand' = [hand EXCEPT ![s] = fan[s]]
    /\ fan' = [fan EXCEPT ![s] = None]
    /\ At(s, "guard")
    /\ UNCHANGED <<stageVars, slotVars, buffer, fanning, sent, working, readyVars, meshVars>>

\* sub.readyFor, called without f.mu: while it runs the loop stands at "guard"
ReadyFor(s) ==
    /\ loop[s] = "guard"
    /\ At(s, IF s \in unready THEN "bounce" ELSE "attribute")
    /\ UNCHANGED <<stageVars, slotVars, buffer, hand, fan, fanning, sent, working, readyVars, meshVars>>

\* not sent: the loop keeps its slot
Bounce(s) ==
    /\ loop[s] = "bounce"
    /\ Requeue(hand[s])
    /\ hand' = [hand EXCEPT ![s] = None]
    /\ At(s, "slot")
    /\ UNCHANGED <<stageVars, slotVars, fan, fanning, sent, working, readyVars, meshVars>>

AttributeToStream(s) ==
    LET t == hand[s] IN
    /\ loop[s] = "attribute"
    /\ IF t \in Local /\ t \notin inflight
       THEN At(s, "slot") /\ hand' = [hand EXCEPT ![s] = None]
       ELSE At(s, "gate") /\ UNCHANGED hand
    /\ IF t \in Local \cap inflight /\ sentBy[t] = None
       THEN /\ sentBy' = [sentBy EXCEPT ![t] = s]
            /\ credit' = [credit EXCEPT ![s] = @ + 1]
       ELSE UNCHANGED <<sentBy, credit>>
    /\ UNCHANGED <<stageVars, inflight, gateSub, slots, buffer, fan, fanning, sent, working, readyVars, meshVars>>

ClaimGateSlot(s) ==
    /\ loop[s] = "gate"
    /\ gateSub' = [gateSub EXCEPT ![hand[s]] = s]
    /\ At(s, "send")
    /\ UNCHANGED <<stageVars, inflight, sentBy, credit, slots, buffer, hand, fan, fanning, sent, working, readyVars, meshVars>>

Send(s) ==
    /\ loop[s] = "send"
    /\ working' = [working EXCEPT ![s] = @ \cup {hand[s]}]
    /\ sent' = [sent EXCEPT ![s] = @ \cup {hand[s]}]
    /\ hand' = [hand EXCEPT ![s] = None]
    /\ At(s, "free")
    /\ UNCHANGED <<stageVars, slotVars, buffer, fan, fanning, readyVars, meshVars>>

\* the send failed: unattributeFromStream
Unattribute(s) ==
    LET t == hand[s] IN
    /\ loop[s] = "send"
    /\ credit' = Release(credit, sentBy[t])
    /\ slots' = Release(slots, sentBy[t])
    /\ sentBy' = [sentBy EXCEPT ![t] = None]
    /\ At(s, "unsent")
    /\ UNCHANGED <<stageVars, inflight, gateSub, buffer, hand, fan, fanning, sent, working, readyVars, meshVars>>

\* a plausible slip: the failed send is remembered as sent, and requeued too
RequeueUnsentAndSent(s) ==
    /\ loop[s] = "unsent"
    /\ Requeue(hand[s])
    /\ sent' = [sent EXCEPT ![s] = @ \cup {hand[s]}]
    /\ working' = [working EXCEPT ![s] = @ \cup {hand[s]}]
    /\ hand' = [hand EXCEPT ![s] = None]
    /\ At(s, "abandon")
    /\ UNCHANGED <<stageVars, slotVars, fan, fanning, readyVars, meshVars>>

RequeueUnsent(s) ==
    /\ loop[s] = "unsent"
    /\ Requeue(hand[s])
    /\ hand' = [hand EXCEPT ![s] = None]
    /\ At(s, "abandon")
    /\ UNCHANGED <<stageVars, slotVars, fan, fanning, sent, working, readyVars, meshVars>>

-----------------------------------------------------------------------------
(***************************************************************************)
(* WorkStream: the receive loop and the deferred teardown.                 *)
(***************************************************************************)

\* a Complete frame; a token no longer in flight is a no-op
Complete(s) ==
    \E t \in working[s] :
        /\ Deliver(t)
        /\ working' = [working EXCEPT ![s] = @ \ {t}]
        /\ UNCHANGED <<park, resultCh, buffer, loop, hand, fan, fanning, sent, readyVars, meshVars>>

\* an Interest frame: setStreamReadiness, which looks at sub.kinds only.  Nothing joins the
\* receive loop, so the frame it is at when the stream ends may be handled afterwards
SetStreamReadiness(s) ==
    /\ flips > 0
    /\ Subscribed(s) \/ (loop[s] = "ended" /\ s \notin late)
    /\ late' = IF Subscribed(s) THEN late ELSE late \cup {s}
    /\ flips' = flips - 1
    /\ unready' = IF s \in unready THEN unready \ {s} ELSE unready \cup {s}
    /\ ready' = IF s \in unready THEN ready + 1 ELSE Less(ready)
    /\ UNCHANGED <<stageVars, slotVars, buffer, streamVars, meshVars>>

\* ctx.Done or recvDone at one of the main loop's selects; an unused slot goes back
Disconnect(s) ==
    /\ loop[s] \in {"free", "slot"}
    /\ At(s, "abandon")
    /\ slots' = IF loop[s] = "slot" THEN Release(slots, s) ELSE slots
    /\ UNCHANGED <<stageVars, inflight, sentBy, gateSub, credit, buffer, hand, fan, fanning, sent, working, readyVars, meshVars>>

\* a plausible slip: only the lease is released, nobody wakes the parked goroutine
AbandonUnwoken(s) ==
    /\ loop[s] = "abandon"
    /\ \E t \in sent[s] : sent' = [sent EXCEPT ![s] = @ \ {t}]
    /\ UNCHANGED <<stageVars, slotVars, buffer, loop, hand, fan, fanning, working, readyVars, meshVars>>

\* one token: looked up under the lock, the synthetic failure sent after it
Abandon(s) ==
    /\ loop[s] = "abandon"
    /\ \E t \in sent[s] :
        /\ sent' = [sent EXCEPT ![s] = @ \ {t}]
        /\ posting' = IF t \in inflight THEN posting \cup {t} ELSE posting
    /\ UNCHANGED <<park, resultCh, slotVars, buffer, loop, hand, fan, fanning, working, readyVars, meshVars>>

\* releaseAbandoned, whose effect is WorkQueue's, then close(stop)
CloseStop(s) ==
    /\ loop[s] = "abandon"
    /\ sent[s] = {}
    /\ At(s, "leave")
    /\ UNCHANGED <<stageVars, slotVars, buffer, hand, fan, fanning, sent, working, readyVars, meshVars>>

RemoveSubscriber(s) ==
    /\ loop[s] = "leave"
    /\ At(s, "ended")
    /\ ready' = IF s \in unready THEN ready ELSE Less(ready)
    /\ UNCHANGED <<stageVars, slotVars, buffer, hand, fan, fanning, sent, working, unready, late, flips, meshVars>>

-----------------------------------------------------------------------------
Dispatching(t) ==
    \/ ServeLocally(t) \/ PushTask(t) \/ RecordPush(t) \/ Enqueue(t) \/ PeerGone(t)

FanStep(s) == FanIn(s) \/ FanOut(s) \/ ForwardStopped(s)

LoopStep(s) ==
    \/ Acquire(s) \/ TakeTask(s) \/ ReadyFor(s) \/ Bounce(s)
    \/ AttributeToStream(s) \/ ClaimGateSlot(s) \/ Send(s) \/ Unattribute(s) \/ RequeueUnsent(s)
    \/ Abandon(s) \/ CloseStop(s) \/ RemoveSubscriber(s)

Environment ==
    \/ \E t \in Local : Dispatch(t) \/ OnRouteComplete(t)
    \/ \E t \in Refs : OnRouteTask(t)
    \/ \E s \in Streams : AddSubscriber(s) \/ Complete(s) \/ SetStreamReadiness(s) \/ Disconnect(s)
    \/ PeerJoins \/ SetInterest \/ CancelPeer

Next ==
    \/ Environment
    \/ Post
    \/ \E t \in Stages : TakeResult(t)
    \/ \E t \in Local : Dispatching(t) \/ Expire(t)
    \/ \E t \in Refs : OwnerGone(t)
    \/ \E s \in Streams : FanStep(s) \/ LoopStep(s)
    \/ OnPeerGone \/ PublishPeers

Spec == Init /\ [][Next]_vars

(***************************************************************************)
(* The broker's goroutines are scheduled and a runnable one is not         *)
(* starved.  Workers, peers, connections and deadlines owe nothing: a      *)
(* worker may never answer, a peer may never serve, a task may have no     *)
(* deadline (RemoteFanoutCeiling = 0).  A stream's loop and its fan-in are *)
(* two goroutines.                                                         *)
(***************************************************************************)
Fairness ==
    /\ WF_vars(Post)
    /\ WF_vars(OnPeerGone) /\ WF_vars(PublishPeers)
    /\ \A t \in Stages : WF_vars(TakeResult(t))
    /\ \A t \in Local : WF_vars(Dispatching(t))
    /\ \A t \in Refs : WF_vars(OwnerGone(t))
    /\ \A s \in Streams : WF_vars(FanStep(s)) /\ WF_vars(LoopStep(s))

FairSpec == Spec /\ Fairness

-----------------------------------------------------------------------------
(***************************************************************************)
(* Properties.                                                             *)
(***************************************************************************)

TypeOK ==
    /\ park \in [Stages -> Parks]
    /\ inflight \subseteq Stages
    /\ resultCh \subseteq Stages
    /\ posting \subseteq Stages
    /\ sentBy \in [Stages -> Streams \cup {None}]
    /\ gateSub \in [Stages -> Streams \cup {None}]
    /\ buffer \in Seq(Stages) /\ Len(buffer) <= Buffer
    /\ loop \in [Streams -> Loops]
    /\ hand \in [Streams -> Stages \cup {None}]
    /\ fan \in [Streams -> Stages \cup {None}]
    /\ fanning \subseteq Streams
    /\ sent \in [Streams -> SUBSET Stages]
    /\ working \in [Streams -> SUBSET Stages]
    /\ unready \subseteq Streams
    /\ credit \in [Streams -> Nat]
    /\ slots \in [Streams -> 0 .. MaxInflight]
    /\ ready \in Nat
    /\ late \subseteq Streams
    /\ flips \in Nat
    /\ peer \in {"none", "absent", "up", "cancelled", "scanned", "gone"}
    /\ serving \in BOOLEAN
    /\ pushedTo \subseteq Local

\* dispatch.go attributeToStream, drop, deliver, unattributeFromStream: the credit a
\* stream advertises as taken is exactly the number of stages in flight that were
\* attributed to it; none leaks when a deadline or a Complete beats the attribution.
CreditExact ==
    \A s \in Streams :
        credit[s] = Cardinality({t \in inflight : sentBy[t] = s})

\* connect.go WorkStream, the capacity gate: of the tasks a stream has sent, or is about
\* to send, no more than max_inflight are unresolved at any moment.
CapacityHeld ==
    \A s \in Streams :
        Cardinality({t \in inflight : t \in working[s] \/ (t = hand[s] /\ loop[s] = "send")}) <= MaxInflight

\* fanout.go requeue, connect.go forward: a stage in flight is in one place only, the
\* buffer, a fan-in, a main loop or a worker, so no two workers run it under one token.
Places(t) ==
    {<<"buffer", i>> : i \in {j \in 1 .. Len(buffer) : buffer[j] = t}}
    \cup {<<"fan", s>> : s \in {x \in Streams : fan[x] = t}}
    \cup {<<"hand", s>> : s \in {x \in Streams : hand[x] = t}}
    \cup {<<"worker", s>> : s \in {x \in Streams : t \in working[x]}}

OnePlace == \A t \in Stages : Cardinality(Places(t)) <= 1

\* subscribers.go: readySubscribers, which opens the claim gate, counts the connected
\* streams whose worker has not sent RS-, through every order of flips and departures, as
\* long as no Interest is handled after its stream has ended.
ReadyCountExact ==
    late = {} => ready = Cardinality({s \in Streams : Subscribed(s) /\ s \notin unready})

\* The three accounts of the broker hold: the credit a stream advertises (attributeToStream,
\* drop), the capacity gate's tokens (claimGateSlot, releaseSlot) and the workers the claim
\* gate counts as ready (addSubscriber, setReady, removeSubscriber).
AccountsExact == CreditExact /\ CapacityHeld /\ ReadyCountExact

\* the worker's stream dropped before its Complete
Dropped(t) == t \in inflight /\ \E s \in Streams : t \in sent[s] /\ loop[s] = "abandon"

\* fanout.go abandon, dispatch.go dispatchStage: without counting on a deadline, a stage
\* returns when its worker's stream drops or when the peer it was forwarded to departs,
\* also between the push and its recording; no slot of the dispatcher is held for good.
LostStageReturns ==
    \A t \in Stages :
        (Dropped(t) \/ (park[t] \in {"recording", "pushed"} /\ Departed)) ~> park[t] = "returned"
================================================================================
