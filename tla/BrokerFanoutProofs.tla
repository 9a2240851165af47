-------------------------- MODULE BrokerFanoutProofs ---------------------------
(***************************************************************************)
(* Proofs about the fanoutExecutor, for any number of stages, streams and  *)
(* slots and any buffer: a stage is in one place, and the three accounts   *)
(* of the broker are exact.                                                *)
(***************************************************************************)
EXTENDS BrokerFanout, FiniteSetTheorems, TLAPS

(* Zenon is the prover of this module; leaves that need arithmetic, records *)
(* or sequences ask for SMT.                                               *)
USE Zenon

\* the main loop has a stage in hand
Carrying == {"guard", "bounce", "attribute", "gate", "send", "unsent"}

\* the loop of the stream has ended, or will not take another stage
Dead(s) == loop[s] \in {"unsent", "abandon", "leave", "ended"}

\* the loop holds a slot that no stage is charged with yet
Spare(s) == loop[s] \in {"slot", "guard", "bounce", "attribute", "gate"}

\* the goroutine of the stage has not given it to the buffer, and will not once it is pushed
Early(t) == park[t] \in {"absent", "idle", "placing", "sending", "recording", "pushed"}

Buffered(t) == \E i \in 1 .. Len(buffer) : buffer[i] = t

Distinct(q) == \A i, j \in 1 .. Len(q) : q[i] = q[j] => i = j

\* The types, and that a loop that is to do something with a stage has one.
TypeInv ==
    /\ TypeOK
    /\ \A s \in Streams : loop[s] \in Carrying => hand[s] \in Stages

\* The stage is in no place, and in one place at most.
Nowhere(t) ==
    ~Buffered(t) /\ \A s \in Streams : fan[s] # t /\ hand[s] # t /\ t \notin working[s]

Single(t) ==
    /\ Buffered(t) => \A s \in Streams : fan[s] # t /\ hand[s] # t /\ t \notin working[s]
    /\ \A s1, s2 \in Streams :
          /\ fan[s1] = t => hand[s2] # t /\ t \notin working[s2]
          /\ hand[s1] = t => t \notin working[s2]
          /\ fan[s1] = t /\ fan[s2] = t => s1 = s2
          /\ hand[s1] = t /\ hand[s2] = t => s1 = s2
          /\ t \in working[s1] /\ t \in working[s2] => s1 = s2

\* The strengthening of OnePlace: a stage is nowhere before its goroutine has put it into
\* the buffer, and that happens once.
PlaceInv ==
    /\ Distinct(buffer)
    /\ \A t \in Stages : Single(t)
    /\ \A t \in Stages : Early(t) => Nowhere(t)

\* What the accounts rest on.  A stage attributed to a stream is in flight and with that
\* stream; a stage in flight that was sent holds its stream's slot; a stage that holds the
\* slot of a stream that goes on is not about to be sent again.
ChargeInv ==
    /\ \A t \in Stages : Early(t) => sentBy[t] = None /\ gateSub[t] = None
    /\ \A t \in Stages : park[t] \in {"absent", "idle"} => t \notin inflight
    /\ \A t \in Stages, s \in Streams : sentBy[t] = s =>
          /\ t \in inflight
          /\ (hand[s] = t /\ loop[s] \in {"gate", "send"}) \/ t \in working[s]
    /\ \A t \in inflight, s \in Streams :
          t \in working[s] \/ (hand[s] = t /\ loop[s] = "send") => gateSub[t] = s
    /\ \A t \in Stages, s \in Streams : gateSub[t] = s /\ ~Dead(s) =>
          /\ ~Buffered(t)
          /\ \A x \in Streams : /\ fan[x] # t
                                /\ hand[x] = t => x = s /\ loop[s] = "send"

\* the stages a map of stages to streams, sentBy or gateSub, gives to the stream
Of(f, s) == {t \in Stages : f[t] = s}

\* A stream that goes on has taken one token for each stage charged to it, and one for the
\* stage it is about to take.
SlotInv ==
    \A s \in Streams : ~Dead(s) =>
        slots[s] = Cardinality(Of(gateSub, s)) + (IF Spare(s) THEN 1 ELSE 0)

\* A stream that has not subscribed has not said RS-.
ReadyInv ==
    /\ \A s \in Streams : loop[s] \in {"absent", "off"} => s \notin unready
    /\ ReadyCountExact

Inv == TypeInv /\ PlaceInv /\ ChargeInv /\ SlotInv /\ CreditExact /\ CapacityHeld /\ ReadyInv

-----------------------------------------------------------------------------
\* Sequences without repetition.

\* Appending what a queue does not hold keeps its elements distinct.
LEMMA AppendDistinct ==
  ASSUME NEW S, NEW q \in Seq(S), NEW e \in S, Distinct(q),
         \A i \in 1 .. Len(q) : q[i] # e
  PROVE  /\ Append(q, e) \in Seq(S) /\ Len(Append(q, e)) = Len(q) + 1
         /\ Distinct(Append(q, e))
         /\ \A u : (\E i \in 1 .. Len(Append(q, e)) : Append(q, e)[i] = u)
                     <=> (\E i \in 1 .. Len(q) : q[i] = u) \/ u = e
  <1>1. Append(q, e) \in Seq(S) /\ Len(Append(q, e)) = Len(q) + 1 /\ Len(q) \in Nat
    BY SMTT(30)
  <1>2. /\ \A i \in 1 .. Len(q) : Append(q, e)[i] = q[i]
        /\ Append(q, e)[Len(q) + 1] = e
    BY SMTT(30)
  <1>3. \A i \in 1 .. Len(q) + 1 : i \in 1 .. Len(q) \/ i = Len(q) + 1
    BY SMTT(30), <1>1
  <1>4. Len(q) + 1 \in 1 .. Len(q) + 1 /\ \A i \in 1 .. Len(q) : i \in 1 .. Len(q) + 1
    BY SMTT(30), <1>1
  <1>5. Distinct(Append(q, e))
    BY <1>1, <1>2, <1>3 DEF Distinct
  <1>6. \A u : (\E i \in 1 .. Len(q) + 1 : Append(q, e)[i] = u)
               <=> (\E i \in 1 .. Len(q) : q[i] = u) \/ u = e
    BY <1>2, <1>3, <1>4, Zenon
  <1> QED
    BY <1>1, <1>5, <1>6

\* Taking the head of a queue of distinct elements leaves all but the head.
LEMMA TailDistinct ==
  ASSUME NEW S, NEW q \in Seq(S), q # <<>>, Distinct(q)
  PROVE  /\ Head(q) \in S /\ Tail(q) \in Seq(S) /\ Len(Tail(q)) = Len(q) - 1
         /\ Distinct(Tail(q))
         /\ \E i \in 1 .. Len(q) : q[i] = Head(q)
         /\ \A u : (\E i \in 1 .. Len(Tail(q)) : Tail(q)[i] = u)
                     <=> (\E i \in 1 .. Len(q) : q[i] = u) /\ u # Head(q)
  <1>1. /\ Head(q) \in S /\ Tail(q) \in Seq(S) /\ Len(Tail(q)) = Len(q) - 1
        /\ Len(q) \in Nat /\ Len(q) > 0 /\ Head(q) = q[1]
    BY SMTT(30)
  <1>2. \A i \in 1 .. Len(q) - 1 : Tail(q)[i] = q[i + 1]
    BY SMTT(30)
  <1>3. Distinct(Tail(q))
    BY SMTT(30), <1>1, <1>2 DEF Distinct
  <1>4. ASSUME NEW u, NEW i \in 1 .. Len(q) - 1, Tail(q)[i] = u
        PROVE  (\E j \in 1 .. Len(q) : q[j] = u) /\ u # Head(q)
    <2>1. i + 1 \in 1 .. Len(q) /\ q[i + 1] = u /\ 1 \in 1 .. Len(q) /\ i + 1 # 1
      BY SMTT(30), <1>1, <1>2, <1>4
    <2> QED
      BY <1>1, <2>1 DEF Distinct
  <1>5. ASSUME NEW u, NEW j \in 1 .. Len(q), q[j] = u, u # Head(q)
        PROVE  \E i \in 1 .. Len(q) - 1 : Tail(q)[i] = u
    <2>1. j - 1 \in 1 .. Len(q) - 1 /\ Tail(q)[j - 1] = u
      BY SMTT(30), <1>1, <1>2, <1>5
    <2> QED
      BY <2>1
  <1>6. 1 \in 1 .. Len(q)
    BY SMTT(30), <1>1
  <1> QED
    BY <1>1, <1>3, <1>4, <1>5, <1>6

\* Requeue and Enqueue, on the buffer.
LEMMA Appended ==
  ASSUME TypeInv, PlaceInv, NEW t \in Stages, ~Buffered(t), Len(buffer) < Buffer,
         buffer' = Append(buffer, t)
  PROVE  /\ buffer' \in Seq(Stages) /\ Len(buffer') <= Buffer
         /\ Distinct(buffer')
         /\ \A u : Buffered(u)' <=> Buffered(u) \/ u = t
  <1>1. buffer \in Seq(Stages) /\ Distinct(buffer) /\ \A i \in 1 .. Len(buffer) : buffer[i] # t
    BY DEF TypeInv, TypeOK, PlaceInv, Buffered
  <1>2. /\ buffer' \in Seq(Stages) /\ Len(buffer') = Len(buffer) + 1
        /\ Distinct(buffer')
        /\ \A u : (\E i \in 1 .. Len(buffer') : buffer'[i] = u)
                     <=> (\E i \in 1 .. Len(buffer) : buffer[i] = u) \/ u = t
    BY SMTT(30), <1>1, AppendDistinct
  <1>3. Len(buffer) \in Nat /\ Buffer \in Nat
    BY SMTT(30), <1>1, BoundsAssumption
  <1> QED
    BY SMTT(30), <1>2, <1>3 DEF Buffered

\* A receive from the buffered channel takes one stage out of the buffer.
LEMMA Taken ==
  ASSUME TypeInv, PlaceInv, buffer # <<>>, buffer' = Tail(buffer)
  PROVE  /\ Head(buffer) \in Stages /\ Buffered(Head(buffer))
         /\ buffer' \in Seq(Stages) /\ Len(buffer') <= Buffer
         /\ Distinct(buffer')
         /\ \A u : Buffered(u)' <=> Buffered(u) /\ u # Head(buffer)
  <1>1. buffer \in Seq(Stages) /\ Distinct(buffer) /\ Len(buffer) <= Buffer
    BY DEF TypeInv, TypeOK, PlaceInv
  <1>2. /\ Head(buffer) \in Stages
        /\ buffer' \in Seq(Stages) /\ Len(buffer') = Len(buffer) - 1
        /\ Distinct(buffer')
        /\ \E i \in 1 .. Len(buffer) : buffer[i] = Head(buffer)
        /\ \A u : (\E i \in 1 .. Len(buffer') : buffer'[i] = u)
                     <=> (\E i \in 1 .. Len(buffer) : buffer[i] = u) /\ u # Head(buffer)
    BY <1>1, TailDistinct
  <1>3. Len(buffer) \in Nat /\ Buffer \in Nat
    BY SMTT(30), <1>1, BoundsAssumption
  <1> QED
    BY SMTT(30), <1>1, <1>2, <1>3 DEF Buffered

-----------------------------------------------------------------------------
\* What neither a stage nor a stream does.
Aside == Post \/ PeerJoins \/ SetInterest \/ CancelPeer \/ OnPeerGone \/ PublishPeers

\* Next, by whose step it is.
StageStep(t) ==
    \/ Dispatch(t) \/ ServeLocally(t) \/ (RecordPush(t) /\ t \in Local) \/ PushTask(t) \/ Enqueue(t)
    \/ TakeResult(t) \/ PeerGone(t) \/ Expire(t) \/ OwnerGone(t)
    \/ OnRouteTask(t) \/ OnRouteComplete(t)

StreamStep(s) ==
    \/ AddSubscriber(s) \/ Complete(s) \/ SetStreamReadiness(s) \/ Disconnect(s)
    \/ FanStep(s) \/ LoopStep(s)

\* The steps, by whether they are of a stage, of a stream or of neither.
LEMMA Cases ==
  ASSUME Next
  PROVE  Aside \/ (\E t \in Stages : StageStep(t)) \/ (\E s \in Streams : StreamStep(s))
  BY DEF Next, Environment, Dispatching, Aside, StageStep, StreamStep, Stages

-----------------------------------------------------------------------------
\* Types.

\* Leaving f.inflight takes no account below zero.
LEMMA LeaveTypes ==
  ASSUME TypeOK, NEW t \in Stages, Leave(t)
  PROVE  /\ inflight' \subseteq inflight
         /\ sentBy' \in [Stages -> Streams \cup {None}]
         /\ gateSub' \in [Stages -> Streams \cup {None}]
         /\ credit' \in [Streams -> Nat]
         /\ slots' \in [Streams -> 0 .. MaxInflight]
  <1> USE BoundsAssumption
  <1>1. \A n \in 0 .. MaxInflight : Less(n) \in 0 .. MaxInflight
    BY SMTT(30) DEF Less
  <1>2. \A n \in Nat : Less(n) \in Nat
    BY SMTT(30) DEF Less
  <1>3. slots \in [Streams -> 0 .. MaxInflight] /\ credit \in [Streams -> Nat]
        /\ sentBy \in [Stages -> Streams \cup {None}] /\ gateSub \in [Stages -> Streams \cup {None}]
    BY DEF TypeOK
  <1>4. \A g \in Streams \cup {None} : Release(slots, g) \in [Streams -> 0 .. MaxInflight]
    BY <1>1, <1>3 DEF Release
  <1>5. \A g \in Streams \cup {None} : Release(credit, g) \in [Streams -> Nat]
    BY <1>2, <1>3 DEF Release
  <1>6. gateSub[t] \in Streams \cup {None} /\ sentBy[t] \in Streams \cup {None}
    BY <1>3
  <1> QED
    BY ZenonT(60), <1>3, <1>4, <1>5, <1>6 DEF Leave, slotVars

\* Releasing a stage's credit and slot keeps the counters in their ranges.
LEMMA ReleaseTypes ==
  ASSUME TypeOK, NEW g \in Streams \cup {None}
  PROVE  /\ Release(credit, g) \in [Streams -> Nat]
         /\ Release(slots, g) \in [Streams -> 0 .. MaxInflight]
  <1>1. \A n \in 0 .. MaxInflight : Less(n) \in 0 .. MaxInflight
    BY SMTT(30), BoundsAssumption DEF Less
  <1>2. \A n \in Nat : Less(n) \in Nat
    BY SMTT(30) DEF Less
  <1>3. slots \in [Streams -> 0 .. MaxInflight] /\ credit \in [Streams -> Nat]
    BY DEF TypeOK
  <1> QED
    BY <1>1, <1>2, <1>3 DEF Release

\* A requeue, which waits for room in the buffer, keeps the buffer within its capacity.
LEMMA RequeueTypes ==
  ASSUME TypeOK, NEW t \in Stages, Requeue(t)
  PROVE  buffer' \in Seq(Stages) /\ Len(buffer') <= Buffer
  <1>1. buffer \in Seq(Stages) /\ Len(buffer) <= Buffer /\ Len(buffer) \in Nat /\ Buffer \in Nat
    BY SMTT(30), BoundsAssumption DEF TypeOK
  <1>2. Append(buffer, t) \in Seq(Stages) /\ Len(Append(buffer, t)) = Len(buffer) + 1
    BY SMTT(30), <1>1
  <1> QED
    BY SMTT(30), <1>1, <1>2 DEF Requeue

\* The steps of a stage's goroutine and of the mesh keep the types.
LEMMA TypeStages ==
  ASSUME TypeInv, NEW t \in Stages,
         StageStep(t)
  PROVE  TypeInv'
  <1> USE DEF TypeInv, stageVars, slotVars, streamVars, readyVars, meshVars
  <1>t. TypeOK
    OBVIOUS
  <1>0. \A q \in Seq(Stages) : Len(q) < Buffer =>
            Append(q, t) \in Seq(Stages) /\ Len(Append(q, t)) <= Buffer
    <2> TAKE q \in Seq(Stages)
    <2>1. Append(q, t) \in Seq(Stages) /\ Len(Append(q, t)) = Len(q) + 1 /\ Len(q) \in Nat
      BY SMTT(30)
    <2> QED
      BY SMTT(30), <2>1, BoundsAssumption
  <1>1. CASE Dispatch(t)
    BY <1>1 DEF Dispatch, TypeOK, Parks
  <1>2. CASE ServeLocally(t) \/ PushTask(t)
    BY ZenonT(60), <1>2 DEF ServeLocally, PushTask, TypeOK, Parks
  <1>3. CASE RecordPush(t) /\ t \in Local
    BY <1>3 DEF RecordPush, TypeOK, Parks
  <1>4. CASE Enqueue(t)
    BY <1>4, <1>0 DEF Enqueue, TypeOK, Parks
  <1>5. CASE TakeResult(t)
    <2>1. Leave(t)
      BY <1>5 DEF TakeResult, Return
    <2> QED
      BY <1>5, <1>t, <2>1, LeaveTypes DEF TakeResult, Return, TypeOK, Parks
  <1>6. CASE PeerGone(t) \/ Expire(t) \/ OwnerGone(t)
    <2>1. Leave(t)
      BY <1>6 DEF PeerGone, Expire, OwnerGone, Return
    <2> QED
      BY ZenonT(60), <1>6, <1>t, <2>1, LeaveTypes DEF PeerGone, Expire, OwnerGone, Return, TypeOK, Parks
  <1>7. CASE OnRouteTask(t)
    BY <1>7, <1>0 DEF OnRouteTask, TypeOK, Parks
  <1>8. CASE OnRouteComplete(t)
    <2>1. Leave(t)
      BY <1>8 DEF OnRouteComplete, Deliver
    <2> QED
      BY <1>8, <1>t, <2>1, LeaveTypes DEF OnRouteComplete, Deliver, TypeOK
  <1> QED
    BY <1>1, <1>2, <1>3, <1>4, <1>5, <1>6, <1>7, <1>8 DEF StageStep

\* The steps of a stream's goroutines keep the types.
LEMMA TypeStreams ==
  ASSUME TypeInv, NEW s \in Streams,
         StreamStep(s)
  PROVE  TypeInv'
  <1> USE DEF TypeInv, stageVars, slotVars, streamVars, readyVars, meshVars, At, Carrying
  <1>t. TypeOK
    OBVIOUS
  <1>r. \A t \in Stages : Requeue(t) => buffer' \in Seq(Stages) /\ Len(buffer') <= Buffer
    BY <1>t, RequeueTypes
  <1>1. CASE AddSubscriber(s)
    BY SMTT(30), <1>1 DEF AddSubscriber, TypeOK, Loops
  <1>2. ASSUME NEW t \in working[s], Deliver(t), working' = [working EXCEPT ![s] = @ \ {t}],
               UNCHANGED <<park, resultCh, buffer, loop, hand, fan, fanning, sent, readyVars, meshVars>>
        PROVE  TypeInv'
    <2>1. t \in Stages
      BY DEF TypeOK
    <2>2. Leave(t)
      BY <1>2 DEF Deliver
    <2> QED
      BY <1>2, <1>t, <2>1, <2>2, LeaveTypes DEF Deliver, TypeOK
  <1>3. CASE SetStreamReadiness(s)
    <2>1. Less(ready) \in Nat
      BY SMTT(30) DEF TypeOK, Less
    <2> QED
      BY SMTT(30), <1>3, <2>1 DEF SetStreamReadiness, TypeOK
  <1>4. CASE Disconnect(s)
    BY <1>4, <1>t, ReleaseTypes DEF Disconnect, TypeOK, Loops
  <1>5. CASE FanIn(s)
    <2>1. /\ Head(buffer) \in Stages /\ Tail(buffer) \in Seq(Stages)
          /\ Len(Tail(buffer)) = Len(buffer) - 1 /\ Len(buffer) \in Nat /\ Len(buffer) <= Buffer
      BY SMTT(30), <1>5 DEF FanIn, TypeOK
    <2>2. Len(Tail(buffer)) <= Buffer
      BY SMTT(30), <2>1, BoundsAssumption
    <2> QED
      BY <1>5, <2>1, <2>2 DEF FanIn, TypeOK
  <1>6. CASE FanOut(s)
    BY <1>6 DEF FanOut, TypeOK
  <1>7. CASE ForwardStopped(s)
    <2>1. fan[s] \in Stages
      BY <1>7 DEF ForwardStopped, TypeOK
    <2>2. buffer' \in Seq(Stages) /\ Len(buffer') <= Buffer
      BY <1>7, <1>r, <2>1 DEF ForwardStopped, TypeOK
    <2> QED
      BY <1>7, <2>2 DEF ForwardStopped, TypeOK
  <1>8. CASE Acquire(s)
    BY SMTT(30), <1>8, BoundsAssumption DEF Acquire, TypeOK, Loops
  <1>9. CASE TakeTask(s)
    BY <1>9 DEF TakeTask, TypeOK, Loops
  <1>10. CASE ReadyFor(s)
    BY <1>10 DEF ReadyFor, TypeOK, Loops
  <1>11. CASE Bounce(s)
    <2>1. buffer' \in Seq(Stages) /\ Len(buffer') <= Buffer
      BY <1>11, <1>r DEF Bounce
    <2> QED
      BY <1>11, <2>1 DEF Bounce, TypeOK, Loops
  <1>12. CASE AttributeToStream(s)
    <2>1. hand[s] \in Stages
      BY <1>12 DEF AttributeToStream
    <2>2. sentBy' \in [Stages -> Streams \cup {None}] /\ credit' \in [Streams -> Nat]
      <3>1. CASE sentBy' = [sentBy EXCEPT ![hand[s]] = s] /\ credit' = [credit EXCEPT ![s] = @ + 1]
        BY SMTT(30), <2>1, <3>1 DEF TypeOK
      <3>2. CASE sentBy' = sentBy /\ credit' = credit
        BY <3>2 DEF TypeOK
      <3> QED
        BY <1>12, <3>1, <3>2 DEF AttributeToStream
    <2>3. /\ loop' \in [Streams -> Loops] /\ hand' \in [Streams -> Stages \cup {None}]
          /\ \A x \in Streams : loop'[x] \in Carrying => hand'[x] \in Stages
      <3>1. CASE loop' = [loop EXCEPT ![s] = "slot"] /\ hand' = [hand EXCEPT ![s] = None]
        BY <3>1 DEF TypeOK, Loops
      <3>2. CASE loop' = [loop EXCEPT ![s] = "gate"] /\ hand' = hand
        BY <2>1, <3>2 DEF TypeOK, Loops
      <3> QED
        BY <1>12, <3>1, <3>2 DEF AttributeToStream
    <2> QED
      BY <1>12, <2>2, <2>3 DEF AttributeToStream, TypeOK
  <1>13. CASE ClaimGateSlot(s)
    BY <1>13 DEF ClaimGateSlot, TypeOK, Loops
  <1>14. CASE Send(s)
    BY ZenonT(60), <1>14 DEF Send, TypeOK, Loops
  <1>15. CASE Unattribute(s)
    <2>1. hand[s] \in Stages /\ sentBy[hand[s]] \in Streams \cup {None}
      BY <1>15 DEF Unattribute, TypeOK
    <2> QED
      BY ZenonT(60), <1>15, <1>t, <2>1, ReleaseTypes DEF Unattribute, TypeOK, Loops
  <1>16. CASE RequeueUnsent(s)
    <2>1. buffer' \in Seq(Stages) /\ Len(buffer') <= Buffer
      BY <1>16, <1>r DEF RequeueUnsent
    <2> QED
      BY <1>16, <2>1 DEF RequeueUnsent, TypeOK, Loops
  <1>17. CASE Abandon(s)
    BY SMTT(30), <1>17 DEF Abandon, TypeOK
  <1>18. CASE CloseStop(s)
    BY <1>18 DEF CloseStop, TypeOK, Loops
  <1>19. CASE RemoveSubscriber(s)
    <2>1. Less(ready) \in Nat
      BY SMTT(30) DEF TypeOK, Less
    <2> QED
      BY <1>19, <2>1 DEF RemoveSubscriber, TypeOK, Loops
  <1> QED
    BY <1>1, <1>2, <1>3, <1>4, <1>5, <1>6, <1>7, <1>8, <1>9, <1>10, <1>11, <1>12, <1>13, <1>14,
       <1>15, <1>16, <1>17, <1>18, <1>19 DEF StreamStep, Complete, FanStep, LoopStep

\* The steps of neither a stage nor a stream keep the types.
LEMMA TypeAside == ASSUME TypeInv, Aside PROVE TypeInv'
  <1> USE DEF TypeInv, stageVars, slotVars, streamVars, readyVars, meshVars
  <1>1. CASE Post
    BY <1>1 DEF Post, TypeOK
  <1>2. CASE PeerJoins \/ CancelPeer \/ PublishPeers
    BY <1>2 DEF PeerJoins, CancelPeer, PublishPeers, TypeOK
  <1>3. CASE SetInterest
    <2>1. serving' \in BOOLEAN
      BY <1>3, Zenon DEF SetInterest
    <2> QED
      BY <1>3, <2>1 DEF SetInterest, TypeOK
  <1>4. CASE OnPeerGone
    BY <1>4 DEF OnPeerGone, TypeOK
  <1> QED
    BY <1>1, <1>2, <1>3, <1>4 DEF Aside

\* Every step of the fan-out keeps the types.
LEMMA TypeStep == TypeInv /\ [Next]_vars => TypeInv'
  <1> SUFFICES ASSUME TypeInv, [Next]_vars PROVE TypeInv'
    OBVIOUS
  <1>1. ASSUME NEW t \in Stages, StageStep(t) PROVE TypeInv'
    BY <1>1, TypeStages
  <1>2. ASSUME NEW s \in Streams, StreamStep(s) PROVE TypeInv'
    BY <1>2, TypeStreams
  <1>3. CASE UNCHANGED vars
    BY <1>3 DEF vars, TypeInv, TypeOK, stageVars, slotVars, streamVars, readyVars, meshVars
  <1> QED
    BY <1>1, <1>2, <1>3, TypeAside, Cases

-----------------------------------------------------------------------------
\* Places.

\* All places a stage is in after the step are places it was in before.
Stays(t) ==
    /\ Early(t)' => Early(t)
    /\ Buffered(t)' => Buffered(t)
    /\ \A s \in Streams : /\ fan'[s] = t => fan[s] = t
                          /\ hand'[s] = t => hand[s] = t
                          /\ t \in working'[s] => t \in working[s]

\* A step that moves at most one stage, into one place, keeps PlaceInv.
LEMMA MoveKeeps ==
  ASSUME PlaceInv, Distinct(buffer)', NEW t,
         \A u \in Stages : u # t => Stays(u),
         t \in Stages => Single(t)' /\ (Early(t)' => Nowhere(t)')
  PROVE  PlaceInv'
  <1>1. ASSUME NEW u \in Stages, u # t PROVE Single(u)' /\ (Early(u)' => Nowhere(u)')
    <2>1. Stays(u) /\ Single(u) /\ (Early(u) => Nowhere(u))
      BY <1>1 DEF PlaceInv
    <2>2. Single(u)'
      BY <2>1 DEF Stays, Single
    <2>3. Early(u)' => Nowhere(u)'
      BY <2>1 DEF Stays, Nowhere
    <2> QED
      BY <2>2, <2>3
  <1> QED
    BY <1>1 DEF PlaceInv

\* The buffer after a requeue of a stage that is not in it.
LEMMA Requeued ==
  ASSUME TypeInv, PlaceInv, NEW t \in Stages, ~Buffered(t), Requeue(t)
  PROVE  Distinct(buffer)' /\ \A u : Buffered(u)' => Buffered(u) \/ u = t
  <1>1. CASE t \in inflight
    BY <1>1, Appended DEF Requeue
  <1>2. CASE t \notin inflight
    BY <1>2 DEF Requeue, PlaceInv, Buffered
  <1> QED
    BY <1>1, <1>2

\* The steps of a stage's goroutine: it enters the buffer once, from nowhere.
LEMMA PlaceStages ==
  ASSUME TypeInv, PlaceInv, NEW t \in Stages, StageStep(t)
  PROVE  PlaceInv'
  <1> USE DEF stageVars, slotVars, streamVars, readyVars, meshVars
  <1>p. park \in [Stages -> Parks]
    BY DEF TypeInv, TypeOK
  <1>1. ASSUME UNCHANGED <<buffer, streamVars>>,
               \A u \in Stages : Early(u)' => Early(u)
        PROVE  PlaceInv'
    <2>1. \A u \in Stages : Stays(u)
      BY <1>1 DEF Stays, Buffered
    <2>2. Distinct(buffer)'
      BY <1>1 DEF PlaceInv
    <2>3. None \notin Stages
      BY StagesAssumption DEF Stages
    <2> QED
      BY <2>1, <2>2, <2>3, MoveKeeps
  <1>2. ASSUME park[t] \in {"idle", "sending"}, park' = [park EXCEPT ![t] = "waiting"],
               UNCHANGED streamVars, Len(buffer) < Buffer, buffer' = Append(buffer, t)
        PROVE  PlaceInv'
    <2>1. Nowhere(t)
      BY <1>2 DEF PlaceInv, Early
    <2>2. Distinct(buffer)' /\ \A u : Buffered(u)' <=> Buffered(u) \/ u = t
      BY <1>2, <2>1, Appended DEF Nowhere
    <2>3. \A u \in Stages : u # t => Stays(u)
      BY <1>p, <1>2, <2>2 DEF Stays, Early
    <2>4. ~Early(t)'
      BY <1>p, <1>2 DEF Early
    <2>5. Single(t)'
      BY <1>2, <2>1, <2>2 DEF Nowhere, Single
    <2> QED
      BY <2>2, <2>3, <2>4, <2>5, MoveKeeps
  <1>3. CASE Dispatch(t)
    BY <1>p, <1>1, <1>3 DEF Dispatch, Early
  <1>4. CASE ServeLocally(t) \/ PushTask(t) \/ RecordPush(t)
    BY <1>p, <1>1, <1>4 DEF ServeLocally, PushTask, RecordPush, Early
  <1>5. CASE Enqueue(t)
    BY <1>2, <1>5 DEF Enqueue
  <1>6. CASE TakeResult(t) \/ PeerGone(t) \/ Expire(t) \/ OwnerGone(t)
    BY <1>p, <1>1, <1>6 DEF TakeResult, PeerGone, Expire, OwnerGone, Return, Early
  <1>7. CASE OnRouteTask(t)
    <2>1. CASE Len(buffer) < Buffer
      BY <1>2, <1>7, <2>1 DEF OnRouteTask
    <2>2. CASE ~(Len(buffer) < Buffer)
      BY <1>p, <1>1, <1>7, <2>2 DEF OnRouteTask, Early
    <2> QED
      BY <2>1, <2>2
  <1>8. CASE OnRouteComplete(t)
    BY <1>1, <1>8 DEF OnRouteComplete, Early
  <1> QED
    BY <1>3, <1>4, <1>5, <1>6, <1>7, <1>8 DEF StageStep

\* The steps of a stream move a stage on, or let it go.
LEMMA PlaceStreams ==
  ASSUME TypeInv, PlaceInv, NEW s \in Streams, StreamStep(s)
  PROVE  PlaceInv'
  <1> USE DEF stageVars, slotVars, streamVars, readyVars, meshVars, At
  <1>n. None \notin Stages
    BY StagesAssumption DEF Stages
  <1>f. fan \in [Streams -> Stages \cup {None}] /\ hand \in [Streams -> Stages \cup {None}]
        /\ working \in [Streams -> SUBSET Stages]
    BY DEF TypeInv, TypeOK
  <1>h. loop[s] \in Carrying => hand[s] \in Stages
    BY DEF TypeInv
  <1>d. Distinct(buffer)
    BY DEF PlaceInv
  <1>1. ASSUME park' = park, buffer' = buffer, fan' = fan, \A x \in Streams :
                  hand'[x] \in {hand[x], None} /\ working'[x] \subseteq working[x]
        PROVE  PlaceInv'
    <2>1. \A u \in Stages : Stays(u)
      BY <1>n, <1>1 DEF Stays, Buffered, Early
    <2> QED
      BY <1>1, <1>n, <1>d, <2>1, MoveKeeps
  <1>2. ASSUME park' = park, hand[s] \in Stages, Requeue(hand[s]),
               hand' = [hand EXCEPT ![s] = None], fan' = fan, working' = working
        PROVE  PlaceInv'
    <2>0. PICK t \in Stages : t = hand[s]
      BY <1>2
    <2>1. Single(t) /\ ~Early(t) /\ ~Buffered(t)
      BY <2>0 DEF PlaceInv, Nowhere, Single
    <2>2. Distinct(buffer)' /\ \A u : Buffered(u)' => Buffered(u) \/ u = t
      BY <1>2, <2>0, <2>1, Requeued
    <2>3. \A u \in Stages : u # t => Stays(u)
      BY <1>n, <1>f, <1>2, <2>0, <2>2 DEF Stays, Early
    <2>4. ~Early(t)'
      BY <1>2, <2>1 DEF Early
    <2>5. Single(t)'
      BY <1>n, <1>f, <1>2, <2>0, <2>1 DEF Single
    <2> QED
      BY <2>2, <2>3, <2>4, <2>5, MoveKeeps
  <1>3. CASE FanIn(s)
    <2>0. PICK t \in Stages : t = Head(buffer)
      BY <1>3, Taken DEF FanIn
    <2>1. /\ t \in Stages /\ Buffered(t) /\ Distinct(buffer)'
          /\ \A u : Buffered(u)' <=> Buffered(u) /\ u # t
      BY <1>3, <2>0, Taken DEF FanIn
    <2>2. Single(t) /\ ~Early(t)
      BY <2>1 DEF PlaceInv, Nowhere
    <2>3. \A u \in Stages : u # t => Stays(u)
      BY <1>3, <1>f, <2>0, <2>1 DEF FanIn, Stays, Early
    <2>4. ~Early(t)'
      BY <1>3, <2>2 DEF FanIn, Early
    <2>5. fan' = [fan EXCEPT ![s] = t] /\ hand' = hand /\ working' = working
      BY <1>3, <2>0 DEF FanIn
    <2>6. Single(t)'
      BY <1>f, <2>1, <2>2, <2>5 DEF Single
    <2> QED
      BY <2>1, <2>3, <2>4, <2>6, MoveKeeps
  <1>4. CASE ForwardStopped(s)
    <2>0. PICK t \in Stages : t = fan[s]
      BY <1>4, <1>f DEF ForwardStopped
    <2>1. t \in Stages /\ fan' = [fan EXCEPT ![s] = None] /\ UNCHANGED <<park, hand, working>>
          /\ (Requeue(t) \/ buffer' = buffer)
      BY <1>4, <1>f, <2>0 DEF ForwardStopped
    <2>2. Single(t) /\ ~Early(t) /\ ~Buffered(t)
      BY <2>0, <2>1 DEF PlaceInv, Nowhere, Single
    <2>3. Distinct(buffer)' /\ \A u : Buffered(u)' => Buffered(u) \/ u = t
      <3>1. CASE Requeue(t)
        BY <2>1, <2>2, <3>1, Requeued
      <3>2. CASE buffer' = buffer
        BY <1>d, <3>2 DEF Buffered
      <3> QED
        BY <2>1, <3>1, <3>2
    <2>4. \A u \in Stages : u # t => Stays(u)
      BY <1>n, <1>f, <2>0, <2>1, <2>3 DEF Stays, Early
    <2>5. ~Early(t)'
      BY <2>1, <2>2 DEF Early
    <2>6. Single(t)'
      BY <1>n, <1>f, <2>0, <2>1, <2>2 DEF Single
    <2> QED
      BY <2>1, <2>3, <2>4, <2>5, <2>6, MoveKeeps
  <1>5. CASE TakeTask(s)
    <2>0. PICK t \in Stages : t = fan[s]
      BY <1>5, <1>f DEF TakeTask
    <2>1. /\ t \in Stages /\ fan' = [fan EXCEPT ![s] = None] /\ hand' = [hand EXCEPT ![s] = t]
          /\ UNCHANGED <<park, buffer, working>>
      BY <1>5, <1>f, <2>0 DEF TakeTask
    <2>2. Single(t) /\ ~Early(t) /\ ~Buffered(t)
      BY <2>0, <2>1 DEF PlaceInv, Nowhere, Single
    <2>3. Distinct(buffer)' /\ \A u : Buffered(u)' <=> Buffered(u)
      BY <1>d, <2>1 DEF Buffered
    <2>4. \A u \in Stages : u # t => Stays(u)
      BY <1>n, <1>f, <2>0, <2>1, <2>3 DEF Stays, Early
    <2>5. ~Early(t)'
      BY <2>1, <2>2 DEF Early
    <2>6. Single(t)'
      BY <1>n, <1>f, <2>0, <2>1, <2>2, <2>3 DEF Single
    <2> QED
      BY <2>1, <2>3, <2>4, <2>5, <2>6, MoveKeeps
  <1>6. CASE Send(s)
    <2>0. PICK t \in Stages : t = hand[s]
      BY <1>6, <1>h DEF Send, Carrying
    <2>1. /\ t \in Stages /\ hand' = [hand EXCEPT ![s] = None]
          /\ working' = [working EXCEPT ![s] = working[s] \cup {t}]
          /\ UNCHANGED <<park, buffer, fan>>
      BY <1>6, <2>0 DEF Send
    <2>2. Single(t) /\ ~Early(t) /\ ~Buffered(t)
      BY <2>0, <2>1 DEF PlaceInv, Nowhere, Single
    <2>3. Distinct(buffer)' /\ \A u : Buffered(u)' <=> Buffered(u)
      BY <1>d, <2>1 DEF Buffered
    <2>4. \A u \in Stages : u # t => Stays(u)
      BY <1>n, <1>f, <2>0, <2>1, <2>3 DEF Stays, Early
    <2>5. ~Early(t)'
      BY <2>1, <2>2 DEF Early
    <2>6. Single(t)'
      BY ZenonT(60), <1>n, <1>f, <2>0, <2>1, <2>2, <2>3 DEF Single
    <2> QED
      BY <2>1, <2>3, <2>4, <2>5, <2>6, MoveKeeps
  <1>7. CASE Bounce(s) \/ RequeueUnsent(s)
    BY <1>2, <1>7, <1>h DEF Bounce, RequeueUnsent, Carrying
  <1>8. CASE AttributeToStream(s)
    BY <1>1, <1>8, <1>f DEF AttributeToStream
  <1>9. CASE Complete(s)
    BY <1>1, <1>9, <1>f DEF Complete
  <1>10. CASE AddSubscriber(s) \/ SetStreamReadiness(s) \/ Disconnect(s) \/ FanOut(s)
             \/ Acquire(s) \/ ReadyFor(s) \/ ClaimGateSlot(s) \/ Unattribute(s) \/ Abandon(s)
             \/ CloseStop(s) \/ RemoveSubscriber(s)
    BY <1>1, <1>10 DEF AddSubscriber, SetStreamReadiness, Disconnect, FanOut, Acquire, ReadyFor,
       ClaimGateSlot, Unattribute, Abandon, CloseStop, RemoveSubscriber
  <1> QED
    BY <1>3, <1>4, <1>5, <1>6, <1>7, <1>8, <1>9, <1>10 DEF StreamStep, FanStep, LoopStep

\* Every step of the fan-out keeps the places of the stages apart.
LEMMA PlaceStep == TypeInv /\ PlaceInv /\ [Next]_vars => PlaceInv'
  <1> SUFFICES ASSUME TypeInv, PlaceInv, [Next]_vars PROVE PlaceInv'
    OBVIOUS
  <1> USE DEF stageVars, slotVars, streamVars, readyVars, meshVars
  <1>1. CASE Aside \/ UNCHANGED vars
    <2>1. UNCHANGED <<park, buffer, fan, hand, working>>
      BY <1>1 DEF Aside, Post, PeerJoins, SetInterest, CancelPeer, OnPeerGone, PublishPeers, vars
    <2> QED
      BY SMTT(30), <2>1 DEF PlaceInv, Single, Nowhere, Buffered, Early
  <1> QED
    BY <1>1, PlaceStages, PlaceStreams, Cases

-----------------------------------------------------------------------------
\* Charges.

\* What leaving f.inflight does to the charges of the stages.
LEMMA LeaveCharges ==
  ASSUME TypeInv, NEW t \in Stages, Leave(t)
  PROVE  /\ inflight' = inflight \ {t}
         /\ \A u \in Stages : u # t => sentBy'[u] = sentBy[u] /\ gateSub'[u] = gateSub[u]
         /\ t \in inflight => sentBy'[t] = None /\ gateSub'[t] = None
         /\ t \notin inflight => sentBy' = sentBy /\ gateSub' = gateSub
  <1>1. sentBy \in [Stages -> Streams \cup {None}] /\ gateSub \in [Stages -> Streams \cup {None}]
    BY DEF TypeInv, TypeOK
  <1> QED
    BY <1>1 DEF Leave, slotVars

\* A stage that leaves takes its charges with it.
LEMMA ChargeLeaves ==
  ASSUME TypeInv, ChargeInv, NEW t \in Stages, Leave(t),
         UNCHANGED <<buffer, fan, hand, loop>>,
         \A u \in Stages : park'[u] = park[u] \/ (u = t /\ park'[u] = "returned"),
         \A u \in Stages, s \in Streams :
            IF u = t THEN u \in working'[s] => u \in working[s]
            ELSE u \in working'[s] <=> u \in working[s]
  PROVE  ChargeInv'
  <1>1. /\ inflight' = inflight \ {t}
        /\ \A u \in Stages : u # t => sentBy'[u] = sentBy[u] /\ gateSub'[u] = gateSub[u]
        /\ t \in inflight => sentBy'[t] = None /\ gateSub'[t] = None
        /\ t \notin inflight => sentBy' = sentBy /\ gateSub' = gateSub
    BY LeaveCharges
  <1>2. None \notin Streams /\ inflight \subseteq Stages
    BY StagesAssumption DEF TypeInv, TypeOK
  <1>3. sentBy \in [Stages -> Streams \cup {None}]
    BY DEF TypeInv, TypeOK
  <1>4. sentBy'[t] = None
    BY SMTT(30), <1>1, <1>3 DEF ChargeInv
  <1>5. \A u \in Stages : gateSub'[u] \in {gateSub[u], None} /\ sentBy'[u] \in {sentBy[u], None}
    BY <1>1, <1>4
  <1>6. \A u \in Stages : Early(u)' => sentBy'[u] = None /\ gateSub'[u] = None
    BY <1>5 DEF ChargeInv, Early
  <1>7. \A u \in Stages : park'[u] \in {"absent", "idle"} => u \notin inflight'
    BY <1>1 DEF ChargeInv
  <1>8. \A u \in Stages, s \in Streams : sentBy'[u] = s =>
          /\ u \in inflight'
          /\ (hand'[s] = u /\ loop'[s] \in {"gate", "send"}) \/ u \in working'[s]
    BY SMTT(30), <1>1, <1>2, <1>4 DEF ChargeInv
  <1>9. \A u \in inflight', s \in Streams :
          u \in working'[s] \/ (hand'[s] = u /\ loop'[s] = "send") => gateSub'[u] = s
    BY SMTT(30), <1>1, <1>2 DEF ChargeInv
  <1>10. \A u \in Stages, s \in Streams : gateSub'[u] = s /\ ~Dead(s)' =>
          /\ ~Buffered(u)'
          /\ \A x \in Streams : fan'[x] # u /\ (hand'[x] = u => x = s /\ loop'[s] = "send")
    BY SMTT(30), <1>2, <1>5 DEF ChargeInv, Dead, Buffered
  <1> QED
    BY <1>6, <1>7, <1>8, <1>9, <1>10 DEF ChargeInv

\* The steps of a stage's goroutine.
LEMMA ChargeStages ==
  ASSUME TypeInv, PlaceInv, ChargeInv, NEW t \in Stages, StageStep(t)
  PROVE  ChargeInv'
  <1> USE DEF stageVars, slotVars, streamVars, readyVars, meshVars
  <1>p. park \in [Stages -> Parks] /\ inflight \subseteq Stages
    BY DEF TypeInv, TypeOK
  <1>s. None \notin Streams
    BY StagesAssumption
  <1>1. ASSUME UNCHANGED <<sentBy, gateSub, streamVars>>,
               inflight' \in {inflight, inflight \cup {t}},
               t \in inflight' \ inflight => park[t] = "idle",
               Early(t) \/ inflight' = inflight,
               park'[t] \notin {"absent", "idle"},
               Early(t)' => Early(t),
               \A u \in Stages : u # t => park'[u] = park[u],
               \A u \in Stages : Buffered(u)' => Buffered(u) \/ (u = t /\ Early(t))
        PROVE  ChargeInv'
    <2>1. Early(t) => Nowhere(t) /\ sentBy[t] = None /\ gateSub[t] = None
      BY DEF PlaceInv, ChargeInv
    <2>2. \A u \in Stages : Early(u)' => Early(u)
      BY <1>1 DEF Early
    <2>3. \A u \in Stages : park'[u] \in {"absent", "idle"} => u \notin inflight'
      BY SMTT(30), <1>1 DEF ChargeInv
    <2>4. \A u \in inflight', s \in Streams :
            u \in working'[s] \/ (hand'[s] = u /\ loop'[s] = "send") => gateSub'[u] = s
      BY SMTT(30), <1>1, <2>1 DEF ChargeInv, Nowhere
    <2>5. \A u \in Stages, s \in Streams : gateSub'[u] = s /\ ~Dead(s)' =>
            /\ ~Buffered(u)'
            /\ \A x \in Streams : fan'[x] # u /\ (hand'[x] = u => x = s /\ loop'[s] = "send")
      BY SMTT(30), <1>s, <1>1, <2>1 DEF ChargeInv, Dead
    <2>6. \A u \in Stages, s \in Streams : sentBy'[u] = s =>
            /\ u \in inflight'
            /\ (hand'[s] = u /\ loop'[s] \in {"gate", "send"}) \/ u \in working'[s]
      BY <1>1 DEF ChargeInv
    <2>7. \A u \in Stages : Early(u)' => sentBy'[u] = None /\ gateSub'[u] = None
      BY <1>1, <2>2 DEF ChargeInv
    <2> QED
      BY <2>3, <2>4, <2>5, <2>6, <2>7 DEF ChargeInv
  <1>2. CASE Dispatch(t)
    BY <1>p, <1>1, <1>2 DEF Dispatch, Early, Buffered
  <1>3. CASE ServeLocally(t) \/ PushTask(t) \/ RecordPush(t)
    BY <1>p, <1>1, <1>3 DEF ServeLocally, PushTask, RecordPush, Early, Buffered
  <1>4. ASSUME Early(t), Len(buffer) < Buffer, buffer' = Append(buffer, t)
        PROVE  \A u : Buffered(u)' <=> Buffered(u) \/ u = t
    BY <1>4, Appended DEF PlaceInv, Nowhere
  <1>5. CASE Enqueue(t)
    BY <1>p, <1>1, <1>4, <1>5 DEF Enqueue, Early
  <1>6. CASE OnRouteTask(t)
    <2>1. CASE Len(buffer) < Buffer
      BY <1>p, <1>1, <1>4, <1>6, <2>1 DEF OnRouteTask, Early
    <2>2. CASE ~(Len(buffer) < Buffer)
      BY <1>p, <1>1, <1>6, <2>2 DEF OnRouteTask, Early, Buffered
    <2> QED
      BY <2>1, <2>2
  <1>7. CASE TakeResult(t) \/ PeerGone(t) \/ Expire(t) \/ OwnerGone(t)
    BY <1>p, <1>7, ChargeLeaves DEF TakeResult, PeerGone, Expire, OwnerGone, Return
  <1>8. CASE OnRouteComplete(t)
    BY <1>8, ChargeLeaves DEF OnRouteComplete, Deliver
  <1> QED
    BY <1>2, <1>3, <1>5, <1>6, <1>7, <1>8 DEF StageStep

\* The steps of a stream: a stage is attributed and charged on its way to the worker.
LEMMA ChargeStreams ==
  ASSUME TypeInv, PlaceInv, ChargeInv, NEW s \in Streams, StreamStep(s)
  PROVE  ChargeInv'
  <1> USE DEF stageVars, slotVars, streamVars, readyVars, meshVars, At
  <1>n. None \notin Stages /\ None \notin Streams
    BY StagesAssumption DEF Stages
  <1>f. /\ fan \in [Streams -> Stages \cup {None}] /\ hand \in [Streams -> Stages \cup {None}]
        /\ working \in [Streams -> SUBSET Stages] /\ loop \in [Streams -> Loops]
        /\ sentBy \in [Stages -> Streams \cup {None}] /\ gateSub \in [Stages -> Streams \cup {None}]
        /\ inflight \subseteq Stages
    BY DEF TypeInv, TypeOK
  <1>h. loop[s] \in Carrying => hand[s] \in Stages
    BY DEF TypeInv
  \* the loop goes on without a stage being attributed, charged or sent
  <1>1. ASSUME UNCHANGED <<park, inflight, sentBy, gateSub, working>>,
               loop[s] \notin {"gate", "send"},
               \E l : loop' = [loop EXCEPT ![s] = l] /\ l \notin {"gate", "send"}
                      /\ (Dead(s) => l \in {"unsent", "abandon", "leave", "ended"}),
               \A u \in Stages : Buffered(u)' => Buffered(u) \/ fan[s] = u \/ hand[s] = u,
               \A u \in Stages, x \in Streams : fan'[x] = u => fan[x] = u \/ Buffered(u),
               \A u \in Stages, x \in Streams : x # s => hand'[x] = hand[x],
               \A u \in Stages : hand'[s] = u => hand[s] = u \/ fan[s] = u
        PROVE  ChargeInv'
    <2>0. PICK l : /\ loop' = [loop EXCEPT ![s] = l] /\ l \notin {"gate", "send"}
                   /\ Dead(s) => l \in {"unsent", "abandon", "leave", "ended"}
      BY <1>1
    <2>1. \A x \in Streams : Dead(x) => Dead(x)'
      BY <1>f, <2>0 DEF Dead
    <2>2. \A x \in Streams : x # s => loop'[x] = loop[x]
      BY <1>f, <2>0
    <2>3. loop'[s] \notin {"gate", "send"}
      BY <1>f, <2>0
    <2>4. \A u \in Stages, x \in Streams : sentBy'[u] = x =>
            /\ u \in inflight'
            /\ (hand'[x] = u /\ loop'[x] \in {"gate", "send"}) \/ u \in working'[x]
      BY ZenonT(60), <1>1, <2>2 DEF ChargeInv
    <2>5. \A u \in inflight', x \in Streams :
            u \in working'[x] \/ (hand'[x] = u /\ loop'[x] = "send") => gateSub'[u] = x
      BY SMTT(30), <1>f, <1>1, <2>2, <2>3 DEF ChargeInv
    <2>6. ASSUME NEW u \in Stages, NEW y \in Streams, gateSub'[u] = y, ~Dead(y)'
          PROVE  /\ ~Buffered(u)'
                 /\ \A x \in Streams : /\ fan'[x] # u
                                       /\ hand'[x] = u => x = y /\ loop'[y] = "send"
      <3>1. gateSub[u] = y /\ ~Dead(y)
        BY <1>1, <2>1, <2>6
      <3>2. /\ ~Buffered(u)
            /\ \A x \in Streams : fan[x] # u /\ (hand[x] = u => x = y /\ loop[y] = "send")
        BY ZenonT(60), <3>1 DEF ChargeInv
      <3>3. hand[s] # u
        BY <1>1, <3>2
      <3> QED
        BY <1>1, <2>2, <3>2, <3>3
    <2>7. \A u \in Stages : Early(u)' => sentBy'[u] = None /\ gateSub'[u] = None
      BY <1>1 DEF ChargeInv, Early
    <2>8. \A u \in Stages : park'[u] \in {"absent", "idle"} => u \notin inflight'
      BY <1>1 DEF ChargeInv
    <2> QED
      BY <2>4, <2>5, <2>6, <2>7, <2>8 DEF ChargeInv
  <1>2. CASE AddSubscriber(s) \/ Acquire(s) \/ ReadyFor(s) \/ Disconnect(s) \/ CloseStop(s)
             \/ RemoveSubscriber(s)
    BY ZenonT(60), <1>1, <1>2 DEF AddSubscriber, Acquire, ReadyFor, Disconnect, CloseStop, RemoveSubscriber,
       Dead, Buffered
  <1>3. CASE TakeTask(s)
    <2>1. /\ UNCHANGED <<park, inflight, sentBy, gateSub, working, buffer>>
          /\ loop[s] = "slot" /\ loop' = [loop EXCEPT ![s] = "guard"]
          /\ hand' = [hand EXCEPT ![s] = fan[s]] /\ fan' = [fan EXCEPT ![s] = None]
      BY <1>3 DEF TakeTask
    <2>2. ~Dead(s) /\ \A u \in Stages : Buffered(u)' <=> Buffered(u)
      BY <2>1 DEF Dead, Buffered
    <2>3. /\ \A u \in Stages, x \in Streams : fan'[x] = u => fan[x] = u
          /\ \A x \in Streams : x # s => hand'[x] = hand[x]
          /\ hand'[s] = fan[s]
      BY <1>f, <1>n, <2>1
    <2> QED
      BY <1>1, <2>1, <2>2, <2>3
  <1>4. ASSUME NEW t \in Stages, ~Buffered(t), Requeue(t)
        PROVE  \A u : Buffered(u)' => Buffered(u) \/ u = t
    BY <1>4, Requeued
  <1>5. CASE Bounce(s) \/ RequeueUnsent(s)
    <2>1. hand[s] \in Stages /\ ~Buffered(hand[s])
      BY <1>5, <1>h DEF Bounce, RequeueUnsent, Carrying, PlaceInv, Single
    <2>2. \A u : Buffered(u)' => Buffered(u) \/ u = hand[s]
      BY <1>4, <1>5, <2>1 DEF Bounce, RequeueUnsent
    <2> QED
      BY <1>f, <1>n, <1>1, <1>5, <2>2 DEF Bounce, RequeueUnsent, Dead
  <1>6. ASSUME UNCHANGED <<park, inflight, sentBy, gateSub, working, loop, hand>>,
               \A u \in Stages : Buffered(u)' => Buffered(u) \/ fan[s] = u,
               \A u \in Stages, x \in Streams : fan'[x] = u => fan[x] = u \/ Buffered(u)
        PROVE  ChargeInv'
    BY SMTT(30), <1>6 DEF ChargeInv, Early, Dead
  <1>7. CASE FanIn(s)
    <2>1. Buffered(Head(buffer)) /\ \A u : Buffered(u)' <=> Buffered(u) /\ u # Head(buffer)
      BY <1>7, Taken DEF FanIn
    <2> QED
      BY <1>f, <1>6, <1>7, <2>1 DEF FanIn
  <1>8. CASE ForwardStopped(s)
    <2>1. fan[s] \in Stages /\ ~Buffered(fan[s])
      BY <1>8, <1>f DEF ForwardStopped, PlaceInv, Single
    <2>2. \A u : Buffered(u)' => Buffered(u) \/ u = fan[s]
      <3>1. CASE Requeue(fan[s])
        BY <1>4, <2>1, <3>1
      <3>2. CASE buffer' = buffer
        BY <3>2 DEF Buffered
      <3> QED
        BY <1>8, <3>1, <3>2 DEF ForwardStopped
    <2> QED
      BY <1>f, <1>n, <1>6, <1>8, <2>2 DEF ForwardStopped
  <1>9. CASE FanOut(s) \/ SetStreamReadiness(s) \/ Abandon(s)
    BY <1>6, <1>9 DEF FanOut, SetStreamReadiness, Abandon, Buffered
  <1>10. ASSUME NEW t \in working[s], Deliver(t), working' = [working EXCEPT ![s] = @ \ {t}],
                UNCHANGED <<park, resultCh, buffer, loop, hand, fan, fanning, sent, readyVars, meshVars>>
         PROVE  ChargeInv'
    <2>1. t \in Stages /\ Leave(t)
      BY <1>10, <1>f DEF Deliver
    <2>2. \A u \in Stages, x \in Streams :
            IF u = t THEN u \in working'[x] => u \in working[x]
            ELSE u \in working'[x] <=> u \in working[x]
      BY <1>10, <1>f
    <2> QED
      BY <1>10, <2>1, <2>2, ChargeLeaves
  \* what the loop does with the stage in hand once it is past readyFor
  <1>11. ASSUME NEW t \in Stages, t = hand[s], loop[s] \in Carrying
         PROVE  ~Early(t) /\ Single(t) /\ ~Buffered(t)
    BY <1>11 DEF PlaceInv, Nowhere, Single
  <1>12. CASE AttributeToStream(s)
    <2>0. PICK t \in Stages : t = hand[s]
      BY <1>12, <1>h DEF AttributeToStream, Carrying
    <2>1. loop[s] = "attribute" /\ ~Early(t) /\ Single(t) /\ ~Buffered(t)
      BY <1>12, <1>11, <2>0 DEF AttributeToStream, Carrying
    <2>2. CASE t \in Local /\ t \notin inflight
      BY SMTT(30), <1>f, <1>n, <1>1, <1>12, <2>0, <2>1, <2>2 DEF AttributeToStream, Dead, Buffered
    <2>3. CASE ~(t \in Local /\ t \notin inflight)
      <3>1. /\ UNCHANGED <<park, inflight, gateSub, buffer, fan, hand, working>>
            /\ loop' = [loop EXCEPT ![s] = "gate"]
            /\ \/ sentBy' = sentBy
               \/ t \in inflight /\ sentBy' = [sentBy EXCEPT ![t] = s]
        BY <1>12, <2>0, <2>3 DEF AttributeToStream
      <3>2. \A u \in Stages, x \in Streams : sentBy'[u] = x =>
              /\ u \in inflight'
              /\ (hand'[x] = u /\ loop'[x] \in {"gate", "send"}) \/ u \in working'[x]
        BY SMTT(30), <1>f, <2>0, <2>1, <3>1 DEF ChargeInv
      <3>3. \A u \in inflight', x \in Streams :
              u \in working'[x] \/ (hand'[x] = u /\ loop'[x] = "send") => gateSub'[u] = x
        BY <1>f, <3>1 DEF ChargeInv
      <3>4. \A u \in Stages, y \in Streams : gateSub'[u] = y /\ ~Dead(y)' =>
              /\ ~Buffered(u)'
              /\ \A x \in Streams : fan'[x] # u /\ (hand'[x] = u => x = y /\ loop'[y] = "send")
        BY SMTT(30), <1>f, <2>1, <3>1 DEF ChargeInv, Dead, Buffered
      <3>5. \A u \in Stages : Early(u)' => sentBy'[u] = None /\ gateSub'[u] = None
        BY SMTT(30), <1>f, <2>1, <3>1 DEF ChargeInv, Early
      <3>6. \A u \in Stages : park'[u] \in {"absent", "idle"} => u \notin inflight'
        BY <3>1 DEF ChargeInv
      <3> QED
        BY <3>2, <3>3, <3>4, <3>5, <3>6 DEF ChargeInv
    <2> QED
      BY <2>2, <2>3
  <1>13. CASE ClaimGateSlot(s)
    <2>0. PICK t \in Stages : t = hand[s]
      BY <1>13, <1>h DEF ClaimGateSlot, Carrying
    <2>1. loop[s] = "gate" /\ ~Early(t) /\ Single(t) /\ ~Buffered(t)
      BY <1>13, <1>11, <2>0 DEF ClaimGateSlot, Carrying
    <2>2. /\ UNCHANGED <<park, inflight, sentBy, buffer, fan, hand, working>>
          /\ loop' = [loop EXCEPT ![s] = "send"]
          /\ gateSub' = [gateSub EXCEPT ![t] = s]
      BY <1>13, <2>0 DEF ClaimGateSlot
    <2>3. \A u \in Stages, x \in Streams : sentBy'[u] = x =>
            /\ u \in inflight'
            /\ (hand'[x] = u /\ loop'[x] \in {"gate", "send"}) \/ u \in working'[x]
      BY SMTT(30), <1>f, <2>2 DEF ChargeInv
    <2>4. \A u \in inflight', x \in Streams :
            u \in working'[x] \/ (hand'[x] = u /\ loop'[x] = "send") => gateSub'[u] = x
      BY SMTT(30), <1>f, <2>0, <2>1, <2>2 DEF ChargeInv, Single
    <2>5. \A u \in Stages, y \in Streams : gateSub'[u] = y /\ ~Dead(y)' =>
            /\ ~Buffered(u)'
            /\ \A x \in Streams : fan'[x] # u /\ (hand'[x] = u => x = y /\ loop'[y] = "send")
      <3> SUFFICES ASSUME NEW u \in Stages, NEW y \in Streams, gateSub'[u] = y, ~Dead(y)'
                   PROVE  /\ ~Buffered(u)'
                          /\ \A x \in Streams : fan'[x] # u /\ (hand'[x] = u => x = y /\ loop'[y] = "send")
        OBVIOUS
      <3>1. CASE u = t
        <4>1. y = s /\ loop'[s] = "send"
          BY <1>f, <2>2, <3>1
        <4> QED
          BY <2>0, <2>1, <2>2, <3>1, <4>1 DEF Single, Buffered
      <3>2. CASE u # t
        <4>1. gateSub[u] = y /\ ~Dead(y)
          BY <1>f, <2>1, <2>2, <3>2 DEF Dead
        <4> QED
          BY SMTT(30), <1>f, <2>0, <2>1, <2>2, <3>2, <4>1 DEF ChargeInv, Buffered
      <3> QED
        BY <3>1, <3>2
    <2>6. \A u \in Stages : Early(u)' => sentBy'[u] = None /\ gateSub'[u] = None
      BY ZenonT(60), <1>f, <2>1, <2>2 DEF ChargeInv, Early
    <2>7. \A u \in Stages : park'[u] \in {"absent", "idle"} => u \notin inflight'
      BY <2>2 DEF ChargeInv
    <2> QED
      BY <2>3, <2>4, <2>5, <2>6, <2>7 DEF ChargeInv
  <1>14. CASE Send(s)
    <2>0. PICK t \in Stages : t = hand[s]
      BY <1>14, <1>h DEF Send, Carrying
    <2>1. loop[s] = "send" /\ ~Early(t) /\ Single(t) /\ ~Buffered(t)
      BY <1>14, <1>11, <2>0 DEF Send, Carrying
    <2>2. /\ UNCHANGED <<park, inflight, sentBy, gateSub, buffer, fan>>
          /\ loop' = [loop EXCEPT ![s] = "free"]
          /\ hand' = [hand EXCEPT ![s] = None]
          /\ working' = [working EXCEPT ![s] = working[s] \cup {t}]
      BY <1>14, <2>0 DEF Send
    <2>3. \A u \in Stages, x \in Streams : sentBy'[u] = x =>
            /\ u \in inflight'
            /\ (hand'[x] = u /\ loop'[x] \in {"gate", "send"}) \/ u \in working'[x]
      BY SMTT(30), <1>f, <2>0, <2>2 DEF ChargeInv
    <2>4. \A u \in inflight', x \in Streams :
            u \in working'[x] \/ (hand'[x] = u /\ loop'[x] = "send") => gateSub'[u] = x
      BY <1>f, <2>0, <2>1, <2>2 DEF ChargeInv
    <2>5. \A u \in Stages, y \in Streams : gateSub'[u] = y /\ ~Dead(y)' =>
            /\ ~Buffered(u)'
            /\ \A x \in Streams : fan'[x] # u /\ (hand'[x] = u => x = y /\ loop'[y] = "send")
      BY SMTT(30), <1>f, <1>n, <2>0, <2>1, <2>2 DEF ChargeInv, Dead, Buffered
    <2>6. \A u \in Stages : Early(u)' => sentBy'[u] = None /\ gateSub'[u] = None
      BY <2>2 DEF ChargeInv, Early
    <2>7. \A u \in Stages : park'[u] \in {"absent", "idle"} => u \notin inflight'
      BY <2>2 DEF ChargeInv
    <2> QED
      BY <2>3, <2>4, <2>5, <2>6, <2>7 DEF ChargeInv
  <1>15. CASE Unattribute(s)
    <2>0. PICK t \in Stages : t = hand[s]
      BY <1>15, <1>h DEF Unattribute, Carrying
    <2>1. loop[s] = "send"
      BY <1>15 DEF Unattribute
    <2>2. /\ UNCHANGED <<park, inflight, gateSub, buffer, fan, hand, working>>
          /\ loop' = [loop EXCEPT ![s] = "unsent"]
          /\ sentBy' = [sentBy EXCEPT ![t] = None]
      BY <1>15, <2>0 DEF Unattribute
    <2>3. \A u \in Stages, x \in Streams : sentBy'[u] = x =>
            /\ u \in inflight'
            /\ (hand'[x] = u /\ loop'[x] \in {"gate", "send"}) \/ u \in working'[x]
      BY SMTT(30), <1>f, <1>n, <2>0, <2>2 DEF ChargeInv
    <2>4. \A u \in inflight', x \in Streams :
            u \in working'[x] \/ (hand'[x] = u /\ loop'[x] = "send") => gateSub'[u] = x
      BY <1>f, <2>2 DEF ChargeInv
    <2>5. \A u \in Stages, y \in Streams : gateSub'[u] = y /\ ~Dead(y)' =>
            /\ ~Buffered(u)'
            /\ \A x \in Streams : fan'[x] # u /\ (hand'[x] = u => x = y /\ loop'[y] = "send")
      BY SMTT(30), <1>f, <2>1, <2>2 DEF ChargeInv, Dead, Buffered
    <2>6. \A u \in Stages : Early(u)' => sentBy'[u] = None /\ gateSub'[u] = None
      BY ZenonT(60), <1>f, <2>2 DEF ChargeInv, Early
    <2>7. \A u \in Stages : park'[u] \in {"absent", "idle"} => u \notin inflight'
      BY <2>2 DEF ChargeInv
    <2> QED
      BY <2>3, <2>4, <2>5, <2>6, <2>7 DEF ChargeInv
  <1> QED
    BY <1>2, <1>3, <1>5, <1>7, <1>8, <1>9, <1>10, <1>12, <1>13, <1>14, <1>15
       DEF StreamStep, FanStep, LoopStep, Complete

\* Every step of the fan-out keeps each charge with the stage it is for.
LEMMA ChargeStep == TypeInv /\ PlaceInv /\ ChargeInv /\ [Next]_vars => ChargeInv'
  <1> SUFFICES ASSUME TypeInv, PlaceInv, ChargeInv, [Next]_vars PROVE ChargeInv'
    OBVIOUS
  <1> USE DEF stageVars, slotVars, streamVars, readyVars, meshVars
  <1>1. CASE Aside \/ UNCHANGED vars
    <2>1. UNCHANGED <<park, buffer, fan, hand, working, inflight, sentBy, gateSub, loop>>
      BY <1>1 DEF Aside, Post, PeerJoins, SetInterest, CancelPeer, OnPeerGone, PublishPeers, vars
    <2> QED
      BY SMTT(30), <2>1 DEF ChargeInv, Early, Buffered, Dead
  <1> QED
    BY <1>1, ChargeStages, ChargeStreams, Cases

-----------------------------------------------------------------------------
\* The credit and the slots count the stages attributed and charged to a stream.

\* The size of a finite set without one of its elements.
LEMMA Shrunk ==
  ASSUME NEW S, IsFiniteSet(S), NEW e \in S
  PROVE  /\ Cardinality(S) \in Nat /\ Cardinality(S) > 0
         /\ Cardinality(S \ {e}) = Cardinality(S) - 1
  <1>1. IsFiniteSet(S \ {e}) /\ Cardinality(S \ {e}) = Cardinality(S) - 1
    BY FS_RemoveElement
  <1>2. Cardinality(S) \in Nat /\ Cardinality(S \ {e}) \in Nat
    BY <1>1, FS_CardinalityType
  <1> QED
    BY SMTT(30), <1>1, <1>2

\* The size of a finite set with one more element.
LEMMA Grown ==
  ASSUME NEW S, IsFiniteSet(S), NEW e, e \notin S
  PROVE  Cardinality(S) \in Nat /\ Cardinality(S \cup {e}) = Cardinality(S) + 1
  BY FS_AddElement, FS_CardinalityType

\* One stage goes from a stream, or none, to another.
LEMMA Moved ==
  ASSUME NEW f, NEW f2, NEW t \in Stages, NEW s \in Streams,
         \A u \in Stages : u # t => f2[u] = f[u]
  PROVE  /\ Cardinality(Of(f, s)) \in Nat
         /\ f[t] = s => Cardinality(Of(f, s)) > 0
         /\ f[t] = s /\ f2[t] # s => Cardinality(Of(f2, s)) = Cardinality(Of(f, s)) - 1
         /\ f[t] # s /\ f2[t] = s => Cardinality(Of(f2, s)) = Cardinality(Of(f, s)) + 1
         /\ ((f[t] = s) <=> (f2[t] = s)) => Cardinality(Of(f2, s)) = Cardinality(Of(f, s))
  <1>1. IsFiniteSet(Stages) /\ Of(f, s) \subseteq Stages
    BY StagesAssumption DEF Stages, Of
  <1>2. IsFiniteSet(Of(f, s))
    BY <1>1, FS_Subset
  <1>3. Cardinality(Of(f, s)) \in Nat
    BY <1>2, FS_CardinalityType
  <1>4. f[t] = s => Cardinality(Of(f, s)) > 0
    <2>1. f[t] = s => t \in Of(f, s)
      BY DEF Of
    <2> QED
      BY <1>2, <2>1, Shrunk
  <1>5. CASE f[t] = s /\ f2[t] # s
    <2>1. t \in Of(f, s) /\ Of(f2, s) = Of(f, s) \ {t}
      BY <1>5 DEF Of
    <2> QED
      BY <1>2, <1>3, <1>4, <1>5, <2>1, Shrunk
  <1>6. CASE f[t] # s /\ f2[t] = s
    <2>1. t \notin Of(f, s) /\ Of(f2, s) = Of(f, s) \cup {t}
      BY <1>6 DEF Of
    <2> QED
      BY <1>2, <1>3, <1>6, <2>1, Grown
  <1>7. CASE (f[t] = s) <=> (f2[t] = s)
    <2>1. Of(f2, s) = Of(f, s)
      BY <1>7 DEF Of
    <2> QED
      BY <1>3, <1>4, <1>7, <2>1
  <1> QED
    BY <1>5, <1>6, <1>7

\* How the number of stages sent on a stream follows a change of one stage's stream.
LEMMA SentMoved ==
  ASSUME NEW t \in Stages, NEW s \in Streams, \A u \in Stages : u # t => sentBy'[u] = sentBy[u]
  PROVE  /\ Cardinality(Of(sentBy, s)) \in Nat
         /\ sentBy[t] = s => Cardinality(Of(sentBy, s)) > 0
         /\ sentBy[t] = s /\ sentBy'[t] # s => Cardinality(Of(sentBy', s)) = Cardinality(Of(sentBy, s)) - 1
         /\ sentBy[t] # s /\ sentBy'[t] = s => Cardinality(Of(sentBy', s)) = Cardinality(Of(sentBy, s)) + 1
         /\ ((sentBy[t] = s) <=> (sentBy'[t] = s)) => Cardinality(Of(sentBy', s)) = Cardinality(Of(sentBy, s))
  BY Moved

\* How the number of stages charged to a stream follows a change of one stage's
\* charge.
LEMMA ChargedMoved ==
  ASSUME NEW t \in Stages, NEW s \in Streams, \A u \in Stages : u # t => gateSub'[u] = gateSub[u]
  PROVE  /\ Cardinality(Of(gateSub, s)) \in Nat
         /\ gateSub[t] = s => Cardinality(Of(gateSub, s)) > 0
         /\ gateSub[t] = s /\ gateSub'[t] # s => Cardinality(Of(gateSub', s)) = Cardinality(Of(gateSub, s)) - 1
         /\ gateSub[t] # s /\ gateSub'[t] = s => Cardinality(Of(gateSub', s)) = Cardinality(Of(gateSub, s)) + 1
         /\ ((gateSub[t] = s) <=> (gateSub'[t] = s)) => Cardinality(Of(gateSub', s)) = Cardinality(Of(gateSub, s))
  BY Moved

\* A stage is attributed only while it is in flight.
LEMMA CreditOf ==
  ASSUME TypeInv, ChargeInv
  PROVE  CreditExact <=> \A s \in Streams : credit[s] = Cardinality(Of(sentBy, s))
  <1>1. \A s \in Streams : {t \in inflight : sentBy[t] = s} = Of(sentBy, s)
    BY DEF TypeInv, TypeOK, ChargeInv, Of
  <1> QED
    BY <1>1 DEF CreditExact

\* The credit of the stream a stage leaves goes down by one, and no other.
LEMMA CreditReleased ==
  ASSUME TypeInv, NEW t \in Stages, \A s \in Streams : credit[s] = Cardinality(Of(sentBy, s)),
         sentBy' = [sentBy EXCEPT ![t] = None], credit' = Release(credit, sentBy[t])
  PROVE  \A s \in Streams : credit'[s] = Cardinality(Of(sentBy', s))
  <1>0. /\ sentBy \in [Stages -> Streams \cup {None}] /\ credit \in [Streams -> Nat]
        /\ None \notin Streams
    BY StagesAssumption DEF TypeInv, TypeOK
  <1> TAKE s \in Streams
  <1>n. sentBy'[t] # s /\ \A u \in Stages : u # t => sentBy'[u] = sentBy[u]
    BY <1>0
  <1>1. /\ Cardinality(Of(sentBy, s)) \in Nat
        /\ sentBy[t] = s => Cardinality(Of(sentBy, s)) > 0
        /\ Cardinality(Of(sentBy', s)) = IF sentBy[t] = s THEN Cardinality(Of(sentBy, s)) - 1
                                         ELSE Cardinality(Of(sentBy, s))
    BY <1>n, SentMoved
  <1>2. credit'[s] = IF sentBy[t] = s THEN Less(credit[s]) ELSE credit[s]
    BY <1>0 DEF Release
  <1> QED
    BY <1>1, <1>2 DEF Less

\* An attribution takes one credit of the stream.
LEMMA CreditTaken ==
  ASSUME TypeInv, NEW t \in Stages, NEW s \in Streams, sentBy[t] = None,
         \A x \in Streams : credit[x] = Cardinality(Of(sentBy, x)),
         sentBy' = [sentBy EXCEPT ![t] = s], credit' = [credit EXCEPT ![s] = credit[s] + 1]
  PROVE  \A x \in Streams : credit'[x] = Cardinality(Of(sentBy', x))
  <1>0. /\ sentBy \in [Stages -> Streams \cup {None}] /\ credit \in [Streams -> Nat]
        /\ None \notin Streams
    BY StagesAssumption DEF TypeInv, TypeOK
  <1> TAKE x \in Streams
  <1>n. sentBy[t] # x /\ sentBy'[t] = s /\ \A u \in Stages : u # t => sentBy'[u] = sentBy[u]
    BY <1>0
  <1>1. /\ Cardinality(Of(sentBy, x)) \in Nat
        /\ s = x => Cardinality(Of(sentBy', x)) = Cardinality(Of(sentBy, x)) + 1
        /\ s # x => Cardinality(Of(sentBy', x)) = Cardinality(Of(sentBy, x))
    BY <1>n, SentMoved
  <1>2. credit'[x] = IF x = s THEN credit[x] + 1 ELSE credit[x]
    BY <1>0
  <1> QED
    BY <1>1, <1>2

\* Every step keeps the in-flight count of a stream equal to the stages in flight that
\* it sent.
LEMMA CreditStep ==
  ASSUME TypeInv, PlaceInv, ChargeInv, CreditExact, [Next]_vars
  PROVE  CreditExact'
  <1> USE DEF stageVars, slotVars, streamVars, readyVars, meshVars
  <1>0. \A s \in Streams : credit[s] = Cardinality(Of(sentBy, s))
    BY CreditOf
  <1>t. TypeInv' /\ ChargeInv'
    BY TypeStep, ChargeStep
  <1>f. /\ sentBy \in [Stages -> Streams \cup {None}] /\ credit \in [Streams -> Nat]
        /\ None \notin Streams /\ None \notin Stages
    BY StagesAssumption DEF TypeInv, TypeOK, Stages
  <1> SUFFICES \A s \in Streams : credit'[s] = Cardinality(Of(sentBy', s))
    <2>1. \A s \in Streams : {t \in inflight' : sentBy'[t] = s} = Of(sentBy', s)
      BY ZenonT(60), <1>t DEF TypeInv, TypeOK, ChargeInv, Of
    <2> QED
      BY <2>1 DEF CreditExact
  <1>1. CASE UNCHANGED <<sentBy, credit>>
    BY <1>0, <1>1
  <1>2. ASSUME NEW t \in Stages, Leave(t)
        PROVE  \A s \in Streams : credit'[s] = Cardinality(Of(sentBy', s))
    <2>1. CASE t \in inflight
      BY <1>0, <1>2, <2>1, CreditReleased DEF Leave
    <2>2. CASE t \notin inflight
      BY <1>1, <1>2, <2>2 DEF Leave
    <2> QED
      BY <2>1, <2>2
  <1>3. CASE Aside \/ UNCHANGED vars
    BY <1>1, <1>3 DEF Aside, Post, PeerJoins, SetInterest, CancelPeer, OnPeerGone, PublishPeers, vars
  <1>4. ASSUME NEW t \in Stages, StageStep(t)
        PROVE  \A s \in Streams : credit'[s] = Cardinality(Of(sentBy', s))
    <2>1. UNCHANGED <<sentBy, credit>> \/ Leave(t)
      BY <1>4 DEF StageStep, Dispatch, ServeLocally, PushTask, RecordPush, Enqueue, TakeResult, PeerGone,
         Expire, OwnerGone, OnRouteTask, OnRouteComplete, Return, Deliver
    <2> QED
      BY <1>1, <1>2, <2>1
  <1>5. ASSUME NEW s \in Streams, StreamStep(s)
        PROVE  \A x \in Streams : credit'[x] = Cardinality(Of(sentBy', x))
    <2>h. loop[s] \in Carrying => hand[s] \in Stages
      BY DEF TypeInv
    <2>1. CASE AttributeToStream(s)
      <3>0. PICK t \in Stages : t = hand[s]
        BY <2>1, <2>h DEF AttributeToStream, Carrying
      <3>1. CASE t \in Local \cap inflight /\ sentBy[t] = None
        <4>1. sentBy' = [sentBy EXCEPT ![t] = s] /\ credit' = [credit EXCEPT ![s] = credit[s] + 1]
          BY <2>1, <3>0, <3>1 DEF AttributeToStream
        <4> QED
          BY <1>0, <3>1, <4>1, CreditTaken
      <3>2. CASE ~(t \in Local \cap inflight /\ sentBy[t] = None)
        BY <1>1, <2>1, <3>0, <3>2 DEF AttributeToStream
      <3> QED
        BY <3>1, <3>2
    <2>2. CASE Unattribute(s)
      <3>0. PICK t \in Stages : t = hand[s]
        BY <2>2, <2>h DEF Unattribute, Carrying
      <3> QED
        BY <1>0, <2>2, <3>0, CreditReleased DEF Unattribute
    <2>3. CASE Complete(s)
      <3>1. PICK t \in working[s] : Leave(t)
        BY <2>3 DEF Complete, Deliver
      <3>2. t \in Stages
        BY <3>1 DEF TypeInv, TypeOK
      <3> QED
        BY <1>2, <3>1, <3>2
    <2>4. CASE \/ AddSubscriber(s) \/ SetStreamReadiness(s) \/ Disconnect(s) \/ FanStep(s)
               \/ Acquire(s) \/ TakeTask(s) \/ ReadyFor(s) \/ Bounce(s) \/ ClaimGateSlot(s) \/ Send(s)
               \/ RequeueUnsent(s) \/ Abandon(s) \/ CloseStop(s) \/ RemoveSubscriber(s)
      BY <1>1, <2>4 DEF AddSubscriber, SetStreamReadiness, Disconnect, FanStep, FanIn, FanOut, ForwardStopped,
         Acquire, TakeTask, ReadyFor, Bounce, ClaimGateSlot, Send, RequeueUnsent, Abandon, CloseStop,
         RemoveSubscriber
    <2> QED
      BY <1>5, <2>1, <2>2, <2>3, <2>4 DEF StreamStep, LoopStep
  <1> QED
    BY <1>3, <1>4, <1>5, Cases

\* The token of the stage that leaves goes back to the stream it was charged to.
LEMMA SlotLeaves ==
  ASSUME TypeInv, SlotInv, NEW t \in Stages, Leave(t), UNCHANGED loop
  PROVE  SlotInv'
  <1>f. /\ gateSub \in [Stages -> Streams \cup {None}] /\ slots \in [Streams -> 0 .. MaxInflight]
        /\ None \notin Streams /\ MaxInflight \in Nat
    BY StagesAssumption, BoundsAssumption DEF TypeInv, TypeOK
  <1>1. CASE t \in inflight
    <2>1. gateSub' = [gateSub EXCEPT ![t] = None] /\ slots' = Release(slots, gateSub[t])
      BY <1>1 DEF Leave
    <2> SUFFICES ASSUME NEW s \in Streams, ~Dead(s)
                 PROVE  slots'[s] = Cardinality(Of(gateSub', s)) + (IF Spare(s) THEN 1 ELSE 0)
      BY DEF SlotInv, Dead, Spare
    <2>2. slots[s] = Cardinality(Of(gateSub, s)) + (IF Spare(s) THEN 1 ELSE 0)
      BY DEF SlotInv
    <2>3. gateSub'[t] # s /\ \A u \in Stages : u # t => gateSub'[u] = gateSub[u]
      BY <1>f, <2>1
    <2>4. /\ Cardinality(Of(gateSub, s)) \in Nat
          /\ gateSub[t] = s => /\ Cardinality(Of(gateSub, s)) > 0
                              /\ Cardinality(Of(gateSub', s)) = Cardinality(Of(gateSub, s)) - 1
          /\ gateSub[t] # s => Cardinality(Of(gateSub', s)) = Cardinality(Of(gateSub, s))
      BY <2>3, ChargedMoved
    <2>5. slots'[s] = IF gateSub[t] = s THEN Less(slots[s]) ELSE slots[s]
      BY <1>f, <2>1 DEF Release
    <2> QED
      BY SMTT(30), <2>2, <2>4, <2>5 DEF Less
  <1>2. CASE t \notin inflight
    BY <1>2 DEF Leave, slotVars, SlotInv, Dead, Spare
  <1> QED
    BY <1>1, <1>2

\* Every step keeps the capacity slots of a stream equal to the stages charged to it, and
\* the one its loop holds for a stage not charged yet.
LEMMA SlotStep ==
  ASSUME TypeInv, PlaceInv, ChargeInv, SlotInv, [Next]_vars
  PROVE  SlotInv'
  <1> USE DEF stageVars, slotVars, streamVars, readyVars, meshVars, At
  <1>f. /\ gateSub \in [Stages -> Streams \cup {None}] /\ slots \in [Streams -> 0 .. MaxInflight]
        /\ sentBy \in [Stages -> Streams \cup {None}] /\ loop \in [Streams -> Loops]
        /\ None \notin Streams /\ None \notin Stages /\ MaxInflight \in Nat
    BY StagesAssumption, BoundsAssumption DEF TypeInv, TypeOK, Stages
  <1>1. CASE Aside \/ UNCHANGED vars
    BY <1>1 DEF Aside, Post, PeerJoins, SetInterest, CancelPeer, OnPeerGone, PublishPeers, vars,
       SlotInv, Dead, Spare
  <1>2. ASSUME NEW t \in Stages, StageStep(t) PROVE SlotInv'
    <2>1. UNCHANGED loop /\ (UNCHANGED <<slots, gateSub>> \/ Leave(t))
      BY <1>2 DEF StageStep, Dispatch, ServeLocally, PushTask, RecordPush, Enqueue, TakeResult, PeerGone,
         Expire, OwnerGone, OnRouteTask, OnRouteComplete, Return, Deliver
    <2>2. CASE UNCHANGED <<slots, gateSub>>
      BY <2>1, <2>2 DEF SlotInv, Dead, Spare
    <2> QED
      BY <2>1, <2>2, SlotLeaves
  <1>3. ASSUME NEW s \in Streams, StreamStep(s) PROVE SlotInv'
    <2>h. loop[s] \in Carrying => hand[s] \in Stages
      BY DEF TypeInv
    \* the other streams keep their tokens, and this one ends or accounts for its own
    <2>1. ASSUME UNCHANGED gateSub, \A x \in Streams : x # s => loop'[x] = loop[x] /\ slots'[x] = slots[x],
                 \/ Dead(s)'
                 \/ ~Dead(s) /\ slots'[s] = slots[s] /\ (Spare(s)' <=> Spare(s))
                 \/ ~Dead(s) /\ slots'[s] = slots[s] + 1 /\ Spare(s)' /\ ~Spare(s)
          PROVE  SlotInv'
      <3> SUFFICES ASSUME NEW x \in Streams, ~Dead(x)'
                   PROVE  slots'[x] = Cardinality(Of(gateSub, x)) + (IF Spare(x)' THEN 1 ELSE 0)
        BY <2>1 DEF SlotInv
      <3>1. Cardinality(Of(gateSub, x)) \in Nat
        <4>1. IsFiniteSet(Stages) /\ Of(gateSub, x) \subseteq Stages
          BY StagesAssumption DEF Stages, Of
        <4> QED
          BY <4>1, FS_Subset, FS_CardinalityType
      <3>2. CASE x # s
        BY <2>1, <3>2 DEF SlotInv, Dead, Spare
      <3>3. CASE x = s
        BY SMTT(30), <2>1, <3>1, <3>3 DEF SlotInv
      <3> QED
        BY <3>2, <3>3
    <2>2. CASE AddSubscriber(s) \/ TakeTask(s) \/ ReadyFor(s) \/ Bounce(s) \/ Send(s)
      BY <1>f, <2>1, <2>2 DEF AddSubscriber, TakeTask, ReadyFor, Bounce, Send, Dead, Spare
    <2>3. CASE RequeueUnsent(s) \/ CloseStop(s) \/ RemoveSubscriber(s)
      BY <1>f, <2>1, <2>3 DEF RequeueUnsent, CloseStop, RemoveSubscriber, Dead, Spare
    <2>4. CASE SetStreamReadiness(s) \/ FanStep(s) \/ Abandon(s)
      BY <2>4 DEF SetStreamReadiness, FanStep, FanIn, FanOut, ForwardStopped, Abandon, SlotInv, Dead, Spare
    <2>5. CASE Acquire(s)
      BY <1>f, <2>1, <2>5 DEF Acquire, Dead, Spare
    <2>6. CASE Disconnect(s)
      BY <1>f, <2>1, <2>6 DEF Disconnect, Dead, Release
    <2>7. CASE AttributeToStream(s)
      BY <1>f, <2>1, <2>7 DEF AttributeToStream, Dead, Spare
    <2>8. CASE Unattribute(s)
      <3>0. PICK t \in Stages : t = hand[s]
        BY <2>8, <2>h DEF Unattribute, Carrying
      <3>1. sentBy[t] \in {s, None}
        BY SMTT(90), <1>f, <3>0 DEF ChargeInv, PlaceInv, Single
      <3> QED
        BY <1>f, <2>1, <2>8, <3>0, <3>1 DEF Unattribute, Release, Dead
    <2>9. CASE Complete(s)
      <3>1. PICK t \in working[s] : Leave(t)
        BY <2>9 DEF Complete, Deliver
      <3>2. t \in Stages
        BY <3>1 DEF TypeInv, TypeOK
      <3> QED
        BY <2>9, <3>1, <3>2, SlotLeaves DEF Complete
    <2>10. CASE ClaimGateSlot(s)
      <3>0. PICK t \in Stages : t = hand[s]
        BY <2>10, <2>h DEF ClaimGateSlot, Carrying
      <3>1. /\ loop[s] = "gate" /\ loop' = [loop EXCEPT ![s] = "send"]
            /\ gateSub' = [gateSub EXCEPT ![t] = s] /\ UNCHANGED slots
        BY <2>10, <3>0 DEF ClaimGateSlot
      \* the stage was charged to no stream that goes on
      <3>2. \A x \in Streams : ~Dead(x) => gateSub[t] # x
        BY <3>0, <3>1 DEF ChargeInv
      <3> SUFFICES ASSUME NEW x \in Streams, ~Dead(x)'
                   PROVE  slots[x] = Cardinality(Of(gateSub', x)) + (IF Spare(x)' THEN 1 ELSE 0)
        BY <3>1 DEF SlotInv
      <3>3. gateSub[t] # x /\ slots[x] = Cardinality(Of(gateSub, x)) + (IF Spare(x) THEN 1 ELSE 0)
        BY <1>f, <3>1, <3>2 DEF SlotInv, Dead
      <3>4. gateSub'[t] = s /\ \A u \in Stages : u # t => gateSub'[u] = gateSub[u]
        BY <1>f, <3>1
      <3>5. /\ Cardinality(Of(gateSub, x)) \in Nat
            /\ x = s => Cardinality(Of(gateSub', x)) = Cardinality(Of(gateSub, x)) + 1
            /\ x # s => Cardinality(Of(gateSub', x)) = Cardinality(Of(gateSub, x))
        BY <3>3, <3>4, ChargedMoved
      <3>6. CASE x = s
        BY SMTT(30), <1>f, <3>1, <3>3, <3>5, <3>6 DEF Spare
      <3>7. CASE x # s
        BY <1>f, <3>1, <3>3, <3>5, <3>7 DEF Spare
      <3> QED
        BY <3>6, <3>7
    <2> QED
      BY <1>3, <2>2, <2>3, <2>4, <2>5, <2>6, <2>7, <2>8, <2>9, <2>10 DEF StreamStep, LoopStep
  <1> QED
    BY <1>1, <1>2, <1>3, Cases

-----------------------------------------------------------------------------
\* The capacity gate.

Holds(s) == {t \in inflight : t \in working[s] \/ (t = hand[s] /\ loop[s] = "send")}

\* A stream that will not take another stage holds no more than it did.
LEMMA DeadHolds ==
  ASSUME TypeInv, PlaceInv, NEW s \in Streams, [Next]_vars, Dead(s)'
  PROVE  Holds(s)' \subseteq Holds(s)
  <1> USE DEF stageVars, slotVars, streamVars, readyVars, meshVars, At
  <1>f. /\ working \in [Streams -> SUBSET Stages] /\ loop \in [Streams -> Loops]
        /\ inflight \subseteq Stages
    BY DEF TypeInv, TypeOK
  <1> SUFFICES inflight' \cap working'[s] \subseteq inflight \cap working[s]
    BY DEF Holds, Dead
  <1>1. CASE Aside \/ UNCHANGED vars
    BY <1>1 DEF Aside, Post, PeerJoins, SetInterest, CancelPeer, OnPeerGone, PublishPeers, vars
  <1>2. ASSUME NEW t \in Stages, Leave(t) PROVE inflight' \subseteq inflight
    BY <1>2, LeaveTypes DEF TypeInv
  <1>3. ASSUME NEW t \in Stages, StageStep(t)
        PROVE  inflight' \cap working'[s] \subseteq inflight \cap working[s]
    <2>1. CASE Dispatch(t) \/ OnRouteTask(t)
      <3>1. t \notin working[s]
        BY <2>1 DEF Dispatch, OnRouteTask, PlaceInv, Early, Nowhere
      <3> QED
        BY <2>1, <3>1 DEF Dispatch, OnRouteTask
    <2>2. CASE ServeLocally(t) \/ PushTask(t) \/ RecordPush(t) \/ Enqueue(t)
      BY <2>2 DEF ServeLocally, PushTask, RecordPush, Enqueue
    <2>3. CASE TakeResult(t) \/ PeerGone(t) \/ Expire(t) \/ OwnerGone(t) \/ OnRouteComplete(t)
      BY <1>2, <2>3 DEF TakeResult, PeerGone, Expire, OwnerGone, OnRouteComplete, Return, Deliver
    <2> QED
      BY <1>3, <2>1, <2>2, <2>3 DEF StageStep
  <1>4. ASSUME NEW x \in Streams, StreamStep(x)
        PROVE  inflight' \cap working'[s] \subseteq inflight \cap working[s]
    <2>1. CASE Send(x)
      <3>1. x # s
        BY <1>f, <2>1 DEF Send, Dead
      <3> QED
        BY <1>f, <2>1, <3>1 DEF Send
    <2>2. CASE Complete(x)
      <3>1. PICK t \in working[x] : Leave(t) /\ working' = [working EXCEPT ![x] = working[x] \ {t}]
        BY <2>2 DEF Complete, Deliver
      <3>2. t \in Stages
        BY <1>f, <3>1
      <3>3. inflight' \subseteq inflight
        BY <1>2, <3>1, <3>2
      <3> QED
        BY <1>f, <3>1, <3>3
    <2>3. CASE UNCHANGED <<inflight, working>>
      BY <2>3
    <2> QED
      BY <1>4, <2>1, <2>2, <2>3 DEF StreamStep, LoopStep, AddSubscriber, SetStreamReadiness, Disconnect,
         FanStep, FanIn, FanOut, ForwardStopped, Acquire, TakeTask, ReadyFor, Bounce, AttributeToStream,
         ClaimGateSlot, Unattribute, RequeueUnsent, Abandon, CloseStop, RemoveSubscriber
  <1> QED
    BY <1>1, <1>3, <1>4, Cases

\* A stream that goes on holds no more stages than tokens; the others hold no more than
\* when they ended.
LEMMA CapacityStep ==
  ASSUME TypeInv, PlaceInv, ChargeInv, SlotInv, CapacityHeld, [Next]_vars
  PROVE  CapacityHeld'
  <1>1. TypeInv' /\ ChargeInv' /\ SlotInv'
    BY TypeStep, ChargeStep, SlotStep
  <1>m. MaxInflight \in Nat
    BY BoundsAssumption
  <1> SUFFICES ASSUME NEW s \in Streams
               PROVE  Cardinality(Holds(s)') <= MaxInflight
    BY DEF CapacityHeld, Holds
  <1>2. IsFiniteSet(Stages)
    BY StagesAssumption DEF Stages
  <1>3. CASE Dead(s)'
    <2>1. Holds(s)' \subseteq Holds(s)
      BY <1>3, DeadHolds
    <2>2. Holds(s) \subseteq Stages
      BY DEF Holds, TypeInv, TypeOK
    <2>3. IsFiniteSet(Holds(s))
      BY <1>2, <2>2, FS_Subset
    <2>4. /\ Cardinality(Holds(s)') <= Cardinality(Holds(s)) /\ Cardinality(Holds(s)) \in Nat
          /\ Cardinality(Holds(s)') \in Nat
      BY <2>1, <2>3, FS_Subset, FS_CardinalityType
    <2>5. Cardinality(Holds(s)) <= MaxInflight
      BY DEF CapacityHeld, Holds
    <2> QED
      BY SMTT(30), <1>m, <2>4, <2>5
  <1>4. CASE ~Dead(s)'
    <2>1. Holds(s)' \subseteq Of(gateSub', s) /\ Of(gateSub', s) \subseteq Stages
      BY <1>1 DEF Holds, Of, ChargeInv, TypeInv, TypeOK
    <2>2. IsFiniteSet(Of(gateSub', s))
      BY <1>2, <2>1, FS_Subset
    <2>3. /\ Cardinality(Holds(s)') <= Cardinality(Of(gateSub', s))
          /\ Cardinality(Of(gateSub', s)) \in Nat /\ Cardinality(Holds(s)') \in Nat
      BY <2>1, <2>2, FS_Subset, FS_CardinalityType
    <2>4. slots'[s] = Cardinality(Of(gateSub', s)) + (IF Spare(s)' THEN 1 ELSE 0)
      BY <1>1, <1>4 DEF SlotInv
    <2>5. slots'[s] \in 0 .. MaxInflight
      BY <1>1 DEF TypeInv, TypeOK
    <2> QED
      BY SMTT(30), <1>m, <2>3, <2>4, <2>5
  <1> QED
    BY <1>3, <1>4

-----------------------------------------------------------------------------
\* The ready count.

Ready == {s \in Streams : Subscribed(s) /\ s \notin unready}

\* Every step keeps the count of the ready streams exact.
LEMMA ReadyStep == ASSUME TypeInv, ReadyInv, [Next]_vars PROVE ReadyInv'
  <1> USE DEF stageVars, slotVars, streamVars, readyVars, meshVars, At
  <1>f. loop \in [Streams -> Loops] /\ unready \subseteq Streams /\ ready \in Nat /\ flips \in Nat
    BY DEF TypeInv, TypeOK
  <1>r. IsFiniteSet(Ready)
    <2>1. IsFiniteSet(Streams) /\ Ready \subseteq Streams
      BY StagesAssumption DEF Ready
    <2> QED
      BY <2>1, FS_Subset
  <1>c. late = {} => ready = Cardinality(Ready)
    BY DEF ReadyInv, ReadyCountExact, Ready
  <1>1. ASSUME UNCHANGED <<unready, ready, late>>,
               \A s \in Streams : Subscribed(s)' <=> Subscribed(s),
               \A s \in Streams : loop'[s] \in {"absent", "off"} => loop[s] \in {"absent", "off"}
        PROVE  ReadyInv'
    <2>1. Ready' = Ready
      BY <1>1 DEF Ready
    <2> QED
      BY <1>1, <1>c, <2>1 DEF ReadyInv, ReadyCountExact, Ready
  <1>2. CASE Aside \/ UNCHANGED vars
    BY <1>1, <1>2 DEF Aside, Post, PeerJoins, SetInterest, CancelPeer, OnPeerGone, PublishPeers, vars,
       Subscribed
  <1>3. ASSUME NEW t \in Stages, StageStep(t) PROVE ReadyInv'
    <2>1. UNCHANGED <<loop, unready, ready, late>>
      BY <1>3 DEF StageStep, Dispatch, ServeLocally, PushTask, RecordPush, Enqueue, TakeResult, PeerGone,
         Expire, OwnerGone, OnRouteTask, OnRouteComplete, Return, Deliver
    <2> QED
      BY <1>1, <2>1 DEF Subscribed
  <1>4. ASSUME NEW s \in Streams, StreamStep(s) PROVE ReadyInv'
    <2>1. CASE AddSubscriber(s)
      <3>1. /\ loop[s] = "off" /\ s \notin unready /\ loop' = [loop EXCEPT ![s] = "free"]
            /\ ready' = ready + 1 /\ UNCHANGED <<unready, late>>
        BY <2>1 DEF AddSubscriber, ReadyInv
      <3>2. s \notin Ready /\ Ready' = Ready \cup {s}
        BY <1>f, <3>1 DEF Ready, Subscribed
      <3>3. Cardinality(Ready') = Cardinality(Ready) + 1
        BY <1>r, <3>2, Grown
      <3>4. \A x \in Streams : loop'[x] \in {"absent", "off"} => x \notin unready'
        BY <1>f, <3>1 DEF ReadyInv
      <3> QED
        BY <1>c, <3>1, <3>3, <3>4 DEF ReadyInv, ReadyCountExact, Ready
    <2>2. CASE RemoveSubscriber(s)
      <3>1. /\ loop[s] = "leave" /\ loop' = [loop EXCEPT ![s] = "ended"]
            /\ ready' = (IF s \in unready THEN ready ELSE Less(ready)) /\ UNCHANGED <<unready, late>>
        BY <2>2 DEF RemoveSubscriber
      <3>2. \A x \in Streams : loop'[x] \in {"absent", "off"} => x \notin unready'
        BY <1>f, <3>1 DEF ReadyInv
      <3>3. CASE s \in unready
        <4>1. Ready' = Ready
          BY <1>f, <3>1, <3>3 DEF Ready, Subscribed
        <4> QED
          BY <1>c, <3>1, <3>2, <3>3, <4>1 DEF ReadyInv, ReadyCountExact, Ready
      <3>4. CASE s \notin unready
        <4>1. s \in Ready /\ Ready' = Ready \ {s}
          BY <1>f, <3>1, <3>4 DEF Ready, Subscribed
        <4>2. /\ Cardinality(Ready') = Cardinality(Ready) - 1 /\ Cardinality(Ready) > 0
              /\ Cardinality(Ready) \in Nat
          BY <1>r, <4>1, Shrunk
        <4> QED
          BY <1>c, <3>1, <3>2, <3>4, <4>2 DEF ReadyInv, ReadyCountExact, Ready, Less
      <3> QED
        BY <3>3, <3>4
    <2>3. CASE SetStreamReadiness(s)
      <3>1. /\ UNCHANGED loop /\ unready' = (IF s \in unready THEN unready \ {s} ELSE unready \cup {s})
            /\ loop[s] \notin {"absent", "off"}
            /\ ready' = (IF s \in unready THEN ready + 1 ELSE Less(ready))
            /\ Subscribed(s) => UNCHANGED late
            /\ ~Subscribed(s) => late' = late \cup {s}
        BY <2>3 DEF SetStreamReadiness, Subscribed
      <3>2. \A x \in Streams : loop'[x] \in {"absent", "off"} => x \notin unready'
        BY <3>1 DEF ReadyInv
      <3>3. CASE ~Subscribed(s)
        BY <3>1, <3>2, <3>3 DEF ReadyInv, ReadyCountExact
      <3>4. CASE Subscribed(s) /\ s \in unready
        <4>1. s \notin Ready /\ Ready' = Ready \cup {s}
          BY <3>1, <3>4 DEF Ready, Subscribed
        <4>2. Cardinality(Ready') = Cardinality(Ready) + 1
          BY <1>r, <4>1, Grown
        <4> QED
          BY <1>c, <3>1, <3>2, <3>4, <4>2 DEF ReadyInv, ReadyCountExact, Ready
      <3>5. CASE Subscribed(s) /\ s \notin unready
        <4>1. s \in Ready /\ Ready' = Ready \ {s}
          BY <3>1, <3>5 DEF Ready, Subscribed
        <4>2. /\ Cardinality(Ready') = Cardinality(Ready) - 1 /\ Cardinality(Ready) > 0
              /\ Cardinality(Ready) \in Nat
          BY <1>r, <4>1, Shrunk
        <4> QED
          BY <1>c, <3>1, <3>2, <3>5, <4>2 DEF ReadyInv, ReadyCountExact, Ready, Less
      <3> QED
        BY <3>3, <3>4, <3>5
    <2>4. CASE \/ Acquire(s) \/ TakeTask(s) \/ ReadyFor(s) \/ Bounce(s) \/ ClaimGateSlot(s) \/ Send(s)
               \/ Unattribute(s) \/ RequeueUnsent(s) \/ CloseStop(s) \/ Disconnect(s) \/ AttributeToStream(s)
      <3>1. \E l \in Loops : /\ loop' = [loop EXCEPT ![s] = l] /\ l \notin {"absent", "off", "ended"}
                             /\ loop[s] \notin {"absent", "off", "ended"}
        BY <2>4 DEF Acquire, TakeTask, ReadyFor, Bounce, ClaimGateSlot, Send, Unattribute, RequeueUnsent,
           CloseStop, Disconnect, AttributeToStream, Loops
      <3>2. UNCHANGED <<unready, ready, late>>
        BY <2>4 DEF Acquire, TakeTask, ReadyFor, Bounce, ClaimGateSlot, Send, Unattribute, RequeueUnsent,
           CloseStop, Disconnect, AttributeToStream
      <3> QED
        BY <1>f, <1>1, <3>1, <3>2 DEF Subscribed
    <2>5. CASE Complete(s) \/ FanStep(s) \/ Abandon(s)
      BY <1>1, <2>5 DEF Complete, FanStep, FanIn, FanOut, ForwardStopped, Abandon, Subscribed
    <2> QED
      BY <1>4, <2>1, <2>2, <2>3, <2>4, <2>5 DEF StreamStep, LoopStep
  <1> QED
    BY <1>2, <1>3, <1>4, Cases

-----------------------------------------------------------------------------
\* The invariant, and the two properties.

\* The fan-out starts in the invariant.
LEMMA InvInit == Init => Inv
  <1> SUFFICES ASSUME Init PROVE Inv
    OBVIOUS
  <1>n. /\ None \notin Stages /\ None \notin Streams /\ IsFiniteSet({})
        /\ Cardinality({}) = 0 /\ MaxInflight \in Nat /\ Buffer \in Nat
    BY StagesAssumption, BoundsAssumption, FS_EmptySet DEF Stages
  <1>1. PICK fleet \in Fleets :
          /\ park = [t \in Stages |-> IF t \in fleet.stages THEN "idle" ELSE "absent"]
          /\ loop = [s \in Streams |-> IF s \in fleet.streams THEN "off" ELSE "absent"]
          /\ peer = IF fleet.mesh THEN "absent" ELSE "none"
          /\ flips = fleet.flips
    BY DEF Init
  <1>2. fleet.flips \in Nat
    BY FleetsAssumption
  <1>3. /\ \A t \in Stages : park[t] \in {"idle", "absent"}
        /\ \A s \in Streams : loop[s] \in {"off", "absent"}
    BY <1>1
  <1>4. /\ park \in [Stages -> Parks] /\ loop \in [Streams -> Loops]
        /\ peer \in {"none", "absent", "up", "cancelled", "scanned", "gone"} /\ flips \in Nat
    BY <1>1, <1>2 DEF Parks, Loops
  <1>5. /\ inflight = {} /\ resultCh = {} /\ posting = {} /\ buffer = <<>> /\ fanning = {} /\ unready = {}
        /\ ready = 0 /\ late = {} /\ pushedTo = {}
        /\ sentBy = [t \in Stages |-> None] /\ gateSub = [t \in Stages |-> None]
        /\ hand = [s \in Streams |-> None] /\ fan = [s \in Streams |-> None]
        /\ sent = [s \in Streams |-> {}] /\ working = [s \in Streams |-> {}]
        /\ credit = [s \in Streams |-> 0] /\ slots = [s \in Streams |-> 0]
    BY DEF Init
  <1>6. serving \in BOOLEAN
    BY Zenon DEF Init
  <1>7. Len(buffer) = 0 /\ buffer \in Seq(Stages)
    BY SMTT(30), <1>5
  <1>8. TypeInv
    <2>1. TypeOK
      BY SMTT(30), <1>n, <1>4, <1>5, <1>6, <1>7 DEF TypeOK
    <2> QED
      BY <1>3, <2>1 DEF TypeInv, Carrying
  <1>9. PlaceInv
    <2>1. \A t \in Stages : Nowhere(t)
      BY SMTT(30), <1>n, <1>5, <1>7 DEF Nowhere, Buffered
    <2> QED
      BY SMTT(30), <1>7, <2>1 DEF PlaceInv, Distinct, Nowhere, Single
  <1>10. ChargeInv
    BY <1>n, <1>5 DEF ChargeInv
  <1>11. \A s \in Streams : /\ Of(gateSub, s) = {} /\ {t \in inflight : sentBy[t] = s} = {}
                            /\ {t \in inflight : t \in working[s] \/ (t = hand[s] /\ loop[s] = "send")} = {}
    BY <1>n, <1>5 DEF Of
  <1>12. SlotInv
    <2>1. \A s \in Streams : slots[s] = 0 /\ ~Spare(s) /\ Cardinality(Of(gateSub, s)) = 0
      BY <1>n, <1>3, <1>5, <1>11 DEF Spare
    <2> QED
      BY SMTT(30), <2>1 DEF SlotInv
  <1>13. CreditExact /\ CapacityHeld
    BY SMTT(30), <1>n, <1>5, <1>11 DEF CreditExact, CapacityHeld
  <1>14. ReadyInv
    <2>1. {s \in Streams : Subscribed(s) /\ s \notin unready} = {}
      BY <1>3 DEF Subscribed
    <2> QED
      BY <1>n, <1>5, <2>1 DEF ReadyInv, ReadyCountExact
  <1> QED
    BY <1>8, <1>9, <1>10, <1>12, <1>13, <1>14 DEF Inv

\* Every step of the fan-out keeps the invariant.
LEMMA InvStep == Inv /\ [Next]_vars => Inv'
  BY TypeStep, PlaceStep, ChargeStep, SlotStep, CreditStep, CapacityStep, ReadyStep DEF Inv

\* The invariant holds in every behaviour of the fan-out.
LEMMA Invariant == Spec => []Inv
  BY InvInit, InvStep, PTL DEF Spec

\* A set in which any two elements are the same has one at most.
LEMMA AtMostOne ==
  ASSUME NEW S, \A x, y \in S : x = y
  PROVE  Cardinality(S) <= 1
  <1>1. CASE S = {}
    BY SMTT(30), <1>1, FS_EmptySet
  <1>2. CASE S # {}
    <2>1. PICK x \in S : S = {x}
      BY <1>2
    <2> QED
      BY SMTT(30), <2>1, FS_Singleton
  <1> QED
    BY <1>1, <1>2

\* Places that are apart hold a stage once at most.
LEMMA PlaceOne == TypeInv /\ PlaceInv => OnePlace
  <1> SUFFICES ASSUME TypeInv, PlaceInv, NEW t \in Stages PROVE Cardinality(Places(t)) <= 1
    BY DEF OnePlace
  <1>1. ASSUME NEW x \in Places(t)
        PROVE  \/ \E i \in 1 .. Len(buffer) : x = <<"buffer", i>> /\ buffer[i] = t
               \/ \E s \in Streams : x = <<"fan", s>> /\ fan[s] = t
               \/ \E s \in Streams : x = <<"hand", s>> /\ hand[s] = t
               \/ \E s \in Streams : x = <<"worker", s>> /\ t \in working[s]
    BY <1>1 DEF Places
  <1>2. Single(t) /\ Distinct(buffer)
    BY DEF PlaceInv
  <1>3. ASSUME NEW x \in Places(t), NEW y \in Places(t) PROVE x = y
    <2>1. CASE Buffered(t)
      BY <1>1, <1>2, <1>3, <2>1 DEF Single, Distinct
    <2>2. CASE ~Buffered(t)
      BY SMTT(30), <1>1, <1>2, <1>3, <2>2 DEF Single, Buffered
    <2> QED
      BY <2>1, <2>2
  <1> QED
    BY <1>3, AtMostOne

\* fanout.go requeue, connect.go forward: for any fleet of workers, stages, buffer and
\* capacity, a stage is in one place at most, so no two workers run it under one token.
THEOREM OnePlaceHolds == Spec => []OnePlace
  <1>1. Inv => OnePlace
    BY PlaceOne DEF Inv
  <1> QED
    BY <1>1, Invariant, PTL

\* dispatch.go attributeToStream, deliver, drop; subscribers.go claimGateSlot, releaseSlot,
\* setReady: whatever order completions, deadlines, failed sends and disconnects come in, a
\* stream's credit is the number of its stages in flight, a stream has no more than
\* max_inflight tasks unresolved, and the claim gate counts the ready workers.
THEOREM AccountsExactHolds == Spec => []AccountsExact
  <1>1. Inv => AccountsExact
    BY DEF Inv, ReadyInv, AccountsExact
  <1> QED
    BY <1>1, Invariant, PTL
================================================================================
