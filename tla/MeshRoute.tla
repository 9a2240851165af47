------------------------------- MODULE MeshRoute -------------------------------
(***************************************************************************)
(* The Route between two brokers of the mesh: the lower member_id dials,   *)
(* the higher accepts, and over the one stream each tells the other        *)
(* whether it has a ready worker for a (kind, kindVersion).  A broker      *)
(* claims and forwards work by what it has learned, so this is the state   *)
(* the cluster-aware claim gate rests on.                                  *)
(*                                                                         *)
(* Credit is left out: it only weighs the choice among peers that serve.   *)
(***************************************************************************)
EXTENDS Integers, Sequences, FiniteSets

CONSTANTS
    OutCap,       \* routeSendBuf
    Advertisers,  \* goroutines of one broker that may be in advertiseCredits at once
    Flappers,     \* the brokers whose heartbeat may lapse past the liveness window
    MaxEdges,     \* bound on presence and credit edges of each broker
    MaxDrops,     \* bound on dropped streams
    MaxFlaps      \* bound on lapsed heartbeats

ASSUME BoundsAssumption ==
    /\ OutCap \in Nat \ {0} /\ Advertisers \in Nat \ {0}
    /\ Flappers \subseteq {"d", "a"}
    /\ MaxEdges \in Nat /\ MaxDrops \in Nat /\ MaxFlaps \in Nat

Dialer == "d"

Acceptor == "a"

Sides == {Dialer, Acceptor}

Other(x) == IF x = Dialer THEN Acceptor ELSE Dialer

VARIABLES
    has,       \* whether a broker has a ready worker for the pair
    publish,   \* presences computed under f.mu, not yet given to the mesh
    self,      \* selfCredit: the pair is in the map
    lapsed,    \* brokers whose heartbeat is older than the liveness window
    client,    \* the incarnation of the other's peerClient in the snapshot, 0 for none
    made,      \* how many peerClients a broker has made for the other
    learned,   \* serves, of that peerClient
    out,       \* its outbound queue
    link,      \* the stream: the peerClient each end's pump runs for
    wire,      \* frames on the stream, by sender
    lingers,   \* a broken stream's send goroutine at the acceptor still drains its queue
    edges, drops, flaps,
    muddled    \* observer: brokers with two advertisements under way at once, which may
               \* come in either order, or with a frame dropped at a full queue

presenceVars == <<has, publish, self, edges, muddled>>

peerVars == <<client, made, learned>>

linkVars == <<link, wire, lingers>>

routeVars == <<presenceVars, lapsed, peerVars, out, linkVars, drops, flaps>>

Down == [x \in Sides |-> 0]

NoFrames == [x \in Sides |-> <<>>]

\* x's pump runs; the dialer's starts with the stream, the acceptor's once it knows the dialer
Pumping(x) == link[x] # 0

\* and runs for the peerClient in the snapshot
Attached(x) == Pumping(x) /\ link[x] = client[x]

RouteInit ==
    /\ has = [x \in Sides |-> FALSE]
    /\ publish = [x \in Sides |-> {}]
    /\ self = [x \in Sides |-> FALSE]
    /\ lapsed = {}
    /\ client = [x \in Sides |-> 0]
    /\ made = [x \in Sides |-> 0]
    /\ learned = [x \in Sides |-> FALSE]
    /\ out = NoFrames
    /\ link = Down
    /\ wire = NoFrames
    /\ lingers = FALSE
    /\ edges = [x \in Sides |-> 0]
    /\ drops = 0
    /\ flaps = 0
    /\ muddled = {}

-----------------------------------------------------------------------------
(***************************************************************************)
(* advertiseCredits: compute under f.mu, then hand to the mesh.            *)
(***************************************************************************)

\* the last ready worker leaves, or the first arrives
PresenceEdge(x) ==
    /\ edges[x] < MaxEdges
    /\ Cardinality(publish[x]) < Advertisers
    /\ edges' = [edges EXCEPT ![x] = @ + 1]
    /\ has' = [has EXCEPT ![x] = ~@]
    /\ publish' = [publish EXCEPT ![x] = @ \cup {~has[x]}]
    /\ muddled' = IF publish[x] = {} THEN muddled ELSE muddled \cup {x}
    /\ UNCHANGED <<self, lapsed, peerVars, out, linkVars, drops, flaps>>

\* a task is dispatched or completes: the presence goes out again with the new credit
CreditEdge(x) ==
    /\ edges[x] < MaxEdges
    /\ Cardinality(publish[x]) < Advertisers
    /\ edges' = [edges EXCEPT ![x] = @ + 1]
    /\ publish' = [publish EXCEPT ![x] = @ \cup {has[x]}]
    /\ muddled' = IF publish[x] = {} THEN muddled ELSE muddled \cup {x}
    /\ UNCHANGED <<has, self, lapsed, peerVars, out, linkVars, drops, flaps>>

\* a plausible slip: only an arrival is worth a frame
EnqueuedArrivals(q, p) == IF p /\ Len(q) < OutCap THEN Append(q, p) ELSE q

\* non-blocking: with the queue full the frame is dropped
Enqueued(q, p) == IF Len(q) < OutCap THEN Append(q, p) ELSE q

AdvertiseCredit(x) ==
    \E p \in publish[x] :
        /\ publish' = [publish EXCEPT ![x] = @ \ {p}]
        /\ self' = [self EXCEPT ![x] = p]
        /\ out' = IF client[x] = 0 THEN out ELSE [out EXCEPT ![x] = Enqueued(@, p)]
        /\ muddled' = IF client[x] = 0 \/ Len(out[x]) < OutCap THEN muddled ELSE muddled \cup {x}
        /\ UNCHANGED <<has, lapsed, peerVars, linkVars, edges, drops, flaps>>

-----------------------------------------------------------------------------
(***************************************************************************)
(* Membership and the peer set.                                            *)
(***************************************************************************)

HeartbeatLapses(x) ==
    /\ x \in Flappers \ lapsed
    /\ flaps < MaxFlaps
    /\ lapsed' = lapsed \cup {x}
    /\ flaps' = flaps + 1
    /\ UNCHANGED <<presenceVars, peerVars, out, linkVars, drops>>

HeartbeatReturns(x) ==
    /\ x \in lapsed
    /\ lapsed' = lapsed \ {x}
    /\ UNCHANGED <<presenceVars, peerVars, out, linkVars, drops, flaps>>

\* refreshOnce finds the other live: a fresh peerClient, unless there is one.  Its dial
\* starts before the snapshot is stored, but the bulk interest waits for the connection
AddPeer(x) ==
    /\ Other(x) \notin lapsed
    /\ client[x] = 0
    /\ made' = [made EXCEPT ![x] = @ + 1]
    /\ client' = [client EXCEPT ![x] = made[x] + 1]
    /\ UNCHANGED <<presenceVars, lapsed, learned, out, linkVars, drops, flaps>>

\* refreshOnce finds it lapsed: cancel and forget.  Only the dialer's stream hangs on the
\* peerClient's ctx; an accepted one hangs on the request and on the mesh
DropPeer(x) ==
    /\ Other(x) \in lapsed
    /\ client[x] # 0
    /\ client' = [client EXCEPT ![x] = 0]
    /\ learned' = [learned EXCEPT ![x] = FALSE]
    /\ out' = [out EXCEPT ![x] = <<>>]
    /\ IF x = Dialer THEN link' = Down /\ wire' = NoFrames ELSE UNCHANGED <<link, wire>>
    /\ lingers' = (lingers /\ x = Dialer)
    /\ UNCHANGED <<presenceVars, lapsed, made, drops, flaps>>

-----------------------------------------------------------------------------
(***************************************************************************)
(* The stream.                                                             *)
(***************************************************************************)

\* pump's first frames: an Interest for every pair we have a worker for, and only those
BulkInterest(x) == IF self[x] THEN <<TRUE>> ELSE <<>>

\* a plausible slip: a stream that broke is not dialed again
DialOnce ==
    /\ client[Dialer] # 0
    /\ ~Pumping(Dialer) /\ drops = 0
    /\ link' = [link EXCEPT ![Dialer] = client[Dialer]]
    /\ wire' = [wire EXCEPT ![Dialer] = BulkInterest(Dialer)]
    /\ UNCHANGED <<lingers, presenceVars, lapsed, peerVars, out, drops, flaps>>

\* runRoute, serveRoute
Dial ==
    /\ client[Dialer] # 0
    /\ ~Pumping(Dialer)
    /\ link' = [link EXCEPT ![Dialer] = client[Dialer]]
    /\ wire' = [wire EXCEPT ![Dialer] = BulkInterest(Dialer)]
    /\ UNCHANGED <<lingers, presenceVars, lapsed, peerVars, out, drops, flaps>>

AcceptRoute ==
    /\ Pumping(Dialer) /\ ~Pumping(Acceptor)
    /\ client[Acceptor] # 0
    /\ link' = [link EXCEPT ![Acceptor] = client[Acceptor]]
    /\ wire' = [wire EXCEPT ![Acceptor] = BulkInterest(Acceptor)]
    /\ UNCHANGED <<lingers, presenceVars, lapsed, peerVars, out, drops, flaps>>

\* the acceptor's discovery did not catch up within a second
RefuseRoute ==
    /\ Pumping(Dialer) /\ ~Pumping(Acceptor)
    /\ client[Acceptor] = 0
    /\ link' = Down
    /\ wire' = NoFrames
    /\ UNCHANGED <<lingers, presenceVars, lapsed, peerVars, out, drops, flaps>>

\* the stream breaks with whatever is on it; the acceptor may notice later than the dialer
DropRoute ==
    /\ Pumping(Dialer)
    /\ drops < MaxDrops
    /\ drops' = drops + 1
    /\ link' = Down
    /\ wire' = NoFrames
    /\ lingers' \in {lingers, lingers \/ Attached(Acceptor)}
    /\ UNCHANGED <<presenceVars, lapsed, peerVars, out, flaps>>

\* until the acceptor's end notices, its send goroutine takes from the queue it shares with
\* the next stream's; the send fails and ends it
SendFails ==
    /\ lingers
    /\ lingers' = FALSE
    /\ out' = [out EXCEPT ![Acceptor] = IF @ = <<>> THEN @ ELSE Tail(@)]
    /\ UNCHANGED <<presenceVars, lapsed, peerVars, link, wire, drops, flaps>>

\* the send goroutine drains the queue of the peerClient its pump runs for
SendFrame(x) ==
    /\ Attached(x)
    /\ out[x] # <<>>
    /\ wire' = [wire EXCEPT ![x] = Append(@, Head(out[x]))]
    /\ out' = [out EXCEPT ![x] = Tail(@)]
    /\ UNCHANGED <<presenceVars, lapsed, peerVars, link, lingers, drops, flaps>>

\* handleInbound and setInterest, on that same peerClient
HandleInbound(x) ==
    /\ Pumping(x)
    /\ wire[Other(x)] # <<>>
    /\ learned' = IF Attached(x) THEN [learned EXCEPT ![x] = Head(wire[Other(x)])] ELSE learned
    /\ wire' = [wire EXCEPT ![Other(x)] = Tail(@)]
    /\ UNCHANGED <<presenceVars, lapsed, client, made, out, link, lingers, drops, flaps>>

-----------------------------------------------------------------------------
MeshStep(x) == AdvertiseCredit(x) \/ AddPeer(x) \/ DropPeer(x) \/ SendFrame(x) \/ HandleInbound(x)

RouteNext ==
    \/ \E x \in Sides : MeshStep(x) \/ PresenceEdge(x) \/ CreditEdge(x)
    \/ \E x \in Sides : HeartbeatLapses(x) \/ HeartbeatReturns(x)
    \/ Dial \/ AcceptRoute \/ RefuseRoute \/ DropRoute \/ SendFails

RouteSpec == RouteInit /\ [][RouteNext]_routeVars

(***************************************************************************)
(* The mesh's goroutines run, refreshOnce ticks, the dialer reconnects,    *)
(* and a broker that is up beats again.  Edges, lapses and drops owe       *)
(* nothing.                                                                *)
(***************************************************************************)
RouteFairness ==
    /\ \A x \in Sides :
        /\ WF_routeVars(AdvertiseCredit(x)) /\ WF_routeVars(AddPeer(x) \/ DropPeer(x))
        /\ WF_routeVars(SendFrame(x)) /\ WF_routeVars(HandleInbound(x)) /\ WF_routeVars(HeartbeatReturns(x))
    /\ WF_routeVars(Dial) /\ WF_routeVars(AcceptRoute) /\ WF_routeVars(RefuseRoute) /\ WF_routeVars(SendFails)

RouteFairSpec == RouteSpec /\ RouteFairness

-----------------------------------------------------------------------------
(***************************************************************************)
(* Properties.                                                             *)
(***************************************************************************)

RouteTypeOK ==
    /\ has \in [Sides -> BOOLEAN]
    /\ publish \in [Sides -> SUBSET BOOLEAN]
    /\ self \in [Sides -> BOOLEAN]
    /\ lapsed \subseteq Sides
    /\ made \in [Sides -> 0 .. MaxFlaps + 1]
    /\ \A x \in Sides : client[x] \in {0, made[x]} /\ link[x] \in 0 .. made[x]
    /\ learned \in [Sides -> BOOLEAN]
    /\ \A x \in Sides : out[x] \in Seq(BOOLEAN) /\ Len(out[x]) <= OutCap
    /\ \A x \in Sides : wire[x] \in Seq(BOOLEAN)
    /\ lingers \in BOOLEAN
    /\ edges \in [Sides -> 0 .. MaxEdges]
    /\ drops \in 0 .. MaxDrops
    /\ flaps \in 0 .. MaxFlaps
    /\ muddled \subseteq Sides

\* nothing x has to say is under way
Quiet(x) == publish[x] = {} /\ out[x] = <<>> /\ wire[x] = <<>> /\ Attached(x)

Unbroken == drops = 0 /\ flaps = 0

\* relay.go advertiseCredit, peer.go setInterest: over a stream that has not broken, once
\* everything a broker had to say has arrived the other knows exactly whether it serves,
\* unless its advertisements overtook one another or did not fit in the queue.
SettledExact ==
    Unbroken => \A x \in Sides \ muddled :
        Quiet(x) /\ Attached(Other(x)) => (learned[Other(x)] <=> has[x])

\* broker.go EnableRelay, "a broker must claim its shard tile whenever a READY worker ...
\* exists ANYWHERE in the fleet": a worker that is there to stay is learned by the other
\* broker and not forgotten, through broken streams and a dialer that drops and re-learns
\* the acceptor.  For the acceptor's workers, both ends must notice a broken stream at once;
\* runRoute waits for its send goroutine before it dials again, so the dialer's need not.
EventuallyPresent ==
    /\ <>[] has[Dialer] /\ [] (Dialer \notin muddled) => <>[] learned[Acceptor]
    /\ <>[] has[Acceptor] /\ [] (Acceptor \notin muddled /\ ~lingers) => <>[] learned[Dialer]
================================================================================
