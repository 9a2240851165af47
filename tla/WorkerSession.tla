---------------------------- MODULE WorkerSession ----------------------------
(* The worker's side of the work stream (sdk-go/converge: run, runner.Run,  *)
(* the health poller) against the broker's handler of the stream            *)
(* (connectHandler.WorkStream).  A session is one call of runner.Run: the   *)
(* receiving loop, the handlers it starts, the one sender behind the send   *)
(* mux and the watcher that ends a drain early.  What a session could not   *)
(* send, the runner keeps for the next one.                                 *)
(*                                                                          *)
(* A lease token is a task and the number of its dispatch.  A frame the     *)
(* sender has written is at the broker, or lost if the stream broke; one    *)
(* that was under way when it broke is one written just after.              *)
EXTENDS Naturals, Sequences, FiniteSets

CONSTANTS
    Tasks,         \* the tasks the broker has for this worker
    Deployments,   \* the load, the limits and the faults to explore
    MuxCap,        \* frames sendCh can hold
    ResultBufCap   \* resultBufCap

VARIABLES
    lease,         \* per task: dispatch number, where it is, the session it was sent on
    open,          \* the sessions whose handler still runs at the broker
    counted,       \* the broker counts the worker as ready
    session,       \* the number of the last session
    stream,        \* its stream, as the worker could find it
    down,          \* frames sent to the worker and not received
    run,           \* where the goroutine of Run is
    held,          \* the token Run has received and has no slot for yet
    handlers,      \* handler goroutines
    watcher,       \* where the goroutine that watches for the drain is
    wake,          \* drainWake
    sendCh,        \* r.sendCh is set
    mux,           \* frames in the channel of the session
    sender,        \* the sender goroutine runs
    closed,        \* closeSend has closed the channel
    tracked,       \* r.inflight
    resultBuf,     \* r.resultBuf
    probe,         \* what the Ready probe answers
    last,          \* what the health poller remembers to have told
    blind,         \* at the last connect the poller remembered otherwise
    term,          \* the worker's context is cancelled
    graceOver,     \* DrainGrace has run out
    maxInflight,   \* Config.MaxInflight
    bounds         \* how many drops, beats, flips, edits (bare ones too?) may come, and may term?

brokerVars == <<lease, open, counted>>
streamVars == <<session, stream, down>>
runVars == <<run, held, handlers>>
watchVars == <<watcher, wake>>
muxVars == <<sendCh, mux, sender, closed>>
memory == <<tracked, resultBuf>>
healthVars == <<probe, last, blind>>
envVars == <<term, graceOver, maxInflight, bounds>>
sessionVars == <<brokerVars, streamVars, runVars, watchVars, muxVars, memory, healthVars, envVars>>

SessionInit(d) ==
    /\ lease = [t \in Tasks |->
          [n |-> 1, at |-> IF t \in d.tasks THEN "queued" ELSE "done", by |-> 0]]
    /\ open = {} /\ counted = FALSE
    /\ session = 0 /\ stream = "none" /\ down = <<>>
    /\ run = "idle" /\ held = <<>> /\ handlers = {}
    /\ watcher = "off" /\ wake = FALSE
    /\ sendCh = FALSE /\ mux = <<>> /\ sender = FALSE /\ closed = TRUE
    /\ tracked = {} /\ resultBuf = <<>>
    /\ probe \in d.probe /\ last = (IF probe THEN "unset" ELSE "unready") /\ blind = FALSE
    /\ term = FALSE /\ graceOver = FALSE
    /\ maxInflight = d.maxInflight
    /\ bounds = [drops |-> d.drops, beats |-> d.beats, flips |-> d.flips, edits |-> d.edits, bare |-> d.bare, mortal |-> d.mortal]

Spend(b) == bounds[b] > 0 /\ bounds' = [bounds EXCEPT ![b] = @ - 1]

Task(tok) == [body |-> "task", token |-> tok]
Complete(tok) == [body |-> "complete", token |-> tok]
Interest(ready) == [body |-> "interest", ready |-> ready]
Beat == [body |-> "beat"]

-----------------------------------------------------------------------------
(* The broker.                                                             *)

(* deliver: a token that is not parked here is nobody's.                   *)
Delivered(tok) ==
    IF lease[tok[1]].at = "sent" /\ lease[tok[1]].n = tok[2]
    THEN [lease EXCEPT ![tok[1]].at = "done"] ELSE lease

(* What the handler's receiving loop does with a frame.                    *)
Received(f) ==
    /\ lease' = IF f.body = "complete" THEN Delivered(f.token) ELSE lease
    /\ counted' = IF f.body = "interest" THEN f.ready ELSE counted

(* The handler sends a task when it has a slot of the worker for it.       *)
SendTask(t) ==
    /\ session \in open /\ stream \in {"up", "half"} /\ counted
    /\ lease[t].at = "queued"
    /\ Cardinality({u \in Tasks : lease[u].at = "sent" /\ lease[u].by = session}) < maxInflight
    /\ lease' = [lease EXCEPT ![t].at = "sent", ![t].by = session]
    /\ down' = Append(down, Task(<<t, lease[t].n>>))
    /\ UNCHANGED <<open, counted, session, stream, runVars, watchVars, muxVars, memory, healthVars, envVars>>

Requeued(ts) ==
    [t \in Tasks |-> IF t \in ts THEN [n |-> lease[t].n + 1, at |-> "queued", by |-> 0] ELSE lease[t]]

(* The handler ends once it finds the stream closed: the tasks sent on it  *)
(* that are not complete are abandoned, and claimed anew.                  *)
HandlerEnds(s) ==
    /\ s \in open /\ (s < session \/ stream # "up")
    /\ open' = open \ {s}
    /\ lease' = Requeued({t \in Tasks : lease[t].at = "sent" /\ lease[t].by = s})
    /\ stream' = IF s = session /\ stream = "half" THEN "ended" ELSE stream
    /\ UNCHANGED <<counted, session, down, runVars, watchVars, muxVars, memory, healthVars, envVars>>

OnItsWay(tok) ==
    \/ \E h \in handlers : h.token = tok /\ h.at = "running"
    \/ held = tok
    \/ \E i \in 1 .. Len(down) : down[i] = Task(tok)

(* The stale window outlasts what is about to happen: the sender writes    *)
(* what it has, a handler whose stream is closed ends, and so does a drain *)
(* that waits for no handler.                                              *)
Settled ==
    /\ sender => mux = <<>>
    /\ \A s \in open : s = session /\ stream = "up"
    /\ term => watcher = "park"

(* A task no frame and no handler stands for is not attested: the reaper,  *)
(* or the deadline of its stage, has it claimed anew.                      *)
Reap(t) ==
    /\ lease[t].at = "sent" /\ ~OnItsWay(<<t, lease[t].n>>) /\ Settled
    /\ lease' = Requeued({t})
    /\ UNCHANGED <<open, counted, streamVars, runVars, watchVars, muxVars, memory, healthVars, envVars>>

(* The stream breaks; neither end knows yet.                               *)
Drop ==
    /\ stream = "up"
    /\ Spend("drops")
    /\ stream' = "broken"
    /\ UNCHANGED <<brokerVars, session, down, runVars, watchVars, muxVars, memory, healthVars, term, graceOver, maxInflight>>

-----------------------------------------------------------------------------
(* Run, up to its receiving loop.                                          *)

(* The reconnect loop of worker.run enters Run, which subscribes; the      *)
(* broker counts a fresh stream as ready.                                  *)
Subscribe ==
    /\ run = "idle" /\ ~term
    /\ run' = "burst"
    /\ session' = session + 1 /\ stream' = "up" /\ down' = <<>>
    /\ open' = open \cup {session + 1} /\ counted' = TRUE
    /\ UNCHANGED <<lease, held, handlers, watchVars, muxVars, memory, healthVars, envVars>>

(* The interest frames of the kinds that are not ready follow at once.     *)
InitialUnready ==
    /\ run = "burst"
    /\ \/ run' = "connect" /\ UNCHANGED stream
       \/ ~probe /\ stream = "broken" /\ run' = "idle" /\ stream' = "none"
    /\ counted' = (counted /\ (probe \/ stream # "up"))
    /\ blind' = ((last # "unready") # probe)
    /\ UNCHANGED <<lease, open, session, down, held, handlers, watchVars, muxVars, memory, probe, last, envVars>>

(* Once OnConnect has returned: the mux and its sender.                    *)
Attach ==
    /\ run = "connect"
    /\ run' = "redeliver"
    /\ sendCh' = TRUE /\ mux' = <<>> /\ sender' = TRUE /\ closed' = FALSE
    /\ UNCHANGED <<brokerVars, streamVars, held, handlers, watchVars, memory, healthVars, envVars>>

HasRoom == sendCh /\ Len(mux) < MuxCap

Untracked(tok) == {x \in tracked : x.token # tok}

RedeliverTracked ==
    IF resultBuf # <<>> /\ HasRoom
    THEN /\ mux' = Append(mux, Complete(Head(resultBuf)))
         /\ resultBuf' = Tail(resultBuf)
         /\ UNCHANGED <<tracked, run, watchVars>>
    ELSE /\ run' = "receive" /\ watcher' = "watch" /\ wake' = FALSE
         /\ UNCHANGED <<mux, memory>>

(* redeliverBuffered: as many of the kept results as the mux takes.        *)
RedeliverBuffered ==
    IF resultBuf # <<>> /\ HasRoom
    THEN /\ mux' = Append(mux, Complete(Head(resultBuf)))
         /\ resultBuf' = Tail(resultBuf)
         /\ tracked' = Untracked(Head(resultBuf))
         /\ UNCHANGED <<run, watchVars>>
    ELSE /\ run' = "receive" /\ watcher' = "watch" /\ wake' = FALSE
         /\ UNCHANGED <<mux, memory>>

Redeliver ==
    /\ run = "redeliver"
    /\ RedeliverBuffered
    /\ UNCHANGED <<brokerVars, streamVars, held, handlers, sendCh, sender, closed, healthVars, envVars>>

-----------------------------------------------------------------------------
(* The receiving loop, and its end.                                        *)

ReceiveTask ==
    /\ run = "receive" /\ down # <<>> /\ Head(down).body = "task"
    /\ held' = Head(down).token /\ down' = Tail(down)
    /\ run' = "acquire"
    /\ UNCHANGED <<brokerVars, session, stream, handlers, watchVars, muxVars, memory, healthVars, envVars>>

(* A slot of sem, and the handler starts; or the cancelled context, and    *)
(* the task is left.  With both ready either is taken.                     *)
Acquire ==
    /\ run = "acquire"
    /\ \/ /\ Cardinality(handlers) < maxInflight
          /\ handlers' = handlers \cup {[token |-> held, at |-> "running"]}
          /\ tracked' = tracked \cup {[token |-> held, done |-> FALSE]}
          /\ run' = "receive"
       \/ term /\ run' = "drained" /\ UNCHANGED <<handlers, tracked>>
    /\ held' = <<>>
    /\ UNCHANGED <<brokerVars, streamVars, watchVars, muxVars, resultBuf, healthVars, envVars>>

(* Receive fails, or finds the end of the stream.                          *)
ReceiveEnds ==
    /\ run = "receive" /\ stream \in {"broken", "ended"}
    /\ run' = "drained"
    /\ UNCHANGED <<brokerVars, streamVars, held, handlers, watchVars, muxVars, memory, healthVars, envVars>>

(* wg.Wait, and then closeSend ...                                         *)
Drained ==
    /\ run = "drained" /\ handlers = {}
    /\ run' = "closing"
    /\ closed' = TRUE /\ sendCh' = FALSE
    /\ UNCHANGED <<brokerVars, streamVars, held, handlers, watchVars, mux, sender, memory, healthVars, envVars>>

(* ... which waits for the sender.  Run returns, and the stream is torn    *)
(* down with its context.                                                  *)
Return ==
    /\ run = "closing" /\ ~sender
    /\ run' = IF term THEN "exited" ELSE "idle"
    /\ stream' = "none" /\ down' = <<>> /\ mux' = <<>>
    /\ watcher' = "off"
    /\ UNCHANGED <<brokerVars, session, held, handlers, wake, sendCh, sender, closed, memory, healthVars, envVars>>

(* Cancelled between two sessions.                                         *)
Exit ==
    /\ run = "idle" /\ term
    /\ run' = "exited"
    /\ UNCHANGED <<brokerVars, streamVars, held, handlers, watchVars, muxVars, memory, healthVars, envVars>>

RunStep ==
    \/ Redeliver \/ ReceiveTask \/ Acquire \/ ReceiveEnds \/ Drained \/ Return \/ Exit

-----------------------------------------------------------------------------
(* Handlers, the sender, the watcher and the ticker.                       *)

(* runStage and send: a handler that has its result, or has panicked, puts *)
(* it on the mux; without a mux, or with a full one, it keeps it.          *)
Send(h) ==
    /\ h.at = "running"
    /\ handlers' = (handlers \ {h}) \cup {[h EXCEPT !.at = "leaving"]}
    /\ \/ /\ HasRoom
          /\ mux' = Append(mux, Complete(h.token))
          /\ tracked' = Untracked(h.token)
          /\ UNCHANGED resultBuf
       \/ /\ ~HasRoom /\ Len(resultBuf) < ResultBufCap
          /\ resultBuf' = Append(resultBuf, h.token)
          /\ tracked' = Untracked(h.token) \cup {[token |-> h.token, done |-> TRUE]}
          /\ UNCHANGED mux
       \/ /\ ~HasRoom /\ Len(resultBuf) >= ResultBufCap
          /\ tracked' = Untracked(h.token)
          /\ UNCHANGED <<mux, resultBuf>>
    /\ UNCHANGED <<brokerVars, streamVars, run, held, watchVars, sendCh, sender, closed, healthVars, envVars>>

LeaveKeepingSlot(h) ==
    /\ h.at = "leaving"
    /\ UNCHANGED <<handlers, wake>>

LeaveUnwoken(h) ==
    /\ h.at = "leaving"
    /\ handlers' = handlers \ {h}
    /\ wake' = (wake \/ (handlers' = {} /\ watcher = "park"))

(* The slot is free again, and the last one out wakes the watcher.         *)
Leave(h) ==
    /\ h.at = "leaving"
    /\ handlers' = handlers \ {h}
    /\ wake' = (wake \/ handlers' = {})

LeaveStep(h) ==
    /\ Leave(h)
    /\ UNCHANGED <<brokerVars, streamVars, run, held, watcher, muxVars, memory, healthVars, envVars>>

(* The sender writes the next frame.  On a stream that is not up the frame *)
(* is lost, or the error detaches the mux.                                 *)
Flush ==
    /\ sender /\ mux # <<>>
    /\ \/ stream = "up" /\ Received(Head(mux)) /\ mux' = Tail(mux) /\ UNCHANGED <<sender, sendCh>>
       \/ stream # "up" /\ mux' = Tail(mux) /\ UNCHANGED <<lease, counted, sender, sendCh>>
       \/ stream # "up" /\ sender' = FALSE /\ sendCh' = FALSE /\ UNCHANGED <<lease, counted, mux>>
    /\ UNCHANGED <<open, streamVars, runVars, watchVars, closed, memory, healthVars, envVars>>

SenderEnds ==
    /\ sender /\ mux = <<>> /\ closed
    /\ sender' = FALSE
    /\ UNCHANGED <<brokerVars, streamVars, runVars, watchVars, sendCh, mux, closed, memory, healthVars, envVars>>

(* The watcher: the context is cancelled ...                               *)
WatchTerm ==
    /\ watcher = "watch" /\ term
    /\ watcher' = "check"
    /\ UNCHANGED <<brokerVars, streamVars, runVars, wake, muxVars, memory, healthVars, envVars>>

(* ... and nothing is in flight: closeSend; else it waits to be woken.     *)
WatchCheck ==
    /\ watcher = "check"
    /\ IF handlers = {}
       THEN watcher' = "closing" /\ closed' = TRUE /\ sendCh' = FALSE
       ELSE watcher' = "parking" /\ UNCHANGED <<closed, sendCh>>
    /\ UNCHANGED <<brokerVars, streamVars, runVars, wake, mux, sender, memory, healthVars, envVars>>

WatchParks ==
    /\ watcher = "parking"
    /\ watcher' = "park"
    /\ UNCHANGED <<brokerVars, streamVars, runVars, wake, muxVars, memory, healthVars, envVars>>

WatchWoken ==
    /\ watcher = "park" /\ wake
    /\ watcher' = "check" /\ wake' = FALSE
    /\ UNCHANGED <<brokerVars, streamVars, runVars, muxVars, memory, healthVars, envVars>>

WatchEnds ==
    /\ watcher \in {"watch", "park"} /\ graceOver
    /\ watcher' = "off"
    /\ UNCHANGED <<brokerVars, streamVars, runVars, wake, muxVars, memory, healthVars, envVars>>

(* closeSend has returned: the sender has written everything.              *)
Flushed == watcher = "closing" /\ ~sender

CloseRequest ==
    /\ Flushed
    /\ watcher' = "off"
    /\ stream' = IF stream = "up" THEN "half" ELSE stream
    /\ UNCHANGED <<brokerVars, session, down, runVars, wake, muxVars, memory, healthVars, envVars>>

(* attestLoop: a frame for the tasks whose handler runs.                   *)
Attest ==
    /\ \E x \in tracked : ~x.done
    /\ HasRoom /\ ~graceOver
    /\ Spend("beats")
    /\ mux' = Append(mux, Beat)
    /\ UNCHANGED <<brokerVars, streamVars, runVars, watchVars, sendCh, sender, closed, memory, healthVars, term, graceOver, maxInflight>>

-----------------------------------------------------------------------------
(* The health poller, and what comes from outside.                         *)

Told == IF probe THEN "ready" ELSE "unready"

EmitLatching ==
    /\ ~(probe /\ last = "unset") /\ last # Told
    /\ last' = Told
    /\ mux' = IF HasRoom THEN Append(mux, Interest(probe)) ELSE mux

(* An edge is sent, and remembered once it is on the mux.                  *)
Emit ==
    /\ ~(probe /\ last = "unset") /\ last # Told
    /\ HasRoom
    /\ last' = Told
    /\ mux' = Append(mux, Interest(probe))

Poll ==
    /\ ~term
    /\ Emit
    /\ UNCHANGED <<brokerVars, streamVars, runVars, watchVars, sendCh, sender, closed, memory, probe, blind, envVars>>

ProbeFlips ==
    /\ Spend("flips")
    /\ probe' = ~probe
    /\ UNCHANGED <<brokerVars, streamVars, runVars, watchVars, muxVars, memory, last, blind, term, graceOver, maxInflight>>

Terminate ==
    /\ bounds.mortal /\ ~term
    /\ term' = TRUE
    /\ UNCHANGED <<brokerVars, streamVars, runVars, watchVars, muxVars, memory, healthVars, graceOver, maxInflight, bounds>>

(* DrainGrace runs out: the context of the stream is cancelled.            *)
GraceExpires ==
    /\ term /\ ~graceOver /\ run # "exited"
    /\ graceOver' = TRUE
    /\ stream' = IF stream = "none" THEN stream ELSE "broken"
    /\ UNCHANGED <<brokerVars, session, down, runVars, watchVars, muxVars, memory, healthVars, term, maxInflight, bounds>>

HandlerStep == \E h \in handlers : Send(h) \/ LeaveStep(h)
SenderStep == Flush \/ SenderEnds
WatcherStep == WatchTerm \/ WatchCheck \/ WatchParks \/ WatchWoken \/ WatchEnds \/ CloseRequest
=============================================================================
