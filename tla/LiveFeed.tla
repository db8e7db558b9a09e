------------------------------ MODULE LiveFeed ------------------------------
(***************************************************************************)
(* How events published on Redis reach the clients of one API process: the *)
(* bridge hands each to the queues of the SSE streams and then sends it to *)
(* the dashboards' web sockets one after the other, and other handlers run *)
(* at each of these sends. System alerts go to streams only.               *)
(***************************************************************************)
EXTENDS Naturals, Sequences, FiniteSets, SequencesExt

CONSTANTS
    Streams, Dashboards, \* clients
    Topics,     \* schedules, and "alerts"
    Watches,    \* client -> topic
    QueueSize,  \* maxsize of a stream's queue
    MaxEvents   \* bound on the events

ASSUME FeedAssumption ==
    /\ Watches \in [Streams \cup Dashboards -> Topics] /\ Streams \cap Dashboards = {}
    /\ QueueSize \in Nat \ {0} /\ MaxEvents \in Nat

VARIABLES
    log,        \* topics of the events published so far; an event is its number
    handed,     \* the last event the bridge read
    bridge,     \* "listening", "sending" or, after an error, "ended"
    queue,      \* queue of each stream
    stream,     \* "new", "waiting" for its generator to start, "open", "gone",
                \* or "leaked": subscribed for ever, with no client
    dashboard,  \* "new", "open", "lost" before its handler notices, "gone"
    subscribers, \* topic -> dashboards
    round,      \* the broadcast under way, or the last one
    got,        \* history: what each client received
    since,      \* history: the last event handed on before a stream came
    dropped     \* history: streams whose queue was full once

feedVars == <<log, handed, bridge, queue, stream, dashboard, subscribers, round, got, since, dropped>>

Subscribed == {s \in Streams : stream[s] \in {"waiting", "open", "leaked"}}

FeedTypeOK ==
    /\ handed \in 0 .. Len(log) /\ bridge \in {"listening", "sending", "ended"}
    /\ \A s \in Streams : Len(queue[s]) <= QueueSize
    /\ stream \in [Streams -> {"new", "waiting", "open", "gone", "leaked"}]
    /\ dashboard \in [Dashboards -> {"new", "open", "lost", "gone"}]
    /\ \A t \in Topics : \A d \in subscribers[t] : Watches[d] = t
    /\ round.todo \cup round.at \cup round.dead \subseteq Dashboards
    /\ dropped \subseteq Streams
-----------------------------------------------------------------------------
FeedInit ==
    /\ log = <<>> /\ handed = 0 /\ bridge = "listening"
    /\ queue = [s \in Streams |-> <<>>] /\ stream = [s \in Streams |-> "new"]
    /\ dashboard = [d \in Dashboards |-> "new"] /\ subscribers = [t \in Topics |-> {}]
    /\ round = [topic |-> "none", audience |-> {}, todo |-> {}, at |-> {}, dead |-> {},
                mixed |-> FALSE, own |-> TRUE]
    /\ got = [c \in Streams \cup Dashboards |-> <<>>]
    /\ since = [s \in Streams |-> 0] /\ dropped = {}

(* A worker publishes; after the bridge's end nobody reads it.             *)
Publish(t) ==
    /\ Len(log) < MaxEvents
    /\ log' = Append(log, t)
    /\ UNCHANGED <<handed, bridge, queue, stream, dashboard, subscribers, round, got, since, dropped>>

(* An error of the subscription ends _bridge_loop.                         *)
BridgeFails ==
    /\ bridge = "listening"
    /\ bridge' = "ended"
    /\ UNCHANGED <<log, handed, queue, stream, dashboard, subscribers, round, got, since, dropped>>

(* One message: SSEBroadcaster.publish or SystemSSEBroadcaster.publish,    *)
(* and the first steps of broadcast.                                       *)
Dispatch ==
    /\ bridge = "listening" /\ handed < Len(log)
    /\ handed' = handed + 1
    /\ LET topic == log[handed']
           full == {s \in Streams : Len(queue[s]) = QueueSize}
           watching == {s \in Subscribed : Watches[s] = topic}
           audience == IF topic = "alerts" THEN {} ELSE subscribers[topic]
       IN /\ queue' = [s \in Streams |-> IF s \in watching \ full THEN Append(queue[s], handed') ELSE queue[s]]
          /\ dropped' = dropped \cup (watching \cap full)
          /\ bridge' = IF audience = {} THEN "listening" ELSE "sending"
          /\ round' = [topic |-> topic, audience |-> audience, todo |-> audience, at |-> {},
                       dead |-> {}, mixed |-> FALSE, own |-> TRUE]
    /\ UNCHANGED <<log, stream, dashboard, subscribers, got, since>>

(* broadcast iterates over the set itself, which may not change its size   *)
(* in between; after changes that keep it, the rest is some of its members.*)
SameSize == round.own /\ Cardinality(subscribers[round.topic]) = Cardinality(round.audience)

SendNext(d) ==
    /\ bridge = "sending" /\ round.at = {} /\ SameSize
    /\ d \in round.todo
    /\ round' = [round EXCEPT !.at = {d}, !.todo = @ \ {d}]
    /\ UNCHANGED <<log, handed, bridge, queue, stream, dashboard, subscribers, got, since, dropped>>

(* Mutant: a socket whose send raised is discarded at once.                *)
EventSendRaisesDiscarding(d) ==
    /\ round.at = {d} /\ dashboard[d] # "open"
    /\ round' = [round EXCEPT !.at = {}]
    /\ subscribers' = [subscribers EXCEPT ![round.topic] = @ \ {d}]
    /\ UNCHANGED <<log, handed, bridge, queue, stream, dashboard, got, since, dropped>>

EventSendRaises(d) ==
    /\ round.at = {d} /\ dashboard[d] # "open"
    /\ round' = [round EXCEPT !.at = {}, !.dead = @ \cup {d}]
    /\ UNCHANGED <<log, handed, bridge, queue, stream, dashboard, subscribers, got, since, dropped>>

(* A message to a socket that is lost may go nowhere without an error.     *)
EventSent(d) ==
    /\ round.at = {d} /\ dashboard[d] # "gone"
    /\ round' = [round EXCEPT !.at = {}]
    /\ got' = IF dashboard[d] = "open" THEN [got EXCEPT ![d] = Append(@, handed)] ELSE got
    /\ UNCHANGED <<log, handed, bridge, queue, stream, dashboard, subscribers, since, dropped>>

(* RuntimeError: Set changed size during iteration                         *)
RoundFails ==
    /\ bridge = "sending" /\ round.at = {} /\ ~SameSize
    /\ bridge' = "listening"
    /\ UNCHANGED <<log, handed, queue, stream, dashboard, subscribers, round, got, since, dropped>>

FinishRound ==
    /\ bridge = "sending" /\ round.at = {} /\ SameSize
    /\ round.todo = {}
    /\ bridge' = "listening"
    /\ subscribers' = [subscribers EXCEPT ![round.topic] = @ \ round.dead]
    /\ UNCHANGED <<log, handed, queue, stream, dashboard, round, got, since, dropped>>
-----------------------------------------------------------------------------
(* Other handlers run when the bridge waits for a message or for a send.   *)
Awaiting == bridge = "sending" => round.at # {}

(* attendance_sse_stream, system_alerts_sse_stream: the queue is there     *)
(* before the generator starts, and only a generator that has started      *)
(* takes it away again.                                                    *)
OpenStream(s) ==
    /\ stream[s] = "new" /\ Awaiting
    /\ stream' = [stream EXCEPT ![s] = "waiting"]
    /\ since' = [since EXCEPT ![s] = handed]
    /\ UNCHANGED <<log, handed, bridge, queue, dashboard, subscribers, round, got, dropped>>

StartStream(s) ==
    /\ stream[s] = "waiting" /\ Awaiting
    /\ stream' \in {[stream EXCEPT ![s] = "open"], [stream EXCEPT ![s] = "leaked"]}
    /\ UNCHANGED <<log, handed, bridge, queue, dashboard, subscribers, round, got, since, dropped>>

Receive(s) ==
    /\ stream[s] = "open" /\ queue[s] # <<>> /\ Awaiting
    /\ queue' = [queue EXCEPT ![s] = Tail(@)]
    /\ got' = [got EXCEPT ![s] = Append(@, Head(queue[s]))]
    /\ UNCHANGED <<log, handed, bridge, stream, dashboard, subscribers, round, since, dropped>>

CloseStream(s) ==
    /\ stream[s] = "open" /\ Awaiting
    /\ stream' = [stream EXCEPT ![s] = "gone"]
    /\ queue' = [queue EXCEPT ![s] = <<>>]
    /\ UNCHANGED <<log, handed, bridge, dashboard, subscribers, round, got, since, dropped>>

(* The members of the set iterated over are changed.                       *)
Mixes(topic, members) ==
    IF bridge # "sending" \/ round.topic # topic THEN round' = round
    ELSE \E rest \in SUBSET members :
            round' = [round EXCEPT !.mixed = TRUE, !.todo = rest, !.own = @ /\ members # {}]

(* attendance_ws: subscribe, the loss of the socket, unsubscribe. The last *)
(* one out deletes the entry, and who comes next starts another set.       *)
Join(d) ==
    /\ dashboard[d] = "new" /\ Awaiting
    /\ dashboard' = [dashboard EXCEPT ![d] = "open"]
    /\ subscribers' = [subscribers EXCEPT ![Watches[d]] = @ \cup {d}]
    /\ Mixes(Watches[d], subscribers'[Watches[d]])
    /\ UNCHANGED <<log, handed, bridge, queue, stream, got, since, dropped>>

LoseDashboard(d) ==
    /\ dashboard[d] = "open"
    /\ dashboard' = [dashboard EXCEPT ![d] = "lost"]
    /\ UNCHANGED <<log, handed, bridge, queue, stream, subscribers, round, got, since, dropped>>

Leave(d) ==
    /\ dashboard[d] = "lost" /\ Awaiting
    /\ dashboard' = [dashboard EXCEPT ![d] = "gone"]
    /\ subscribers' = [subscribers EXCEPT ![Watches[d]] = @ \ {d}]
    /\ IF d \in subscribers[Watches[d]] THEN Mixes(Watches[d], subscribers'[Watches[d]]) ELSE round' = round
    /\ UNCHANGED <<log, handed, bridge, queue, stream, got, since, dropped>>

FeedNext ==
    \/ BridgeFails \/ Dispatch \/ RoundFails \/ FinishRound
    \/ \E t \in Topics : Publish(t)
    \/ \E s \in Streams : OpenStream(s) \/ StartStream(s) \/ Receive(s) \/ CloseStream(s)
    \/ \E d \in Dashboards : SendNext(d) \/ EventSendRaises(d) \/ EventSent(d) \/ Join(d) \/ LoseDashboard(d) \/ Leave(d)

FeedSpec == FeedInit /\ [][FeedNext]_feedVars
-----------------------------------------------------------------------------
(* A stream gets every event of its topic that the bridge reads from its   *)
(* subscription on, in order and once, as long as its queue was never      *)
(* full; and whatever the other clients do, a dashboard that is connected  *)
(* gets each event whose broadcast nobody joins or leaves.                 *)
FeedReachesListeners ==
    /\ \A s \in {r \in Streams : stream[r] \in {"waiting", "open"}} \ dropped :
          LET sent == got[s] \o queue[s]
          IN /\ Range(sent) = {e \in since[s] + 1 .. handed : log[e] = Watches[s]}
             /\ \A i, j \in DOMAIN sent : i < j => sent[i] < sent[j]
    /\ bridge = "listening" /\ ~round.mixed =>
          \A d \in round.audience : dashboard[d] = "open" => handed \in Range(got[d])
=============================================================================
