----------------------------- MODULE SignalBroker -----------------------------
(***************************************************************************)
(* The signalling broker of server/signal_broker.go and the handlers of     *)
(* server/signal_handlers.go that use it, on every node of a cluster.  A    *)
(* stream handler subscribes a buffered channel, copies what it receives to *)
(* its SSE client and unsubscribes when the client is gone.  A publish      *)
(* request copies the subscriber list under the read lock, sends to each    *)
(* channel after releasing it, and then relays the signal to the other      *)
(* nodes, which publish it in turn.                                         *)
(*                                                                          *)
(* A critical section of the broker's lock is one action; so is one channel *)
(* operation.  The topics here are those the caller may use: canSubscribe   *)
(* and validTopic refuse the others before anything changes.                *)
(***************************************************************************)
EXTENDS Naturals, Sequences, SequencesExt

CONSTANTS
    Node,        \* app servers
    Topic,       \* signalling topics
    Stream,      \* GET /v1/signal/stream requests
    Signal,      \* POST /v1/signal/publish requests, standing for their payload
    Buffer,      \* capacity of a subscriber channel (64 in the code)
    RelayMayFail \* whether PublishPluginClusterEvent may lose a signal

ASSUME BrokerAssumption == Buffer \in Nat \ {0} /\ RelayMayFail \in BOOLEAN

VARIABLES
    node,       \* the node each stream is connected to
    topic,      \* the topic it asks for
    stream,     \* "new", "open", "leaving" (unsubscribed), "closed"
    subs,       \* subscribers of a topic on a node, in order
    buffer,     \* what is in each subscriber channel
    written,    \* what was written to each SSE client
    origin,     \* the node that serves each publish request
    about,      \* its topic
    task,       \* the goroutine that publishes a signal on a node
    todo,       \* the rest of the subscriber list it copied
    returned,   \* requests that were answered
    before      \* requests that had been answered when a request started

vars == <<node, topic, stream, subs, buffer, written, origin, about, task,
          todo, returned, before>>

request == <<node, topic, origin, about>>

Task == {"none", "ready", "sending", "relay", "done", "panicked"}

Init ==
    /\ node \in [Stream -> Node] /\ topic \in [Stream -> Topic]
    /\ origin \in [Signal -> Node] /\ about \in [Signal -> Topic]
    /\ stream = [k \in Stream |-> "new"]
    /\ subs = [n \in Node |-> [t \in Topic |-> <<>>]]
    /\ buffer = [k \in Stream |-> <<>>]
    /\ written = [k \in Stream |-> <<>>]
    /\ task = [s \in Signal |-> [n \in Node |->
                  IF n = origin[s] THEN "ready" ELSE "none"]]
    /\ todo = [s \in Signal |-> [n \in Node |-> <<>>]]
    /\ returned = {}
    /\ before = [s \in Signal |-> {}]

-----------------------------------------------------------------------------
(* A stream handler.                                                        *)

Subscribe(k) ==
    /\ stream[k] = "new"
    /\ stream' = [stream EXCEPT ![k] = "open"]
    /\ subs' = [subs EXCEPT ![node[k]][topic[k]] = Append(@, k)]
    /\ UNCHANGED <<request, buffer, written, task, todo, returned, before>>

\* case msg := <-ch
Write(k) ==
    /\ stream[k] = "open" /\ buffer[k] # <<>>
    /\ buffer' = [buffer EXCEPT ![k] = Tail(@)]
    /\ written' = [written EXCEPT ![k] = Append(@, Head(buffer[k]))]
    /\ UNCHANGED <<request, stream, subs, task, todo, returned, before>>

\* Mutant: the channel is closed before it is taken off the list.
UnsubscribeLate(k) ==
    /\ stream[k] = "open"
    /\ stream' = [stream EXCEPT ![k] = "leaving"]
    /\ UNCHANGED <<request, subs, buffer, written, task, todo, returned, before>>

\* The client is gone (case <-ctx.Done(), or a write failed): the deferred
\* unsubscribe removes the channel from its list, and then closes it.
Unsubscribe(k) ==
    /\ stream[k] = "open"
    /\ stream' = [stream EXCEPT ![k] = "leaving"]
    /\ \E i \in DOMAIN subs[node[k]][topic[k]] :
          /\ subs[node[k]][topic[k]][i] = k
          /\ subs' = [subs EXCEPT ![node[k]][topic[k]] = RemoveAt(@, i)]
    /\ UNCHANGED <<request, buffer, written, task, todo, returned, before>>

CloseChannel(k) ==
    /\ stream[k] = "leaving"
    /\ stream' = [stream EXCEPT ![k] = "closed"]
    /\ UNCHANGED <<request, subs, buffer, written, task, todo, returned, before>>

-----------------------------------------------------------------------------
(* publish(), by the request's node or by OnPluginClusterEvent.             *)

SetTask(s, n, state) == task' = [task EXCEPT ![s][n] = state]

\* Mutant: the handler answers while a goroutine publishes.
SnapshotInBackground(s, n) ==
    /\ task[s][n] = "ready"
    /\ SetTask(s, n, "sending")
    /\ todo' = [todo EXCEPT ![s][n] = subs[n][about[s]]]
    /\ before' = IF n = origin[s]
                 THEN [before EXCEPT ![s] = returned] ELSE before
    /\ returned' = IF n = origin[s] THEN returned \cup {s} ELSE returned
    /\ UNCHANGED <<request, stream, subs, buffer, written>>

\* Copy the subscriber list under the read lock.
Snapshot(s, n) ==
    /\ task[s][n] = "ready"
    /\ SetTask(s, n, "sending")
    /\ todo' = [todo EXCEPT ![s][n] = subs[n][about[s]]]
    /\ before' = IF n = origin[s]
                 THEN [before EXCEPT ![s] = returned] ELSE before
    /\ UNCHANGED <<request, stream, subs, buffer, written, returned>>

\* Mutant: a blocking send.
SendBlocking(s, n) ==
    /\ task[s][n] = "sending" /\ todo[s][n] # <<>>
    /\ LET k == Head(todo[s][n]) IN
        /\ Len(buffer[k]) < Buffer
        /\ buffer' = [buffer EXCEPT ![k] = Append(@, s)]
    /\ todo' = [todo EXCEPT ![s][n] = Tail(@)]
    /\ UNCHANGED <<request, stream, subs, written, task, returned, before>>

\* select { case dst <- p: default: }; a send on a closed channel panics.
Send(s, n) ==
    /\ task[s][n] = "sending" /\ todo[s][n] # <<>>
    /\ LET k == Head(todo[s][n]) IN
        \/ /\ stream[k] = "closed"
           /\ SetTask(s, n, "panicked")
           /\ UNCHANGED <<buffer, todo>>
        \/ /\ stream[k] # "closed" /\ Len(buffer[k]) < Buffer
           /\ buffer' = [buffer EXCEPT ![k] = Append(@, s)]
           /\ todo' = [todo EXCEPT ![s][n] = Tail(@)]
           /\ UNCHANGED task
        \/ /\ stream[k] # "closed" /\ Len(buffer[k]) >= Buffer
           /\ todo' = [todo EXCEPT ![s][n] = Tail(@)]
           /\ UNCHANGED <<buffer, task>>
    /\ UNCHANGED <<request, stream, subs, written, returned, before>>

Finish(s, n) ==
    /\ task[s][n] = "sending" /\ todo[s][n] = <<>>
    /\ SetTask(s, n, IF n = origin[s] THEN "relay" ELSE "done")
    /\ UNCHANGED <<request, stream, subs, buffer, written, todo, returned, before>>

\* Mutant: the cluster event also comes back to the node that sent it.
RelayEchoes(s) ==
    /\ task[s][origin[s]] = "relay"
    /\ task' = [task EXCEPT ![s] = [n \in Node |-> "ready"]]
    /\ returned' = returned \cup {s}
    /\ UNCHANGED <<request, stream, subs, buffer, written, todo, before>>

\* Mutant: a state no handler knows.
RelayLeavesQueued(s) ==
    /\ task[s][origin[s]] = "relay"
    /\ task' = [task EXCEPT ![s] = [n \in Node |-> "queued"]]
    /\ returned' = returned \cup {s}
    /\ UNCHANGED <<request, stream, subs, buffer, written, todo, before>>

\* broadcastToCluster: the other nodes will publish the signal; the response
\* is written.
Relay(s) ==
    /\ task[s][origin[s]] = "relay"
    /\ \E reached \in (IF RelayMayFail THEN SUBSET (Node \ {origin[s]})
                       ELSE {Node \ {origin[s]}}) :
        task' = [task EXCEPT ![s] = [n \in Node |->
                    CASE n = origin[s] -> "done"
                      [] n \in reached -> "ready"
                      [] OTHER -> @[n]]]
    /\ returned' = returned \cup {s}
    /\ UNCHANGED <<request, stream, subs, buffer, written, todo, before>>

Publish(s, n) == Snapshot(s, n) \/ Send(s, n) \/ Finish(s, n)

Next ==
    \/ \E k \in Stream : \/ Subscribe(k) \/ Write(k)
                         \/ Unsubscribe(k) \/ CloseChannel(k)
    \/ \E s \in Signal : Relay(s) \/ \E n \in Node : Publish(s, n)

Spec == Init /\ [][Next]_vars

\* Publishing goroutines run.  No fairness of the stream handlers: a client
\* may stop reading its connection.
FairSpec ==
    /\ Spec
    /\ \A s \in Signal : /\ WF_vars(Relay(s))
                         /\ \A n \in Node : WF_vars(Publish(s, n))

-----------------------------------------------------------------------------
(* Properties.                                                              *)

TypeOK ==
    /\ node \in [Stream -> Node] /\ topic \in [Stream -> Topic]
    /\ origin \in [Signal -> Node] /\ about \in [Signal -> Topic]
    /\ stream \in [Stream -> {"new", "open", "leaving", "closed"}]
    /\ subs \in [Node -> [Topic -> Seq(Stream)]]
    /\ buffer \in [Stream -> Seq(Signal)]
    /\ written \in [Stream -> Seq(Signal)]
    /\ task \in [Signal -> [Node -> Task]]
    /\ todo \in [Signal -> [Node -> Seq(Stream)]]
    /\ returned \subseteq Signal
    /\ before \in [Signal -> SUBSET Signal]

Received(k) == written[k] \o buffer[k]

\* A subscriber channel never holds more than its capacity, and a client never
\* gets a signal twice, from its own node and again through the cluster.
AtMostOnce ==
    \A k \in Stream :
        /\ Len(buffer[k]) <= Buffer
        /\ IsInjective(Received(k))

\* Signals that one node publishes one after the other reach a stream of that
\* node in that order (mesh.js:74 "per-recipient ordering is preserved").
LocalOrder ==
    \A k \in Stream : \A i, j \in 1 .. Len(Received(k)) :
        LET s == Received(k)[i]
            q == Received(k)[j]
        IN s \in before[q] /\ origin[s] = node[k] /\ origin[q] = node[k]
              => i < j

\* A channel is off its list before it is closed, so a publish that starts
\* afterwards cannot meet it ("Publishing afterwards must not panic").
ClosedIsUnlisted ==
    \A k \in Stream : k \in ToSet(subs[node[k]][topic[k]]) <=> stream[k] = "open"

\* Publishing does not panic when a subscriber leaves at the same time.
NoPanic == \A s \in Signal, n \in Node : task[s][n] # "panicked"

\* A subscriber that does not read never holds up a publish request, which
\* always gets its response unless it panics: "must not block the broker".
PublishReturns ==
    \A s \in Signal : <>(task[s][origin[s]] \in {"done", "panicked"})
===============================================================================
