---------------------------- MODULE AppBootstrap ----------------------------
(***************************************************************************)
(* How the Basecamp app (app/qml/Main.qml) starts its Delivery node,       *)
(* subscribes to the topic and lists what arrives: a chain of callbacks,   *)
(* and a queue of module events that the bridge hands over one at a time.  *)
(* Whether the node starts within the call of start or later, with a       *)
(* nodeStarted event, depends on the build of delivery_module.             *)
(***************************************************************************)
EXTENDS Naturals, Sequences

CONSTANTS Document,     \* envelopes: what a row of the list is made from
          Junk,         \* a payload that is no JSON object with a cid
          MaxMessages   \* bound: messages the node hands over

ASSUME BootstrapAssumption == Junk \notin Document /\ MaxMessages \in Nat

Payload == Document \cup {Junk}

\* Events of delivery_module; a message on another topic is marked so.
Message == [payload : Payload, ours : BOOLEAN]
NodeStarted == [started |-> TRUE]
Event == Message \cup {NodeStarted}

VARIABLES call,       \* the bootstrap call that has not been answered
          node,       \* state of the Delivery node
          async,      \* whether this build starts its node asynchronously
          subscribes, \* calls of subscribe that have not been answered
          subscribed, \* whether the node buffers the topic
          nodeReady,
          events,     \* module events not handed over yet
          received,   \* history: documents the node received on our topic
          documents,  \* documentsModel, newest first
          messages    \* messages so far, for MaxMessages

vars == <<call, node, async, subscribes, subscribed, nodeReady, events,
          received, documents, messages>>

\* Component.onCompleted up to its first call.
Init ==
    /\ call = "createNode"
    /\ node = "absent"
    /\ async \in BOOLEAN
    /\ subscribes = 0
    /\ subscribed = FALSE
    /\ nodeReady = FALSE
    /\ events = <<>>
    /\ received = {}
    /\ documents = <<>>
    /\ messages = 0

-----------------------------------------------------------------------------

\* The callback of createNode calls start.
NodeCreated ==
    /\ call = "createNode"
    /\ call' = "start"
    /\ node' = "created"
    /\ UNCHANGED <<async, subscribes, subscribed, nodeReady, events, received,
                   documents, messages>>

subscribeTopic == subscribes' = subscribes + 1

\* The callback of start subscribes, whether the node is up yet or not.
StartAnswered ==
    /\ call = "start"
    /\ call' = "none"
    /\ node' = IF async THEN node ELSE "up"
    /\ subscribeTopic
    /\ UNCHANGED <<async, subscribed, nodeReady, events, received, documents, messages>>

\* An asynchronous start ends, before or after it was answered, and is announced.
NodeStarts ==
    /\ async /\ node = "created"
    /\ node' = "up"
    /\ events' = Append(events, NodeStarted)
    /\ UNCHANGED <<call, async, subscribes, subscribed, nodeReady, received,
                   documents, messages>>

\* A subscription takes effect on a node that is up; before, it is an error.
\* That it is not refused on such a node is assumed of delivery_module, as is
\* that createNode and start succeed: the callbacks do not look at the answers,
\* and nothing calls again.
Subscribed ==
    /\ subscribes > 0
    /\ node = "up"
    /\ ~subscribed
    /\ subscribed' = TRUE
    /\ UNCHANGED <<call, node, async, subscribes, nodeReady, events, received,
                   documents, messages>>

\* The callback of subscribe, whatever the answer.
SubscribeAnswered ==
    /\ subscribes > 0
    /\ node = "up" => subscribed
    /\ subscribes' = subscribes - 1
    /\ nodeReady' = TRUE
    /\ UNCHANGED <<call, node, async, subscribed, events, received, documents, messages>>

\* The node hands over a message; it may be one of another topic.
Relay(m) ==
    /\ subscribed
    /\ messages < MaxMessages
    /\ messages' = messages + 1
    /\ events' = Append(events, m)
    /\ received' = received \cup (IF m.ours THEN {m.payload} \ {Junk} ELSE {})
    /\ UNCHANGED <<call, node, async, subscribes, subscribed, nodeReady, documents>>

\* Mutant of OnNodeStarted: the event is only logged.
OnNodeStartedLogs ==
    /\ events # <<>> /\ Head(events) = NodeStarted
    /\ events' = Tail(events)
    /\ UNCHANGED <<call, node, async, subscribes, subscribed, nodeReady,
                   received, documents, messages>>

\* onModuleEventReceived for nodeStarted: subscribe (again).
OnNodeStarted ==
    /\ events # <<>> /\ Head(events) = NodeStarted
    /\ events' = Tail(events)
    /\ subscribeTopic
    /\ UNCHANGED <<call, node, async, subscribed, nodeReady, received, documents, messages>>

\* Mutant of handleMessageReceived: what arrives before nodeReady is set is left out.
HandleWhenReady ==
    /\ events # <<>> /\ Head(events) # NodeStarted
    /\ events' = Tail(events)
    /\ documents' = IF nodeReady /\ Head(events).ours /\ Head(events).payload # Junk
                    THEN <<Head(events).payload>> \o documents ELSE documents
    /\ UNCHANGED <<call, node, async, subscribes, subscribed, nodeReady, received, messages>>

\* handleMessageReceived: a document goes on top of the list; other topics,
\* other JSON and what does not parse are left out.
handleMessageReceived ==
    /\ events # <<>> /\ Head(events) # NodeStarted
    /\ events' = Tail(events)
    /\ documents' = IF Head(events).ours /\ Head(events).payload # Junk
                    THEN <<Head(events).payload>> \o documents ELSE documents
    /\ UNCHANGED <<call, node, async, subscribes, subscribed, nodeReady, received, messages>>

Bootstrap ==
    NodeCreated \/ StartAnswered \/ NodeStarts \/ Subscribed \/ SubscribeAnswered

OnEvent == OnNodeStarted \/ handleMessageReceived

Next == Bootstrap \/ OnEvent \/ \E m \in Message : Relay(m)

Spec == Init /\ [][Next]_vars

\* Calls are answered, a node that is starting starts, events are handed over.
FairSpec == Spec /\ WF_vars(Bootstrap) /\ WF_vars(OnEvent)

-----------------------------------------------------------------------------

Listed == {documents[i] : i \in DOMAIN documents}

\* The app ends up subscribed whichever way the node starts, also when the
\* first call of subscribe comes too early ("Some builds emit nodeStarted
\* async; subscribe now anyway, and (idempotently) again", Main.qml); a node that
\* is up is assumed to accept it.
SubscribedOnceUp == <>subscribed

\* A document the node received is listed, also one that arrives before the
\* subscription is answered, and whatever comes in front of it; and nothing is
\* that did not arrive on the topic.
ReceivedIsListed ==
    /\ [](Listed \subseteq received)
    /\ \A d \in Document : d \in received ~> d \in Listed

=============================================================================
