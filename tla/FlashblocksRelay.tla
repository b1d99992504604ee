--------------------------- MODULE FlashblocksRelay ---------------------------
(***************************************************************************)
(* Flashblocks from the sidecar's publisher to the websocket proxy:        *)
(* WebSocketPublisher and WebsocketSubscriber at the two ends of           *)
(* connections that may break at any moment.                               *)
(***************************************************************************)
EXTENDS WebSocketLink, FiniteSets

CONSTANTS Conns, NoConn, Capacity, WireCapacity, MaxPublished

ASSUME RelayAssumption ==
    /\ NoConn \notin Conns
    /\ Capacity \in Nat \ {0} /\ WireCapacity \in Nat \ {0}
    /\ MaxPublished \in Nat

VARIABLES link, published, term, subs, listener, task,
          at, cur, late, ping_tasks, ping_error, token, last, disordered, gap

Publisher == INSTANCE WebSocketPublisher
Subscriber == INSTANCE WebsocketSubscriber

publisherVars == <<published, term, subs, listener, task>>
subscriberVars ==
    <<at, cur, late, ping_tasks, ping_error, token, last, disordered, gap>>
vars == <<link, publisherVars, subscriberVars>>

Init ==
    /\ link = [c \in Conns |-> Free]
    /\ Publisher!Init
    /\ Subscriber!Init

\* A connection breaks; a prefix of what is under way arrives.
Break(c) ==
    /\ link[c].up
    /\ \E k \in 0 .. Len(link[c].wire) : link' = [link EXCEPT ![c] = Breaks(@, k)]
    /\ UNCHANGED <<publisherVars, subscriberVars>>

Handshake(c) == Publisher!HandshakeOk(c) \/ Publisher!HandshakeFails(c)
Serves(c) ==
    \/ Publisher!Recv(c) \/ Publisher!Lagged(c)
    \/ Publisher!SendOk(c) \/ Publisher!SendFails(c)
AnswersPing(c) == c \in ping_tasks /\ Publisher!AnswerPing(c)
Listens ==
    \/ Subscriber!ReadMessage \/ Subscriber!ReadPong
    \/ \E next \in {"connect", "backoff"} : Subscriber!StreamEnds(next)
Connecting ==
    \/ Subscriber!ConnectFails \/ Subscriber!Connected \/ Subscriber!Delayed
    \/ \E c \in Conns, up \in {FALSE, listener # "ended"} : Subscriber!ConnectStarts(c, up)

PublisherStep ==
    \/ Publisher!publish \/ Publisher!Drop \/ Publisher!ListenerEnds
    \/ \E c \in Conns :
          \/ Publisher!Accept(c) \/ Handshake(c) \/ Serves(c) \/ Publisher!Stops(c)
          \/ AnswersPing(c)
SubscriberStep ==
    \/ Connecting \/ Listens
    \/ Subscriber!DeadlinePasses \/ Subscriber!DeadlineCheck \/ Subscriber!PingError
    \/ \E c \in Conns : Subscriber!PingFails(c)
    \/ Subscriber!Cancel \/ Subscriber!Cancelled \/ Subscriber!Exit

Next ==
    \/ PublisherStep /\ UNCHANGED subscriberVars
    \/ SubscriberStep /\ UNCHANGED publisherVars
    \/ \E c \in Conns : Break(c)

\* Tasks run while they can, a handshake ends, and a branch of a select! that is
\* ready again and again is taken.  The pong deadline passes unless pongs keep
\* moving it.
Fairness ==
    /\ WF_vars(\E c \in Conns : Publisher!Accept(c) /\ UNCHANGED subscriberVars)
    /\ SF_vars(Publisher!ListenerEnds /\ UNCHANGED subscriberVars)
    /\ \A c \in Conns :
          /\ WF_vars(Handshake(c) /\ UNCHANGED subscriberVars)
          /\ WF_vars(Serves(c) /\ UNCHANGED subscriberVars)
          /\ SF_vars(Publisher!Stops(c) /\ UNCHANGED subscriberVars)
          /\ WF_vars(Subscriber!PingFails(c) /\ UNCHANGED publisherVars)
    /\ WF_vars(Connecting /\ UNCHANGED publisherVars)
    /\ WF_vars(Listens /\ UNCHANGED publisherVars)
    /\ WF_vars(Subscriber!PingError /\ UNCHANGED publisherVars)
    /\ SF_vars(Subscriber!DeadlineCheck /\ UNCHANGED publisherVars)
    /\ \/ WF_vars(Subscriber!DeadlinePasses /\ UNCHANGED publisherVars)
       \/ []<><<Subscriber!ReadPong /\ UNCHANGED publisherVars>>_vars
    /\ WF_vars(Subscriber!Exit /\ UNCHANGED publisherVars)
Spec == Init /\ [][Next]_vars /\ Fairness
-----------------------------------------------------------------------------
(* Properties *)

\* The variables stay in their sets, and subs (outbound.rs 124-130) counts exactly
\* the tasks between its two updates, however they end.
TypeOK ==
    /\ published \in 0 .. MaxPublished /\ last \in 0 .. published
    /\ term \in BOOLEAN /\ token \in BOOLEAN
    /\ listener \in {"accept", "handshake", "ended"}
    /\ task \in [Conns -> Publisher!Task]
    /\ subs = Cardinality({c \in Conns : task[c].at \in {"serve", "send"}})
    /\ at \in {"connect", "connecting", "listen", "backoff", "cancelled", "exited"}
    /\ cur \in Conns \cup {NoConn} /\ (cur = NoConn <=> at \notin {"connecting", "listen"})

\* Across all its connections the proxy broadcasts flashblocks in the order in which
\* they were published, and none twice: the publisher's receiver is created when the
\* connection is accepted (outbound.rs 119), and connect_and_listen has let go of the
\* previous connection by then (subscriber.rs 202-228).
RelayInOrder == ~disordered

\* On one connection no flashblock published after it was accepted is missing, unless
\* the publisher's task lagged behind the channel (outbound.rs 206-208 goes on).
GapNeedsLag == ~gap

\* When the publisher is dropped, its listener and all its tasks end and every
\* subscriber is discounted (outbound.rs 107-111, 164-169), also a task that is in
\* the middle of a send: the proxy reads or leaves.
DropEnds == term ~> (listener = "ended" /\ subs = 0)

\* An upstream that answers no pings is left and tried again, until shutdown
\* (subscriber.rs 96-149, 202-225).
UpstreamIsRetried ==
    \/ []<>(at = "connect")
    \/ []<><<Subscriber!ReadPong>>_vars
    \/ <>token

\* A flashblock published while the proxy listens is handed to its handler, unless
\* the connection ends or the publisher's task lags.
Delivered ==
    \A c \in Conns, n \in 1 .. MaxPublished :
        (at = "listen" /\ cur = c /\ link[c].heard < n /\ n <= published)
            ~> (at # "listen" \/ cur # c \/ link[c].heard >= n \/ link[c].lagged)
=============================================================================
