-------------------------- MODULE WebSocketPublisher --------------------------
(***************************************************************************)
(* The publisher of flashblocks                                            *)
(* (crates/rollup-boost/src/flashblocks/outbound.rs): one listener, and    *)
(* one task per subscriber that copies a broadcast channel to the          *)
(* subscriber's WebSocket.  Flashblocks are numbered in the order in which *)
(* they are published.                                                     *)
(***************************************************************************)
EXTENDS WebSocketLink

CONSTANTS
    Conns,          \* connections that can exist at the same time
    Capacity,       \* of the broadcast channel
    WireCapacity,   \* bound: frames under way to a subscriber
    MaxPublished    \* bound: flashblocks published

VARIABLES
    link,
    published,      \* pipe: the number of flashblocks sent into it
    term,
    subs,           \* counter of subscribers
    listener,       \* "accept", "handshake" or "ended"
    task            \* the listener's and the spawned task's part of a connection

\* next: the receiver's position in the channel; fb: the flashblock being sent.
Task ==
    [at : {"none", "handshake", "serve", "send"},
     next : 1 .. MaxPublished + 1, fb : 0 .. MaxPublished]
NoTask == [at |-> "none", next |-> 1, fb |-> 0]

Init ==
    /\ published = 0
    /\ term = FALSE
    /\ subs = 0
    /\ listener = "accept"
    /\ task = [c \in Conns |-> NoTask]

Oldest == IF published > Capacity THEN published - Capacity + 1 ELSE 1
-----------------------------------------------------------------------------
\* The listener's own receiver keeps the channel open, so sending never fails.
publish ==
    /\ ~term
    /\ published < MaxPublished
    /\ published' = published + 1
    /\ UNCHANGED <<link, term, subs, listener, task>>

Drop ==
    /\ ~term
    /\ term' = TRUE
    /\ UNCHANGED <<link, published, subs, listener, task>>

Subscribed(c, next) ==
    /\ listener = "accept"
    /\ link[c].client /\ link[c].up /\ ~link[c].server
    /\ listener' = "handshake"
    /\ link' = [link EXCEPT ![c] = [@ EXCEPT !.server = TRUE, !.heard = next - 1]]
    /\ task' = [task EXCEPT ![c] = [NoTask EXCEPT !.at = "handshake", !.next = next]]
    /\ UNCHANGED <<published, term, subs>>

\* Mutant: the receiver starts with the oldest flashblock in the channel.
Accept_FromOldest(c) == Subscribed(c, Oldest)

\* The receiver is created here: it gets what is published from now on.
Accept(c) == Subscribed(c, published + 1)

\* Mutant: the receiver is created once the handshake is over.
HandshakeOk_Subscribes(c) ==
    /\ task[c].at = "handshake"
    /\ link[c].up
    /\ listener' = "accept"
    /\ link' = [link EXCEPT ![c].shaken = TRUE]
    /\ task' = [task EXCEPT ![c] = [@ EXCEPT !.at = "serve", !.next = published + 1]]
    /\ subs' = subs + 1
    /\ UNCHANGED <<published, term>>

\* accept_async is awaited in the listener's loop: nothing else is accepted, and
\* term is not looked at, before it returns.  The task that is spawned counts itself.
HandshakeOk(c) ==
    /\ task[c].at = "handshake"
    /\ link[c].up
    /\ listener' = "accept"
    /\ link' = [link EXCEPT ![c].shaken = TRUE]
    /\ task' = [task EXCEPT ![c].at = "serve"]
    /\ subs' = subs + 1
    /\ UNCHANGED <<published, term>>

HandshakeFails(c) ==
    /\ task[c].at = "handshake"
    /\ listener' = "accept"
    /\ link' = [link EXCEPT ![c] = ServerCloses(@)]
    /\ task' = [task EXCEPT ![c] = NoTask]
    /\ UNCHANGED <<published, term, subs>>

\* Connections that were not accepted yet are closed with the listener.
ListenerEnds ==
    /\ listener = "accept"
    /\ term
    /\ listener' = "ended"
    /\ link' = [c \in Conns |-> IF link[c].client /\ ~link[c].server
                                THEN [link[c] EXCEPT !.up = FALSE] ELSE link[c]]
    /\ UNCHANGED <<published, term, subs, task>>
-----------------------------------------------------------------------------
(* broadcast_loop *)

\* Mutant: the latest flashblock is left in the channel.
Recv_NotLatest(c) ==
    /\ task[c].at = "serve"
    /\ task[c].next \in Oldest .. published - 1
    /\ task' = [task EXCEPT ![c] = [@ EXCEPT !.at = "send", !.fb = task[c].next, !.next = @ + 1]]
    /\ UNCHANGED <<link, published, term, subs, listener>>

Recv(c) ==
    /\ task[c].at = "serve"
    /\ task[c].next \in Oldest .. published
    /\ task' = [task EXCEPT ![c] = [@ EXCEPT !.at = "send", !.fb = task[c].next, !.next = @ + 1]]
    /\ UNCHANGED <<link, published, term, subs, listener>>

\* The task goes on with the oldest flashblock that is left.
Lagged(c) ==
    /\ task[c].at = "serve"
    /\ task[c].next < Oldest
    /\ task' = [task EXCEPT ![c].next = Oldest]
    /\ link' = [link EXCEPT ![c].lagged = TRUE]
    /\ UNCHANGED <<published, term, subs, listener>>

SendOk(c) ==
    /\ task[c].at = "send"
    /\ link[c].up /\ Len(link[c].wire) < WireCapacity
    /\ link' = [link EXCEPT ![c].wire = Append(@, task[c].fb)]
    /\ task' = [task EXCEPT ![c] = [@ EXCEPT !.at = "serve", !.fb = 0]]
    /\ UNCHANGED <<published, term, subs, listener>>

\* Mutant: a task that ends because the publisher was dropped is not discounted.
TaskEnds_NoDiscount(c) ==
    /\ link' = [link EXCEPT ![c] = ServerCloses(@)]
    /\ task' = [task EXCEPT ![c] = NoTask]
    /\ subs' = IF term THEN subs ELSE subs - 1
    /\ UNCHANGED <<published, term, listener>>

TaskEnds(c) ==
    /\ link' = [link EXCEPT ![c] = ServerCloses(@)]
    /\ task' = [task EXCEPT ![c] = NoTask]
    /\ subs' = subs - 1
    /\ UNCHANGED <<published, term, listener>>

SendFails(c) ==
    /\ task[c].at = "send"
    /\ ~link[c].up
    /\ TaskEnds(c)

\* Mutant: term is not looked at.
Stops_OnlyStream(c) ==
    /\ task[c].at = "serve"
    /\ ~link[c].up
    /\ TaskEnds(c)

\* The stream ends or fails, the publisher is dropped, or its channel is closed.
Stops(c) ==
    /\ task[c].at = "serve"
    /\ ~link[c].up \/ term
    /\ TaskEnds(c)

\* Frames from the subscriber are ignored; its pings are answered by the library.
AnswerPing(c) ==
    /\ task[c].at = "serve"
    /\ link[c].up /\ Len(link[c].wire) < WireCapacity
    /\ link' = [link EXCEPT ![c].wire = Append(@, Pong)]
    /\ UNCHANGED <<published, term, subs, listener, task>>
=============================================================================
