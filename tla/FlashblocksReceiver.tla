------------------------- MODULE FlashblocksReceiver -------------------------
(***************************************************************************)
(* The sidecar's connection to the builder's flashblocks                   *)
(* (crates/rollup-boost/src/flashblocks/inbound.rs and args.rs).  One loop *)
(* connects, waits until one of the two tasks of the connection ends, and  *)
(* connects again after a delay.  The ping task sends pings and remembers  *)
(* them; the message task forwards flashblocks to the service's channel    *)
(* and gives up when no remembered ping has been answered for a while.     *)
(*                                                                         *)
(* When the ping task ends first, nobody stops the message task: it is an  *)
(* orphan, and reads the old connection beside the next one.               *)
(*                                                                         *)
(* Flashblocks are numbered in the order in which the builder emits them;  *)
(* a ping is its id, which is used again when nothing refers to it.        *)
(***************************************************************************)
EXTENDS Integers, Sequences

CONSTANTS
    Conns,              \* connections that can exist at the same time
    NoConn,
    Pings,              \* ping ids
    Unknown,            \* a frame that is neither a flashblock nor an answer
    MAXIMUM_PINGS,      \* capacity of the ping cache
    initial_interval,
    max_interval,       \* bounds of the delay between two connections
    StreamCapacity,     \* capacity of the channel to the service
    WireCapacity,       \* bound: frames under way to the receiver
    MaxFailures,        \* bound: failures that are counted
    MaxFlashblocks      \* bound: flashblocks the builder emits

ASSUME ReceiverAssumption ==
    /\ NoConn \notin Conns
    /\ Pings \cap Nat = {} /\ Unknown \notin Pings \cup Nat
    /\ MAXIMUM_PINGS \in Nat \ {0}
    /\ initial_interval \in Nat \ {0}
    /\ max_interval \in Nat /\ initial_interval <= max_interval
    /\ StreamCapacity \in Nat \ {0}
    /\ WireCapacity \in Nat /\ MaxFailures \in Nat \ {0}
    /\ MaxFlashblocks \in Nat

VARIABLES
    run,        \* where the loop is
    cur,        \* the connection that connect_and_handle waits for
    backoff,    \* the next delay
    wait,       \* the delay in progress
    conn,       \* the connections, with their two tasks
    stream,     \* the channel to the service
    emitted,    \* builder: flashblocks emitted
    failures,   \* history: failed and short connections in a row
    ok,         \* history: connect_and_handle has returned Ok
    high,       \* history: the latest flashblock forwarded
    reordered,  \* history: a flashblock was forwarded after a later one, or twice
    orphaned    \* history: a message task was left behind

loop == <<run, cur, backoff, wait, failures, ok>>
forwarded == <<high, reordered>>
vars == <<loop, conn, stream, emitted, forwarded, orphaned>>

Frame == (1 .. MaxFlashblocks) \cup Pings \cup {Unknown}
Connection ==
    [ping : {"tick", "put", "ok", "err"},       \* ping task, or its result
     uuid : Pings \cup {Unknown},               \* the ping just sent
     ping_cache : Seq(Pings),                   \* oldest first
     msg : {"read", "send", "ended"},           \* message task
     fb : 0 .. MaxFlashblocks,                  \* the flashblock being forwarded
     due : BOOLEAN,                             \* pong_interval has elapsed
     cancel_token : BOOLEAN,
     wire : Seq(Frame),                         \* frames from the builder
     asked : SUBSET Pings]                      \* pings the builder may answer

NewConnection ==
    [ping |-> "tick", uuid |-> Unknown, ping_cache |-> <<>>, msg |-> "read", fb |-> 0,
     due |-> FALSE, cancel_token |-> FALSE, wire |-> <<>>, asked |-> {}]
NoConnection == [NewConnection EXCEPT !.ping = "ok", !.msg = "ended"]

\* The message task takes the reading half with it; nothing is left of a connection
\* once the loop and both tasks are done with it.
Left(r) ==
    IF r.msg # "ended" THEN r
    ELSE IF r.cancel_token /\ r.ping \in {"ok", "err"} THEN NoConnection
    ELSE [r EXCEPT !.due = FALSE, !.wire = <<>>, !.asked = {}]
Becomes(c, r) == conn' = [conn EXCEPT ![c] = Left(r)]

Init ==
    /\ run = "connect"
    /\ cur = NoConn
    /\ backoff = initial_interval
    /\ wait = 0
    /\ conn = [c \in Conns |-> NoConnection]
    /\ stream = <<>>
    /\ emitted = 0
    /\ failures = 0
    /\ ok = FALSE
    /\ high = 0
    /\ reordered = FALSE
    /\ orphaned = FALSE
-----------------------------------------------------------------------------
(* run and connect_and_handle *)

Min2(a, b) == IF a <= b THEN a ELSE b

\* ExponentialBackoff without randomization: the delay is the current interval,
\* and the current interval doubles.
next_backoff(current) ==
    /\ wait' = current
    /\ backoff' = Min2(2 * current, max_interval)
    /\ run' = "sleep"

ConnectFails ==
    /\ run = "connect"
    /\ next_backoff(backoff)
    /\ failures' = Min2(failures + 1, MaxFailures)
    /\ UNCHANGED <<cur, ok, conn, stream, emitted, forwarded, orphaned>>

Connect(c) ==
    /\ run = "connect"
    /\ conn[c] = NoConnection
    /\ run' = "handle"
    /\ cur' = c
    /\ conn' = [conn EXCEPT ![c] = NewConnection]
    /\ UNCHANGED <<backoff, wait, failures, ok, stream, emitted, forwarded, orphaned>>

\* Mutant: waits for both tasks instead of the first one.
Return_Joins(c, result, stable) ==
    /\ run = "handle" /\ cur = c
    /\ conn[c].msg = "ended" /\ conn[c].ping = result
    /\ cur' = NoConn
    /\ next_backoff(IF stable THEN initial_interval ELSE backoff)
    /\ conn' = [conn EXCEPT ![c] = NoConnection]
    /\ UNCHANGED <<failures, ok, stream, emitted, forwarded, orphaned>>

\* Mutant: the backoff is reset by every connection.
Return_Resets(c, result, stable) ==
    /\ run = "handle" /\ cur = c
    /\ conn[c].msg = "ended" /\ result = "err"
    /\ cur' = NoConn
    /\ Becomes(c, [conn[c] EXCEPT !.cancel_token = TRUE])
    /\ next_backoff(initial_interval)
    /\ failures' = IF stable THEN 1 ELSE Min2(failures + 1, MaxFailures)
    /\ UNCHANGED <<ok, stream, emitted, forwarded, orphaned>>

\* One of the two tasks has ended with this result; only a connection that has
\* lasted max_interval resets the backoff.  Ok is retried without a delay.
Return(c, result, stable) ==
    /\ run = "handle" /\ cur = c
    /\ \/ conn[c].msg = "ended" /\ result = "err"
       \/ conn[c].ping \in {"ok", "err"} /\ result = conn[c].ping
    /\ cur' = NoConn
    /\ Becomes(c, [conn[c] EXCEPT !.cancel_token = TRUE])
    /\ LET current == IF stable THEN initial_interval ELSE backoff
       IN  \/ result = "err" /\ next_backoff(current) /\ UNCHANGED ok
           \/ /\ result = "ok"
              /\ run' = "connect" /\ backoff' = current /\ ok' = TRUE
              /\ UNCHANGED wait
    /\ failures' = IF stable THEN 1 ELSE Min2(failures + 1, MaxFailures)
    /\ orphaned' = (orphaned \/ conn[c].msg # "ended")
    /\ UNCHANGED <<stream, emitted, forwarded>>

Wake ==
    /\ run = "sleep"
    /\ run' = "connect"
    /\ wait' = 0
    /\ UNCHANGED <<cur, backoff, failures, ok, conn, stream, emitted, forwarded, orphaned>>
-----------------------------------------------------------------------------
(* The ping task *)

TaskStep == UNCHANGED <<loop, emitted, orphaned>>

\* uuid is fresh: nothing refers to it.
PingSent(c, q) ==
    /\ conn[c].ping = "tick"
    /\ q \notin conn[c].asked
    /\ \A i \in DOMAIN conn[c].ping_cache : conn[c].ping_cache[i] # q
    /\ \A i \in DOMAIN conn[c].wire : conn[c].wire[i] # q
    /\ Becomes(c, [conn[c] EXCEPT !.ping = "put", !.uuid = q, !.asked = @ \cup {q}])
    /\ TaskStep /\ UNCHANGED <<stream, forwarded>>

PingFails(c) ==
    /\ conn[c].ping = "tick"
    /\ Becomes(c, [conn[c] EXCEPT !.ping = "err"])
    /\ TaskStep /\ UNCHANGED <<stream, forwarded>>

\* The cache forgets its oldest ping when it is full.
Put(cache, q) ==
    Append(IF Len(cache) = MAXIMUM_PINGS THEN Tail(cache) ELSE cache, q)

PingPut(c) ==
    /\ conn[c].ping = "put"
    /\ Becomes(c, [conn[c] EXCEPT !.ping = "tick", !.uuid = Unknown,
                                  !.ping_cache = Put(@, conn[c].uuid)])
    /\ TaskStep /\ UNCHANGED <<stream, forwarded>>

PingCancelled(c) ==
    /\ conn[c].ping = "tick"
    /\ conn[c].cancel_token
    /\ Becomes(c, [conn[c] EXCEPT !.ping = "ok"])
    /\ TaskStep /\ UNCHANGED <<stream, forwarded>>
-----------------------------------------------------------------------------
(* The message task *)

Remembered(c, q) == \E i \in DOMAIN conn[c].ping_cache : conn[c].ping_cache[i] = q

\* Mutant: every frame that is no flashblock counts as a pong.
ReadPong_Any(c) ==
    /\ conn[c].msg = "read" /\ conn[c].wire # <<>>
    /\ Head(conn[c].wire) \notin 1 .. MaxFlashblocks
    /\ Becomes(c, [conn[c] EXCEPT !.wire = Tail(@), !.due = FALSE])
    /\ TaskStep /\ UNCHANGED <<stream, forwarded>>

\* A remembered ping is forgotten and the interval starts again.
ReadPong(c) ==
    /\ conn[c].msg = "read" /\ conn[c].wire # <<>>
    /\ Remembered(c, Head(conn[c].wire))
    /\ Becomes(c, [conn[c] EXCEPT !.wire = Tail(@), !.due = FALSE,
                      !.ping_cache = SelectSeq(@, LAMBDA q : q # Head(conn[c].wire))])
    /\ TaskStep /\ UNCHANGED <<stream, forwarded>>

\* Another pong, a ping, a binary frame or a text that is no flashblock changes
\* nothing.
ReadOther(c) ==
    /\ conn[c].msg = "read" /\ conn[c].wire # <<>>
    /\ Head(conn[c].wire) \notin 1 .. MaxFlashblocks
    /\ ~Remembered(c, Head(conn[c].wire))
    /\ Becomes(c, [conn[c] EXCEPT !.wire = Tail(@)])
    /\ TaskStep /\ UNCHANGED <<stream, forwarded>>

ReadText(c) ==
    /\ conn[c].msg = "read" /\ conn[c].wire # <<>>
    /\ Head(conn[c].wire) \in 1 .. MaxFlashblocks
    /\ Becomes(c, [conn[c] EXCEPT !.wire = Tail(@), !.msg = "send", !.fb = Head(conn[c].wire)])
    /\ TaskStep /\ UNCHANGED <<stream, forwarded>>

\* A close frame, an error or the end of the connection, after the frames in it.
ReadFails(c) ==
    /\ conn[c].msg = "read" /\ conn[c].wire = <<>>
    /\ Becomes(c, [conn[c] EXCEPT !.msg = "ended"])
    /\ TaskStep /\ UNCHANGED <<stream, forwarded>>

\* Mutant: the send does not wait for room in the channel.
Forward_NoRoom(c) ==
    /\ conn[c].msg = "send"
    /\ stream' = Append(stream, conn[c].fb)
    /\ Becomes(c, [conn[c] EXCEPT !.msg = "read", !.fb = 0])
    /\ TaskStep /\ UNCHANGED forwarded

\* Mutant: a flashblock that was sent is sent again.
Forward_Again(c) ==
    /\ conn[c].msg = "send"
    /\ Len(stream) < StreamCapacity
    /\ stream' = Append(stream, conn[c].fb)
    /\ high' = conn[c].fb
    /\ reordered' = (reordered \/ conn[c].fb <= high)
    /\ TaskStep /\ UNCHANGED conn

\* The send waits for room; nothing is read and no interval looked at meanwhile.
Forward(c) ==
    /\ conn[c].msg = "send"
    /\ Len(stream) < StreamCapacity
    /\ stream' = Append(stream, conn[c].fb)
    /\ high' = IF conn[c].fb > high THEN conn[c].fb ELSE high
    /\ reordered' = (reordered \/ conn[c].fb <= high)
    /\ Becomes(c, [conn[c] EXCEPT !.msg = "read", !.fb = 0])
    /\ TaskStep

PongTimeout(c) ==
    /\ conn[c].msg = "read"
    /\ conn[c].due
    /\ Becomes(c, [conn[c] EXCEPT !.msg = "ended"])
    /\ TaskStep /\ UNCHANGED <<stream, forwarded>>

\* pong_interval is over.
TimerElapses(c) ==
    /\ conn[c].msg # "ended" /\ ~conn[c].due
    /\ Becomes(c, [conn[c] EXCEPT !.due = TRUE])
    /\ TaskStep /\ UNCHANGED <<stream, forwarded>>
-----------------------------------------------------------------------------
(* The builder and the service *)

Alive(c) == conn[c].msg # "ended"
HasRoom(c) == Len(conn[c].wire) < WireCapacity
Arrives(c, frame, r) == Becomes(c, [r EXCEPT !.wire = Append(@, frame)])

\* A flashblock goes to every connection that is up; it may be lost on any.
Emit(to) ==
    /\ emitted < MaxFlashblocks
    /\ \A c \in to : Alive(c) /\ HasRoom(c)
    /\ emitted' = emitted + 1
    /\ conn' = [c \in Conns |-> IF c \in to
                                THEN [conn[c] EXCEPT !.wire = Append(@, emitted + 1)]
                                ELSE conn[c]]
    /\ UNCHANGED <<loop, stream, forwarded, orphaned>>

Answer(c, q) ==
    /\ Alive(c) /\ HasRoom(c)
    /\ q \in conn[c].asked
    /\ Arrives(c, q, [conn[c] EXCEPT !.asked = @ \ {q}])
    /\ TaskStep /\ UNCHANGED <<stream, forwarded>>

\* A frame that changes nothing.
OtherFrame(c) ==
    /\ Alive(c) /\ HasRoom(c)
    /\ Arrives(c, Unknown, conn[c])
    /\ TaskStep /\ UNCHANGED <<stream, forwarded>>

\* FlashblocksService takes a flashblock.
Consume ==
    /\ stream # <<>>
    /\ stream' = Tail(stream)
    /\ UNCHANGED <<loop, conn, emitted, forwarded, orphaned>>
-----------------------------------------------------------------------------
Connecting == ConnectFails \/ \E c \in Conns : Connect(c)
Returns(c) == \E result \in {"ok", "err"}, stable \in BOOLEAN : Return(c, result, stable)
Reads(c) == ReadText(c) \/ ReadPong(c) \/ ReadOther(c) \/ Forward(c)
Next ==
    \/ Connecting
    \/ Wake
    \/ \E c \in Conns :
          \/ Returns(c)
          \/ \E q \in Pings : PingSent(c, q) \/ Answer(c, q)
          \/ PingFails(c) \/ PingPut(c) \/ PingCancelled(c)
          \/ Reads(c) \/ ReadFails(c) \/ PongTimeout(c) \/ TimerElapses(c)
          \/ OtherFrame(c)
    \/ \E to \in SUBSET Conns : Emit(to)
    \/ Consume

\* Tasks run while they can.  tokio::select! polls its branches in random order,
\* so a branch that is ready again and again is taken: strong fairness for the
\* elapsed interval and for the cancelled token.  The interval elapses unless it is
\* started again and again.
Fairness ==
    /\ WF_vars(Connecting) /\ WF_vars(Wake) /\ WF_vars(Consume)
    /\ \A c \in Conns :
          /\ WF_vars(Returns(c))
          /\ WF_vars(PingPut(c)) /\ SF_vars(PingCancelled(c))
          /\ WF_vars(Reads(c)) /\ SF_vars(PongTimeout(c))
          /\ WF_vars(TimerElapses(c)) \/ []<><<ReadPong(c)>>_vars
Spec == Init /\ [][Next]_vars /\ Fairness
-----------------------------------------------------------------------------
(* Properties *)

\* The variables stay in their sets; the service's channel and the ping cache
\* (inbound.rs, mpsc::channel and LruCache) never exceed their capacity.
TypeOK ==
    /\ run \in {"connect", "handle", "sleep"}
    /\ cur \in Conns \cup {NoConn} /\ (cur = NoConn <=> run # "handle")
    /\ backoff \in initial_interval .. max_interval
    /\ wait \in 0 .. max_interval
    /\ conn \in [Conns -> Connection]
    /\ \A c \in Conns : Len(conn[c].ping_cache) <= MAXIMUM_PINGS
    /\ stream \in Seq(1 .. MaxFlashblocks) /\ Len(stream) <= StreamCapacity
    /\ emitted \in 0 .. MaxFlashblocks /\ high \in 0 .. MaxFlashblocks
    /\ failures \in 0 .. MaxFailures
    /\ ok \in BOOLEAN /\ reordered \in BOOLEAN /\ orphaned \in BOOLEAN

\* Every connection is followed by a delay, after the k-th failed or short one in a
\* row of initial_interval * 2^(k-1), up to max_interval.  A connection that succeeds
\* and breaks at once does not reset it (inbound.rs 228-232), and none is skipped:
\* "connect_and_handle should never return Ok(())", because the ping task, the only
\* one that can end with Ok, does so only after the token was cancelled, which is
\* after the return (inbound.rs 138-144, 217-226).
BackoffGrows ==
    /\ ~ok
    /\ run = "sleep" => wait >= Min2(initial_interval * 2^(failures - 1), max_interval)

\* The service receives flashblocks in the order of emission and none twice, as
\* long as no message task was left behind by a ping task that ended first
\* (inbound.rs 217-226 cancels only the ping task).
ReorderNeedsOrphan == reordered => orphaned

\* The loop connects again and again, unless the builder keeps answering the pings
\* of one connection: whatever else a builder sends, it is left when it answers no
\* more (inbound.rs 174-210).
UnansweredIsLeft ==
    \/ []<>(run = "connect")
    \/ []<><<\E c \in Conns, q \in Pings : Answer(c, q)>>_vars

\* A message task that was left behind ends: nothing pings on its connection any
\* more, so its interval elapses (inbound.rs 208-210).
OrphanEnds ==
    \A c \in Conns :
        (conn[c].cancel_token /\ conn[c].msg # "ended") ~> (conn[c].msg = "ended")
=============================================================================
