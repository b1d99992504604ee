--------------------------- MODULE WebsocketProxy ---------------------------
(***************************************************************************)
(* The downstream side of the websocket proxy (crates/websocket-proxy):    *)
(* the server that admits clients (server.rs), the in-memory rate limiter  *)
(* (rate_limit.rs), and the registry that forwards every message of the    *)
(* broadcast channel to every subscribed client (registry.rs).             *)
(*                                                                         *)
(* A client is one connection at a time.  Its ticket is taken before the   *)
(* upgrade to a WebSocket, is held by the connection, and is returned when *)
(* the connection's task ends: first the counters, under the limiter's     *)
(* lock, then the semaphore's permit.  Messages are numbered in the order  *)
(* in which they are broadcast; when a client's last pong is too old, or   *)
(* its socket ends, is up to the environment.                              *)
(***************************************************************************)
EXTENDS Integers, Sequences, FiniteSets

CONSTANTS
    Clients,
    Addrs,                  \* IP addresses
    Garbage,                \* what does not parse as an address
    Headers,                \* values of ip_addr_http_header, as lists
    Apps,                   \* applications with an API key
    NoApp,                  \* Option::None
    authentication,         \* whether API keys are configured
    instance_limit,
    per_ip_limit,           \* 0 means no limit
    per_app_limit,          \* [Apps -> Nat]
    message_buffer_size,    \* capacity of the broadcast channel
    MaxMessages             \* bound: messages broadcast

ASSUME ProxyAssumption ==
    /\ IsFiniteSet(Clients)
    /\ Garbage \notin Addrs
    /\ Headers \subseteq Seq(Addrs \cup {Garbage})
    /\ NoApp \notin Apps
    /\ authentication \in BOOLEAN
    /\ instance_limit \in Nat
    /\ per_ip_limit \in Nat
    /\ per_app_limit \in [Apps -> Nat]
    /\ message_buffer_size \in Nat \ {0}
    /\ MaxMessages \in Nat

VARIABLES
    semaphore,                  \* available permits
    active_connections_per_ip,
    active_connections_per_app, \* in both a missing key counts as 0
    conn,                       \* the clients' connections
    tail                        \* messages broadcast so far

vars == <<semaphore, active_connections_per_ip, active_connections_per_app, conn, tail>>
limits == <<semaphore, active_connections_per_ip, active_connections_per_app>>

Counted == {"upgrade", "open", "sending", "closing"}
ConnRecord ==
    [pc : {"none", "permit"} \cup Counted,
     addr : Addrs \cup {Garbage}, app : Apps \cup {NoApp},
     reader : {"running", "signalled", "ended"},
     start : Nat,               \* first message sent after subscribe()
     next : Nat,                \* position of the broadcast receiver
     got : Seq(Nat)]            \* messages delivered

NoConnection == [pc |-> "none", addr |-> Garbage, app |-> NoApp, reader |-> "ended",
                 start |-> 1, next |-> 1, got |-> <<>>]

Init ==
    /\ semaphore = instance_limit
    /\ active_connections_per_ip = [a \in Addrs |-> 0]
    /\ active_connections_per_app = [x \in Apps |-> 0]
    /\ conn = [c \in Clients |-> NoConnection]
    /\ tail = 0
-----------------------------------------------------------------------------
(* websocket_handler and try_acquire, which runs under the limiter's lock *)

\* The last address of the header, or the peer's own.
extract_addr(header, fallback) ==
    IF header # <<>> /\ header[Len(header)] \in Addrs
    THEN header[Len(header)] ELSE fallback

Request(c, app) ==
    /\ conn[c].pc = "none"
    /\ app # NoApp <=> authentication

IpAdmits(a) == per_ip_limit > 0 => active_connections_per_ip[a] + 1 <= per_ip_limit
AppAdmits(x) == x # NoApp => active_connections_per_app[x] + 1 <= per_app_limit[x]

CountIp(a) ==
    active_connections_per_ip' =
        IF per_ip_limit > 0
        THEN [active_connections_per_ip EXCEPT ![a] = @ + 1]
        ELSE active_connections_per_ip

\* No permit, or too many connections of the address: nothing has changed.
Refuse(c, app, a) ==
    /\ Request(c, app)
    /\ semaphore = 0 \/ ~IpAdmits(a)
    /\ UNCHANGED vars

\* Mutant: the permit is not returned.
RefuseApp_KeepsPermit(c, app, a) ==
    /\ Request(c, app)
    /\ semaphore > 0
    /\ IpAdmits(a)
    /\ ~AppAdmits(app)
    /\ CountIp(a)
    /\ semaphore' = semaphore - 1
    /\ UNCHANGED <<active_connections_per_app, conn, tail>>

\* The permit is returned; the address has been counted and stays counted.
RefuseApp(c, app, a) ==
    /\ Request(c, app)
    /\ semaphore > 0
    /\ IpAdmits(a)
    /\ ~AppAdmits(app)
    /\ CountIp(a)
    /\ UNCHANGED <<semaphore, active_connections_per_app, conn, tail>>

Admit(c, app, a) ==
    /\ Request(c, app)
    /\ semaphore > 0
    /\ IpAdmits(a)
    /\ AppAdmits(app)
    /\ semaphore' = semaphore - 1
    /\ CountIp(a)
    /\ active_connections_per_app' =
        IF app \in Apps
        THEN [active_connections_per_app EXCEPT ![app] = @ + 1]
        ELSE active_connections_per_app
    /\ conn' = [conn EXCEPT ![c] = [@ EXCEPT !.pc = "upgrade", !.addr = a, !.app = app]]
    /\ UNCHANGED tail
-----------------------------------------------------------------------------
(* The upgrade, and Registry::subscribe *)

Step(c, from, to) ==
    /\ conn[c].pc = from
    /\ conn' = [conn EXCEPT ![c].pc = to]

UpgradeFails(c) ==
    /\ Step(c, "upgrade", "closing")
    /\ UNCHANGED <<limits, tail>>

\* The receiver starts behind the last message; the reader task is spawned.
subscribe(c) ==
    /\ conn[c].pc = "upgrade"
    /\ conn' = [conn EXCEPT ![c] = [@ EXCEPT !.pc = "open", !.reader = "running",
                                             !.start = tail + 1, !.next = tail + 1]]
    /\ UNCHANGED <<limits, tail>>

\* The subscription's loop ends: the reader is aborted.
Close(c) == conn' = [conn EXCEPT ![c] = [@ EXCEPT !.pc = "closing", !.reader = "ended"]]

HasLagged(c) == tail + 1 - conn[c].next > message_buffer_size

Recv(c) ==
    /\ conn[c].pc = "open"
    /\ conn[c].next <= tail
    /\ ~HasLagged(c)
    /\ conn' = [conn EXCEPT ![c] = [@ EXCEPT !.pc = "sending",
                                             !.next = conn[c].next + 1]]
    /\ UNCHANGED <<limits, tail>>

\* Mutant: the client goes on with the oldest message still in the buffer.
Lagged_Continues(c) ==
    /\ conn[c].pc = "open"
    /\ HasLagged(c)
    /\ conn' = [conn EXCEPT ![c].next = tail + 1 - message_buffer_size]
    /\ UNCHANGED <<limits, tail>>

Lagged(c) ==
    /\ conn[c].pc = "open"
    /\ HasLagged(c)
    /\ Close(c)
    /\ UNCHANGED <<limits, tail>>

SendOk(c) ==
    /\ conn[c].pc = "sending"
    /\ conn' = [conn EXCEPT ![c] = [@ EXCEPT !.pc = "open",
                                             !.got = Append(conn[c].got, conn[c].next - 1)]]
    /\ UNCHANGED <<limits, tail>>

SendFails(c) ==
    /\ conn[c].pc = "sending"
    /\ Close(c)
    /\ UNCHANGED <<limits, tail>>

\* start_reader: a close frame, an error, the end of the stream, or a pong
\* that is too old.
ReaderSignals(c) ==
    /\ conn[c].reader = "running"
    /\ conn' = [conn EXCEPT ![c].reader = "signalled"]
    /\ UNCHANGED <<limits, tail>>

\* Mutant: the signal is only looked at when there is a message to send.
Disconnect_AfterData(c) ==
    /\ conn[c].pc = "open"
    /\ conn[c].reader = "signalled"
    /\ conn[c].next <= tail
    /\ Close(c)
    /\ UNCHANGED <<limits, tail>>

\* The loop only looks at the signal when it is not sending.
Disconnect(c) ==
    /\ conn[c].pc = "open"
    /\ conn[c].reader = "signalled"
    /\ Close(c)
    /\ UNCHANGED <<limits, tail>>
-----------------------------------------------------------------------------
(* Ticket::drop: release() under the lock, then the permit *)

\* Mutant: the key is removed whatever its count.
Decrement_Removes(count) == 0

\* 0 and 1 both remove the key; 0 is logged as an unexpected underflow.
Decrement(count) == IF count \in {0, 1} THEN 0 ELSE count - 1

release(c) ==
    /\ Step(c, "closing", "permit")
    /\ active_connections_per_ip' =
        IF per_ip_limit > 0
        THEN [active_connections_per_ip EXCEPT ![conn[c].addr] = Decrement(@)]
        ELSE active_connections_per_ip
    /\ active_connections_per_app' =
        IF conn[c].app \in Apps
        THEN [active_connections_per_app EXCEPT ![conn[c].app] = Decrement(@)]
        ELSE active_connections_per_app
    /\ UNCHANGED <<semaphore, tail>>

DropPermit(c) ==
    /\ conn[c].pc = "permit"
    /\ conn' = [conn EXCEPT ![c] = NoConnection]
    /\ semaphore' = semaphore + 1
    /\ UNCHANGED <<active_connections_per_ip, active_connections_per_app, tail>>

\* A message from an upstream, or a ping for all clients.
Broadcast ==
    /\ tail < MaxMessages
    /\ tail' = tail + 1
    /\ UNCHANGED <<limits, conn>>
-----------------------------------------------------------------------------
websocket_handler(c) ==
    \E app \in Apps \cup {NoApp},
       a \in {extract_addr(header, peer) : header \in Headers, peer \in Addrs} :
        \/ Refuse(c, app, a)
        \/ RefuseApp(c, app, a)
        \/ Admit(c, app, a)

Task(c) ==
    \/ UpgradeFails(c)
    \/ subscribe(c)
    \/ Recv(c)
    \/ Lagged(c)
    \/ SendOk(c)
    \/ SendFails(c)
    \/ Disconnect(c)
    \/ release(c)
    \/ DropPermit(c)

Next ==
    \/ \E c \in Clients : websocket_handler(c) \/ Task(c) \/ ReaderSignals(c)
    \/ Broadcast

Spec == Init /\ [][Next]_vars

\* Every task is polled, an upgrade ends one way or the other, and so does a
\* send, at the latest by the timeouts of TCP.  select! picks at random among
\* the branches that are ready, so the reader's signal is not passed over for
\* ever.
Fairness == \A c \in Clients : WF_vars(Task(c)) /\ SF_vars(Disconnect(c))

FairSpec == Spec /\ Fairness
-----------------------------------------------------------------------------
TypeOK ==
    /\ semaphore \in Nat
    /\ active_connections_per_ip \in [Addrs -> Nat]
    /\ active_connections_per_app \in [Apps -> Nat]
    /\ conn \in [Clients -> ConnRecord]
    /\ tail \in Nat

Holding == {c \in Clients : conn[c].pc # "none"}
FromIp(a) == {c \in Clients : conn[c].pc \in Counted /\ conn[c].addr = a}
OfApp(x) == {c \in Clients : conn[c].pc \in Counted /\ conn[c].app = x}

\* Refusals, failed upgrades, lagging and disconnecting clients neither lose
\* nor multiply permits: those that are not available are held by the
\* connections there are, so that instance_limit bounds them.
PermitsAreConserved == semaphore + Cardinality(Holding) = instance_limit

\* However connections come and go, an address is counted at least as often as
\* it is connected, so that per_ip_limit bounds its connections and release()
\* never meets the "unexpected underflow" it warns of.
IpLimitHolds ==
    per_ip_limit > 0 =>
        \A a \in Addrs :
            /\ Cardinality(FromIp(a)) <= active_connections_per_ip[a]
            /\ active_connections_per_ip[a] <= per_ip_limit

\* An application is counted exactly as often as it is connected, and its
\* limit holds, although refusals for other reasons happen before its counter
\* is touched and its connections end in many ways.
AppLimitHolds ==
    \A x \in Apps :
        /\ active_connections_per_app[x] = Cardinality(OfApp(x))
        /\ active_connections_per_app[x] <= per_app_limit[x]

\* The three limits of InMemoryRateLimit hold together: of the instance, of every
\* address and of every application (rate_limit.rs 91-145).
LimitsHold ==
    Cardinality(Holding) <= instance_limit /\ IpLimitHolds /\ AppLimitHolds

\* A client that falls behind the channel's buffer is disconnected instead of
\* skipping messages: what a client has received is every message from the
\* one after its subscription, in order.
NoClientSeesAGap ==
    \A c \in Clients : \A i \in 1 .. Len(conn[c].got) :
        conn[c].got[i] = conn[c].start + i - 1

\* A connection whose reader has signalled, or whose loop has ended, gives its
\* ticket back, also when it is in the middle of a send.
TicketsComeBack ==
    \A c \in Clients :
        conn[c].reader = "signalled" \/ conn[c].pc \in {"closing", "permit"}
            ~> conn[c].pc = "none"
=============================================================================
