-------------------------- MODULE WebsocketSubscriber --------------------------
(***************************************************************************)
(* The websocket proxy's subscription to one upstream                      *)
(* (crates/websocket-proxy/src/subscriber.rs, and the part of main.rs that *)
(* starts and stops it).  run connects, hands every message to the         *)
(* handler, which broadcasts it, and connects again when the connection    *)
(* ends; a task of its own sends pings.  How long a delay or a deadline    *)
(* lasts is left open.                                                     *)
(***************************************************************************)
EXTENDS WebSocketLink

CONSTANTS Conns, NoConn

VARIABLES
    link,
    at,             \* where run is
    cur,            \* the connection of connect_and_listen
    late,           \* pong_deadline has passed
    ping_tasks,     \* the connections that have a ping task
    ping_error,     \* its error has been sent to connect_and_listen
    token,          \* shutdown was asked for
    last,           \* history: the latest flashblock handed to the handler
    disordered,     \* history: a flashblock was handed over after a later one, or twice
    gap             \* history: a flashblock was missing though nothing lagged

run == <<at, cur, late, ping_error>>
handed == <<last, disordered, gap>>

Init ==
    /\ at = "connect"
    /\ cur = NoConn
    /\ late = FALSE
    /\ ping_tasks = {}
    /\ ping_error = FALSE
    /\ token = FALSE
    /\ last = 0
    /\ disordered = FALSE
    /\ gap = FALSE
-----------------------------------------------------------------------------
(* run and connect_and_listen *)

\* up: whether the upstream is there to accept the connection.
ConnectStarts(c, up) ==
    /\ at = "connect"
    /\ link[c] = Free
    /\ at' = "connecting"
    /\ cur' = c
    /\ link' = [link EXCEPT ![c] = ClientOpens(@, up)]
    /\ UNCHANGED <<late, ping_error, ping_tasks, token, handed>>

\* Every error is followed by a delay.
Errs(next) ==
    /\ at' = next
    /\ cur' = NoConn
    /\ late' = FALSE
    /\ ping_error' = FALSE
    /\ link' = [link EXCEPT ![cur] = ClientCloses(@)]

ConnectFails ==
    /\ at = "connecting"
    /\ ~link[cur].up /\ ~link[cur].shaken
    /\ Errs("backoff")
    /\ UNCHANGED <<ping_tasks, token, handed>>

\* The grace period before the first pong starts with the ping task.
Connected ==
    /\ at = "connecting"
    /\ link[cur].shaken
    /\ at' = "listen"
    /\ ping_tasks' = ping_tasks \cup {cur}
    /\ UNCHANGED <<link, cur, late, ping_error, token, handed>>

\* The loop breaks: the ping task is aborted and the connection dropped.
Leaves(next) ==
    /\ at = "listen"
    /\ Errs(next)
    /\ ping_tasks' = ping_tasks \ {cur}
    /\ UNCHANGED <<token, handed>>

\* Mutant: run returns when the delays have become too long.
Delayed_GivesUp ==
    /\ at = "backoff"
    /\ at' \in {"connect", "cancelled"}
    /\ UNCHANGED <<link, cur, late, ping_error, ping_tasks, token, handed>>

Delayed ==
    /\ at = "backoff"
    /\ at' = "connect"
    /\ UNCHANGED <<link, cur, late, ping_error, ping_tasks, token, handed>>
-----------------------------------------------------------------------------
(* The branches of connect_and_listen, and handle_message *)

DeadlinePasses ==
    /\ at = "listen" /\ ~late
    /\ late' = TRUE
    /\ UNCHANGED <<link, at, cur, ping_error, ping_tasks, token, handed>>

DeadlineCheck == at = "listen" /\ late /\ Leaves("backoff")
PingError == at = "listen" /\ ping_error /\ Leaves("backoff")

\* A close frame or an error is an error; the mere end of the stream is none, and
\* is not followed by a delay.
StreamEnds(next) ==
    /\ at = "listen"
    /\ ~link[cur].up /\ link[cur].wire = <<>>
    /\ Leaves(next)

ReadPong ==
    /\ at = "listen" /\ link[cur].wire # <<>> /\ Head(link[cur].wire) = Pong
    /\ link' = [link EXCEPT ![cur].wire = Tail(@)]
    /\ late' = FALSE
    /\ UNCHANGED <<at, cur, ping_error, ping_tasks, token, handed>>

\* handler: the message is compressed if so configured and broadcast to the clients.
ReadMessage ==
    /\ at = "listen" /\ link[cur].wire # <<>> /\ Head(link[cur].wire) # Pong
    /\ LET fb == Head(link[cur].wire) IN
          /\ last' = IF fb > last THEN fb ELSE last
          /\ disordered' = (disordered \/ fb <= last)
          /\ gap' = (gap \/ (fb # link[cur].heard + 1 /\ ~link[cur].lagged))
          /\ link' = [link EXCEPT ![cur] = [@ EXCEPT !.wire = Tail(@), !.heard = fb]]
    /\ UNCHANGED <<run, ping_tasks, token>>
-----------------------------------------------------------------------------
(* The ping task, and shutdown *)

\* A ping on a broken connection; only connect_and_listen of this connection hears.
PingFails(c) ==
    /\ c \in ping_tasks
    /\ ~link[c].up
    /\ ping_tasks' = ping_tasks \ {c}
    /\ ping_error' = (ping_error \/ (at = "listen" /\ cur = c))
    /\ UNCHANGED <<link, at, cur, late, token, handed>>

\* A signal, or the end of the server or of the client ping task.
Cancel ==
    /\ ~token
    /\ token' = TRUE
    /\ UNCHANGED <<link, run, ping_tasks, handed>>

\* run returns from wherever it waits; connect_and_listen is dropped, its ping task
\* is not aborted and holds the connection.
Cancelled ==
    /\ token
    /\ at \in {"connect", "connecting", "listen", "backoff"}
    /\ at' = "cancelled"
    /\ link' = [c \in Conns |-> IF c = cur /\ c \notin ping_tasks
                                THEN ClientCloses(link[c]) ELSE link[c]]
    /\ cur' = NoConn
    /\ late' = FALSE
    /\ ping_error' = FALSE
    /\ UNCHANGED <<ping_tasks, token, handed>>

\* main returns, and the runtime drops the tasks that are left.
Exit ==
    /\ token /\ at # "exited"
    /\ at' = "exited"
    /\ cur' = NoConn
    /\ late' = FALSE
    /\ ping_error' = FALSE
    /\ ping_tasks' = {}
    /\ link' = [c \in Conns |-> ClientCloses(link[c])]
    /\ UNCHANGED <<token, handed>>
=============================================================================
