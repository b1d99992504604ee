------------------------------ MODULE ProxyLayer ------------------------------
(***************************************************************************)
(* The HTTP layer in front of the engine server that passes on the calls   *)
(* which are not Engine API calls (crates/rollup-boost/src/proxy.rs) with  *)
(* the client it uses (crates/rollup-boost/src/client/http.rs).            *)
(*                                                                         *)
(* Methods are of two kinds: those of FORWARD_REQUESTS, which change       *)
(* something in the client that executes them (a setting of the miner, the *)
(* transaction pool), and others.  A call is its number; what it sets is   *)
(* represented by that number too.                                         *)
(***************************************************************************)
EXTENDS Integers

CONSTANT MaxCalls       \* bound: number of calls

VARIABLES
    method,     \* the methods of the calls made so far, in order
    leg,        \* client -> call -> how far the call got there
    answer,     \* call -> what its caller got
    setting,    \* client -> the last forwarded call it executed
    late        \* history: a client executed a call after a later one

proxyVars == <<method, leg, answer, setting, late>>

Calls == 1 .. MaxCalls
Clients == {"l2", "builder"}
FORWARD_REQUESTS == {"forwarded"}

ProxyInit ==
    /\ method = [r \in Calls |-> "none"]
    /\ leg = [c \in Clients |-> [r \in Calls |-> "none"]]
    /\ answer = [r \in Calls |-> "none"]
    /\ setting = [c \in Clients |-> 0]
    /\ late = FALSE

Target(m) == IF m \in FORWARD_REQUESTS THEN Clients ELSE {"l2"}

\* Mutant: the request is not sent to the builder.
call_L2Only(r, m) ==
    /\ method[r] = "none" /\ \A q \in 1 .. r - 1 : method[q] # "none"
    /\ method' = [method EXCEPT ![r] = m]
    /\ leg' = [leg EXCEPT !["l2"][r] = "sent"]
    /\ UNCHANGED <<answer, setting, late>>

\* The request to the builder has a task of its own, which nobody waits for.
call(r, m) ==
    /\ method[r] = "none" /\ \A q \in 1 .. r - 1 : method[q] # "none"
    /\ method' = [method EXCEPT ![r] = m]
    /\ leg' = [c \in Clients |-> [leg[c] EXCEPT ![r] = IF c \in Target(m) THEN "sent" ELSE @]]
    /\ UNCHANGED <<answer, setting, late>>

\* A body that is no JSON-RPC request.
callFails(r) ==
    /\ method[r] = "none" /\ \A q \in 1 .. r - 1 : method[q] # "none"
    /\ method' = [method EXCEPT ![r] = "malformed"]
    /\ answer' = [answer EXCEPT ![r] = "err"]
    /\ UNCHANGED <<leg, setting, late>>

\* The caller gets the l2 client's response, also when it is a JSON-RPC error ...
forwardOk(r) ==
    /\ answer[r] = "none"
    /\ leg["l2"][r] = "executed"
    /\ answer' = [answer EXCEPT ![r] = "ok"]
    /\ UNCHANGED <<method, leg, setting, late>>

\* ... or an error: no connection, no response in time, or one that cannot be parsed.
\* The request may have been executed, or may still be.
forwardErr(r) ==
    /\ answer[r] = "none"
    /\ leg["l2"][r] # "none"
    /\ answer' = [answer EXCEPT ![r] = "err"]
    /\ UNCHANGED <<method, leg, setting, late>>

\* external: the client, and the network on the way to it
Execute(c, r) ==
    /\ leg[c][r] = "sent"
    /\ leg' = [leg EXCEPT ![c][r] = "executed"]
    /\ setting' = [setting EXCEPT ![c] = IF method[r] \in FORWARD_REQUESTS THEN r ELSE @]
    /\ late' = (late \/ setting'[c] < setting[c])
    /\ UNCHANGED <<method, answer>>

Lose(c, r) ==
    /\ leg[c][r] = "sent"
    /\ leg' = [leg EXCEPT ![c][r] = "lost"]
    /\ UNCHANGED <<method, answer, setting, late>>
-----------------------------------------------------------------------------
(* Properties *)

LastForwarded == {r \in Calls : /\ method[r] \in FORWARD_REQUESTS
                                /\ \A q \in Calls : method[q] \in FORWARD_REQUESTS => q <= r}

\* Builder and l2 client have the same settings once nothing is under way, unless
\* the last forwarded call was lost on the way to one of them or a call overtook an
\* earlier one: also after an outage of the builder, and although nothing is retried
\* and the builder's response is ignored (proxy.rs 105-116).
SettingsAgree ==
    ( /\ ~late
      /\ \A c \in Clients, r \in Calls : leg[c][r] # "sent"
      /\ \A c \in Clients, r \in LastForwarded : leg[c][r] # "lost" )
    => setting["l2"] = setting["builder"]

=============================================================================
