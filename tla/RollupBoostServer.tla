-------------------------- MODULE RollupBoostServer --------------------------
(***************************************************************************)
(* The Engine API server of the sidecar (crates/rollup-boost/src/server.rs *)
(* and PayloadTraceContext of crates/rollup-boost-types/src/payload.rs).   *)
(* Every forkchoiceUpdated, getPayload and newPayload call of the          *)
(* consensus node is a task; the tasks share the execution mode, the       *)
(* health probe, the two caches of the trace context and the map of FCU    *)
(* requests.  A step is what a task does between two points where another  *)
(* task can run: an await, or the release of a lock.                       *)
(*                                                                         *)
(* A payload id stands for the FCU attributes that lead to it, so it       *)
(* determines the parent block and no_tx_pool.                             *)
(***************************************************************************)
EXTENDS Integers, FiniteSets

CONSTANTS
    PayloadIds,
    Hashes,                     \* hashes of parent blocks
    ParentOf,                   \* [PayloadIds -> Hashes]: head of the FCU
    NoTxPool,                   \* ids whose attributes set no_tx_pool
    FcuTasks, GetTasks, NewTasks,
    external_state_root,
    ignore_unhealthy_builders,
    block_selection_policy,     \* whether a policy is configured
    GasUsed,                    \* gas that a block may have used
    CACHE_SIZE                  \* capacity of each trace cache; with 0, entries of
                                \* other blocks have filled it

ASSUME ServerAssumption ==
    /\ ParentOf \in [PayloadIds -> Hashes]
    /\ NoTxPool \subseteq PayloadIds
    /\ external_state_root \in BOOLEAN
    /\ ignore_unhealthy_builders \in BOOLEAN
    /\ block_selection_policy \in BOOLEAN
    /\ GasUsed \subseteq Nat
    /\ CACHE_SIZE \in Nat

VARIABLES
    execution_mode,
    health,                     \* Probes
    trace,                      \* cache payload_id: who has the payload
    index,                      \* cache block_hash_to_payload_ids
    payload_to_fcu_request,     \* ids with a stored FCU request
    fcu, get, new,              \* the tasks
    building,                   \* builder: payload ids it is building
    acked,                      \* history: FCUs the builder answered Ok
    consumed,                   \* history: ids taken from payload_to_fcu_request
    evicted                     \* history: hashes evicted from index

caches == <<trace, index, evicted>>
builderVars == <<building, acked>>
vars == <<execution_mode, health, caches, payload_to_fcu_request, fcu, get, new,
          builderVars, consumed>>

Mode == {"Enabled", "DryRun", "Disabled"}
Health == {"Healthy", "PartialContent", "ServiceUnavailable"}

Route == {"disabled", "skipped", "l2", "both", "sync"}
FcuPC == {"done", "route", "calls", "trace", "index", "request"}
FcuRecord == [pc : FcuPC, id : PayloadIds, route : Route,
              l2 : {"pending", "id", "none"},
              builder : {"pending", "unused", "ok", "err"}]

BlockLeg == {"valid", "unverified", "rooted"}
DoneLeg == BlockLeg \cup {"nothing", "failed"}
GetPC == {"done", "l2only", "calls", "select", "partial"}
GetRecord == [pc : GetPC, id : PayloadIds,
              l2 : {"pending", "ok", "err"},
              leg : {"unused", "lookup", "call", "validate", "root_fcu", "root_get"}
                        \cup DoneLeg,
              modes : SUBSET Mode, asked : BOOLEAN,
              result : {"none", "l2", "builder", "error", "panic"}]

NewRecord == [pc : {"done", "traces", "forward", "health", "l2"}, hash : Hashes,
              ids : SUBSET PayloadIds, sent : BOOLEAN]

\* A task between two calls.
FcuDone(p) == [pc |-> "done", id |-> p, route |-> "disabled",
               l2 |-> "pending", builder |-> "unused"]
NewDone(h) == [pc |-> "done", hash |-> h, ids |-> {}, sent |-> FALSE]

Init ==
    /\ execution_mode \in Mode
    /\ health = "Healthy"
    /\ trace = [p \in PayloadIds |-> "absent"]
    /\ index = [h \in Hashes |-> {}]
    /\ payload_to_fcu_request = {}
    /\ \E p \in PayloadIds, h \in Hashes :
        /\ fcu = [f \in FcuTasks |-> FcuDone(p)]
        /\ get = [g \in GetTasks |-> [pc |-> "done", id |-> p, l2 |-> "pending",
                    leg |-> "unused", modes |-> {}, asked |-> FALSE, result |-> "none"]]
        /\ new = [n \in NewTasks |-> NewDone(h)]
    /\ building = {}
    /\ acked = {}
    /\ consumed = {}
    /\ evicted = {}

\* Mutant: the flag is not consulted.
should_skip_unhealthy_builder_Always ==
    health # "Healthy"

should_skip_unhealthy_builder ==
    ignore_unhealthy_builders /\ health # "Healthy"
-----------------------------------------------------------------------------
(* fork_choice_updated_v3 *)

FcuFrame == UNCHANGED <<execution_mode, health, get, new, consumed, evicted>>

\* Who is to be called: without attributes the builder is only kept in sync,
\* by a spawned call; with no_tx_pool it is left out.
RouteOf(p, attrs) ==
    IF ~attrs THEN "sync" ELSE IF p \in NoTxPool THEN "l2" ELSE "both"

FcuReceive(f, p, attrs) ==
    /\ fcu[f].pc = "done"
    /\ LET disabled == execution_mode = "Disabled"
       IN  fcu' = [fcu EXCEPT ![f] =
                    [pc |-> IF disabled THEN "calls" ELSE "route", id |-> p,
                     route |-> IF disabled THEN "disabled" ELSE RouteOf(p, attrs),
                     l2 |-> "pending", builder |-> "unused"]]
    /\ FcuFrame
    /\ UNCHANGED <<trace, index, payload_to_fcu_request, builderVars>>

\* The health probe is read, and the calls are started.
FcuRoute(f) ==
    /\ fcu[f].pc = "route"
    /\ LET route == IF should_skip_unhealthy_builder THEN "skipped" ELSE fcu[f].route
       IN  fcu' = [fcu EXCEPT ![f] = [@ EXCEPT !.pc = "calls", !.route = route,
                        !.builder = IF route = "both" THEN "pending" ELSE "unused"]]
    /\ FcuFrame
    /\ UNCHANGED <<trace, index, payload_to_fcu_request, builderVars>>

\* The l2 client answers with a payload id; or without one, or with an error
\* (an invalid status is one), and then the answer is passed on and that is all.
FcuL2Answer(f, answer) ==
    /\ fcu[f].pc = "calls"
    /\ fcu[f].l2 = "pending"
    /\ fcu' = [fcu EXCEPT ![f].l2 = answer]
    /\ FcuFrame
    /\ UNCHANGED <<trace, index, payload_to_fcu_request, builderVars>>

\* The builder answers Ok, having started to build or not (it may be syncing).
FcuBuilderOk(f, builds) ==
    /\ fcu[f].pc = "calls"
    /\ fcu[f].builder = "pending"
    /\ fcu' = [fcu EXCEPT ![f].builder = "ok"]
    /\ acked' = acked \cup {fcu[f].id}
    /\ building' = IF builds THEN building \cup {fcu[f].id} ELSE building
    /\ FcuFrame
    /\ UNCHANGED <<trace, index, payload_to_fcu_request>>

FcuBuilderErr(f) ==
    /\ fcu[f].pc = "calls"
    /\ fcu[f].builder = "pending"
    /\ fcu' = [fcu EXCEPT ![f].builder = "err"]
    /\ FcuFrame
    /\ UNCHANGED <<trace, index, payload_to_fcu_request, builderVars>>

\* Both calls are in.  Only an l2 payload id leads to more work.
FcuJoin(f) ==
    /\ fcu[f].pc = "calls"
    /\ fcu[f].l2 # "pending"
    /\ fcu[f].builder # "pending"
    /\ \/ /\ fcu[f].l2 = "id"
          /\ fcu[f].route \in {"l2", "both"}
          /\ fcu' = [fcu EXCEPT ![f].pc = "trace"]
       \/ /\ fcu[f].l2 = "id"
          /\ fcu[f].route = "sync" /\ external_state_root
          /\ fcu' = [fcu EXCEPT ![f].pc = "request"]
       \/ /\ \/ fcu[f].l2 # "id"
             \/ fcu[f].route \in {"disabled", "skipped"}
             \/ fcu[f].route = "sync" /\ ~external_state_root
          /\ fcu' = [fcu EXCEPT ![f] = FcuDone(@.id)]
    /\ FcuFrame
    /\ UNCHANGED <<trace, index, payload_to_fcu_request, builderVars>>

\* Mutant: the outcome of the builder's call is ignored.
StoreTrace_AlwaysBuilder(f) ==
    /\ fcu[f].pc = "trace"
    /\ trace' = [trace EXCEPT ![fcu[f].id] = "builder"]
    /\ fcu' = [fcu EXCEPT ![f].pc = "index"]
    /\ FcuFrame
    /\ UNCHANGED <<index, payload_to_fcu_request, builderVars>>

\* PayloadTraceContext::store, first cache
StoreTrace(f) ==
    /\ fcu[f].pc = "trace"
    /\ trace' = [trace EXCEPT ![fcu[f].id] =
                    IF fcu[f].builder = "ok" THEN "builder" ELSE "l2"]
    /\ fcu' = [fcu EXCEPT ![f].pc = "index"]
    /\ FcuFrame
    /\ UNCHANGED <<index, payload_to_fcu_request, builderVars>>

\* Mutant: the list of ids of the parent is replaced.
StoreIndex_Replaces(f) ==
    /\ fcu[f].pc = "index"
    /\ index' = [index EXCEPT ![ParentOf[fcu[f].id]] = {fcu[f].id}]
    /\ fcu' = [fcu EXCEPT ![f] =
                IF @.route = "both" /\ external_state_root
                THEN [@ EXCEPT !.pc = "request"] ELSE FcuDone(@.id)]
    /\ FcuFrame
    /\ UNCHANGED <<trace, payload_to_fcu_request, builderVars>>

\* Mutant: the FCU returns without storing the request.
StoreIndex_NoRequest(f) ==
    /\ fcu[f].pc = "index"
    /\ index' = [index EXCEPT ![ParentOf[fcu[f].id]] = @ \cup {fcu[f].id}]
    /\ fcu' = [fcu EXCEPT ![f] = FcuDone(@.id)]
    /\ FcuFrame
    /\ UNCHANGED <<trace, payload_to_fcu_request, builderVars>>

\* PayloadTraceContext::store, second cache
StoreIndex(f) ==
    /\ fcu[f].pc = "index"
    /\ index' = [index EXCEPT ![ParentOf[fcu[f].id]] = @ \cup {fcu[f].id}]
    /\ fcu' = [fcu EXCEPT ![f] =
                IF @.route = "both" /\ external_state_root
                THEN [@ EXCEPT !.pc = "request"] ELSE FcuDone(@.id)]
    /\ FcuFrame
    /\ UNCHANGED <<trace, payload_to_fcu_request, builderVars>>

StoreRequest(f) ==
    /\ fcu[f].pc = "request"
    /\ payload_to_fcu_request' = payload_to_fcu_request \cup {fcu[f].id}
    /\ fcu' = [fcu EXCEPT ![f] = FcuDone(@.id)]
    /\ FcuFrame
    /\ UNCHANGED <<trace, index, builderVars>>
-----------------------------------------------------------------------------
(* get_payload: in Disabled mode the l2 client alone; otherwise the l2 call *)
(* and the builder leg run concurrently and are joined.                     *)

GetFrame == UNCHANGED <<execution_mode, caches, fcu, new, builderVars>>
GetQuiet == GetFrame /\ UNCHANGED <<health, payload_to_fcu_request, consumed>>

\* Mutant: the mode is not read before the two legs start.
GetReceive_AnyMode(g, p) ==
    /\ get[g].pc = "done"
    /\ get' = [get EXCEPT ![g] =
                [pc |-> "calls", id |-> p, l2 |-> "pending", leg |-> "lookup",
                 modes |-> {execution_mode}, asked |-> FALSE, result |-> "none"]]
    /\ GetQuiet

GetReceive(g, p) ==
    /\ get[g].pc = "done"
    /\ LET disabled == execution_mode = "Disabled"
       IN  get' = [get EXCEPT ![g] =
                    [pc |-> IF disabled THEN "l2only" ELSE "calls", id |-> p,
                     l2 |-> "pending", leg |-> IF disabled THEN "unused" ELSE "lookup",
                     modes |-> {execution_mode}, asked |-> FALSE, result |-> "none"]]
    /\ GetQuiet

GetL2Only(g, answer) ==
    /\ get[g].pc = "l2only"
    /\ get' = [get EXCEPT ![g] = [@ EXCEPT !.pc = "done", !.l2 = answer,
                    !.result = IF answer = "ok" THEN "l2" ELSE "error"]]
    /\ health' = IF answer = "ok" THEN "Healthy" ELSE "ServiceUnavailable"
    /\ GetFrame
    /\ UNCHANGED <<payload_to_fcu_request, consumed>>

GetL2Answer(g, answer) ==
    /\ get[g].pc = "calls"
    /\ get[g].l2 = "pending"
    /\ get' = [get EXCEPT ![g].l2 = answer]
    /\ GetQuiet

Leg(g, from, to) ==
    /\ get[g].pc = "calls"
    /\ get[g].leg = from
    /\ get' = [get EXCEPT ![g].leg = to]

\* has_builder_payload
GetLookup(g) ==
    /\ get[g].pc = "calls"
    /\ get[g].leg = "lookup"
    /\ LET has_builder_payload == trace[get[g].id] = "builder"
       IN  get' = [get EXCEPT ![g] = [@ EXCEPT !.asked = has_builder_payload,
                        !.leg = IF has_builder_payload THEN "call" ELSE "failed"]]
    /\ GetQuiet

GetBuilderErr(g) ==
    /\ Leg(g, "call", "failed")
    /\ GetQuiet

\* The builder returns its block, which the l2 client is to validate ...
GetBuilderBlock(g) ==
    /\ ~external_state_root
    /\ get[g].id \in building
    /\ Leg(g, "call", "validate")
    /\ GetQuiet

\* ... or, with external_state_root, to build again: the FCU request that led
\* to the payload is taken from the map.
TakeRequest(g) ==
    /\ external_state_root
    /\ get[g].id \in building
    /\ get[g].id \in payload_to_fcu_request
    /\ Leg(g, "call", "root_fcu")
    /\ payload_to_fcu_request' = payload_to_fcu_request \ {get[g].id}
    /\ consumed' = consumed \cup {get[g].id}
    /\ GetFrame
    /\ UNCHANGED health

\* Without a request in the map, unwrap() panics and the whole call is lost.
TakeRequestPanics(g) ==
    /\ external_state_root
    /\ get[g].id \in building
    /\ get[g].id \notin payload_to_fcu_request
    /\ get[g].pc = "calls"
    /\ get[g].leg = "call"
    /\ get' = [get EXCEPT ![g] = [@ EXCEPT !.pc = "done", !.result = "panic"]]
    /\ GetQuiet

\* new_payload on the l2 client: only an invalid status or an error stops the
\* block; SYNCING and ACCEPTED let it pass.
GetValidate(g, verdict) ==
    /\ Leg(g, "validate", verdict)
    /\ GetQuiet

\* calculate_external_state_root: an error is one of the builder leg, a
\* missing payload id is not.
RootFcu(g, to) ==
    /\ Leg(g, "root_fcu", to)
    /\ GetQuiet

RootGet(g, to) ==
    /\ Leg(g, "root_get", to)
    /\ GetQuiet

\* Mutant: the join waits until the builder has a block.
GetJoin_WaitsForBlock(g) ==
    /\ get[g].pc = "calls"
    /\ get[g].l2 # "pending"
    /\ get[g].leg \in BlockLeg
    /\ \/ /\ get[g].l2 = "err"
          /\ health' = "ServiceUnavailable"
          /\ get' = [get EXCEPT ![g] = [@ EXCEPT !.pc = "done", !.result = "error"]]
       \/ /\ get[g].l2 = "ok"
          /\ health' = "Healthy"
          /\ get' = [get EXCEPT ![g].pc = "select"]
    /\ GetFrame
    /\ UNCHANGED <<payload_to_fcu_request, consumed>>

\* Both legs are in; the l2 answer decides the health probe.
GetJoin(g) ==
    /\ get[g].pc = "calls"
    /\ get[g].l2 # "pending"
    /\ get[g].leg \in DoneLeg
    /\ \/ /\ get[g].l2 = "err"
          /\ health' = "ServiceUnavailable"
          /\ get' = [get EXCEPT ![g] = [@ EXCEPT !.pc = "done", !.result = "error"]]
       \/ /\ get[g].l2 = "ok"
          /\ health' = "Healthy"
          /\ get' = [get EXCEPT ![g].pc = "select"]
    /\ GetFrame
    /\ UNCHANGED <<payload_to_fcu_request, consumed>>

\* The code compares in f64.  The double nearest to 0.1 is 0.1 * (1 + 2^-54): the
\* product rounds to k for 10k units of gas and stays off every integer otherwise,
\* so up to 2^49 units the comparison is the one of the exact tenth.
select_block(builder_gas, l2_gas) ==
    IF 10 * builder_gas < l2_gas THEN "l2" ELSE "builder"

\* Mutant: DryRun does not force the l2 block.
GetSelect_IgnoresDryRun(g, source) ==
    /\ get[g].pc = "select"
    /\ get[g].leg \in BlockLeg
    /\ \E builder_gas, l2_gas \in GasUsed :
        source = IF block_selection_policy THEN select_block(builder_gas, l2_gas)
                 ELSE "builder"
    /\ get' = [get EXCEPT ![g] = [@ EXCEPT !.pc = "done", !.result = source]]
    /\ GetQuiet

\* The execution mode is read again; a configured policy compares the blocks.
GetSelect(g, source) ==
    /\ get[g].pc = "select"
    /\ get[g].leg \in BlockLeg
    /\ \E builder_gas, l2_gas \in GasUsed :
        source = IF execution_mode = "DryRun" THEN "l2"
                 ELSE IF block_selection_policy THEN select_block(builder_gas, l2_gas)
                 ELSE "builder"
    /\ get' = [get EXCEPT ![g] = [@ EXCEPT !.pc = "done", !.result = source]]
    /\ GetQuiet

\* Mutant: the error of the builder leg is returned.
GetNoBuilderBlock_Propagates(g) ==
    /\ get[g].pc = "select"
    /\ get[g].leg \notin BlockLeg
    /\ get' = [get EXCEPT ![g] = [@ EXCEPT !.pc = "done",
                    !.result = IF get[g].leg = "failed" THEN "error" ELSE "l2"]]
    /\ GetQuiet

GetNoBuilderBlock(g) ==
    /\ get[g].pc = "select"
    /\ get[g].leg \notin BlockLeg
    /\ get' = [get EXCEPT ![g] =
                IF execution_mode = "Enabled" /\ get[g].leg = "failed"
                THEN [@ EXCEPT !.pc = "partial"]
                ELSE [@ EXCEPT !.pc = "done", !.result = "l2"]]
    /\ GetQuiet

GetPartial(g) ==
    /\ get[g].pc = "partial"
    /\ health' = "PartialContent"
    /\ get' = [get EXCEPT ![g] = [@ EXCEPT !.pc = "done", !.result = "l2"]]
    /\ GetFrame
    /\ UNCHANGED <<payload_to_fcu_request, consumed>>
-----------------------------------------------------------------------------
(* new_payload *)

NewFrame == UNCHANGED <<execution_mode, health, payload_to_fcu_request, fcu, get,
                        builderVars, consumed, evicted>>

\* remove_by_parent_hash takes the ids of the parent out of one cache ...
NewReceive(n, h) ==
    /\ new[n].pc = "done"
    /\ new' = [new EXCEPT ![n] = [pc |-> "traces", hash |-> h, ids |-> index[h],
                                  sent |-> FALSE]]
    /\ index' = [index EXCEPT ![h] = {}]
    /\ NewFrame
    /\ UNCHANGED trace

\* ... and their traces, one by one, out of the other.
RemoveTrace(n, p) ==
    /\ new[n].pc = "traces"
    /\ p \in new[n].ids
    /\ trace' = [trace EXCEPT ![p] = "absent"]
    /\ new' = [new EXCEPT ![n].ids = @ \ {p}]
    /\ NewFrame
    /\ UNCHANGED index

TracesRemoved(n) ==
    /\ new[n].pc = "traces"
    /\ new[n].ids = {}
    /\ new' = [new EXCEPT ![n].pc = "forward"]
    /\ NewFrame
    /\ UNCHANGED <<trace, index>>

\* Mode and health, read one after the other, decide whether the block is
\* sent to the builder as well.
NewReadMode(n) ==
    /\ new[n].pc = "forward"
    /\ new' = [new EXCEPT ![n].pc = IF execution_mode = "Disabled" THEN "l2" ELSE "health"]
    /\ NewFrame
    /\ UNCHANGED <<trace, index>>

NewForward(n) ==
    /\ new[n].pc = "health"
    /\ new' = [new EXCEPT ![n] = [@ EXCEPT !.pc = "l2",
                                          !.sent = ~should_skip_unhealthy_builder]]
    /\ NewFrame
    /\ UNCHANGED <<trace, index>>

NewL2Answer(n) ==
    /\ new[n].pc = "l2"
    /\ new' = [new EXCEPT ![n] = NewDone(@.hash)]
    /\ NewFrame
    /\ UNCHANGED <<trace, index>>
-----------------------------------------------------------------------------
(* The debug API, the health check loop (see HealthCheck), and the caches'  *)
(* own eviction.                                                            *)

set_execution_mode(m) ==
    /\ execution_mode' = m
    /\ get' = [g \in GetTasks |->
                IF get[g].pc = "done" THEN get[g]
                ELSE [get[g] EXCEPT !.modes = @ \cup {m}]]
    /\ UNCHANGED <<health, caches, payload_to_fcu_request, fcu, new, builderVars,
                   consumed>>

set_health(h) ==
    /\ health' = h
    /\ UNCHANGED <<execution_mode, caches, payload_to_fcu_request, fcu, get, new,
                   builderVars, consumed>>

EvictTrace(p) ==
    /\ trace[p] # "absent"
    /\ Cardinality({q \in PayloadIds : trace[q] # "absent"}) > CACHE_SIZE
    /\ trace' = [trace EXCEPT ![p] = "absent"]
    /\ UNCHANGED <<execution_mode, health, index, payload_to_fcu_request, fcu, get,
                   new, builderVars, consumed, evicted>>

EvictIndex(h) ==
    /\ index[h] # {}
    /\ Cardinality({k \in Hashes : index[k] # {}}) > CACHE_SIZE
    /\ index' = [index EXCEPT ![h] = {}]
    /\ evicted' = evicted \cup {h}
    /\ UNCHANGED <<execution_mode, health, trace, payload_to_fcu_request, fcu, get,
                   new, builderVars, consumed>>
-----------------------------------------------------------------------------
FcuTask(f) ==
    \/ FcuRoute(f)
    \/ \E answer \in {"id", "none"} : FcuL2Answer(f, answer)
    \/ \E builds \in BOOLEAN : FcuBuilderOk(f, builds)
    \/ FcuBuilderErr(f)
    \/ FcuJoin(f)
    \/ StoreTrace(f)
    \/ StoreIndex(f)
    \/ StoreRequest(f)

BuilderLeg(g) ==
    \/ GetLookup(g)
    \/ GetBuilderErr(g)
    \/ GetBuilderBlock(g)
    \/ TakeRequest(g)
    \/ TakeRequestPanics(g)
    \/ \E verdict \in {"valid", "unverified", "failed"} : GetValidate(g, verdict)
    \/ \E to \in {"root_get", "nothing", "failed"} : RootFcu(g, to)
    \/ \E to \in {"rooted", "nothing"} : RootGet(g, to)

GetTask(g) ==
    \/ \E answer \in {"ok", "err"} : GetL2Only(g, answer)
    \/ \E answer \in {"ok", "err"} : GetL2Answer(g, answer)
    \/ BuilderLeg(g)
    \/ GetJoin(g)
    \/ \E source \in {"l2", "builder"} : GetSelect(g, source)
    \/ GetNoBuilderBlock(g)
    \/ GetPartial(g)

NewTask(n) ==
    \/ \E p \in PayloadIds : RemoveTrace(n, p)
    \/ TracesRemoved(n)
    \/ NewReadMode(n)
    \/ NewForward(n)
    \/ NewL2Answer(n)

Receive ==
    \/ \E f \in FcuTasks, p \in PayloadIds, attrs \in BOOLEAN : FcuReceive(f, p, attrs)
    \/ \E g \in GetTasks, p \in PayloadIds : GetReceive(g, p)
    \/ \E n \in NewTasks, h \in Hashes : NewReceive(n, h)

Environment ==
    \/ \E m \in Mode : set_execution_mode(m)
    \/ \E h \in Health : set_health(h)
    \/ \E p \in PayloadIds : EvictTrace(p)
    \/ \E h \in Hashes : EvictIndex(h)

Next ==
    \/ Receive
    \/ \E f \in FcuTasks : FcuTask(f)
    \/ \E g \in GetTasks : GetTask(g)
    \/ \E n \in NewTasks : NewTask(n)
    \/ Environment

Spec == Init /\ [][Next]_vars

\* Every task is polled, and every call to a client ends by the client's
\* timeout.  The two legs of a getPayload are polled by the same task.
Fairness ==
    /\ \A f \in FcuTasks : WF_vars(FcuTask(f))
    /\ \A g \in GetTasks : WF_vars(GetTask(g))
    /\ \A n \in NewTasks : WF_vars(NewTask(n))

FairSpec == Spec /\ Fairness
-----------------------------------------------------------------------------
TypeOK ==
    /\ execution_mode \in Mode
    /\ health \in Health
    /\ trace \in [PayloadIds -> {"absent", "l2", "builder"}]
    /\ index \in [Hashes -> SUBSET PayloadIds]
    /\ payload_to_fcu_request \subseteq PayloadIds
    /\ fcu \in [FcuTasks -> FcuRecord]
    /\ get \in [GetTasks -> GetRecord]
    /\ new \in [NewTasks -> NewRecord]
    /\ building \subseteq PayloadIds
    /\ acked \subseteq PayloadIds
    /\ consumed \subseteq PayloadIds
    /\ evicted \subseteq Hashes

\* store and remove_by_parent_hash each touch two caches in two steps, and
\* run concurrently.  A trace is nevertheless always within reach of a later
\* remove_by_parent_hash: its id is listed under its parent, is about to be,
\* is being removed, or the list itself was evicted.
TraceIsReachable ==
    \A p \in PayloadIds :
        trace[p] # "absent" =>
            \/ p \in index[ParentOf[p]]
            \/ \E f \in FcuTasks : fcu[f].pc = "index" /\ fcu[f].id = p
            \/ \E n \in NewTasks : new[n].pc = "traces" /\ p \in new[n].ids
            \/ ParentOf[p] \in evicted

\* has_builder_payload is only ever true of a payload whose FCU the builder
\* answered, and never of one built with no_tx_pool.
TraceIsTruthful ==
    \A p \in PayloadIds :
        trace[p] = "builder" => p \in acked /\ p \notin NoTxPool

\* "The sequencer must be able to produce blocks even when external components
\* like dedicated builders experience issues": a getPayload the l2 client
\* answered ends with a block, whatever became of the builder leg.
L2AnswerSuffices ==
    \A g \in GetTasks :
        get[g].pc = "done" /\ get[g].l2 = "ok" => get[g].result \in {"l2", "builder"}

\* A builder block reaches the consensus node only when the l2 client had a
\* fallback and let the block pass, the builder had answered the FCU, and the
\* call did not run in DryRun mode from beginning to end.
BuilderBlockIsChecked ==
    \A g \in GetTasks :
        get[g].result = "builder" =>
            /\ get[g].l2 = "ok"
            /\ get[g].leg \in BlockLeg
            /\ get[g].id \in acked
            /\ get[g].modes # {"DryRun"}

\* "Block construction is handled exclusively by the default execution
\* client": a getPayload that only ever saw the Disabled mode asks the builder
\* for nothing and answers with the l2 client's block or error.
DisabledIsSilent ==
    \A g \in GetTasks :
        get[g].modes = {"Disabled"} =>
            ~get[g].asked /\ get[g].result \in {"none", "l2", "error"}

\* The unwrap() of calculate_external_state_root is safe on the first
\* getPayload after the FCU has returned: the request is in the map, unless
\* another getPayload has taken it or the FCU is still storing it.
RootRequestIsStored ==
    external_state_root =>
        \A g \in GetTasks :
            get[g].pc = "calls" /\ get[g].leg = "call" =>
                \/ get[g].id \in payload_to_fcu_request \cup consumed
                \/ \E f \in FcuTasks :
                    fcu[f].id = get[g].id /\ fcu[f].pc \in {"index", "request"}

\* The joins of forkchoiceUpdated and getPayload wait for two clients.  Every
\* call is answered, whatever each of the two says and while the mode and the
\* health keep changing.
EveryCallIsAnswered ==
    /\ \A f \in FcuTasks : fcu[f].pc # "done" ~> fcu[f].pc = "done"
    /\ \A g \in GetTasks : get[g].pc # "done" ~> get[g].pc = "done"
=============================================================================
