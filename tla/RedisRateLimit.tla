--------------------------- MODULE RedisRateLimit ---------------------------
(***************************************************************************)
(* The websocket proxy's limiter for several instances that share a Redis  *)
(* server (crates/websocket-proxy/src/rate_limit.rs, RedisRateLimit).      *)
(*                                                                         *)
(* Every instance counts its own connections, per address and per          *)
(* application, under keys of its own; a limit is compared with the sum    *)
(* over all instances.  Each command is one step: the requests of all      *)
(* instances, their background tasks, and crashes interleave between any   *)
(* two of them.  An instance that restarts has a new id.                   *)
(*                                                                         *)
(* The handlers for addresses and for applications are alike, so a request *)
(* has a list of the counters it takes, the address before the             *)
(* application.                                                            *)
(***************************************************************************)
EXTENDS Integers, Sequences, FiniteSets

CONSTANTS
    Instances,          \* instance ids
    Requests,           \* connections, from try_acquire to the ticket's drop
    Route,              \* the instances a connection may be routed to
    IPv4, IPv6,
    Apps, NoApp,
    authentication,     \* whether API keys are configured
    instance_limit,
    per_ip_limit,       \* 0 means no limit
    per_app_limit,      \* [Apps -> Nat]
    NoKey,              \* a key that does not exist
    Stalls,             \* whether a live heartbeat may expire
    MaxErrors           \* bound: failing connections and commands

Addrs == IPv4 \cup IPv6
Counters == Addrs \cup Apps

ASSUME RedisAssumption ==
    /\ IsFiniteSet(Instances) /\ IsFiniteSet(Requests)
    /\ Route \in [Requests -> SUBSET Instances]
    /\ IPv4 \cap IPv6 = {} /\ Addrs \cap Apps = {} /\ NoApp \notin Apps
    /\ authentication \in BOOLEAN
    /\ instance_limit \in Nat /\ per_ip_limit \in Nat
    /\ per_app_limit \in [Apps -> Nat]
    /\ NoKey \notin Int \cup Instances
    /\ Stalls \in BOOLEAN /\ MaxErrors \in Nat

VARIABLES
    process,            \* [Instances -> {"new", "up", "down"}]
    semaphore,          \* an instance's available permits
    background,         \* an instance's heartbeat and cleanup task
    heartbeat,          \* Redis: whether an instance's heartbeat key exists
    count,              \* Redis: an instance's counters
    req,
    errors,
    wiped               \* history: a live instance's counters were deleted

redis == <<heartbeat, count>>
vars == <<process, semaphore, background, redis, req, errors, wiped>>

Idle == [pc |-> "idle", inst |-> NoKey, keys |-> <<>>, at |-> 1,
         todo |-> {}, total |-> 0, missed |-> FALSE, before |-> {}]
NotStarted == [pc |-> "none", active |-> {}, stale |-> {}, id |-> NoKey, keys |-> {},
               dead |-> {}]     \* history: instances gone when the round began

Init ==
    /\ process = [i \in Instances |-> "new"]
    /\ semaphore = [i \in Instances |-> instance_limit]
    /\ background = [i \in Instances |-> NotStarted]
    /\ heartbeat = [i \in Instances |-> FALSE]
    /\ count = [i \in Instances |-> [k \in Counters |-> NoKey]]
    /\ req = [r \in Requests |-> Idle]
    /\ errors = 0
    /\ wiped = FALSE
-----------------------------------------------------------------------------
(* INCR and DECR create a missing key; GET as usize fails on a missing or  *)
(* negative value, and unwrap_or(0) takes it for none.                     *)

Value(n) == IF n = NoKey THEN 0 ELSE n
GetOr0(n) == IF Value(n) < 0 THEN 0 ELSE Value(n)

Limit(k) == IF k \in Addrs THEN per_ip_limit ELSE per_app_limit[k]
Key(r) == req[r].keys[req[r].at]

Holders(k) ==
    {r \in Requests : req[r].pc = "held" /\ \E n \in DOMAIN req[r].keys : req[r].keys[n] = k}

Error == errors < MaxErrors /\ errors' = errors + 1

Add(r, n) == count' = [count EXCEPT ![req[r].inst][Key(r)] = Value(@) + n]
-----------------------------------------------------------------------------
(* The process *)

\* new(): the heartbeat is written; when that fails the limiter is used all
\* the same.
new(i) ==
    /\ process[i] = "new"
    /\ process' = [process EXCEPT ![i] = "up"]
    /\ \/ heartbeat' = [heartbeat EXCEPT ![i] = TRUE] /\ UNCHANGED errors
       \/ Error /\ UNCHANGED heartbeat
    /\ UNCHANGED <<semaphore, background, count, req, wiped>>

\* Redis keeps what the process has written.
Crash(i) ==
    LET gone == {r \in Requests : req[r].inst = i} IN
    /\ process[i] = "up"
    /\ process' = [process EXCEPT ![i] = "down"]
    /\ semaphore' = [semaphore EXCEPT ![i] = instance_limit]
    /\ background' = [background EXCEPT ![i] = NotStarted]
    /\ req' = [r \in Requests |->
                IF r \in gone THEN Idle ELSE [req[r] EXCEPT !.before = @ \ gone]]
    /\ UNCHANGED <<redis, errors, wiped>>

\* The heartbeat's time to live ends.  It is six times the period in which
\* the background task, once it is started, renews it.
Expire(i) ==
    /\ heartbeat[i]
    /\ process[i] = "up" /\ background[i].pc # "none" => Stalls
    /\ heartbeat' = [heartbeat EXCEPT ![i] = FALSE]
    /\ UNCHANGED <<process, semaphore, background, count, req, errors, wiped>>
-----------------------------------------------------------------------------
(* try_acquire: a permit, then for each counter KEYS, a GET per key, the   *)
(* comparison and INCR                                                     *)

start_background_tasks(i) ==
    background' = IF background[i].pc = "none"
                  THEN [background EXCEPT ![i].pc = "heartbeat"]
                  ELSE background

Taken(a, app) ==
    (IF per_ip_limit > 0 THEN <<a>> ELSE <<>>) \o (IF app \in Apps THEN <<app>> ELSE <<>>)

Begin(r, i, a, app) ==
    LET keys == Taken(a, app) IN
    /\ req[r].pc = "idle"
    /\ app # NoApp <=> authentication
    /\ process[i] = "up"
    /\ start_background_tasks(i)
    /\ semaphore[i] > 0
    /\ semaphore' = [semaphore EXCEPT ![i] = @ - 1]
    /\ req' = [req EXCEPT ![r] = [Idle EXCEPT !.pc = IF keys = <<>> THEN "held" ELSE "keys",
                                              !.inst = i, !.keys = keys]]
    /\ UNCHANGED <<process, redis, errors, wiped>>

\* No permit, or no connection to Redis: the permit is back.
BeginRefused(r, i) ==
    /\ req[r].pc = "idle"
    /\ process[i] = "up"
    /\ start_background_tasks(i)
    /\ \/ semaphore[i] = 0 /\ UNCHANGED errors
       \/ semaphore[i] > 0 /\ Error
    /\ UNCHANGED <<process, semaphore, redis, req, wiped>>

Keys(r) ==
    /\ req[r].pc = "keys"
    /\ req' = [req EXCEPT ![r] = [@ EXCEPT !.pc = "get", !.total = 0, !.missed = FALSE,
                                  !.todo = {i \in Instances : count[i][Key(r)] # NoKey},
                                  !.before = Holders(Key(r))]]
    /\ UNCHANGED <<process, semaphore, background, redis, errors, wiped>>

\* A GET that fails counts nothing.
Get(r, i) ==
    /\ req[r].pc = "get"
    /\ i \in req[r].todo
    /\ \/ /\ req' = [req EXCEPT ![r] = [req[r] EXCEPT !.todo = @ \ {i},
                                             !.total = @ + GetOr0(count[i][Key(r)])]]
          /\ UNCHANGED errors
       \/ /\ Error
          /\ req' = [req EXCEPT ![r] = [req[r] EXCEPT !.todo = @ \ {i}, !.missed = TRUE]]
    /\ UNCHANGED <<process, semaphore, background, redis, wiped>>

Summed(r) == req[r].pc = "get" /\ req[r].todo = {}

\* An early return: the permit is back; a counter taken before stays taken.
Refused(r) ==
    /\ semaphore' = [semaphore EXCEPT ![req[r].inst] = @ + 1]
    /\ req' = [req EXCEPT ![r] = Idle]

\* Mutant: one connection more.
OverLimit_OneMore(r) == req[r].total > Limit(Key(r))

OverLimit(r) == req[r].total >= Limit(Key(r))

\* Mutant: the permit is not returned.
LimitReached_KeepsPermit(r) ==
    /\ Summed(r)
    /\ OverLimit(r)
    /\ req' = [req EXCEPT ![r] = Idle]
    /\ UNCHANGED <<process, semaphore, background, redis, errors, wiped>>

LimitReached(r) ==
    /\ Summed(r)
    /\ OverLimit(r)
    /\ Refused(r)
    /\ UNCHANGED <<process, background, redis, errors, wiped>>

Incr(r) ==
    /\ Summed(r)
    /\ ~OverLimit(r)
    /\ Add(r, 1)
    /\ req' = [req EXCEPT ![r] =
                [req[r] EXCEPT !.pc = IF req[r].at = Len(req[r].keys) THEN "held" ELSE "keys",
                               !.at = @ + 1, !.total = 0, !.missed = FALSE, !.before = {}]]
    /\ UNCHANGED <<process, semaphore, background, heartbeat, errors, wiped>>

\* KEYS or INCR fails; INCR may have been executed.
AcquireFails(r) ==
    /\ Error
    /\ \/ req[r].pc = "keys" /\ UNCHANGED count
       \/ Summed(r) /\ ~OverLimit(r) /\ (UNCHANGED count \/ Add(r, 1))
    /\ Refused(r)
    /\ UNCHANGED <<process, background, heartbeat, wiped>>
-----------------------------------------------------------------------------
(* Ticket::drop: release(), then the permit *)

\* The connection to Redis is made, or the counters are left as they are.
Drop(r) ==
    /\ req[r].pc = "held"
    /\ \E failed \in BOOLEAN :
        /\ IF failed THEN Error ELSE UNCHANGED errors
        /\ req' = [q \in Requests |->
                    IF q = r
                    THEN [req[r] EXCEPT !.pc = "release",
                                        !.at = IF failed THEN Len(req[r].keys) + 1 ELSE 1]
                    ELSE [req[q] EXCEPT !.before = @ \ {r}]]
    /\ UNCHANGED <<process, semaphore, background, redis, wiped>>

\* A DECR that fails is logged, whether or not it was executed.
Decr(r) ==
    /\ req[r].pc = "release"
    /\ req[r].at <= Len(req[r].keys)
    /\ \/ Add(r, -1) /\ UNCHANGED errors
       \/ (Add(r, -1) \/ UNCHANGED count) /\ Error
    /\ req' = [req EXCEPT ![r].at = @ + 1]
    /\ UNCHANGED <<process, semaphore, background, heartbeat, wiped>>

DropPermit(r) ==
    /\ req[r].pc = "release"
    /\ req[r].at > Len(req[r].keys)
    /\ Refused(r)
    /\ UNCHANGED <<process, background, redis, errors, wiped>>
-----------------------------------------------------------------------------
(* The background task: update_heartbeat, cleanup_stale_instances, sleep *)

Background(i, pc) == process[i] = "up" /\ background[i].pc = pc

update_heartbeat(i) ==
    /\ Background(i, "heartbeat")
    /\ \/ heartbeat' = [heartbeat EXCEPT ![i] = TRUE] /\ UNCHANGED errors
       \/ Error /\ UNCHANGED heartbeat
    /\ background' = [background EXCEPT ![i].pc = "heartbeats"]
    /\ UNCHANGED <<process, semaphore, count, req, wiped>>

ListHeartbeats(i) ==
    /\ Background(i, "heartbeats")
    /\ background' = [background EXCEPT ![i] =
            [@ EXCEPT !.pc = "ip_ids",
                      !.active = {j \in Instances : heartbeat[j]},
                      !.dead = {j \in Instances : process[j] = "down" /\ ~heartbeat[j]}]]
    /\ UNCHANGED <<process, semaphore, redis, req, errors, wiped>>

\* The id is the fifth part of the key between colons: for an IPv6 address
\* that is a part of the address, which is no instance's id.
IdIn(j, k) == IF k \in IPv6 THEN NoKey ELSE j

StaleIds(i, kind, S) ==
    LET found == {IdIn(jk[1], jk[2]) :
                    jk \in {x \in Instances \X S : count[x[1]][x[2]] # NoKey}}
    IN {<<kind, j>> : j \in found \ (background[i].active \cup {i})}

ListIpIds(i) ==
    /\ Background(i, "ip_ids")
    /\ background' = [background EXCEPT ![i] =
            [@ EXCEPT !.pc = "app_ids", !.stale = StaleIds(i, "ip", Addrs)]]
    /\ UNCHANGED <<process, semaphore, redis, req, errors, wiped>>

\* The rest of the loop over the stale instances, or the end of the round.
Resume(b) ==
    [pc |-> IF b.keys # {} THEN "del" ELSE IF b.stale # {} THEN "ip_keys" ELSE "heartbeat",
     active |-> {}, stale |-> b.stale, id |-> NoKey, keys |-> b.keys,
     dead |-> IF b.keys \cup b.stale # {} THEN b.dead ELSE {}]

ListAppIds(i) ==
    /\ Background(i, "app_ids")
    /\ background' = [background EXCEPT
            ![i] = Resume([background[i] EXCEPT !.stale = @ \cup StaleIds(i, "app", Apps)])]
    /\ UNCHANGED <<process, semaphore, redis, req, errors, wiped>>

KeysOf(j, S) == {jk \in {j} \X S : j \in Instances /\ count[j][jk[2]] # NoKey}

\* cleanup_instance, with the ids found at addresses before those found at
\* applications; an instance with both is cleaned up twice.
ListIpKeys(i) ==
    /\ Background(i, "ip_keys")
    /\ \E s \in background[i].stale :
        /\ s[1] = "app" => \A t \in background[i].stale : t[1] = "app"
        /\ background' = [background EXCEPT ![i] =
                [background[i] EXCEPT !.pc = "app_keys", !.stale = @ \ {s}, !.id = s[2],
                                      !.keys = KeysOf(s[2], Addrs)]]
    /\ UNCHANGED <<process, semaphore, redis, req, errors, wiped>>

\* Mutant: the counters of applications are forgotten.
ListAppKeys_None(i) ==
    /\ Background(i, "app_keys")
    /\ background' = [background EXCEPT ![i] = Resume(@)]
    /\ UNCHANGED <<process, semaphore, redis, req, errors, wiped>>

ListAppKeys(i) ==
    /\ Background(i, "app_keys")
    /\ background' = [background EXCEPT
            ![i] = Resume([background[i] EXCEPT !.keys = @ \cup KeysOf(background[i].id, Apps)])]
    /\ UNCHANGED <<process, semaphore, redis, req, errors, wiped>>

\* The counters of addresses are deleted before those of applications.
Del(i) ==
    /\ Background(i, "del")
    /\ \E jk \in background[i].keys :
        /\ jk[2] \in Apps => background[i].keys \subseteq Instances \X Apps
        /\ count' = [count EXCEPT ![jk[1]][jk[2]] = NoKey]
        /\ background' = [background EXCEPT
                ![i] = Resume([background[i] EXCEPT !.keys = @ \ {jk}])]
        /\ wiped' = (wiped \/ process[jk[1]] = "up")
    /\ UNCHANGED <<process, semaphore, heartbeat, req, errors>>

\* Any command of the cleanup fails: the next round starts over.
CleanupFails(i) ==
    /\ process[i] = "up"
    /\ background[i].pc \notin {"none", "heartbeat"}
    /\ Error
    /\ background' = [background EXCEPT ![i] = [NotStarted EXCEPT !.pc = "heartbeat"]]
    /\ UNCHANGED <<process, semaphore, redis, req, wiped>>
-----------------------------------------------------------------------------
try_acquire(r) ==
    \/ \E i \in Route[r] :
        \/ \E a \in Addrs, app \in Apps \cup {NoApp} : Begin(r, i, a, app)
        \/ BeginRefused(r, i)
    \/ Keys(r)
    \/ \E i \in Instances : Get(r, i)
    \/ LimitReached(r)
    \/ Incr(r)
    \/ AcquireFails(r)

release(r) == Decr(r) \/ DropPermit(r)

Task(i) ==
    \/ update_heartbeat(i)
    \/ ListHeartbeats(i)
    \/ ListIpIds(i)
    \/ ListAppIds(i)
    \/ ListIpKeys(i)
    \/ ListAppKeys(i)
    \/ Del(i)
    \/ CleanupFails(i)

Next ==
    \/ \E r \in Requests : try_acquire(r) \/ Drop(r) \/ release(r)
    \/ \E i \in Instances : new(i) \/ Crash(i) \/ Expire(i) \/ Task(i)

Spec == Init /\ [][Next]_vars
-----------------------------------------------------------------------------
RequestRecord ==
    [pc : {"idle", "keys", "get", "held", "release"},
     inst : Instances \cup {NoKey}, keys : Seq(Counters), at : Nat \ {0},
     todo : SUBSET Instances, total : Nat, missed : BOOLEAN, before : SUBSET Requests]

TaskRecord ==
    [pc : {"none", "heartbeat", "heartbeats", "ip_ids", "app_ids", "ip_keys", "app_keys", "del"},
     active : SUBSET Instances, stale : SUBSET ({"ip", "app"} \X (Instances \cup {NoKey})),
     id : Instances \cup {NoKey}, keys : SUBSET (Instances \X Counters),
     dead : SUBSET Instances]

TypeOK ==
    /\ process \in [Instances -> {"new", "up", "down"}]
    /\ semaphore \in [Instances -> Nat]
    /\ background \in [Instances -> TaskRecord]
    /\ heartbeat \in [Instances -> BOOLEAN]
    /\ count \in [Instances -> [Counters -> Int \cup {NoKey}]]
    /\ req \in [Requests -> RequestRecord]
    /\ errors \in Nat
    /\ wiped \in BOOLEAN

Owned(i) == {r \in Requests : req[r].inst = i}

\* Every early return and every drop gives the permit back, once: what is not
\* available is held by a request of the instance, so that instance_limit bounds
\* them.
PermitsAreConserved ==
    \A i \in Instances :
        /\ semaphore[i] >= 0
        /\ semaphore[i] + Cardinality(Owned(i)) = instance_limit

\* Requests that run at the same time may together exceed a limit, because
\* the sum is read before the counter is incremented.  Connections that were
\* there before the sum was read, and are still there, count: when they reach
\* the limit the request is refused, on whichever instance they are.
Admits(r) == req'[r].at = req[r].at + 1 /\ req[r].pc = "get"
EstablishedLimitHolds ==
    [][\A r \in Requests :
        Admits(r) =>
            \/ Cardinality(req[r].before) < Limit(Key(r))
            \/ req[r].missed
            \/ wiped]_vars

RoundEnds(i) ==
    /\ background[i].pc \notin {"none", "heartbeat"}
    /\ background'[i].pc = "heartbeat"
    /\ UNCHANGED errors

\* One round of another instance's task is enough to delete the counters that
\* a crashed instance has left for applications and for IPv4 addresses, when
\* its heartbeat had expired before the round began and no command fails.
OneRoundCleansUp ==
    [][\A i \in Instances : RoundEnds(i) =>
        \A j \in background[i].dead, k \in Counters \ IPv6 : count'[j][k] = NoKey]_vars
=============================================================================
