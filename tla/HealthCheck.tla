----------------------------- MODULE HealthCheck -----------------------------
(***************************************************************************)
(* The health check loop of the sidecar and the clock it judges blocks by  *)
(* (crates/rollup-boost/src/health.rs, crates/rollup-boost/src/probe.rs).  *)
(* The loop reads the clock, asks the l2 client for its latest block, and  *)
(* the builder for its own when the mode is Enabled; the answers take      *)
(* time.  The debug API changes the mode meanwhile.                        *)
(*                                                                         *)
(* Time advances in fractions of a second: MonotonicTimestamp counts whole *)
(* seconds.                                                                *)
(***************************************************************************)
EXTENDS Integers

CONSTANTS
    Second,                 \* instants per second
    health_check_interval,  \* in seconds
    max_unsafe_interval,    \* in seconds
    MaxTime                 \* bound: last instant considered

ASSUME HealthAssumption ==
    /\ Second \in Nat \ {0}
    /\ health_check_interval \in Nat
    /\ max_unsafe_interval \in Nat
    /\ MaxTime \in Nat

VARIABLES
    now,            \* the system time, in instants since the epoch
    last_unix,      \* MonotonicTimestamp: seconds
    last_instant,   \* MonotonicTimestamp: instant
    pc,             \* where the loop is
    wake,           \* end of the current sleep
    l2_head,        \* timestamp of the l2 client's latest block, in seconds
    builder_head,   \* timestamp of the builder's latest block
    execution_mode,
    health,
    ticks,          \* history: iterations of the loop
    asof,           \* history: system time of the current iteration's tick
    modes           \* history: modes in force since then

clock == <<last_unix, last_instant, ticks, asof>>
chain == <<l2_head, builder_head>>
vars == <<now, clock, pc, wake, chain, execution_mode, health, modes>>

Mode == {"Enabled", "DryRun", "Disabled"}
Health == {"Healthy", "PartialContent", "ServiceUnavailable"}

Init ==
    /\ now \in 0 .. Second - 1
    /\ last_unix = now \div Second
    /\ last_instant = now
    /\ pc = "tick"
    /\ wake = now
    /\ l2_head = 0
    /\ builder_head = 0
    /\ execution_mode \in Mode
    /\ health = "Healthy"
    /\ ticks = 0
    /\ asof = now
    /\ modes = {execution_mode}

\* Mutant: a block exactly max_unsafe_interval old is too old.
TooOld_AtLimit(timestamp) ==
    (IF last_unix > timestamp THEN last_unix - timestamp ELSE 0) >= max_unsafe_interval

\* t.saturating_sub(timestamp) > max_unsafe_interval, where t is last_unix
TooOld(timestamp) ==
    (IF last_unix > timestamp THEN last_unix - timestamp ELSE 0) > max_unsafe_interval

Elapsed == (now - last_instant) \div Second

Tick ==
    /\ pc = "tick"
    /\ last_unix' = last_unix + Elapsed
    /\ last_instant' = now
    /\ ticks' = ticks + 1
    /\ asof' = now
    /\ modes' = {execution_mode}
    /\ pc' = "l2"
    /\ UNCHANGED <<now, wake, chain, execution_mode, health>>

Sleep ==
    /\ pc' = "sleep"
    /\ wake' = now + health_check_interval * Second

LoopFrame == UNCHANGED <<now, clock, chain, execution_mode, modes>>

\* The l2 client fails, or its latest block is too old.
L2Unhealthy ==
    /\ pc = "l2"
    /\ health' = "ServiceUnavailable"
    /\ Sleep
    /\ LoopFrame

L2Stale ==
    /\ TooOld(l2_head)
    /\ L2Unhealthy

\* The block is recent; the mode is read twice, and may change in between.
L2Fresh ==
    /\ pc = "l2"
    /\ ~TooOld(l2_head)
    /\ \/ /\ execution_mode = "Disabled"
          /\ health' = "Healthy"
          /\ Sleep
       \/ /\ execution_mode # "Disabled"
          /\ pc' = "dry_run"
          /\ UNCHANGED <<health, wake>>
    /\ LoopFrame

ReadDryRun ==
    /\ pc = "dry_run"
    /\ \/ /\ execution_mode = "DryRun"
          /\ health' = "Healthy"
          /\ Sleep
       \/ /\ execution_mode # "DryRun"
          /\ pc' = "enabled"
          /\ UNCHANGED <<health, wake>>
    /\ LoopFrame

\* Mutant: the builder is checked in any mode.
ReadEnabled_AnyMode ==
    /\ pc = "enabled"
    /\ pc' = "builder"
    /\ UNCHANGED <<health, wake>>
    /\ LoopFrame

ReadEnabled ==
    /\ pc = "enabled"
    /\ \/ /\ execution_mode = "Enabled"
          /\ pc' = "builder"
          /\ UNCHANGED wake
       \/ /\ execution_mode # "Enabled"
          /\ Sleep
    /\ UNCHANGED health
    /\ LoopFrame

BuilderFresh ==
    /\ pc = "builder"
    /\ ~TooOld(builder_head)
    /\ health' = "Healthy"
    /\ Sleep
    /\ LoopFrame

\* The builder fails, or its latest block is too old.
BuilderUnhealthy ==
    /\ pc = "builder"
    /\ health' = "PartialContent"
    /\ Sleep
    /\ LoopFrame

BuilderStale ==
    /\ TooOld(builder_head)
    /\ BuilderUnhealthy

Wake ==
    /\ pc = "sleep"
    /\ now >= wake
    /\ pc' = "tick"
    /\ UNCHANGED <<now, clock, wake, chain, execution_mode, health, modes>>
-----------------------------------------------------------------------------
(* The world: time, the chain, the debug API.                               *)

Advance ==
    /\ now < MaxTime
    /\ now' = now + 1
    /\ UNCHANGED <<clock, pc, wake, chain, execution_mode, health, modes>>

NewBlock ==
    /\ l2_head' = now \div Second
    /\ UNCHANGED <<now, clock, pc, wake, builder_head, execution_mode, health, modes>>

BuilderSyncs ==
    /\ builder_head' = l2_head
    /\ UNCHANGED <<now, clock, pc, wake, l2_head, execution_mode, health, modes>>

set_execution_mode(m) ==
    /\ execution_mode' = m
    /\ modes' = modes \cup {m}
    /\ UNCHANGED <<now, clock, pc, wake, chain, health>>

Loop ==
    \/ Tick
    \/ L2Unhealthy
    \/ L2Fresh
    \/ ReadDryRun
    \/ ReadEnabled
    \/ BuilderFresh
    \/ BuilderUnhealthy
    \/ Wake

Next ==
    \/ Loop
    \/ Advance
    \/ NewBlock
    \/ BuilderSyncs
    \/ \E m \in Mode : set_execution_mode(m)

Spec == Init /\ [][Next]_vars
-----------------------------------------------------------------------------
TypeOK ==
    /\ now \in Nat
    /\ last_unix \in Nat
    /\ last_instant \in Nat
    /\ pc \in {"tick", "l2", "dry_run", "enabled", "builder", "sleep"}
    /\ wake \in Nat
    /\ l2_head \in Nat
    /\ builder_head \in Nat
    /\ execution_mode \in Mode
    /\ health \in Health
    /\ ticks \in Nat
    /\ asof \in Nat
    /\ modes \subseteq Mode

\* The synthetic clock never runs ahead of the system time, and every tick
\* makes it lag by less than one more second: tick() drops the fraction of a
\* second that has passed, and starts again from the present instant.
ClockLag ==
    /\ last_unix * Second <= last_instant
    /\ last_instant <= now
    /\ last_instant - last_unix * Second < (ticks + 1) * Second

\* A block judged too old is: its timestamp is further back from the current
\* time than max_unsafe_interval.  The lag of the clock errs on the other side.
StaleIsStale ==
    [][/\ L2Stale => now \div Second - l2_head > max_unsafe_interval
       /\ BuilderStale => now \div Second - builder_head > max_unsafe_interval]_vars

\* "Only check builder client health if execution mode is enabled": the mode
\* is read three times and changes in between, yet the loop reports
\* PartialContent only in an iteration that saw the Enabled mode and found the
\* l2 client's block recent.
PartialNeedsEnabled ==
    [][health' = "PartialContent" /\ health # "PartialContent" =>
            "Enabled" \in modes /\ ~TooOld(l2_head)]_vars
=============================================================================
