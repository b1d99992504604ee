-------------------------- MODULE HealthCheckProofs --------------------------
(***************************************************************************)
(* Proofs about HealthCheck, for any granularity of time, any intervals    *)
(* and any running time of the loop.                                       *)
(***************************************************************************)
EXTENDS HealthCheck, TLAPS

LEMMA DivFacts ==
    ASSUME NEW a \in Nat, NEW d \in Nat \ {0}
    PROVE  /\ a \div d \in Nat
           /\ (a \div d) * d <= a
           /\ a < (a \div d) * d + d
  OBVIOUS

LEMMA DivLargest ==
    ASSUME NEW q \in Nat, NEW a \in Nat, NEW d \in Nat \ {0}, q * d <= a
    PROVE  q <= a \div d
<1> DEFINE r == a \div d
<1>1. r \in Nat /\ a < r * d + d
  BY DivFacts
<1> HIDE DEF r
<1>2. ASSUME r + 1 <= q PROVE FALSE
  <2>1. (r + 1) * d = r * d + d
    BY <1>1
  <2>2. (r + 1) * d <= q * d
    BY <1>1, <1>2
  <2> QED
    BY <1>1, <2>1, <2>2
<1>3. q <= r
  BY <1>1, <1>2
<1> QED
  BY <1>3 DEF r
-----------------------------------------------------------------------------
\* Blocks are not of the future, and an iteration that got past the l2
\* client's block has found it recent; past the last look at the mode, Enabled.
IterationInv ==
    /\ l2_head <= now \div Second
    /\ execution_mode \in modes
    /\ pc \in {"dry_run", "enabled", "builder"} => ~TooOld(l2_head)
    /\ pc = "builder" => "Enabled" \in modes

IInv == TypeOK /\ ClockLag /\ IterationInv

LEMMA NowDiv ==
    ASSUME TypeOK
    PROVE  now \div Second \in Nat /\ now \div Second <= (now + 1) \div Second
<1> USE HealthAssumption DEF TypeOK
<1> DEFINE q == now \div Second
<1>1. q \in Nat /\ q * Second <= now
  BY DivFacts
<1> HIDE DEF q
<1>2. q * Second <= now + 1
  BY <1>1
<1>3. q <= (now + 1) \div Second
  BY <1>1, <1>2, DivLargest
<1> QED
  BY <1>1, <1>3 DEF q

\* A later block is not older.
LEMMA FresherBlock ==
    ASSUME NEW a \in Nat, NEW b \in Nat, a <= b, last_unix \in Nat, ~TooOld(a)
    PROVE  ~TooOld(b)
  BY HealthAssumption DEF TooOld

\* tick() is the only step that changes the clock.
LEMMA TickClock ==
    ASSUME TypeOK, ClockLag, Tick
    PROVE  ClockLag' /\ last_unix' \in Nat
<1> USE HealthAssumption DEF TypeOK
<1> DEFINE e == Elapsed
           S == Second
<1>1. e \in Nat /\ e * S <= now - last_instant /\ now - last_instant < e * S + S
  BY DivFacts DEF ClockLag, Elapsed
<1>2. /\ last_unix' = last_unix + e
      /\ last_instant' = now /\ now' = now /\ ticks' = ticks + 1
  BY DEF Tick
<1>3. S \in Nat \ {0}
  OBVIOUS
<1> HIDE DEF e, S
<1>4. (last_unix + e) * S = last_unix * S + e * S
  BY <1>1, <1>3
<1>5. (ticks + 2) * S = (ticks + 1) * S + S
  BY <1>3
<1>6. last_unix * S \in Int /\ e * S \in Int /\ (ticks + 1) * S \in Int
  BY <1>1, <1>3
<1>7. last_unix * S <= last_instant /\ last_instant - last_unix * S < (ticks + 1) * S
  BY DEF ClockLag, S
<1>8. /\ (last_unix + e) * S <= now
      /\ now - (last_unix + e) * S < (ticks + 2) * S
  BY <1>1, <1>3, <1>4, <1>5, <1>6, <1>7
<1>9. ticks' + 1 = ticks + 2
  BY <1>2
<1> QED
  BY <1>1, <1>2, <1>8, <1>9 DEF ClockLag, S

\* The other steps of the loop leave the clock and the chain alone.
OtherStep ==
    \/ L2Unhealthy \/ L2Fresh \/ ReadDryRun \/ ReadEnabled
    \/ BuilderFresh \/ BuilderUnhealthy \/ Wake

LEMMA NextStep ==
    ASSUME IInv, [Next]_vars
    PROVE  IInv'
<1> USE HealthAssumption DEF IInv
<1>0. TypeOK
  OBVIOUS
<1>1. CASE Tick
  <2>1. ClockLag' /\ last_unix' \in Nat
    BY <1>1, TickClock
  <2>2. TypeOK'
    BY <1>1, <2>1 DEF Tick, TypeOK, chain
  <2>3. IterationInv'
    BY <1>1 DEF Tick, chain, IterationInv
  <2> QED
    BY <2>1, <2>2, <2>3
<1>2. CASE OtherStep
  <2>1. UNCHANGED <<now, clock, chain, execution_mode, modes>>
    BY <1>2 DEF OtherStep, L2Unhealthy, L2Fresh, ReadDryRun, ReadEnabled, BuilderFresh,
       BuilderUnhealthy, Wake, LoopFrame
  <2>2. ClockLag'
    BY <2>1 DEF ClockLag, clock
  <2>3. /\ pc' \in {"tick", "l2", "dry_run", "enabled", "builder", "sleep"}
        /\ health' \in Health
    BY <1>2 DEF TypeOK, Health, OtherStep, L2Unhealthy, L2Fresh, ReadDryRun, ReadEnabled,
       BuilderFresh, BuilderUnhealthy, Wake, Sleep
  <2>4. health_check_interval * Second \in Nat
    OBVIOUS
  <2>5. wake' \in Nat
    BY <1>2, <2>4 DEF TypeOK, OtherStep, L2Unhealthy, L2Fresh, ReadDryRun, ReadEnabled,
       BuilderFresh, BuilderUnhealthy, Wake, Sleep
  <2>6. TypeOK'
    BY <2>1, <2>3, <2>5 DEF TypeOK, clock, chain
  <2>7. /\ pc' \in {"dry_run", "enabled", "builder"} => ~TooOld(l2_head)
        /\ pc' = "builder" => "Enabled" \in modes
    BY <1>2 DEF IterationInv, OtherStep, L2Unhealthy, L2Fresh, ReadDryRun, ReadEnabled,
       BuilderFresh, BuilderUnhealthy, Wake, Sleep
  <2>8. IterationInv'
    BY <2>1, <2>7 DEF IterationInv, TooOld, clock, chain
  <2> QED
    BY <2>2, <2>6, <2>8
<1>3. CASE Advance
  <2>1. TypeOK' /\ ClockLag'
    BY <1>3 DEF Advance, TypeOK, ClockLag, clock, chain
  <2>2. l2_head' <= (now \div Second)'
    <3>1. l2_head' = l2_head /\ now' = now + 1 /\ l2_head \in Nat
      BY <1>3 DEF Advance, chain, TypeOK
    <3>2. (now + 1) \div Second \in Nat
      BY DivFacts DEF TypeOK
    <3> QED
      BY <1>0, <3>1, <3>2, NowDiv DEF IterationInv
  <2>3. IterationInv'
    BY <1>3, <2>2 DEF Advance, IterationInv, TooOld, clock, chain
  <2> QED
    BY <2>1, <2>3
<1>4. CASE NewBlock
  <2>1. now \div Second \in Nat
    BY <1>0, NowDiv
  <2>2. TypeOK' /\ ClockLag'
    BY <1>4, <2>1 DEF NewBlock, TypeOK, ClockLag, clock
  <2>3. ~TooOld(l2_head) => ~TooOld(now \div Second)
    BY <2>1, FresherBlock DEF TypeOK, IterationInv
  <2>4. TooOld(l2_head)' <=> TooOld(now \div Second)
    BY <1>4 DEF NewBlock, TooOld, clock
  <2>5. l2_head' <= (now \div Second)'
    BY <1>4, <2>1 DEF NewBlock
  <2> QED
    BY <1>4, <2>2, <2>3, <2>4, <2>5 DEF NewBlock, IterationInv
<1>5. CASE BuilderSyncs
  BY <1>5 DEF BuilderSyncs, TypeOK, ClockLag, IterationInv, TooOld, clock
<1>6. CASE \E m \in Mode : set_execution_mode(m)
  BY <1>6 DEF set_execution_mode, TypeOK, ClockLag, IterationInv, TooOld, clock, chain
<1>7. CASE UNCHANGED vars
  BY <1>7 DEF vars, TypeOK, ClockLag, IterationInv, TooOld, clock, chain
<1> QED
  BY <1>1, <1>2, <1>3, <1>4, <1>5, <1>6, <1>7 DEF Next, Loop, OtherStep

LEMMA HealthInvariant == Spec => []IInv
<1>1. Init => IInv
  <2> SUFFICES ASSUME Init PROVE IInv
    OBVIOUS
  <2> USE HealthAssumption
  <2>1. now \in Nat /\ now < Second
    BY DEF Init
  <2>2. now \div Second = 0
    BY <2>1, DivFacts
  <2>3. TypeOK
    BY <2>1, <2>2 DEF Init, TypeOK, Mode, Health
  <2>4. ClockLag
    BY <2>1, <2>2 DEF Init, ClockLag
  <2>5. IterationInv
    BY <2>2 DEF Init, IterationInv
  <2> QED
    BY <2>3, <2>4, <2>5 DEF IInv
<1>2. IInv /\ [Next]_vars => IInv'
  BY NextStep
<1> QED
  BY <1>1, <1>2, PTL DEF Spec

\* Every step of the loop, the chain and the debug API keeps the types.
THEOREM TypeCorrect == Spec => []TypeOK
<1>1. IInv => TypeOK
  BY DEF IInv
<1> QED
  BY <1>1, HealthInvariant, PTL

\* MonotonicTimestamp::tick keeps the clock at or behind the system time, and
\* behind by less than one second for every tick so far and one more.
THEOREM LaggingClock == Spec => []ClockLag
<1>1. IInv => ClockLag
  BY DEF IInv
<1> QED
  BY <1>1, HealthInvariant, PTL

\* The loop calls a block too old only when it is.
THEOREM StaleBlocksAreStale == Spec => StaleIsStale
<1>1. ASSUME IInv, NEW h \in Nat, TooOld(h)
      PROVE  now \div Second - h > max_unsafe_interval
  <2> USE HealthAssumption
  <2>1. /\ last_unix \in Nat /\ last_instant \in Nat /\ now \in Nat
        /\ last_unix * Second <= last_instant /\ last_instant <= now
    BY <1>1 DEF IInv, TypeOK, ClockLag
  <2>2. last_unix * Second \in Nat
    BY <2>1
  <2>3. last_unix * Second <= now
    BY <2>1, <2>2
  <2>4. last_unix <= now \div Second
    BY <2>1, <2>3, DivLargest
  <2>5. last_unix - h > max_unsafe_interval
    BY <1>1, <2>1 DEF TooOld
  <2>6. now \div Second \in Nat
    BY <2>1, DivFacts
  <2> QED
    BY <2>1, <2>4, <2>5, <2>6
<1>2. IInv => [/\ L2Stale => now \div Second - l2_head > max_unsafe_interval
               /\ BuilderStale => now \div Second - builder_head > max_unsafe_interval]_vars
  BY <1>1 DEF L2Stale, BuilderStale, IInv, TypeOK
<1> QED
  BY <1>2, HealthInvariant, PTL DEF StaleIsStale

\* The loop reports PartialContent only in an iteration that found the l2
\* client's block recent and saw the Enabled mode.
THEOREM PartialContentIsEarned == Spec => PartialNeedsEnabled
<1>1. IInv /\ [Next]_vars =>
        [health' = "PartialContent" /\ health # "PartialContent" =>
            "Enabled" \in modes /\ ~TooOld(l2_head)]_vars
  <2> SUFFICES ASSUME IInv, Next, health' = "PartialContent", health # "PartialContent"
               PROVE  "Enabled" \in modes /\ ~TooOld(l2_head)
    OBVIOUS
  <2>1. pc = "builder"
    BY DEF Next, Loop, Tick, L2Unhealthy, L2Fresh, ReadDryRun, ReadEnabled, BuilderFresh,
       BuilderUnhealthy, Wake, Advance, NewBlock, BuilderSyncs, set_execution_mode
  <2> QED
    BY <2>1 DEF IInv, IterationInv
<1> QED
  BY <1>1, HealthInvariant, PTL DEF Spec, PartialNeedsEnabled
=============================================================================
