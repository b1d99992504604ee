----------------------- MODULE RollupBoostServerProofs -----------------------
(***************************************************************************)
(* Proofs about RollupBoostServer, for any number of payloads, parents and *)
(* concurrent calls, and any size of the caches.                           *)
(***************************************************************************)
EXTENDS RollupBoostServer, TLAPS

\* The actions, grouped by the kind of task that takes them.
FcuStep(f) ==
    \/ \E p \in PayloadIds, attrs \in BOOLEAN : FcuReceive(f, p, attrs)
    \/ FcuTask(f)
GetStep(g) ==
    \/ \E p \in PayloadIds : GetReceive(g, p)
    \/ GetTask(g)
NewStep(n) ==
    \/ \E h \in Hashes : NewReceive(n, h)
    \/ NewTask(n)

LEMMA NextCases ==
    ASSUME [Next]_vars
    PROVE  \/ \E f \in FcuTasks : FcuStep(f)
           \/ \E g \in GetTasks : GetStep(g)
           \/ \E n \in NewTasks : NewStep(n)
           \/ Environment
           \/ UNCHANGED vars
  BY DEF Next, Receive, FcuStep, GetStep, NewStep
-----------------------------------------------------------------------------
(* Type correctness *)

LEMMA FcuStepType ==
    ASSUME TypeOK, NEW f \in FcuTasks, FcuStep(f)
    PROVE  TypeOK'
<1> USE ServerAssumption
<1>1. fcu[f] \in FcuRecord
  BY DEF TypeOK
<1>2. CASE \E p \in PayloadIds, attrs \in BOOLEAN : FcuReceive(f, p, attrs)
  BY <1>2 DEF FcuReceive, FcuFrame, RouteOf, TypeOK, FcuRecord, FcuPC, Route, builderVars
<1>3. CASE FcuRoute(f)
  BY <1>1, <1>3 DEF FcuRoute, FcuFrame, TypeOK, FcuRecord, FcuPC, Route, builderVars
<1>4. CASE \E answer \in {"id", "none"} : FcuL2Answer(f, answer)
  <2>1. PICK answer \in {"id", "none"} : FcuL2Answer(f, answer)
    BY <1>4
  <2>2. [fcu[f] EXCEPT !.l2 = answer] \in FcuRecord
    BY <1>1 DEF FcuRecord
  <2> QED
    BY <2>1, <2>2 DEF FcuL2Answer, FcuFrame, TypeOK, builderVars
<1>5. CASE \E builds \in BOOLEAN : FcuBuilderOk(f, builds)
  BY <1>1, <1>5 DEF FcuBuilderOk, FcuFrame, TypeOK, FcuRecord
<1>6. CASE FcuBuilderErr(f)
  BY <1>1, <1>6 DEF FcuBuilderErr, FcuFrame, TypeOK, FcuRecord, builderVars
<1>7. CASE FcuJoin(f)
  BY <1>1, <1>7 DEF FcuJoin, FcuDone, FcuFrame, TypeOK, FcuRecord, FcuPC, Route, builderVars
<1>8. CASE StoreTrace(f)
  BY <1>1, <1>8 DEF StoreTrace, FcuFrame, TypeOK, FcuRecord, FcuPC, builderVars
<1>9. CASE StoreIndex(f)
  BY <1>1, <1>9 DEF StoreIndex, FcuDone, FcuFrame, TypeOK, FcuRecord, FcuPC, Route, builderVars
<1>10. CASE StoreRequest(f)
  BY <1>1, <1>10 DEF StoreRequest, FcuDone, FcuFrame, TypeOK, FcuRecord, FcuPC, Route, builderVars
<1> QED
  BY <1>2, <1>3, <1>4, <1>5, <1>6, <1>7, <1>8, <1>9, <1>10 DEF FcuStep, FcuTask

LEMMA GetStepType ==
    ASSUME TypeOK, NEW g \in GetTasks, GetStep(g)
    PROVE  TypeOK'
<1> USE ServerAssumption
<1>1. get[g] \in GetRecord
  BY DEF TypeOK
<1> USE DEF GetFrame, GetQuiet, TypeOK, GetRecord, GetPC, DoneLeg, BlockLeg, Leg, caches, builderVars
<1>2. CASE \E p \in PayloadIds : GetReceive(g, p)
  BY <1>2 DEF GetReceive
<1>3. CASE \E answer \in {"ok", "err"} : GetL2Only(g, answer)
  <2>1. PICK answer \in {"ok", "err"} : GetL2Only(g, answer)
    BY <1>3
  <2> DEFINE result == IF answer = "ok" THEN "l2" ELSE "error"
             r == [get[g] EXCEPT !.pc = "done", !.l2 = answer, !.result = result]
  <2>2. get' = [get EXCEPT ![g] = r] /\ health' \in Health
    BY <2>1 DEF GetL2Only, Health
  <2>3. result \in {"l2", "error"}
    OBVIOUS
  <2> HIDE DEF result
  <2>4. r \in GetRecord
    BY <1>1, <2>3
  <2> HIDE DEF r, GetRecord
  <2> QED
    BY <2>1, <2>2, <2>4 DEF GetL2Only
<1>4. CASE \E answer \in {"ok", "err"} : GetL2Answer(g, answer)
  <2>1. PICK answer \in {"ok", "err"} : GetL2Answer(g, answer)
    BY <1>4
  <2>2. [get[g] EXCEPT !.l2 = answer] \in GetRecord
    BY <1>1
  <2> HIDE DEF GetRecord
  <2> QED
    BY <2>1, <2>2 DEF GetL2Answer
<1>5. CASE GetLookup(g)
  BY <1>1, <1>5 DEF GetLookup
<1>6. CASE GetBuilderErr(g)
  BY <1>1, <1>6 DEF GetBuilderErr
<1>7. CASE GetBuilderBlock(g)
  BY <1>1, <1>7 DEF GetBuilderBlock
<1>8. CASE TakeRequest(g)
  BY <1>1, <1>8 DEF TakeRequest
<1>9. CASE TakeRequestPanics(g)
  BY <1>1, <1>9 DEF TakeRequestPanics
<1>10. CASE \E verdict \in {"valid", "unverified", "failed"} : GetValidate(g, verdict)
  BY <1>1, <1>10 DEF GetValidate
<1>11. CASE \E to \in {"root_get", "nothing", "failed"} : RootFcu(g, to)
  BY <1>1, <1>11 DEF RootFcu
<1>12. CASE \E to \in {"rooted", "nothing"} : RootGet(g, to)
  BY <1>1, <1>12 DEF RootGet
<1>13. CASE GetJoin(g)
  <2>1. [get[g] EXCEPT !.pc = "select"] \in GetRecord
    BY <1>1
  <2>2. [get[g] EXCEPT !.pc = "done", !.result = "error"] \in GetRecord
    BY <1>1
  <2> HIDE DEF GetRecord
  <2> QED
    BY <1>13, <2>1, <2>2 DEF GetJoin, Health
<1>14. CASE \E source \in {"l2", "builder"} : GetSelect(g, source)
  <2>1. PICK source \in {"l2", "builder"} : GetSelect(g, source)
    BY <1>14
  <2>2. [get[g] EXCEPT !.pc = "done", !.result = source] \in GetRecord
    BY <1>1
  <2> HIDE DEF GetRecord
  <2> QED
    BY <2>1, <2>2 DEF GetSelect
<1>15. CASE GetNoBuilderBlock(g)
  BY <1>1, <1>15 DEF GetNoBuilderBlock
<1>16. CASE GetPartial(g)
  BY <1>1, <1>16 DEF GetPartial, Health
<1> QED
  BY <1>2, <1>3, <1>4, <1>5, <1>6, <1>7, <1>8, <1>9, <1>10, <1>11, <1>12, <1>13,
     <1>14, <1>15, <1>16 DEF GetStep, GetTask, BuilderLeg

LEMMA NewStepType ==
    ASSUME TypeOK, NEW n \in NewTasks, NewStep(n)
    PROVE  TypeOK'
<1> USE ServerAssumption DEF NewFrame, TypeOK, NewRecord, builderVars
<1>1. new[n] \in NewRecord
  OBVIOUS
<1>2. CASE \E h \in Hashes : NewReceive(n, h)
  BY <1>2 DEF NewReceive
<1>3. CASE \E p \in PayloadIds : RemoveTrace(n, p)
  BY <1>1, <1>3 DEF RemoveTrace
<1>4. CASE TracesRemoved(n)
  BY <1>1, <1>4 DEF TracesRemoved
<1>5. CASE NewReadMode(n)
  BY <1>1, <1>5 DEF NewReadMode
<1>6. CASE NewForward(n)
  BY <1>1, <1>6 DEF NewForward, should_skip_unhealthy_builder
<1>7. CASE NewL2Answer(n)
  BY <1>1, <1>7 DEF NewL2Answer, NewDone
<1> QED
  BY <1>2, <1>3, <1>4, <1>5, <1>6, <1>7 DEF NewStep, NewTask

LEMMA EnvironmentType ==
    ASSUME TypeOK, Environment
    PROVE  TypeOK'
<1> USE DEF TypeOK, caches, builderVars
<1>1. CASE \E m \in Mode : set_execution_mode(m)
  <2>1. PICK m \in Mode : set_execution_mode(m)
    BY <1>1
  <2>2. ASSUME NEW g \in GetTasks
        PROVE  [get[g] EXCEPT !.modes = @ \cup {m}] \in GetRecord
    BY DEF GetRecord
  <2> QED
    BY <2>1, <2>2 DEF set_execution_mode
<1>2. CASE \E h \in Health : set_health(h)
  BY <1>2 DEF set_health
<1>3. CASE \E p \in PayloadIds : EvictTrace(p)
  BY <1>3 DEF EvictTrace
<1>4. CASE \E h \in Hashes : EvictIndex(h)
  BY <1>4 DEF EvictIndex
<1> QED
  BY <1>1, <1>2, <1>3, <1>4 DEF Environment

LEMMA InitType == Init => TypeOK
<1> SUFFICES ASSUME Init PROVE TypeOK
  OBVIOUS
<1>1. fcu \in [FcuTasks -> FcuRecord]
  BY DEF Init, FcuDone, FcuRecord, FcuPC, Route
<1>2. get \in [GetTasks -> GetRecord]
  BY DEF Init, GetRecord, GetPC
<1>3. new \in [NewTasks -> NewRecord]
  BY DEF Init, NewDone, NewRecord
<1>4. execution_mode \in Mode /\ health \in Health
  BY DEF Init, Mode, Health
<1>5. /\ trace \in [PayloadIds -> {"absent", "l2", "builder"}]
      /\ index \in [Hashes -> SUBSET PayloadIds]
  BY DEF Init
<1> QED
  BY <1>1, <1>2, <1>3, <1>4, <1>5 DEF Init, TypeOK

\* Every step of every task keeps the state well typed.
THEOREM TypeCorrect == Spec => []TypeOK
<1>1. Init => TypeOK
  BY InitType
<1>2. TypeOK /\ [Next]_vars => TypeOK'
  <2> SUFFICES ASSUME TypeOK, [Next]_vars PROVE TypeOK'
    OBVIOUS
  <2>1. CASE UNCHANGED vars
    BY <2>1 DEF vars, caches, builderVars, TypeOK
  <2> QED
    BY <2>1, NextCases, FcuStepType, GetStepType, NewStepType, EnvironmentType
<1> QED
  BY <1>1, <1>2, PTL DEF Spec
-----------------------------------------------------------------------------
(* The inductive invariant *)

\* A forkchoiceUpdated that reports a builder payload asked the builder, and
\* was answered.
FcuInv ==
    \A f \in FcuTasks :
        /\ fcu[f].route = "both" => fcu[f].id \notin NoTxPool
        /\ fcu[f].route = "l2" => fcu[f].id \in NoTxPool
        /\ fcu[f].builder # "unused" => fcu[f].route = "both"
        /\ fcu[f].builder = "ok" => fcu[f].id \in acked
        /\ fcu[f].pc \in {"trace", "index"} => fcu[f].route \in {"l2", "both"}

\* What a getPayload knows by the time it gets somewhere.
Asked == {"call", "validate", "root_fcu", "root_get"} \cup BlockLeg
SawOther(g) == get[g].modes \ {"Disabled"} # {}
GetInv ==
    \A g \in GetTasks :
        /\ get[g].pc # "done" => execution_mode \in get[g].modes /\ get[g].result = "none"
        /\ get[g].pc = "select" => get[g].l2 = "ok"
        /\ get[g].leg \in Asked => get[g].id \in acked /\ get[g].id \notin NoTxPool
        /\ get[g].pc \in {"calls", "select", "partial"} => SawOther(g)
        /\ get[g].asked => SawOther(g)
        /\ get[g].result \in {"builder", "panic"} => SawOther(g)

\* The FCU request of a payload is in the map, was taken, or is on its way.
RequestKnown(p) ==
    \/ p \in payload_to_fcu_request \cup consumed
    \/ \E f \in FcuTasks : fcu[f].id = p /\ fcu[f].pc \in {"index", "request"}
RootInv ==
    external_state_root =>
        \A p \in PayloadIds : trace[p] = "builder" => RequestKnown(p)

IInv ==
    /\ TypeOK
    /\ FcuInv
    /\ TraceIsTruthful
    /\ GetInv
    /\ BuilderBlockIsChecked
    /\ RootInv
    /\ RootRequestIsStored
-----------------------------------------------------------------------------
(* Steps of forkchoiceUpdated *)

LEMMA FcuStepFcu ==
    ASSUME TypeOK, FcuInv, NEW f \in FcuTasks, FcuStep(f)
    PROVE  FcuInv' /\ acked \subseteq acked'
<1> USE ServerAssumption DEF FcuInv, FcuFrame, TypeOK, builderVars
<1>1. fcu[f] \in FcuRecord
  OBVIOUS
<1>2. CASE \E p \in PayloadIds, attrs \in BOOLEAN : FcuReceive(f, p, attrs)
  BY <1>2 DEF FcuReceive, RouteOf
<1>3. CASE FcuRoute(f)
  BY <1>1, <1>3 DEF FcuRoute, FcuRecord
<1>4. CASE \E answer \in {"id", "none"} : FcuL2Answer(f, answer)
  BY <1>1, <1>4 DEF FcuL2Answer, FcuRecord
<1>5. CASE \E builds \in BOOLEAN : FcuBuilderOk(f, builds)
  BY <1>1, <1>5 DEF FcuBuilderOk, FcuRecord
<1>6. CASE FcuBuilderErr(f)
  BY <1>1, <1>6 DEF FcuBuilderErr, FcuRecord
<1>7. CASE FcuJoin(f)
  <2>1. acked' = acked
    BY <1>7 DEF FcuJoin
  <2>2. CASE /\ fcu[f].route \in {"l2", "both"}
             /\ fcu' = [fcu EXCEPT ![f].pc = "trace"]
    BY <1>1, <2>1, <2>2 DEF FcuRecord
  <2>3. CASE fcu' = [fcu EXCEPT ![f].pc = "request"]
    BY <1>1, <2>1, <2>3 DEF FcuRecord
  <2>4. CASE fcu' = [fcu EXCEPT ![f] = FcuDone(@.id)]
    BY <1>1, <2>1, <2>4 DEF FcuDone
  <2> QED
    BY <1>7, <2>2, <2>3, <2>4 DEF FcuJoin
<1>8. CASE StoreTrace(f)
  BY <1>1, <1>8 DEF StoreTrace, FcuRecord
<1>9. CASE StoreIndex(f)
  BY <1>1, <1>9 DEF StoreIndex, FcuDone, FcuRecord
<1>10. CASE StoreRequest(f)
  BY <1>1, <1>10 DEF StoreRequest, FcuDone, FcuRecord
<1> QED
  BY <1>2, <1>3, <1>4, <1>5, <1>6, <1>7, <1>8, <1>9, <1>10 DEF FcuStep, FcuTask

\* Only StoreTrace writes a trace.
LEMMA FcuStepTrace ==
    ASSUME TypeOK, FcuInv, NEW f \in FcuTasks, FcuStep(f),
           NEW p \in PayloadIds, trace'[p] = "builder"
    PROVE  \/ trace[p] = "builder"
           \/ /\ p \in acked /\ p \notin NoTxPool
              /\ fcu'[f].id = p /\ fcu'[f].pc = "index"
<1> USE DEF FcuFrame, TypeOK, builderVars
<1>1. fcu[f] \in FcuRecord
  OBVIOUS
<1>2. CASE StoreTrace(f)
  BY <1>1, <1>2 DEF StoreTrace, FcuInv, FcuRecord
<1>3. CASE UNCHANGED trace
  BY <1>3
<1> QED
  BY <1>2, <1>3 DEF FcuStep, FcuTask, FcuReceive, FcuRoute, FcuL2Answer, FcuBuilderOk,
     FcuBuilderErr, FcuJoin, StoreIndex, StoreRequest

\* The request of a payload the builder may have is not forgotten.
LEMMA FcuStepKnown ==
    ASSUME TypeOK, FcuInv, external_state_root, NEW f \in FcuTasks, FcuStep(f),
           NEW p \in PayloadIds, p \notin NoTxPool, RequestKnown(p)
    PROVE  RequestKnown(p)'
<1> USE DEF FcuFrame, TypeOK, builderVars, RequestKnown
<1>1. fcu[f] \in FcuRecord
  OBVIOUS
<1>2. CASE \E q \in PayloadIds, attrs \in BOOLEAN : FcuReceive(f, q, attrs)
  BY <1>2 DEF FcuReceive
<1>3. CASE FcuRoute(f)
  BY <1>1, <1>3 DEF FcuRoute, FcuRecord
<1>4. CASE \E answer \in {"id", "none"} : FcuL2Answer(f, answer)
  BY <1>1, <1>4 DEF FcuL2Answer, FcuRecord
<1>5. CASE \E builds \in BOOLEAN : FcuBuilderOk(f, builds)
  BY <1>1, <1>5 DEF FcuBuilderOk, FcuRecord
<1>6. CASE FcuBuilderErr(f)
  BY <1>1, <1>6 DEF FcuBuilderErr, FcuRecord
<1>7. CASE FcuJoin(f)
  BY <1>1, <1>7 DEF FcuJoin
<1>8. CASE StoreTrace(f)
  BY <1>1, <1>8 DEF StoreTrace, FcuRecord
<1>9. CASE StoreIndex(f)
  BY <1>1, <1>9 DEF StoreIndex, FcuInv, FcuRecord
<1>10. CASE StoreRequest(f)
  BY <1>1, <1>10 DEF StoreRequest, FcuRecord
<1> QED
  BY <1>2, <1>3, <1>4, <1>5, <1>6, <1>7, <1>8, <1>9, <1>10 DEF FcuStep, FcuTask

LEMMA FcuStepFrame ==
    ASSUME NEW f \in FcuTasks, FcuStep(f)
    PROVE  FcuFrame
  BY DEF FcuStep, FcuTask, FcuReceive, FcuRoute, FcuL2Answer, FcuBuilderOk,
     FcuBuilderErr, FcuJoin, StoreTrace, StoreIndex, StoreRequest

LEMMA FcuStepInv ==
    ASSUME IInv, NEW f \in FcuTasks, FcuStep(f)
    PROVE  IInv'
<1> USE DEF IInv
<1>1. TypeOK'
  BY FcuStepType
<1>2. FcuInv' /\ acked \subseteq acked'
  BY FcuStepFcu
<1>3. UNCHANGED <<execution_mode, get>>
  BY FcuStepFrame DEF FcuFrame
<1>4. TraceIsTruthful'
  BY <1>2, FcuStepTrace DEF TraceIsTruthful
<1>5. GetInv' /\ BuilderBlockIsChecked'
  BY <1>2, <1>3 DEF GetInv, BuilderBlockIsChecked, SawOther
<1>6. RootInv'
  <2> SUFFICES ASSUME external_state_root, NEW p \in PayloadIds, trace'[p] = "builder"
               PROVE  RequestKnown(p)'
    BY DEF RootInv
  <2>1. CASE trace[p] = "builder"
    BY <2>1, FcuStepKnown DEF RootInv, TraceIsTruthful
  <2>2. CASE fcu'[f].id = p /\ fcu'[f].pc = "index"
    BY <2>2 DEF RequestKnown
  <2> QED
    BY <2>1, <2>2, FcuStepTrace
<1>7. RootRequestIsStored'
  <2> SUFFICES ASSUME external_state_root, NEW g \in GetTasks,
                      get[g].pc = "calls", get[g].leg = "call"
               PROVE  RequestKnown(get[g].id)'
    BY <1>3 DEF RootRequestIsStored, RequestKnown
  <2>1. get[g].id \in PayloadIds /\ get[g].id \notin NoTxPool
    BY DEF GetInv, Asked, TypeOK, GetRecord
  <2>2. RequestKnown(get[g].id)
    BY DEF RootRequestIsStored, RequestKnown
  <2> QED
    BY <2>1, <2>2, <1>3, FcuStepKnown
<1> QED
  BY <1>1, <1>2, <1>4, <1>5, <1>6, <1>7
-----------------------------------------------------------------------------
(* Steps of getPayload *)

LEMMA GetStepFrame ==
    ASSUME NEW g \in GetTasks, GetStep(g)
    PROVE  GetFrame
  BY DEF GetStep, GetTask, BuilderLeg, GetReceive, GetL2Only, GetL2Answer, GetLookup,
     GetBuilderErr, GetBuilderBlock, TakeRequest, TakeRequestPanics, GetValidate, RootFcu,
     RootGet, GetJoin, GetSelect, GetNoBuilderBlock, GetPartial, GetQuiet

\* A getPayload keeps track of the request it takes.
LEMMA GetStepKnown ==
    ASSUME NEW g \in GetTasks, GetStep(g), NEW p \in PayloadIds, RequestKnown(p)
    PROVE  RequestKnown(p)'
<1>1. UNCHANGED fcu
  BY GetStepFrame DEF GetFrame
<1>2. CASE TakeRequest(g)
  BY <1>1, <1>2 DEF TakeRequest, RequestKnown
<1>3. CASE UNCHANGED <<payload_to_fcu_request, consumed>>
  BY <1>1, <1>3 DEF RequestKnown
<1> QED
  BY <1>2, <1>3 DEF GetStep, GetTask, BuilderLeg, GetReceive, GetL2Only, GetL2Answer,
     GetLookup, GetBuilderErr, GetBuilderBlock, TakeRequestPanics, GetValidate, RootFcu,
     RootGet, GetJoin, GetSelect, GetNoBuilderBlock, GetPartial, GetQuiet

\* What the invariant says of one getPayload.
GetOk(g) ==
    /\ get[g].pc # "done" => execution_mode \in get[g].modes /\ get[g].result = "none"
    /\ get[g].pc = "select" => get[g].l2 = "ok"
    /\ get[g].leg \in Asked => get[g].id \in acked /\ get[g].id \notin NoTxPool
    /\ get[g].pc \in {"calls", "select", "partial"} => SawOther(g)
    /\ get[g].asked => SawOther(g)
    /\ get[g].result \in {"builder", "panic"} => SawOther(g)
    /\ get[g].result = "builder" =>
        /\ get[g].l2 = "ok"
        /\ get[g].leg \in BlockLeg
        /\ get[g].id \in acked
        /\ get[g].modes # {"DryRun"}

LEMMA GetStepOk ==
    ASSUME TypeOK, TraceIsTruthful, NEW g \in GetTasks, GetOk(g), GetStep(g)
    PROVE  GetOk(g)'
<1>1. get[g] \in GetRecord /\ get[g].id \in PayloadIds
  BY DEF TypeOK, GetRecord
<1>2. GetFrame /\ execution_mode \in Mode /\ get \in [GetTasks -> GetRecord]
  BY GetStepFrame DEF TypeOK
<1> USE DEF GetOk, SawOther, GetFrame, Asked, BlockLeg, GetRecord, builderVars, caches
<1>3. CASE \E p \in PayloadIds : GetReceive(g, p)
  BY <1>1, <1>2, <1>3 DEF GetReceive
<1>4. CASE \E answer \in {"ok", "err"} : GetL2Only(g, answer)
  BY <1>1, <1>2, <1>4 DEF GetL2Only
<1>5. CASE \E answer \in {"ok", "err"} : GetL2Answer(g, answer)
  BY <1>1, <1>2, <1>5 DEF GetL2Answer
<1>6. CASE GetLookup(g)
  BY <1>1, <1>2, <1>6 DEF GetLookup, TraceIsTruthful
<1>7. CASE BuilderLeg(g) /\ ~GetLookup(g) /\ ~TakeRequestPanics(g)
  <2>1. PICK to \in {"validate", "root_fcu", "root_get", "nothing", "failed"} \cup BlockLeg :
            /\ get[g].pc = "calls" /\ get[g].leg \in Asked
            /\ get' = [get EXCEPT ![g].leg = to]
    BY <1>7 DEF BuilderLeg, Leg, GetBuilderErr, GetBuilderBlock, TakeRequest, GetValidate,
       RootFcu, RootGet
  <2> QED
    BY <1>1, <1>2, <2>1
<1>8. CASE TakeRequestPanics(g)
  BY <1>1, <1>2, <1>8 DEF TakeRequestPanics
<1>9. CASE GetJoin(g)
  <2>1. CASE /\ get[g].pc = "calls"
             /\ get' = [get EXCEPT ![g] = [@ EXCEPT !.pc = "done", !.result = "error"]]
    BY <1>1, <1>2, <2>1
  <2>2. CASE /\ get[g].pc = "calls" /\ get[g].l2 = "ok"
             /\ get' = [get EXCEPT ![g].pc = "select"]
    BY <1>1, <1>2, <2>2
  <2> QED
    BY <1>9, <2>1, <2>2 DEF GetJoin
<1>10. CASE \E source \in {"l2", "builder"} : GetSelect(g, source)
  BY <1>1, <1>2, <1>10 DEF GetSelect
<1>11. CASE GetNoBuilderBlock(g)
  BY <1>1, <1>2, <1>11 DEF GetNoBuilderBlock
<1>12. CASE GetPartial(g)
  BY <1>1, <1>2, <1>12 DEF GetPartial
<1> QED
  BY <1>3, <1>4, <1>5, <1>6, <1>7, <1>8, <1>9, <1>10, <1>11, <1>12 DEF GetStep, GetTask

\* A step of one getPayload leaves the others alone.
LEMMA GetStepOthers ==
    ASSUME TypeOK, NEW g \in GetTasks, GetStep(g), NEW k \in GetTasks, k # g
    PROVE  get'[k] = get[k]
  BY DEF TypeOK, GetStep, GetTask, BuilderLeg, GetReceive, GetL2Only, GetL2Answer, GetLookup,
     GetBuilderErr, GetBuilderBlock, TakeRequest, TakeRequestPanics, GetValidate, RootFcu,
     RootGet, GetJoin, GetSelect, GetNoBuilderBlock, GetPartial, Leg

LEMMA GetStepInv ==
    ASSUME IInv, NEW g \in GetTasks, GetStep(g)
    PROVE  IInv'
<1> USE DEF IInv
<1>1. TypeOK'
  BY GetStepType
<1>2. UNCHANGED <<execution_mode, trace, fcu, acked>>
  BY GetStepFrame DEF GetFrame, caches, builderVars
<1>3. FcuInv' /\ TraceIsTruthful'
  BY <1>2 DEF FcuInv, TraceIsTruthful
<1>4. ASSUME NEW k \in GetTasks PROVE GetOk(k)'
  <2>1. GetOk(k)
    BY DEF GetInv, BuilderBlockIsChecked, GetOk
  <2>2. CASE k = g
    BY <2>1, <2>2, GetStepOk
  <2>3. CASE k # g
    BY <2>1, <2>3, <1>2, GetStepOthers DEF GetOk, SawOther
  <2> QED
    BY <2>2, <2>3
<1>5. GetInv' /\ BuilderBlockIsChecked'
  BY <1>4 DEF GetInv, BuilderBlockIsChecked, GetOk
<1>6. RootInv'
  BY <1>2, GetStepKnown DEF RootInv
<1>7. RootRequestIsStored'
  <2> SUFFICES ASSUME external_state_root, NEW k \in GetTasks,
                      get'[k].pc = "calls", get'[k].leg = "call",
                      NEW p \in PayloadIds, p = get'[k].id
               PROVE  RequestKnown(p)'
    BY <1>1 DEF RootRequestIsStored, RequestKnown, TypeOK, GetRecord
  <2>1. get[k] \in GetRecord
    BY DEF TypeOK
  <2>2. CASE get[k].pc = "calls" /\ get[k].leg = "call" /\ p = get[k].id
    BY <2>2, GetStepKnown, SMTT(30) DEF RootRequestIsStored, RequestKnown
  <2>3. CASE k = g /\ GetLookup(g)
    <3>1. trace[p] = "builder"
      BY <2>1, <2>3 DEF GetLookup, TypeOK, GetRecord
    <3> QED
      BY <3>1, GetStepKnown DEF RootInv
  <2>4. CASE k = g /\ ~GetLookup(g)
    <3>1. get[g].pc = "calls" /\ get[g].leg = "call" /\ p = get[g].id
      <4>0. get \in [GetTasks -> GetRecord]
        BY DEF TypeOK
      <4> USE <2>1, <2>4, <4>0 DEF GetRecord
      <4>1. CASE \E q \in PayloadIds : GetReceive(g, q)
        BY <4>1 DEF GetReceive
      <4>2. CASE \E answer \in {"ok", "err"} : GetL2Answer(g, answer)
        BY <4>2 DEF GetL2Answer
      <4>3. CASE BuilderLeg(g)
        <5>1. CASE \E to \in (Asked \cup DoneLeg) \ {"call"} : get' = [get EXCEPT ![g].leg = to]
          BY <5>1
        <5>2. CASE TakeRequestPanics(g)
          BY <5>2 DEF TakeRequestPanics
        <5> QED
          BY <4>3, <5>1, <5>2 DEF BuilderLeg, GetBuilderErr, GetBuilderBlock, TakeRequest,
             GetValidate, RootFcu, RootGet, Leg, Asked, DoneLeg, BlockLeg
      <4>4. CASE GetJoin(g)
        <5>1. CASE get' = [get EXCEPT ![g].pc = "select"]
          BY <5>1
        <5>2. CASE get' = [get EXCEPT ![g] = [@ EXCEPT !.pc = "done", !.result = "error"]]
          BY <5>2
        <5> QED
          BY <4>4, <5>1, <5>2 DEF GetJoin
      <4>5. CASE \E answer \in {"ok", "err"} : GetL2Only(g, answer)
        BY <4>5 DEF GetL2Only
      <4>6. CASE \E source \in {"l2", "builder"} : GetSelect(g, source)
        BY <4>6 DEF GetSelect
      <4>7. CASE GetNoBuilderBlock(g)
        BY <4>7 DEF GetNoBuilderBlock
      <4>8. CASE GetPartial(g)
        BY <4>8 DEF GetPartial
      <4> QED
        BY <4>1, <4>2, <4>3, <4>4, <4>5, <4>6, <4>7, <4>8 DEF GetStep, GetTask
    <3> QED
      BY <2>2, <2>4, <3>1
  <2> QED
    BY <2>2, <2>3, <2>4, GetStepOthers
<1> QED
  BY <1>1, <1>3, <1>5, <1>6, <1>7
-----------------------------------------------------------------------------
(* The other steps *)

LEMMA NewStepInv ==
    ASSUME IInv, NEW n \in NewTasks, NewStep(n)
    PROVE  IInv'
<1> USE DEF IInv
<1>1. TypeOK'
  BY NewStepType
<1>2. NewFrame
  BY DEF NewStep, NewTask, NewReceive, RemoveTrace, TracesRemoved, NewReadMode, NewForward,
     NewL2Answer
<1>3. \A p \in PayloadIds : trace'[p] = "builder" => trace[p] = "builder"
  BY DEF TypeOK, NewStep, NewTask, NewReceive, RemoveTrace, TracesRemoved, NewReadMode,
     NewForward, NewL2Answer
<1>4. FcuInv' /\ GetInv' /\ BuilderBlockIsChecked' /\ RootRequestIsStored'
  BY <1>2 DEF NewFrame, builderVars, FcuInv, GetInv, SawOther, BuilderBlockIsChecked,
     RootRequestIsStored
<1>5. TraceIsTruthful' /\ RootInv'
  BY <1>2, <1>3 DEF NewFrame, builderVars, TraceIsTruthful, RootInv, RequestKnown
<1> QED
  BY <1>1, <1>4, <1>5

LEMMA EnvironmentInv ==
    ASSUME IInv, Environment
    PROVE  IInv'
<1> USE DEF IInv, caches, builderVars
<1>1. TypeOK'
  BY EnvironmentType
<1>2. \A p \in PayloadIds : trace'[p] = "builder" => trace[p] = "builder"
  BY DEF TypeOK, Environment, set_execution_mode, set_health, EvictTrace, EvictIndex
<1>3. UNCHANGED <<fcu, acked, payload_to_fcu_request, consumed>>
  BY DEF Environment, set_execution_mode, set_health, EvictTrace, EvictIndex
<1>4. FcuInv' /\ TraceIsTruthful' /\ RootInv'
  BY <1>2, <1>3 DEF FcuInv, TraceIsTruthful, RootInv, RequestKnown
<1>5. GetInv' /\ BuilderBlockIsChecked' /\ RootRequestIsStored'
  <2>1. CASE UNCHANGED <<get, execution_mode>>
    BY <1>3, <2>1 DEF GetInv, SawOther, BuilderBlockIsChecked, RootRequestIsStored
  <2>2. CASE \E m \in Mode : set_execution_mode(m)
    <3>1. PICK m \in Mode : set_execution_mode(m)
      BY <2>2
    <3>2. ASSUME NEW g \in GetTasks
          PROVE  \/ get'[g] = get[g] /\ get[g].pc = "done"
                 \/ /\ get'[g] = [get[g] EXCEPT !.modes = @ \cup {m}]
                    /\ get[g].pc # "done" /\ get[g].result = "none"
      BY <3>1 DEF set_execution_mode, GetInv
    <3>3. ASSUME NEW g \in GetTasks PROVE get[g] \in GetRecord
      BY DEF TypeOK
    <3> QED
      BY <1>3, <3>1, <3>2, <3>3 DEF set_execution_mode, GetInv, SawOther,
         BuilderBlockIsChecked, RootRequestIsStored, GetRecord
  <2> QED
    BY <2>1, <2>2 DEF Environment, set_health, EvictTrace, EvictIndex
<1> QED
  BY <1>1, <1>4, <1>5

LEMMA ServerInvariant == Spec => []IInv
<1>1. Init => IInv
  <2> SUFFICES ASSUME Init PROVE IInv
    OBVIOUS
  <2>1. TypeOK
    BY InitType
  <2>2. FcuInv /\ TraceIsTruthful /\ RootInv
    BY DEF Init, FcuInv, FcuDone, TraceIsTruthful, RootInv
  <2>3. GetInv /\ BuilderBlockIsChecked /\ RootRequestIsStored
    BY DEF Init, GetInv, Asked, BlockLeg, BuilderBlockIsChecked, RootRequestIsStored
  <2> QED
    BY <2>1, <2>2, <2>3 DEF IInv
<1>2. IInv /\ [Next]_vars => IInv'
  <2> SUFFICES ASSUME IInv, [Next]_vars PROVE IInv'
    OBVIOUS
  <2>1. CASE UNCHANGED vars
    <3> USE <2>1 DEF vars, caches, builderVars, IInv
    <3>1. TypeOK'
      BY DEF TypeOK
    <3>2. FcuInv' /\ TraceIsTruthful'
      BY DEF FcuInv, TraceIsTruthful
    <3>3. GetInv'
      BY DEF GetInv, SawOther
    <3>4. BuilderBlockIsChecked'
      BY DEF BuilderBlockIsChecked
    <3>5. RootInv'
      BY DEF RootInv, RequestKnown
    <3>6. RootRequestIsStored'
      BY DEF RootRequestIsStored
    <3> QED
      BY <3>1, <3>2, <3>3, <3>4, <3>5, <3>6
  <2> QED
    BY <2>1, NextCases, FcuStepInv, GetStepInv, NewStepInv, EnvironmentInv
<1> QED
  BY <1>1, <1>2, PTL DEF Spec

\* has_builder_payload never answers true for a payload whose FCU the builder
\* did not answer, or that was built with no_tx_pool, however the FCUs,
\* newPayloads and evictions of the trace cache interleave.
THEOREM TruthfulTraces == Spec => []TraceIsTruthful
<1>1. IInv => TraceIsTruthful
  BY DEF IInv
<1> QED
  BY <1>1, ServerInvariant, PTL

\* get_payload returns a builder block only when the l2 client has a fallback
\* and let the block pass, and never in a call that only saw DryRun.
THEOREM CheckedBuilderBlocks == Spec => []BuilderBlockIsChecked
<1>1. IInv => BuilderBlockIsChecked
  BY DEF IInv
<1> QED
  BY <1>1, ServerInvariant, PTL

\* get_payload in Disabled mode never asks the builder.
THEOREM SilentWhenDisabled == Spec => []DisabledIsSilent
<1>1. IInv => DisabledIsSilent
  <2> SUFFICES ASSUME IInv, NEW g \in GetTasks, get[g].modes = {"Disabled"}
               PROVE  ~get[g].asked /\ get[g].result \in {"none", "l2", "error"}
    BY DEF DisabledIsSilent
  <2>1. ~SawOther(g)
    BY DEF SawOther
  <2> QED
    BY <2>1 DEF IInv, GetInv, TypeOK, GetRecord
<1> QED
  BY <1>1, ServerInvariant, PTL

\* The unwrap() in calculate_external_state_root can only fail on a payload
\* another getPayload has asked for, or whose FCU is still being stored.
THEOREM StoredRootRequests == Spec => []RootRequestIsStored
<1>1. IInv => RootRequestIsStored
  BY DEF IInv
<1> QED
  BY <1>1, ServerInvariant, PTL
-----------------------------------------------------------------------------
(* The two caches of the trace context *)

Reachable(p) ==
    \/ p \in index[ParentOf[p]]
    \/ \E f \in FcuTasks : fcu[f].pc = "index" /\ fcu[f].id = p
    \/ \E n \in NewTasks : new[n].pc = "traces" /\ p \in new[n].ids
    \/ ParentOf[p] \in evicted

LEMMA FcuStepReachable ==
    ASSUME TypeOK, NEW f \in FcuTasks, FcuStep(f), NEW p \in PayloadIds,
           trace[p] # "absent" => Reachable(p), trace'[p] # "absent"
    PROVE  Reachable(p)'
<1> USE ServerAssumption DEF FcuFrame, Reachable, builderVars
<1>1. /\ fcu \in [FcuTasks -> FcuRecord] /\ fcu[f] \in FcuRecord
      /\ trace \in [PayloadIds -> {"absent", "l2", "builder"}]
      /\ index \in [Hashes -> SUBSET PayloadIds]
      /\ ParentOf[p] \in Hashes
  BY DEF TypeOK
<1>2. CASE StoreTrace(f)
  <2>1. fcu'[f].pc = "index" /\ fcu'[f].id = fcu[f].id
    BY <1>1, <1>2 DEF StoreTrace, FcuRecord
  <2>2. CASE p = fcu[f].id
    BY <2>1, <2>2
  <2>3. CASE p # fcu[f].id
    <3>1. trace'[p] = trace[p]
      BY <1>1, <1>2, <2>3 DEF StoreTrace
    <3>2. \A k \in FcuTasks : fcu[k].pc = "index" => fcu'[k] = fcu[k]
      BY <1>1, <1>2 DEF StoreTrace
    <3> QED
      BY <1>2, <3>1, <3>2 DEF StoreTrace
  <2> QED
    BY <2>2, <2>3
<1>3. CASE StoreIndex(f)
  <2>1. fcu[f].id \in PayloadIds /\ ParentOf[fcu[f].id] \in Hashes
    BY <1>1 DEF FcuRecord
  <2>2. \A h \in Hashes : index[h] \subseteq index'[h]
    BY <1>1, <1>3, <2>1 DEF StoreIndex
  <2>3. fcu[f].id \in index'[ParentOf[fcu[f].id]]
    BY <1>1, <1>3, <2>1 DEF StoreIndex
  <2>4. \A k \in FcuTasks : k # f => fcu'[k] = fcu[k]
    BY <1>1, <1>3 DEF StoreIndex
  <2> QED
    BY <1>1, <1>3, <2>2, <2>3, <2>4 DEF StoreIndex
<1>4. CASE UNCHANGED <<trace, index, new, evicted>> /\ fcu[f].pc # "index"
  <2>1. \A k \in FcuTasks : k # f => fcu'[k] = fcu[k]
    BY <1>1 DEF FcuStep, FcuTask, FcuReceive, FcuRoute, FcuL2Answer, FcuBuilderOk,
       FcuBuilderErr, FcuJoin, StoreTrace, StoreIndex, StoreRequest
  <2> QED
    BY <1>4, <2>1
<1> QED
  BY <1>2, <1>3, <1>4 DEF FcuStep, FcuTask, FcuReceive, FcuRoute, FcuL2Answer,
     FcuBuilderOk, FcuBuilderErr, FcuJoin, StoreRequest

LEMMA NewStepReachable ==
    ASSUME TypeOK, NEW n \in NewTasks, NewStep(n), NEW p \in PayloadIds,
           trace[p] # "absent" => Reachable(p), trace'[p] # "absent"
    PROVE  Reachable(p)'
<1> USE ServerAssumption DEF NewFrame, Reachable
<1>1. /\ new \in [NewTasks -> NewRecord] /\ new[n] \in NewRecord
      /\ trace \in [PayloadIds -> {"absent", "l2", "builder"}]
      /\ index \in [Hashes -> SUBSET PayloadIds]
      /\ ParentOf[p] \in Hashes
  BY DEF TypeOK
<1>2. CASE \E h \in Hashes : NewReceive(n, h)
  <2>1. PICK h \in Hashes : NewReceive(n, h)
    BY <1>2
  <2>2. new'[n].pc = "traces" /\ new'[n].ids = index[h]
    BY <1>1, <2>1 DEF NewReceive
  <2>3. \A k \in NewTasks : new[k].pc = "traces" => new'[k] = new[k]
    BY <1>1, <2>1 DEF NewReceive
  <2>4. \A k \in Hashes : k # h => index'[k] = index[k]
    BY <1>1, <2>1 DEF NewReceive
  <2> QED
    BY <1>1, <2>1, <2>2, <2>3, <2>4 DEF NewReceive
<1>3. CASE \E q \in PayloadIds : RemoveTrace(n, q)
  <2>1. PICK q \in PayloadIds : RemoveTrace(n, q)
    BY <1>3
  <2>2. p # q /\ trace'[p] = trace[p]
    BY <1>1, <2>1 DEF RemoveTrace
  <2>3. new'[n].pc = new[n].pc /\ new'[n].ids = new[n].ids \ {q}
    BY <1>1, <2>1 DEF RemoveTrace, NewRecord
  <2>4. \A k \in NewTasks : k # n => new'[k] = new[k]
    BY <1>1, <2>1 DEF RemoveTrace
  <2> QED
    BY <2>1, <2>2, <2>3, <2>4 DEF RemoveTrace
<1>4. CASE UNCHANGED <<trace, index>> /\ (new[n].pc = "traces" => new[n].ids = {})
  <2>1. \A k \in NewTasks : k # n => new'[k] = new[k]
    BY <1>1 DEF NewStep, NewTask, NewReceive, RemoveTrace, TracesRemoved, NewReadMode,
       NewForward, NewL2Answer
  <2>2. UNCHANGED <<fcu, evicted>>
    BY DEF NewStep, NewTask, NewReceive, RemoveTrace, TracesRemoved, NewReadMode,
       NewForward, NewL2Answer
  <2> QED
    BY <1>4, <2>1, <2>2
<1> QED
  BY <1>2, <1>3, <1>4 DEF NewStep, NewTask, TracesRemoved, NewReadMode, NewForward,
     NewL2Answer

LEMMA EnvironmentReachable ==
    ASSUME TypeOK, Environment, NEW p \in PayloadIds,
           trace[p] # "absent" => Reachable(p), trace'[p] # "absent"
    PROVE  Reachable(p)'
<1>1. ParentOf[p] \in Hashes
  BY ServerAssumption
<1>2. UNCHANGED <<fcu, new>> /\ trace'[p] = trace[p]
  BY DEF TypeOK, Environment, set_execution_mode, set_health, EvictTrace, EvictIndex, caches
<1>3. CASE \E h \in Hashes : EvictIndex(h)
  BY <1>1, <1>2, <1>3 DEF EvictIndex, Reachable, TypeOK
<1>4. CASE UNCHANGED <<index, evicted>>
  BY <1>2, <1>4 DEF Reachable
<1> QED
  BY <1>3, <1>4 DEF Environment, set_execution_mode, set_health, EvictTrace, caches

\* PayloadTraceContext never loses track of a trace: with store and
\* remove_by_parent_hash running concurrently, a trace that is still cached can
\* be removed by a later remove_by_parent_hash, unless moka evicted the list.
THEOREM ReachableTraces == Spec => []TraceIsReachable
<1>1. Init => TraceIsReachable
  BY DEF Init, TraceIsReachable
<1>2. TypeOK /\ TraceIsReachable /\ [Next]_vars => TraceIsReachable'
  <2> SUFFICES ASSUME TypeOK, TraceIsReachable, [Next]_vars,
                      NEW p \in PayloadIds, trace'[p] # "absent"
               PROVE  Reachable(p)'
    BY DEF TraceIsReachable, Reachable
  <2>1. trace[p] # "absent" => Reachable(p)
    BY DEF TraceIsReachable, Reachable
  <2>2. CASE \E g \in GetTasks : GetStep(g)
    BY <2>1, <2>2, GetStepFrame DEF GetFrame, caches, Reachable
  <2>3. CASE UNCHANGED vars
    BY <2>1, <2>3 DEF vars, caches, Reachable
  <2> QED
    BY <2>1, <2>2, <2>3, NextCases, FcuStepReachable, NewStepReachable, EnvironmentReachable
<1> QED
  BY <1>1, <1>2, TypeCorrect, PTL DEF Spec
-----------------------------------------------------------------------------
(* The l2 client's answer *)

Answered(g) ==
    get[g].pc = "done" /\ get[g].l2 = "ok" => get[g].result \in {"l2", "builder"}

LEMMA GetStepAnswered ==
    ASSUME TypeOK, ~external_state_root, NEW g \in GetTasks, Answered(g), GetStep(g),
           \* from GetInv: a call that is being selected for has an answer
           get[g].pc = "select" => get[g].l2 = "ok"
    PROVE  Answered(g)'
<1>1. get[g] \in GetRecord /\ get \in [GetTasks -> GetRecord]
  BY DEF TypeOK
<1>2. CASE \E p \in PayloadIds : GetReceive(g, p)
  <2>1. PICK p \in PayloadIds : GetReceive(g, p)
    BY <1>2
  <2>2. get'[g].l2 = "pending"
    BY <1>1, <2>1 DEF GetReceive
  <2> QED
    BY <2>2 DEF Answered
<1> USE <1>1 DEF Answered, GetRecord
<1>3. CASE \E answer \in {"ok", "err"} : GetL2Only(g, answer)
  BY <1>3 DEF GetL2Only
<1>4. CASE \E answer \in {"ok", "err"} : GetL2Answer(g, answer)
  BY <1>4 DEF GetL2Answer
<1>5. CASE BuilderLeg(g)
  <2>1. CASE GetLookup(g)
    BY <2>1 DEF GetLookup
  <2>2. CASE get[g].pc = "calls" /\ \E to \in Asked \cup DoneLeg : get' = [get EXCEPT ![g].leg = to]
    BY <2>2
  <2> QED
    BY <1>5, <2>1, <2>2 DEF BuilderLeg, GetBuilderErr, GetBuilderBlock, TakeRequest,
       TakeRequestPanics, GetValidate, RootFcu, RootGet, Leg, Asked, DoneLeg, BlockLeg
<1>6. CASE GetJoin(g)
  <2>1. CASE get' = [get EXCEPT ![g].pc = "select"]
    BY <2>1
  <2>2. CASE /\ get[g].l2 = "err"
             /\ get' = [get EXCEPT ![g] = [@ EXCEPT !.pc = "done", !.result = "error"]]
    BY <2>2
  <2> QED
    BY <1>6, <2>1, <2>2 DEF GetJoin
<1>7. CASE \E source \in {"l2", "builder"} : GetSelect(g, source)
  BY <1>7 DEF GetSelect
<1>8. CASE GetNoBuilderBlock(g)
  BY <1>8 DEF GetNoBuilderBlock
<1>9. CASE GetPartial(g)
  BY <1>9 DEF GetPartial
<1> QED
  BY <1>2, <1>3, <1>4, <1>5, <1>6, <1>7, <1>8, <1>9 DEF GetStep, GetTask

\* Without external_state_root, a getPayload the l2 client answered ends with a
\* block, whatever the builder does and however the mode and health change.
THEOREM L2Suffices ==
    ASSUME ~external_state_root
    PROVE  Spec => []L2AnswerSuffices
<1>1. Init => L2AnswerSuffices
  BY DEF Init, L2AnswerSuffices
<1>2. IInv /\ L2AnswerSuffices /\ [Next]_vars => L2AnswerSuffices'
  <2> SUFFICES ASSUME IInv, L2AnswerSuffices, [Next]_vars, NEW g \in GetTasks
               PROVE  Answered(g)'
    BY DEF L2AnswerSuffices, Answered
  <2>1. Answered(g) /\ TypeOK /\ (get[g].pc = "select" => get[g].l2 = "ok")
    BY DEF L2AnswerSuffices, Answered, IInv, GetInv
  <2>2. CASE UNCHANGED get
    BY <2>1, <2>2 DEF Answered
  <2>3. ASSUME NEW k \in GetTasks, GetStep(k) PROVE Answered(g)'
    <3>1. CASE k = g
      BY <2>1, <2>3, <3>1, GetStepAnswered
    <3>2. CASE k # g
      <4>1. get'[g] = get[g]
        BY <2>1, <2>3, <3>2, GetStepOthers
      <4> QED
        BY <2>1, <4>1 DEF Answered
    <3> QED
      BY <3>1, <3>2
  <2>4. CASE Environment
    <3>1. CASE \E m \in Mode : set_execution_mode(m)
      BY <2>1, <3>1 DEF set_execution_mode, Answered, TypeOK, GetRecord
    <3> QED
      BY <2>2, <2>4, <3>1 DEF Environment, set_health, EvictTrace, EvictIndex
  <2>5. ASSUME NEW f \in FcuTasks, FcuStep(f) PROVE UNCHANGED get
    BY <2>5, FcuStepFrame DEF FcuFrame
  <2>6. ASSUME NEW n \in NewTasks, NewStep(n) PROVE UNCHANGED get
    BY <2>6 DEF NewStep, NewTask, NewReceive, RemoveTrace, TracesRemoved, NewReadMode,
       NewForward, NewL2Answer, NewFrame
  <2>7. CASE UNCHANGED vars
    BY <2>2, <2>7 DEF vars
  <2> QED
    BY <2>2, <2>3, <2>4, <2>5, <2>6, <2>7, NextCases
<1> QED
  BY <1>1, <1>2, ServerInvariant, PTL DEF Spec
=============================================================================
