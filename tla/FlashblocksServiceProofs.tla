---------------------- MODULE FlashblocksServiceProofs ----------------------
(***************************************************************************)
(* Theorems about FlashblocksService for any number of payload ids, of     *)
(* concurrent calls and of flashblocks.                                    *)
(***************************************************************************)
EXTENDS FlashblocksService, TLAPS

LEMMA NewBuilderType == NewBuilder \in Builder
  BY DEF NewBuilder, Builder, OptPayloadId

LEMMA ExtendType ==
    ASSUME NEW b \in Builder, NEW fb \in Flashblock
    PROVE  Extend(b, fb) \in Builder
  BY DEF Extend, Builder, Flashblock, OptPayloadId

LEMMA FcuStepType ==
    ASSUME NEW f \in FcuTasks, NEW from, NEW to \in FcuPC,
           fcu \in [FcuTasks -> FcuRecord], FcuStep(f, from, to)
    PROVE  fcu' \in [FcuTasks -> FcuRecord]
  BY DEF FcuStep, FcuRecord

LEMMA GetStepType ==
    ASSUME NEW g \in GetTasks, NEW pc \in GetPC, get \in [GetTasks -> GetRecord],
           get' = [get EXCEPT ![g].pc = pc]
    PROVE  /\ get' \in [GetTasks -> GetRecord]
           /\ \A h \in GetTasks : /\ get'[h].block = get[h].block
                                  /\ get'[h].payload_id = get[h].payload_id
  BY DEF GetRecord

\* The variables of the service hold values of their Rust types.
THEOREM TypeCorrect == Spec => []TypeOK
<1>1. Init => TypeOK
  <2> SUFFICES ASSUME Init PROVE TypeOK
    OBVIOUS
  <2> USE DEF Init
  <2>1. best_payload \in Builder
    BY NewBuilderType
  <2>2. fcu \in [FcuTasks -> FcuRecord]
    BY DEF FcuRecord, FcuPC, OptPayloadId
  <2>3. get \in [GetTasks -> GetRecord]
    BY NewBuilderType DEF GetRecord, GetPC, OptPayloadId
  <2> QED
    BY <2>1, <2>2, <2>3 DEF TypeOK, OptPayloadId
<1>2. TypeOK /\ [Next]_vars => TypeOK'
  <2> SUFFICES ASSUME TypeOK, [Next]_vars PROVE TypeOK'
    OBVIOUS
  <2> USE ServiceAssumption DEF TypeOK
  <2>1. ASSUME NEW f \in FcuTasks, NEW p \in OptPayloadId, FcuReceive(f, p) PROVE TypeOK'
    <3>1. fcu' \in [FcuTasks -> FcuRecord]
      BY <2>1 DEF FcuReceive, FcuRecord, FcuPC
    <3> QED
      BY <2>1, <3>1 DEF FcuReceive, builderVars
  <2>2. ASSUME NEW f \in FcuTasks, SetCurrentPayloadId(f) PROVE TypeOK'
    <3>1. fcu' \in [FcuTasks -> FcuRecord]
      BY <2>2, FcuStepType DEF SetCurrentPayloadId, FcuPC
    <3>2. fcu[f].payload_id \in OptPayloadId
      BY DEF FcuRecord
    <3> QED
      BY <2>2, <3>1, <3>2 DEF SetCurrentPayloadId, builderVars
  <2>3. ASSUME NEW f \in FcuTasks, ResetBestPayload(f) PROVE TypeOK'
    <3>1. fcu' \in [FcuTasks -> FcuRecord]
      BY <2>3, FcuStepType DEF ResetBestPayload, FcuPC
    <3> QED
      BY <2>3, <3>1, NewBuilderType DEF ResetBestPayload, builderVars
  <2>4. ASSUME NEW f \in FcuTasks, FcuAccepted(f) PROVE TypeOK'
    <3>1. BuilderId[fcu[f].payload_id] \in PayloadIds
      BY <2>4 DEF FcuAccepted, OptPayloadId, FcuRecord
    <3>2. fcu' \in [FcuTasks -> FcuRecord]
      BY <2>4, <3>1 DEF FcuAccepted, FcuRecord, FcuPC, OptPayloadId
    <3> QED
      BY <2>4, <3>1, <3>2 DEF FcuAccepted
  <2>5. ASSUME NEW f \in FcuTasks, FcuNoPayload(f) PROVE TypeOK'
    <3>1. fcu' \in [FcuTasks -> FcuRecord]
      BY <2>5, FcuStepType DEF FcuNoPayload, FcuPC
    <3> QED
      BY <2>5, <3>1 DEF FcuNoPayload, builderVars
  <2>6. ASSUME NEW f \in FcuTasks, FcuCompare(f) PROVE TypeOK'
    <3>1. fcu' \in [FcuTasks -> FcuRecord]
      BY <2>6, FcuStepType DEF FcuCompare, FcuPC
    <3> QED
      BY <2>6, <3>1 DEF FcuCompare, builderVars
  <2>7. ASSUME NEW g \in GetTasks, NEW p \in PayloadIds, GetReceive(g, p) PROVE TypeOK'
    <3>1. get' \in [GetTasks -> GetRecord]
      BY <2>7, NewBuilderType DEF GetReceive, GetPC, OptPayloadId, GetRecord
    <3>2. \A h \in GetTasks : get'[h].pc # "idle" => get'[h].payload_id \in PayloadIds
      BY <2>7 DEF GetReceive, GetRecord
    <3> QED
      BY <2>7, <3>1, <3>2 DEF GetReceive, builderVars
  <2>8. ASSUME NEW g \in GetTasks, GetServe(g) PROVE TypeOK'
    <3>1. get' \in [GetTasks -> GetRecord]
      <4>1. /\ get \in [GetTasks -> GetRecord] /\ best_payload \in Builder
            /\ get' = [get EXCEPT ![g].pc = "served", ![g].block = best_payload]
        BY <2>8 DEF GetServe
      <4> HIDE DEF TypeOK
      <4> QED
        BY <4>1 DEF GetPC, GetRecord
    <3>2. get[g].payload_id \in PayloadIds
      BY <2>8 DEF GetServe
    <3>3. \A h \in GetTasks : get'[h].pc # "idle" => get'[h].payload_id \in PayloadIds
      BY <2>8, <3>2 DEF GetServe, GetRecord
    <3> QED
      BY <2>8, <3>1, <3>2, <3>3, NewBuilderType DEF GetServe, builderVars
  <2>9. ASSUME NEW g \in GetTasks, GetMiss(g) \/ GetClientPayload(g) \/ GetClientError(g)
        PROVE TypeOK'
    <3>1. PICK pc \in GetPC : get' = [get EXCEPT ![g].pc = pc]
      BY <2>9 DEF GetMiss, GetClientPayload, GetClientError, GetPC
    <3>2. get' \in [GetTasks -> GetRecord]
      BY <3>1, GetStepType
    <3>3. get[g].payload_id \in PayloadIds
      BY <2>9 DEF GetMiss, GetClientPayload, GetClientError
    <3>4. \A h \in GetTasks : get'[h].pc # "idle" => get'[h].payload_id \in PayloadIds
      BY <3>1, <3>3 DEF GetRecord
    <3>5. sealed' \subseteq PayloadIds /\ best_payload' \in Builder
      BY <2>9, NewBuilderType DEF GetMiss, GetClientPayload, GetClientError, builderVars
    <3> QED
      BY <2>9, <3>2, <3>4, <3>5 DEF GetMiss, GetClientPayload, GetClientError, builderVars
  <2>10. ASSUME NEW p \in PayloadIds, Finalise(p) PROVE TypeOK'
    BY <2>10 DEF Finalise
  <2>11. ASSUME EventCheck PROVE TypeOK'
    <3>1. Head(stream) \in Flashblock /\ Tail(stream) \in Seq(Flashblock)
      BY <2>11 DEF EventCheck
    <3> QED
      BY <2>11, <3>1 DEF EventCheck, builderVars
  <2>12. ASSUME EventExtend PROVE TypeOK'
    <3>1. event \in [pc : {"extend", "publish"}, fb : Flashblock]
      BY <2>12 DEF EventExtend, NoEvent
    <3>2. best_payload' \in Builder
      BY <2>12, <3>1, ExtendType DEF EventExtend
    <3>3. event' \in [pc : {"extend", "publish"}, fb : Flashblock]
      BY <2>12, <3>1 DEF EventExtend
    <3> QED
      BY <2>12, <3>2, <3>3 DEF EventExtend, builderVars
  <2>13. ASSUME EventReject PROVE TypeOK'
    BY <2>13 DEF EventReject, builderVars
  <2>14. ASSUME EventPublish PROVE TypeOK'
    <3>1. event.fb \in Flashblock
      BY <2>14 DEF EventPublish, NoEvent
    <3> QED
      BY <2>14, <3>1 DEF EventPublish, builderVars
  <2>15. ASSUME NEW p \in PayloadIds, NEW base \in BOOLEAN, EmitFlashblock(p, base)
         PROVE TypeOK'
    <3>1. [payload_id |-> p, index |-> emitted[p], base |-> base] \in Flashblock
      BY <2>15 DEF EmitFlashblock, Flashblock
    <3>2. emitted' \in [PayloadIds -> Nat]
      BY <2>15 DEF EmitFlashblock
    <3> QED
      BY <2>15, <3>1, <3>2 DEF EmitFlashblock
  <2>16. ASSUME NEW p \in PayloadIds, LoseFlashblock(p) PROVE TypeOK'
    BY <2>16 DEF LoseFlashblock
  <2>17. CASE UNCHANGED vars
    BY <2>17 DEF vars
  <2> QED
    BY <2>1, <2>2, <2>3, <2>4, <2>5, <2>6, <2>7, <2>8, <2>9, <2>10, <2>11, <2>12,
       <2>13, <2>14, <2>15, <2>16, <2>17 DEF Next, FcuTask, GetTask, EventLoop
<1> QED
  BY <1>1, <1>2, PTL DEF Spec
-----------------------------------------------------------------------------
LEMMA NewBuilderWellFormed == WellFormed(NewBuilder)
  BY DEF WellFormed, NewBuilder

\* extend keeps indices consecutive and ties the base to flashblock 0.
LEMMA ExtendWellFormed ==
    ASSUME NEW b \in Builder, NEW fb \in Flashblock, WellFormed(b), CanExtend(b, fb)
    PROVE  WellFormed(Extend(b, fb))
<1> DEFINE s == b.flashblocks
<1>1. s \in Seq(Flashblock) /\ fb.payload_id \in PayloadIds /\ fb.base \in BOOLEAN
  BY DEF Builder, Flashblock
<1>2. /\ Len(Append(s, fb)) = Len(s) + 1
      /\ Append(s, fb)[Len(s) + 1] = fb
      /\ \A i \in 1 .. Len(s) : Append(s, fb)[i] = s[i]
  BY <1>1
<1>3. fb.index = Len(s) /\ (fb.base <=> fb.index = 0)
  BY DEF CanExtend
<1>4. Extend(b, fb).flashblocks = Append(s, fb)
  BY DEF Extend
<1>5. CASE s = <<>>
  <2>1. Len(s) = 0 /\ Extend(b, fb).base = fb.payload_id
    BY <1>3, <1>5 DEF Extend
  <2>2. fb.payload_id # NoPayloadId
    BY <1>1, ServiceAssumption
  <2>3. ASSUME NEW i \in 1 .. Len(Append(s, fb))
        PROVE  /\ Append(s, fb)[i].index = i - 1
               /\ i = 1 => fb.payload_id = Append(s, fb)[i].payload_id
    BY <1>2, <1>3, <2>1
  <2>4. Append(s, fb) # <<>>
    BY <1>1, <1>2
  <2> QED
    BY <1>4, <2>1, <2>2, <2>3, <2>4 DEF WellFormed
<1>6. CASE s # <<>>
  <2>1. Len(s) > 0 /\ Extend(b, fb).base = b.base
    BY <1>1, <1>3, <1>6 DEF Extend
  <2>2. b.base # NoPayloadId
    BY <1>6 DEF WellFormed
  <2>3. \A i \in 1 .. Len(s) : /\ s[i].index = i - 1
                               /\ i = 1 => b.base = s[i].payload_id
    BY DEF WellFormed
  <2>4. ASSUME NEW i \in 1 .. Len(s) + 1
        PROVE  /\ Append(s, fb)[i].index = i - 1
               /\ i = 1 => b.base = Append(s, fb)[i].payload_id
    BY <1>1, <1>2, <1>3, <2>1, <2>3
  <2>5. Append(s, fb) # <<>>
    BY <1>1, <1>2
  <2> QED
    BY <1>2, <1>4, <2>1, <2>2, <2>4, <2>5 DEF WellFormed
<1> QED
  BY <1>5, <1>6

\* The accumulated block, and every block getPayload returns from it, has
\* consecutive flashblock indices from 0 and the base of its flashblock 0.
THEOREM WellFormedBlocks == Spec => []BlocksAreWellFormed
<1>1. Init => BlocksAreWellFormed
  BY NewBuilderWellFormed DEF Init, BlocksAreWellFormed
<1>2. TypeOK /\ BlocksAreWellFormed /\ [Next]_vars => BlocksAreWellFormed'
  <2> SUFFICES ASSUME TypeOK, BlocksAreWellFormed, [Next]_vars
               PROVE  BlocksAreWellFormed'
    OBVIOUS
  <2> USE DEF BlocksAreWellFormed
  <2>1. ASSUME UNCHANGED <<best_payload, get>> PROVE BlocksAreWellFormed'
    BY <2>1 DEF WellFormed
  <2>2. ASSUME NEW f \in FcuTasks, ResetBestPayload(f) PROVE BlocksAreWellFormed'
    BY <2>2, NewBuilderWellFormed DEF ResetBestPayload
  <2>3. ASSUME NEW g \in GetTasks, NEW p \in PayloadIds, GetReceive(g, p)
        PROVE  BlocksAreWellFormed'
    <3>1. \A h \in GetTasks : get'[h].block = IF h = g THEN NewBuilder ELSE get[h].block
      BY <2>3 DEF GetReceive, TypeOK, GetRecord
    <3> QED
      BY <2>3, <3>1, NewBuilderWellFormed DEF GetReceive
  <2>4. ASSUME NEW g \in GetTasks, GetServe(g) PROVE BlocksAreWellFormed'
    <3>1. \A h \in GetTasks : get'[h].block = IF h = g THEN best_payload ELSE get[h].block
      BY <2>4 DEF GetServe, TypeOK, GetRecord
    <3> QED
      BY <2>4, <3>1, NewBuilderWellFormed DEF GetServe
  <2>5. ASSUME NEW g \in GetTasks, GetMiss(g) \/ GetClientPayload(g) \/ GetClientError(g)
        PROVE  BlocksAreWellFormed'
    <3>0. PICK pc \in GetPC : get' = [get EXCEPT ![g].pc = pc]
      BY <2>5 DEF GetMiss, GetClientPayload, GetClientError, GetPC
    <3>1. \A h \in GetTasks : get'[h].block = get[h].block
      BY <3>0, GetStepType DEF TypeOK
    <3>2. WellFormed(best_payload')
      BY <2>5, NewBuilderWellFormed DEF GetMiss, GetClientPayload, GetClientError
    <3> QED
      BY <3>1, <3>2
  <2>6. ASSUME EventExtend PROVE BlocksAreWellFormed'
    <3>1. event.fb \in Flashblock
      BY <2>6 DEF EventExtend, TypeOK, NoEvent
    <3>2. WellFormed(best_payload')
      BY <2>6, <3>1, ExtendWellFormed DEF EventExtend, TypeOK
    <3> QED
      BY <2>6, <3>2 DEF EventExtend
  <2> QED
    BY <2>1, <2>2, <2>3, <2>4, <2>5, <2>6
       DEF Next, FcuTask, GetTask, EventLoop, FcuReceive, SetCurrentPayloadId,
           FcuAccepted, FcuNoPayload, FcuCompare, Finalise, EventCheck, EventReject,
           EventPublish, EmitFlashblock, LoseFlashblock, vars
<1> QED
  BY <1>1, <1>2, TypeCorrect, PTL DEF Spec
-----------------------------------------------------------------------------
(* The flashblock in hand was of the current payload when it was checked.  If *)
(* the id was replaced since, the accumulated block was emptied too, and only *)
(* the loop itself adds to it: the block it extends is empty then.            *)
StaleInv ==
    ~Replacing =>
        /\ \A i \in 2 .. Len(best_payload.flashblocks) :
            best_payload.flashblocks[i].payload_id = current_payload_id
        /\ event.pc = "extend" /\ best_payload.flashblocks # <<>>
            => event.fb.payload_id = current_payload_id

\* A forkchoiceUpdated task that neither enters nor leaves the window between
\* the two locks of set_current_payload_id does not open or close it.
LEMMA FcuStepReplacing ==
    ASSUME TypeOK, NEW f \in FcuTasks, NEW from \in FcuPC \ {"reset", "reset_resp"},
           NEW to \in FcuPC, FcuStep(f, from, to)
    PROVE  /\ Replacing => Replacing'
           /\ to \in {"reset", "reset_resp"} => Replacing'
  BY DEF FcuStep, Replacing, TypeOK, FcuRecord

\* The check of the payload id and the append are not atomic, but apart from
\* the moment in which an FCU replaces id and block only flashblock 0 of the
\* accumulated block can belong to a payload other than the current one.
THEOREM StaleFlashblocks == Spec => []OnlyFirstFlashblockCanBeStale
<1>1. Init => StaleInv
  BY DEF Init, StaleInv, NewBuilder, NoEvent
<1>2. TypeOK /\ StaleInv /\ [Next]_vars => StaleInv'
  <2> SUFFICES ASSUME TypeOK, StaleInv, [Next]_vars PROVE StaleInv'
    OBVIOUS
  <2> USE DEF StaleInv
  <2>1. ASSUME UNCHANGED <<best_payload, event, current_payload_id>>, Replacing => Replacing'
        PROVE  StaleInv'
    BY <2>1
  <2>2. ASSUME best_payload' = NewBuilder PROVE StaleInv'
    BY <2>2 DEF NewBuilder
  <2>3. ASSUME UNCHANGED fcu PROVE Replacing' = Replacing
    BY <2>3 DEF Replacing
  <2>4. ASSUME NEW f \in FcuTasks, NEW p \in OptPayloadId, FcuReceive(f, p) PROVE StaleInv'
    <3>1. Replacing => Replacing'
      BY <2>4 DEF FcuReceive, Replacing, TypeOK, FcuRecord
    <3> QED
      BY <2>1, <2>4, <3>1 DEF FcuReceive
  <2>5. ASSUME NEW f \in FcuTasks, SetCurrentPayloadId(f) PROVE StaleInv'
    <3>1. Replacing'
      BY <2>5, FcuStepReplacing DEF SetCurrentPayloadId, FcuPC
    <3> QED
      BY <3>1
  <2>6. ASSUME NEW f \in FcuTasks, FcuAccepted(f) PROVE StaleInv'
    <3>1. Replacing => Replacing'
      BY <2>6 DEF FcuAccepted, Replacing, TypeOK, FcuRecord
    <3> QED
      BY <2>1, <2>6, <3>1 DEF FcuAccepted
  <2>7. ASSUME NEW f \in FcuTasks, FcuNoPayload(f) \/ FcuCompare(f) PROVE StaleInv'
    <3>1. Replacing => Replacing'
      BY <2>7, FcuStepReplacing DEF FcuNoPayload, FcuCompare, FcuPC
    <3> QED
      BY <2>1, <2>7, <3>1 DEF FcuNoPayload, FcuCompare
  <2>8. ASSUME EventCheck PROVE StaleInv'
    BY <2>3, <2>8 DEF EventCheck, NoEvent
  <2>9. ASSUME EventExtend PROVE StaleInv'
    <3> DEFINE s == best_payload.flashblocks
    <3>1. s \in Seq(Flashblock) /\ best_payload'.flashblocks = Append(s, event.fb)
      BY <2>9 DEF EventExtend, Extend, TypeOK, Builder
    <3>2. event'.pc = "publish" /\ current_payload_id' = current_payload_id
      BY <2>9 DEF EventExtend, TypeOK
    <3>3. SUFFICES ASSUME ~Replacing, NEW i \in 2 .. Len(Append(s, event.fb))
                   PROVE  Append(s, event.fb)[i].payload_id = current_payload_id
      BY <2>3, <2>9, <3>1, <3>2 DEF EventExtend
    <3>4. CASE i <= Len(s)
      BY <3>1, <3>3, <3>4
    <3>5. CASE i = Len(s) + 1
      <4>1. s # <<>>
        BY <3>1, <3>3, <3>5
      <4>2. event.fb.payload_id = current_payload_id
        BY <2>9, <3>3, <4>1 DEF EventExtend
      <4> QED
        BY <3>1, <3>5, <4>2
    <3> QED
      BY <3>1, <3>3, <3>4, <3>5
  <2>10. ASSUME EventReject \/ EventPublish PROVE StaleInv'
    BY <2>3, <2>10 DEF EventReject, EventPublish, NoEvent
  <2> QED
    BY <2>1, <2>2, <2>3, <2>4, <2>5, <2>6, <2>7, <2>8, <2>9, <2>10
       DEF Next, FcuTask, GetTask, EventLoop, ResetBestPayload, GetReceive, GetServe,
           GetMiss, GetClientPayload, GetClientError, Finalise, EmitFlashblock,
           LoseFlashblock, vars
<1>3. StaleInv => OnlyFirstFlashblockCanBeStale
  BY DEF StaleInv, OnlyFirstFlashblockCanBeStale
<1> QED
  BY <1>1, <1>2, <1>3, TypeCorrect, PTL DEF Spec
-----------------------------------------------------------------------------
(* No flashblock is served twice.  A flashblock is in one place at a time:  *)
(* in the channel, in hand, accumulated, or in the block of one getPayload. *)

\* The channel holds flashblocks the builder emitted, those of a payload in order.
InOrder(s, e) ==
    \A i \in 1 .. Len(s) :
        /\ s[i].index < e[s[i].payload_id]
        /\ \A j \in 1 .. Len(s) :
            i < j /\ s[i].payload_id = s[j].payload_id => s[i].index < s[j].index

\* fb was emitted before everything of its payload that is still in the channel.
Past(fb, s, e) ==
    /\ fb.index < e[fb.payload_id]
    /\ \A i \in 1 .. Len(s) :
        s[i].payload_id = fb.payload_id => fb.index < s[i].index

InHand == IF event.pc = "extend" THEN {event.fb} ELSE {}
Accumulated == Range(best_payload.flashblocks)
ServedBy == [g \in GetTasks |-> Range(get[g].block.flashblocks)]

Taken(hand, acc, served) == hand \cup acc \cup UNION {served[g] : g \in GetTasks}
Apart(hand, acc, served) ==
    /\ hand \cap acc = {}
    /\ \A g \in GetTasks :
        /\ hand \cap served[g] = {}
        /\ acc \cap served[g] = {}
        /\ \A h \in GetTasks : g # h => served[g] \cap served[h] = {}

OnceInv ==
    /\ InOrder(stream, emitted)
    /\ \A fb \in Taken(InHand, Accumulated, ServedBy) : Past(fb, stream, emitted)
    /\ Apart(InHand, Accumulated, ServedBy)

\* What is received from the channel is new to everybody.
LEMMA ReceivedIsNew ==
    ASSUME NEW s \in Seq(Flashblock), NEW e, s # <<>>, InOrder(s, e)
    PROVE  /\ InOrder(Tail(s), e)
           /\ Past(Head(s), Tail(s), e)
           /\ \A fb : Past(fb, s, e) => Past(fb, Tail(s), e) /\ fb # Head(s)
<1>1. /\ Tail(s) \in Seq(Flashblock) /\ Len(s) \in Nat /\ Len(s) > 0
      /\ Len(Tail(s)) = Len(s) - 1 /\ Head(s) = s[1]
      /\ \A i \in 1 .. Len(Tail(s)) : Tail(s)[i] = s[i + 1]
  OBVIOUS
<1>2. s[1] \in Flashblock /\ s[1].index \in Int
  <2>1. s[1] \in Flashblock
    BY <1>1
  <2> QED
    BY <2>1, ServiceAssumption DEF Flashblock
<1>3. \A i \in 1 .. Len(Tail(s)) : i + 1 \in 1 .. Len(s) /\ 1 < i + 1
  BY <1>1
<1>4. \A i, j \in 1 .. Len(Tail(s)) : i < j => i + 1 < j + 1
  BY <1>1
<1>5. InOrder(Tail(s), e)
  BY <1>1, <1>3, <1>4 DEF InOrder
<1>6. 1 \in 1 .. Len(s)
  BY <1>1
<1>7. Past(s[1], Tail(s), e)
  BY <1>1, <1>3, <1>6 DEF InOrder, Past
<1>8. ASSUME NEW fb, Past(fb, s, e) PROVE Past(fb, Tail(s), e) /\ fb # s[1]
  <2>1. Past(fb, Tail(s), e)
    BY <1>1, <1>3, <1>8 DEF Past
  <2>2. ASSUME fb = s[1] PROVE FALSE
    BY <1>2, <1>6, <1>8, <2>2 DEF Past
  <2> QED
    BY <2>1, <2>2
<1> QED
  BY <1>1, <1>5, <1>7, <1>8

\* What the builder emits is younger than everything it emitted before.
LEMMA EmittedIsYoungest ==
    ASSUME NEW s \in Seq(Flashblock), NEW e \in [PayloadIds -> Nat], InOrder(s, e),
           NEW p \in PayloadIds, NEW new \in Flashblock,
           new.payload_id = p, new.index = e[p], NEW f, f = [e EXCEPT ![p] = @ + 1]
    PROVE  /\ InOrder(s, f)
           /\ InOrder(Append(s, new), f)
           /\ \A fb \in Flashblock : Past(fb, s, e) =>
                Past(fb, s, f) /\ Past(fb, Append(s, new), f)
<1> DEFINE t == Append(s, new)
<1>1. /\ Len(s) \in Nat /\ Len(t) = Len(s) + 1 /\ t[Len(s) + 1] = new
      /\ \A i \in 1 .. Len(s) : t[i] = s[i] /\ s[i] \in Flashblock
  OBVIOUS
<1>2. \A fb \in Flashblock : fb.payload_id \in PayloadIds /\ fb.index \in Int
  BY DEF Flashblock
<1>3. \A q \in PayloadIds : /\ e[q] \in Nat /\ f[q] \in Nat /\ e[q] <= f[q]
                            /\ q = p => e[q] < f[q]
  OBVIOUS
<1> HIDE DEF t
<1>4. \A fb \in Flashblock : fb.index < e[fb.payload_id] => fb.index < f[fb.payload_id]
  BY <1>2, <1>3
<1>5. InOrder(s, f)
  BY <1>1, <1>4 DEF InOrder
<1>6. \A i \in 1 .. Len(t) : i \in 1 .. Len(s) \/ i = Len(s) + 1
  BY <1>1
<1>7. ASSUME NEW fb \in Flashblock, Past(fb, s, e) PROVE Past(fb, s, f) /\ Past(fb, t, f)
  <2>1. fb.payload_id = p => fb.index < new.index
    BY <1>7 DEF Past
  <2>2. ASSUME NEW i \in 1 .. Len(t), t[i].payload_id = fb.payload_id
        PROVE  fb.index < t[i].index
    BY <1>1, <1>6, <1>7, <2>1, <2>2 DEF Past
  <2> QED
    BY <1>4, <1>7, <2>2 DEF Past
<1>8. InOrder(t, f)
  <2> SUFFICES ASSUME NEW i \in 1 .. Len(t)
               PROVE  /\ t[i].index < f[t[i].payload_id]
                      /\ \A j \in 1 .. Len(t) : i < j /\ t[i].payload_id = t[j].payload_id
                            => t[i].index < t[j].index
    BY DEF InOrder
  <2>1. CASE i \in 1 .. Len(s)
    <3>1. t[i] = s[i] /\ s[i] \in Flashblock /\ s[i].index < e[s[i].payload_id]
      BY <1>1, <2>1 DEF InOrder
    <3>2. ASSUME NEW j \in 1 .. Len(t), i < j, t[i].payload_id = t[j].payload_id
          PROVE  t[i].index < t[j].index
      <4>1. CASE j \in 1 .. Len(s)
        BY <1>1, <2>1, <3>2, <4>1 DEF InOrder
      <4>2. CASE j = Len(s) + 1
        BY <1>1, <3>1, <3>2, <4>2
      <4> QED
        BY <1>6, <4>1, <4>2
    <3> QED
      BY <1>4, <3>1, <3>2
  <2>2. CASE i = Len(s) + 1
    <3>1. \A j \in 1 .. Len(t) : ~(i < j)
      BY <1>1, <2>2
    <3> QED
      BY <1>1, <1>3, <2>2, <3>1
  <2> QED
    BY <1>6, <2>1, <2>2
<1> QED
  BY <1>5, <1>7, <1>8 DEF t

\* Reset, or nothing, leaves everything where it was or removes it.
LEMMA OnceKept ==
    ASSUME OnceInv, UNCHANGED <<stream, emitted>>, InHand' \subseteq InHand,
           Accumulated' \subseteq Accumulated,
           \A g \in GetTasks : ServedBy'[g] \subseteq ServedBy[g]
    PROVE  OnceInv'
<1>1. Taken(InHand', Accumulated', ServedBy') \subseteq Taken(InHand, Accumulated, ServedBy)
  BY DEF Taken
<1>2. Apart(InHand', Accumulated', ServedBy')
  BY DEF OnceInv, Apart
<1> QED
  BY <1>1, <1>2 DEF OnceInv

\* mem::replace hands the accumulated flashblocks to one call only: two
\* getPayload calls never return the same flashblock.
THEOREM ServedOnce == Spec => []NoFlashblockServedTwice
<1>1. Init => OnceInv
  <2> SUFFICES ASSUME Init PROVE OnceInv
    OBVIOUS
  <2>1. /\ InHand = {} /\ Accumulated = {} /\ \A g \in GetTasks : ServedBy[g] = {}
        /\ Len(stream) = 0
    BY DEF Init, InHand, Accumulated, ServedBy, NewBuilder, NoEvent, Range
  <2> QED
    BY <2>1 DEF OnceInv, InOrder, Taken, Apart
<1>2. TypeOK /\ OnceInv /\ [Next]_vars => OnceInv'
  <2> SUFFICES ASSUME TypeOK, OnceInv, [Next]_vars PROVE OnceInv'
    OBVIOUS
  <2>1. /\ stream \in Seq(Flashblock) /\ emitted \in [PayloadIds -> Nat]
        /\ best_payload.flashblocks \in Seq(Flashblock)
        /\ get \in [GetTasks -> GetRecord]
        /\ \A g \in GetTasks : get[g].block.flashblocks \in Seq(Flashblock)
        /\ event.pc = "extend" => event.fb \in Flashblock
    BY DEF TypeOK, Builder, GetRecord, NoEvent
  <2>2. Range(NewBuilder.flashblocks) = {}
    BY DEF NewBuilder, Range
  <2>3. ASSUME UNCHANGED <<best_payload, stream, event, get, emitted>> PROVE OnceInv'
    BY <2>3, OnceKept DEF InHand, Accumulated, ServedBy
  <2>4. ASSUME NEW f \in FcuTasks, FcuTask(f) PROVE OnceInv'
    <3>1. UNCHANGED <<stream, event, get, emitted>>
          /\ best_payload' \in {best_payload, NewBuilder}
      BY <2>4 DEF FcuTask, SetCurrentPayloadId, ResetBestPayload, FcuAccepted,
         FcuNoPayload, FcuCompare, builderVars
    <3>2. Accumulated' \subseteq Accumulated
      BY <2>2, <3>1 DEF Accumulated
    <3> QED
      BY <3>1, <3>2, OnceKept DEF InHand, ServedBy
  <2>5. ASSUME NEW g \in GetTasks, GetServe(g) PROVE OnceInv'
    <3>1. /\ InHand' = InHand /\ Accumulated' = {}
          /\ UNCHANGED <<stream, emitted>>
      BY <2>2, <2>5 DEF GetServe, InHand, Accumulated, builderVars
    <3>2. get' = [get EXCEPT ![g].pc = "served", ![g].block = best_payload]
      BY <2>5 DEF GetServe
    <3>3. \A h \in GetTasks :
            get'[h].block = IF h = g THEN best_payload ELSE get[h].block
      BY <2>1, <3>2 DEF GetRecord
    <3>4. \A h \in GetTasks : ServedBy'[h] = IF h = g THEN Accumulated ELSE ServedBy[h]
      BY <3>3 DEF ServedBy, Accumulated
    <3>5. Taken(InHand', Accumulated', ServedBy') \subseteq Taken(InHand, Accumulated, ServedBy)
      BY <3>1, <3>4 DEF Taken
    <3>6. Apart(InHand', Accumulated', ServedBy')
      BY <3>1, <3>4 DEF OnceInv, Apart
    <3> QED
      BY <3>1, <3>5, <3>6 DEF OnceInv
  <2>6. ASSUME NEW g \in GetTasks, GetMiss(g) \/ GetClientPayload(g) \/ GetClientError(g)
        PROVE  OnceInv'
    <3>1. /\ UNCHANGED <<stream, event, emitted>>
          /\ best_payload' \in {best_payload, NewBuilder}
      BY <2>6 DEF GetMiss, GetClientPayload, GetClientError, builderVars
    <3>2. PICK pc \in GetPC : get' = [get EXCEPT ![g].pc = pc]
      BY <2>6 DEF GetMiss, GetClientPayload, GetClientError, GetPC
    <3>3. \A h \in GetTasks : get'[h].block = get[h].block
      BY <2>1, <3>2, GetStepType
    <3>4. Accumulated' \subseteq Accumulated
      BY <2>2, <3>1 DEF Accumulated
    <3>5. \A h \in GetTasks : ServedBy'[h] \subseteq ServedBy[h]
      BY <3>3 DEF ServedBy
    <3> QED
      BY <3>1, <3>4, <3>5, OnceKept DEF InHand
  <2>7. ASSUME NEW g \in GetTasks, NEW p \in PayloadIds, GetReceive(g, p) PROVE OnceInv'
    <3>1. UNCHANGED <<stream, event, emitted, best_payload>>
      BY <2>7 DEF GetReceive, builderVars
    <3>2. \A h \in GetTasks :
            get'[h].block = IF h = g THEN NewBuilder ELSE get[h].block
      BY <2>1, <2>7 DEF GetReceive
    <3>3. \A h \in GetTasks : ServedBy'[h] \subseteq ServedBy[h]
      BY <2>2, <3>2 DEF ServedBy
    <3> QED
      BY <3>1, <3>3, OnceKept DEF InHand, Accumulated
  <2>8. ASSUME EventCheck PROVE OnceInv'
    <3>1. /\ stream # <<>> /\ stream' = Tail(stream) /\ emitted' = emitted
          /\ Accumulated' = Accumulated /\ ServedBy' = ServedBy
      BY <2>8 DEF EventCheck, Accumulated, ServedBy, builderVars
    <3>2. InHand' \subseteq {Head(stream)}
      BY <2>8 DEF EventCheck, InHand, NoEvent
    <3>3. /\ InOrder(Tail(stream), emitted)
          /\ Past(Head(stream), Tail(stream), emitted)
          /\ \A fb : Past(fb, stream, emitted) =>
                Past(fb, Tail(stream), emitted) /\ fb # Head(stream)
      BY <2>1, <3>1, ReceivedIsNew DEF OnceInv
    <3>4. \A fb \in Taken(InHand', Accumulated', ServedBy') :
            fb = Head(stream) \/ fb \in Taken(InHand, Accumulated, ServedBy)
      BY <3>1, <3>2 DEF Taken
    <3>5. \A fb \in Taken(InHand', Accumulated', ServedBy') :
            Past(fb, Tail(stream), emitted)
      BY <3>3, <3>4 DEF OnceInv
    <3>6. Head(stream) \notin Taken(InHand, Accumulated, ServedBy)
      BY <3>3 DEF OnceInv
    <3>7. Apart(InHand', Accumulated', ServedBy')
      BY <3>1, <3>2, <3>6 DEF OnceInv, Apart, Taken
    <3> QED
      BY <3>1, <3>3, <3>5, <3>7 DEF OnceInv
  <2>9. ASSUME EventExtend PROVE OnceInv'
    <3>1. /\ UNCHANGED <<stream, emitted>> /\ ServedBy' = ServedBy
          /\ InHand = {event.fb} /\ event.fb \in Flashblock
      BY <2>1, <2>9 DEF EventExtend, ServedBy, InHand, builderVars
    <3>2. InHand' = {}
      BY <2>9 DEF EventExtend, InHand
    <3>3. best_payload'.flashblocks = Append(best_payload.flashblocks, event.fb)
      BY <2>9 DEF EventExtend, Extend
    <3>4. Accumulated' \subseteq Accumulated \cup InHand
      BY <2>1, <3>1, <3>3 DEF Accumulated, Range
    <3>5. Taken(InHand', Accumulated', ServedBy') \subseteq Taken(InHand, Accumulated, ServedBy)
      BY <3>1, <3>2, <3>4 DEF Taken
    <3>6. Apart(InHand', Accumulated', ServedBy')
      BY <3>1, <3>2, <3>4 DEF OnceInv, Apart
    <3> QED
      BY <3>1, <3>5, <3>6 DEF OnceInv
  <2>10. ASSUME EventReject \/ EventPublish PROVE OnceInv'
    <3>1. UNCHANGED <<stream, emitted, best_payload, get>> /\ InHand' = {}
      BY <2>10 DEF EventReject, EventPublish, InHand, NoEvent, builderVars
    <3> QED
      BY <3>1, OnceKept DEF Accumulated, ServedBy
  <2>11. ASSUME NEW p \in PayloadIds,
                LoseFlashblock(p) \/ \E base \in BOOLEAN : EmitFlashblock(p, base)
         PROVE  OnceInv'
    <3>1. PICK new \in Flashblock :
            /\ new.payload_id = p /\ new.index = emitted[p]
            /\ emitted' = [emitted EXCEPT ![p] = @ + 1]
            /\ stream' \in {stream, Append(stream, new)}
      <4>1. emitted[p] \in 0 .. MaxFlashblocks - 1
        <5>1. emitted[p] < MaxFlashblocks
          BY <2>11 DEF LoseFlashblock, EmitFlashblock
        <5>2. emitted[p] \in Nat
          BY <2>1
        <5> QED
          BY <5>1, <5>2, ServiceAssumption
      <4>2. CASE LoseFlashblock(p)
        <5>1. [payload_id |-> p, index |-> emitted[p], base |-> FALSE] \in Flashblock
          BY <4>1 DEF Flashblock
        <5> QED
          BY <4>2, <5>1 DEF LoseFlashblock
      <4>3. ASSUME NEW base \in BOOLEAN, EmitFlashblock(p, base)
            PROVE  /\ [payload_id |-> p, index |-> emitted[p], base |-> base] \in Flashblock
                   /\ emitted' = [emitted EXCEPT ![p] = @ + 1]
                   /\ stream' = Append(stream, [payload_id |-> p, index |-> emitted[p],
                                                base |-> base])
        BY <4>1, <4>3 DEF EmitFlashblock, Flashblock
      <4> QED
        BY <2>11, <4>2, <4>3
    <3>2. InHand' = InHand /\ Accumulated' = Accumulated /\ ServedBy' = ServedBy
      BY <2>11 DEF LoseFlashblock, EmitFlashblock, InHand, Accumulated, ServedBy
    <3>3. Taken(InHand, Accumulated, ServedBy) \subseteq Flashblock
      BY <2>1 DEF Taken, InHand, Accumulated, ServedBy, Range
    <3>4. /\ InOrder(stream', emitted')
          /\ \A fb \in Flashblock : Past(fb, stream, emitted) => Past(fb, stream', emitted')
      <4>1. /\ InOrder(stream, emitted')
            /\ InOrder(Append(stream, new), emitted')
            /\ \A fb \in Flashblock : Past(fb, stream, emitted) =>
                Past(fb, stream, emitted') /\ Past(fb, Append(stream, new), emitted')
        <5>1. InOrder(stream, emitted)
          BY DEF OnceInv
        <5>2. emitted' = [emitted EXCEPT ![p] = @ + 1]
          BY <3>1
        <5> QED
          BY <2>1, <3>1, <5>1, <5>2, EmittedIsYoungest
      <4> QED
        BY <3>1, <4>1
    <3> QED
      BY <3>2, <3>3, <3>4 DEF OnceInv
  <2>12. ASSUME NEW f \in FcuTasks, NEW p \in OptPayloadId, FcuReceive(f, p) PROVE OnceInv'
    BY <2>3, <2>12 DEF FcuReceive, builderVars
  <2>13. ASSUME NEW p \in PayloadIds, Finalise(p) PROVE OnceInv'
    BY <2>3, <2>13 DEF Finalise
  <2>14. CASE UNCHANGED vars
    BY <2>3, <2>14 DEF vars, builderVars
  <2> QED
    BY <2>4, <2>5, <2>6, <2>7, <2>8, <2>9, <2>10, <2>11, <2>12, <2>13, <2>14
       DEF Next, GetTask, EventLoop
<1>3. OnceInv => NoFlashblockServedTwice
  BY DEF OnceInv, Apart, ServedBy, NoFlashblockServedTwice
<1> QED
  BY <1>1, <1>2, <1>3, TypeCorrect, PTL DEF Spec
-----------------------------------------------------------------------------
(* The refinement of PreconfirmationStream.  The state functions that its   *)
(* variables stand for get names here.                                      *)

Session == best_payload.flashblocks
Out == IF event.pc = "publish" THEN Append(published, event.fb) ELSE published
ServedTasks == {h \in GetTasks : get[h].pc = "served"}
Served == {get[g].block.flashblocks : g \in ServedTasks}

\* A getPayload step that neither ends nor begins in "served" serves nothing.
LEMMA ServedSame ==
    ASSUME TypeOK, NEW g \in GetTasks, NEW r \in GetRecord,
           get' = [get EXCEPT ![g] = r], get[g].pc # "served", r.pc # "served"
    PROVE  Served' = Served
<1>1. \A h \in GetTasks : h # g => get'[h] = get[h]
  BY DEF TypeOK
<1>2. get'[g] = r
  BY DEF TypeOK
<1>3. ServedTasks' = ServedTasks /\ g \notin ServedTasks
  BY <1>1, <1>2 DEF ServedTasks
<1>4. \A h \in ServedTasks : get'[h] = get[h]
  BY <1>1, <1>3 DEF ServedTasks
<1> QED
  BY <1>3, <1>4 DEF Served

LEMMA ServedMore ==
    ASSUME TypeOK, NEW g \in GetTasks, GetServe(g)
    PROVE  Served' = Served \cup {Session}
<1>1. get' = [get EXCEPT ![g].pc = "served", ![g].block = best_payload]
  BY DEF GetServe
<1>2. \A h \in GetTasks : h # g => get'[h] = get[h]
  BY <1>1 DEF TypeOK
<1>3. get'[g].pc = "served" /\ get'[g].block = best_payload
  BY <1>1 DEF TypeOK, GetRecord
<1>4. ServedTasks' = ServedTasks \cup {g} /\ g \notin ServedTasks
  BY <1>2, <1>3 DEF ServedTasks, GetServe
<1>5. \A h \in ServedTasks : get'[h] = get[h]
  BY <1>2, <1>4 DEF ServedTasks
<1> QED
  BY <1>3, <1>4, <1>5 DEF Served, Session

\* Every step of the service accepts one flashblock, serves or discards the
\* block, or changes nothing that the promise is about.
LEMMA StreamStep ==
    ASSUME TypeOK, [Next]_vars
    PROVE  \/ \E fb \in Flashblock : /\ fb.index = Len(Session)
                                     /\ Session' = Append(Session, fb)
                                     /\ Out' = Append(Out, fb)
                                     /\ Served' = Served
           \/ Session' = <<>> /\ Out' = Out /\ Served' = Served
           \/ /\ Session # <<>> /\ Session' = <<>> /\ Out' = Out
              /\ Served' = Served \cup {Session}
           \/ Session' = Session /\ Out' = Out /\ Served' = Served
<1> DEFINE Same == Session' = Session /\ Out' = Out /\ Served' = Served
           Drop == Session' = <<>> /\ Out' = Out /\ Served' = Served
<1>1. ASSUME UNCHANGED <<best_payload, event, published, get>> PROVE Same
  BY <1>1 DEF Session, Out, Served, ServedTasks
<1>2. ASSUME UNCHANGED <<event, published>> PROVE Out' = Out
  BY <1>2 DEF Out
<1>3. ASSUME UNCHANGED get PROVE Served' = Served
  BY <1>3 DEF Served, ServedTasks
<1>4. CASE UNCHANGED vars
  BY <1>1, <1>4 DEF vars
<1>5. ASSUME NEW f \in FcuTasks, FcuTask(f) PROVE Same \/ Drop
  <2>1. CASE ResetBestPayload(f)
    BY <1>2, <1>3, <2>1 DEF ResetBestPayload, Session, NewBuilder
  <2>2. CASE \/ SetCurrentPayloadId(f) \/ FcuAccepted(f)
             \/ FcuNoPayload(f) \/ FcuCompare(f)
    BY <1>1, <2>2 DEF SetCurrentPayloadId, FcuAccepted, FcuNoPayload, FcuCompare
  <2> QED
    BY <1>5, <2>1, <2>2 DEF FcuTask
<1>6. ASSUME NEW f \in FcuTasks, NEW p \in OptPayloadId, FcuReceive(f, p) PROVE Same
  BY <1>1, <1>6 DEF FcuReceive
<1>7. ASSUME NEW g \in GetTasks, NEW pc \in GetPC, get[g].pc # "served", pc # "served",
             get' = [get EXCEPT ![g].pc = pc]
      PROVE  Served' = Served
  <2>1. [get[g] EXCEPT !.pc = pc] \in GetRecord /\ [get[g] EXCEPT !.pc = pc].pc = pc
    BY DEF TypeOK, GetRecord
  <2>2. get' = [get EXCEPT ![g] = [get[g] EXCEPT !.pc = pc]]
    BY <1>7
  <2> QED
    BY <1>7, <2>1, <2>2, ServedSame
<1>8. ASSUME NEW g \in GetTasks, GetServe(g)
      PROVE  /\ Session # <<>> /\ Session' = <<>> /\ Out' = Out
             /\ Served' = Served \cup {Session}
  BY <1>2, <1>8, ServedMore DEF GetServe, HasEnvelope, NewBuilder, Session
<1>9. ASSUME NEW g \in GetTasks, GetMiss(g) PROVE Drop
  <2>1. Served' = Served
    BY <1>7, <1>9 DEF GetMiss, GetPC
  <2> QED
    BY <1>2, <1>9, <2>1 DEF GetMiss, NewBuilder, Session
<1>10. ASSUME NEW g \in GetTasks, GetClientPayload(g) \/ GetClientError(g) PROVE Same
  <2>1. Served' = Served
    BY <1>7, <1>10 DEF GetClientPayload, GetClientError, GetPC
  <2> QED
    BY <1>2, <1>10, <2>1 DEF GetClientPayload, GetClientError, Session
<1>11. ASSUME NEW g \in GetTasks, NEW p \in PayloadIds, GetReceive(g, p) PROVE Same
  <2> DEFINE r == [pc |-> IF current_payload_id = p THEN "take" ELSE "fallback",
                   payload_id |-> p, block |-> NewBuilder]
  <2>1. r \in GetRecord /\ r.pc # "served"
    BY NewBuilderType DEF GetRecord, GetPC, OptPayloadId
  <2>2. get' = [get EXCEPT ![g] = r] /\ get[g].pc # "served"
    BY <1>11 DEF GetReceive
  <2>3. Served' = Served
    BY <2>1, <2>2, ServedSame
  <2> QED
    BY <1>2, <1>11, <2>3 DEF GetReceive, Session
<1>12. ASSUME NEW p \in PayloadIds, Finalise(p) PROVE Same
  BY <1>1, <1>12 DEF Finalise
<1>13. CASE EventLoop
  <2>1. CASE EventCheck
    <3>1. event'.pc # "publish" /\ event.pc # "publish"
      BY <2>1 DEF EventCheck, NoEvent
    <3> QED
      BY <1>3, <2>1, <3>1 DEF EventCheck, Out, Session
  <2>2. CASE EventExtend
    <3>1. event.fb \in Flashblock
      BY <2>2 DEF EventExtend, TypeOK, NoEvent
    <3>2. event'.pc = "publish" /\ event'.fb = event.fb
      BY <2>2 DEF EventExtend, TypeOK, NoEvent
    <3>3. Out' = Append(Out, event.fb)
      BY <2>2, <3>2 DEF EventExtend, Out
    <3> QED
      BY <1>3, <2>2, <3>1, <3>3 DEF EventExtend, Extend, CanExtend, Session
  <2>3. CASE EventReject
    BY <1>3, <2>3 DEF EventReject, Out, NoEvent, Session
  <2>4. CASE EventPublish
    BY <1>3, <2>4 DEF EventPublish, Out, NoEvent, Session
  <2> QED
    BY <1>13, <2>1, <2>2, <2>3, <2>4 DEF EventLoop
<1>14. ASSUME NEW p \in PayloadIds, NEW base \in BOOLEAN, EmitFlashblock(p, base) PROVE Same
  BY <1>1, <1>14 DEF EmitFlashblock
<1>15. ASSUME NEW p \in PayloadIds, LoseFlashblock(p) PROVE Same
  BY <1>1, <1>15 DEF LoseFlashblock
<1> QED
  BY <1>4, <1>5, <1>6, <1>8, <1>9, <1>10, <1>11, <1>12, <1>13, <1>14, <1>15
     DEF Next, GetTask

\* FlashblocksService implements PreconfirmationStream: whatever the
\* interleaving of FCUs, getPayload calls and flashblocks, the outside sees
\* flashblocks accepted in index order and each block served at most once.
THEOREM Refinement == Spec => ImplementsStream
<1>1. Init => Stream!Init
  BY DEF Init, Stream!Init, NewBuilder, NoEvent
<1>2. TypeOK /\ [Next]_vars => [Stream!Next]_(Stream!vars)
  BY StreamStep DEF Stream!Next, Stream!Accept, Stream!Discard, Stream!Serve, Stream!vars,
     Session, Out, Served, ServedTasks
<1> QED
  BY <1>1, <1>2, TypeCorrect, PTL DEF Spec, ImplementsStream, Stream!Spec

Promise == INSTANCE PreconfirmationStreamProofs WITH
    session <- best_payload.flashblocks,
    out <- IF event.pc = "publish" THEN Append(published, event.fb) ELSE published,
    served <- {get[g].block.flashblocks : g \in {h \in GetTasks : get[h].pc = "served"}}

LEMMA SamePromise == Spec => Promise!Spec
<1>1. Stream!Init => Promise!Init
  BY DEF Stream!Init, Promise!Init
<1>2. [Stream!Next]_(Stream!vars) => [Promise!Next]_(Promise!vars)
  BY DEF Stream!Next, Stream!Accept, Stream!Discard, Stream!Serve, Stream!vars,
     Promise!Next, Promise!Accept, Promise!Discard, Promise!Serve, Promise!vars
<1> QED
  BY <1>1, <1>2, Refinement, PTL DEF ImplementsStream, Stream!Spec, Promise!Spec

\* A block served from flashblocks is a run of flashblocks that was published
\* (or is about to be) in that order: a pre-confirmation is never contradicted
\* by the block the consensus node receives from this service.
THEOREM ServedBlocksWerePublished == Spec => []ServedWasPublished
<1>1. Promise!ServedIsSegmentOfOut => ServedWasPublished
  BY DEF Promise!ServedIsSegmentOfOut, ServedWasPublished, Stream!ServedIsSegmentOfOut,
         Promise!IsSegment, Stream!IsSegment
<1> QED
  BY <1>1, SamePromise, Promise!ServedSegments, PTL

\* Subscribers never meet an index gap inside a block.
THEOREM PublicationIsReplayable == Spec => []PublishedIsReplayable
<1>1. Promise!OutIsReplayable => PublishedIsReplayable
  BY DEF Promise!OutIsReplayable, PublishedIsReplayable, Stream!OutIsReplayable
<1> QED
  BY <1>1, SamePromise, Promise!ReplayableOut, PTL
=============================================================================
