------------------------- MODULE FlashblocksService -------------------------
(***************************************************************************)
(* The flashblocks service of the sidecar                                  *)
(* (crates/rollup-boost/src/flashblocks/service.rs).  It stands between    *)
(* the engine server and the builder.  Three kinds of task share           *)
(* current_payload_id and best_payload, each behind a lock of its own:     *)
(* forkchoiceUpdated calls, getPayload calls, and the loop that consumes   *)
(* the flashblocks received from the builder.  A step of the model is what *)
(* happens under one lock acquisition, or between two awaits.              *)
(*                                                                         *)
(* A flashblock is its payload id, its index and whether it has a base;    *)
(* the block data it carries is identified by those.                       *)
(***************************************************************************)
EXTENDS Integers, Sequences, Functions

CONSTANTS
    PayloadIds,     \* payload ids that FCUs with attributes lead to
    NoPayloadId,    \* Option::None
    BuilderId,      \* [PayloadIds -> PayloadIds]: the id the builder gives to
                    \* the attributes whose locally calculated id is p
    FcuTasks,       \* forkchoiceUpdated invocations
    GetTasks,       \* getPayload invocations
    MaxFlashblocks, \* bound: flashblocks the builder emits for one payload
    StreamCapacity  \* capacity of the mpsc channel from the receiver

ASSUME ServiceAssumption ==
    /\ NoPayloadId \notin PayloadIds
    /\ BuilderId \in [PayloadIds -> PayloadIds]
    /\ MaxFlashblocks \in Nat
    /\ StreamCapacity \in Nat \ {0}

VARIABLES
    current_payload_id, \* payload id being processed, or NoPayloadId
    best_payload,       \* FlashblockBuilder: base and accumulated flashblocks
    stream,             \* mpsc channel of flashblocks
    event,              \* on_event: the flashblock in hand and its progress
    published,          \* flashblocks passed to the WebSocket publisher
    fcu,                \* forkchoiceUpdated tasks
    get,                \* getPayload tasks
    finalising,         \* payload ids of spawned finalising getPayload calls
    started,            \* builder: payload ids it has started building
    emitted,            \* builder: flashblocks emitted for each payload id
    sealed              \* builder: payload ids whose building has ended

vars == <<current_payload_id, best_payload, stream, event, published, fcu,
          get, finalising, started, emitted, sealed>>
builderVars == <<started, emitted, sealed>>

OptPayloadId == PayloadIds \cup {NoPayloadId}
Flashblock == [payload_id : PayloadIds, index : 0 .. MaxFlashblocks - 1, base : BOOLEAN]
Builder == [base : OptPayloadId, flashblocks : Seq(Flashblock)]
FcuPC == {"idle", "set", "reset", "call", "resp", "set_resp", "reset_resp", "done"}
GetPC == {"idle", "take", "fallback", "served", "client", "failed"}
FcuRecord == [pc : FcuPC, payload_id : OptPayloadId]
GetRecord == [pc : GetPC, payload_id : OptPayloadId, block : Builder]
NoEvent == [pc |-> "idle",
            fb |-> [payload_id |-> NoPayloadId, index |-> 0, base |-> FALSE]]
-----------------------------------------------------------------------------
(* FlashblockBuilder *)

NewBuilder == [base |-> NoPayloadId, flashblocks |-> <<>>]

\* Mutant: the index is not compared with the number of flashblocks.
CanExtend_AnyIndex(b, fb) ==
    fb.base <=> fb.index = 0

CanExtend(b, fb) ==
    /\ fb.index = Len(b.flashblocks)
    /\ fb.base <=> fb.index = 0

Extend(b, fb) ==
    [base |-> IF fb.base THEN fb.payload_id ELSE b.base,
     flashblocks |-> Append(b.flashblocks, fb)]

\* build_envelope fails with MissingPayload or MissingDelta otherwise
HasEnvelope(b) == b.base # NoPayloadId /\ b.flashblocks # <<>>

Init ==
    /\ current_payload_id = NoPayloadId
    /\ best_payload = NewBuilder
    /\ stream = <<>>
    /\ event = NoEvent
    /\ published = <<>>
    /\ fcu = [f \in FcuTasks |-> [pc |-> "idle", payload_id |-> NoPayloadId]]
    /\ get = [g \in GetTasks |->
                [pc |-> "idle", payload_id |-> NoPayloadId, block |-> NewBuilder]]
    /\ finalising = {}
    /\ started = {}
    /\ emitted = [p \in PayloadIds |-> 0]
    /\ sealed = {}
-----------------------------------------------------------------------------
(* fork_choice_updated_v3 *)

FcuStep(f, from, to) ==
    /\ fcu[f].pc = from
    /\ fcu' = [fcu EXCEPT ![f].pc = to]

\* With attributes the payload id is calculated locally; without, the call
\* only goes through to the builder.
FcuReceive(f, p) ==
    /\ fcu[f].pc = "idle"
    /\ fcu' = [fcu EXCEPT ![f] = [pc |-> IF p = NoPayloadId THEN "call" ELSE "set",
                                  payload_id |-> p]]
    /\ UNCHANGED <<current_payload_id, best_payload, stream, event, published,
                   get, finalising, builderVars>>

\* set_current_payload_id, first lock
SetCurrentPayloadId(f) ==
    /\ \/ FcuStep(f, "set", "reset")
       \/ FcuStep(f, "set_resp", "reset_resp")
    /\ current_payload_id' = fcu[f].payload_id
    /\ UNCHANGED <<best_payload, stream, event, published, get, finalising,
                   builderVars>>

\* set_current_payload_id, second lock
ResetBestPayload(f) ==
    /\ \/ FcuStep(f, "reset", "call")
       \/ FcuStep(f, "reset_resp", "done")
    /\ best_payload' = NewBuilder
    /\ UNCHANGED <<current_payload_id, stream, event, published, get,
                   finalising, builderVars>>

\* The builder answers with a payload id and starts building, unless it
\* already is.
FcuAccepted(f) ==
    /\ fcu[f].pc = "call"
    /\ fcu[f].payload_id # NoPayloadId
    /\ LET p == BuilderId[fcu[f].payload_id] IN
        /\ fcu' = [fcu EXCEPT ![f] = [pc |-> "resp", payload_id |-> p]]
        /\ started' = started \cup {p}
    /\ UNCHANGED <<current_payload_id, best_payload, stream, event, published,
                   get, finalising, emitted, sealed>>

\* An error, an invalid status, or an answer without a payload id: the task
\* returns and changes nothing.
FcuNoPayload(f) ==
    /\ FcuStep(f, "call", "done")
    /\ UNCHANGED <<current_payload_id, best_payload, stream, event, published,
                   get, finalising, builderVars>>

\* Mutant: nothing is done when the ids agree.
FcuCompare_OnlyMismatch(f) ==
    /\ current_payload_id # fcu[f].payload_id
    /\ FcuStep(f, "resp", "set_resp")
    /\ UNCHANGED <<current_payload_id, best_payload, stream, event, published,
                   get, finalising, builderVars>>

FcuCompare(f) ==
    /\ \/ /\ current_payload_id # fcu[f].payload_id
          /\ FcuStep(f, "resp", "set_resp")
       \/ /\ current_payload_id = fcu[f].payload_id
          /\ FcuStep(f, "resp", "done")
    /\ UNCHANGED <<current_payload_id, best_payload, stream, event, published,
                   get, finalising, builderVars>>
-----------------------------------------------------------------------------
(* get_payload *)

\* get_best_payload, first lock: the payload id is compared
GetReceive(g, p) ==
    /\ get[g].pc = "idle"
    /\ get' = [get EXCEPT ![g] =
                [pc |-> IF current_payload_id = p THEN "take" ELSE "fallback",
                 payload_id |-> p, block |-> NewBuilder]]
    /\ UNCHANGED <<current_payload_id, best_payload, stream, event, published,
                   fcu, finalising, builderVars>>

\* Mutant: the builder is cloned instead of taken.
GetServe_Clones(g) ==
    /\ get[g].pc = "take"
    /\ HasEnvelope(best_payload)
    /\ get' = [get EXCEPT ![g].pc = "served", ![g].block = best_payload]
    /\ finalising' = finalising \cup {get[g].payload_id}
    /\ UNCHANGED <<current_payload_id, best_payload, stream, event, published,
                   fcu, builderVars>>

\* get_best_payload, second lock: the builder is taken, whatever it holds.
\* With a block in it, the block is returned and a finalising call spawned ...
GetServe(g) ==
    /\ get[g].pc = "take"
    /\ HasEnvelope(best_payload)
    /\ best_payload' = NewBuilder
    /\ get' = [get EXCEPT ![g].pc = "served", ![g].block = best_payload]
    /\ finalising' = finalising \cup {get[g].payload_id}
    /\ UNCHANGED <<current_payload_id, stream, event, published, fcu,
                   builderVars>>

\* ... without one, the call falls back on the client.
GetMiss(g) ==
    /\ get[g].pc = "take"
    /\ ~HasEnvelope(best_payload)
    /\ best_payload' = NewBuilder
    /\ get' = [get EXCEPT ![g].pc = "fallback"]
    /\ UNCHANGED <<current_payload_id, stream, event, published, fcu,
                   finalising, builderVars>>

GetClientPayload(g) ==
    /\ get[g].pc = "fallback"
    /\ get[g].payload_id \in started
    /\ get' = [get EXCEPT ![g].pc = "client"]
    /\ sealed' = sealed \cup {get[g].payload_id}
    /\ UNCHANGED <<current_payload_id, best_payload, stream, event, published,
                   fcu, finalising, started, emitted>>

GetClientError(g) ==
    /\ get[g].pc = "fallback"
    /\ get' = [get EXCEPT ![g].pc = "failed"]
    /\ UNCHANGED <<current_payload_id, best_payload, stream, event, published,
                   fcu, finalising, builderVars>>

\* The spawned call reaches the builder, or fails and is only logged.
Finalise(p) ==
    /\ p \in finalising
    /\ finalising' = finalising \ {p}
    /\ \/ /\ p \in started
          /\ sealed' = sealed \cup {p}
       \/ UNCHANGED sealed
    /\ UNCHANGED <<current_payload_id, best_payload, stream, event, published,
                   fcu, get, started, emitted>>
-----------------------------------------------------------------------------
(* on_event, one flashblock at a time *)

\* Mutant: the payload id is not compared.
EventCheck_AnyPayload ==
    /\ event.pc = "idle"
    /\ stream # <<>>
    /\ stream' = Tail(stream)
    /\ event' = [pc |-> "extend", fb |-> Head(stream)]
    /\ UNCHANGED <<current_payload_id, best_payload, published, fcu, get,
                   finalising, builderVars>>

\* The flashblock is received and its payload id compared under the read lock.
EventCheck ==
    /\ event.pc = "idle"
    /\ stream # <<>>
    /\ stream' = Tail(stream)
    /\ event' = IF Head(stream).payload_id = current_payload_id
                THEN [pc |-> "extend", fb |-> Head(stream)]
                ELSE NoEvent
    /\ UNCHANGED <<current_payload_id, best_payload, published, fcu, get,
                   finalising, builderVars>>

\* Under the write lock of best_payload the flashblock is appended ...
EventExtend ==
    /\ event.pc = "extend"
    /\ CanExtend(best_payload, event.fb)
    /\ best_payload' = Extend(best_payload, event.fb)
    /\ event' = [event EXCEPT !.pc = "publish"]
    /\ UNCHANGED <<current_payload_id, stream, published, fcu, get, finalising,
                   builderVars>>

\* ... or rejected: InvalidIndex, MissingBasePayload, UnexpectedBasePayload.
EventReject ==
    /\ event.pc = "extend"
    /\ ~CanExtend(best_payload, event.fb)
    /\ event' = NoEvent
    /\ UNCHANGED <<current_payload_id, best_payload, stream, published, fcu,
                   get, finalising, builderVars>>

EventPublish ==
    /\ event.pc = "publish"
    /\ published' = Append(published, event.fb)
    /\ event' = NoEvent
    /\ UNCHANGED <<current_payload_id, best_payload, stream, fcu, get,
                   finalising, builderVars>>
-----------------------------------------------------------------------------
(* The builder and its WebSocket connection: flashblocks of a payload come  *)
(* in order; one emitted while the receiver reconnects is lost; one without *)
(* a base, or with a base it should not have, is possible.                  *)

EmitFlashblock(p, base) ==
    /\ p \in started \ sealed
    /\ emitted[p] < MaxFlashblocks
    /\ Len(stream) < StreamCapacity
    /\ emitted' = [emitted EXCEPT ![p] = @ + 1]
    /\ stream' = Append(stream, [payload_id |-> p, index |-> emitted[p],
                                 base |-> base])
    /\ UNCHANGED <<current_payload_id, best_payload, event, published, fcu,
                   get, finalising, started, sealed>>

LoseFlashblock(p) ==
    /\ p \in started \ sealed
    /\ emitted[p] < MaxFlashblocks
    /\ emitted' = [emitted EXCEPT ![p] = @ + 1]
    /\ UNCHANGED <<current_payload_id, best_payload, stream, event, published,
                   fcu, get, finalising, started, sealed>>
-----------------------------------------------------------------------------
FcuTask(f) ==
    \/ SetCurrentPayloadId(f)
    \/ ResetBestPayload(f)
    \/ FcuAccepted(f)
    \/ FcuNoPayload(f)
    \/ FcuCompare(f)

GetTask(g) ==
    \/ GetServe(g)
    \/ GetMiss(g)
    \/ GetClientPayload(g)
    \/ GetClientError(g)

EventLoop == EventCheck \/ EventExtend \/ EventReject \/ EventPublish

Next ==
    \/ \E f \in FcuTasks : FcuTask(f)
    \/ \E f \in FcuTasks, p \in OptPayloadId : FcuReceive(f, p)
    \/ \E g \in GetTasks : GetTask(g)
    \/ \E g \in GetTasks, p \in PayloadIds : GetReceive(g, p)
    \/ \E p \in PayloadIds : Finalise(p)
    \/ EventLoop
    \/ \E p \in PayloadIds, base \in BOOLEAN : EmitFlashblock(p, base)
    \/ \E p \in PayloadIds : LoseFlashblock(p)

Spec == Init /\ [][Next]_vars

\* The runtime keeps polling every spawned task and every client call ends by
\* its timeout; calls and flashblocks need not arrive.
Fairness ==
    /\ \A f \in FcuTasks : WF_vars(FcuTask(f))
    /\ \A g \in GetTasks : WF_vars(GetTask(g))
    /\ \A p \in PayloadIds : WF_vars(Finalise(p))
    /\ WF_vars(EventLoop)

FairSpec == Spec /\ Fairness
-----------------------------------------------------------------------------
TypeOK ==
    /\ current_payload_id \in OptPayloadId
    /\ best_payload \in Builder
    /\ stream \in Seq(Flashblock)
    /\ \/ event = NoEvent
       \/ event \in [pc : {"extend", "publish"}, fb : Flashblock]
    /\ published \in Seq(Flashblock)
    /\ fcu \in [FcuTasks -> FcuRecord]
    /\ get \in [GetTasks -> GetRecord]
    /\ \A g \in GetTasks : get[g].pc # "idle" => get[g].payload_id \in PayloadIds
    /\ finalising \subseteq PayloadIds
    /\ started \subseteq PayloadIds
    /\ emitted \in [PayloadIds -> Nat]
    /\ sealed \subseteq PayloadIds

\* Whatever the interleaving, the accumulated block and every block served
\* have consecutive indices from 0 and the base that came with index 0, and a
\* base is there exactly when a flashblock is: build_envelope's MissingDelta
\* cannot happen.
WellFormed(b) ==
    /\ b.base # NoPayloadId <=> b.flashblocks # <<>>
    /\ \A i \in 1 .. Len(b.flashblocks) :
        /\ b.flashblocks[i].index = i - 1
        /\ i = 1 => b.base = b.flashblocks[i].payload_id
BlocksAreWellFormed ==
    /\ WellFormed(best_payload)
    /\ \A g \in GetTasks : WellFormed(get[g].block)

\* Flashblocks are checked against current_payload_id under one lock and
\* appended under another, and an FCU replaces the id and the block in two
\* steps.  Outside that window at most the first flashblock of the block can
\* be of another payload: later ones are of the current payload.
Replacing == \E f \in FcuTasks : fcu[f].pc \in {"reset", "reset_resp"}
OnlyFirstFlashblockCanBeStale ==
    ~Replacing =>
        \A i \in 2 .. Len(best_payload.flashblocks) :
            best_payload.flashblocks[i].payload_id = current_payload_id

\* mem::replace hands the accumulated flashblocks to one call only: two
\* getPayload calls never return the same flashblock.
NoFlashblockServedTwice ==
    \A g, h \in GetTasks :
        g # h => Range(get[g].block.flashblocks)
                    \cap Range(get[h].block.flashblocks) = {}

\* "Test that we don't return block from flashblocks if payload_id is
\* different": a block served from flashblocks is the requested payload's.
ServedBlockIsOfRequestedPayload ==
    \A g \in GetTasks :
        \A fb \in Range(get[g].block.flashblocks) :
            fb.payload_id = get[g].payload_id

\* Every call that was received returns, a full channel drains, and a block
\* served from flashblocks is followed by the finalising call to the builder:
\* no task waits for another one's lock forever.
EveryCallReturns ==
    /\ \A f \in FcuTasks : fcu[f].pc # "idle" ~> fcu[f].pc = "done"
    /\ \A g \in GetTasks :
        get[g].pc # "idle" ~> get[g].pc \in {"served", "client", "failed"}
    /\ Len(stream) = StreamCapacity ~> Len(stream) < StreamCapacity
    /\ \A p \in PayloadIds : p \in finalising ~> p \notin finalising

\* The service implements the promise of PreconfirmationStream.  A flashblock
\* counts as sent when it is accepted, one step before it is published.
Stream == INSTANCE PreconfirmationStream WITH
    session <- best_payload.flashblocks,
    out <- IF event.pc = "publish" THEN Append(published, event.fb) ELSE published,
    served <- {get[g].block.flashblocks : g \in {h \in GetTasks : get[h].pc = "served"}}
ImplementsStream == Stream!Spec
ServedWasPublished == Stream!ServedIsSegmentOfOut
PublishedIsReplayable == Stream!OutIsReplayable
=============================================================================
