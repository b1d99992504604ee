-------------------------- MODULE FlashblocksOverlay --------------------------
(***************************************************************************)
(* The flashblocks RPC node's overlay (crates/flashblocks-rpc/src/cache.rs *)
(* and flashblocks.rs): one task reads flashblocks from the websocket      *)
(* proxy and one applies them to a cache that RPC calls read.  The proxy   *)
(* sends what is published while the connection is up, in order and        *)
(* without gaps.                                                           *)
(*                                                                         *)
(* A flashblock is its payload and index; the first of a payload carries   *)
(* the base.  Its metadata has the receipts of the payload so far and the  *)
(* balances its own transactions changed; a balance is represented by the  *)
(* flashblock it comes from.                                               *)
(***************************************************************************)
EXTENDS Integers, FiniteSets, SequencesExt

CONSTANTS
    Payloads,
    Txs,            \* payload -> its flashblocks, each a sequence of transactions
    Accounts,
    Sender,         \* transaction -> account
    None,
    Capacity,       \* of the channel between the two tasks
    WireCapacity    \* bound: frames under way to the overlay

VARIABLES
    published,      \* proxy: how many flashblocks of a payload are published
    current,        \* proxy: the payload being published
    up,             \* the connection is up
    wire,
    reader,         \* the reading task: "connect", "read", "send" or "sleep"
    held,           \* the flashblock it is sending
    channel,
    worker,         \* the processing task: "run", or "dead" after a panic
    cache,
    missed          \* history: payloads whose first flashblock was lost or unreadable

stream == <<published, current, up, wire>>
overlayVars == <<stream, reader, held, channel, worker, cache, missed>>

Flashblock(p, i) == [payload |-> p, index |-> i]
Flashblocks == UNION {{Flashblock(p, i) : i \in 0 .. Len(Txs[p]) - 1} : p \in Payloads}

TxsOf(f) == Txs[f.payload][f.index + 1]
Transactions(s) == FlattenSeq([i \in DOMAIN s |-> TxsOf(s[i])])
Count(a, txs) == Cardinality({i \in DOMAIN txs : Sender[txs[i]] = a})

\* metadata
Receipts(f) == ToSet(Transactions([i \in 1 .. f.index + 1 |-> Flashblock(f.payload, i - 1)]))
new_account_balances(f) == {Sender[t] : t \in ToSet(TxsOf(f))}

FirstOf(s) == {f.payload : f \in {g \in ToSet(s) : g.index = 0}}

EmptyCache ==
    [builder |-> <<>>, block |-> None, nonce_cache |-> [a \in Accounts |-> 0],
     receipts_cache |-> {}, balance_cache |-> [a \in Accounts |-> None]]

Init ==
    /\ published = [p \in Payloads |-> 0]
    /\ current = None
    /\ up = FALSE
    /\ wire = <<>>
    /\ reader = "connect"
    /\ held = None
    /\ channel = <<>>
    /\ worker = "run"
    /\ cache = EmptyCache
    /\ missed = {}
-----------------------------------------------------------------------------
(* The cache *)

\* Mutant: reset forgets the builder.
reset_KeepsBuilder(c, f) ==
    IF f.index = 0 THEN [EmptyCache EXCEPT !.builder = c.builder] ELSE c

reset(c, f) == IF f.index = 0 THEN EmptyCache ELSE c

\* FlashblockBuilder::extend checks the index, but not the payload.
CanExtend(c, f) == f.index = Len(c.builder)
Extended(c, f) == Append(c.builder, f)

\* Mutant: only the transactions of this flashblock get a receipt.
WithBlock_Delta(c, f, txs) ==
    [c EXCEPT !.builder = Extended(c, f), !.block = txs,
              !.nonce_cache = [a \in Accounts |-> Count(a, txs)],
              !.receipts_cache = ToSet(TxsOf(f))]

\* nonce_cache counts the transactions of the whole block again.
WithBlock(c, f, txs) ==
    [c EXCEPT !.builder = Extended(c, f), !.block = txs,
              !.nonce_cache = [a \in Accounts |->
                                  IF Count(a, txs) > 0 THEN Count(a, txs) ELSE @[a]],
              !.receipts_cache = @ \cup ToSet(txs),
              !.balance_cache = [a \in Accounts |->
                                  IF a \in new_account_balances(f) THEN f ELSE @[a]]]

\* process_payload: a new cache, or an error, or a panic when a transaction of the
\* block has no receipt in the metadata.  metadata: whether it can be parsed, with
\* the balances in it.
process_payload(c, f, metadata) ==
    LET old == reset(c, f)
        txs == Transactions(Extended(old, f))
    IN  IF metadata = "bad" \/ ~CanExtend(old, f) THEN [result |-> "err", cache |-> c]
        ELSE IF ~(ToSet(txs) \subseteq Receipts(f)) THEN [result |-> "panic", cache |-> c]
        ELSE IF metadata = "bad balance" THEN [result |-> "err", cache |-> c]
        ELSE [result |-> "ok", cache |-> WithBlock(old, f, txs)]

\* The processing task stores a new cache only when there was no error, and ends
\* when it panics.
Process(metadata) ==
    /\ worker = "run" /\ channel # <<>>
    /\ LET r == process_payload(cache, Head(channel), metadata) IN
          /\ cache' = r.cache
          /\ worker' = IF r.result = "panic" THEN "dead" ELSE "run"
          /\ channel' = IF r.result = "panic" THEN <<>> ELSE Tail(channel)
    /\ missed' = missed \cup FirstOf(IF metadata = "good" THEN <<>> ELSE <<Head(channel)>>)
    /\ UNCHANGED <<stream, reader, held>>

\* What the getters of the cache read.
get_block == cache.block
get_nonce(a) == cache.nonce_cache[a]
get_receipt(t) == t \in cache.receipts_cache
-----------------------------------------------------------------------------
(* The reading task *)

Connect ==
    /\ reader = "connect"
    /\ reader' = "read"
    /\ up' = TRUE
    /\ wire' = <<>>
    /\ UNCHANGED <<published, current, held, channel, worker, cache, missed>>

ConnectFails ==
    /\ reader = "connect"
    /\ reader' = "sleep"
    /\ UNCHANGED <<stream, held, channel, worker, cache, missed>>

Retry ==
    /\ reader = "sleep"
    /\ reader' = "connect"
    /\ UNCHANGED <<stream, held, channel, worker, cache, missed>>

Read ==
    /\ reader = "read" /\ wire # <<>>
    /\ reader' = "send"
    /\ held' = Head(wire)
    /\ wire' = Tail(wire)
    /\ UNCHANGED <<published, current, up, channel, worker, cache, missed>>

\* A frame that, decompressed if need be, is no flashblock is dropped.
ReadFails ==
    /\ reader = "read" /\ wire # <<>>
    /\ wire' = Tail(wire)
    /\ missed' = missed \cup FirstOf(<<Head(wire)>>)
    /\ UNCHANGED <<published, current, up, reader, held, channel, worker, cache>>

\* The send waits for room, and fails at once when the processing task is dead.
Send ==
    /\ reader = "send"
    /\ Len(channel) < Capacity \/ worker = "dead"
    /\ channel' = IF worker = "dead" THEN channel ELSE Append(channel, held)
    /\ reader' = "read"
    /\ held' = None
    /\ UNCHANGED <<stream, worker, cache, missed>>

\* A close frame, an error or the end of the stream: a new connection at once.
Closed ==
    /\ reader = "read" /\ wire = <<>> /\ ~up
    /\ reader' = "connect"
    /\ UNCHANGED <<stream, held, channel, worker, cache, missed>>
-----------------------------------------------------------------------------
(* The websocket proxy *)

\* The sidecar publishes a payload's flashblocks in order, from the first one, and
\* may turn to another payload after any of them.
Publish(f) ==
    /\ f.index = published[f.payload]
    /\ f.index = 0 \/ current = f.payload
    /\ up => Len(wire) < WireCapacity
    /\ published' = [published EXCEPT ![f.payload] = @ + 1]
    /\ current' = f.payload
    /\ wire' = IF up THEN Append(wire, f) ELSE wire
    /\ missed' = IF up THEN missed ELSE missed \cup FirstOf(<<f>>)
    /\ UNCHANGED <<up, reader, held, channel, worker, cache>>

Break ==
    /\ up
    /\ up' = FALSE
    /\ wire' = <<>>
    /\ missed' = missed \cup FirstOf(wire)
    /\ UNCHANGED <<published, current, reader, held, channel, worker, cache>>

Metadata == {"good", "bad", "bad balance"}
ReaderStep == Connect \/ ConnectFails \/ Retry \/ Read \/ ReadFails \/ Send \/ Closed
OverlayStep ==
    \/ ReaderStep
    \/ \E metadata \in Metadata : Process(metadata)
    \/ \E f \in Flashblocks : Publish(f)
    \/ Break
-----------------------------------------------------------------------------
(* Properties *)

\* What the four queries of the cache answer belongs together: the transactions of
\* the pending block, exactly their receipts, the number of transactions of each
\* account among them, and of each account the balance of the last flashblock that
\* changed it (cache.rs 150-262 updates them one after the other, on a copy).
CacheIsConsistent ==
    LET s == cache.builder
        changed(a) == {i \in DOMAIN s : a \in new_account_balances(s[i])}
    IN  cache.block # None =>
          /\ get_block = Transactions(s)
          /\ \A t \in DOMAIN Sender : get_receipt(t) <=> t \in ToSet(get_block)
          /\ \A a \in Accounts :
                /\ get_nonce(a) = Count(a, get_block)
                /\ cache.balance_cache[a] =
                      IF changed(a) = {} THEN None
                      ELSE s[CHOOSE i \in changed(a) : \A j \in changed(a) : j <= i]

\* The pending block has flashblocks of a second payload only when the first
\* flashblock of that payload was missed (FlashblockBuilder::extend compares indices,
\* not payload ids, and cache.rs 159 resets only at index 0).  The processing task
\* panics (cache.rs 191-194), and leaves the cache as it is for ever, only after such
\* a miss.
DamageNeedsMiss ==
    /\ \A i \in DOMAIN cache.builder :
          cache.builder[i].payload \in {cache.builder[1].payload} \cup missed
    /\ worker = "dead" => missed # {}

=============================================================================
