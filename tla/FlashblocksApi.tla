---------------------------- MODULE FlashblocksApi ----------------------------
(***************************************************************************)
(* The RPC overrides of the flashblocks node                               *)
(* (crates/flashblocks-rpc/src/rpc.rs) while its overlay receives          *)
(* flashblocks and the node itself imports blocks.  A call reads the cache *)
(* and the chain in two steps; the two sources move in between.            *)
(***************************************************************************)
EXTENDS FlashblocksOverlay

CONSTANT Height     \* payload -> number of its block

VARIABLES
    chain,      \* node: the blocks imported, as sequences of flashblocks
    call        \* the call in progress

apiVars == <<overlayVars, chain, call>>

ChainTxs == Transactions(FlattenSeq(chain))
Imported(p) == \E i \in DOMAIN chain : chain[i][1].payload = p
CachedPayloads == {f.payload : f \in ToSet(cache.builder)}

\* What a call could answer if it read the cache and the chain in one step.
Known(t) == get_receipt(t) \/ t \in ToSet(ChainTxs)
OnHead == \A p \in CachedPayloads : Height[p] = Len(chain) + 1
PendingCount(a) == Count(a, ChainTxs) + (IF OnHead THEN get_nonce(a) ELSE 0)

\* History of a call: the count when it read the chain; whether the cached block was
\* the one on the head of the chain then and has since been kept, or imported; whether
\* the receipt has been in the cache or the chain at every moment of the call.
NoCall ==
    [op |-> "none", at |-> "done", arg |-> None, latest |-> 0, result |-> None,
     low |-> 0, steady |-> FALSE, known |-> FALSE]

ApiInit ==
    /\ Init
    /\ chain = <<>>
    /\ call = NoCall

Observed ==
    call' = [call EXCEPT
        !.steady = /\ @ /\ CachedPayloads' = CachedPayloads
                   /\ \/ chain' = chain
                      \/ \A p \in CachedPayloads : Imported(p)',
        !.known = @ /\ \A t \in {call.arg} : Known(t)']
-----------------------------------------------------------------------------
\* The node imports the next block, as it was published; it gets no more flashblocks.
Import(p) ==
    /\ published[p] > 0
    /\ Height[p] = Len(chain) + 1
    /\ chain' = Append(chain, [i \in 1 .. published[p] |-> Flashblock(p, i - 1)])
    /\ UNCHANGED overlayVars
    /\ Observed

Overlay ==
    /\ OverlayStep
    /\ \A p \in Payloads : Imported(p) => published'[p] = published[p]
    /\ UNCHANGED chain
    /\ Observed

Reads == UNCHANGED <<overlayVars, chain>>
Returns(result) == call' = [NoCall EXCEPT !.result = result]

GetTransactionCount(a) ==
    /\ call.at = "done"
    /\ call' = [NoCall EXCEPT !.op = "count", !.at = "latest", !.arg = a]
    /\ Reads

ReadLatest ==
    /\ call.op = "count" /\ call.at = "latest"
    /\ call' = [call EXCEPT !.at = "cached", !.latest = Count(call.arg, ChainTxs),
                            !.low = PendingCount(call.arg), !.steady = OnHead]
    /\ Reads

\* Mutant: the chain is read after the cache.
ReadCached_First ==
    /\ call.op = "count" /\ call.at = "cached"
    /\ IF get_nonce(call.arg) > 0 THEN Returns(Count(call.arg, ChainTxs) + get_nonce(call.arg))
       ELSE call' = [call EXCEPT !.at = "eth"]
    /\ Reads

\* An account without transactions in the cache is looked up in the chain again.
ReadCached ==
    /\ call.op = "count" /\ call.at = "cached"
    /\ IF get_nonce(call.arg) > 0 THEN Returns(call.latest + get_nonce(call.arg))
       ELSE call' = [call EXCEPT !.at = "eth"]
    /\ Reads

ReadPending ==
    /\ call.op = "count" /\ call.at = "eth"
    /\ Returns(Count(call.arg, ChainTxs))
    /\ Reads

GetTransactionReceipt(t) ==
    /\ call.at = "done"
    /\ call' = [NoCall EXCEPT !.op = "receipt", !.at = "cached", !.arg = t, !.known = Known(t)]
    /\ Reads

ReadCachedReceipt ==
    /\ call.op = "receipt" /\ call.at = "cached"
    /\ IF get_receipt(call.arg) THEN Returns(TRUE)
       ELSE call' = [call EXCEPT !.at = "eth"]
    /\ Reads

\* Mutant: the answer is that of the cache.
ReadReceipt_Cache ==
    /\ call.op = "receipt" /\ call.at = "eth"
    /\ Returns(get_receipt(call.arg))
    /\ Reads

ReadReceipt ==
    /\ call.op = "receipt" /\ call.at = "eth"
    /\ Returns(call.arg \in ToSet(ChainTxs))
    /\ Reads

ApiNext ==
    \/ Overlay
    \/ \E p \in Payloads : Import(p)
    \/ \E a \in Accounts : GetTransactionCount(a)
    \/ ReadLatest \/ ReadCached \/ ReadPending
    \/ \E t \in DOMAIN Sender : GetTransactionReceipt(t)
    \/ ReadCachedReceipt \/ ReadReceipt

ApiSpec == ApiInit /\ [][ApiNext]_apiVars
-----------------------------------------------------------------------------
(* Properties *)

\* When the cached block is on the head of the chain as get_transaction_count reads
\* the chain, and is not replaced by another one before the cache is read, the count
\* it returns lies between the count at its first read and the count at its return,
\* whatever is received or imported meanwhile: rpc.rs 135-145 reads the chain before
\* the cache, so that a block imported in between is not counted twice.
CountIsBetween ==
    [][ (call.op = "count" /\ call.steady /\ call'.at = "done")
            => call'.result \in call.low .. PendingCount(call.arg) ]_apiVars

\* A receipt that is in the cache or in the chain at every moment of the call is
\* found: rpc.rs 99-103 looks into the cache first, and a transaction that left it
\* by being imported is found in the chain.
ReceiptIsFound ==
    [][ (call.op = "receipt" /\ call.known /\ call'.at = "done") => call'.result = TRUE ]_apiVars
=============================================================================
