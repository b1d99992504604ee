-------------------------- MODULE MCFlashblocksApi --------------------------
(* Two payloads for block 1 that begin with the same deposit, and one for block 2. *)
EXTENDS FlashblocksApi

CONSTANTS p1, p2, p3, d1, d2, t2, t3, sys, alice

MCTxs == p1 :> <<<<d1>>>> @@ p2 :> <<<<d1>>, <<t2>>>> @@ p3 :> <<<<d2>>, <<t3>>>>
MCSender == [t \in {d1, d2, t2, t3} |-> IF t \in {d1, d2} THEN sys ELSE alice]
MCHeight == [p \in Payloads |-> IF p = p3 THEN 2 ELSE 1]
=============================================================================
