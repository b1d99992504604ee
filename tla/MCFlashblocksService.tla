------------------------ MODULE MCFlashblocksService ------------------------
EXTENDS FlashblocksService, TLC

CONSTANTS p1, p2

\* The builder gives every payload the id that was calculated locally ...
SameIds == [p \in PayloadIds |-> p]

\* ... or one of its own for p1.
OtherIds == [p \in PayloadIds |-> p2]

\* A consensus node that waits for each answer before its next call.
Busy ==
    \/ \E f \in FcuTasks : fcu[f].pc \notin {"idle", "done"}
    \/ \E g \in GetTasks : get[g].pc \in {"take", "fallback"}
Receive ==
    \/ \E f \in FcuTasks, p \in OptPayloadId : FcuReceive(f, p)
    \/ \E g \in GetTasks, p \in PayloadIds : GetReceive(g, p)
SerialSpec == Init /\ [][Next /\ (Receive => ~Busy)]_vars

Symmetry == Permutations(FcuTasks) \cup Permutations(GetTasks)
=============================================================================
