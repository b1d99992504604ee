------------------------- MODULE MCRollupBoostServer -------------------------
EXTENDS RollupBoostServer

CONSTANTS p1, p2, h1

OneParent == [p \in PayloadIds |-> h1]

\* The mode is Enabled throughout, every FCU has attributes, only getPayload
\* calls write the health probe, and they ask for payloads that the builder was
\* asked for too.
SteadyInit ==
    /\ Init
    /\ execution_mode = "Enabled"
    /\ \A g \in GetTasks : get[g].id \notin NoTxPool
SteadySpec == SteadyInit /\ [][Next]_vars
Steady ==
    /\ UNCHANGED execution_mode
    /\ health' # health => \E g \in GetTasks : GetTask(g)
    /\ \A f \in FcuTasks : fcu'[f].route # "sync"
    /\ \A g \in GetTasks : get'[g].id \notin NoTxPool

\* The health loop and the debug API write only when a task may be about to read
\* what they write: FcuRoute alone reads the probe, getPayload reads the mode when
\* it is received and when it selects.  A write at another moment acts like one
\* that is put off until then, since an FCU in Disabled mode changes nothing.
JustInTime ==
    /\ health' # health =>
        \/ \E g \in GetTasks : GetTask(g)
        \/ \E f \in FcuTasks : fcu[f].pc = "route"
    /\ execution_mode' # execution_mode =>
        \E g \in GetTasks : get[g].pc \in {"done", "select"}
=============================================================================
