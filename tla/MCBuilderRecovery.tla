-------------------------- MODULE MCBuilderRecovery --------------------------
EXTENDS BuilderRecovery

CONSTANTS p1, p2, h1

OneParent == [p \in PayloadIds |-> h1]
=============================================================================
