CONSTANTS
    p1 = p1
    p2 = p2
    h1 = h1
    PayloadIds = {p1, p2}
    Hashes = {h1}
    ParentOf <- OneParent
    NoTxPool = {p2}
    FcuTasks = {f1}
    GetTasks = {g1}
    NewTasks = {n1}
    external_state_root = FALSE
    ignore_unhealthy_builders = FALSE
    block_selection_policy = TRUE
    GasUsed = {0, 1, 10, 11}
    CACHE_SIZE = 0
SPECIFICATION SteadySpec
ACTION_CONSTRAINT Steady
INVARIANTS
    L2AnswerSuffices
    TraceIsReachable
    TraceIsTruthful
