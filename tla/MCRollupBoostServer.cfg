CONSTANTS
    p1 = p1
    p2 = p2
    h1 = h1
    PayloadIds = {p1}
    Hashes = {h1}
    ParentOf <- OneParent
    NoTxPool = {}
    FcuTasks = {f1}
    GetTasks = {g1}
    NewTasks = {}
    external_state_root = TRUE
    ignore_unhealthy_builders = TRUE
    block_selection_policy = FALSE
    GasUsed = {0, 1, 10, 11}
    CACHE_SIZE = 1
SPECIFICATION FairSpec
ACTION_CONSTRAINT JustInTime
INVARIANTS
    BuilderBlockIsChecked
    
    RootRequestIsStored
 
