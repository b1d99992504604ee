CONSTANTS
    a1 = a1
    a2 = a2
    x1 = x1
    x2 = x2
    x3 = x3
    k1 = k1
    k2 = k2
    k3 = k3
    Empty = empty
    Arguments <- SomeArguments
    Clients = {c1, c2, c3}
    Addrs = {a1, a2}
    Garbage = garbage
    Headers <- OneHeader
    Apps <- Applications
    NoApp = none
    authentication = TRUE
    instance_limit = 2
    per_ip_limit = 2
    per_app_limit <- Limits
    message_buffer_size = 1
    MaxMessages = 3
SPECIFICATION FairSpec
INVARIANTS
    PermitsAreConserved
    LimitsHold
    NoClientSeesAGap
    KeysAreUnambiguous
 
