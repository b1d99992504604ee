CONSTANTS
    p1 = p1
    p2 = p2
    PayloadIds = {p1, p2}
    NoPayloadId = none
    BuilderId <- SameIds
    FcuTasks = {f1, f2}
    GetTasks = {g1}
    MaxFlashblocks = 2
    StreamCapacity = 1
SPECIFICATION SerialSpec
INVARIANT ServedBlockIsOfRequestedPayload
CHECK_DEADLOCK FALSE
