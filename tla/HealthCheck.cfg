CONSTANTS
    Second = 2
    health_check_interval = 1
    max_unsafe_interval = 1
    MaxTime = 10
SPECIFICATION Spec
INVARIANTS
PROPERTIES
    StaleIsStale
    PartialNeedsEnabled
CHECK_DEADLOCK FALSE
