SPECIFICATION Spec
CONSTRAINT NotWiped
CONSTANTS
    Instances = {i1, i2}
    Requests = {r1, r2}
    i1 = i1
    i2 = i2
    r1 = r1
    r2 = r2
    Route <- Routes
    IPv4 = {a4}
    IPv6 = {}
    Apps = {x1}
    authentication = TRUE
    NoApp = NoApp
    instance_limit = 1
    per_ip_limit = 1
    per_app_limit <- OneConnection
    NoKey = NoKey
    Stalls = FALSE
    MaxErrors = 1
INVARIANT PermitsAreConserved
PROPERTIES EstablishedLimitHolds OneRoundCleansUp
CHECK_DEADLOCK FALSE
