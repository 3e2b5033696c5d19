\* An operator who keeps reconciling.
SPECIFICATION FairSpec
CONSTANTS
    Clients = {c1, c2}
    Requests = {r1}
    Local = {r1}
    Remote = {}
    MaxAttempts = 1
    Lease = 2
    MaxRun = 1
    MaxEvents = 8
PROPERTIES
    AttemptsSettle
CHECK_DEADLOCK FALSE
