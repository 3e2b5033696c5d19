\* A reconciliation that overlaps the start of a run.
SPECIFICATION FairSpec
CONSTANTS
    Clients = {c1, c2}
    Requests = {r1}
    Local = {r1}
    Remote = {}
    MaxAttempts = 2
    Lease = 2
    MaxRun = 1
    MaxEvents = 7
PROPERTIES
    RunningRequestEnds
CHECK_DEADLOCK FALSE
