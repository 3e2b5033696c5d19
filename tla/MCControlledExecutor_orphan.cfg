\* A run started late in its lease.
SPECIFICATION Spec
CONSTANTS
    Clients = {c1, c2}
    Requests = {r1}
    Local = {r1}
    Remote = {}
    MaxAttempts = 2
    Lease = 2
    MaxRun = 1
    MaxEvents = 9
INVARIANTS
    NoOrphanWhileWorking
SYMMETRY MCSymmetry
CHECK_DEADLOCK FALSE
