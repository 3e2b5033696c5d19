\* Two calls of execute on one remote request.
SPECIFICATION Spec
CONSTANTS
    Clients = {c1, c2}
    Requests = {r1}
    Local = {}
    Remote = {r1}
    MaxAttempts = 2
    Lease = 2
    MaxRun = 1
    MaxEvents = 7
PROPERTIES
    TerminalRequestNotReplayed
SYMMETRY MCSymmetry
CHECK_DEADLOCK FALSE
