\* One request, isolated-local or remote, two calls at a time, up to two attempts.
SPECIFICATION Spec
CONSTANTS
    Clients = {c1, c2}
    Requests = {r1, r2}
    Local = {r1}
    Remote = {r2}
    MaxAttempts = 2
    Lease = 2
    MaxRun = 1
    MaxEvents = 10
INVARIANTS
    TypeOK
    AttemptsNumbered
    AttemptPerRun
    AtMostOneRunning
PROPERTIES
    RemoteResultIsOfItsRun
    StartsAreAuthorised
    TerminalAttemptNotReopened
CONSTRAINT MCOneRequest
SYMMETRY MCSymmetry
CHECK_DEADLOCK FALSE
