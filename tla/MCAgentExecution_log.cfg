\* Two overlapping pack handlers and two others, up to four events of one execution.
SPECIFICATION Spec
CONSTANTS
    PackClients = {t1, t2}
    Clients = {c1, c2}
    Packs = {p1}
    Handoffs = {h1}
    PackOf <- MCPackOf
    Criteria = {k1}
    CriteriaOf <- MCCriteriaOf
    RefKinds = {"branch_ref", "commit_sha"}
    Refs = {r1}
    NoRef = NoRef
    Percents = {40}
    MaxEvents = 4
INVARIANTS
    TypeOK
    CompletedHasPassed
    EventLogGapless
    EndedOnce
    RefsAreTheRecordedOnes
    ChainOfAuthorisation
PROPERTIES
    ImplementsLedger
    TerminalExecutionIsFinal
    EndedHandoffStays
SYMMETRY MCSymmetry
CHECK_DEADLOCK FALSE
