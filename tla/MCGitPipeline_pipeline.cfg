\* One change through all stages, with a run to spare, and one stray edit.
SPECIFICATION Spec
CONSTANTS
    Threads = {t1, t2}
    Bases = {b1, b2}
    None = None
    Other = Other
    Approvals = {a1}
    DigestOf <- MCDigestOf
    MaxRuns = 5
    MaxMeddled = 1
INVARIANTS
    TypeOK
    StagingAccounted
    CommitAccounted
    PublicationAccounted
    FailedCommitCanBeRetried
    RecordedCommitIsApproved
PROPERTIES
    KeepsReview
SYMMETRY MCSymmetry
CHECK_DEADLOCK FALSE
