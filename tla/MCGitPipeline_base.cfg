\* A change proposed on one base, a branch created on another.
SPECIFICATION Spec
CONSTANTS
    Threads = {t1}
    Bases = {b1, b2}
    None = None
    Other = Other
    Approvals = {a1}
    DigestOf <- MCDigestOf
    MaxRuns = 3
    MaxMeddled = 1
INVARIANTS
    CommitOnReviewedBase
SYMMETRY MCSymmetry
CHECK_DEADLOCK FALSE
