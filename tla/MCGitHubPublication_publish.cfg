\* Two threads, three runs of a publication and of two pull requests for it.
SPECIFICATION Spec
CONSTANTS
    Threads = {t1, t2}
    Publishes = {p1}
    Pulls = {q1, q2}
    MaxRuns = 3
INVARIANTS
    TypeOK
    StagingAccounted
    EffectsAccounted
PROPERTIES
    KeepsPromise
SYMMETRY MCSymmetry
CHECK_DEADLOCK FALSE
