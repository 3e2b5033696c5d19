\* Two synchronisations, one of them the script's, of a project that may have two
\* sources, and one request that applies or discards what they prepare.
SPECIFICATION Spec
CONSTANTS
    t1 = t1
    i1 = i1
    Requests = {q1}
    Titles = {t1}
    Keys = {}
    Proposals = {}
    Reviews = {}
    MaxTasks = 0
    MaxEdits = 0
    Syncs = {s1, s2}
    Scripts = {s1}
    Sources = {r1, r2}
    Items = {i1, i2}
    Offers <- MCOffers
    DigestTitles <- MCDigestTitles
    OnboardingTitles <- MCOnboardingTitles
    SnapshotTitle = t1
    Limit = 1
    MaxSyncs = 2
INVARIANTS
    TypeOK
    EventsReachReview
    OneDigestAtATime
SYMMETRY MCSymmetry
CHECK_DEADLOCK FALSE
