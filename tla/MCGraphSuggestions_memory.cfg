\* Six requests, two at a time, on a project with two documents; names may be known.
SPECIFICATION Spec
CONSTANTS
    t1 = t1
    e1 = e1
    d1 = d1
    d2 = d2
    Requests = {q1, q2}
    Titles = {t1}
    Keys = {k1}
    Proposals <- MCProposals
    Reviews = {v1}
    MaxTasks = 1
    MaxEdits = 1
    Home = p1
    Elsewhere = {p2}
    Names = {e1}
    Documents = {d1, d2}
    Platforms = {e1}
    NamedBy <- MCNamedBy
    OriginOf <- MCOriginOf
    MentionedIn <- MCMentionedIn
    MaxCalls = 6
    MaxSuggestions = 2
INVARIANTS
    TypeOK
    ReviewsStand
    GraphIsReviewed
    ScopeIsConnection
PROPERTIES
    DeltaSettledOnce
    OwnersActionKept
SYMMETRY MCSymmetry
CHECK_DEADLOCK FALSE
