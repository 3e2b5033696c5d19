\* A direct handoff request that overlaps the creation of an execution.
SPECIFICATION Spec
CONSTANTS
    PackClients = {t1}
    Clients = {c1, c2}
    Packs = {p1}
    Handoffs = {h1}
    PackOf <- MCPackOf
    Criteria = {k1}
    CriteriaOf <- MCCriteriaOf
    RefKinds = {"commit_sha"}
    Refs = {r1}
    NoRef = NoRef
    Percents = {40}
    MaxEvents = 2
INVARIANTS
    HandoffFollowsExecution
CHECK_DEADLOCK FALSE
