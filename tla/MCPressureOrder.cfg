SPECIFICATION Spec
CONSTANTS
    l1 = l1
    l2 = l2
    m = m
    Pods = {l1, m}
    Labelled = {l1, m}
    Resident = {l1}
    Criticality <- MCCriticality
    Requests <- MCRequests
    Background = {g1}
    Worker = worker
    NoTier = NoTier
    NoState = NoState
    Scenarios <- OrderScenarios
CHECK_DEADLOCK FALSE
INVARIANTS
    TypeOK
    TierOrder
