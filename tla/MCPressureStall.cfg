SPECIFICATION FairSpec
CONSTANTS
    l1 = l1
    l2 = l2
    m = m
    Pods = {l1, l2}
    Labelled = {l1, l2}
    Resident = {l1, l2}
    Criticality <- MCCriticality
    Requests <- BigRequests
    Background = {g1}
    Worker = worker
    NoTier = NoTier
    NoState = NoState
    Scenarios <- StallScenario
CHECK_DEADLOCK FALSE
PROPERTIES
    LowestTierRelieved
