SPECIFICATION FairSpec
CONSTANTS
    l1 = l1
    l2 = l2
    m = m
    Pods = {l1}
    Labelled = {l1}
    Resident = {l1}
    Criticality <- MCCriticality
    Requests <- MinRequests
    Background = {g1}
    Worker = worker
    NoTier = NoTier
    NoState = NoState
    Scenarios <- LiveScenario
CHECK_DEADLOCK FALSE
PROPERTIES
    ProcessingEnds
    EvictionTried
