SPECIFICATION FairSpec
CONSTANTS
    Containers = {c1}
    First = c1
    Scenarios <- LostScenario
    MaxUid = 2
CHECK_DEADLOCK FALSE
PROPERTIES
    RecoveryReverts
