SPECIFICATION FairSpec
CONSTANTS
    Containers = {c1, c2}
    First = c1
    Scenarios <- SettleScenarios
    MaxUid = 2
CHECK_DEADLOCK FALSE
INVARIANTS
    TypeOK
    QuietAgrees
PROPERTIES
    KernelSettles
    EscalationReverted
