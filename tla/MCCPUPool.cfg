SPECIFICATION MCSpec
CONSTANTS
    Nodes = {n1}
    Pods = {p1, p2}
    Cores = {0, 1}
    CoreIDs = {0, 1, 16}
    Budgets = {1, 2}
    MaxUsage = 4
INVARIANTS
    PoolTypeOK
    UsageCovers
PROPERTIES
    DriftIsPermanent
