SPECIFICATION Spec
CONSTANTS
    a = a
    b = b
    h = h
    Nodes = {n1, n2}
    Pods = {a, h}
    Cores = {0}
    CoreIDs = {0}
    RTCapacity = 19
    UtilizationThreshold = 18
    NumCores <- MCNumCores
    Requests = {r1, r2}
    Criticality <- MCCriticality
    RuntimeLow <- MCRuntimeLow
    RuntimeHi <- MCRuntimeHi
    Period <- MCPeriod
    UnitsPerCore = 20
    DefaultUnits = 2
    NoNode = NoNode
    NoCore = NoCore
    Installed = {a, h}
    MaxMishaps = 0
CHECK_DEADLOCK FALSE
INVARIANTS
    DecisionIsTruth
