SPECIFICATION Spec
CONSTANTS
    a = a
    b = b
    h = h
    Nodes = {n1}
    Pods = {a, b, h}
    Cores = {0, 1}
    CoreIDs = {0, 1}
    RTCapacity = 19
    UtilizationThreshold = 18
    NumCores <- MCNumCores
    Requests = {r1, r2}
    Criticality <- MCCriticality
    RuntimeLow <- MCRuntimeLow
    RuntimeHi <- MCRuntimeHi
    Period <- MCPeriod
    UnitsPerCore = 20
    DefaultUnits = 2
    NoNode = NoNode
    NoCore = NoCore
    Installed = {a, b}
    MaxMishaps = 2
SYMMETRY RequestSymmetry
CHECK_DEADLOCK FALSE
INVARIANTS
    TypeOK
    OverloadNeedsStaleCheck
