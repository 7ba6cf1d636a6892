SPECIFICATION Spec
CONSTANTS
    low = low
    high = high
    Nodes = {n1}
    Pods = {low, high}
    Cores = {0, 1}
    CoreIDs = {0, 1}
    RTCapacity = 19
    UtilizationThreshold = 18
    NumCores <- MCNumCores
    Criticality <- MCCriticality
    RuntimeLow <- MCRuntimeLow
    RuntimeHi <- MCRuntimeHi
    Period <- MCPeriod
    CoreSpec <- TwoCores
    Labelled = {low, high}
    UnitsPerCore = 20
    DefaultUnits = 2
    NoNode = NoNode
    Installed = {low, high}
    Scenarios <- PreemptScenarios
CHECK_DEADLOCK FALSE
INVARIANTS
    TypeOK
    RoomMade
PROPERTIES
    ImplementsOwnership
    MigrationWithinThreshold
