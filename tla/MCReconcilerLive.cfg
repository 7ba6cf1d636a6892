SPECIFICATION FairSpec
CONSTANTS
    low = low
    high = high
    Nodes = {n1}
    Pods = {low}
    Cores = {0, 1}
    CoreIDs = {0, 1}
    RTCapacity = 19
    UtilizationThreshold = 18
    NumCores <- MCNumCores
    Criticality <- MCCriticality
    RuntimeLow <- MCRuntimeLow
    RuntimeHi <- MCRuntimeHi
    Period <- MCPeriod
    CoreSpec <- OneCore
    Labelled = {low}
    UnitsPerCore = 20
    DefaultUnits = 2
    NoNode = NoNode
    Installed = {low}
    Scenarios <- LiveScenarios
CHECK_DEADLOCK FALSE
PROPERTIES
    DeletionCompletes
    EventuallyRegistered
    BudgetSettles
