SPECIFICATION Spec
CONSTANTS
    Nodes = {n1, n2}
    Pods = {p1, p2, p3}
    Cores = {0, 1}
    CoreIDs = {0, 1, 16}
    RTCapacity = 19
    UtilizationThreshold = 18
    NumCores <- MixedCores
    Budgets = {3, 8, 15}
    Preferences = {{}, {0}, {0, 1, 16}}
SYMMETRY PodSymmetry
CHECK_DEADLOCK FALSE
INVARIANTS
    GreedyMatchesLoop
    AdmissionSound
    ValidatorAgrees
    PreemptionMakesRoom
