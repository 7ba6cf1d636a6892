--------------------------- MODULE PlacementSpec ---------------------------
(***************************************************************************)
(* The placement decisions over every ledger that pods which register on a *)
(* core and leave it can produce.  Properties quantify over every request  *)
(* and every result it can get.                                            *)
(***************************************************************************)
EXTENDS Placement

CONSTANTS
    Budgets,     \* budgets of the registered pods and of the requests
    Preferences  \* the sets of cores a request can ask for, {} for any core

ASSUME RequestAssumption ==
    Budgets \subseteq Nat \ {0} /\ Preferences \subseteq SUBSET CoreIDs

Infos == [Criticality : Criticalities, CPUMillis : Budgets]

Register(n, c, p, info) ==
    /\ n \in pooled
    /\ \A m \in Nodes, d \in Cores : corePods[m][d][p] = NoPod
    /\ AddPodToCore(n, c, p, info)

Next ==
    \/ \E n \in Nodes : n \notin pooled /\ GetOrCreateCPUPool(n)
    \/ \E n \in Nodes, c \in Cores, p \in Pods, info \in Infos :
          Register(n, c, p, info)
    \/ \E n \in Nodes, p \in Pods : RemovePodFromPool(n, p)

Spec == PoolInit /\ [][Next]_poolVars

Request == Infos \X Preferences

Results(req) == SelectBestNodeAndCore(Nodes, req[1].CPUMillis,
                                      req[1].Criticality, req[2])

-----------------------------------------------------------------------------
\* Every admission of SelectBestNodeAndCore is sound: with its victims gone
\* the core holds the newcomer within the RT capacity, the victims are all
\* of lower criticality, and nobody is evicted while another candidate core
\* has room to spare.
AdmissionSound ==
    \A req \in Request : \A r \in Results(req) :
        r.feasible =>
            LET f == CorePods(r.node, r.core) IN
            /\ GetCoreUtilization(r.node, r.core) - Budget(f, r.victims)
                 + req[1].CPUMillis <= RTCapacity
            /\ \A v \in r.victims : CriticalityRank(f[v].Criticality)
                                      < CriticalityRank(req[1].Criticality)
            /\ r.victims # {} =>
                 \A n \in Nodes : \A c \in CandidateCores(n, req[2]) :
                     Free(n, c) <= req[1].CPUMillis

\* What the mutating webhook picks, the validating webhook accepts as long
\* as the ledger has not changed in between (away from exact equality,
\* where both evaluate the same rounded comparison).
ValidatorAgrees ==
    \A req \in Request : \A r \in Results(req) :
        /\ r.feasible
        /\ Free(r.node, r.core) # req[1].CPUMillis
        /\ Lookahead(r.node, r.core, req[1].Criticality) # req[1].CPUMillis
        => \A v \in CheckNodeCoreFeasibility(r.node, r.core, req[1].CPUMillis,
                                             req[1].Criticality) : v.feasible

\* When the pods the controller may preempt hold enough budget, the victims
\* it selects bring the core back within the threshold with the newcomer
\* on it.
PreemptionMakesRoom ==
    \A n \in Nodes, c \in Cores, crit \in Criticalities, b \in Budgets :
        LET needed == NeededBudget(n, c, b)
            C == Evictable(n, c, crit)
        IN  needed > 0 /\ Budget(corePods[n][c], C) >= needed =>
              \A V \in PreemptionVictims(n, c, b, crit) :
                  usage[n][c] - Budget(corePods[n][c], V) + b
                      <= UtilizationThreshold
=============================================================================
