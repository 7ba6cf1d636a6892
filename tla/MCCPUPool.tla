----------------------------- MODULE MCCPUPool -----------------------------
(***************************************************************************)
(* CPUPool on a small instance: budgets from a finite set, and no core is  *)
(* charged beyond MaxUsage (a core that is re-registered on and on drifts  *)
(* without bound in the code).                                             *)
(***************************************************************************)
EXTENDS CPUPool

CONSTANTS Budgets,   \* the budgets pods register with
          MaxUsage   \* bound on UsageMillis

MCInfo == [Criticality : Criticalities, CPUMillis : Budgets]

MCAdd(n, c, p, info) ==
    /\ GetCoreUtilization(n, c) + info.CPUMillis <= MaxUsage
    /\ AddPodToCore(n, c, p, info)

MCNext ==
    \/ \E n \in Nodes : GetOrCreateCPUPool(n)
    \/ \E n \in Nodes, c \in CoreIDs, p \in Pods, info \in MCInfo :
          MCAdd(n, c, p, info)
    \/ \E n \in Nodes, c \in CoreIDs, p \in Pods : RemovePodFromCore(n, c, p)
    \/ \E n \in Nodes, p \in Pods : RemovePodFromPool(n, p)
    \/ \E n \in Nodes, G \in SUBSET Pods : RemovePodsNotIn(n, G)
    \/ ProcessRestart

MCSpec == PoolInit /\ [][MCNext]_poolVars
=============================================================================
