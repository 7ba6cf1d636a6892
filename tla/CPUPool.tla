------------------------------ MODULE CPUPool ------------------------------
(***************************************************************************)
(* The process-wide RT budget ledger of internal/cpupool/cpupool.go.       *)
(*                                                                         *)
(* One pool per node, one UsageMillis counter and one Pods map per core.   *)
(* The controller writes it and the webhooks read it.  UsageMillis is a    *)
(* cached sum: no operation recomputes it from Pods, each one adjusts it.  *)
(* Every action is one critical section under pool.Mu (or globalPoolsMu).  *)
(***************************************************************************)
EXTENDS Integers, FiniteSets

CONSTANTS
    Nodes,     \* node names
    Pods,      \* pod names (the ledger is keyed by name alone)
    Cores,     \* the core IDs a pool is created with: 0 .. DefaultNumCores-1
    CoreIDs    \* every core ID a CR can name, valid or not

ASSUME PoolAssumption == /\ IsFiniteSet(Pods)
                         /\ Cores \subseteq CoreIDs

VARIABLES
    pooled,    \* keys of globalPools: the nodes that have a pool
    usage,     \* usage[n][c]: Cores[c].UsageMillis
    corePods   \* corePods[n][c][p]: Cores[c].Pods[p], NoPod on a map miss

poolVars == <<pooled, usage, corePods>>

(***************************************************************************)
(* PodInfo.  The controller never registers a zero budget (a zero becomes  *)
(* 100 millicores), so the Go zero value NoPod stands for a map miss.      *)
(***************************************************************************)
Criticalities == {"LOW", "MIDDLE", "HIGH"}

PodInfo == [Criticality : Criticalities, CPUMillis : Nat \ {0}]

NoPod == [Criticality |-> "NONE", CPUMillis |-> 0]

CriticalityRank(c) ==
    CASE c = "HIGH" -> 2 [] c = "MIDDLE" -> 1 [] OTHER -> 0

EmptyCore == [p \in Pods |-> NoPod]

(***************************************************************************)
(* The budget the Pods map of a core really commits, counted in units: one *)
(* element <<p, k>> for the k-th millicore of pod p.                       *)
(***************************************************************************)
Units(f) == UNION {{p} \X (1 .. f[p].CPUMillis) : p \in Pods}

Committed(f) == Cardinality(Units(f))

(***************************************************************************)
(* Operations.  A caller holds a pool pointer, so its node has a pool.     *)
(***************************************************************************)
GetOrCreateCPUPool(n) ==
    /\ pooled' = pooled \cup {n}
    /\ IF n \in pooled
         THEN UNCHANGED <<usage, corePods>>
         ELSE /\ usage' = [usage EXCEPT ![n] = [c \in Cores |-> 0]]
              /\ corePods' = [corePods EXCEPT ![n] = [c \in Cores |-> EmptyCore]]

\* The entry is overwritten, the budget is always added on top.
AddPodToCore(n, c, p, info) ==
    /\ n \in pooled
    /\ IF c \in Cores
         THEN /\ corePods' = [corePods EXCEPT ![n][c][p] = info]
              /\ usage' = [usage EXCEPT ![n][c] = @ + info.CPUMillis]
         ELSE UNCHANGED <<usage, corePods>>
    /\ UNCHANGED pooled

\* Mutant: the budget is given back but the entry is not deleted.
RemoveKeepsEntry(n, c, p) ==
    /\ n \in pooled /\ c \in Cores
    /\ usage' = [usage EXCEPT ![n][c] = @ - corePods[n][c][p].CPUMillis]
    /\ UNCHANGED <<pooled, corePods>>

\* Mutant: the entry is deleted but its budget is not given back.
RemoveKeepsUsage(n, c, p) ==
    /\ n \in pooled /\ c \in Cores
    /\ corePods' = [corePods EXCEPT ![n][c][p] = NoPod]
    /\ UNCHANGED <<pooled, usage>>

RemovePodFromCore(n, c, p) ==
    /\ n \in pooled
    /\ IF c \in Cores
         THEN /\ corePods' = [corePods EXCEPT ![n][c][p] = NoPod]
              /\ usage' = [usage EXCEPT ![n][c] = @ - corePods[n][c][p].CPUMillis]
         ELSE UNCHANGED <<usage, corePods>>
    /\ UNCHANGED pooled

\* The entries of f for the pods of G, and of no other pod.
Only(f, G) == [p \in Pods |-> IF p \in G THEN f[p] ELSE NoPod]

\* Mutant: what the pods hold on one core is taken off every core.
DropPodsEverywhere(n, G) ==
    /\ n \in pooled
    /\ corePods' = [corePods EXCEPT ![n] =
           [c \in Cores |-> Only(corePods[n][c], Pods \ G)]]
    /\ \E d \in Cores : usage' = [usage EXCEPT ![n] =
           [c \in Cores |-> usage[n][c] - Committed(Only(corePods[n][d], G))]]
    /\ UNCHANGED pooled

\* Drop the pods of G from every core of node n, each giving its budget
\* back: one iteration, under the pool's lock, of a loop over globalPools.
DropPods(n, G) ==
    /\ n \in pooled
    /\ corePods' = [corePods EXCEPT ![n] =
           [c \in Cores |-> Only(corePods[n][c], Pods \ G)]]
    /\ usage' = [usage EXCEPT ![n] =
           [c \in Cores |-> usage[n][c] - Committed(Only(corePods[n][c], G))]]
    /\ UNCHANGED pooled

RemovePodFromPool(n, p) == DropPods(n, {p})

RemovePodsNotIn(n, existingPods) == DropPods(n, Pods \ existingPods)

\* The process dies: globalPools starts out empty in the next one.
ProcessRestart ==
    /\ pooled' = {}
    /\ usage' = [n \in Nodes |-> [c \in Cores |-> 0]]
    /\ corePods' = [n \in Nodes |-> [c \in Cores |-> EmptyCore]]

-----------------------------------------------------------------------------
(***************************************************************************)
(* Readers.                                                                *)
(***************************************************************************)
GetCoreUtilization(n, c) == IF c \in Cores THEN usage[n][c] ELSE 0

\* The names behind the PodInfo list that GetPodsOnCore returns.
GetPodsOnCore(n, c) ==
    IF c \in Cores THEN {p \in Pods : corePods[n][c][p] # NoPod} ELSE {}

-----------------------------------------------------------------------------
PoolInit ==
    /\ pooled = {}
    /\ usage = [n \in Nodes |-> [c \in Cores |-> 0]]
    /\ corePods = [n \in Nodes |-> [c \in Cores |-> EmptyCore]]

PoolNext ==
    \/ \E n \in Nodes : GetOrCreateCPUPool(n)
    \/ \E n \in Nodes, c \in CoreIDs, p \in Pods, info \in PodInfo :
          AddPodToCore(n, c, p, info)
    \/ \E n \in Nodes, c \in CoreIDs, p \in Pods : RemovePodFromCore(n, c, p)
    \/ \E n \in Nodes, p \in Pods : RemovePodFromPool(n, p)
    \/ \E n \in Nodes, G \in SUBSET Pods : RemovePodsNotIn(n, G)
    \/ ProcessRestart

PoolSpec == PoolInit /\ [][PoolNext]_poolVars

-----------------------------------------------------------------------------
(***************************************************************************)
(* Properties.                                                             *)
(***************************************************************************)

\* The ledger is well typed; in particular no removal drives UsageMillis
\* below zero.
PoolTypeOK ==
    /\ pooled \subseteq Nodes
    /\ usage \in [Nodes -> [Cores -> Nat]]
    /\ corePods \in [Nodes -> [Cores -> [Pods -> PodInfo \cup {NoPod}]]]

\* UsageMillis never falls below the budget of the pods registered on the
\* core, whatever the order of registrations, migrations and removals.
UsageCovers ==
    \A n \in Nodes, c \in Cores : usage[n][c] >= Committed(corePods[n][c])

Drift(n, c) == usage[n][c] - Committed(corePods[n][c])

\* What a step may do to one core: leave the drift alone, or add to it the
\* budget of an entry that a registration overwrites.
DriftStep(n, c) ==
    \/ Drift(n, c)' = Drift(n, c)
    \/ \E p \in Pods :
          /\ corePods[n][c][p] # NoPod
          /\ corePods'[n][c][p] # NoPod
          /\ Drift(n, c)' = Drift(n, c) + corePods[n][c][p].CPUMillis

\* Between restarts the excess of UsageMillis over the registered budgets
\* never shrinks, and it grows only by an AddPodToCore on an entry that is
\* already there, by exactly the budget that is overwritten: no later
\* removal of the pod ever gives that budget back.
DriftIsPermanent ==
    [][pooled' = {} \/ \A n \in Nodes, c \in Cores : DriftStep(n, c)]_poolVars
=============================================================================
