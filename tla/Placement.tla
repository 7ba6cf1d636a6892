----------------------------- MODULE Placement -----------------------------
(***************************************************************************)
(* The decisions taken from the ledger: which (node, core) an incoming RT  *)
(* pod gets (the webhooks, internal/cpupool), which pods give way to it    *)
(* and where they migrate (the controller's preemption).                   *)
(*                                                                         *)
(* Budgets are counted in whole units of a core.  The code compares        *)
(* float64 fractions, whose rounding decides a comparison only when the    *)
(* two sides are equal in exact arithmetic; there either answer is         *)
(* possible.  Go's map iteration and its unstable sort make every tie a    *)
(* free choice.  A decision is therefore the SET of results the code can   *)
(* return.                                                                 *)
(***************************************************************************)
EXTENDS CPUPool

CONSTANTS
    RTCapacity,           \* RTCapacityPerCore, 95 % of a core
    UtilizationThreshold, \* coreUtilizationThreshold, 90 % of a core
    NumCores              \* NumCores[n]: Capacity[cpu] of the node, 0 if unset

ASSUME PlacementAssumption ==
    /\ UtilizationThreshold \in Nat /\ RTCapacity \in Nat
    /\ UtilizationThreshold <= RTCapacity
    /\ NumCores \in [Nodes -> Nat]

-----------------------------------------------------------------------------
(***************************************************************************)
(* Victims.  f is the Pods map of one core, C a set of pods on it.         *)
(***************************************************************************)
CorePods(n, c) == IF c \in Cores THEN corePods[n][c] ELSE EmptyCore

\* Mutant: pods of the same criticality are evictable too.
EvictableUpToEqual(n, c, criticality) ==
    {p \in GetPodsOnCore(n, c) :
        CriticalityRank(corePods[n][c][p].Criticality)
            <= CriticalityRank(criticality)}

Evictable(n, c, criticality) ==
    {p \in GetPodsOnCore(n, c) :
        CriticalityRank(corePods[n][c][p].Criticality)
            < CriticalityRank(criticality)}

Budget(f, C) == Committed(Only(f, C))

\* p sorts before q: lower criticality first, then the larger budget.
SortsBefore(f, p, q) ==
    LET rp == CriticalityRank(f[p].Criticality)
        rq == CriticalityRank(f[q].Criticality)
    IN  rp < rq \/ (rp = rq /\ f[p].CPUMillis > f[q].CPUMillis)

\* V is a prefix of some sorted order of C.
TakenInOrder(f, C, V) ==
    /\ V \subseteq C
    /\ \A p \in V, q \in C \ V : ~ SortsBefore(f, q, p)

\* Mutant: the candidates are not sorted.
SelectUnsorted(f, C, needed) ==
    {V \in SUBSET C :
        /\ Budget(f, V) >= needed \/ V = C
        /\ V # {} => \E last \in V : Budget(f, V \ {last}) <= needed
        /\ V = {} => C = {}}

\* The loop takes pods in sorted order and stops after the one that reaches
\* needed, or when the candidates run out.
SelectMinimumVictims(f, C, needed) ==
    {V \in SUBSET C :
        /\ TakenInOrder(f, C, V)
        /\ Budget(f, V) >= needed \/ V = C
        /\ V # {} => \E last \in V : /\ TakenInOrder(f, C, V \ {last})
                                     /\ Budget(f, V \ {last}) <= needed
        /\ V = {} => C = {}}

-----------------------------------------------------------------------------
(***************************************************************************)
(* Admission: Worst Fit over the candidate cores, else eviction lookahead. *)
(***************************************************************************)
nodeCoreIDs(n) ==
    IF NumCores[n] > 0 THEN {c \in CoreIDs : 0 <= c /\ c < NumCores[n]}
                       ELSE Cores

filterValidCores(preferred, n) == preferred \cap nodeCoreIDs(n)

CandidateCores(n, preferred) ==
    IF preferred # {} THEN filterValidCores(preferred, n)
    ELSE IF n \in pooled THEN Cores
    ELSE nodeCoreIDs(n)

Free(n, c) == RTCapacity - GetCoreUtilization(n, c)

Lookahead(n, c, criticality) ==
    Free(n, c) + Budget(CorePods(n, c), Evictable(n, c, criticality))

\* The victim sets one core can be admitted with; none if it is rejected.
EvictionOutcomes(n, c, required, criticality) ==
    LET C == Evictable(n, c, criticality) IN
    IF /\ Free(n, c) <= required
       /\ Lookahead(n, c, criticality) >= required
       /\ C # {}
    THEN SelectMinimumVictims(CorePods(n, c), C, required - Free(n, c))
    ELSE {}

Infeasible == [feasible |-> FALSE]

Placed(n, c, V) == [feasible |-> TRUE, node |-> n, core |-> c, victims |-> V]

\* V victims and free budget f are at least as good as W and g.
NotWorse(V, f, W, g) ==
    Cardinality(V) < Cardinality(W) \/ (Cardinality(V) = Cardinality(W) /\ f >= g)

CandidatePlaces(nodeList, preferredCores) ==
    UNION {{n} \X CandidateCores(n, preferredCores) : n \in nodeList}

FreeAt(k) == Free(k[1], k[2])

\* The places K with room to spare.
Roomy(K, required) == {k \in K : FreeAt(k) > required}

\* Worst Fit: the place with the most room.
PlaceDirectly(K, required) ==
    {Placed(k[1], k[2], {}) : k \in
        {k \in K : /\ FreeAt(k) >= required
                   /\ \A j \in Roomy(K, required) : FreeAt(j) <= FreeAt(k)}}

\* The place with the fewest victims, then with the most room, if there is
\* none to place the pod directly.
PlaceByEviction(K, required, criticality) ==
    LET evict(k) == EvictionOutcomes(k[1], k[2], required, criticality)
        certain == {k \in K : /\ FreeAt(k) < required
                              /\ Lookahead(k[1], k[2], criticality) > required}
    IN  UNION {{Placed(k[1], k[2], V) : V \in
                  {V \in evict(k) : \A j \in certain : \E W \in evict(j) :
                                        NotWorse(V, FreeAt(k), W, FreeAt(j))}}
               : k \in {k \in K : Roomy(K, required) = {} /\ evict(k) # {}}}

SelectBestNodeAndCore(nodeList, required, criticality, preferredCores) ==
    LET K == CandidatePlaces(nodeList, preferredCores) IN
    PlaceDirectly(K, required) \cup PlaceByEviction(K, required, criticality)
    \cup {r \in {Infeasible} :
             \A k \in K : Lookahead(k[1], k[2], criticality) <= required}

\* Mutant: the check forgets that lower-criticality pods can be evicted.
CheckWithoutEviction(n, c, required, criticality) ==
    IF Free(n, c) >= required THEN {Placed(n, c, {})} ELSE {Infeasible}

CheckNodeCoreFeasibility(n, c, required, criticality) ==
    IF n \notin pooled THEN {Placed(n, c, {})}
    ELSE {r \in {Placed(n, c, {})} : Free(n, c) >= required}
         \cup {Placed(n, c, V) : V \in EvictionOutcomes(n, c, required, criticality)}
         \cup {r \in {Infeasible} :
                 Lookahead(n, c, criticality) <= required}

-----------------------------------------------------------------------------
(***************************************************************************)
(* The controller's preemption.                                            *)
(***************************************************************************)

\* Positive iff the core exceeds the threshold once millis more are on it.
NeededBudget(n, c, millis) ==
    GetCoreUtilization(n, c) + millis - UtilizationThreshold

\* Mutant: room is made up to the RT capacity, not to the threshold.
VictimsUpToCapacity(n, c, millis, criticality) ==
    SelectMinimumVictims(CorePods(n, c), Evictable(n, c, criticality),
                         GetCoreUtilization(n, c) + millis - RTCapacity)

PreemptionVictims(n, c, millis, criticality) ==
    SelectMinimumVictims(CorePods(n, c), Evictable(n, c, criticality),
                         NeededBudget(n, c, millis))

\* Mutant: the victim's own budget is left out of the comparison.
TargetsIgnoringVictim(n, currentCore, millis) ==
    LET fits == {c \in Cores \ {currentCore} : usage[n][c] <= UtilizationThreshold}
    IN  {c \in fits : \A d \in fits : usage[n][c] <= usage[n][d]}

\* The least used of the other cores that stay within the threshold.
MigrationTargets(n, currentCore, millis) ==
    LET fits == {c \in Cores \ {currentCore} :
                    usage[n][c] + millis <= UtilizationThreshold}
    IN  {c \in fits : \A d \in fits : usage[n][c] <= usage[n][d]}

\* There may be none: no other core has room, or only exactly as much as is
\* needed, where rounding decides.
NoMigrationTarget(n, currentCore, millis) ==
    \A c \in MigrationTargets(n, currentCore, millis) :
        usage[n][c] + millis = UtilizationThreshold
=============================================================================
