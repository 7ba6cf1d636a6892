------------------------- MODULE PlacementLemmas --------------------------
(***************************************************************************)
(* What the placement decisions compare and return, for every ledger that  *)
(* the operations of CPUPool can produce: re-registrations that drift,     *)
(* migrations, pods on several cores and restarts included.                *)
(***************************************************************************)
EXTENDS Placement, CPUPoolProofs

-----------------------------------------------------------------------------
(***************************************************************************)
(* The numbers that the decisions compare.                                 *)
(***************************************************************************)
LEMMA LedgerTypes ==
    ASSUME PoolInv
    PROVE  /\ LooseType
           /\ \A n \in Nodes : \A c : GetCoreUtilization(n, c) \in Nat
           /\ \A n \in Nodes : \A c : CorePods(n, c) \in CoreMap
<1>1. LooseType
  BY DEF PoolInv, PoolTypeOK, LooseType, CoreMap
<1>2. EmptyCore \in CoreMap
  BY DEF EmptyCore, CoreMap
<1> QED
  BY <1>1, <1>2 DEF PoolInv, PoolTypeOK, LooseType, GetCoreUtilization, CorePods

\* Nobody holds nothing, and a set of pods never holds a negative budget.
LEMMA BudgetFacts ==
    ASSUME NEW f \in CoreMap
    PROVE  /\ Budget(f, {}) = 0
           /\ \A C : Budget(f, C) \in Nat
<1>1. Only(f, {}) = EmptyCore
  BY DEF Only, EmptyCore
<1>2. Budget(f, {}) = 0
  BY <1>1, CommittedEmpty DEF Budget
<1>3. \A C : Budget(f, C) \in Nat
  BY OnlyType, UnitsFinite DEF Budget
<1> QED
  BY <1>2, <1>3

\* More pods hold more budget, and all of them what is committed.
LEMMA BudgetGrows ==
    ASSUME NEW f \in CoreMap, NEW C, NEW D, \A p \in Pods : p \in C => p \in D
    PROVE  Budget(f, C) <= Budget(f, D)
<1> DEFINE g == Only(f, D)
<1>1. g \in CoreMap
  BY OnlyType
<1>2. Only(g, C) = Only(f, C)
  BY DEF Only
<1> HIDE DEF g
<1>3. Committed(g) = Committed(Only(g, C)) + Committed(Only(g, Pods \ C))
  BY <1>1, CommittedSplit
<1>4. Committed(Only(g, C)) \in Nat /\ Committed(Only(g, Pods \ C)) \in Nat
  BY <1>1, OnlyType, UnitsFinite
<1>5. Committed(Only(f, C)) <= Committed(g)
  BY <1>2, <1>3, <1>4
<1> QED
  BY <1>5 DEF Budget, g

LEMMA BudgetOfAll ==
    ASSUME NEW f \in CoreMap
    PROVE  /\ Budget(f, Pods) = Committed(f)
           /\ \A C : Committed(f) = Budget(f, C) + Budget(f, Pods \ C)
           /\ \A C : Budget(f, C) \in Nat /\ Budget(f, C) <= Committed(f)
<1>1. Only(f, Pods) = f
  BY DEF Only, CoreMap
<1>2. Budget(f, Pods) = Committed(f)
  BY <1>1 DEF Budget
<1>3. \A C : Committed(f) = Budget(f, C) + Budget(f, Pods \ C)
  BY CommittedSplit DEF Budget
<1>4. \A C : Budget(f, C) \in Nat
  BY BudgetFacts
<1>5. ASSUME NEW C PROVE Budget(f, C) <= Committed(f)
  <2>1. Budget(f, C) \in Nat /\ Budget(f, Pods \ C) \in Nat
    BY <1>4
  <2>2. Committed(f) = Budget(f, C) + Budget(f, Pods \ C)
    BY <1>3
  <2> QED
    BY <2>1, <2>2
<1> QED
  BY <1>2, <1>3, <1>4, <1>5

LEMMA FreeFacts ==
    ASSUME PoolInv, NEW n \in Nodes, NEW c, NEW crit
    PROVE  /\ Free(n, c) \in Int
           /\ Lookahead(n, c, crit) \in Int
           /\ Lookahead(n, c, crit) >= Free(n, c)
<1> DEFINE b == Budget(CorePods(n, c), Evictable(n, c, crit))
<1>1. GetCoreUtilization(n, c) \in Nat /\ b \in Nat
  BY LedgerTypes, BudgetFacts
<1> HIDE DEF b
<1>2. Free(n, c) \in Int
  BY <1>1, PlacementAssumption DEF Free
<1>3. Lookahead(n, c, crit) = Free(n, c) + b
  BY DEF Lookahead, b
<1> QED
  BY <1>1, <1>2, <1>3

\* The pods a request may evict are on the core and of lower criticality.
LEMMA EvictableFacts ==
    ASSUME NEW n, NEW c, NEW crit, NEW v \in Evictable(n, c, crit)
    PROVE  /\ c \in Cores /\ v \in Pods
           /\ CriticalityRank(CorePods(n, c)[v].Criticality) < CriticalityRank(crit)
<1>1. v \in GetPodsOnCore(n, c)
  BY DEF Evictable
<1>2. c \in Cores /\ v \in Pods
  BY <1>1 DEF GetPodsOnCore
<1> QED
  BY <1>2 DEF Evictable, CorePods

\* Selected victims are candidates, and cover the need if anything can.
LEMMA VictimsCover ==
    ASSUME NEW f, NEW C, NEW needed, NEW V \in SelectMinimumVictims(f, C, needed),
           Budget(f, C) >= needed
    PROVE  V \subseteq C /\ Budget(f, V) >= needed
BY DEF SelectMinimumVictims

\* The victims of an admission make room for it.
LEMMA EvictionMakesRoom ==
    ASSUME PoolInv, NEW n \in Nodes, NEW c, NEW required \in Nat, NEW crit,
           NEW V \in EvictionOutcomes(n, c, required, crit)
    PROVE  /\ V \subseteq Evictable(n, c, crit)
           /\ Lookahead(n, c, crit) >= required
           /\ GetCoreUtilization(n, c) - Budget(CorePods(n, c), V) + required <= RTCapacity
<1> DEFINE f == CorePods(n, c)
           C == Evictable(n, c, crit)
           needed == required - Free(n, c)
<1>1. /\ Lookahead(n, c, crit) >= required
      /\ V \in SelectMinimumVictims(f, C, needed)
  BY DEF EvictionOutcomes
<1>2. /\ Free(n, c) \in Int /\ GetCoreUtilization(n, c) \in Nat
      /\ Budget(f, C) \in Nat /\ Budget(f, V) \in Nat
  BY FreeFacts, LedgerTypes, BudgetFacts
<1>3. Budget(f, C) >= needed
  BY <1>1, <1>2 DEF Lookahead
<1>4. V \subseteq C /\ Budget(f, V) >= needed
  BY <1>1, <1>3, VictimsCover
<1> HIDE DEF f, C
<1>5. GetCoreUtilization(n, c) - Budget(f, V) + required <= RTCapacity
  BY <1>2, <1>4, PlacementAssumption DEF Free
<1> QED
  BY <1>1, <1>4, <1>5 DEF f, C

-----------------------------------------------------------------------------
(***************************************************************************)
(* The search over the cluster returns one of three things.                *)
(***************************************************************************)
DirectResult(r, n, c, required) == r = Placed(n, c, {}) /\ Free(n, c) >= required

EvictResult(r, nodeList, n, c, required, criticality, preferred) ==
    /\ \E V \in EvictionOutcomes(n, c, required, criticality) : r = Placed(n, c, V)
    /\ \A m \in nodeList : \A d \in CandidateCores(m, preferred) :
           ~ (Free(m, d) > required)

LEMMA SearchCases ==
    ASSUME NEW nodeList, NEW required, NEW criticality, NEW preferred,
           NEW r \in SelectBestNodeAndCore(nodeList, required, criticality, preferred)
    PROVE  \/ r = Infeasible
           \/ \E n \in nodeList : \E c \in CandidateCores(n, preferred) :
                 DirectResult(r, n, c, required)
           \/ \E n \in nodeList : \E c \in CandidateCores(n, preferred) :
                 EvictResult(r, nodeList, n, c, required, criticality, preferred)
<1> DEFINE K == CandidatePlaces(nodeList, preferred)
<1>1. r \in PlaceDirectly(K, required) \/ r \in PlaceByEviction(K, required, criticality)
        \/ r = Infeasible
  <2> HIDE DEF K
  <2> QED
    BY DEF SelectBestNodeAndCore, K
<1>2. \A k \in K : k[1] \in nodeList /\ k[2] \in CandidateCores(k[1], preferred)
  BY DEF CandidatePlaces
<1>3. ASSUME Roomy(K, required) = {}
      PROVE  \A m \in nodeList : \A d \in CandidateCores(m, preferred) :
                 ~ (Free(m, d) > required)
  <2> TAKE m \in nodeList
  <2> TAKE d \in CandidateCores(m, preferred)
  <2>1. <<m, d>> \in K /\ <<m, d>>[1] = m /\ <<m, d>>[2] = d
    BY DEF CandidatePlaces
  <2> HIDE DEF K
  <2> QED
    BY <1>3, <2>1 DEF Roomy, FreeAt
<1> HIDE DEF K
<1>4. CASE r \in PlaceDirectly(K, required)
  BY <1>2, <1>4 DEF PlaceDirectly, FreeAt, DirectResult
<1>5. CASE r \in PlaceByEviction(K, required, criticality)
  <2>1. PICK k \in K : /\ Roomy(K, required) = {}
                       /\ \E V \in EvictionOutcomes(k[1], k[2], required, criticality) :
                              r = Placed(k[1], k[2], V)
    BY <1>5 DEF PlaceByEviction
  <2> QED
    BY <1>2, <1>3, <2>1 DEF EvictResult
<1> QED
  BY <1>1, <1>4, <1>5
=============================================================================
