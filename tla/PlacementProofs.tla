-------------------------- MODULE PlacementProofs --------------------------
(***************************************************************************)
(* Proofs about the placement decisions, for every ledger that the         *)
(* operations of CPUPool can produce.                                      *)
(***************************************************************************)
EXTENDS PlacementSpec, PlacementLemmas

-----------------------------------------------------------------------------
LEMMA RequestType ==
    ASSUME NEW req \in Request
    PROVE  req[1].CPUMillis \in Nat /\ req[1].Criticality \in Criticalities
BY RequestAssumption DEF Request, Infos

LEMMA SoundInLedger == PoolInv => AdmissionSound
<1> SUFFICES ASSUME PoolInv, NEW req \in Request, NEW r \in Results(req), r.feasible
             PROVE  LET f == CorePods(r.node, r.core) IN
                    /\ GetCoreUtilization(r.node, r.core) - Budget(f, r.victims)
                         + req[1].CPUMillis <= RTCapacity
                    /\ \A v \in r.victims : CriticalityRank(f[v].Criticality)
                                              < CriticalityRank(req[1].Criticality)
                    /\ r.victims # {} =>
                         \A n \in Nodes : \A c \in CandidateCores(n, req[2]) :
                             Free(n, c) <= req[1].CPUMillis
  BY DEF AdmissionSound
<1> DEFINE b == req[1].CPUMillis
           crit == req[1].Criticality
<1>1. b \in Nat
  BY RequestType
<1>2. CASE r = Infeasible
  BY <1>2 DEF Infeasible
<1>3. ASSUME NEW n \in Nodes, NEW c, DirectResult(r, n, c, b)
      PROVE  /\ r.node = n /\ r.core = c /\ r.victims = {}
             /\ GetCoreUtilization(n, c) - Budget(CorePods(n, c), {}) + b <= RTCapacity
  <2>1. r.node = n /\ r.core = c /\ r.victims = {} /\ Free(n, c) >= b
    BY <1>3 DEF DirectResult, Placed
  <2>2. Budget(CorePods(n, c), {}) = 0 /\ GetCoreUtilization(n, c) \in Nat
    BY LedgerTypes, BudgetFacts
  <2>3. GetCoreUtilization(n, c) - 0 + b <= RTCapacity
    BY <1>1, <2>1, <2>2, PlacementAssumption DEF Free
  <2> QED
    BY <2>1, <2>2, <2>3
<1>4. ASSUME NEW n \in Nodes, NEW c, EvictResult(r, Nodes, n, c, b, crit, req[2])
      PROVE  /\ r.node = n /\ r.core = c /\ r.victims \subseteq Evictable(n, c, crit)
             /\ GetCoreUtilization(n, c) - Budget(CorePods(n, c), r.victims) + b
                  <= RTCapacity
             /\ \A m \in Nodes : \A d \in CandidateCores(m, req[2]) : Free(m, d) <= b
  <2>1. PICK V \in EvictionOutcomes(n, c, b, crit) : r = Placed(n, c, V)
    BY <1>4 DEF EvictResult
  <2>2. r.node = n /\ r.core = c /\ r.victims = V
    BY <2>1 DEF Placed
  <2>3. /\ V \subseteq Evictable(n, c, crit)
        /\ GetCoreUtilization(n, c) - Budget(CorePods(n, c), V) + b <= RTCapacity
    BY <1>1, <2>1, EvictionMakesRoom
  <2>4. ASSUME NEW m \in Nodes, NEW d \in CandidateCores(m, req[2]) PROVE Free(m, d) <= b
    <3>1. ~ (Free(m, d) > b) /\ Free(m, d) \in Int
      BY <1>4, FreeFacts DEF EvictResult
    <3> QED
      BY <1>1, <3>1
  <2> QED
    BY <2>2, <2>3, <2>4
<1>5. \/ r = Infeasible
      \/ \E n \in Nodes : \E c : DirectResult(r, n, c, b)
      \/ \E n \in Nodes : \E c : EvictResult(r, Nodes, n, c, b, crit, req[2])
  BY SearchCases DEF Results
<1> HIDE DEF b, crit
<1>6. CASE \E n \in Nodes : \E c : DirectResult(r, n, c, b)
  BY <1>3, <1>6 DEF b
<1>7. CASE \E n \in Nodes : \E c : EvictResult(r, Nodes, n, c, b, crit, req[2])
  BY <1>4, <1>7, EvictableFacts DEF b, crit
<1> QED
  BY <1>2, <1>5, <1>6, <1>7

LEMMA ValidatorInLedger == PoolInv => ValidatorAgrees
<1> SUFFICES ASSUME PoolInv, NEW req \in Request, NEW r \in Results(req), r.feasible,
                    Free(r.node, r.core) # req[1].CPUMillis,
                    Lookahead(r.node, r.core, req[1].Criticality) # req[1].CPUMillis,
                    NEW v \in CheckNodeCoreFeasibility(r.node, r.core, req[1].CPUMillis,
                                                       req[1].Criticality)
             PROVE  v.feasible
  BY DEF ValidatorAgrees
<1> DEFINE b == req[1].CPUMillis
           crit == req[1].Criticality
<1>1. b \in Nat
  BY RequestType
<1>2. r # Infeasible
  BY DEF Infeasible
<1>3. r.node \in Nodes /\ Lookahead(r.node, r.core, crit) >= b
  <2>1. ASSUME NEW n \in Nodes, NEW c, DirectResult(r, n, c, b)
        PROVE  r.node = n /\ r.core = c /\ Lookahead(n, c, crit) >= b
    <3>1. r.node = n /\ r.core = c /\ Free(n, c) >= b
      BY <2>1 DEF DirectResult, Placed
    <3> QED
      BY <1>1, <3>1, FreeFacts
  <2>2. ASSUME NEW n \in Nodes, NEW c, EvictResult(r, Nodes, n, c, b, crit, req[2])
        PROVE  r.node = n /\ r.core = c /\ Lookahead(n, c, crit) >= b
    <3>1. PICK V \in EvictionOutcomes(n, c, b, crit) : r = Placed(n, c, V)
      BY <2>2 DEF EvictResult
    <3>2. r.node = n /\ r.core = c
      BY <3>1 DEF Placed
    <3> HIDE DEF b, crit
    <3>3. Lookahead(n, c, crit) >= b
      BY <1>1, <3>1, EvictionMakesRoom
    <3> QED
      BY <3>2, <3>3
  <2>3. \/ \E n \in Nodes : \E c : DirectResult(r, n, c, b)
        \/ \E n \in Nodes : \E c : EvictResult(r, Nodes, n, c, b, crit, req[2])
    BY <1>2, SearchCases DEF Results
  <2> HIDE DEF b, crit
  <2> QED
    BY <2>1, <2>2, <2>3
<1>4. Lookahead(r.node, r.core, crit) \in Int
  BY <1>3, FreeFacts
<1>5. ~ (Lookahead(r.node, r.core, crit) <= b)
  BY <1>1, <1>3, <1>4
<1>6. \E V : v = Placed(r.node, r.core, V)
  BY <1>5 DEF CheckNodeCoreFeasibility
<1> QED
  BY <1>6 DEF Placed

LEMMA RoomInLedger == PoolInv => PreemptionMakesRoom
<1> SUFFICES ASSUME PoolInv, NEW n \in Nodes, NEW c \in Cores, NEW crit \in Criticalities,
                    NEW b \in Budgets,
                    Budget(corePods[n][c], Evictable(n, c, crit)) >= NeededBudget(n, c, b),
                    NEW V \in PreemptionVictims(n, c, b, crit)
             PROVE  usage[n][c] - Budget(corePods[n][c], V) + b <= UtilizationThreshold
  BY DEF PreemptionMakesRoom
<1> DEFINE f == corePods[n][c]
<1>1. CorePods(n, c) = f /\ GetCoreUtilization(n, c) = usage[n][c]
  BY DEF CorePods, GetCoreUtilization
<1>2. f \in CoreMap /\ usage[n][c] \in Nat /\ b \in Nat
  BY <1>1, LedgerTypes, RequestAssumption DEF PoolInv, PoolTypeOK
<1>3. Budget(f, V) \in Nat
  BY <1>2, BudgetFacts
<1>4. Budget(f, V) >= NeededBudget(n, c, b)
  BY <1>1, VictimsCover DEF PreemptionVictims
<1> HIDE DEF f
<1>5. usage[n][c] - Budget(f, V) + b <= UtilizationThreshold
  BY <1>1, <1>2, <1>3, <1>4, PlacementAssumption DEF NeededBudget
<1> QED
  BY <1>5 DEF f

-----------------------------------------------------------------------------
(***************************************************************************)
(* The theorems.  PoolSpec allows every operation of the ledger; Spec is   *)
(* the part of it that is explored by model checking.                      *)
(***************************************************************************)

\* The behaviours that the placement run explores are behaviours of the
\* ledger of internal/cpupool.
THEOREM PlacementUsesLedger == Spec => PoolSpec
<1>1. ASSUME [Next]_poolVars PROVE [PoolNext]_poolVars
  <2>1. Infos \subseteq PodInfo
    BY RequestAssumption DEF Infos, PodInfo
  <2>2. ASSUME NEW n \in Nodes, NEW c \in Cores, NEW p \in Pods, NEW info \in Infos,
               Register(n, c, p, info)
        PROVE  PoolNext
    BY <2>1, <2>2, PoolAssumption DEF Register, PoolNext
  <2> QED
    BY <1>1, <2>2 DEF Next, PoolNext
<1> QED
  BY <1>1, PTL DEF Spec, PoolSpec

\* In every ledger, an admission by SelectBestNodeAndCore fits within the RT
\* capacity once its victims are gone, evicts lower criticality only, and
\* evicts nobody while another candidate core has room to spare.
THEOREM AdmissionsAreSound == PoolSpec => []AdmissionSound
BY PoolInvariant, SoundInLedger, PTL

\* In every ledger, CheckNodeCoreFeasibility accepts what
\* SelectBestNodeAndCore has picked from it.
THEOREM ValidatorAcceptsSelection == PoolSpec => []ValidatorAgrees
BY PoolInvariant, ValidatorInLedger, PTL

\* In every ledger, the victims that checkAndPreemptForPod selects bring the
\* core within the utilization threshold whenever the evictable pods can.
THEOREM PreemptionIsEnough == PoolSpec => []PreemptionMakesRoom
BY PoolInvariant, RoomInLedger, PTL
=============================================================================
