-------------------------- MODULE AdmissionProofs --------------------------
(***************************************************************************)
(* Proofs about admission, for every number of nodes, cores, pods and      *)
(* concurrent requests, every RT setting and every bound on the mishaps.   *)
(***************************************************************************)
EXTENDS Admission, PlacementLemmas

-----------------------------------------------------------------------------
(***************************************************************************)
(* Budgets.                                                                *)
(***************************************************************************)
LEMMA Quotient ==
    ASSUME NEW a \in Nat, NEW b \in Nat \ {0}
    PROVE  /\ a \div b \in Nat /\ (a \div b) * b <= a
           /\ \A k \in Nat : a <= k * b => a \div b <= k
OBVIOUS

LEMMA BudgetTypes ==
    ASSUME NEW p \in Pods
    PROVE  requiredBudget(p) \in Nat /\ registered(p) \in PodInfo
<1>1. ASSUME NEW f \in [Pods -> Nat] PROVE InUnits(p, f) \in Nat
  <2>1. f[p] \in Nat /\ UnitsPerCore \in Nat /\ Period[p] \in Nat \ {0}
    BY AdmissionAssumption
  <2>2. f[p] * UnitsPerCore \in Nat
    BY <2>1
  <2> QED
    BY <2>1, <2>2, Quotient DEF InUnits
<1>2. InUnits(p, RuntimeHi) \in Nat /\ InUnits(p, RuntimeLow) \in Nat
  BY <1>1, AdmissionAssumption
<1> QED
  BY <1>2, AdmissionAssumption DEF requiredBudget, registered, PodInfo

\* Settings that the validating webhook accepts ask for no more than the RT
\* capacity of a core.
LEMMA ValidSettings ==
    ASSUME NEW p \in Pods, validateRTSettings(p)
    PROVE  requiredBudget(p) <= RTCapacity
<1> DEFINE hi == RuntimeHi[p]
           d == Period[p]
           u == UnitsPerCore
<1>1. hi \in Nat /\ d \in Nat \ {0} /\ u \in Nat \ {0} /\ RTCapacity \in Nat
  BY AdmissionAssumption, PlacementAssumption
<1>2. hi <= (d * RTCapacity) \div u
  BY DEF validateRTSettings
<1> HIDE DEF hi, d, u
<1>3. d * RTCapacity \in Nat /\ hi * u \in Nat /\ d * RTCapacity = RTCapacity * d
  BY <1>1
<1>4. (d * RTCapacity) \div u \in Nat /\ ((d * RTCapacity) \div u) * u <= d * RTCapacity
  BY <1>1, <1>3, Quotient
<1>5. hi * u <= ((d * RTCapacity) \div u) * u
  <2>1. \A x, y, z \in Nat : x <= y => x * z <= y * z
    OBVIOUS
  <2> QED
    BY <1>1, <1>2, <1>4, <2>1
<1>6. hi * u <= RTCapacity * d
  <2>1. ((d * RTCapacity) \div u) * u \in Nat
    BY <1>1, <1>4
  <2> QED
    BY <1>3, <1>4, <1>5, <2>1
<1>7. (hi * u) \div d <= RTCapacity
  BY <1>1, <1>3, <1>6, Quotient
<1> QED
  BY <1>7 DEF requiredBudget, InUnits, hi, d, u

-----------------------------------------------------------------------------
(***************************************************************************)
(* The inductive invariant.  A check counts for as long as the pods that   *)
(* do not give way leave room for the pod that was checked.                *)
(***************************************************************************)
MapAt(cores, place) ==
    IF place[2] \in Cores THEN cores[place[1]][place[2]] ELSE EmptyCore

\* The pods of a core that do not give way to criticality crit.
Stays(f, crit) ==
    {p \in Pods : ~ (f[p] # NoPod
                     /\ CriticalityRank(f[p].Criticality) < CriticalityRank(crit))}

Fits(f, p) == Budget(f, Stays(f, Criticality[p])) + requiredBudget(p) <= RTCapacity

\* The check of p at place holds in the ledger.
Holds(p, place, cores) ==
    p \in Pods /\ requiredBudget(p) <= RTCapacity /\ Fits(MapAt(cores, place), p)

\* A request that is past the mutating webhook has a pod, and its check
\* holds: a charge at the place takes it away.
RequestOK(q, cores) ==
    /\ q \in Request
    /\ q.pc # "new" => q.pod \in Pods
    /\ q.pc = "patch" => q.selected # <<>>
    /\ q.checked # <<>> => Holds(q.pod, q.checked, cores)

PodOK(p, rec, cores) ==
    /\ rec \in PodState
    /\ rec.checked # <<>> => Holds(p, rec.checked, cores)

\* The pods of node n whose charge was checked and is there to stay fit in
\* together.
Sound(n) == {p \in Staying(n) : <<p, n>> \notin unsound}

SoundFits ==
    \A n \in Nodes, c \in Cores : Budget(corePods[n][c], Sound(n)) <= RTCapacity

\* Once the victims that worker w has left are dealt with, there is room for
\* the charge of the pod in hand, if a check covers it: out are the pods that
\* go or were spared.
RoomFor(w, cores, out) ==
    w.covered =>
        Budget(MapAt(cores, <<w.node, w.core>>),
               {p \in Pods : <<p, w.node>> \notin out /\ p \notin w.left})
          + registered(w.pod).CPUMillis <= RTCapacity

\* A victim that is on its way fits on its new core: nobody else adds to it.
VictimFits(w, use) ==
    use[w.node][w.target] + registered(w.victim).CPUMillis <= UtilizationThreshold

WorkerSafe(w, cores, use, out) ==
    /\ w \in Worker
    /\ w.pc # "idle" =>
          /\ w.pod \in Pods /\ w.node \in Nodes /\ w.core \in CoreIDs /\ w.spec \in CoreIDs
          /\ w.covered => w.spec = w.core
          /\ RoomFor(w, cores, out)
    /\ w.pc \in {"migrateOn", "migrateStatus"} =>
          w.victim \in Pods /\ w.target \in Cores \ {w.core}
    /\ w.pc = "migrateOn" => VictimFits(w, use)

WorkerOK == WorkerSafe(worker, corePods, usage, going \cup spared)

RestOK ==
    /\ cr \in [Pods -> CR] /\ crCache \in [Pods -> CR]
    /\ going \subseteq Pods \X Nodes /\ spared \subseteq Pods \X Nodes
    /\ unsound \subseteq Pods \X Nodes
    /\ mishaps \in 0 .. MaxMishaps

PodsOK == pod = [p \in Pods |-> pod[p]] /\ \A p \in Pods : PodOK(p, pod[p], corePods)

RequestsOK ==
    /\ request = [r \in Requests |-> request[r]]
    /\ \A r \in Requests : RequestOK(request[r], corePods)

LedgerOK == PoolInv /\ SoundFits /\ WorkerOK

AdmissionInv == LedgerOK /\ RestOK /\ PodsOK /\ RequestsOK

-----------------------------------------------------------------------------
(***************************************************************************)
(* Checks.                                                                 *)
(***************************************************************************)
LEMMA MapTypes ==
    ASSUME PoolInv, NEW place, place \in Nodes \X CoreIDs
    PROVE  /\ MapAt(corePods, place) = CorePods(place[1], place[2])
           /\ MapAt(corePods, place) \in CoreMap
BY LedgerTypes DEF MapAt, CorePods

\* UsageMillis is no less than what the pods of the core hold.
LEMMA UsageAtLeast ==
    ASSUME PoolInv, NEW n \in Nodes, NEW c
    PROVE  GetCoreUtilization(n, c) >= Committed(CorePods(n, c))
<1>1. CASE c \in Cores
  BY <1>1 DEF GetCoreUtilization, CorePods, PoolInv, UsageCovers
<1>2. CASE c \notin Cores
  BY <1>2, CommittedEmpty DEF GetCoreUtilization, CorePods
<1> QED
  BY <1>1, <1>2

\* The lookahead of the webhooks, in terms of the pods that do not give way.
LEMMA LookaheadHolds ==
    ASSUME PoolInv, NEW n \in Nodes, NEW c, NEW p \in Pods,
           Lookahead(n, c, Criticality[p]) >= requiredBudget(p)
    PROVE  requiredBudget(p) <= RTCapacity /\ Fits(CorePods(n, c), p)
<1> DEFINE f == CorePods(n, c)
           C == Evictable(n, c, Criticality[p])
           S == Stays(f, Criticality[p])
<1>1. f \in CoreMap
  BY LedgerTypes
<1>2. GetCoreUtilization(n, c) >= Committed(f) /\ GetCoreUtilization(n, c) \in Nat
  BY UsageAtLeast, LedgerTypes
<1>3. Pods \ S = C
  <2>1. CASE c \in Cores
    BY <2>1 DEF Stays, Evictable, GetPodsOnCore, CorePods
  <2>2. CASE c \notin Cores
    BY <2>2 DEF Stays, Evictable, GetPodsOnCore, CorePods, EmptyCore
  <2> QED
    BY <2>1, <2>2
<1>4. Lookahead(n, c, Criticality[p])
        = RTCapacity - GetCoreUtilization(n, c) + Budget(f, C)
  BY DEF Lookahead, Free
<1> HIDE DEF f, C, S
<1>5. /\ Committed(f) = Budget(f, S) + Budget(f, Pods \ S)
      /\ Budget(f, S) \in Nat /\ Budget(f, C) \in Nat
  BY <1>1, BudgetOfAll
<1>6. requiredBudget(p) \in Nat /\ RTCapacity \in Nat
  BY BudgetTypes, PlacementAssumption
<1>7. Budget(f, S) + requiredBudget(p) <= RTCapacity
  <2>1. Committed(f) = Budget(f, S) + Budget(f, C)
    BY <1>3, <1>5
  <2>2. RTCapacity - GetCoreUtilization(n, c) + Budget(f, C) >= requiredBudget(p)
    BY <1>4
  <2> QED
    BY <1>2, <1>5, <1>6, <2>1, <2>2
<1> QED
  BY <1>5, <1>6, <1>7 DEF Fits, f, S

\* A check survives that pods leave the core, and an empty ledger.
LEMMA FitsDropped ==
    ASSUME NEW f \in CoreMap, NEW G, NEW p \in Pods, Fits(f, p)
    PROVE  Fits(Only(f, Pods \ G), p)
<1> DEFINE g == Only(f, Pods \ G)
           S == Stays(f, Criticality[p])
           T == Stays(g, Criticality[p])
<1>1. Only(g, T) = Only(f, S \ G)
  BY DEF Only, Stays
<1>2. Budget(g, T) = Budget(f, S \ G)
  BY <1>1 DEF Budget
<1>3. Budget(f, S \ G) <= Budget(f, S) /\ Budget(f, S \ G) \in Nat /\ Budget(f, S) \in Nat
  BY BudgetGrows, BudgetOfAll
<1>4. requiredBudget(p) \in Nat /\ RTCapacity \in Nat
  BY BudgetTypes, PlacementAssumption
<1>5. Budget(f, S) + requiredBudget(p) <= RTCapacity
  BY DEF Fits
<1> HIDE DEF g, S, T
<1>6. Budget(g, T) + requiredBudget(p) <= RTCapacity
  BY <1>2, <1>3, <1>4, <1>5
<1> QED
  BY <1>6 DEF Fits, g, T

LEMMA FitsEmpty ==
    ASSUME NEW p \in Pods, requiredBudget(p) <= RTCapacity
    PROVE  Fits(EmptyCore, p)
<1>1. EmptyCore \in CoreMap
  BY DEF EmptyCore, CoreMap
<1>2. Budget(EmptyCore, Stays(EmptyCore, Criticality[p])) = 0
  <2>1. \A C : Only(EmptyCore, C) = EmptyCore
    BY DEF Only, EmptyCore
  <2> QED
    BY <2>1, CommittedEmpty DEF Budget
<1> QED
  BY <1>2, BudgetTypes DEF Fits

\* What the search selects, and what the validating webhook accepts, holds.
LEMMA SearchHolds ==
    ASSUME PoolInv, NEW p \in Pods,
           NEW res \in SelectBestNodeAndCore(Nodes, requiredBudget(p), Criticality[p], {}),
           res.feasible
    PROVE  /\ <<res.node, res.core>> \in Nodes \X CoreIDs
           /\ Holds(p, <<res.node, res.core>>, corePods)
<1> DEFINE b == requiredBudget(p)
           crit == Criticality[p]
<1>1. b \in Nat
  BY BudgetTypes
<1>2. res # Infeasible
  BY DEF Infeasible
<1>3. \/ \E n \in Nodes : \E c \in CandidateCores(n, {}) : DirectResult(res, n, c, b)
      \/ \E n \in Nodes : \E c \in CandidateCores(n, {}) :
            EvictResult(res, Nodes, n, c, b, crit, {})
  BY <1>2, SearchCases
<1> HIDE DEF b, crit
<1>4. ASSUME NEW n \in Nodes, NEW c, DirectResult(res, n, c, b)
      PROVE  res.node = n /\ res.core = c /\ Lookahead(n, c, crit) >= b
  <2>1. res.node = n /\ res.core = c /\ Free(n, c) >= b
    BY <1>4 DEF DirectResult, Placed
  <2>2. /\ Free(n, c) \in Int /\ Lookahead(n, c, crit) \in Int
        /\ Lookahead(n, c, crit) >= Free(n, c)
    BY FreeFacts
  <2> QED
    BY <1>1, <2>1, <2>2
<1>5. ASSUME NEW n \in Nodes, NEW c, EvictResult(res, Nodes, n, c, b, crit, {})
      PROVE  res.node = n /\ res.core = c /\ Lookahead(n, c, crit) >= b
  <2>1. PICK V \in EvictionOutcomes(n, c, b, crit) : res = Placed(n, c, V)
    BY <1>5 DEF EvictResult
  <2>2. res.node = n /\ res.core = c
    BY <2>1 DEF Placed
  <2>3. Lookahead(n, c, crit) >= b
    BY <1>1, <2>1, EvictionMakesRoom
  <2> QED
    BY <2>2, <2>3
<1>6. PICK n \in Nodes : \E c \in CandidateCores(n, {}) :
         res.node = n /\ res.core = c /\ Lookahead(n, c, crit) >= b
  BY <1>3, <1>4, <1>5
<1>7. PICK c \in CoreIDs :
         res.node = n /\ res.core = c /\ Lookahead(n, c, crit) >= b
  BY <1>6, PoolAssumption DEF CandidateCores, nodeCoreIDs
<1>8. b <= RTCapacity /\ Fits(CorePods(n, c), p)
  BY <1>7, LookaheadHolds DEF b, crit
<1>9. MapAt(corePods, <<n, c>>) = CorePods(n, c)
  BY DEF MapAt, CorePods
<1> QED
  BY <1>7, <1>8, <1>9 DEF Holds, b

LEMMA CheckHolds ==
    ASSUME PoolInv, NEW p \in Pods, validateRTSettings(p), NEW n \in Nodes, NEW c,
           NEW res \in CheckNodeCoreFeasibility(n, c, requiredBudget(p), Criticality[p]),
           res.feasible
    PROVE  Holds(p, <<n, c>>, corePods)
<1> DEFINE b == requiredBudget(p)
           crit == Criticality[p]
<1>1. b \in Nat /\ b <= RTCapacity
  BY BudgetTypes, ValidSettings
<1>2. MapAt(corePods, <<n, c>>) = CorePods(n, c)
  BY DEF MapAt, CorePods
<1>3. CASE n \notin pooled
  <2>1. CorePods(n, c) = EmptyCore
    BY <1>3 DEF CorePods, PoolInv, UnpooledEmpty
  <2> QED
    BY <1>1, <1>2, <2>1, FitsEmpty DEF Holds
<1>4. CASE Lookahead(n, c, crit) >= b
  BY <1>2, <1>4, LookaheadHolds DEF Holds
<1>5. n \in pooled => Free(n, c) >= b \/ \E V : V \in EvictionOutcomes(n, c, b, crit)
  BY DEF CheckNodeCoreFeasibility, Infeasible
<1> HIDE DEF b, crit
<1>6. CASE Free(n, c) >= b
  <2>1. /\ Free(n, c) \in Int /\ Lookahead(n, c, crit) \in Int
        /\ Lookahead(n, c, crit) >= Free(n, c)
    BY FreeFacts
  <2> QED
    BY <1>1, <1>4, <1>6, <2>1
<1>7. CASE \E V : V \in EvictionOutcomes(n, c, b, crit)
  BY <1>1, <1>4, <1>7, EvictionMakesRoom
<1> QED
  BY <1>3, <1>5, <1>6, <1>7

-----------------------------------------------------------------------------
(***************************************************************************)
(* The webhooks: a request changes, and the ledger does not.               *)
(***************************************************************************)
LEMMA SameLedger ==
    ASSUME LedgerOK, UNCHANGED ledgerVars
    PROVE  LedgerOK' /\ corePods' = corePods
<1>1. PoolInv'
  BY PoolInvStep DEF LedgerOK, ledgerVars
<1>2. \A n : Sound(n)' = Sound(n)
  BY DEF Sound, Staying, ledgerVars
<1> QED
  BY <1>1, <1>2 DEF LedgerOK, SoundFits, WorkerOK, ledgerVars, poolVars

LEMMA BecomeOK ==
    ASSUME RequestsOK, corePods' = corePods, NEW r \in Requests, NEW new,
           Become(r, new), RequestOK(new, corePods)
    PROVE  RequestsOK'
<1>1. request' = [q \in Requests |-> IF q = r THEN new ELSE request[q]]
  BY DEF RequestsOK, Become
<1> QED
  BY <1>1 DEF RequestsOK

\* The pods are left alone too.
LEMMA WebhookStep ==
    ASSUME AdmissionInv, Webhook, pod' = pod, RestOK',
           NEW r \in Requests, NEW new, Become(r, new), RequestOK(new, corePods)
    PROVE  AdmissionInv'
<1>1. LedgerOK' /\ corePods' = corePods
  BY SameLedger DEF AdmissionInv, Webhook
<1>2. RequestsOK'
  BY <1>1, BecomeOK DEF AdmissionInv
<1>3. PodsOK'
  BY <1>1 DEF AdmissionInv, PodsOK
<1> QED
  BY <1>1, <1>2, <1>3 DEF AdmissionInv

LEMMA MishapType ==
    ASSUME RestOK, Mishap \/ UNCHANGED mishaps
    PROVE  mishaps' \in 0 .. MaxMishaps
BY AdmissionAssumption DEF RestOK, Mishap

\* The ways a request changes inside the webhooks.
LEMMA RequestUpdates ==
    ASSUME NEW q, NEW cores, RequestOK(q, cores), q.pc # "new"
    PROVE  /\ \A pc \in {"validate", "create", "done", "denied"} :
                 RequestOK([q EXCEPT !.pc = pc], cores)
           /\ \A place \in Place : Holds(q.pod, place, cores) =>
                 RequestOK([q EXCEPT !.pc = "create", !.checked = place], cores)
<1>1. q \in Request /\ q.pod \in Pods
  BY DEF RequestOK
<1>2. ASSUME NEW pc \in {"validate", "create", "done", "denied"}
      PROVE  RequestOK([q EXCEPT !.pc = pc], cores)
  <2> DEFINE s == [q EXCEPT !.pc = pc]
  <2>1. s \in Request /\ s.pc = pc /\ s.pod = q.pod /\ s.checked = q.checked
    BY <1>1 DEF Request
  <2> HIDE DEF s
  <2>2. RequestOK(s, cores)
    BY <1>1, <2>1 DEF RequestOK
  <2> QED
    BY <2>2 DEF s
<1>3. ASSUME NEW place \in Place, Holds(q.pod, place, cores)
      PROVE  RequestOK([q EXCEPT !.pc = "create", !.checked = place], cores)
  <2> DEFINE s == [q EXCEPT !.pc = "create", !.checked = place]
  <2>1. s \in Request /\ s.pc = "create" /\ s.pod = q.pod /\ s.checked = place
    BY <1>1 DEF Request
  <2> HIDE DEF s
  <2>2. RequestOK(s, cores)
    BY <1>1, <1>3, <2>1 DEF RequestOK
  <2> QED
    BY <2>2 DEF s
<1> QED
  BY <1>2, <1>3

LEMMA RequestFacts ==
    ASSUME AdmissionInv, NEW r \in Requests
    PROVE  /\ RequestOK(request[r], corePods) /\ request[r] \in Request
           /\ request[r].pc # "new" => request[r].pod \in Pods
           /\ PoolInv /\ RestOK
BY DEF AdmissionInv, RequestsOK, RequestOK, LedgerOK

LEMMA ArriveStep ==
    ASSUME AdmissionInv, NEW r \in Requests, NEW p \in Pods, NEW dryRun \in BOOLEAN,
           NEW annotated \in BOOLEAN, Arrive(r, p, dryRun, annotated)
    PROVE  AdmissionInv'
<1> DEFINE pc == IF annotated THEN "validate" ELSE "mutate"
           new == [NewRequest EXCEPT !.pc = pc, !.pod = p, !.dryRun = dryRun]
<1>1. new \in Request /\ new.pc = pc /\ new.pod = p /\ new.checked = <<>>
  BY DEF NewRequest, Request, BlankCR, CR, Place
<1>2. Become(r, new) /\ Webhook /\ UNCHANGED <<cr, pod, mishaps>>
  BY DEF Arrive
<1> HIDE DEF new
<1>3. RequestOK(new, corePods)
  BY <1>1 DEF RequestOK
<1>4. RestOK'
  BY <1>2, RequestFacts DEF RestOK, Webhook, ledgerVars
<1> QED
  BY <1>2, <1>3, <1>4, WebhookStep

\* Steps that leave the CR and the pods alone and set no check.
LEMMA PassStep ==
    ASSUME AdmissionInv, NEW r \in Requests, request[r].pc # "new",
           Webhook, UNCHANGED <<cr, pod>>, Mishap \/ UNCHANGED mishaps,
           \E pc \in {"validate", "create", "done", "denied"} :
               Become(r, [request[r] EXCEPT !.pc = pc])
    PROVE  AdmissionInv'
<1>1. PICK pc \in {"validate", "create", "done", "denied"} :
          Become(r, [request[r] EXCEPT !.pc = pc])
  OBVIOUS
<1>2. RequestOK([request[r] EXCEPT !.pc = pc], corePods)
  BY RequestFacts, RequestUpdates
<1>3. RestOK'
  BY RequestFacts, MishapType DEF RestOK, Webhook, ledgerVars
<1> QED
  BY <1>1, <1>2, <1>3, WebhookStep

LEMMA SelectStep ==
    ASSUME AdmissionInv, NEW r \in Requests, Select(r)
    PROVE  AdmissionInv'
<1> DEFINE p == request[r].pod
<1>1. request[r].pc = "mutate" /\ Webhook /\ UNCHANGED <<cr, pod, mishaps>>
  BY DEF Select
<1>2. /\ RequestOK(request[r], corePods) /\ request[r] \in Request /\ p \in Pods
      /\ PoolInv /\ RestOK
  BY <1>1, RequestFacts
<1>3. RestOK'
  BY <1>1, <1>2 DEF RestOK, Webhook, ledgerVars
<1>4. CASE Become(r, [request[r] EXCEPT !.pc = "validate"])
  BY <1>1, <1>4, PassStep
<1>5. ASSUME NEW res \in SelectBestNodeAndCore(Nodes, requiredBudget(p), Criticality[p], {}),
             res.feasible,
             Become(r, [request[r] EXCEPT
                          !.pc = IF request[r].dryRun THEN "validate" ELSE "patch",
                          !.copy = crCache[p],
                          !.selected = <<res.node, res.core>>,
                          !.checked = <<res.node, res.core>>])
      PROVE  AdmissionInv'
  <2> DEFINE place == <<res.node, res.core>>
             pc == IF request[r].dryRun THEN "validate" ELSE "patch"
             new == [request[r] EXCEPT !.pc = pc, !.copy = crCache[p],
                                       !.selected = place, !.checked = place]
  <2>1. place \in Nodes \X CoreIDs /\ Holds(p, place, corePods)
    BY <1>2, <1>5, SearchHolds
  <2>2. place \in Place /\ place # <<>>
    BY <2>1 DEF Place
  <2>3. Become(r, new)
    BY <1>5
  <2> HIDE DEF place
  <2>4. /\ new \in Request /\ new.pc = pc /\ new.pod = p /\ new.selected = place
        /\ new.checked = place
    BY <1>2, <2>2 DEF Request, RestOK
  <2> HIDE DEF new
  <2>5. RequestOK(new, corePods)
    BY <1>2, <2>1, <2>2, <2>4 DEF RequestOK
  <2> QED
    BY <1>1, <1>3, <2>3, <2>5, WebhookStep
<1> QED
  BY <1>4, <1>5 DEF Select

LEMMA PatchStep ==
    ASSUME AdmissionInv, NEW r \in Requests, PatchMcKubeCore(r)
    PROVE  AdmissionInv'
<1> DEFINE p == request[r].pod
           place == request[r].selected
           node == IF request[r].copy.node = NoNode THEN place[1] ELSE cr[p].node
           new == [request[r] EXCEPT !.pc = "validate", !.decided = place]
<1>1. /\ request[r].pc = "patch" /\ Become(r, new) /\ Webhook /\ UNCHANGED <<pod, mishaps>>
      /\ cr' = [cr EXCEPT ![p] = [cr[p] EXCEPT !.core = place[2], !.node = node]]
  BY DEF PatchMcKubeCore
<1>2. /\ RequestOK(request[r], corePods) /\ request[r] \in Request /\ p \in Pods
      /\ RestOK
  BY <1>1, RequestFacts
<1>3. place \in Nodes \X CoreIDs /\ place \in Place
  BY <1>1, <1>2 DEF RequestOK, Request, Place
<1>4. cr[p] \in CR /\ node \in Nodes \cup {NoNode} /\ place[2] \in CoreIDs
  BY <1>2, <1>3 DEF RestOK, CR
<1> HIDE DEF node
<1>5. [cr[p] EXCEPT !.core = place[2], !.node = node] \in CR
  BY <1>4 DEF CR
<1>6. cr' \in [Pods -> CR]
  BY <1>1, <1>2, <1>5 DEF RestOK
<1>7. RestOK'
  BY <1>1, <1>2, <1>6 DEF RestOK, Webhook, ledgerVars
<1>8. /\ new \in Request /\ new.pc = "validate" /\ new.pod = p
      /\ new.checked = request[r].checked
  BY <1>2, <1>3 DEF Request
<1> HIDE DEF new
<1>9. RequestOK(new, corePods)
  BY <1>2, <1>8 DEF RequestOK
<1> QED
  BY <1>1, <1>7, <1>9, WebhookStep

LEMMA ValidatePlaceStep ==
    ASSUME AdmissionInv, NEW r \in Requests, ValidatePlace(r)
    PROVE  AdmissionInv'
<1> DEFINE p == request[r].pod
           rt == crCache[p]
           place == <<rt.node, selectedCore(rt)>>
<1>1. /\ request[r].pc = "validate" /\ validateRTSettings(p)
      /\ selectedCore(rt) # NoCore /\ rt.node # NoNode
      /\ Webhook /\ UNCHANGED <<cr, pod, mishaps>>
  BY DEF ValidatePlace
<1>2. PICK res \in CheckNodeCoreFeasibility(rt.node, selectedCore(rt), requiredBudget(p),
                                            Criticality[p]) :
         IF res.feasible THEN Allow(r, place) ELSE Deny(r)
  BY DEF ValidatePlace
<1>3. /\ RequestOK(request[r], corePods) /\ p \in Pods /\ PoolInv /\ RestOK
  BY <1>1, RequestFacts
<1>4. rt.node \in Nodes /\ selectedCore(rt) \in CoreIDs
  <2>1. rt \in CR
    BY <1>3 DEF RestOK
  <2> QED
    BY <1>1, <2>1 DEF CR, selectedCore
<1>5. CASE Deny(r)
  BY <1>1, <1>5, PassStep DEF Deny
<1>6. CASE res.feasible /\ Allow(r, place)
  <2> DEFINE new == [request[r] EXCEPT !.pc = "create", !.checked = place]
  <2>1. Holds(p, place, corePods)
    BY <1>1, <1>3, <1>4, <1>6, CheckHolds
  <2>2. place \in Place
    BY <1>4 DEF Place
  <2>3. Become(r, new)
    BY <1>6 DEF Allow
  <2> HIDE DEF place
  <2>4. RequestOK(new, corePods)
    BY <1>1, <1>3, <2>1, <2>2, RequestUpdates
  <2>5. RestOK'
    BY <1>1, <1>3 DEF RestOK, Webhook, ledgerVars
  <2> QED
    BY <1>1, <2>3, <2>4, <2>5, WebhookStep
<1> QED
  BY <1>2, <1>5, <1>6

LEMMA CreatePodStep ==
    ASSUME AdmissionInv, NEW r \in Requests, CreatePod(r)
    PROVE  AdmissionInv'
<1> DEFINE q == request[r]
           p == q.pod
           rec == [live |-> TRUE, deleting |-> FALSE,
                   node |-> IF q.selected = <<>> THEN NoNode ELSE q.selected[1],
                   decided |-> q.decided, checked |-> q.checked]
<1>1. /\ q.pc = "create" /\ Webhook /\ UNCHANGED <<cr, mishaps>>
      /\ Become(r, [q EXCEPT !.pc = "done"])
  BY DEF CreatePod
<1>2. RequestOK(q, corePods) /\ q \in Request /\ p \in Pods /\ RestOK
  BY <1>1, RequestFacts
<1>3. CASE UNCHANGED pod
  BY <1>1, <1>3, PassStep
<1>4. CASE ~ pod[p].live /\ pod' = [pod EXCEPT ![p] = rec]
  <2>1. q.selected \in Place /\ q.decided \in Place /\ q.checked \in Place
    BY <1>2 DEF Request
  <2>2. rec \in PodState /\ rec.checked = q.checked /\ rec.live
    BY <2>1 DEF PodState, Place
  <2>3. PodOK(p, rec, corePods)
    BY <1>2, <2>2 DEF PodOK, RequestOK, Holds
  <2> HIDE DEF rec
  <2>4. pod' = [x \in Pods |-> IF x = p THEN rec ELSE pod[x]]
    BY <1>4 DEF AdmissionInv, PodsOK
  <2>5. LedgerOK' /\ corePods' = corePods
    BY <1>1, <1>4, <2>4, SameLedger DEF AdmissionInv, Webhook
  <2>6. PodsOK'
    BY <2>3, <2>4, <2>5 DEF AdmissionInv, PodsOK
  <2>7. RequestsOK'
    <3>1. RequestOK([q EXCEPT !.pc = "done"], corePods)
      BY <1>1, <1>2, RequestUpdates
    <3> QED
      BY <1>1, <2>5, <3>1, BecomeOK DEF AdmissionInv
  <2>8. RestOK'
    BY <1>1, <1>2 DEF RestOK, Webhook, ledgerVars
  <2> QED
    BY <2>5, <2>6, <2>7, <2>8 DEF AdmissionInv
<1> QED
  BY <1>3, <1>4 DEF CreatePod

LEMMA RequestStepOK ==
    ASSUME AdmissionInv, NEW r \in Requests, RequestStep(r)
    PROVE  AdmissionInv'
<1>1. CASE MutateNothing(r) \/ PatchFails(r) \/ ValidateSettings(r) \/ TimeOut(r)
  <2>1. /\ request[r].pc # "new" /\ Webhook /\ UNCHANGED <<cr, pod>>
        /\ Mishap \/ UNCHANGED mishaps
        /\ \E pc \in {"validate", "create", "done", "denied"} :
              Become(r, [request[r] EXCEPT !.pc = pc])
    BY <1>1 DEF MutateNothing, PatchFails, ValidateSettings, TimeOut, Deny
  <2> QED
    BY <2>1, PassStep
<1>2. CASE ValidateNothing(r) \/ ValidateCluster(r)
  <2>1. /\ request[r].pc = "validate" /\ Webhook /\ UNCHANGED <<cr, pod>>
        /\ Mishap \/ UNCHANGED mishaps
        /\ Allow(r, request[r].checked) \/ Deny(r)
    BY <1>2 DEF ValidateNothing, ValidateCluster
  <2>2. request[r] \in Request
    BY RequestFacts
  <2>3. [request[r] EXCEPT !.pc = "create", !.checked = request[r].checked]
          = [request[r] EXCEPT !.pc = "create"]
    BY <2>2 DEF Request
  <2>4. \E pc \in {"validate", "create", "done", "denied"} :
              Become(r, [request[r] EXCEPT !.pc = pc])
    BY <2>1, <2>3 DEF Allow, Deny
  <2> QED
    BY <2>1, <2>4, PassStep
<1> QED
  BY <1>1, <1>2, ArriveStep, SelectStep, PatchStep, ValidatePlaceStep, CreatePodStep
     DEF RequestStep

-----------------------------------------------------------------------------
(***************************************************************************)
(* Steps that take nothing but entries from the ledger, or nothing at all. *)
(***************************************************************************)
Loses ==
    \A m \in Nodes, c \in Cores :
        /\ usage'[m][c] <= usage[m][c]
        /\ \E G \in SUBSET Pods : corePods'[m][c] = Only(corePods[m][c], Pods \ G)

\* What the pods of C hold after the pods of G are gone.
LEMMA BudgetShrinks ==
    ASSUME NEW f \in CoreMap, NEW G, NEW C, NEW D,
           \A p \in Pods : p \in C => p \in G \/ p \in D
    PROVE  Budget(Only(f, Pods \ G), C) <= Budget(f, D)
<1>1. Only(Only(f, Pods \ G), C) = Only(f, C \ G)
  BY DEF Only
<1>2. Budget(Only(f, Pods \ G), C) = Budget(f, C \ G)
  BY <1>1 DEF Budget
<1>3. \A p \in Pods : p \in C \ G => p \in D
  OBVIOUS
<1>4. Budget(f, C \ G) <= Budget(f, D)
  BY <1>3, BudgetGrows
<1> QED
  BY <1>2, <1>4

LEMMA SameLoses ==
    ASSUME PoolInv, usage' = usage, corePods' = corePods
    PROVE  Loses
<1> SUFFICES ASSUME NEW m \in Nodes, NEW c \in Cores
             PROVE  /\ usage[m][c] <= usage[m][c]
                    /\ \E G \in SUBSET Pods : corePods[m][c] = Only(corePods[m][c], Pods \ G)
  BY DEF Loses
<1>1. usage[m][c] \in Nat /\ corePods[m][c] \in CoreMap
  BY LedgerTypes DEF PoolInv, PoolTypeOK, LooseType
<1>2. corePods[m][c] = Only(corePods[m][c], Pods \ {})
  BY <1>1 DEF Only, CoreMap
<1>3. {} \in SUBSET Pods
  OBVIOUS
<1>4. \E G \in SUBSET Pods : corePods[m][c] = Only(corePods[m][c], Pods \ G)
  BY <1>2, <1>3, Zenon
<1>5. usage[m][c] <= usage[m][c]
  BY <1>1
<1> QED
  BY <1>4, <1>5

LEMMA ChecksKept ==
    ASSUME PoolInv, Loses
    PROVE  \A p, place : place \in Nodes \X CoreIDs /\ Holds(p, place, corePods)
                           => Holds(p, place, corePods')
<1> SUFFICES ASSUME NEW p, NEW place \in Nodes \X CoreIDs, Holds(p, place, corePods)
             PROVE  Holds(p, place, corePods')
  OBVIOUS
<1>1. MapAt(corePods, place) \in CoreMap
  BY MapTypes
<1>2. CASE place[2] \in Cores
  <2>1. PICK G \in SUBSET Pods : corePods'[place[1]][place[2]]
                                   = Only(corePods[place[1]][place[2]], Pods \ G)
    BY <1>2 DEF Loses
  <2>2. MapAt(corePods', place) = Only(MapAt(corePods, place), Pods \ G)
    BY <1>2, <2>1 DEF MapAt
  <2> QED
    BY <1>1, <2>2, FitsDropped DEF Holds
<1>3. CASE place[2] \notin Cores
  BY <1>3 DEF Holds, MapAt
<1> QED
  BY <1>2, <1>3

LEMMA RequestsKept ==
    ASSUME PoolInv, Loses, RequestsOK, UNCHANGED request
    PROVE  RequestsOK'
<1>1. ASSUME NEW r \in Requests PROVE RequestOK(request[r], corePods')
  <2>1. RequestOK(request[r], corePods)
    BY DEF RequestsOK
  <2>2. request[r].checked # <<>> => request[r].checked \in Nodes \X CoreIDs
    BY <2>1 DEF RequestOK, Request, Place
  <2> QED
    BY <2>1, <2>2, ChecksKept DEF RequestOK
<1> QED
  BY <1>1 DEF RequestsOK

\* Pods may change as long as they gain no check.
LEMMA PodsKept ==
    ASSUME PoolInv, Loses, PodsOK, pod' = [q \in Pods |-> pod'[q]],
           \A q \in Pods : /\ pod'[q] \in PodState
                           /\ pod'[q].checked = pod[q].checked \/ pod'[q].checked = <<>>
    PROVE  PodsOK'
<1>1. ASSUME NEW q \in Pods PROVE PodOK(q, pod'[q], corePods')
  <2>1. PodOK(q, pod[q], corePods)
    BY DEF PodsOK
  <2>2. pod[q].checked # <<>> => pod[q].checked \in Nodes \X CoreIDs
    BY <2>1 DEF PodOK, PodState, Place
  <2> QED
    BY <2>1, <2>2, ChecksKept DEF PodOK
<1> QED
  BY <1>1 DEF PodsOK

LEMMA PodUnchanged ==
    ASSUME PoolInv, Loses, PodsOK, UNCHANGED pod
    PROVE  PodsOK'
<1>1. pod' = [q \in Pods |-> pod'[q]] /\ \A q \in Pods : pod'[q] = pod[q]
  BY DEF PodsOK
<1>2. \A q \in Pods : pod[q] \in PodState
  BY DEF PodsOK, PodOK
<1> QED
  BY <1>1, <1>2, PodsKept

\* The room made for a pod stays as long as every pod that is no longer left
\* to deal with goes, is spared, or is off the core.
LEMMA RoomKept ==
    ASSUME PoolInv, Loses, NEW w, NEW new, NEW out, NEW outside,
           w.node \in Nodes, w.core \in CoreIDs, w.pod \in Pods,
           RoomFor(w, corePods, out),
           new.node = w.node, new.core = w.core, new.pod = w.pod, new.covered = w.covered,
           \A p \in Pods : <<p, w.node>> \notin outside /\ p \notin new.left =>
               \/ <<p, w.node>> \notin out /\ p \notin w.left
               \/ MapAt(corePods', <<w.node, w.core>>)[p] = NoPod
    PROVE  RoomFor(new, corePods', outside)
<1> DEFINE place == <<w.node, w.core>>
           f == MapAt(corePods, place)
           g == MapAt(corePods', place)
           C == {p \in Pods : <<p, w.node>> \notin outside /\ p \notin new.left}
           D == {p \in Pods : <<p, w.node>> \notin out /\ p \notin w.left}
<1>1. f \in CoreMap
  BY MapTypes
<1>2. PICK G \in SUBSET Pods : g = Only(f, Pods \ G)
  <2>1. CASE w.core \in Cores
    BY <2>1 DEF Loses, MapAt
  <2>2. CASE w.core \notin Cores
    <3>1. g = Only(f, Pods \ {})
      BY <2>2 DEF MapAt, Only, EmptyCore
    <3> QED
      BY <3>1
  <2> QED
    BY <2>1, <2>2
<1> HIDE DEF f, g
<1>3. Budget(g, C) <= Budget(f, D)
  <2> DEFINE H == {p \in Pods : g[p] = NoPod}
  <2>1. g = Only(f, Pods \ H)
    BY <1>1, <1>2 DEF Only, CoreMap
  <2>2. \A p \in Pods : p \in C => p \in H \/ p \in D
    BY DEF g
  <2> HIDE DEF C, D, H
  <2> QED
    BY <1>1, <2>1, <2>2, BudgetShrinks
<1>4. Budget(g, C) \in Nat /\ Budget(f, D) \in Nat
  <2>1. g \in CoreMap
    BY <1>1, <1>2, OnlyType
  <2> QED
    BY <1>1, <2>1, BudgetOfAll
<1>5. registered(w.pod).CPUMillis \in Nat /\ RTCapacity \in Nat
  BY BudgetTypes, PlacementAssumption DEF PodInfo
<1>6. w.covered => Budget(f, D) + registered(w.pod).CPUMillis <= RTCapacity
  BY DEF RoomFor, f
<1> HIDE DEF C, D
<1>7. w.covered => Budget(g, C) + registered(w.pod).CPUMillis <= RTCapacity
  BY <1>3, <1>4, <1>5, <1>6
<1> QED
  BY <1>7 DEF RoomFor, g, C

\* The pods that were checked still fit in if no pod joins them but one that
\* has no entry.
LEMMA SoundKept ==
    ASSUME PoolInv, Loses, SoundFits,
           \A m \in Nodes : \A p \in Sound(m)' :
               p \in Sound(m) \/ \A c \in Cores : corePods'[m][c][p] = NoPod
    PROVE  SoundFits'
<1> SUFFICES ASSUME NEW m \in Nodes, NEW c \in Cores
             PROVE  Budget(corePods'[m][c], Sound(m)') <= RTCapacity
  BY DEF SoundFits
<1> DEFINE f == corePods[m][c]
           g == corePods'[m][c]
           H == {p \in Pods : g[p] = NoPod}
           C == Sound(m)'
           D == Sound(m)
<1>1. f \in CoreMap /\ Budget(f, D) <= RTCapacity
  BY LedgerTypes DEF LooseType, SoundFits
<1>2. PICK G \in SUBSET Pods : g = Only(f, Pods \ G)
  BY DEF Loses
<1>3. \A p \in Pods : p \in C => p \in H \/ p \in D
  OBVIOUS
<1> HIDE DEF f, g, C, D
<1>4. g = Only(f, Pods \ H)
  BY <1>1, <1>2 DEF Only, CoreMap
<1> HIDE DEF H
<1>5. Budget(g, C) <= Budget(f, D)
  BY <1>1, <1>3, <1>4, BudgetShrinks
<1>6. Budget(g, C) \in Nat /\ Budget(f, D) \in Nat
  BY <1>1, <1>4, OnlyType, BudgetOfAll
<1>7. Budget(g, C) <= RTCapacity
  BY <1>1, <1>5, <1>6, PlacementAssumption
<1> QED
  BY <1>7 DEF g, C

LEMMA WorkerUnchanged ==
    ASSUME PoolInv, PoolInv', Loses, WorkerOK, UNCHANGED worker,
           \A m \in Nodes : \A p \in Staying(m)' :
               p \in Staying(m) \/ \A c \in Cores : corePods'[m][c][p] = NoPod
    PROVE  WorkerOK'
<1> DEFINE out == going \cup spared
           outside == going' \cup spared'
<1>1. WorkerSafe(worker, corePods, usage, out)
  BY DEF WorkerOK
<1>2. ASSUME worker.pc # "idle" PROVE RoomFor(worker, corePods', outside)
  <2> DEFINE n == worker.node
             g == MapAt(corePods', <<n, worker.core>>)
  <2>1. n \in Nodes /\ worker.core \in CoreIDs /\ worker.pod \in Pods
        /\ RoomFor(worker, corePods, out)
    BY <1>1, <1>2 DEF WorkerSafe
  <2>2. ASSUME NEW p \in Pods, <<p, n>> \notin outside, p \notin worker.left
        PROVE  (<<p, n>> \notin out /\ p \notin worker.left) \/ g[p] = NoPod
    <3>1. p \in Staying(n)'
      BY <2>2 DEF Staying
    <3>2. CASE p \in Staying(n)
      BY <2>2, <3>2 DEF Staying
    <3>3. CASE \A c \in Cores : corePods'[n][c][p] = NoPod
      BY <3>3 DEF MapAt, EmptyCore
    <3> QED
      BY <2>1, <3>1, <3>2, <3>3
  <2> HIDE DEF out, outside
  <2> QED
    BY <2>1, <2>2, RoomKept
<1>3. ASSUME worker.pc = "migrateOn" PROVE VictimFits(worker, usage')
  <2> DEFINE n == worker.node
             t == worker.target
             b == registered(worker.victim).CPUMillis
  <2>1. n \in Nodes /\ t \in Cores /\ worker.victim \in Pods /\ VictimFits(worker, usage)
    BY <1>1, <1>3 DEF WorkerSafe
  <2>2. usage'[n][t] <= usage[n][t] /\ usage[n][t] \in Nat /\ usage'[n][t] \in Nat
    BY <2>1 DEF Loses, PoolInv, PoolTypeOK
  <2>3. b \in Nat /\ UtilizationThreshold \in Nat
    BY <2>1, BudgetTypes, PlacementAssumption DEF PodInfo
  <2>4. usage[n][t] + b <= UtilizationThreshold
    BY <2>1 DEF VictimFits
  <2> HIDE DEF n, t, b
  <2>5. usage'[n][t] + b <= UtilizationThreshold
    BY <2>2, <2>3, <2>4
  <2> QED
    BY <2>5 DEF VictimFits, n, t, b
<1>4. WorkerSafe(worker, corePods', usage', outside)
  BY <1>1, <1>2, <1>3 DEF WorkerSafe
<1> QED
  BY <1>4 DEF WorkerOK

-----------------------------------------------------------------------------
(***************************************************************************)
(* The API server, the informer and the users.                             *)
(***************************************************************************)
LEMMA QuietStep ==
    ASSUME AdmissionInv, UNCHANGED <<ledgerVars, pod, request>>, RestOK'
    PROVE  AdmissionInv'
<1>1. LedgerOK' /\ corePods' = corePods
  BY SameLedger DEF AdmissionInv
<1> QED
  BY <1>1 DEF AdmissionInv, PodsOK, RequestsOK

\* The controller's updates keep the CRs well typed.
LEMMA WrittenType ==
    ASSUME cr \in [Pods -> CR], NEW p \in Pods, NEW old, NEW new \in CR
    PROVE  Written(p, old, new) \in [Pods -> CR]
BY DEF Written

LEMMA CRStep ==
    ASSUME AdmissionInv, NEW p \in Pods,
           \/ \E core \in CoreIDs \cup {NoCore}, node \in Nodes \cup {NoNode} :
                 CreateCR(p, core, node)
           \/ SyncCR(p) \/ SetNode(p)
    PROVE  AdmissionInv'
<1>1. RestOK /\ pod[p] \in PodState
  BY DEF AdmissionInv, PodsOK, PodOK
<1>2. cr[p] \in CR /\ crCache[p] \in CR
  BY <1>1 DEF RestOK
<1>3. UNCHANGED <<ledgerVars, pod, request, mishaps>>
  BY DEF CreateCR, SyncCR, SetNode, Webhook
<1>4. cr' \in [Pods -> CR] /\ crCache' \in [Pods -> CR]
  <2>1. ASSUME NEW core \in CoreIDs \cup {NoCore}, NEW node \in Nodes \cup {NoNode},
               CreateCR(p, core, node)
        PROVE  cr' \in [Pods -> CR] /\ crCache' \in [Pods -> CR]
    <3>1. [BlankCR(TRUE) EXCEPT !.core = core, !.node = node] \in CR
      BY DEF BlankCR, CR
    <3> QED
      BY <1>1, <2>1, <3>1 DEF CreateCR, Webhook, RestOK
  <2>2. CASE SyncCR(p)
    BY <1>1, <1>2, <2>2 DEF SyncCR, RestOK
  <2>3. CASE SetNode(p)
    <3>1. [crCache[p] EXCEPT !.node = pod[p].node] \in CR
      BY <1>1, <1>2 DEF CR, PodState
    <3>2. cr' \in [Pods -> CR]
      BY <1>1, <2>3, <3>1, WrittenType DEF SetNode, RestOK
    <3> QED
      BY <1>1, <2>3, <3>2 DEF SetNode, Webhook, RestOK
  <2> QED
    BY <2>1, <2>2, <2>3
<1>5. RestOK'
  BY <1>1, <1>3, <1>4 DEF RestOK, ledgerVars
<1> QED
  BY <1>3, <1>5, QuietStep

LEMMA SchedulePodStep ==
    ASSUME AdmissionInv, NEW p \in Pods, NEW n \in Nodes, SchedulePod(p, n)
    PROVE  AdmissionInv'
<1>1. /\ pod' = [pod EXCEPT ![p].node = n]
      /\ UNCHANGED <<ledgerVars, cr, crCache, request, mishaps>>
  BY DEF SchedulePod, Webhook
<1>2. LedgerOK' /\ corePods' = corePods /\ usage' = usage /\ PoolInv /\ RestOK
  BY <1>1, SameLedger DEF AdmissionInv, LedgerOK, ledgerVars, poolVars
<1>3. \A q \in Pods : pod[q] \in PodState
  BY DEF AdmissionInv, PodsOK, PodOK
<1>4. pod' = [q \in Pods |-> IF q = p THEN [pod[q] EXCEPT !.node = n] ELSE pod[q]]
  BY <1>1 DEF AdmissionInv, PodsOK
<1>5. ASSUME NEW q \in Pods
      PROVE  pod'[q] \in PodState /\ pod'[q].checked = pod[q].checked
  BY <1>3, <1>4 DEF PodState
<1>6. PodsOK'
  BY <1>2, <1>4, <1>5, SameLoses, PodsKept DEF AdmissionInv
<1>7. RequestsOK' /\ RestOK'
  BY <1>1, <1>2 DEF AdmissionInv, RequestsOK, RestOK, ledgerVars
<1> QED
  BY <1>2, <1>6, <1>7 DEF AdmissionInv

-----------------------------------------------------------------------------
(***************************************************************************)
(* The worker takes a pod in hand.                                         *)
(***************************************************************************)

\* The victims are chosen so that the pods that are neither victims nor on
\* their way out leave room: within the threshold if the victims cover what
\* is needed, and within the RT capacity if every pod that gives way is one.
LEMMA JobRoom ==
    ASSUME AdmissionInv, NEW p \in Pods, NEW n \in Nodes, NEW c \in CoreIDs,
           NEW V \in victims(p), pod[p].node = n, selectedCore(crCache[p]) = c,
           pod[p].checked = <<n, c>>, registered(p).CPUMillis <= requiredBudget(p),
           NEW S
    PROVE  Budget(MapAt(corePods, <<n, c>>), {q \in Pods : q \in S /\ q \notin V})
             + registered(p).CPUMillis <= RTCapacity
<1> DEFINE f == CorePods(n, c)
           b == registered(p).CPUMillis
           use == GetCoreUtilization(n, c)
           need == NeededBudget(n, c, b)
           E == Evictable(n, c, Criticality[p])
           K == {q \in Pods : q \in S /\ q \notin V}
<1>1. PoolInv /\ PodOK(p, pod[p], corePods)
  BY DEF AdmissionInv, LedgerOK, PodsOK
<1>2. MapAt(corePods, <<n, c>>) = f /\ f \in CoreMap
  BY <1>1, MapTypes
<1>3. Fits(f, p)
  BY <1>1, <1>2 DEF PodOK, Holds
<1>4. use \in Nat /\ use >= Committed(f) /\ Committed(f) \in Nat
  BY <1>1, <1>2, LedgerTypes, UsageAtLeast, UnitsFinite
<1>5. /\ b \in Nat /\ requiredBudget(p) \in Nat /\ b <= requiredBudget(p)
      /\ RTCapacity \in Nat /\ UtilizationThreshold \in Nat
      /\ UtilizationThreshold <= RTCapacity
  BY BudgetTypes, PlacementAssumption DEF PodInfo
<1>6. need = use + b - UtilizationThreshold
  BY DEF NeededBudget
<1>7. \/ V = {} /\ need <= 0
      \/ V \in SelectMinimumVictims(f, E, need)
  BY DEF victims, PreemptionVictims
<1> HIDE DEF f, b, use, need
<1>8. /\ Budget(f, K) <= Budget(f, Pods \ V) /\ Budget(f, K) \in Nat
      /\ Committed(f) = Budget(f, V) + Budget(f, Pods \ V)
      /\ Budget(f, V) \in Nat /\ Budget(f, Pods \ V) \in Nat
  <2>1. \A q \in Pods : q \in K => q \in Pods \ V
    OBVIOUS
  <2> HIDE DEF K
  <2> QED
    BY <1>2, <2>1, BudgetGrows, BudgetOfAll
<1> HIDE DEF K, E
<1>9. CASE V = {} /\ need <= 0
  <2>1. Committed(f) + b <= UtilizationThreshold
    BY <1>4, <1>5, <1>6, <1>9
  <2>2. Budget(f, K) + b <= RTCapacity
    BY <1>4, <1>5, <1>8, <2>1
  <2> QED
    BY <1>2, <2>2 DEF b, K
<1>10. CASE Budget(f, V) >= need
  <2>1. Budget(f, Pods \ V) + b <= UtilizationThreshold
    BY <1>4, <1>5, <1>6, <1>8, <1>10
  <2>2. Budget(f, K) + b <= RTCapacity
    BY <1>5, <1>8, <2>1
  <2> QED
    BY <1>2, <2>2 DEF b, K
<1>11. CASE V = E
  <2>1. Pods \ V = Stays(f, Criticality[p])
    <3>1. CASE c \in Cores
      BY <1>11, <3>1 DEF Stays, E, Evictable, GetPodsOnCore, CorePods, f
    <3>2. CASE c \notin Cores
      BY <1>11, <3>2 DEF Stays, E, Evictable, GetPodsOnCore, CorePods, EmptyCore, f
    <3> QED
      BY <3>1, <3>2
  <2>2. Budget(f, Pods \ V) + requiredBudget(p) <= RTCapacity
    BY <1>3, <2>1 DEF Fits
  <2>3. Budget(f, K) + b <= RTCapacity
    BY <1>5, <1>8, <2>2
  <2> QED
    BY <1>2, <2>3 DEF b, K
<1>12. V \in SelectMinimumVictims(f, E, need) => Budget(f, V) >= need \/ V = E
  BY DEF SelectMinimumVictims
<1> QED
  BY <1>7, <1>9, <1>10, <1>11, <1>12

LEMMA VictimTypes ==
    ASSUME NEW p, NEW V \in victims(p)
    PROVE  V \in SUBSET Pods
BY DEF victims, PreemptionVictims, SelectMinimumVictims, Evictable, GetPodsOnCore

LEMMA ReconcileStep ==
    ASSUME AdmissionInv, NEW p \in Pods, Reconcile(p)
    PROVE  AdmissionInv'
<1> DEFINE rt == crCache[p]
           core == selectedCore(rt)
           n == pod[p].node
<1>1. /\ rt.node # NoNode /\ rt.core # NoCore /\ n # NoNode
      /\ cr' = Written(p, rt, [rt EXCEPT !.allocated = core])
      /\ GetOrCreateCPUPool(n)
      /\ UNCHANGED <<crCache, pod, request, going, spared, unsound, mishaps>>
  BY DEF Reconcile, Scheduled
<1>2. \/ UNCHANGED worker
      \/ \E V \in victims(p) :
            worker' = [IdleWorker EXCEPT
                         !.pc = "preempt", !.pod = p, !.node = n, !.core = core,
                         !.spec = rt.core, !.covered = covered(p), !.left = V]
  BY DEF Reconcile
<1>3. PoolInv /\ LooseType /\ SoundFits /\ WorkerOK /\ RestOK /\ RequestsOK /\ PodsOK
  BY LedgerTypes DEF AdmissionInv, LedgerOK
<1>4. /\ n \in Nodes /\ rt \in CR /\ rt.core \in CoreIDs /\ core \in CoreIDs
  <2>1. rt \in CR /\ pod[p] \in PodState
    BY <1>3 DEF RestOK, PodsOK, PodOK
  <2> QED
    BY <1>1, <2>1 DEF CR, PodState, selectedCore
<1>5. [rt EXCEPT !.allocated = core] \in CR
  BY <1>4 DEF CR
<1> HIDE DEF n
<1>6. PoolInv' /\ usage' = usage /\ corePods' = corePods
  BY <1>1, <1>3, <1>4, CreateStep, PoolInvStep DEF PoolInv, PoolNext
<1>7. Loses
  BY <1>3, <1>6, SameLoses
<1>8. PodsOK' /\ RequestsOK'
  BY <1>1, <1>3, <1>7, PodUnchanged, RequestsKept
<1>9. RestOK'
  <2>1. cr' \in [Pods -> CR]
    BY <1>1, <1>3, <1>5, WrittenType DEF RestOK
  <2> QED
    BY <1>1, <1>3, <2>1 DEF RestOK
<1>10. /\ \A m \in Nodes : Staying(m)' = Staying(m) /\ Sound(m)' = Sound(m)
  BY <1>1 DEF Staying, Sound
<1>11. SoundFits'
  BY <1>3, <1>7, <1>10, SoundKept
<1>12. WorkerOK'
  <2>1. CASE UNCHANGED worker
    BY <1>3, <1>6, <1>7, <1>10, <2>1, WorkerUnchanged
  <2>2. ASSUME NEW V \in victims(p),
               worker' = [IdleWorker EXCEPT
                            !.pc = "preempt", !.pod = p, !.node = n, !.core = core,
                            !.spec = rt.core, !.covered = covered(p), !.left = V]
        PROVE  WorkerOK'
    <3> DEFINE w == worker'
               out == going \cup spared
    <3>1. V \in SUBSET Pods /\ covered(p) \in BOOLEAN
      BY VictimTypes DEF covered
    <3>2. /\ w \in Worker /\ w.pc = "preempt" /\ w.pod = p /\ w.node = n /\ w.core = core
          /\ w.spec = rt.core /\ w.covered = covered(p) /\ w.left = V
      BY <1>4, <2>2, <3>1 DEF Worker, IdleWorker
    <3>3. covered(p) => /\ core = rt.core /\ pod[p].checked = <<n, core>>
                        /\ registered(p).CPUMillis <= requiredBudget(p)
      BY DEF covered, n
    <3>4. ASSUME covered(p)
          PROVE  Budget(MapAt(corePods, <<n, core>>),
                        {q \in Pods : <<q, n>> \notin out /\ q \notin V})
                   + registered(p).CPUMillis <= RTCapacity
      <4> DEFINE S == {q \in Pods : <<q, n>> \notin out}
      <4>1. {q \in Pods : q \in S /\ q \notin V}
              = {q \in Pods : <<q, n>> \notin out /\ q \notin V}
        OBVIOUS
      <4>2. Budget(MapAt(corePods, <<n, core>>), {q \in Pods : q \in S /\ q \notin V})
              + registered(p).CPUMillis <= RTCapacity
        <5> HIDE DEF S
        <5> QED
          BY <1>4, <3>3, <3>4, JobRoom DEF n
      <4> QED
        BY <4>1, <4>2
    <3> HIDE DEF w
    <3>5. RoomFor(w, corePods, out)
      BY <3>2, <3>4 DEF RoomFor
    <3>6. WorkerSafe(w, corePods', usage', out)
      BY <1>4, <1>6, <3>2, <3>3, <3>5 DEF WorkerSafe
    <3>7. going' \cup spared' = out
      BY <1>1
    <3> QED
      BY <3>6, <3>7 DEF WorkerOK, w
  <2> QED
    BY <1>2, <2>1, <2>2
<1> QED
  BY <1>6, <1>8, <1>9, <1>11, <1>12 DEF AdmissionInv, LedgerOK

-----------------------------------------------------------------------------
(***************************************************************************)
(* Pods on their way out: an eviction, a victim that stays, a deletion.    *)
(* Their entries are left alone.                                           *)
(***************************************************************************)
LEMMA TerminatesType ==
    ASSUME RestOK, NEW p \in Pods, Terminates(p)
    PROVE  /\ going' \subseteq Pods \X Nodes /\ going \subseteq going'
           /\ \A n \in Nodes : <<p, n>> \in going'
BY DEF RestOK, Terminates

LEMMA OutGrows ==
    ASSUME AdmissionInv, UNCHANGED <<poolVars, request, unsound>>, RestOK', PodsOK',
           going \subseteq going', spared \subseteq spared',
           \/ UNCHANGED worker
           \/ \E v \in Pods : /\ TakeVictim(v) /\ worker' = Without(v)
                              /\ <<v, worker.node>> \in going' \cup spared'
    PROVE  AdmissionInv'
<1>1. PoolInv /\ SoundFits /\ WorkerOK /\ RequestsOK
  BY DEF AdmissionInv, LedgerOK
<1>2. usage' = usage /\ corePods' = corePods /\ PoolInv'
  BY <1>1, PoolInvStep DEF poolVars
<1>3. Loses
  BY <1>1, <1>2, SameLoses
<1>4. RequestsOK'
  BY <1>1, <1>3, RequestsKept
<1>5. \A m \in Nodes : /\ \A p \in Staying(m)' : p \in Staying(m)
                       /\ \A p \in Sound(m)' : p \in Sound(m)
  BY DEF Staying, Sound
<1>6. SoundFits'
  BY <1>1, <1>3, <1>5, SoundKept
<1>7. WorkerOK'
  <2>1. CASE UNCHANGED worker
    BY <1>1, <1>2, <1>3, <1>5, <2>1, WorkerUnchanged
  <2>2. ASSUME NEW v \in Pods, TakeVictim(v), worker' = Without(v),
               <<v, worker.node>> \in going' \cup spared'
        PROVE  WorkerOK'
    <3> DEFINE w == worker
               new == worker'
               out == going \cup spared
               outside == going' \cup spared'
    <3>1. WorkerSafe(w, corePods, usage, out) /\ w.pc = "preempt" /\ w \in Worker
      BY <1>1, <2>2 DEF WorkerOK, WorkerSafe, TakeVictim
    <3>2. new = [w EXCEPT !.left = w.left \ {v}]
      BY <2>2 DEF Without
    <3> HIDE DEF new
    <3>3. /\ new \in Worker /\ new.pc = "preempt" /\ new.pod = w.pod /\ new.node = w.node
          /\ new.core = w.core /\ new.spec = w.spec /\ new.covered = w.covered
          /\ new.left = w.left \ {v}
      BY <3>1, <3>2 DEF Worker
    <3>4. /\ w.node \in Nodes /\ w.core \in CoreIDs /\ w.pod \in Pods
          /\ RoomFor(w, corePods, out)
      BY <3>1 DEF WorkerSafe
    <3>5. ASSUME NEW p \in Pods, <<p, w.node>> \notin outside, p \notin new.left
          PROVE  <<p, w.node>> \notin out /\ p \notin w.left
      BY <2>2, <3>3, <3>5
    <3> HIDE DEF out, outside, w
    <3>6. RoomFor(new, corePods', outside)
      BY <1>1, <1>3, <3>3, <3>4, <3>5, RoomKept
    <3>7. WorkerSafe(new, corePods', usage', outside)
      BY <3>1, <3>3, <3>6 DEF WorkerSafe
    <3> QED
      BY <3>7 DEF WorkerOK, new, outside
  <2> QED
    BY <2>1, <2>2
<1> QED
  BY <1>2, <1>4, <1>6, <1>7 DEF AdmissionInv, LedgerOK

\* One pod changes, and gains no check.
LEMMA PodChanged ==
    ASSUME AdmissionInv, UNCHANGED poolVars, NEW p \in Pods,
           \/ pod' = [pod EXCEPT ![p].deleting = TRUE]
           \/ pod' = [pod EXCEPT ![p] = AbsentPod]
    PROVE  PodsOK'
<1>1. PoolInv /\ PodsOK /\ usage' = usage /\ corePods' = corePods
  BY DEF AdmissionInv, LedgerOK, poolVars
<1>2. Loses
  BY <1>1, SameLoses
<1>3. \A q \in Pods : pod[q] \in PodState
  BY <1>1 DEF PodsOK, PodOK
<1>4. PICK new : /\ new \in {[pod[p] EXCEPT !.deleting = TRUE], AbsentPod}
                 /\ pod' = [q \in Pods |-> IF q = p THEN new ELSE pod[q]]
  BY <1>1 DEF PodsOK
<1>5. new \in PodState /\ (new.checked = pod[p].checked \/ new.checked = <<>>)
  <2>1. AbsentPod \in PodState /\ AbsentPod.checked = <<>>
    BY DEF PodState, AbsentPod, Place
  <2>2. pod[p] \in PodState
    BY <1>3
  <2>3. /\ [pod[p] EXCEPT !.deleting = TRUE] \in PodState
        /\ [pod[p] EXCEPT !.deleting = TRUE].checked = pod[p].checked
    BY <2>2 DEF PodState
  <2> QED
    BY <1>4, <2>1, <2>3
<1> QED
  BY <1>1, <1>2, <1>3, <1>4, <1>5, PodsKept

LEMMA PodEndStep ==
    ASSUME AdmissionInv, NEW p \in Pods,
           VictimGone(p) \/ EvictPod(p) \/ EvictRefused(p) \/ DeletePod(p) \/ RemovePod(p)
    PROVE  AdmissionInv'
<1>1. RestOK /\ WorkerOK
  BY DEF AdmissionInv, LedgerOK
<1>2. worker.pc # "idle" => worker.node \in Nodes
  BY <1>1 DEF WorkerOK, WorkerSafe
<1>3. CASE VictimGone(p) \/ EvictRefused(p)
  <2>1. /\ TakeVictim(p) /\ worker' = Without(p) /\ spared' = spared \cup {<<p, worker.node>>}
        /\ UNCHANGED <<poolVars, cr, crCache, pod, request, going, unsound>>
        /\ Mishap \/ UNCHANGED mishaps
    BY <1>3 DEF VictimGone, EvictRefused
  <2>2. worker.node \in Nodes
    BY <1>2, <2>1 DEF TakeVictim
  <2>3. RestOK'
    BY <1>1, <2>1, <2>2, MishapType DEF RestOK
  <2>4. PodsOK'
    BY <2>1 DEF AdmissionInv, PodsOK, poolVars
  <2> QED
    BY <2>1, <2>3, <2>4, OutGrows
<1>4. CASE EvictPod(p)
  <2>1. /\ TakeVictim(p) /\ worker' = Without(p) /\ Terminates(p)
        /\ pod' = [pod EXCEPT ![p].deleting = TRUE]
        /\ UNCHANGED <<poolVars, cr, crCache, request, spared, unsound, mishaps>>
    BY <1>4 DEF EvictPod
  <2>2. worker.node \in Nodes
    BY <1>2, <2>1 DEF TakeVictim
  <2>3. /\ going' \subseteq Pods \X Nodes /\ going \subseteq going'
        /\ <<p, worker.node>> \in going'
    BY <1>1, <2>1, <2>2, TerminatesType
  <2>4. RestOK'
    BY <1>1, <2>1, <2>3 DEF RestOK
  <2>5. PodsOK'
    BY <2>1, PodChanged
  <2> QED
    BY <2>1, <2>3, <2>4, <2>5, OutGrows
<1>5. CASE DeletePod(p) \/ RemovePod(p)
  <2>1. /\ Terminates(p)
        /\ \/ pod' = [pod EXCEPT ![p].deleting = TRUE]
           \/ pod' = [pod EXCEPT ![p] = AbsentPod]
        /\ UNCHANGED <<poolVars, cr, crCache, request, worker, spared, unsound>>
        /\ Mishap \/ UNCHANGED mishaps
    BY <1>5 DEF DeletePod, RemovePod
  <2>2. going' \subseteq Pods \X Nodes /\ going \subseteq going'
    BY <1>1, <2>1, TerminatesType
  <2>3. RestOK'
    BY <1>1, <2>1, <2>2, MishapType DEF RestOK
  <2>4. PodsOK'
    BY <2>1, PodChanged
  <2> QED
    BY <2>1, <2>2, <2>3, <2>4, OutGrows
<1> QED
  BY <1>3, <1>4, <1>5

-----------------------------------------------------------------------------
(***************************************************************************)
(* Entries are taken off: a clean-up, and the first half of a migration.   *)
(***************************************************************************)
LEMMA DropLoses ==
    ASSUME PoolInv, NEW n \in Nodes, NEW p \in Pods, RemovePodFromPool(n, p)
    PROVE  /\ PoolInv' /\ Loses
           /\ \A c \in Cores : corePods'[n][c][p] = NoPod
<1>1. PoolInv'
  BY PoolInvStep DEF PoolNext
<1>2. LooseType /\ DropPods(n, {p})
  BY LedgerTypes DEF RemovePodFromPool
<1>3. ASSUME NEW m \in Nodes, NEW c \in Cores
      PROVE  /\ usage'[m][c] <= usage[m][c]
             /\ \E G \in SUBSET Pods : corePods'[m][c] = Only(corePods[m][c], Pods \ G)
             /\ m = n => corePods'[m][c][p] = NoPod
  <2> DEFINE f == corePods[m][c]
  <2>1. f \in CoreMap /\ usage[m][c] \in Int
    BY <1>2 DEF LooseType
  <2>2. CASE m = n
    <3>1. /\ usage'[m][c] = usage[m][c] - Committed(Only(f, {p}))
          /\ corePods'[m][c] = Only(f, Pods \ {p})
      BY <1>2, <2>2 DEF DropPods, LooseType
    <3>2. Committed(Only(f, {p})) \in Nat
      BY <2>1, OnlyType, UnitsFinite
    <3> HIDE DEF f
    <3>3. usage'[m][c] <= usage[m][c]
      BY <2>1, <3>1, <3>2
    <3>4. corePods'[m][c][p] = NoPod /\ {p} \in SUBSET Pods
      BY <3>1 DEF Only
    <3> QED
      BY <3>1, <3>3, <3>4 DEF f
  <2>3. CASE m # n
    <3>1. usage'[m][c] = usage[m][c] /\ corePods'[m][c] = f
      BY <1>2, <2>3 DEF DropPods, LooseType
    <3>2. f = Only(f, Pods \ {}) /\ {} \in SUBSET Pods
      BY <2>1 DEF Only, CoreMap
    <3> HIDE DEF f
    <3>3. \E G \in SUBSET Pods : corePods'[m][c] = Only(f, Pods \ G)
      BY <3>1, <3>2, Zenon
    <3>4. usage'[m][c] <= usage[m][c]
      BY <2>1, <3>1
    <3> QED
      BY <2>3, <3>3, <3>4 DEF f
  <2> QED
    BY <2>2, <2>3
<1> QED
  BY <1>1, <1>3 DEF Loses

LEMMA CleanUpStep ==
    ASSUME AdmissionInv, NEW p \in Pods, NEW n \in Nodes, CleanUp(p, n)
    PROVE  AdmissionInv'
<1>1. /\ IF n \in pooled THEN RemovePodFromPool(n, p) ELSE UNCHANGED poolVars
      /\ going' = going \ {<<p, n>>} /\ spared' = spared \ {<<p, n>>}
      /\ unsound' = unsound \ {<<p, n>>}
      /\ UNCHANGED <<cr, crCache, pod, request, worker, mishaps>>
  BY DEF CleanUp
<1>2. PoolInv /\ SoundFits /\ WorkerOK /\ RestOK /\ PodsOK /\ RequestsOK
  BY DEF AdmissionInv, LedgerOK
<1>3. PoolInv' /\ Loses /\ \A c \in Cores : corePods'[n][c][p] = NoPod
  <2>1. CASE n \in pooled
    BY <1>1, <1>2, <2>1, DropLoses
  <2>2. CASE n \notin pooled
    <3>1. PoolInv' /\ usage' = usage /\ corePods' = corePods
      BY <1>1, <1>2, <2>2, PoolInvStep DEF poolVars
    <3>2. corePods[n] = [c \in Cores |-> EmptyCore]
      BY <1>2, <2>2 DEF PoolInv, UnpooledEmpty
    <3>3. \A c \in Cores : corePods[n][c][p] = NoPod
      BY <3>2 DEF EmptyCore
    <3> QED
      BY <1>2, <3>1, <3>3, SameLoses
  <2> QED
    BY <2>1, <2>2
<1>4. \A m \in Nodes :
         /\ \A q \in Staying(m)' : q \in Staying(m) \/ (q = p /\ m = n)
         /\ \A q \in Sound(m)' : q \in Sound(m) \/ (q = p /\ m = n)
  BY <1>1 DEF Staying, Sound
<1>5. SoundFits'
  BY <1>2, <1>3, <1>4, SoundKept
<1>6. WorkerOK'
  BY <1>1, <1>2, <1>3, <1>4, WorkerUnchanged
<1>7. PodsOK' /\ RequestsOK'
  BY <1>1, <1>2, <1>3, PodUnchanged, RequestsKept
<1>8. RestOK'
  BY <1>1, <1>2 DEF RestOK
<1> QED
  BY <1>3, <1>5, <1>6, <1>7, <1>8 DEF AdmissionInv, LedgerOK

LEMMA RemoveLoses ==
    ASSUME PoolInv, NEW n \in Nodes, NEW c \in CoreIDs, NEW p \in Pods,
           RemovePodFromCore(n, c, p)
    PROVE  /\ PoolInv' /\ Loses
           /\ MapAt(corePods', <<n, c>>)[p] = NoPod
           /\ \A d \in Cores \ {c} : usage'[n][d] = usage[n][d]
<1>1. PoolInv'
  BY PoolInvStep DEF PoolNext
<1>2. LooseType
  BY LedgerTypes
<1>3. CASE c \notin Cores
  <2>1. usage' = usage /\ corePods' = corePods
    BY <1>3 DEF RemovePodFromCore
  <2> QED
    BY <1>1, <1>3, <2>1, SameLoses DEF MapAt, EmptyCore
<1>4. CASE c \in Cores
  <2>1. /\ corePods' = [corePods EXCEPT ![n][c][p] = NoPod]
        /\ usage' = [usage EXCEPT ![n][c] = @ - corePods[n][c][p].CPUMillis]
    BY <1>4 DEF RemovePodFromCore
  <2>2. ASSUME NEW m \in Nodes, NEW d \in Cores
        PROVE  /\ usage'[m][d] <= usage[m][d]
               /\ \E G \in SUBSET Pods : corePods'[m][d] = Only(corePods[m][d], Pods \ G)
    <3> DEFINE f == corePods[m][d]
    <3>1. f \in CoreMap /\ usage[m][d] \in Int
      BY <1>2 DEF LooseType
    <3>2. CASE m = n /\ d = c
      <4>1. /\ usage'[m][d] = usage[m][d] - f[p].CPUMillis
            /\ corePods'[m][d] = [f EXCEPT ![p] = NoPod]
        BY <1>2, <1>4, <2>1, <3>2 DEF LooseType
      <4>2. f[p].CPUMillis \in Nat
        BY <3>1, MillisType
      <4> HIDE DEF f
      <4>3. usage'[m][d] <= usage[m][d]
        BY <3>1, <4>1, <4>2
      <4>4. corePods'[m][d] = Only(f, Pods \ {p}) /\ {p} \in SUBSET Pods
        BY <3>1, <4>1 DEF Only, CoreMap
      <4> QED
        BY <4>3, <4>4 DEF f
    <3>3. CASE m # n \/ d # c
      <4>1. usage'[m][d] = usage[m][d] /\ corePods'[m][d] = f
        BY <1>2, <1>4, <2>1, <3>3 DEF LooseType
      <4>2. f = Only(f, Pods \ {}) /\ {} \in SUBSET Pods
        BY <3>1 DEF Only, CoreMap
      <4> HIDE DEF f
      <4>3. \E G \in SUBSET Pods : corePods'[m][d] = Only(f, Pods \ G)
        BY <4>1, <4>2, Zenon
      <4>4. usage'[m][d] <= usage[m][d]
        BY <3>1, <4>1
      <4> QED
        BY <4>3, <4>4 DEF f
    <3> QED
      BY <3>2, <3>3
  <2>3. MapAt(corePods', <<n, c>>)[p] = NoPod
    <3>1. corePods[n][c] \in CoreMap
      BY <1>2, <1>4 DEF LooseType
    <3>2. corePods'[n][c] = [corePods[n][c] EXCEPT ![p] = NoPod]
      BY <1>2, <1>4, <2>1 DEF LooseType
    <3> QED
      BY <1>4, <3>1, <3>2 DEF MapAt, CoreMap
  <2>4. \A d \in Cores \ {c} : usage'[n][d] = usage[n][d]
    BY <1>2, <2>1 DEF LooseType
  <2> QED
    BY <1>1, <2>2, <2>3, <2>4 DEF Loses
<1> QED
  BY <1>3, <1>4

LEMMA MigrateOffStep ==
    ASSUME AdmissionInv, NEW v \in Pods, MigrateOff(v)
    PROVE  AdmissionInv'
<1> DEFINE w == worker
           n == w.node
           c == w.core
           out == going \cup spared
<1>1. /\ w.pc = "preempt" /\ v \in w.left /\ RemovePodFromCore(n, c, v)
      /\ UNCHANGED <<cr, crCache, pod, request, going, spared, unsound, mishaps>>
  BY DEF MigrateOff, TakeVictim
<1>2. PICK t \in targetsOf(v) :
         worker' = [Without(v) EXCEPT !.pc = "migrateOn", !.victim = v, !.target = t]
  BY DEF MigrateOff
<1>3. PoolInv /\ SoundFits /\ WorkerOK /\ RestOK /\ PodsOK /\ RequestsOK
  BY DEF AdmissionInv, LedgerOK
<1>4. /\ WorkerSafe(w, corePods, usage, out) /\ w \in Worker
      /\ n \in Nodes /\ c \in CoreIDs /\ w.pod \in Pods /\ RoomFor(w, corePods, out)
  BY <1>1, <1>3 DEF WorkerOK, WorkerSafe
<1>5. /\ t \in Cores \ {c}
      /\ usage[n][t] + registered(v).CPUMillis <= UtilizationThreshold
  BY DEF targetsOf, MigrationTargets
<1>6. /\ PoolInv' /\ Loses /\ MapAt(corePods', <<n, c>>)[v] = NoPod
      /\ usage'[n][t] = usage[n][t]
  BY <1>1, <1>3, <1>4, <1>5, RemoveLoses
<1>7. PodsOK' /\ RequestsOK' /\ RestOK'
  <2>1. RestOK'
    BY <1>1, <1>3 DEF RestOK
  <2> QED
    BY <1>1, <1>3, <1>6, <2>1, PodUnchanged, RequestsKept
<1>8. SoundFits'
  <2>1. \A m \in Nodes : Sound(m)' = Sound(m)
    BY <1>1 DEF Staying, Sound
  <2> QED
    BY <1>3, <1>6, <2>1, SoundKept
<1>9. WorkerOK'
  <2> DEFINE new == worker'
  <2>1. new = [[w EXCEPT !.left = w.left \ {v}]
                 EXCEPT !.pc = "migrateOn", !.victim = v, !.target = t]
    BY <1>2 DEF Without
  <2> HIDE DEF new
  <2>2. /\ new \in Worker /\ new.pc = "migrateOn" /\ new.pod = w.pod /\ new.node = n
        /\ new.core = c /\ new.spec = w.spec /\ new.covered = w.covered
        /\ new.left = w.left \ {v} /\ new.victim = v /\ new.target = t
    BY <1>4, <1>5, <2>1 DEF Worker
  <2>3. ASSUME NEW p \in Pods, <<p, n>> \notin out, p \notin new.left
        PROVE  \/ <<p, n>> \notin out /\ p \notin w.left
               \/ MapAt(corePods', <<n, c>>)[p] = NoPod
    BY <1>6, <2>2, <2>3
  <2> HIDE DEF out, w, n, c
  <2>4. RoomFor(new, corePods', out)
    BY <1>3, <1>4, <1>6, <2>2, <2>3, RoomKept DEF n, c
  <2>5. VictimFits(new, usage')
    BY <1>5, <1>6, <2>2 DEF VictimFits
  <2>6. WorkerSafe(new, corePods', usage', out)
    BY <1>1, <1>4, <1>5, <2>2, <2>4, <2>5 DEF WorkerSafe, n, c
  <2>7. going' \cup spared' = out
    BY <1>1 DEF out
  <2> QED
    BY <2>6, <2>7 DEF WorkerOK, new
<1> QED
  BY <1>6, <1>7, <1>8, <1>9 DEF AdmissionInv, LedgerOK

\* The status update at the end of a migration leaves the ledger alone.
LEMMA MigrateStatusStep ==
    ASSUME AdmissionInv, MigrateStatus
    PROVE  AdmissionInv'
<1> DEFINE w == worker
           out == going \cup spared
           rt == crCache[w.victim]
<1>1. /\ w.pc = "migrateStatus"
      /\ cr' = IF rt.exists THEN Written(w.victim, rt, [rt EXCEPT !.allocated = w.target])
                            ELSE cr
      /\ worker' = [w EXCEPT !.pc = "preempt", !.victim = "none", !.target = NoCore]
      /\ UNCHANGED <<poolVars, crCache, pod, request, going, spared, unsound, mishaps>>
  BY DEF MigrateStatus
<1>2. PoolInv /\ SoundFits /\ WorkerOK /\ RestOK /\ PodsOK /\ RequestsOK
  BY DEF AdmissionInv, LedgerOK
<1>3. /\ WorkerSafe(w, corePods, usage, out) /\ w \in Worker
      /\ w.victim \in Pods /\ w.target \in Cores
  BY <1>1, <1>2 DEF WorkerOK, WorkerSafe
<1>4. usage' = usage /\ corePods' = corePods /\ PoolInv'
  BY <1>1, <1>2, PoolInvStep DEF poolVars
<1>5. Loses
  BY <1>2, <1>4, SameLoses
<1>6. RestOK'
  <2>1. rt \in CR
    BY <1>2, <1>3 DEF RestOK
  <2>2. [rt EXCEPT !.allocated = w.target] \in CR
    BY <1>3, <2>1, PoolAssumption DEF CR
  <2>3. cr' \in [Pods -> CR]
    BY <1>1, <1>2, <1>3, <2>2, WrittenType DEF RestOK
  <2> QED
    BY <1>1, <1>2, <2>3 DEF RestOK
<1>7. SoundFits'
  <2>1. \A m \in Nodes : Sound(m)' = Sound(m)
    BY <1>1 DEF Staying, Sound
  <2> QED
    BY <1>2, <1>5, <2>1, SoundKept
<1>8. WorkerOK'
  <2> DEFINE new == worker'
  <2>1. new = [w EXCEPT !.pc = "preempt", !.victim = "none", !.target = NoCore]
    BY <1>1
  <2> HIDE DEF new
  <2>2. /\ new \in Worker /\ new.pc = "preempt" /\ new.pod = w.pod /\ new.node = w.node
        /\ new.core = w.core /\ new.spec = w.spec /\ new.covered = w.covered
        /\ new.left = w.left
    BY <1>3, <2>1 DEF Worker
  <2>3. RoomFor(new, corePods, out)
    BY <1>1, <1>3, <2>2 DEF WorkerSafe, RoomFor
  <2>4. WorkerSafe(new, corePods', usage', going' \cup spared')
    BY <1>1, <1>3, <1>4, <2>2, <2>3 DEF WorkerSafe
  <2> QED
    BY <2>4 DEF WorkerOK, new
<1>9. PodsOK' /\ RequestsOK'
  BY <1>1, <1>2, <1>5, PodUnchanged, RequestsKept
<1> QED
  BY <1>4, <1>6, <1>7, <1>8, <1>9 DEF AdmissionInv, LedgerOK

-----------------------------------------------------------------------------
(***************************************************************************)
(* Entries are added: the charge, and the second half of a migration.      *)
(***************************************************************************)
LEMMA AddFacts ==
    ASSUME PoolInv, NEW n \in Nodes, NEW c \in CoreIDs, NEW p \in Pods,
           NEW info \in PodInfo, AddPodToCore(n, c, p, info)
    PROVE  /\ PoolInv'
           /\ c \in Cores => corePods'[n][c] = [corePods[n][c] EXCEPT ![p] = info]
           /\ \A m \in Nodes, d \in Cores : <<m, d>> # <<n, c>> =>
                 corePods'[m][d] = corePods[m][d] /\ usage'[m][d] = usage[m][d]
<1>1. PoolInv'
  BY PoolInvStep DEF PoolNext
<1>2. LooseType
  BY LedgerTypes
<1>3. CASE c \in Cores
  <2>1. /\ corePods' = [corePods EXCEPT ![n][c][p] = info]
        /\ usage' = [usage EXCEPT ![n][c] = @ + info.CPUMillis]
    BY <1>3 DEF AddPodToCore
  <2>2. corePods'[n][c] = [corePods[n][c] EXCEPT ![p] = info]
    BY <1>2, <1>3, <2>1 DEF LooseType
  <2>3. ASSUME NEW m \in Nodes, NEW d \in Cores, <<m, d>> # <<n, c>>
        PROVE  corePods'[m][d] = corePods[m][d] /\ usage'[m][d] = usage[m][d]
    <3>1. m # n \/ d # c
      BY <2>3
    <3> QED
      BY <1>2, <2>1, <3>1 DEF LooseType
  <2> QED
    BY <1>1, <2>2, <2>3
<1>4. CASE c \notin Cores
  BY <1>1, <1>4 DEF AddPodToCore
<1> QED
  BY <1>3, <1>4

\* An entry adds no more than its budget to what any set of pods holds.
LEMMA BudgetAdds ==
    ASSUME NEW f \in CoreMap, NEW p \in Pods, NEW info \in PodInfo, NEW C
    PROVE  Budget([f EXCEPT ![p] = info], C) <= Budget(f, C) + info.CPUMillis
<1> DEFINE g == [f EXCEPT ![p] = info]
           h == Only(f, C)
<1>1. h \in CoreMap /\ Committed(h) \in Nat /\ info.CPUMillis \in Nat
  BY OnlyType, UnitsFinite DEF PodInfo
<1>2. CASE p \in C
  <2>1. Only(g, C) = [h EXCEPT ![p] = info]
    BY <1>2 DEF Only, CoreMap
  <2> HIDE DEF g, h
  <2>2. Committed([h EXCEPT ![p] = info])
          = Committed(h) - h[p].CPUMillis + info.CPUMillis
    BY <1>1, CommittedUpdate
  <2>3. h[p].CPUMillis \in Nat
    BY <1>1, MillisType
  <2>4. Committed(Only(g, C)) <= Committed(h) + info.CPUMillis
    BY <1>1, <2>1, <2>2, <2>3
  <2> QED
    BY <2>4 DEF Budget, g, h
<1>3. CASE p \notin C
  <2>1. Only(g, C) = h
    BY <1>3 DEF Only, CoreMap
  <2> HIDE DEF g, h
  <2>2. Committed(Only(g, C)) <= Committed(h) + info.CPUMillis
    BY <1>1, <2>1
  <2> QED
    BY <2>2 DEF Budget, g, h
<1> QED
  BY <1>2, <1>3

\* Every check made for the place is taken back; no other place changes.
LEMMA RaiseOK ==
    ASSUME AdmissionInv, NEW n \in Nodes, NEW c \in CoreIDs, NEW p \in Pods,
           NEW info \in PodInfo, AddPodToCore(n, c, p, info), Raise(<<n, c>>)
    PROVE  PodsOK' /\ RequestsOK'
<1> DEFINE place == <<n, c>>
<1>1. PoolInv
  BY DEF AdmissionInv, LedgerOK
<1>2. ASSUME NEW m \in Nodes, NEW d \in Cores, <<m, d>> # <<n, c>>
      PROVE  corePods'[m][d] = corePods[m][d]
  <2>1. \A k \in Nodes, e \in Cores : <<k, e>> # <<n, c>> =>
           corePods'[k][e] = corePods[k][e] /\ usage'[k][e] = usage[k][e]
    BY <1>1, AddFacts
  <2> QED
    BY <1>2, <2>1
<1>3. ASSUME NEW at \in Nodes \X CoreIDs, at # place
      PROVE  MapAt(corePods', at) = MapAt(corePods, at)
  <2>1. at[1] \in Nodes /\ at[2] \in CoreIDs /\ <<at[1], at[2]>> # <<n, c>>
    BY <1>3
  <2> QED
    BY <1>2, <2>1 DEF MapAt
<1>4. ASSUME NEW q, NEW at \in Nodes \X CoreIDs, at # place, Holds(q, at, corePods)
      PROVE  Holds(q, at, corePods')
  BY <1>3, <1>4 DEF Holds
<1>5. ASSUME NEW r \in Requests PROVE RequestOK(Raised(request[r], place), corePods')
  <2>1. RequestOK(request[r], corePods) /\ request[r] \in Request
    BY RequestFacts
  <2>2. request[r].checked # <<>> => request[r].checked \in Nodes \X CoreIDs
    BY <2>1 DEF Request, Place
  <2>3. CASE request[r].checked = place
    <3> DEFINE s == [request[r] EXCEPT !.checked = <<>>]
    <3>1. /\ s \in Request /\ s.pc = request[r].pc /\ s.pod = request[r].pod
          /\ s.selected = request[r].selected /\ s.checked = <<>>
      BY <2>1 DEF Request, Place
    <3> HIDE DEF s
    <3>2. RequestOK(s, corePods')
      BY <2>1, <3>1 DEF RequestOK
    <3> QED
      BY <2>3, <3>2 DEF Raised, s
  <2>4. CASE request[r].checked # place
    <3>1. Raised(request[r], place) = request[r]
      BY <2>4 DEF Raised
    <3>2. RequestOK(request[r], corePods')
      BY <1>4, <2>1, <2>2, <2>4 DEF RequestOK
    <3> QED
      BY <3>1, <3>2
  <2> QED
    BY <2>3, <2>4
<1>6. ASSUME NEW q \in Pods PROVE PodOK(q, Raised(pod[q], place), corePods')
  <2>1. PodOK(q, pod[q], corePods) /\ pod[q] \in PodState
    BY DEF AdmissionInv, PodsOK, PodOK
  <2>2. CASE pod[q].checked = place
    <3> DEFINE s == [pod[q] EXCEPT !.checked = <<>>]
    <3>1. s \in PodState /\ s.checked = <<>>
      BY <2>1 DEF PodState, Place
    <3> HIDE DEF s
    <3>2. PodOK(q, s, corePods')
      BY <3>1 DEF PodOK
    <3> QED
      BY <2>2, <3>2 DEF Raised, s
  <2>3. CASE pod[q].checked # place
    <3>1. pod[q].checked # <<>> => pod[q].checked \in Nodes \X CoreIDs
      BY <2>1 DEF PodState, Place
    <3>2. Raised(pod[q], place) = pod[q]
      BY <2>3 DEF Raised
    <3> QED
      BY <1>4, <2>1, <2>3, <3>1, <3>2 DEF PodOK
  <2> QED
    BY <2>2, <2>3
<1>7. /\ pod' = [q \in Pods |-> Raised(pod[q], place)]
      /\ request' = [r \in Requests |-> Raised(request[r], place)]
  BY DEF Raise
<1> HIDE DEF place
<1> QED
  BY <1>5, <1>6, <1>7 DEF PodsOK, RequestsOK

LEMMA MigrateOnStep ==
    ASSUME AdmissionInv, MigrateOn
    PROVE  AdmissionInv'
<1> DEFINE w == worker
           n == w.node
           t == w.target
           v == w.victim
           info == registered(v)
           out == going \cup spared
<1>1. /\ w.pc = "migrateOn" /\ AddPodToCore(n, t, v, info) /\ Raise(<<n, t>>)
      /\ worker' = [w EXCEPT !.pc = "migrateStatus"]
      /\ UNCHANGED <<cr, crCache, going, spared, unsound, mishaps>>
  BY DEF MigrateOn
<1>2. PoolInv /\ LooseType /\ SoundFits /\ WorkerOK /\ RestOK
  BY LedgerTypes DEF AdmissionInv, LedgerOK
<1>3. /\ WorkerSafe(w, corePods, usage, out) /\ w \in Worker
      /\ n \in Nodes /\ w.core \in CoreIDs /\ v \in Pods /\ t \in Cores \ {w.core}
      /\ RoomFor(w, corePods, out) /\ VictimFits(w, usage)
  BY <1>1, <1>2 DEF WorkerOK, WorkerSafe
<1>4. info \in PodInfo /\ info.CPUMillis \in Nat /\ t \in CoreIDs
  BY <1>3, BudgetTypes, PoolAssumption DEF PodInfo
<1> HIDE DEF info, n, t, v
<1>5. /\ PoolInv' /\ corePods'[n][t] = [corePods[n][t] EXCEPT ![v] = info]
      /\ \A m \in Nodes, d \in Cores : <<m, d>> # <<n, t>> =>
            corePods'[m][d] = corePods[m][d]
  BY <1>1, <1>2, <1>3, <1>4, AddFacts
<1>6. PodsOK' /\ RequestsOK'
  BY <1>1, <1>3, <1>4, RaiseOK
<1>7. RestOK'
  BY <1>1, <1>2 DEF RestOK
<1>8. SoundFits'
  <2>1. \A m \in Nodes : Sound(m)' = Sound(m)
    BY <1>1 DEF Staying, Sound
  <2>2. Budget(corePods'[n][t], Sound(n)) <= RTCapacity
    <3> DEFINE f == corePods[n][t]
               S == Sound(n)
    <3>1. f \in CoreMap /\ usage[n][t] \in Nat /\ usage[n][t] >= Committed(f)
      BY <1>2, <1>3 DEF LooseType, PoolInv, PoolTypeOK, UsageCovers
    <3>2. usage[n][t] + info.CPUMillis <= UtilizationThreshold
      BY <1>3 DEF VictimFits, n, t, v, info
    <3> HIDE DEF f, S
    <3>3. /\ Budget(f, S) \in Nat /\ Budget(f, S) <= Committed(f) /\ Committed(f) \in Nat
      BY <3>1, BudgetOfAll, UnitsFinite
    <3>4. Budget([f EXCEPT ![v] = info], S) <= Budget(f, S) + info.CPUMillis
      BY <1>3, <1>4, <3>1, BudgetAdds
    <3>5. Budget([f EXCEPT ![v] = info], S) \in Nat
      <4>1. [f EXCEPT ![v] = info] \in CoreMap
        BY <1>3, <1>4, <3>1 DEF CoreMap
      <4> QED
        BY <4>1, BudgetOfAll
    <3>6. Budget([f EXCEPT ![v] = info], S) <= RTCapacity
      BY <1>4, <3>1, <3>2, <3>3, <3>4, <3>5, PlacementAssumption
    <3> QED
      BY <1>5, <3>6 DEF f, S
  <2>3. ASSUME NEW m \in Nodes, NEW d \in Cores
        PROVE  Budget(corePods'[m][d], Sound(m)) <= RTCapacity
    <3>1. CASE <<m, d>> = <<n, t>>
      BY <2>2, <3>1
    <3>2. CASE <<m, d>> # <<n, t>>
      BY <1>2, <1>5, <3>2 DEF SoundFits
    <3> QED
      BY <3>1, <3>2
  <2> QED
    BY <2>1, <2>3 DEF SoundFits
<1>9. WorkerOK'
  <2> DEFINE new == worker'
  <2>1. new = [w EXCEPT !.pc = "migrateStatus"]
    BY <1>1
  <2> HIDE DEF new
  <2>2. /\ new \in Worker /\ new.pc = "migrateStatus" /\ new.pod = w.pod /\ new.node = w.node
        /\ new.core = w.core /\ new.spec = w.spec /\ new.covered = w.covered
        /\ new.left = w.left /\ new.victim = w.victim /\ new.target = w.target
    BY <1>3, <2>1 DEF Worker
  <2>3. MapAt(corePods', <<w.node, w.core>>) = MapAt(corePods, <<w.node, w.core>>)
    <3>1. w.core \in Cores => corePods'[w.node][w.core] = corePods[w.node][w.core]
      <4>1. <<w.node, w.core>> # <<n, t>>
        BY <1>3
      <4> QED
        BY <1>3, <1>5, <4>1 DEF n
    <3> QED
      BY <3>1 DEF MapAt
  <2>4. RoomFor(new, corePods', out)
    BY <1>3, <2>2, <2>3 DEF RoomFor
  <2>5. WorkerSafe(new, corePods', usage', going' \cup spared')
    BY <1>1, <1>3, <2>2, <2>4 DEF WorkerSafe
  <2> QED
    BY <2>5 DEF WorkerOK, new
<1> QED
  BY <1>5, <1>6, <1>7, <1>8, <1>9 DEF AdmissionInv, LedgerOK

\* The idle worker has nothing to answer for.
LEMMA IdleSafe == \A cores, use, out : WorkerSafe(IdleWorker, cores, use, out)
<1>1. IdleWorker \in Worker /\ IdleWorker.pc = "idle"
  BY DEF IdleWorker, Worker
<1> QED
  BY <1>1 DEF WorkerSafe

\* A charge that is not covered is recorded in unsound; one that is covered
\* finds the room that was made for it.
LEMMA ChargeFits ==
    ASSUME AdmissionInv, NEW n \in Nodes, NEW c \in Cores, NEW p \in Pods,
           corePods'[n][c] = [corePods[n][c] EXCEPT ![p] = registered(p)],
           \A m \in Nodes, d \in Cores : <<m, d>> # <<n, c>> =>
               corePods'[m][d] = corePods[m][d],
           UNCHANGED <<going, spared>>, unsound \subseteq unsound',
           \/ <<p, n>> \in unsound'
           \/ Budget(corePods[n][c], Staying(n)) + registered(p).CPUMillis <= RTCapacity
    PROVE  SoundFits'
<1> DEFINE f == corePods[n][c]
           info == registered(p)
           g == [f EXCEPT ![p] = info]
           T == Sound(n)'
<1>1. PoolInv /\ LooseType /\ SoundFits
  BY LedgerTypes DEF AdmissionInv, LedgerOK
<1>2. \A m \in Nodes : \A q \in Sound(m)' : q \in Sound(m) /\ q \in Staying(m)
  BY DEF Staying, Sound
<1>3. info \in PodInfo /\ info.CPUMillis \in Nat /\ RTCapacity \in Nat
  BY BudgetTypes, PlacementAssumption DEF PodInfo
<1>4. ASSUME NEW m \in Nodes, NEW d \in Cores
      PROVE  Budget(corePods[m][d], Sound(m)') <= RTCapacity
  <2> DEFINE h == corePods[m][d]
             A == Sound(m)'
             B == Sound(m)
  <2>1. h \in CoreMap /\ Budget(h, B) <= RTCapacity
    BY <1>1 DEF SoundFits, LooseType
  <2>2. \A q \in Pods : q \in A => q \in B
    BY <1>2
  <2> HIDE DEF h, A, B
  <2>3. Budget(h, A) <= Budget(h, B) /\ Budget(h, A) \in Nat /\ Budget(h, B) \in Nat
    BY <2>1, <2>2, BudgetGrows, BudgetOfAll
  <2>4. Budget(h, A) <= RTCapacity
    BY <1>3, <2>1, <2>3
  <2> QED
    BY <2>4 DEF h, A
<1>5. f \in CoreMap
  BY <1>1 DEF LooseType
<1>6. Budget(g, T) <= RTCapacity
  <2>1. CASE <<p, n>> \in unsound'
    <3>1. p \notin T
      BY <2>1 DEF Sound
    <3>2. Budget(f, T) <= RTCapacity
      BY <1>4
    <3> HIDE DEF f, T, info
    <3>3. Only(g, T) = Only(f, T)
      BY <1>5, <3>1 DEF Only, CoreMap
    <3> QED
      BY <3>2, <3>3 DEF Budget
  <2>2. CASE Budget(f, Staying(n)) + info.CPUMillis <= RTCapacity
    <3> DEFINE D == Staying(n)
    <3>1. \A q \in Pods : q \in T => q \in D
      BY <1>2
    <3> HIDE DEF f, T, info, D
    <3>2. /\ Budget(f, T) <= Budget(f, D) /\ Budget(f, T) \in Nat /\ Budget(f, D) \in Nat
      BY <1>5, <3>1, BudgetGrows, BudgetOfAll
    <3>3. Budget(g, T) <= Budget(f, T) + info.CPUMillis
      BY <1>3, <1>5, BudgetAdds
    <3>4. Budget(g, T) \in Nat
      <4>1. g \in CoreMap
        BY <1>3, <1>5 DEF CoreMap
      <4> QED
        BY <4>1, BudgetOfAll
    <3>5. Budget(f, D) + info.CPUMillis <= RTCapacity
      BY <2>2 DEF D
    <3> HIDE DEF g
    <3> QED
      BY <1>3, <3>2, <3>3, <3>4, <3>5
  <2> QED
    BY <2>1, <2>2
<1>7. ASSUME NEW m \in Nodes, NEW d \in Cores
      PROVE  Budget(corePods'[m][d], Sound(m)') <= RTCapacity
  <2>1. CASE <<m, d>> = <<n, c>>
    BY <1>6, <2>1
  <2>2. CASE <<m, d>> # <<n, c>>
    BY <1>4, <2>2
  <2> QED
    BY <2>1, <2>2
<1> QED
  BY <1>7 DEF SoundFits

LEMMA UpdateCPUPoolStep ==
    ASSUME AdmissionInv, UpdateCPUPool
    PROVE  AdmissionInv'
<1> DEFINE w == worker
           p == w.pod
           n == w.node
           c == w.spec
           out == going \cup spared
<1>1. /\ w.pc = "preempt" /\ w.left = {} /\ worker' = IdleWorker
      /\ UNCHANGED <<cr, crCache, going, spared, mishaps>>
  BY DEF UpdateCPUPool
<1>2. \/ UNCHANGED <<poolVars, pod, request, unsound>>
      \/ /\ AddPodToCore(n, c, p, registered(p)) /\ Raise(<<n, c>>)
         /\ unsound' = IF w.covered THEN unsound ELSE unsound \cup {<<p, n>>}
  BY DEF UpdateCPUPool
<1>3. PoolInv /\ LooseType /\ SoundFits /\ WorkerOK /\ RestOK /\ PodsOK /\ RequestsOK
  BY LedgerTypes DEF AdmissionInv, LedgerOK
<1>4. /\ WorkerSafe(w, corePods, usage, out)
      /\ p \in Pods /\ n \in Nodes /\ c \in CoreIDs /\ w.covered \in BOOLEAN
      /\ w.covered => c = w.core
      /\ RoomFor(w, corePods, out)
  BY <1>1, <1>3 DEF WorkerOK, WorkerSafe, Worker
<1>5. WorkerOK'
  BY <1>1, IdleSafe DEF WorkerOK
<1>6. CASE UNCHANGED <<poolVars, pod, request, unsound>>
  <2>1. usage' = usage /\ corePods' = corePods /\ PoolInv'
    BY <1>3, <1>6, PoolInvStep DEF poolVars
  <2>2. Loses
    BY <1>3, <2>1, SameLoses
  <2>3. \A m \in Nodes : Sound(m)' = Sound(m)
    BY <1>1, <1>6 DEF Staying, Sound
  <2>4. SoundFits'
    BY <1>3, <2>2, <2>3, SoundKept
  <2>5. PodsOK' /\ RequestsOK'
    BY <1>3, <1>6, <2>2, PodUnchanged, RequestsKept
  <2>6. RestOK'
    BY <1>1, <1>3, <1>6 DEF RestOK
  <2> QED
    BY <1>5, <2>1, <2>4, <2>5, <2>6 DEF AdmissionInv, LedgerOK
<1>7. CASE /\ AddPodToCore(n, c, p, registered(p)) /\ Raise(<<n, c>>)
           /\ unsound' = IF w.covered THEN unsound ELSE unsound \cup {<<p, n>>}
  <2>1. registered(p) \in PodInfo
    BY <1>4, BudgetTypes
  <2>2. PodsOK' /\ RequestsOK'
    BY <1>4, <1>7, <2>1, RaiseOK
  <2>3. /\ PoolInv'
        /\ c \in Cores => corePods'[n][c] = [corePods[n][c] EXCEPT ![p] = registered(p)]
        /\ \A m \in Nodes, d \in Cores : <<m, d>> # <<n, c>> =>
              corePods'[m][d] = corePods[m][d]
    BY <1>3, <1>4, <1>7, <2>1, AddFacts
  <2>4. unsound' \subseteq Pods \X Nodes /\ unsound \subseteq unsound'
    BY <1>3, <1>4, <1>7 DEF RestOK
  <2>5. RestOK'
    BY <1>1, <1>3, <2>4 DEF RestOK
  <2>6. SoundFits'
    <3>1. CASE c \notin Cores
      <4>1. usage' = usage /\ corePods' = corePods
        BY <1>7, <3>1 DEF AddPodToCore
      <4>2. Loses
        BY <1>3, <4>1, SameLoses
      <4>3. \A m \in Nodes : \A q \in Sound(m)' : q \in Sound(m)
        BY <1>1, <2>4 DEF Staying, Sound
      <4> QED
        BY <1>3, <4>2, <4>3, SoundKept
    <3>2. CASE c \in Cores
      <4>1. ASSUME w.covered
            PROVE  Budget(corePods[n][c], Staying(n)) + registered(p).CPUMillis <= RTCapacity
        <5>1. MapAt(corePods, <<w.node, w.core>>) = corePods[n][c]
          BY <1>4, <3>2, <4>1 DEF MapAt
        <5>2. {q \in Pods : <<q, w.node>> \notin out /\ q \notin w.left} = Staying(n)
          BY <1>1 DEF Staying
        <5> QED
          BY <1>4, <4>1, <5>1, <5>2 DEF RoomFor
      <4>2. ~ w.covered => <<p, n>> \in unsound'
        BY <1>7
      <4>3. \/ <<p, n>> \in unsound'
            \/ Budget(corePods[n][c], Staying(n)) + registered(p).CPUMillis <= RTCapacity
        BY <4>1, <4>2
      <4> HIDE DEF p, n, c
      <4> QED
        BY <1>1, <1>4, <2>3, <2>4, <3>2, <4>3, ChargeFits
    <3> QED
      BY <3>1, <3>2
  <2> QED
    BY <1>5, <2>2, <2>3, <2>5, <2>6 DEF AdmissionInv, LedgerOK
<1> QED
  BY <1>2, <1>6, <1>7

-----------------------------------------------------------------------------
(***************************************************************************)
(* After a restart the ledger is empty: every check holds again.           *)
(***************************************************************************)
LEMMA BudgetOfEmpty == \A C : Budget(EmptyCore, C) = 0
<1>1. \A C : Only(EmptyCore, C) = EmptyCore
  BY DEF Only, EmptyCore
<1> QED
  BY <1>1, CommittedEmpty DEF Budget

LEMMA RestartOK ==
    ASSUME AdmissionInv, Restart
    PROVE  AdmissionInv'
<1>1. /\ corePods' = [n \in Nodes |-> [c \in Cores |-> EmptyCore]]
      /\ going' = {p \in Pods : pod[p].deleting} \X Nodes
      /\ spared' = {} /\ unsound' = {} /\ worker' = IdleWorker
      /\ pod' = pod /\ cr' = cr /\ crCache' = cr /\ Mishap
  BY DEF Restart, ProcessRestart
<1>2. PoolInv'
  BY RestartStep DEF Restart
<1>3. WorkerOK'
  BY <1>1, IdleSafe DEF WorkerOK
<1>4. SoundFits'
  BY <1>1, BudgetOfEmpty, PlacementAssumption DEF SoundFits
<1>5. RestOK'
  <2>1. going' \subseteq Pods \X Nodes
    BY <1>1
  <2> QED
    BY <1>1, <2>1, MishapType DEF AdmissionInv, RestOK
<1>6. ASSUME NEW place \in Nodes \X CoreIDs PROVE MapAt(corePods', place) = EmptyCore
  BY <1>1 DEF MapAt
<1>7. ASSUME NEW p, NEW place \in Nodes \X CoreIDs, Holds(p, place, corePods)
      PROVE  Holds(p, place, corePods')
  BY <1>6, <1>7, FitsEmpty DEF Holds
<1>8. PodsOK'
  <2>1. ASSUME NEW p \in Pods PROVE PodOK(p, pod[p], corePods')
    <3>1. PodOK(p, pod[p], corePods)
      BY DEF AdmissionInv, PodsOK
    <3>2. pod[p].checked # <<>> => pod[p].checked \in Nodes \X CoreIDs
      BY <3>1 DEF PodOK, PodState, Place
    <3> QED
      BY <1>7, <3>1, <3>2 DEF PodOK
  <2> QED
    BY <1>1, <2>1 DEF AdmissionInv, PodsOK
<1>9. RequestsOK'
  <2> DEFINE new(r) == IF request[r].pc \in {"mutate", "patch", "validate"}
                         THEN [request[r] EXCEPT !.pc = "denied"] ELSE request[r]
  <2>1. ASSUME NEW r \in Requests PROVE RequestOK(new(r), corePods')
    <3>1. RequestOK(request[r], corePods)
      BY DEF AdmissionInv, RequestsOK
    <3>2. request[r].checked # <<>> => request[r].checked \in Nodes \X CoreIDs
      BY <3>1 DEF RequestOK, Request, Place
    <3>3. RequestOK(request[r], corePods')
      BY <1>7, <3>1, <3>2 DEF RequestOK
    <3> QED
      BY <3>3, RequestUpdates
  <2>2. request' = [r \in Requests |-> new(r)]
    BY DEF Restart
  <2> HIDE DEF new
  <2> QED
    BY <2>1, <2>2 DEF RequestsOK
<1> QED
  BY <1>2, <1>3, <1>4, <1>5, <1>8, <1>9 DEF AdmissionInv, LedgerOK

-----------------------------------------------------------------------------
(***************************************************************************)
(* The invariant, and what it gives.                                       *)
(***************************************************************************)
LEMMA InitialAdmission == Init => AdmissionInv
<1> SUFFICES ASSUME Init PROVE AdmissionInv
  OBVIOUS
<1>1. corePods = [n \in Nodes |-> [c \in Cores |-> EmptyCore]] /\ PoolInit
  BY DEF Init, PoolInit
<1>2. LedgerOK
  <2>1. PoolInv
    BY <1>1, EmptyLedger
  <2>2. SoundFits
    BY <1>1, BudgetOfEmpty, PlacementAssumption DEF SoundFits
  <2>3. WorkerOK
    BY IdleSafe DEF Init, WorkerOK
  <2> QED
    BY <2>1, <2>2, <2>3 DEF LedgerOK
<1>3. \A b \in BOOLEAN : BlankCR(b) \in CR
  BY DEF BlankCR, CR
<1>4. RestOK
  <2>1. crCache = cr /\ cr = [p \in Pods |-> BlankCR(p \in Installed)]
    BY DEF Init
  <2>2. ASSUME NEW p \in Pods PROVE BlankCR(p \in Installed) \in CR
    <3>1. (p \in Installed) \in BOOLEAN
      OBVIOUS
    <3> QED
      BY <1>3, <3>1
  <2>3. cr \in [Pods -> CR]
    BY <2>1, <2>2
  <2> QED
    BY <2>1, <2>3, AdmissionAssumption DEF Init, RestOK
<1>5. PodsOK
  <2>1. \A p \in Pods : PodOK(p, AbsentPod, corePods)
    BY DEF PodOK, AbsentPod, PodState, Place
  <2> QED
    BY <2>1 DEF Init, PodsOK
<1>6. RequestsOK
  <2>1. BlankCR(FALSE) \in CR /\ <<>> \in Place
    BY <1>3 DEF Place
  <2>2. NewRequest \in Request
    BY <2>1 DEF NewRequest, Request
  <2>3. RequestOK(NewRequest, corePods)
    BY <2>2 DEF RequestOK, NewRequest
  <2> QED
    BY <2>3 DEF Init, RequestsOK
<1> QED
  BY <1>2, <1>4, <1>5, <1>6 DEF AdmissionInv

LEMMA AdmissionInvStep == AdmissionInv /\ [Next]_vars => AdmissionInv'
<1> SUFFICES ASSUME AdmissionInv, [Next]_vars PROVE AdmissionInv'
  OBVIOUS
<1>1. CASE \E r \in Requests : RequestStep(r)
  BY <1>1, RequestStepOK
<1>2. ASSUME NEW p \in Pods, PodStep(p) PROVE AdmissionInv'
  BY <1>2, CRStep, SchedulePodStep, ReconcileStep, PodEndStep, MigrateOffStep, CleanUpStep
     DEF PodStep
<1>3. CASE WorkerStep
  BY <1>3, MigrateOnStep, MigrateStatusStep, UpdateCPUPoolStep DEF WorkerStep
<1>4. CASE Restart
  BY <1>4, RestartOK
<1>5. CASE UNCHANGED vars
  <2>1. UNCHANGED <<ledgerVars, cr, crCache, pod, request, mishaps>>
    BY <1>5 DEF vars
  <2>2. RestOK'
    BY <2>1 DEF AdmissionInv, RestOK, ledgerVars
  <2> QED
    BY <2>1, <2>2, QuietStep
<1> QED
  BY <1>1, <1>2, <1>3, <1>4, <1>5 DEF Next

LEMMA AdmissionInvariant == Spec => []AdmissionInv
BY InitialAdmission, AdmissionInvStep, PTL DEF Spec

\* The CRs, the pods, the requests and the ledger are well typed in every
\* reachable state: in particular the webhooks write only cores to the CR
\* that the search can return, and no removal drives UsageMillis negative.
THEOREM AdmissionTypeCorrect == Spec => []TypeOK
<1>1. ASSUME AdmissionInv PROVE TypeOK
  <2>1. PoolTypeOK
    BY <1>1 DEF AdmissionInv, LedgerOK, PoolInv
  <2>2. pod \in [Pods -> PodState]
    BY <1>1 DEF AdmissionInv, PodsOK, PodOK
  <2>3. request \in [Requests -> Request]
    BY <1>1 DEF AdmissionInv, RequestsOK, RequestOK
  <2> QED
    BY <1>1, <2>1, <2>2, <2>3 DEF AdmissionInv, LedgerOK, WorkerOK, WorkerSafe, RestOK, TypeOK
<1> QED
  BY <1>1, AdmissionInvariant, PTL

\* However requests, charges, migrations, evictions that succeed or are
\* refused, late cleanups, deletions and restarts interleave: the pods of a
\* core that are there to stay exceed the RT capacity only if no check covers
\* the charge of one of them.  Two requests that were checked against the
\* same free budget cannot overload a core without the second charge being
\* counted as unsound, and a charge that is made beside victims which are
\* still in the ledger fits in once they have gone.
THEOREM OverloadOnlyUncovered == Spec => []OverloadNeedsStaleCheck
<1>1. ASSUME AdmissionInv PROVE OverloadNeedsStaleCheck
  <2> SUFFICES ASSUME NEW n \in Nodes, NEW c \in Cores,
                      \A p \in GetPodsOnCore(n, c) \cap Staying(n) : <<p, n>> \notin unsound
               PROVE  ~ (Budget(corePods[n][c], Staying(n)) > RTCapacity)
    BY DEF OverloadNeedsStaleCheck
  <2> DEFINE f == corePods[n][c]
             A == Staying(n)
             S == Sound(n)
  <2>1. f \in CoreMap /\ Budget(f, S) <= RTCapacity
    BY <1>1, LedgerTypes DEF AdmissionInv, LedgerOK, LooseType, SoundFits
  <2>2. \A q \in Pods : f[q] # NoPod => (q \in A <=> q \in S)
    BY DEF GetPodsOnCore, Sound
  <2> HIDE DEF f, A, S
  <2>3. Only(f, A) = Only(f, S)
    BY <2>1, <2>2 DEF Only, CoreMap
  <2>4. Budget(f, A) = Budget(f, S) /\ Budget(f, S) \in Nat
    BY <2>1, <2>3, BudgetOfAll DEF Budget
  <2>5. ~ (Budget(f, A) > RTCapacity)
    BY <2>1, <2>4, PlacementAssumption
  <2> QED
    BY <2>5 DEF f, A
<1> QED
  BY <1>1, AdmissionInvariant, PTL

\* Admission changes the ledger by the operations of the CPU pool only, so
\* every theorem about PoolSpec holds of it.
THEOREM AdmissionUsesLedger == Spec => PoolSpec
<1>1. Init => PoolInit
  BY DEF Init
<1>2. ASSUME AdmissionInv, [Next]_vars PROVE [PoolNext]_poolVars
  <2>1. ASSUME NEW r \in Requests, RequestStep(r) PROVE UNCHANGED poolVars
    BY <2>1 DEF RequestStep, Arrive, MutateNothing, Select, PatchMcKubeCore, PatchFails,
       ValidateNothing, ValidatePlace, ValidateCluster, ValidateSettings, CreatePod,
       TimeOut, Webhook, ledgerVars
  <2>2. ASSUME NEW p \in Pods, PodStep(p) PROVE [PoolNext]_poolVars
    <3>1. CASE \/ \E core \in CoreIDs \cup {NoCore}, node \in Nodes \cup {NoNode} :
                      CreateCR(p, core, node)
               \/ SyncCR(p) \/ (\E n \in Nodes : SchedulePod(p, n)) \/ SetNode(p)
      BY <3>1 DEF CreateCR, SyncCR, SchedulePod, SetNode, Webhook, ledgerVars
    <3>2. CASE Reconcile(p)
      <4>1. pod[p] \in PodState
        BY <1>2 DEF AdmissionInv, PodsOK, PodOK
      <4>2. pod[p].node \in Nodes /\ GetOrCreateCPUPool(pod[p].node)
        BY <3>2, <4>1 DEF Reconcile, Scheduled, PodState
      <4> QED
        BY <4>2 DEF PoolNext
    <3>3. CASE VictimGone(p) \/ EvictPod(p) \/ EvictRefused(p) \/ DeletePod(p) \/ RemovePod(p)
      BY <3>3 DEF VictimGone, EvictPod, EvictRefused, DeletePod, RemovePod
    <3>4. CASE MigrateOff(p)
      <4>1. worker.pc = "preempt" /\ RemovePodFromCore(worker.node, worker.core, p)
        BY <3>4 DEF MigrateOff, TakeVictim
      <4>2. worker.node \in Nodes /\ worker.core \in CoreIDs
        BY <1>2, <4>1 DEF AdmissionInv, LedgerOK, WorkerOK, WorkerSafe
      <4> QED
        BY <4>1, <4>2 DEF PoolNext
    <3>5. ASSUME NEW n \in Nodes, CleanUp(p, n) PROVE [PoolNext]_poolVars
      BY <3>5 DEF CleanUp, PoolNext
    <3> QED
      BY <2>2, <3>1, <3>2, <3>3, <3>4, <3>5 DEF PodStep
  <2>3. CASE WorkerStep
    <3>1. CASE MigrateOn
      <4>1. /\ worker.pc = "migrateOn"
            /\ AddPodToCore(worker.node, worker.target, worker.victim,
                            registered(worker.victim))
        BY <3>1 DEF MigrateOn
      <4>2. worker.node \in Nodes /\ worker.target \in CoreIDs /\ worker.victim \in Pods
        BY <1>2, <4>1, PoolAssumption DEF AdmissionInv, LedgerOK, WorkerOK, WorkerSafe
      <4>3. registered(worker.victim) \in PodInfo
        BY <4>2, BudgetTypes
      <4> QED
        BY <4>1, <4>2, <4>3 DEF PoolNext
    <3>2. CASE MigrateStatus
      BY <3>2 DEF MigrateStatus
    <3>3. CASE UpdateCPUPool
      <4>1. /\ worker.pc = "preempt"
            /\ \/ UNCHANGED poolVars
               \/ AddPodToCore(worker.node, worker.spec, worker.pod, registered(worker.pod))
        BY <3>3 DEF UpdateCPUPool
      <4>2. worker.node \in Nodes /\ worker.spec \in CoreIDs /\ worker.pod \in Pods
        BY <1>2, <4>1 DEF AdmissionInv, LedgerOK, WorkerOK, WorkerSafe
      <4>3. registered(worker.pod) \in PodInfo
        BY <4>2, BudgetTypes
      <4> QED
        BY <4>1, <4>2, <4>3 DEF PoolNext
    <3> QED
      BY <2>3, <3>1, <3>2, <3>3 DEF WorkerStep
  <2>4. CASE Restart
    BY <2>4 DEF Restart, PoolNext
  <2>5. CASE UNCHANGED vars
    BY <2>5 DEF vars, ledgerVars
  <2> QED
    BY <1>2, <2>1, <2>2, <2>3, <2>4, <2>5 DEF Next
<1> QED
  BY <1>1, <1>2, AdmissionInvariant, PTL DEF Spec, PoolSpec
============
