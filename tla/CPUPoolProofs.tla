--------------------------- MODULE CPUPoolProofs ---------------------------
(***************************************************************************)
(* Proofs about the RT budget ledger, for every set of nodes, cores and    *)
(* pods.  The lemmas say how Committed, the sum of the registered budgets, *)
(* moves when one entry or a set of entries changes; the theorems follow.  *)
(***************************************************************************)
EXTENDS CPUPool, FiniteSetTheorems, TLAPS

CoreMap == [Pods -> PodInfo \cup {NoPod}]

\* A budget, or the zero of a map miss, is a natural number.
LEMMA MillisType ==
    ASSUME NEW f \in CoreMap, NEW p \in Pods
    PROVE  f[p].CPUMillis \in Nat
<1>1. f[p] \in PodInfo \/ f[p] = NoPod
  BY DEF CoreMap
<1>2. CASE f[p] \in PodInfo
  BY <1>2 DEF PodInfo
<1>3. CASE f[p] = NoPod
  BY <1>3 DEF NoPod
<1> QED BY <1>1, <1>2, <1>3

\* The budget units of a core, as pairs.
LEMMA UnitsMember ==
    ASSUME NEW f
    PROVE  \A u : u \in Units(f) <=>
              \E p \in Pods : u \in {p} \X (1 .. f[p].CPUMillis)
BY DEF Units

\* 1 .. m has m elements.
LEMMA IntervalCard ==
    ASSUME NEW m \in Nat
    PROVE  IsFiniteSet(1 .. m) /\ Cardinality(1 .. m) = m
<1>1. /\ IsFiniteSet(1 .. m)
      /\ Cardinality(1 .. m) = IF 1 > m THEN 0 ELSE m - 1 + 1
  BY FS_Interval
<1> QED BY <1>1

\* A core holds finitely many units, because there are finitely many pods.
LEMMA UnitsFinite ==
    ASSUME NEW f \in CoreMap
    PROVE  IsFiniteSet(Units(f)) /\ Committed(f) \in Nat
<1> DEFINE S == {{p} \X (1 .. f[p].CPUMillis) : p \in Pods}
           g == [p \in Pods |-> {p} \X (1 .. f[p].CPUMillis)]
<1>1. IsFiniteSet(Pods)
  BY PoolAssumption
<1>2. g \in Surjection(Pods, S)
  BY DEF Surjection
<1>3. IsFiniteSet(S)
  BY <1>1, <1>2, FS_Surjection
<1>4. ASSUME NEW T \in S PROVE IsFiniteSet(T)
  <2>1. PICK p \in Pods : T = {p} \X (1 .. f[p].CPUMillis)
    OBVIOUS
  <2>2. IsFiniteSet({p}) /\ IsFiniteSet(1 .. f[p].CPUMillis)
    <3>1. f[p].CPUMillis \in Nat
      BY MillisType
    <3> HIDE DEF S, g
    <3> QED BY <3>1, IntervalCard, FS_Singleton
  <2> HIDE DEF S
  <2> QED
    BY <2>1, <2>2, FS_Product
<1>5. IsFiniteSet(UNION S)
  <2> HIDE DEF S
  <2> QED BY <1>3, <1>4, FS_UNION
<1> QED
  BY <1>5, FS_CardinalityType DEF Units, Committed

\* Restricting a core to some pods leaves a core map.
LEMMA OnlyType ==
    ASSUME NEW f \in CoreMap, NEW G
    PROVE  Only(f, G) \in CoreMap
BY DEF Only, CoreMap

\* The committed budget splits over a set of pods and the rest.
LEMMA CommittedSplit ==
    ASSUME NEW f \in CoreMap, NEW G
    PROVE  Committed(f) = Committed(Only(f, G)) + Committed(Only(f, Pods \ G))
<1> DEFINE A == Units(Only(f, G))
           B == Units(Only(f, Pods \ G))
<1>1. IsFiniteSet(A) /\ IsFiniteSet(B)
  BY OnlyType, UnitsFinite
<1>2. ASSUME NEW p \in Pods
      PROVE  /\ p \in G    => /\ Only(f, G)[p].CPUMillis = f[p].CPUMillis
                              /\ Only(f, Pods \ G)[p].CPUMillis = 0
             /\ p \notin G => /\ Only(f, G)[p].CPUMillis = 0
                              /\ Only(f, Pods \ G)[p].CPUMillis = f[p].CPUMillis
  BY DEF Only, NoPod
<1>3. Units(f) = A \cup B
  <2>1. ASSUME NEW u, u \in Units(f) PROVE u \in A \cup B
    <3>1. PICK p \in Pods : u \in {p} \X (1 .. f[p].CPUMillis)
      BY <2>1, UnitsMember
    <3>2. CASE p \in G
      BY <3>1, <3>2, <1>2, UnitsMember
    <3>3. CASE p \notin G
      BY <3>1, <3>3, <1>2, UnitsMember
    <3> QED BY <3>2, <3>3
  <2>2. ASSUME NEW u, u \in A PROVE u \in Units(f)
    <3>1. PICK p \in Pods : u \in {p} \X (1 .. Only(f, G)[p].CPUMillis)
      BY <2>2, UnitsMember
    <3>2. CASE p \in G
      BY <3>1, <3>2, <1>2, UnitsMember
    <3>3. CASE p \notin G
      BY <3>1, <3>3, <1>2
    <3> QED BY <3>2, <3>3
  <2>3. ASSUME NEW u, u \in B PROVE u \in Units(f)
    <3>1. PICK p \in Pods : u \in {p} \X (1 .. Only(f, Pods \ G)[p].CPUMillis)
      BY <2>3, UnitsMember
    <3>2. CASE p \in G
      <4>1. Only(f, Pods \ G)[p].CPUMillis = 0
        BY <3>2, <1>2
      <4> QED BY <3>1, <4>1
    <3>3. CASE p \notin G
      BY <3>1, <3>3, <1>2, UnitsMember
    <3> QED BY <3>2, <3>3
  <2> QED BY <2>1, <2>2, <2>3
<1>4. A \cap B = {}
  <2> SUFFICES ASSUME NEW u, u \in A, u \in B PROVE FALSE
    OBVIOUS
  <2>1. PICK p \in Pods : u \in {p} \X (1 .. Only(f, G)[p].CPUMillis)
    BY UnitsMember
  <2>2. PICK q \in Pods : u \in {q} \X (1 .. Only(f, Pods \ G)[q].CPUMillis)
    BY UnitsMember
  <2>3. p = q
    BY <2>1, <2>2
  <2>4. CASE p \in G
    <3>1. Only(f, Pods \ G)[q].CPUMillis = 0
      BY <2>3, <2>4, <1>2
    <3> QED BY <2>2, <3>1
  <2>5. CASE p \notin G
    BY <2>1, <2>5, <1>2
  <2> QED BY <2>4, <2>5
<1>5. Cardinality(A \cup B) = Cardinality(A) + Cardinality(B)
  <2>1. Cardinality(A) \in Nat /\ Cardinality(B) \in Nat
    BY <1>1, FS_CardinalityType
  <2> HIDE DEF A, B
  <2> QED BY <1>1, <1>4, <2>1, FS_Union, FS_EmptySet
<1> QED BY <1>3, <1>5 DEF Committed

\* One pod commits exactly its budget.
LEMMA CommittedPoint ==
    ASSUME NEW f \in CoreMap, NEW p \in Pods
    PROVE  Committed(Only(f, {p})) = f[p].CPUMillis
<1> DEFINE m == f[p].CPUMillis
<1>1. m \in Nat
  BY MillisType
<1>2. ASSUME NEW q \in Pods
      PROVE Only(f, {p})[q].CPUMillis = IF q = p THEN m ELSE 0
  BY DEF Only, NoPod
<1> HIDE DEF m
<1>3. Units(Only(f, {p})) = {p} \X (1 .. m)
  <2>1. ASSUME NEW u, u \in Units(Only(f, {p})) PROVE u \in {p} \X (1 .. m)
    <3>1. PICK q \in Pods : u \in {q} \X (1 .. Only(f, {p})[q].CPUMillis)
      BY <2>1, UnitsMember
    <3>2. CASE q = p
      BY <3>1, <3>2, <1>2
    <3>3. CASE q # p
      BY <3>1, <3>3, <1>2
    <3> QED BY <3>2, <3>3
  <2>2. ASSUME NEW u, u \in {p} \X (1 .. m) PROVE u \in Units(Only(f, {p}))
    BY <2>2, <1>2, UnitsMember
  <2> QED BY <2>1, <2>2
<1>4. /\ IsFiniteSet({p}) /\ Cardinality({p}) = 1
      /\ IsFiniteSet(1 .. m) /\ Cardinality(1 .. m) = m
  BY <1>1, FS_Singleton, IntervalCard
<1>5. Cardinality({p} \X (1 .. m)) = 1 * m
  <2>1. Cardinality({p} \X (1 .. m)) = Cardinality({p}) * Cardinality(1 .. m)
    BY <1>4, FS_Product
  <2> QED BY <2>1, <1>4
<1>6. Committed(Only(f, {p})) = m
  BY <1>1, <1>3, <1>5 DEF Committed
<1> QED BY <1>6 DEF m

\* An empty core commits nothing.
LEMMA CommittedEmpty == Committed(EmptyCore) = 0
<1>1. \A p \in Pods : EmptyCore[p].CPUMillis = 0
  BY DEF EmptyCore, NoPod
<1>2. Units(EmptyCore) = {}
  BY <1>1, UnitsMember
<1> QED BY <1>2, FS_EmptySet DEF Committed

\* Replacing one entry moves the committed budget by the difference.
LEMMA CommittedUpdate ==
    ASSUME NEW f \in CoreMap, NEW p \in Pods, NEW x \in PodInfo \cup {NoPod}
    PROVE  Committed([f EXCEPT ![p] = x])
              = Committed(f) - f[p].CPUMillis + x.CPUMillis
<1> DEFINE g == [f EXCEPT ![p] = x]
<1>1. g \in CoreMap /\ g[p] = x
  BY DEF CoreMap
<1>2. Only(g, Pods \ {p}) = Only(f, Pods \ {p})
  BY DEF Only, CoreMap
<1>3. /\ Committed(f) = f[p].CPUMillis + Committed(Only(f, Pods \ {p}))
      /\ Committed(g) = x.CPUMillis + Committed(Only(f, Pods \ {p}))
  <2> HIDE DEF g
  <2> QED BY <1>1, <1>2, CommittedSplit, CommittedPoint
<1>4. /\ f[p].CPUMillis \in Nat /\ x.CPUMillis \in Nat
      /\ Committed(Only(f, Pods \ {p})) \in Nat
  BY MillisType, OnlyType, UnitsFinite DEF PodInfo, NoPod
<1> QED BY <1>3, <1>4
-----------------------------------------------------------------------------
(***************************************************************************)
(* The inductive invariant.  UsageMillis stays a natural number only       *)
(* because it covers the registered budgets, and creating a pool is        *)
(* harmless only because a node without one has nothing on the books.      *)
(***************************************************************************)
UnpooledEmpty ==
    \A n \in Nodes \ pooled : /\ usage[n] = [c \in Cores |-> 0]
                              /\ corePods[n] = [c \in Cores |-> EmptyCore]

PoolInv == PoolTypeOK /\ UsageCovers /\ UnpooledEmpty

\* What every step but a restart keeps, before the sign of usage is known.
LooseType ==
    /\ pooled \subseteq Nodes
    /\ usage \in [Nodes -> [Cores -> Int]]
    /\ corePods \in [Nodes -> [Cores -> CoreMap]]

\* In a typed state, the two numbers compared by UsageCovers are integers.
LEMMA DriftType ==
    ASSUME LooseType, NEW n \in Nodes, NEW c \in Cores
    PROVE  /\ corePods[n][c] \in CoreMap
           /\ Committed(corePods[n][c]) \in Nat
           /\ usage[n][c] \in Int
<1>1. corePods[n][c] \in CoreMap /\ usage[n][c] \in Int
  BY DEF LooseType
<1> QED BY <1>1, UnitsFinite

\* A step that respects DriftStep on every core keeps usage above the
\* registered budgets, and hence natural.
LEMMA DriftKeepsCover ==
    ASSUME PoolTypeOK, UsageCovers, LooseType',
           \A n \in Nodes, c \in Cores : DriftStep(n, c)
    PROVE  PoolTypeOK' /\ UsageCovers'
<1>1. LooseType
  BY DEF PoolTypeOK, LooseType, CoreMap
<1>2. ASSUME NEW n \in Nodes, NEW c \in Cores
      PROVE  usage'[n][c] >= Committed(corePods'[n][c]) /\ usage'[n][c] \in Nat
  <2>1. /\ usage[n][c] \in Int /\ Committed(corePods[n][c]) \in Nat
        /\ corePods[n][c] \in CoreMap
    BY <1>1, DriftType
  <2>2. usage'[n][c] \in Int /\ Committed(corePods'[n][c]) \in Nat
    <3>1. corePods'[n][c] \in CoreMap /\ usage'[n][c] \in Int
      BY DEF LooseType
    <3> QED BY <3>1, UnitsFinite
  <2>3. usage[n][c] >= Committed(corePods[n][c])
    BY DEF UsageCovers
  <2>4. CASE Drift(n, c)' = Drift(n, c)
    BY <2>1, <2>2, <2>3, <2>4 DEF Drift
  <2>5. CASE \E p \in Pods :
                Drift(n, c)' = Drift(n, c) + corePods[n][c][p].CPUMillis
    <3>1. PICK p \in Pods :
                Drift(n, c)' = Drift(n, c) + corePods[n][c][p].CPUMillis
      BY <2>5
    <3>2. corePods[n][c][p].CPUMillis \in Nat
      BY <2>1, MillisType
    <3> QED BY <2>1, <2>2, <2>3, <3>1, <3>2 DEF Drift
  <2> QED BY <2>4, <2>5 DEF DriftStep
<1>3. UsageCovers'
  BY <1>2 DEF UsageCovers
<1>4. usage' \in [Nodes -> [Cores -> Nat]]
  BY <1>2 DEF LooseType
<1> QED BY <1>3, <1>4 DEF LooseType, PoolTypeOK, CoreMap

\* Registering a pod moves the drift of that core, and of no other, by the
\* budget it overwrites.
LEMMA AddStep ==
    ASSUME LooseType, NEW n \in Nodes, NEW c \in CoreIDs, NEW p \in Pods,
           NEW info \in PodInfo, AddPodToCore(n, c, p, info)
    PROVE  LooseType' /\ \A m \in Nodes, d \in Cores : DriftStep(m, d)
<1>1. CASE c \notin Cores
  BY <1>1 DEF AddPodToCore, LooseType, DriftStep, Drift
<1>2. CASE c \in Cores
  <2>1. /\ corePods' = [corePods EXCEPT ![n][c][p] = info]
        /\ usage' = [usage EXCEPT ![n][c] = @ + info.CPUMillis]
        /\ pooled' = pooled
    BY <1>2 DEF AddPodToCore
  <2>2. info.CPUMillis \in Nat
    BY DEF PodInfo
  <2>3. LooseType'
    BY <1>2, <2>1, <2>2 DEF LooseType, CoreMap
  <2>4. ASSUME NEW m \in Nodes, NEW d \in Cores PROVE DriftStep(m, d)
    <3>1. CASE m = n /\ d = c
      <4>1. /\ corePods'[n][c] = [corePods[n][c] EXCEPT ![p] = info]
            /\ usage'[n][c] = usage[n][c] + info.CPUMillis
        BY <1>2, <2>1 DEF LooseType
      <4>2. /\ corePods[n][c] \in CoreMap /\ usage[n][c] \in Int
            /\ Committed(corePods[n][c]) \in Nat
        BY <1>2, DriftType
      <4>3. corePods[n][c][p].CPUMillis \in Nat
        BY <4>2, MillisType
      <4>4. Committed(corePods'[n][c]) =
              Committed(corePods[n][c]) - corePods[n][c][p].CPUMillis + info.CPUMillis
        BY <4>1, <4>2, CommittedUpdate
      <4>5. Drift(n, c)' = Drift(n, c) + corePods[n][c][p].CPUMillis
        BY <4>1, <4>2, <4>3, <4>4, <2>2 DEF Drift
      <4>6. CASE corePods[n][c][p] = NoPod
        <5>1. corePods[n][c][p].CPUMillis = 0
          BY <4>6 DEF NoPod
        <5>2. Drift(n, c) \in Int
          BY <4>2 DEF Drift
        <5> QED BY <3>1, <4>5, <5>1, <5>2 DEF DriftStep
      <4>7. CASE corePods[n][c][p] # NoPod
        <5>1. corePods'[n][c][p] = info
          BY <4>1, <4>2 DEF CoreMap
        <5>2. info # NoPod
          BY DEF PodInfo, NoPod
        <5> QED BY <3>1, <4>5, <4>7, <5>1, <5>2 DEF DriftStep
      <4> QED BY <4>6, <4>7
    <3>2. CASE ~(m = n /\ d = c)
      <4>1. corePods'[m][d] = corePods[m][d] /\ usage'[m][d] = usage[m][d]
        BY <1>2, <2>1, <3>2 DEF LooseType
      <4> QED BY <4>1 DEF DriftStep, Drift
    <3> QED BY <3>1, <3>2
  <2> QED BY <2>3, <2>4
<1> QED BY <1>1, <1>2

\* Removing a pod from one core gives back exactly its budget.
LEMMA RemoveStep ==
    ASSUME LooseType, NEW n \in Nodes, NEW c \in CoreIDs, NEW p \in Pods,
           RemovePodFromCore(n, c, p)
    PROVE  LooseType' /\ \A m \in Nodes, d \in Cores : DriftStep(m, d)
<1>1. CASE c \notin Cores
  BY <1>1 DEF RemovePodFromCore, LooseType, DriftStep, Drift
<1>2. CASE c \in Cores
  <2> DEFINE old == corePods[n][c][p].CPUMillis
  <2>1. /\ corePods' = [corePods EXCEPT ![n][c][p] = NoPod]
        /\ usage' = [usage EXCEPT ![n][c] = @ - old]
        /\ pooled' = pooled
    BY <1>2 DEF RemovePodFromCore
  <2>2. /\ corePods[n][c] \in CoreMap /\ usage[n][c] \in Int
        /\ Committed(corePods[n][c]) \in Nat
    BY <1>2, DriftType
  <2>3. old \in Nat
    BY <2>2, MillisType
  <2> HIDE DEF old
  <2>4. LooseType'
    BY <1>2, <2>1, <2>3 DEF LooseType, CoreMap
  <2>5. ASSUME NEW m \in Nodes, NEW d \in Cores PROVE DriftStep(m, d)
    <3>1. CASE m = n /\ d = c
      <4>1. /\ corePods'[n][c] = [corePods[n][c] EXCEPT ![p] = NoPod]
            /\ usage'[n][c] = usage[n][c] - old
        BY <1>2, <2>1 DEF LooseType
      <4>2. Committed(corePods'[n][c]) = Committed(corePods[n][c]) - old
        <5>1. Committed(corePods'[n][c]) =
                Committed(corePods[n][c]) - old + NoPod.CPUMillis
          BY <4>1, <2>2, CommittedUpdate DEF old
        <5> QED BY <5>1, <2>2, <2>3 DEF NoPod
      <4> QED BY <3>1, <4>1, <4>2, <2>2, <2>3 DEF DriftStep, Drift
    <3>2. CASE ~(m = n /\ d = c)
      <4>1. corePods'[m][d] = corePods[m][d] /\ usage'[m][d] = usage[m][d]
        BY <1>2, <2>1, <3>2 DEF LooseType
      <4> QED BY <4>1 DEF DriftStep, Drift
    <3> QED BY <3>1, <3>2
  <2> QED BY <2>4, <2>5
<1> QED BY <1>1, <1>2

\* Dropping a set of pods from a node gives back exactly their budgets.
LEMMA DropStep ==
    ASSUME LooseType, NEW n \in Nodes, NEW G, DropPods(n, G)
    PROVE  LooseType' /\ \A m \in Nodes, d \in Cores : DriftStep(m, d)
<1> DEFINE Kept == [c \in Cores |-> Only(corePods[n][c], Pods \ G)]
           Left == [c \in Cores |->
                      usage[n][c] - Committed(Only(corePods[n][c], G))]
<1>1. /\ corePods' = [corePods EXCEPT ![n] = Kept]
      /\ usage' = [usage EXCEPT ![n] = Left]
      /\ pooled' = pooled
  BY DEF DropPods
<1>2. ASSUME NEW c \in Cores
      PROVE  /\ corePods[n][c] \in CoreMap /\ usage[n][c] \in Int
             /\ Only(corePods[n][c], Pods \ G) \in CoreMap
             /\ Committed(Only(corePods[n][c], Pods \ G)) \in Nat
             /\ Committed(Only(corePods[n][c], G)) \in Nat
  BY DriftType, OnlyType, UnitsFinite
<1>3. Kept \in [Cores -> CoreMap] /\ Left \in [Cores -> Int]
  <2>1. \A c \in Cores : usage[n][c] - Committed(Only(corePods[n][c], G)) \in Int
    BY <1>2
  <2> QED BY <1>2, <2>1
<1>4. \A c \in Cores : /\ Kept[c] = Only(corePods[n][c], Pods \ G)
                       /\ Left[c] = usage[n][c] - Committed(Only(corePods[n][c], G))
  OBVIOUS
<1> HIDE DEF Kept, Left
<1>5. LooseType'
  BY <1>1, <1>3 DEF LooseType
<1>6. ASSUME NEW m \in Nodes, NEW d \in Cores PROVE DriftStep(m, d)
  <2>1. CASE m = n
    <3>1. /\ corePods'[n][d] = Only(corePods[n][d], Pods \ G)
          /\ usage'[n][d] = usage[n][d] - Committed(Only(corePods[n][d], G))
      BY <1>1, <1>4 DEF LooseType
    <3>2. Committed(corePods[n][d]) = Committed(Only(corePods[n][d], G))
                                      + Committed(Only(corePods[n][d], Pods \ G))
      BY <1>2, CommittedSplit
    <3> DEFINE gone == Committed(Only(corePods[n][d], G))
               kept == Committed(Only(corePods[n][d], Pods \ G))
    <3>3. gone \in Nat /\ kept \in Nat /\ usage[n][d] \in Int
      BY <1>2
    <3>4. /\ Drift(n, d)' = (usage[n][d] - gone) - kept
          /\ Drift(n, d) = usage[n][d] - (gone + kept)
      BY <3>1, <3>2 DEF Drift
    <3> HIDE DEF gone, kept
    <3>5. Drift(n, d)' = Drift(n, d)
      BY <3>3, <3>4
    <3> QED BY <2>1, <3>5 DEF DriftStep
  <2>2. CASE m # n
    <3>1. corePods'[m] = corePods[m] /\ usage'[m] = usage[m]
      BY <1>1, <2>2 DEF LooseType
    <3> QED BY <3>1 DEF DriftStep, Drift
  <2> QED BY <2>1, <2>2
<1> QED BY <1>5, <1>6

\* Creating a pool only touches a node that has nothing registered.
LEMMA CreateStep ==
    ASSUME LooseType, UnpooledEmpty, NEW n \in Nodes, GetOrCreateCPUPool(n)
    PROVE  usage' = usage /\ corePods' = corePods /\ pooled' = pooled \cup {n}
<1>1. CASE n \in pooled
  BY <1>1 DEF GetOrCreateCPUPool
<1>2. CASE n \notin pooled
  <2>1. /\ usage[n] = [c \in Cores |-> 0]
        /\ corePods[n] = [c \in Cores |-> EmptyCore]
    BY <1>2 DEF UnpooledEmpty
  <2>2. /\ usage' = [usage EXCEPT ![n] = usage[n]]
        /\ corePods' = [corePods EXCEPT ![n] = corePods[n]]
        /\ pooled' = pooled \cup {n}
    BY <1>2, <2>1 DEF GetOrCreateCPUPool
  <2> QED BY <2>2 DEF LooseType
<1> QED BY <1>1, <1>2

\* The empty ledger, at start-up and after a restart, is a good one.
LEMMA EmptyLedger == PoolInit => PoolInv
<1> SUFFICES ASSUME PoolInit PROVE PoolInv
  OBVIOUS
<1>1. EmptyCore \in CoreMap
  BY DEF EmptyCore, CoreMap
<1>2. PoolTypeOK
  BY <1>1 DEF PoolInit, PoolTypeOK, CoreMap
<1>3. UsageCovers
  BY CommittedEmpty DEF PoolInit, UsageCovers
<1> QED BY <1>2, <1>3 DEF PoolInit, UnpooledEmpty, PoolInv

\* A step other than a restart keeps the invariant and respects DriftStep.
LEMMA PoolStep ==
    ASSUME PoolInv, PoolNext, ~ ProcessRestart
    PROVE  PoolInv' /\ \A n \in Nodes, c \in Cores : DriftStep(n, c)
<1>1. LooseType
  BY DEF PoolInv, PoolTypeOK, LooseType, CoreMap
<1> DEFINE Goal == /\ LooseType'
                   /\ \A n \in Nodes, c \in Cores : DriftStep(n, c)
                   /\ UnpooledEmpty'
<1>2. ASSUME NEW n \in Nodes, GetOrCreateCPUPool(n) PROVE Goal
  <2>1. usage' = usage /\ corePods' = corePods /\ pooled' = pooled \cup {n}
    BY <1>1, <1>2, CreateStep DEF PoolInv
  <2> QED BY <1>1, <2>1 DEF LooseType, DriftStep, Drift, UnpooledEmpty, PoolInv
<1>3. ASSUME NEW n \in Nodes, n \in pooled, pooled' = pooled,
             \A m \in Nodes \ {n} : usage'[m] = usage[m] /\ corePods'[m] = corePods[m]
      PROVE  UnpooledEmpty'
  BY <1>3 DEF UnpooledEmpty, PoolInv
<1>4. ASSUME NEW n \in Nodes, NEW c \in CoreIDs, NEW p \in Pods,
             NEW info \in PodInfo, AddPodToCore(n, c, p, info)
      PROVE  Goal
  <2>1. LooseType' /\ \A m \in Nodes, d \in Cores : DriftStep(m, d)
    BY <1>1, <1>4, AddStep
  <2>2. UnpooledEmpty'
    BY <1>1, <1>3, <1>4 DEF AddPodToCore, LooseType
  <2> QED BY <2>1, <2>2
<1>5. ASSUME NEW n \in Nodes, NEW c \in CoreIDs, NEW p \in Pods,
             RemovePodFromCore(n, c, p)
      PROVE  Goal
  <2>1. LooseType' /\ \A m \in Nodes, d \in Cores : DriftStep(m, d)
    BY <1>1, <1>5, RemoveStep
  <2>2. UnpooledEmpty'
    BY <1>1, <1>3, <1>5 DEF RemovePodFromCore, LooseType
  <2> QED BY <2>1, <2>2
<1>6. ASSUME NEW n \in Nodes, NEW G, DropPods(n, G)
      PROVE  Goal
  <2>1. LooseType' /\ \A m \in Nodes, d \in Cores : DriftStep(m, d)
    BY <1>1, <1>6, DropStep
  <2>2. UnpooledEmpty'
    BY <1>1, <1>3, <1>6 DEF DropPods, LooseType
  <2> QED BY <2>1, <2>2
<1>7. Goal
  <2> HIDE DEF Goal
  <2> QED
    BY <1>2, <1>4, <1>5, <1>6 DEF PoolNext, RemovePodFromPool, RemovePodsNotIn
<1> QED BY <1>7, DriftKeepsCover DEF PoolInv

\* A restart starts the ledger over.
LEMMA RestartStep == ProcessRestart => PoolInv'
<1> SUFFICES ASSUME ProcessRestart PROVE PoolInv'
  OBVIOUS
<1>1. EmptyCore \in CoreMap
  BY DEF EmptyCore, CoreMap
<1>2. PoolTypeOK'
  BY <1>1 DEF ProcessRestart, PoolTypeOK, CoreMap
<1>3. UsageCovers'
  BY CommittedEmpty DEF ProcessRestart, UsageCovers
<1> QED BY <1>2, <1>3 DEF ProcessRestart, UnpooledEmpty, PoolInv

\* The invariant is inductive.
LEMMA PoolInvStep == PoolInv /\ [PoolNext]_poolVars => PoolInv'
<1> SUFFICES ASSUME PoolInv, [PoolNext]_poolVars PROVE PoolInv'
  OBVIOUS
<1>1. CASE PoolNext
  BY <1>1, PoolStep, RestartStep
<1>2. CASE UNCHANGED poolVars
  BY <1>2 DEF poolVars, PoolInv, PoolTypeOK, UsageCovers, UnpooledEmpty
<1> QED BY <1>1, <1>2

LEMMA PoolInvariant == PoolSpec => []PoolInv
BY PoolInvStep, EmptyLedger, PTL DEF PoolSpec

-----------------------------------------------------------------------------
\* Every reachable ledger is well typed: no removal, in whatever order the
\* reconciler, the pod-event handler and the finalizer call them, drives
\* UsageMillis below zero.
THEOREM PoolTypeCorrect == PoolSpec => []PoolTypeOK
<1>1. PoolInv => PoolTypeOK
  BY DEF PoolInv
<1> QED BY <1>1, PoolInvariant, PTL

\* UsageMillis always covers the budgets registered on the core, so a
\* decision taken from it never counts committed budget as free.
THEOREM UsageAlwaysCovers == PoolSpec => []UsageCovers
<1>1. PoolInv => UsageCovers
  BY DEF PoolInv
<1> QED BY <1>1, PoolInvariant, PTL

\* Over-accounting is permanent until the process restarts, and it comes
\* only from registering a pod over an entry that is still there.
THEOREM DriftNeverGivenBack == PoolSpec => DriftIsPermanent
<1> DEFINE A == pooled' = {} \/ \A n \in Nodes, c \in Cores : DriftStep(n, c)
<1>1. PoolInv /\ [PoolNext]_poolVars => [A]_poolVars
  <2> SUFFICES ASSUME PoolInv, PoolNext PROVE A
    OBVIOUS
  <2>1. CASE ProcessRestart
    BY <2>1 DEF ProcessRestart
  <2>2. CASE ~ ProcessRestart
    BY <2>2, PoolStep
  <2> QED BY <2>1, <2>2
<1> HIDE DEF A
<1>2. PoolSpec => [][A]_poolVars
  BY <1>1, PoolInvariant, PTL DEF PoolSpec
<1> QED BY <1>2 DEF A, DriftIsPermanent
=============================================================================
