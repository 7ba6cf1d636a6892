------------------------ MODULE PressureTiersProofs ------------------------
(***************************************************************************)
(* Proofs about the order in which CPU pressure takes its tiers, for every *)
(* set of pods, every number of goroutines and every bound on what the     *)
(* environment does.                                                       *)
(***************************************************************************)
EXTENDS PressureTiers, FiniteSetTheorems, TLAPS

-----------------------------------------------------------------------------
(***************************************************************************)
(* Tiers.                                                                  *)
(***************************************************************************)
LEMMA TierNames ==
    /\ Tiers = {"LOW", "MIDDLE", "HIGH"}
    /\ CriticalityRank["LOW"] = 0 /\ CriticalityRank["MIDDLE"] = 1
    /\ CriticalityRank["HIGH"] = 2
BY DEF Tiers, CriticalityRank

LEMMA BelowFacts ==
    /\ \A s, t \in Tiers : Below(s, t) \/ s = t \/ Below(t, s)
    /\ \A s, t, u \in Tiers : Below(s, t) /\ Below(t, u) => Below(s, u)
    /\ \A s, t \in Tiers : Below(s, t) => ~ Below(t, s)
    /\ \A s \in Tiers : ~ Below(s, s)
BY TierNames DEF Below

\* Every set of tiers has a lowest one.
LEMMA LowestFacts ==
    ASSUME NEW T \in SUBSET Tiers, T # {}
    PROVE  Lowest(T) \in T /\ \A s \in T : ~ Below(s, Lowest(T))
<1>1. \E t \in T : \A s \in T : ~ Below(s, t)
  <2>1. CASE "LOW" \in T
    BY <2>1, TierNames DEF Below
  <2>2. CASE "LOW" \notin T /\ "MIDDLE" \in T
    BY <2>2, TierNames DEF Below
  <2>3. CASE "LOW" \notin T /\ "MIDDLE" \notin T
    <3>1. "HIGH" \in T /\ \A s \in T : s = "HIGH"
      BY <2>3, TierNames
    <3> QED
      BY <3>1, BelowFacts
  <2> QED
    BY <2>1, <2>2, <2>3
<1> QED
  BY <1>1 DEF Lowest

\* The next higher tier is above the current one, and none is in between.
LEMMA NextTier ==
    ASSUME NEW T \in SUBSET Tiers, NEW cur \in Tiers, NextHigherTier(cur, T) # {}
    PROVE  /\ Lowest(NextHigherTier(cur, T)) \in T
           /\ \A s \in T : Below(s, Lowest(NextHigherTier(cur, T))) =>
                              s = cur \/ Below(s, cur)
<1> DEFINE u == Lowest(NextHigherTier(cur, T))
<1>1. NextHigherTier(cur, T) \in SUBSET Tiers
  BY DEF NextHigherTier
<1>2. u \in NextHigherTier(cur, T)
  BY <1>1, LowestFacts
<1> HIDE DEF u
<1>3. u \in T /\ Below(cur, u) /\ \A s \in T : Below(cur, s) => ~ Below(s, u)
  BY <1>2 DEF NextHigherTier
<1>4. \A s \in T : Below(s, u) => s = cur \/ Below(s, cur)
  BY <1>3, BelowFacts
<1> QED
  BY <1>3, <1>4 DEF u

LEMMA MinMaxFacts ==
    /\ \A x \in Nat : Max({MinMilli, x}) \in Nat
    /\ \A x \in Nat : Min({x, TierMissingTolerance}) \in Nat
<1>1. ASSUME NEW a \in Nat, NEW b \in Nat PROVE Max({a, b}) \in Nat /\ Min({a, b}) \in Nat
  <2>1. \E x \in {a, b} : \A y \in {a, b} : x >= y
    OBVIOUS
  <2>2. \E x \in {a, b} : \A y \in {a, b} : x <= y
    OBVIOUS
  <2>3. Max({a, b}) \in {a, b}
    BY <2>1 DEF Max
  <2>4. Min({a, b}) \in {a, b}
    BY <2>2 DEF Min
  <2> QED
    BY <2>3, <2>4
<1> QED
  BY <1>1 DEF MinMilli, TierMissingTolerance

-----------------------------------------------------------------------------
(***************************************************************************)
(* Types.  ProcType is what TypeOK says of a goroutine, and that it is a   *)
(* record with a duration in seconds.                                      *)
(***************************************************************************)
Fields == {"pc", "over", "pods", "milli", "state", "tier", "target"}

ProcType(r) ==
    /\ r = [f \in Fields |-> r[f]]
    /\ r.pc \in ProcPC /\ r.over \in Nat /\ r.pods \in [Pods -> PodRecord]
    /\ r.state \in Ids \cup {NoState} /\ r.tier \in Tiers \cup {NoTier}
    /\ r.target \in SUBSET Pods

ObjectType == [tiers : SUBSET Tiers, current : Tiers \cup {NoTier}, per : [Tiers -> PerTier]]

ProcsTyped == proc = [g \in Procs |-> proc[g]] /\ \A g \in Procs : ProcType(proc[g])

PressureType == TypeOK /\ ProcsTyped

LEMMA AbsentType == Absent \in PodRecord /\ NoPods \in [Pods -> PodRecord]
<1>1. Absent \in PodRecord
  BY DEF Absent, PodRecord
<1> QED
  BY <1>1 DEF NoPods

LEMMA FreshType == FreshState \in ObjectType /\ FreshTier \in PerTier
<1>1. FreshTier \in PerTier
  BY DEF FreshTier, PerTier
<1> QED
  BY <1>1 DEF FreshState, ObjectType

LEMMA IdleType ==
    /\ ProcType(Idle) /\ ProcType([Idle EXCEPT !.pc = "done"])
    /\ Idle.pc = "idle" /\ Idle.state = NoState
    /\ [Idle EXCEPT !.pc = "done"].pc = "done"
    /\ [Idle EXCEPT !.pc = "done"].state = NoState
<1>1. ProcType(Idle)
  <2>1. Idle = [f \in Fields |-> Idle[f]]
    BY DEF Idle, Fields
  <2>2. Idle.pods \in [Pods -> PodRecord]
    BY AbsentType DEF Idle
  <2> QED
    BY <2>1, <2>2 DEF Idle, ProcType, ProcPC
<1>2. ProcType([Idle EXCEPT !.pc = "done"])
  BY <1>1 DEF ProcType, ProcPC, Fields
<1> QED
  BY <1>1, <1>2 DEF Idle

LEMMA PcUpdate ==
    ASSUME NEW r, ProcType(r), NEW pc \in ProcPC
    PROVE  LET s == [r EXCEPT !.pc = pc] IN
           /\ ProcType(s) /\ s.pc = pc /\ s.over = r.over /\ s.pods = r.pods
           /\ s.state = r.state /\ s.tier = r.tier /\ s.target = r.target
BY DEF ProcType, Fields

LEMMA ProcStep ==
    ASSUME ProcsTyped, NEW g \in Procs, NEW r, ProcType(r), Step(g, r)
    PROVE  /\ ProcsTyped' /\ proc'[g] = r
           /\ \A h \in Procs \ {g} : proc'[h] = proc[h]
BY DEF ProcsTyped, Step

-----------------------------------------------------------------------------
(***************************************************************************)
(* The inductive invariant.  A pod that was there from the start and is    *)
(* still there has been there all the time, so every listing has it and    *)
(* every set of tiers has its tier: that is why lower tiers come first.    *)
(***************************************************************************)
Working == {"process", "degrade?", "degrade", "evict?", "evict", "escalate"}
Acting == Working \ {"process"}
Listing == Working \cup {"milli", "create", "retier"}

Held == {q \in Resident : pod[q].phase # "absent" /\ Criticality[q] \in Tiers}

HeldTiers == {Criticality[q] : q \in Held}

\* In the pressure state o, every tier of H below t has had its eviction.
Tried(o, t, H) == \A s \in H : Below(s, t) => o.per[s].tried

\* A pressure state moves past a tier of H only after the eviction.
Ordered(o, H) ==
    o.current # NoTier => H \subseteq o.tiers /\ Tried(o, o.current, H)

\* A goroutine has listed the pods of Q, holds a pressure state from the
\* lookup on, and is in a tier that was reached in order: the tier it holds,
\* since another goroutine may have moved the pressure state on.
InOrder(r, obj, H, Q) ==
    /\ r.pc \in Listing => \A q \in Q : r.pods[q].phase # "absent"
    /\ r.pc \in Working \cup {"retier"} => r.state \in Ids
    /\ r.pc \notin Working \cup {"retier"} => r.state = NoState
    /\ r.pc \in Working => H \subseteq obj[r.state].tiers
    /\ r.pc \in Acting => r.tier \in Tiers /\ Tried(obj[r.state], r.tier, H)

AbsentHasNothing == \A p \in Pods : pod[p].phase = "absent" => pod[p] = Absent

Order ==
    /\ AbsentHasNothing
    /\ \A i \in Ids : Ordered(object[i], HeldTiers)
    /\ \A g \in Procs : InOrder(proc[g], object, HeldTiers, Held)

PressureInv == PressureType /\ Order

-----------------------------------------------------------------------------
(***************************************************************************)
(* Pressure states.                                                        *)
(***************************************************************************)

\* What a step may do to a pressure state that others hold: the tiers of H
\* stay known, and an eviction that was tried stays so.
Keeps(o, new, H) ==
    /\ H \subseteq o.tiers => H \subseteq new.tiers
    /\ \A t \in Tiers : o.per[t].tried => new.per[t].tried

GoodObjects(obj, H) ==
    /\ obj \in [Ids -> ObjectType]
    /\ \A i \in Ids : Ordered(obj[i], H) /\ Keeps(object[i], obj[i], H)

\* What is left behind for the others by a step of g.
GoodStep(g, H) ==
    /\ object' \in [Ids -> ObjectType]
    /\ \A i \in Ids : Ordered(object'[i], H)
    /\ \A h \in Procs \ {g} : proc[h].state \in Ids =>
           Keeps(object[proc[h].state], object'[proc[h].state], H)

LEMMA HeldFacts ==
    /\ HeldTiers \subseteq Tiers
    /\ Held' \subseteq Held => HeldTiers' \subseteq HeldTiers
BY DEF Held, HeldTiers

LEMMA OrderedShrinks ==
    ASSUME NEW o, NEW H, NEW G, G \subseteq H, Ordered(o, H)
    PROVE  Ordered(o, G)
BY DEF Ordered, Tried

LEMMA FreshOrdered == \A H : Ordered(FreshState, H)
BY DEF FreshState, Ordered

LEMMA SameObjects ==
    ASSUME PressureInv, HeldTiers' \subseteq HeldTiers
    PROVE  GoodObjects(object, HeldTiers')
<1>1. object \in [Ids -> ObjectType]
  BY DEF PressureInv, PressureType, TypeOK, ObjectType
<1>2. \A i \in Ids : Ordered(object[i], HeldTiers')
  BY OrderedShrinks DEF PressureInv, Order
<1> QED
  BY <1>1, <1>2 DEF GoodObjects, Keeps

LEMMA OneObject ==
    ASSUME PressureInv, HeldTiers' \subseteq HeldTiers, NEW i \in Ids, NEW o \in ObjectType,
           Ordered(o, HeldTiers'), Keeps(object[i], o, HeldTiers')
    PROVE  GoodObjects([object EXCEPT ![i] = o], HeldTiers')
BY SameObjects DEF GoodObjects

LEMMA GoodSame ==
    ASSUME NEW g, NEW obj, NEW H, GoodObjects(obj, H), object' = obj
    PROVE  GoodStep(g, H)
BY DEF GoodObjects, GoodStep

LEMMA GoodCollected ==
    ASSUME NEW g, NEW obj, NEW H, NEW ptr, GoodObjects(obj, H), object' = Reachable(obj, ptr, g)
    PROVE  GoodStep(g, H)
<1>1. \A i \in Ids : object'[i] = obj[i] \/ object'[i] = FreshState
  BY DEF Reachable
<1>2. \A h \in Procs \ {g} : proc[h].state \in Ids =>
          object'[proc[h].state] = obj[proc[h].state]
  BY DEF Reachable
<1>3. object' \in [Ids -> ObjectType]
  BY <1>1, FreshType DEF Reachable, GoodObjects
<1> QED
  BY <1>1, <1>2, <1>3, FreshOrdered DEF GoodObjects, GoodStep

\* There is always an object that nobody refers to.
LEMMA UnreferencedExists ==
    ASSUME NEW g \in Procs, proc[g].state = NoState
    PROVE  \E i \in Unreferenced : TRUE
<1> DEFINE N == Cardinality(Procs)
           S == {proc[h].state : h \in Procs \ {g}}
<1>1. IsFiniteSet(Procs)
  BY PressureAssumption, FS_AddElement DEF Procs
<1>2. IsFiniteSet(Procs \ {g}) /\ Cardinality(Procs \ {g}) = N - 1 /\ N \in Nat
  BY <1>1, FS_RemoveElement, FS_CardinalityType
<1>3. IsFiniteSet(S) /\ Cardinality(S) <= N - 1
  <2> DEFINE f == [h \in Procs \ {g} |-> proc[h].state]
  <2>1. f \in Surjection(Procs \ {g}, S)
    BY DEF Surjection
  <2> QED
    BY <1>2, <2>1, FS_Surjection
<1>4. IsFiniteSet(S \cup {pressureState}) /\ Cardinality(S \cup {pressureState}) <= N
  <2>1. Cardinality(S) \in Nat
    BY <1>3, FS_CardinalityType
  <2> HIDE DEF S, N
  <2>2. /\ IsFiniteSet(S \cup {pressureState})
        /\ Cardinality(S \cup {pressureState})
             = IF pressureState \in S THEN Cardinality(S) ELSE Cardinality(S) + 1
    BY <1>3, FS_AddElement
  <2> QED
    BY <1>2, <1>3, <2>1, <2>2
<1>5. IsFiniteSet(Ids) /\ Cardinality(Ids) = N + 1
  BY <1>2, FS_Interval DEF Ids
<1>6. ~ (Ids \subseteq S \cup {pressureState})
  <2>1. Cardinality(S \cup {pressureState}) \in Nat
    BY <1>4, FS_CardinalityType
  <2> HIDE DEF S
  <2>2. ASSUME Ids \subseteq S \cup {pressureState}
        PROVE  Cardinality(Ids) <= Cardinality(S \cup {pressureState})
    BY <1>4, <2>2, FS_Subset
  <2> HIDE DEF N
  <2> QED
    BY <1>2, <1>4, <1>5, <2>1, <2>2
<1>7. NoState \notin Ids
  BY <1>2, PressureAssumption DEF Ids
<1> QED
  BY <1>6, <1>7 DEF Unreferenced

-----------------------------------------------------------------------------
(***************************************************************************)
(* The variables that are not the goroutines' own: types, and the pods     *)
(* that were there from the start only go away.                            *)
(***************************************************************************)
RestTyped ==
    /\ busy \in BOOLEAN /\ overSec \in scenario.seconds \cup {0}
    /\ pod \in [Pods -> PodRecord]
    /\ processing \in BOOLEAN /\ pressureState \in Ids \cup {NoState}
    /\ lastBusy \subseteq BOOLEAN
    /\ used \in [Kinds -> Nat] /\ scenario \in Scenarios

LEMMA TypeParts ==
    /\ TypeOK => RestTyped /\ object \in [Ids -> ObjectType]
    /\ RestTyped /\ object \in [Ids -> ObjectType] /\ ProcsTyped => PressureType
<1>1. ProcsTyped => \A g \in Procs :
         /\ proc[g].pc \in ProcPC /\ proc[g].pods \in [Pods -> PodRecord]
         /\ proc[g].state \in Ids \cup {NoState} /\ proc[g].tier \in Tiers \cup {NoTier}
         /\ proc[g].target \subseteq Pods
  BY DEF ProcsTyped, ProcType
<1> QED
  BY <1>1 DEF TypeOK, RestTyped, ObjectType, PressureType

LEMMA SpendType ==
    ASSUME RestTyped, NEW k, Spend(k)
    PROVE  used' \in [Kinds -> Nat] /\ scenario' = scenario
<1>1. /\ used \in [Kinds -> Nat] /\ scenario' = scenario
      /\ used' = [used EXCEPT ![k] = used[k] + 1]
  BY DEF RestTyped, Spend
<1>2. CASE k \in Kinds
  <2>1. used[k] + 1 \in Nat
    BY <1>1, <1>2
  <2> QED
    BY <1>1, <2>1
<1>3. CASE k \notin Kinds
  BY <1>1, <1>3
<1> QED
  BY <1>2, <1>3

LEMMA DegradedType ==
    ASSUME NEW req \in Seq(Nat)
    PROVE  DegradePodRequests(req) \in Seq(Nat)
<1>1. ASSUME NEW i \in DOMAIN req
      PROVE  (IF req[i] = 0 THEN 0 ELSE Max({MinMilli, (req[i] * 8) \div 10})) \in Nat
  <2>1. req[i] \in Nat
    OBVIOUS
  <2>2. (req[i] * 8) \div 10 \in Nat
    BY <2>1
  <2> QED
    BY <2>2, MinMaxFacts
<1>2. DOMAIN req = 1 .. Len(req) /\ Len(req) \in Nat
  OBVIOUS
<1>3. DegradePodRequests(req) \in [1 .. Len(req) -> Nat]
  BY <1>1, <1>2 DEF DegradePodRequests
<1> QED
  BY <1>2, <1>3

\* The pods after a step that changes one of them.
LEMMA OnePod ==
    ASSUME RestTyped, AbsentHasNothing, NEW p \in Pods, NEW new \in PodRecord,
           pod' = [pod EXCEPT ![p] = new],
           new.phase = "absent" => new = Absent,
           p \in Resident /\ pod[p].phase = "absent" => new.phase = "absent"
    PROVE  pod' \in [Pods -> PodRecord] /\ AbsentHasNothing' /\ Held' \subseteq Held
<1>1. pod' \in [Pods -> PodRecord]
  BY DEF RestTyped
<1>2. \A q \in Pods : pod'[q] = IF q = p THEN new ELSE pod[q]
  BY DEF RestTyped
<1>3. Resident \subseteq Pods
  BY PressureAssumption
<1> QED
  BY <1>1, <1>2, <1>3 DEF AbsentHasNothing, Held

LEMMA SamePods ==
    ASSUME AbsentHasNothing, pod' = pod
    PROVE  AbsentHasNothing' /\ Held' = Held
BY DEF AbsentHasNothing, Held

LEMMA EnvironmentRest ==
    ASSUME RestTyped, AbsentHasNothing, Environment \/ \E p \in Pods : Terminated(p)
    PROVE  RestTyped' /\ AbsentHasNothing' /\ Held' \subseteq Held
<1> USE DEF memVars, bounds
<1>1. ASSUME NEW sec \in scenario.seconds, ReportBusy(sec)
      PROVE  RestTyped' /\ pod' = pod
  BY <1>1 DEF ReportBusy, Agent, RestTyped
<1>2. ASSUME ReportIdle PROVE RestTyped' /\ pod' = pod
  BY <1>2, SpendType DEF ReportIdle, Agent, RestTyped
<1>3. ASSUME NEW p \in Pods, Arrive(p)
      PROVE  RestTyped' /\ AbsentHasNothing' /\ Held' \subseteq Held
  <2> DEFINE new == [phase |-> "running", req |-> Requests[p]]
  <2>1. new \in PodRecord /\ new.phase = "running"
    BY PressureAssumption DEF PodRecord
  <2>2. pod' = [pod EXCEPT ![p] = new] /\ p \notin Resident
    BY <1>3 DEF Arrive, SetPod
  <2> HIDE DEF new
  <2>3. pod' \in [Pods -> PodRecord] /\ AbsentHasNothing' /\ Held' \subseteq Held
    BY <2>1, <2>2, OnePod
  <2> QED
    BY <1>3, <2>3, SpendType DEF Arrive, SetPod, RestTyped
<1>4. ASSUME NEW p \in Pods, Depart(p) \/ Terminated(p)
      PROVE  RestTyped' /\ AbsentHasNothing' /\ Held' \subseteq Held
  <2>1. pod' = [pod EXCEPT ![p] = Absent]
    BY <1>4 DEF Depart, Terminated, SetPod
  <2>2. Absent.phase = "absent"
    BY DEF Absent
  <2>3. pod' \in [Pods -> PodRecord] /\ AbsentHasNothing' /\ Held' \subseteq Held
    BY <2>1, <2>2, OnePod, AbsentType
  <2> QED
    BY <1>4, <2>3, SpendType DEF Depart, Terminated, SetPod, RestTyped
<1>5. ASSUME Restart PROVE RestTyped' /\ pod' = pod
  BY <1>5, SpendType DEF Restart, RestTyped
<1> QED
  BY <1>1, <1>2, <1>3, <1>4, <1>5, SamePods DEF Environment

\* Of the steps of the goroutines and the worker, only a degradation and an
\* eviction change a pod, and neither makes it disappear.
LEMMA HandleRest ==
    ASSUME RestTyped, ProcsTyped, AbsentHasNothing, NEW g \in Procs,
           proc[g].pc = "create" => proc[g].state = NoState,
           NodeEvent(g) \/ Handle(g)
    PROVE  RestTyped' /\ AbsentHasNothing' /\ Held' \subseteq Held
<1> USE DEF envVars, memVars, bounds
<1>1. ASSUME NodeEvent(g) \/ ClearProcessing(g) PROVE RestTyped' /\ pod' = pod
  BY <1>1 DEF NodeEvent, ClearProcessing, RestTyped
<1>2. ASSUME ReadNodeAndPods(g) PROVE RestTyped' /\ pod' = pod
  BY <1>2, SpendType DEF ReadNodeAndPods, RestTyped
<1>3. ASSUME ReadMilli(g) \/ DecideEvict(g) PROVE RestTyped' /\ pod' = pod
  BY <1>3 DEF ReadMilli, DecideEvict, Local, RestTyped
<1>4. ASSUME CreateState(g) PROVE RestTyped' /\ pod' = pod
  <2>1. (CHOOSE i \in Unreferenced : TRUE) \in Ids
    BY <1>4, UnreferencedExists DEF Unreferenced, CreateState
  <2> QED
    BY <1>4, <2>1 DEF CreateState, RestTyped
<1>5. ASSUME Retier(g) \/ ProcessTier(g) \/ DecideDegrade(g) \/ Escalate(g)
      PROVE  RestTyped' /\ pod' = pod
  BY <1>5 DEF Retier, ProcessTier, DecideDegrade, Escalate, RestTyped
<1>6. ASSUME Degrade(g) PROVE RestTyped' /\ AbsentHasNothing' /\ Held' \subseteq Held
  <2>1. PICK p \in proc[g].target :
           \/ /\ pod[p].phase # "absent" /\ UNCHANGED bounds
              /\ pod' = [pod EXCEPT ![p] =
                     [pod[p] EXCEPT !.req = DegradePodRequests(proc[g].pods[p].req)]]
           \/ pod' = pod /\ (UNCHANGED bounds \/ Spend("failure"))
    BY <1>6 DEF Degrade
  <2>2. /\ used' \in [Kinds -> Nat] /\ scenario' = scenario
        /\ UNCHANGED <<busy, overSec, processing, pressureState, lastBusy>>
    BY <1>6, <2>1, SpendType DEF Degrade, RestTyped
  <2>3. p \in Pods /\ pod[p] \in PodRecord /\ proc[g].pods[p] \in PodRecord
    BY DEF ProcsTyped, ProcType, RestTyped
  <2> DEFINE new == [pod[p] EXCEPT !.req = DegradePodRequests(proc[g].pods[p].req)]
  <2>4. new \in PodRecord /\ new.phase = pod[p].phase
    BY <2>3, DegradedType DEF PodRecord
  <2> HIDE DEF new
  <2>5. pod' \in [Pods -> PodRecord] /\ AbsentHasNothing' /\ Held' \subseteq Held
    <3>1. CASE pod[p].phase # "absent" /\ pod' = [pod EXCEPT ![p] = new]
      BY <2>3, <2>4, <3>1, OnePod
    <3>2. CASE pod' = pod
      BY <3>2, SamePods DEF RestTyped
    <3> QED
      BY <2>1, <3>1, <3>2 DEF new
  <2> QED
    BY <2>2, <2>5 DEF RestTyped
<1>7. ASSUME EvictPod(g) PROVE RestTyped' /\ AbsentHasNothing' /\ Held' \subseteq Held
  <2>1. PICK p \in proc[g].target :
           \/ /\ pod[p].phase # "absent" /\ UNCHANGED bounds
              /\ pod' = [pod EXCEPT ![p] = [pod[p] EXCEPT !.phase = "terminating"]]
           \/ pod' = pod /\ (UNCHANGED bounds \/ Spend("failure"))
    BY <1>7 DEF EvictPod
  <2>2. /\ used' \in [Kinds -> Nat] /\ scenario' = scenario
        /\ UNCHANGED <<busy, overSec, processing, pressureState, lastBusy>>
    BY <1>7, <2>1, SpendType DEF EvictPod, RestTyped
  <2>3. p \in Pods /\ pod[p] \in PodRecord
    BY DEF ProcsTyped, ProcType, RestTyped
  <2> DEFINE new == [pod[p] EXCEPT !.phase = "terminating"]
  <2>4. new \in PodRecord /\ new.phase = "terminating"
    BY <2>3 DEF PodRecord
  <2> HIDE DEF new
  <2>5. pod' \in [Pods -> PodRecord] /\ AbsentHasNothing' /\ Held' \subseteq Held
    <3>1. CASE pod[p].phase # "absent" /\ pod' = [pod EXCEPT ![p] = new]
      BY <2>3, <2>4, <3>1, OnePod
    <3>2. CASE pod' = pod
      BY <3>2, SamePods DEF RestTyped
    <3> QED
      BY <2>1, <3>1, <3>2 DEF new
  <2> QED
    BY <2>2, <2>5 DEF RestTyped
<1> QED
  BY <1>1, <1>2, <1>3, <1>4, <1>5, <1>6, <1>7, SamePods DEF Handle

-----------------------------------------------------------------------------
(***************************************************************************)
(* The steps of one goroutine.                                             *)
(***************************************************************************)
LEMMA OthersInOrder ==
    ASSUME NEW r, NEW obj, NEW new, NEW H, NEW G, NEW Q, NEW P,
           InOrder(r, obj, H, Q), H \subseteq Tiers, G \subseteq H, P \subseteq Q,
           r.state \in Ids => Keeps(obj[r.state], new[r.state], G)
    PROVE  InOrder(r, new, G, P)
<1>1. r.pc \in Listing => \A q \in P : r.pods[q].phase # "absent"
  BY DEF InOrder
<1>2. r.pc \in Working => G \subseteq new[r.state].tiers
  BY DEF InOrder, Keeps
<1>3. r.pc \in Acting => r.tier \in Tiers /\ Tried(new[r.state], r.tier, G)
  BY DEF InOrder, Keeps, Tried, Acting
<1> QED
  BY <1>1, <1>2, <1>3 DEF InOrder

LEMMA StepOfOne ==
    ASSUME PressureInv, NEW g \in Procs, NEW r, ProcType(r), Step(g, r),
           RestTyped', AbsentHasNothing', Held' \subseteq Held, GoodStep(g, HeldTiers'),
           InOrder(r, object', HeldTiers', Held')
    PROVE  PressureInv'
<1>1. /\ ProcsTyped' /\ proc'[g] = r
      /\ \A h \in Procs \ {g} : proc'[h] = proc[h]
  BY ProcStep DEF PressureInv, PressureType
<1>2. HeldTiers \subseteq Tiers /\ HeldTiers' \subseteq HeldTiers
  BY HeldFacts
<1>3. ASSUME NEW h \in Procs \ {g} PROVE InOrder(proc'[h], object', HeldTiers', Held')
  <2>1. InOrder(proc[h], object, HeldTiers, Held)
    BY DEF PressureInv, Order
  <2>2. proc[h].state \in Ids =>
            Keeps(object[proc[h].state], object'[proc[h].state], HeldTiers')
    BY DEF GoodStep
  <2>3. InOrder(proc[h], object', HeldTiers', Held')
    BY <1>2, <2>1, <2>2, OthersInOrder
  <2> QED
    BY <1>1, <2>3
<1>4. Order'
  BY <1>1, <1>3 DEF Order, GoodStep
<1>5. PressureType'
  <2>1. object' \in [Ids -> ObjectType]
    BY DEF GoodStep
  <2>2. (RestTyped /\ object \in [Ids -> ObjectType] /\ ProcsTyped => PressureType)'
    BY TypeParts, PTL
  <2> QED
    BY <1>1, <2>1, <2>2
<1> QED
  BY <1>4, <1>5 DEF PressureInv

\* A handler that returns leaves nothing behind but the pressure states.
LEMMA LeaveInOrder ==
    ASSUME PressureInv, NEW g \in Procs, NEW obj, GoodObjects(obj, HeldTiers'),
           LeaveWith(g, obj), RestTyped', AbsentHasNothing', Held' \subseteq Held
    PROVE  PressureInv'
<1> DEFINE r == IF g = Worker THEN Idle ELSE [Idle EXCEPT !.pc = "done"]
<1>1. Step(g, r) /\ object' = Reachable(obj, pressureState, g)
  BY DEF LeaveWith
<1>2. ProcType(r) /\ r.pc \in {"idle", "done"} /\ r.state = NoState
  BY IdleType
<1> HIDE DEF r
<1>3. InOrder(r, object', HeldTiers', Held')
  BY <1>2 DEF InOrder, Working, Acting, Listing
<1>4. GoodStep(g, HeldTiers')
  BY <1>1, GoodCollected
<1> QED
  BY <1>1, <1>2, <1>3, <1>4, StepOfOne

LEMMA ProcFacts ==
    ASSUME PressureInv, NEW g \in Procs
    PROVE  /\ ProcType(proc[g]) /\ InOrder(proc[g], object, HeldTiers, Held)
           /\ RestTyped /\ object \in [Ids -> ObjectType] /\ AbsentHasNothing
BY TypeParts DEF PressureInv, PressureType, ProcsTyped, Order

LEMMA HandleFacts ==
    ASSUME PressureInv, NEW g \in Procs, NodeEvent(g) \/ Handle(g)
    PROVE  /\ RestTyped' /\ AbsentHasNothing' /\ Held' \subseteq Held
           /\ HeldTiers' \subseteq HeldTiers /\ GoodObjects(object, HeldTiers')
<1>1. proc[g].pc = "create" => proc[g].state = NoState
  BY ProcFacts DEF InOrder, Working
<1>2. RestTyped' /\ AbsentHasNothing' /\ Held' \subseteq Held
  BY <1>1, ProcFacts, HandleRest DEF PressureInv, PressureType
<1> QED
  BY <1>2, HeldFacts, SameObjects

\* The steps outside a tier: no pressure state changes, or a fresh one comes.
LEMMA NodeEventStep ==
    ASSUME PressureInv, NEW g \in Procs, NodeEvent(g) \/ ClearProcessing(g)
    PROVE  PressureInv'
<1>1. PICK r \in {[Idle EXCEPT !.pc = "list"], [Idle EXCEPT !.pc = "done"], Idle} : Step(g, r)
  BY DEF NodeEvent, ClearProcessing, Goto
<1>2. ProcType(r) /\ r.pc \in {"idle", "list", "done"} /\ r.state = NoState
  <2>1. "list" \in ProcPC
    BY DEF ProcPC
  <2>2. CASE r = [Idle EXCEPT !.pc = "list"]
    BY <2>1, <2>2, IdleType, PcUpdate
  <2> QED
    BY <1>1, <2>2, IdleType
<1>3. InOrder(r, object', HeldTiers', Held')
  BY <1>2 DEF InOrder, Working, Acting, Listing
<1>4. object' = object
  BY DEF NodeEvent, ClearProcessing, envVars, memVars
<1> QED
  BY <1>1, <1>2, <1>3, <1>4, StepOfOne, HandleFacts, GoodSame DEF Handle

LEMMA ReadNodeAndPodsStep ==
    ASSUME PressureInv, NEW g \in Procs, ReadNodeAndPods(g)
    PROVE  PressureInv'
<1>1. /\ RestTyped' /\ AbsentHasNothing' /\ Held' \subseteq Held
      /\ GoodObjects(object, HeldTiers')
  BY HandleFacts DEF Handle
<1>2. CASE Leave(g)
  BY <1>1, <1>2, LeaveInOrder DEF Leave
<1>3. CASE /\ Step(g, [proc[g] EXCEPT !.pc = "milli", !.over = overSec, !.pods = pod])
           /\ UNCHANGED object
  <2> DEFINE r == [proc[g] EXCEPT !.pc = "milli", !.over = overSec, !.pods = pod]
  <2>1. overSec \in Nat /\ pod \in [Pods -> PodRecord]
    BY ProcFacts, PressureAssumption DEF RestTyped
  <2>2. "milli" \in ProcPC /\ ProcType(proc[g])
    BY ProcFacts DEF ProcPC
  <2>3. ProcType(r) /\ r.pc = "milli" /\ r.pods = pod /\ r.state = proc[g].state
    BY <2>1, <2>2 DEF ProcType, Fields
  <2>4. proc[g].state = NoState
    BY ProcFacts DEF ReadNodeAndPods, InOrder, Working
  <2>5. \A q \in Held' : pod[q].phase # "absent"
    BY <1>1 DEF Held
  <2> HIDE DEF r
  <2>6. InOrder(r, object', HeldTiers', Held')
    BY <2>3, <2>4, <2>5 DEF InOrder, Working, Acting, Listing
  <2>7. Step(g, r) /\ object' = object
    BY <1>3 DEF r
  <2> QED
    BY <1>1, <2>3, <2>6, <2>7, StepOfOne, GoodSame
<1> QED
  BY <1>2, <1>3 DEF ReadNodeAndPods

LEMMA ReadMilliStep ==
    ASSUME PressureInv, NEW g \in Procs, ReadMilli(g)
    PROVE  PressureInv'
<1>1. /\ RestTyped' /\ AbsentHasNothing' /\ Held' \subseteq Held
      /\ GoodObjects(object, HeldTiers')
  BY HandleFacts DEF Handle
<1> DEFINE pc == IF pressureState = NoState THEN "create" ELSE "retier"
           r == [proc[g] EXCEPT !.milli = ListPodMilliCPUByNode(pod),
                                !.state = pressureState, !.pc = pc]
<1>2. pc \in ProcPC /\ pressureState \in Ids \cup {NoState} /\ ProcType(proc[g])
  BY ProcFacts DEF ProcPC, RestTyped
<1>3. ProcType(r) /\ r.pc = pc /\ r.pods = proc[g].pods /\ r.state = pressureState
  BY <1>2 DEF ProcType, Fields
<1>4. Step(g, r) /\ object' = object /\ proc[g].pc = "milli"
  BY DEF ReadMilli, Local, memVars
<1>5. \A q \in Held' : proc[g].pods[q].phase # "absent"
  BY <1>1, <1>4, ProcFacts DEF InOrder, Listing
<1> HIDE DEF r
<1>6. InOrder(r, object', HeldTiers', Held')
  BY <1>2, <1>3, <1>5 DEF InOrder, Working, Acting, Listing
<1> QED
  BY <1>1, <1>3, <1>4, <1>6, StepOfOne, GoodSame

LEMMA CreateStateStep ==
    ASSUME PressureInv, NEW g \in Procs, CreateState(g)
    PROVE  PressureInv'
<1>1. /\ RestTyped' /\ AbsentHasNothing' /\ Held' \subseteq Held
      /\ GoodObjects(object, HeldTiers')
  BY HandleFacts DEF Handle
<1> DEFINE i == CHOOSE j \in Unreferenced : TRUE
           r == [proc[g] EXCEPT !.pc = "retier", !.state = i]
<1>2. proc[g].state = NoState /\ proc[g].pc = "create"
  BY ProcFacts DEF CreateState, InOrder, Working
<1>3. i \in Unreferenced
  BY <1>2, UnreferencedExists
<1>4. Step(g, r) /\ object' = [object EXCEPT ![i] = FreshState]
  BY DEF CreateState
<1> HIDE DEF i
<1>5. i \in Ids /\ \A h \in Procs : proc[h].state # i
  BY <1>3 DEF Unreferenced
<1>6. ProcType(r) /\ r.pc = "retier" /\ r.pods = proc[g].pods /\ r.state = i
  <2>1. "retier" \in ProcPC /\ ProcType(proc[g])
    BY ProcFacts DEF ProcPC
  <2> QED
    BY <1>5, <2>1 DEF ProcType, Fields
<1>7. \A q \in Held' : proc[g].pods[q].phase # "absent"
  BY <1>1, <1>2, ProcFacts DEF InOrder, Listing
<1> HIDE DEF r
<1>8. InOrder(r, object', HeldTiers', Held')
  BY <1>5, <1>6, <1>7 DEF InOrder, Working, Acting, Listing
<1>9. GoodStep(g, HeldTiers')
  <2>1. \A j \in Ids : object'[j] = IF j = i THEN FreshState ELSE object[j]
    BY <1>1, <1>4 DEF GoodObjects
  <2>2. object' \in [Ids -> ObjectType]
    BY <1>1, <1>4, FreshType DEF GoodObjects
  <2> QED
    BY <1>1, <1>5, <2>1, <2>2, FreshOrdered DEF GoodObjects, GoodStep
<1> QED
  BY <1>1, <1>4, <1>6, <1>8, <1>9, StepOfOne

\* A listing with every pod of Held has their tiers.
LEMMA ListedTiers ==
    ASSUME NEW f, \A q \in Held : f[q].phase # "absent"
    PROVE  /\ HeldTiers \subseteq CollectSortedTiers(f)
           /\ \A t : FilterPodsByCriticality(f, t) = {} => t \notin HeldTiers
<1>1. ASSUME NEW q \in Held
      PROVE  q \in FilterPodsByCriticality(f, Criticality[q]) /\ Criticality[q] \in Tiers
  BY PressureAssumption DEF Held, FilterPodsByCriticality, Listed
<1> QED
  BY <1>1 DEF HeldTiers, CollectSortedTiers

\* A step that changes the pressure state in hand, and goes on with r.
LEMMA ObjectStep ==
    ASSUME PressureInv, NEW g \in Procs, Handle(g), NEW r, ProcType(r), Step(g, r),
           NEW obj, GoodObjects(obj, HeldTiers'), object' = obj,
           InOrder(r, obj, HeldTiers', Held')
    PROVE  PressureInv'
<1>1. GoodStep(g, HeldTiers')
  BY GoodSame
<1> QED
  BY <1>1, StepOfOne, HandleFacts

LEMMA ReindexFacts ==
    ASSUME NEW state, NEW H, state.tiers \in SUBSET Tiers,
           H \subseteq state.tiers, Ordered(state, H) \/ state.current \notin state.tiers
    PROVE  LET t == ReindexCurrentTier(state) IN
           /\ t \in Tiers \cup {NoTier} /\ (state.tiers # {} => t \in state.tiers)
           /\ t # NoTier => Tried(state, t, H)
<1>1. CASE state.tiers = {}
  BY <1>1 DEF ReindexCurrentTier
<1>2. CASE state.tiers # {} /\ state.current \in state.tiers
  <2>1. ReindexCurrentTier(state) = state.current
    BY <1>2 DEF ReindexCurrentTier
  <2>2. state.current # NoTier
    BY <1>2, PressureAssumption
  <2> QED
    BY <1>2, <2>1, <2>2 DEF Ordered
<1>3. CASE state.tiers # {} /\ state.current \notin state.tiers
  <2>1. ReindexCurrentTier(state) = Lowest(state.tiers)
    BY <1>3 DEF ReindexCurrentTier
  <2> QED
    BY <1>3, <2>1, LowestFacts DEF Tried
<1> QED
  BY <1>1, <1>2, <1>3

LEMMA RetierStep ==
    ASSUME PressureInv, NEW g \in Procs, Retier(g)
    PROVE  PressureInv'
<1> DEFINE i == proc[g].state
           H == HeldTiers'
           T == CollectSortedTiers(proc[g].pods)
           state == [object[i] EXCEPT !.tiers = T]
           t == ReindexCurrentTier(state)
           o == [state EXCEPT !.current = t]
           obj == [object EXCEPT ![i] = o]
<1>1. Handle(g)
  BY DEF Handle
<1>2. /\ RestTyped' /\ AbsentHasNothing' /\ Held' \subseteq Held
      /\ H \subseteq HeldTiers /\ GoodObjects(object, H)
  BY <1>1, HandleFacts
<1>3. /\ i \in Ids /\ \A q \in Held : proc[g].pods[q].phase # "absent"
      /\ proc[g].pc = "retier"
  BY ProcFacts DEF Retier, InOrder, Listing
<1>4. T \in SUBSET Tiers /\ H \subseteq T
  BY <1>2, <1>3, ListedTiers DEF CollectSortedTiers
<1>5. object[i] \in ObjectType /\ Ordered(object[i], H)
  BY <1>2, <1>3 DEF GoodObjects
<1>6. /\ state \in ObjectType /\ state.tiers = T /\ state.current = object[i].current
      /\ state.per = object[i].per
  BY <1>4, <1>5 DEF ObjectType
<1>7. /\ IF T = {} THEN LeaveWith(g, obj) ELSE object' = obj /\ Goto(g, "process")
  BY <1>6 DEF Retier
<1> HIDE DEF T, state
<1>8. Ordered(state, H)
  BY <1>4, <1>5, <1>6 DEF Ordered, Tried
<1>9. /\ t \in Tiers \cup {NoTier} /\ (T # {} => t \in T)
      /\ t # NoTier => Tried(state, t, H)
  BY <1>4, <1>6, <1>8, ReindexFacts
<1> HIDE DEF t
<1>10. o \in ObjectType /\ o.tiers = T /\ o.current = t /\ o.per = object[i].per
  BY <1>6, <1>9 DEF ObjectType
<1> HIDE DEF o
<1>11. Ordered(o, H)
  BY <1>4, <1>6, <1>9, <1>10 DEF Ordered, Tried
<1>12. Keeps(object[i], o, H)
  BY <1>4, <1>10 DEF Keeps
<1>13. GoodObjects(obj, H) /\ obj[i] = o
  <2>1. object \in [Ids -> ObjectType]
    BY ProcFacts
  <2> QED
    BY <1>2, <1>3, <1>10, <1>11, <1>12, <2>1, OneObject
<1> HIDE DEF obj
<1>14. CASE LeaveWith(g, obj)
  BY <1>2, <1>13, <1>14, LeaveInOrder
<1>15. CASE object' = obj /\ Goto(g, "process")
  <2> DEFINE r == [proc[g] EXCEPT !.pc = "process"]
  <2>1. Step(g, r)
    BY <1>15 DEF Goto
  <2>2. "process" \in ProcPC /\ ProcType(proc[g])
    BY ProcFacts DEF ProcPC
  <2>3. ProcType(r) /\ r.pc = "process" /\ r.pods = proc[g].pods /\ r.state = i
    BY <2>2 DEF ProcType, Fields
  <2> HIDE DEF r
  <2>4. InOrder(r, obj, H, Held')
    BY <1>2, <1>3, <1>4, <1>10, <1>13, <2>3 DEF InOrder, Working, Acting, Listing
  <2> QED
    BY <1>1, <1>13, <1>15, <2>1, <2>3, <2>4, ObjectStep
<1> QED
  BY <1>7, <1>14, <1>15

-----------------------------------------------------------------------------
(***************************************************************************)
(* The steps of one goroutine inside a tier.                               *)
(***************************************************************************)

\* A new entry for tier t of the pressure state i; an eviction stays tried.
LEMMA TierEntry ==
    ASSUME PressureInv, HeldTiers' \subseteq HeldTiers, NEW i \in Ids, NEW t \in Tiers,
           NEW new \in PerTier, object[i].per[t].tried => new.tried
    PROVE  GoodObjects([object EXCEPT ![i].per[t] = new], HeldTiers')
<1> DEFINE o == [object[i] EXCEPT !.per[t] = new]
<1>1. object \in [Ids -> ObjectType] /\ Ordered(object[i], HeldTiers)
  BY TypeParts DEF PressureInv, PressureType, Order
<1>2. object[i] \in ObjectType
  BY <1>1
<1>3. /\ o \in ObjectType /\ o.tiers = object[i].tiers /\ o.current = object[i].current
      /\ \A s \in Tiers : object[i].per[s].tried => o.per[s].tried
  BY <1>2 DEF ObjectType
<1>4. [object EXCEPT ![i].per[t] = new] = [object EXCEPT ![i] = o]
  BY <1>1
<1> HIDE DEF o
<1>5. HeldTiers' \subseteq Tiers
  BY HeldFacts
<1>6. Ordered(o, HeldTiers')
  BY <1>1, <1>3, <1>5 DEF Ordered, Tried
<1>7. Keeps(object[i], o, HeldTiers')
  BY <1>3 DEF Keeps
<1>8. GoodObjects([object EXCEPT ![i] = o], HeldTiers')
  BY <1>3, <1>6, <1>7, OneObject
<1> QED
  BY <1>4, <1>8

\* A goroutine goes on in its tier, and the pressure states get no worse.
LEMMA GoesOn ==
    ASSUME PressureInv, NEW g \in Procs, Handle(g), NEW r, ProcType(r), Step(g, r),
           proc[g].pc \in Acting, r.pc \in Acting,
           r.state = proc[g].state, r.tier = proc[g].tier,
           \A q \in Held : r.pods[q].phase # "absent",
           NEW obj, GoodObjects(obj, HeldTiers'), object' = obj
    PROVE  PressureInv'
<1>1. Held' \subseteq Held /\ HeldTiers' \subseteq HeldTiers /\ HeldTiers \subseteq Tiers
  BY HandleFacts, HeldFacts
<1>2. InOrder(proc[g], object, HeldTiers, Held)
  BY ProcFacts
<1>3. r.state \in Ids /\ Keeps(object[r.state], obj[r.state], HeldTiers')
  BY <1>2 DEF InOrder, Acting, GoodObjects
<1>4. HeldTiers' \subseteq obj[r.state].tiers
  BY <1>1, <1>2, <1>3 DEF InOrder, Keeps, Acting
<1>5. r.tier \in Tiers /\ Tried(obj[r.state], r.tier, HeldTiers')
  BY <1>1, <1>2, <1>3 DEF InOrder, Keeps, Tried
<1>6. InOrder(r, obj, HeldTiers', Held')
  BY <1>1, <1>3, <1>4, <1>5 DEF InOrder, Acting
<1> QED
  BY <1>6, ObjectStep

\* What a goroutine inside a tier knows.
LEMMA ActingFacts ==
    ASSUME PressureInv, NEW g \in Procs, proc[g].pc \in Acting
    PROVE  /\ proc[g].state \in Ids /\ curTier(g) \in Tiers /\ ProcType(proc[g])
           /\ pts(g) \in PerTier /\ pts(g) = object[proc[g].state].per[curTier(g)]
           /\ HeldTiers \subseteq object[proc[g].state].tiers
           /\ Tried(object[proc[g].state], curTier(g), HeldTiers)
           /\ \A q \in Held : proc[g].pods[q].phase # "absent"
<1>1. InOrder(proc[g], object, HeldTiers, Held) /\ ProcType(proc[g])
  BY ProcFacts
<1>2. /\ proc[g].state \in Ids /\ proc[g].tier \in Tiers
      /\ HeldTiers \subseteq object[proc[g].state].tiers
      /\ Tried(object[proc[g].state], proc[g].tier, HeldTiers)
      /\ \A q \in Held : proc[g].pods[q].phase # "absent"
  BY <1>1 DEF InOrder, Acting, Listing
<1>3. object[proc[g].state] \in ObjectType
  BY <1>2, ProcFacts
<1>4. object[proc[g].state].per[proc[g].tier] \in PerTier
  BY <1>2, <1>3 DEF ObjectType
<1> QED
  BY <1>1, <1>2, <1>4 DEF curTier, pts

\* It goes to another step of the tier, or sets its target.
LEMMA ActingGoto ==
    ASSUME PressureInv, NEW g \in Procs, Handle(g), proc[g].pc \in Acting,
           NEW pc \in Acting, NEW obj, GoodObjects(obj, HeldTiers'), object' = obj,
           \/ Goto(g, pc)
           \/ \E P \in SUBSET Pods : Step(g, [proc[g] EXCEPT !.pc = pc, !.target = P])
    PROVE  PressureInv'
<1>1. pc \in ProcPC /\ ProcType(proc[g])
  BY ActingFacts DEF Acting, Working, ProcPC
<1>2. PICK r : /\ Step(g, r) /\ ProcType(r) /\ r.pc = pc /\ r.pods = proc[g].pods
               /\ r.state = proc[g].state /\ r.tier = proc[g].tier
  <2>1. CASE Goto(g, pc)
    <3> DEFINE r == [proc[g] EXCEPT !.pc = pc]
    <3>1. /\ ProcType(r) /\ r.pc = pc /\ r.pods = proc[g].pods
          /\ r.state = proc[g].state /\ r.tier = proc[g].tier
      BY <1>1 DEF ProcType, Fields
    <3>2. Step(g, r)
      BY <2>1 DEF Goto
    <3> HIDE DEF r
    <3> QED
      BY <3>1, <3>2
  <2>2. ASSUME NEW P \in SUBSET Pods, Step(g, [proc[g] EXCEPT !.pc = pc, !.target = P])
        PROVE  \E r : /\ Step(g, r) /\ ProcType(r) /\ r.pc = pc /\ r.pods = proc[g].pods
                      /\ r.state = proc[g].state /\ r.tier = proc[g].tier
    <3> DEFINE r == [proc[g] EXCEPT !.pc = pc, !.target = P]
    <3>1. /\ ProcType(r) /\ r.pc = pc /\ r.pods = proc[g].pods
          /\ r.state = proc[g].state /\ r.tier = proc[g].tier
      BY <1>1 DEF ProcType, Fields
    <3>2. Step(g, r)
      BY <2>2
    <3> HIDE DEF r
    <3> QED
      BY <3>1, <3>2
  <2> QED
    BY <2>1, <2>2
<1> QED
  BY <1>2, ActingFacts, GoesOn

LEMMA DecideDegradeStep ==
    ASSUME PressureInv, NEW g \in Procs, DecideDegrade(g)
    PROVE  PressureInv'
<1>1. Handle(g) /\ proc[g].pc = "degrade?"
  BY DEF Handle, DecideDegrade
<1>2. HeldTiers' \subseteq HeldTiers /\ GoodObjects(object, HeldTiers')
  BY <1>1, HandleFacts
<1>3. proc[g].pc \in Acting /\ "evict?" \in Acting /\ "degrade" \in Acting
  BY <1>1 DEF Acting, Working
<1>4. \A p : p \in PickHighestCPUFromMilli(targets(g), proc[g].milli) => p \in Pods
  BY DEF PickHighestCPUFromMilli, targets, FilterPodsByCriticality, Listed
<1>5. CASE Goto(g, "evict?") /\ object' = object
  BY <1>1, <1>2, <1>3, <1>5, ActingGoto
<1>6. CASE /\ object' = object
           /\ \E p \in Pods : Step(g, [proc[g] EXCEPT !.pc = "degrade", !.target = {p}])
  <2>1. \E P \in SUBSET Pods : Step(g, [proc[g] EXCEPT !.pc = "degrade", !.target = P])
    BY <1>6
  <2> QED
    BY <1>1, <1>2, <1>3, <1>6, <2>1, ActingGoto
<1>7. CASE /\ SetTier(g, curTier(g), [pts(g) EXCEPT !.degraded = TRUE])
           /\ Goto(g, "evict?")
  <2> DEFINE new == [pts(g) EXCEPT !.degraded = TRUE]
  <2>1. /\ proc[g].state \in Ids /\ curTier(g) \in Tiers /\ pts(g) \in PerTier
        /\ pts(g) = object[proc[g].state].per[curTier(g)]
    BY <1>3, ActingFacts
  <2>2. new \in PerTier /\ new.tried = pts(g).tried
    BY <2>1 DEF PerTier
  <2> HIDE DEF new
  <2>3. GoodObjects([object EXCEPT ![proc[g].state].per[curTier(g)] = new], HeldTiers')
    BY <1>2, <2>1, <2>2, TierEntry
  <2>4. object' = [object EXCEPT ![proc[g].state].per[curTier(g)] = new]
    BY <1>7 DEF SetTier, new
  <2> QED
    BY <1>1, <1>3, <1>7, <2>3, <2>4, ActingGoto
<1> QED
  BY <1>4, <1>5, <1>6, <1>7 DEF DecideDegrade

LEMMA DegradeStep ==
    ASSUME PressureInv, NEW g \in Procs, Degrade(g)
    PROVE  PressureInv'
<1>1. Handle(g) /\ proc[g].pc = "degrade"
  BY DEF Handle, Degrade
<1>2. HeldTiers' \subseteq HeldTiers /\ GoodObjects(object, HeldTiers')
  BY <1>1, HandleFacts
<1>3. proc[g].pc \in Acting /\ "evict?" \in Acting
  BY <1>1 DEF Acting, Working
<1>4. CASE Step(g, [proc[g] EXCEPT !.pc = "evict?", !.target = {}]) /\ object' = object
  <2>1. \E P \in SUBSET Pods : Step(g, [proc[g] EXCEPT !.pc = "evict?", !.target = P])
    BY <1>4
  <2> QED
    BY <1>1, <1>2, <1>3, <1>4, <2>1, ActingGoto
<1>5. ASSUME NEW p \in proc[g].target, pod[p].phase # "absent",
             SetTier(g, curTier(g), [pts(g) EXCEPT !.degraded = TRUE, !.last = proc[g].over]),
             Step(g, [proc[g] EXCEPT !.pc = "evict?",
                 !.pods[p] = [pod[p] EXCEPT !.req = DegradePodRequests(proc[g].pods[p].req)],
                 !.target = {}])
      PROVE  PressureInv'
  <2> DEFINE entry == [pts(g) EXCEPT !.degraded = TRUE, !.last = proc[g].over]
             new == [pod[p] EXCEPT !.req = DegradePodRequests(proc[g].pods[p].req)]
             r == [proc[g] EXCEPT !.pc = "evict?", !.pods[p] = new, !.target = {}]
  <2>1. /\ proc[g].state \in Ids /\ curTier(g) \in Tiers /\ pts(g) \in PerTier
        /\ pts(g) = object[proc[g].state].per[curTier(g)] /\ ProcType(proc[g])
        /\ \A q \in Held : proc[g].pods[q].phase # "absent"
    BY <1>3, ActingFacts
  <2>2. entry \in PerTier /\ entry.tried = pts(g).tried
    BY <2>1 DEF PerTier, ProcType
  <2>3. p \in Pods /\ pod[p] \in PodRecord /\ proc[g].pods[p] \in PodRecord
    BY <2>1, ProcFacts DEF ProcType, RestTyped
  <2>4. new \in PodRecord /\ new.phase # "absent"
    BY <1>5, <2>3, DegradedType DEF PodRecord
  <2>5. object' = [object EXCEPT ![proc[g].state].per[curTier(g)] = entry]
    BY <1>5 DEF SetTier
  <2> HIDE DEF entry
  <2>6. GoodObjects([object EXCEPT ![proc[g].state].per[curTier(g)] = entry], HeldTiers')
    BY <1>2, <2>1, <2>2, TierEntry
  <2>7. Step(g, r)
    BY <1>5
  <2> HIDE DEF new
  <2>8. /\ ProcType(r) /\ r.pc = "evict?" /\ r.pods = [proc[g].pods EXCEPT ![p] = new]
        /\ r.state = proc[g].state /\ r.tier = proc[g].tier
    BY <2>1, <2>3, <2>4 DEF ProcType, Fields, ProcPC
  <2> HIDE DEF r
  <2>9. \A q \in Held : r.pods[q].phase # "absent"
    <3>1. proc[g].pods \in [Pods -> PodRecord] /\ Held \subseteq Pods
      BY <2>1, PressureAssumption DEF ProcType, Held
    <3> QED
      BY <2>1, <2>3, <2>4, <2>8, <3>1
  <2> QED
    BY <1>1, <1>3, <2>5, <2>6, <2>7, <2>8, <2>9, GoesOn
<1>6. PICK p \in proc[g].target :
        \/ /\ pod[p].phase # "absent"
           /\ SetTier(g, curTier(g), [pts(g) EXCEPT !.degraded = TRUE, !.last = proc[g].over])
           /\ Step(g, [proc[g] EXCEPT !.pc = "evict?",
                 !.pods[p] = [pod[p] EXCEPT !.req = DegradePodRequests(proc[g].pods[p].req)],
                 !.target = {}])
        \/ Step(g, [proc[g] EXCEPT !.pc = "evict?", !.target = {}]) /\ object' = object
  BY DEF Degrade
<1> QED
  BY <1>4, <1>5, <1>6

LEMMA DecideEvictStep ==
    ASSUME PressureInv, NEW g \in Procs, DecideEvict(g)
    PROVE  PressureInv'
<1>1. Handle(g) /\ proc[g].pc = "evict?" /\ object' = object
  BY DEF Handle, DecideEvict, Local, memVars
<1>2. GoodObjects(object, HeldTiers')
  BY <1>1, HandleFacts
<1>3. proc[g].pc \in Acting /\ "evict" \in Acting /\ "escalate" \in Acting
  BY <1>1 DEF Acting, Working
<1>4. \A p : p \in PickHighestCPUFromMilli(targets(g), proc[g].milli) => p \in Pods
  BY DEF PickHighestCPUFromMilli, targets, FilterPodsByCriticality, Listed
<1>5. CASE Goto(g, "escalate")
  BY <1>1, <1>2, <1>3, <1>5, ActingGoto
<1>6. CASE \E p \in Pods : Step(g, [proc[g] EXCEPT !.pc = "evict", !.target = {p}])
  <2>1. \E P \in SUBSET Pods : Step(g, [proc[g] EXCEPT !.pc = "evict", !.target = P])
    BY <1>6
  <2> QED
    BY <1>1, <1>2, <1>3, <2>1, ActingGoto
<1> QED
  BY <1>4, <1>5, <1>6 DEF DecideEvict

\* An eviction that was tried stays so: EvictPod only sets the mark.
LEMMA EvictPodStep ==
    ASSUME PressureInv, NEW g \in Procs, EvictPod(g)
    PROVE  PressureInv'
<1>1. Handle(g) /\ proc[g].pc = "evict"
  BY DEF Handle, EvictPod
<1>2. HeldTiers' \subseteq HeldTiers
  BY <1>1, HandleFacts
<1>3. proc[g].pc \in Acting /\ "escalate" \in Acting
  BY <1>1 DEF Acting, Working
<1> DEFINE new == [pts(g) EXCEPT !.tried = TRUE]
           obj == [object EXCEPT ![proc[g].state].per[curTier(g)] = new]
<1>4. /\ proc[g].state \in Ids /\ curTier(g) \in Tiers /\ pts(g) \in PerTier
      /\ pts(g) = object[proc[g].state].per[curTier(g)]
  BY <1>3, ActingFacts
<1>5. new \in PerTier /\ new.tried
  BY <1>4 DEF PerTier
<1>6. object' = obj
  BY DEF EvictPod, SetTier
<1> HIDE DEF new
<1>7. GoodObjects(obj, HeldTiers')
  BY <1>2, <1>4, <1>5, TierEntry
<1> HIDE DEF obj
<1>8. \E P \in SUBSET Pods : Step(g, [proc[g] EXCEPT !.pc = "escalate", !.target = P])
  BY DEF EvictPod
<1> QED
  BY <1>1, <1>3, <1>6, <1>7, <1>8, ActingGoto

\* The next higher tier is reached in order if no tier of H is left behind
\* without an eviction: cur had its own, or has no pod of Held.
LEMMA EscalationInOrder ==
    ASSUME NEW o, NEW H, o.tiers \in SUBSET Tiers, H \subseteq o.tiers, NEW cur \in Tiers,
           Tried(o, cur, H), cur \in H => o.per[cur].tried, NextHigherTier(cur, o.tiers) # {}
    PROVE  LET u == Lowest(NextHigherTier(cur, o.tiers)) IN
           u \in Tiers /\ Tried(o, u, H)
<1> DEFINE u == Lowest(NextHigherTier(cur, o.tiers))
<1>1. /\ u \in o.tiers
      /\ \A s \in o.tiers : Below(s, u) => s = cur \/ Below(s, cur)
  BY NextTier
<1> HIDE DEF u
<1>2. u \in Tiers /\ Tried(o, u, H)
  BY <1>1 DEF Tried
<1> QED
  BY <1>2 DEF u

\* The pressure state in hand goes from its tier or from tier cur to the next
\* higher one of its tiers.
LEMMA MovedObject ==
    ASSUME PressureInv, HeldTiers' \subseteq HeldTiers, NEW i \in Ids, NEW o \in ObjectType,
           o.tiers = object[i].tiers, \A s \in Tiers : o.per[s].tried = object[i].per[s].tried,
           HeldTiers' \subseteq o.tiers, NEW cur \in Tiers, Tried(o, cur, HeldTiers'),
           cur \in HeldTiers' => o.per[cur].tried, NextHigherTier(cur, o.tiers) # {}
    PROVE  LET new == [o EXCEPT !.current = Lowest(NextHigherTier(cur, o.tiers))] IN
           GoodObjects([object EXCEPT ![i] = new], HeldTiers') /\ new.tiers = o.tiers
<1> DEFINE u == Lowest(NextHigherTier(cur, o.tiers))
           new == [o EXCEPT !.current = u]
<1>1. o.tiers \in SUBSET Tiers
  BY DEF ObjectType
<1>2. u \in Tiers /\ Tried(o, u, HeldTiers')
  BY <1>1, EscalationInOrder
<1> HIDE DEF u
<1>3. new \in ObjectType /\ new.tiers = o.tiers /\ new.current = u /\ new.per = o.per
  BY <1>2 DEF ObjectType
<1> HIDE DEF new
<1>4. Ordered(new, HeldTiers')
  BY <1>2, <1>3 DEF Ordered, Tried
<1>5. Keeps(object[i], new, HeldTiers')
  BY <1>3 DEF Keeps
<1>6. GoodObjects([object EXCEPT ![i] = new], HeldTiers')
  BY <1>3, <1>4, <1>5, OneObject
<1> QED
  BY <1>3, <1>6 DEF u, new

LEMMA EscalateStep ==
    ASSUME PressureInv, NEW g \in Procs, Escalate(g)
    PROVE  PressureInv'
<1>1. Handle(g) /\ proc[g].pc = "escalate"
  BY DEF Handle, Escalate
<1>2. /\ RestTyped' /\ AbsentHasNothing' /\ Held' \subseteq Held
      /\ HeldTiers' \subseteq HeldTiers /\ GoodObjects(object, HeldTiers')
  BY <1>1, HandleFacts
<1>3. proc[g].pc \in Acting
  BY <1>1 DEF Acting, Working
<1> DEFINE i == proc[g].state
           o == object[i]
           cur == curTier(g)
           next == NextHigherTier(cur, o.tiers)
<1>4. CASE Leave(g)
  BY <1>2, <1>4, LeaveInOrder DEF Leave
<1>5. CASE /\ pts(g).tried /\ next # {}
           /\ LeaveWith(g, [object EXCEPT ![i].current = Lowest(next)])
  <2>1. /\ i \in Ids /\ cur \in Tiers /\ pts(g) = o.per[cur]
        /\ HeldTiers \subseteq o.tiers /\ Tried(o, cur, HeldTiers)
    BY <1>3, ActingFacts
  <2>2. object \in [Ids -> ObjectType] /\ o \in ObjectType
    BY <2>1, ProcFacts
  <2>3. HeldTiers' \subseteq o.tiers /\ Tried(o, cur, HeldTiers')
    BY <1>2, <2>1 DEF Tried
  <2>4. GoodObjects([object EXCEPT ![i] = [o EXCEPT !.current = Lowest(next)]], HeldTiers')
    BY <1>2, <1>5, <2>1, <2>2, <2>3, MovedObject
  <2>5. [object EXCEPT ![i].current = Lowest(next)]
          = [object EXCEPT ![i] = [o EXCEPT !.current = Lowest(next)]]
    BY <2>1, <2>2
  <2> QED
    BY <1>2, <1>5, <2>4, <2>5, LeaveInOrder
<1> QED
  BY <1>4, <1>5 DEF Escalate

LEMMA ProcessTierStep ==
    ASSUME PressureInv, NEW g \in Procs, ProcessTier(g)
    PROVE  PressureInv'
<1>1. Handle(g) /\ proc[g].pc = "process"
  BY DEF Handle, ProcessTier
<1>2. /\ RestTyped' /\ AbsentHasNothing' /\ Held' \subseteq Held
      /\ HeldTiers' \subseteq HeldTiers /\ GoodObjects(object, HeldTiers')
      /\ HeldTiers' \subseteq Tiers
  BY <1>1, HandleFacts, HeldFacts
<1> DEFINE i == proc[g].state
           o == object[i]
           t == o.current
           here == FilterPodsByCriticality(proc[g].pods, t)
           missing == Min({o.per[t].missing + 1, TierMissingTolerance})
           moved == [o EXCEPT !.per[t].missing = missing]
           next == NextHigherTier(t, o.tiers)
<1>3. /\ i \in Ids /\ ProcType(proc[g]) /\ HeldTiers \subseteq o.tiers
      /\ \A q \in Held : proc[g].pods[q].phase # "absent"
  BY <1>1, ProcFacts DEF InOrder, Working, Listing
<1>4. object \in [Ids -> ObjectType] /\ o \in ObjectType /\ Ordered(o, HeldTiers')
  BY <1>2, <1>3, ProcFacts DEF GoodObjects
<1>5. CASE Leave(g)
  BY <1>2, <1>5, LeaveInOrder DEF Leave
<1>6. CASE /\ t # NoTier
           /\ SetTier(g, t, [o.per[t] EXCEPT !.missing = 0])
           /\ Step(g, [proc[g] EXCEPT !.pc = "degrade?", !.tier = t])
  <2> DEFINE new == [o.per[t] EXCEPT !.missing = 0]
             obj == [object EXCEPT ![i].per[t] = new]
             r == [proc[g] EXCEPT !.pc = "degrade?", !.tier = t]
  <2>1. t \in Tiers /\ o.per[t] \in PerTier /\ Tried(o, t, HeldTiers')
    BY <1>4, <1>6 DEF ObjectType, Ordered
  <2>2. new \in PerTier /\ new.tried = o.per[t].tried
    BY <2>1 DEF PerTier
  <2>3. Step(g, r) /\ object' = obj
    BY <1>6 DEF SetTier
  <2> HIDE DEF new
  <2>4. /\ GoodObjects(obj, HeldTiers') /\ obj[i].tiers = o.tiers
        /\ \A s \in Tiers : o.per[s].tried => obj[i].per[s].tried
    <3>1. GoodObjects([object EXCEPT ![i].per[t] = new], HeldTiers')
      BY <1>2, <1>3, <2>1, <2>2, TierEntry
    <3>2. obj[i].tiers = o.tiers /\ obj[i].per = [o.per EXCEPT ![t] = new]
      BY <1>3, <1>4 DEF ObjectType
    <3> QED
      BY <1>4, <2>1, <2>2, <3>1, <3>2 DEF ObjectType
  <2>5. /\ ProcType(r) /\ r.pc = "degrade?" /\ r.pods = proc[g].pods /\ r.state = i
        /\ r.tier = t
    BY <1>3, <2>1 DEF ProcType, Fields, ProcPC
  <2> HIDE DEF obj, r
  <2>6. Tried(obj[i], t, HeldTiers')
    BY <1>2, <2>1, <2>4 DEF Tried
  <2>7. InOrder(r, obj, HeldTiers', Held')
    BY <1>2, <1>3, <2>1, <2>4, <2>5, <2>6 DEF InOrder, Acting, Working, Listing
  <2> QED
    BY <1>1, <2>3, <2>4, <2>5, <2>7, ObjectStep
<1>7. CASE /\ t # NoTier /\ here = {}
           /\ IF missing = TierMissingTolerance /\ next # {}
                THEN /\ object' = [object EXCEPT ![i] = [moved EXCEPT !.current = Lowest(next)]]
                     /\ UNCHANGED proc
                ELSE LeaveWith(g, [object EXCEPT ![i] = moved])
  <2>1. t \in Tiers /\ o.per[t] \in PerTier /\ Tried(o, t, HeldTiers')
    BY <1>4, <1>7 DEF ObjectType, Ordered
  <2>2. missing \in Nat
    <3>1. o.per[t].missing + 1 \in Nat
      BY <2>1 DEF PerTier
    <3> QED
      BY <3>1, MinMaxFacts
  <2>3. \/ LeaveWith(g, [object EXCEPT ![i] = moved])
        \/ /\ next # {} /\ UNCHANGED proc
           /\ object' = [object EXCEPT ![i] = [moved EXCEPT !.current = Lowest(next)]]
    BY <1>7
  <2> HIDE DEF missing
  <2>4. /\ moved \in ObjectType /\ moved.tiers = o.tiers /\ moved.current = t
        /\ \A s \in Tiers : moved.per[s].tried = o.per[s].tried
    BY <1>4, <2>1, <2>2 DEF ObjectType, PerTier
  <2> HIDE DEF moved
  <2>5. Tried(moved, t, HeldTiers') /\ HeldTiers' \subseteq moved.tiers
    BY <1>2, <1>3, <2>1, <2>4 DEF Tried
  <2>6. t \notin HeldTiers'
    BY <1>2, <1>3, <1>7, ListedTiers
  <2>7. CASE LeaveWith(g, [object EXCEPT ![i] = moved])
    <3>1. Ordered(moved, HeldTiers')
      BY <2>4, <2>5 DEF Ordered
    <3>2. Keeps(o, moved, HeldTiers')
      BY <2>4 DEF Keeps
    <3>3. GoodObjects([object EXCEPT ![i] = moved], HeldTiers')
      BY <1>2, <1>3, <2>4, <3>1, <3>2, OneObject
    <3> QED
      BY <1>2, <2>7, <3>3, LeaveInOrder
  <2>8. CASE /\ next # {} /\ UNCHANGED proc
             /\ object' = [object EXCEPT ![i] = [moved EXCEPT !.current = Lowest(next)]]
    <3> DEFINE new == [moved EXCEPT !.current = Lowest(next)]
               obj == [object EXCEPT ![i] = new]
    <3>0. NextHigherTier(t, moved.tiers) # {} /\ next = NextHigherTier(t, moved.tiers)
      BY <2>4, <2>8
    <3> HIDE DEF next
    <3>1. GoodObjects(obj, HeldTiers') /\ new.tiers = o.tiers
      <4>1. /\ HeldTiers' \subseteq HeldTiers /\ i \in Ids /\ moved.tiers = object[i].tiers
            /\ \A s \in Tiers : moved.per[s].tried = object[i].per[s].tried
        BY <1>2, <1>3, <2>4
      <4>2. /\ GoodObjects([object EXCEPT ![i] = [moved EXCEPT !.current
                                = Lowest(NextHigherTier(t, moved.tiers))]], HeldTiers')
            /\ [moved EXCEPT !.current = Lowest(NextHigherTier(t, moved.tiers))].tiers
                 = moved.tiers
        BY <1>1, <1>2, <2>1, <2>4, <2>5, <2>6, <3>0, <4>1, MovedObject
      <4> QED
        BY <2>4, <3>0, <4>2
    <3>2. object' = obj
      BY <2>8
    <3> HIDE DEF new
    <3>3. obj[i] = new
      BY <1>3, <1>4
    <3> HIDE DEF obj
    <3>4. InOrder(proc[g], obj, HeldTiers', Held')
      BY <1>1, <1>2, <1>3, <3>1, <3>3 DEF InOrder, Acting, Working, Listing
    <3>5. Step(g, proc[g])
      BY <2>8 DEF Step, PressureInv, PressureType, ProcsTyped
    <3> QED
      BY <1>1, <1>3, <3>1, <3>2, <3>4, <3>5, ObjectStep
  <2> QED
    BY <2>3, <2>7, <2>8
<1> QED
  BY <1>5, <1>6, <1>7 DEF ProcessTier

-----------------------------------------------------------------------------
(***************************************************************************)
(* The worker, the environment, and the theorems.                          *)
(***************************************************************************)
LEMMA WorkerStep ==
    ASSUME PressureInv, CheckNode \/ Recover
    PROVE  PressureInv'
<1> USE DEF envVars, memVars, bounds
<1>1. Worker \in Procs
  BY DEF Procs
<1>2. /\ ProcType(proc[Worker]) /\ InOrder(proc[Worker], object, HeldTiers, Held)
      /\ RestTyped /\ AbsentHasNothing
  BY <1>1, ProcFacts
<1>3. RestTyped'
  <2>1. CASE CheckNode
    BY <1>2, <2>1 DEF CheckNode, RestTyped
  <2>2. CASE RecoverPods
    BY <1>2, <2>2, SpendType DEF RecoverPods, Local, RestTyped
  <2>3. CASE RecoverClear
    BY <1>2, <2>3 DEF RecoverClear, RestTyped
  <2> QED
    BY <2>1, <2>2, <2>3 DEF Recover
<1>4. pod' = pod
  BY DEF CheckNode, Recover, RecoverPods, RecoverClear, Local
<1>5. AbsentHasNothing' /\ Held' = Held /\ HeldTiers' \subseteq HeldTiers
  BY <1>2, <1>4, SamePods, HeldFacts
<1>6. GoodObjects(object, HeldTiers')
  BY <1>5, SameObjects
<1>7. GoodStep(Worker, HeldTiers')
  <2>1. CASE object' = object
    BY <1>6, <2>1, GoodSame
  <2>2. CASE object' = Reachable(object, NoState, Worker)
    BY <1>6, <2>2, GoodCollected
  <2> QED
    BY <2>1, <2>2 DEF CheckNode, Recover, RecoverPods, RecoverClear, Local
<1>8. PICK r : /\ Step(Worker, r) /\ ProcType(r) /\ r.state = NoState
               /\ r.pc \in {"idle", "list", "recover", "clear"}
  <2>1. CASE Step(Worker, Idle)
    BY <2>1, IdleType
  <2>2. ASSUME NEW pc \in {"list", "recover", "clear"}, Goto(Worker, pc),
               proc[Worker].state = NoState
        PROVE  \E r : /\ Step(Worker, r) /\ ProcType(r) /\ r.state = NoState
                      /\ r.pc \in {"idle", "list", "recover", "clear"}
    <3> DEFINE r == [proc[Worker] EXCEPT !.pc = pc]
    <3>1. pc \in ProcPC
      BY DEF ProcPC
    <3>2. ProcType(r) /\ r.pc = pc /\ r.state = NoState
      BY <1>2, <2>2, <3>1 DEF ProcType, Fields
    <3>3. Step(Worker, r)
      BY <2>2 DEF Goto
    <3> HIDE DEF r
    <3> QED
      BY <3>2, <3>3
  <2>3. ASSUME CheckNode
        PROVE  /\ proc[Worker].state = NoState
               /\ \E pc \in {"list", "recover", "clear"} : Goto(Worker, pc)
    BY <2>3, IdleType DEF CheckNode
  <2>4. ASSUME RecoverPods
        PROVE  /\ proc[Worker].state = NoState
               /\ Step(Worker, Idle) \/ Goto(Worker, "clear")
    BY <1>2, <2>4 DEF RecoverPods, InOrder, Working
  <2>5. ASSUME RecoverClear PROVE Step(Worker, Idle)
    BY <2>5 DEF RecoverClear
  <2> QED
    BY <2>1, <2>2, <2>3, <2>4, <2>5 DEF Recover
<1>9. InOrder(r, object', HeldTiers', Held')
  BY <1>8 DEF InOrder, Acting, Working, Listing
<1> QED
  BY <1>1, <1>3, <1>5, <1>7, <1>8, <1>9, StepOfOne

\* Nobody is at work, and the pressure states are fresh.
AllFresh == proc = [g \in Procs |-> Idle] /\ object = [i \in Ids |-> FreshState]

LEMMA AllFreshInv == RestTyped /\ AbsentHasNothing /\ AllFresh => PressureInv
<1> SUFFICES ASSUME RestTyped, AbsentHasNothing, AllFresh PROVE PressureInv
  OBVIOUS
<1>1. \A g \in Procs : ProcType(proc[g]) /\ proc[g].pc = "idle" /\ proc[g].state = NoState
  BY IdleType DEF AllFresh
<1>2. object \in [Ids -> ObjectType]
  BY FreshType DEF AllFresh
<1>3. PressureType
  BY <1>1, <1>2, TypeParts DEF ProcsTyped, AllFresh
<1>4. \A i \in Ids : Ordered(object[i], HeldTiers)
  BY FreshOrdered DEF AllFresh
<1>5. \A g \in Procs : InOrder(proc[g], object, HeldTiers, Held)
  BY <1>1 DEF InOrder, Acting, Working, Listing
<1> QED
  BY <1>3, <1>4, <1>5 DEF PressureInv, Order

LEMMA PressureInvInit ==
    ASSUME Init
    PROVE  PressureInv
<1> DEFINE start(p) == IF p \in Resident THEN [phase |-> "running", req |-> Requests[p]]
                                         ELSE Absent
<1>1. pod = [p \in Pods |-> start(p)]
  BY DEF Init
<1>2. ASSUME NEW p \in Pods
      PROVE  start(p) \in PodRecord /\ (start(p).phase = "absent" => start(p) = Absent)
  <2>1. Requests[p] \in Seq(Nat)
    BY PressureAssumption
  <2>2. CASE p \in Resident
    BY <2>1, <2>2 DEF PodRecord
  <2>3. CASE p \notin Resident
    BY <2>3, AbsentType
  <2> QED
    BY <2>2, <2>3
<1> HIDE DEF start
<1>3. pod \in [Pods -> PodRecord] /\ AbsentHasNothing
  BY <1>1, <1>2 DEF AbsentHasNothing
<1>4. RestTyped
  BY <1>3 DEF Init, RestTyped
<1> QED
  BY <1>3, <1>4, AllFreshInv DEF Init, AllFresh

LEMMA EnvironmentStep ==
    ASSUME PressureInv, Environment \/ \E p \in Pods : Terminated(p)
    PROVE  PressureInv'
<1> USE DEF memVars, bounds
<1>1. RestTyped /\ AbsentHasNothing /\ object \in [Ids -> ObjectType] /\ ProcsTyped
  BY TypeParts DEF PressureInv, PressureType, Order
<1>2. RestTyped' /\ AbsentHasNothing' /\ Held' \subseteq Held
  BY <1>1, EnvironmentRest
<1>3. CASE Restart
  <2>1. (RestTyped /\ AbsentHasNothing /\ AllFresh => PressureInv)'
    BY AllFreshInv, PTL
  <2> QED
    BY <1>2, <1>3, <2>1 DEF Restart, AllFresh
<1>4. CASE object' = object /\ proc' = proc
  <2>1. HeldTiers' \subseteq HeldTiers /\ HeldTiers \subseteq Tiers
    BY <1>2, HeldFacts
  <2>2. \A i \in Ids : Ordered(object[i], HeldTiers')
    BY <2>1, OrderedShrinks DEF PressureInv, Order
  <2>3. ASSUME NEW g \in Procs PROVE InOrder(proc[g], object, HeldTiers', Held')
    <3>1. InOrder(proc[g], object, HeldTiers, Held)
      BY DEF PressureInv, Order
    <3>2. Keeps(object[proc[g].state], object[proc[g].state], HeldTiers')
      BY DEF Keeps
    <3> QED
      BY <1>2, <2>1, <3>1, <3>2, OthersInOrder
  <2>4. Order'
    BY <1>2, <1>4, <2>2, <2>3 DEF Order
  <2>5. (RestTyped /\ object \in [Ids -> ObjectType] /\ ProcsTyped => PressureType)'
    BY TypeParts, PTL
  <2>6. ProcsTyped'
    BY <1>1, <1>4 DEF ProcsTyped
  <2> QED
    BY <1>1, <1>2, <1>4, <2>4, <2>5, <2>6 DEF PressureInv
<1> QED
  BY <1>3, <1>4 DEF Environment, ReportBusy, ReportIdle, Arrive, Depart, Terminated, SetPod,
                    Agent

LEMMA PressureInvStep ==
    ASSUME PressureInv, [Next]_vars
    PROVE  PressureInv'
<1>1. ASSUME NEW g \in Procs, NodeEvent(g) \/ Handle(g) PROVE PressureInv'
  BY <1>1, NodeEventStep, ReadNodeAndPodsStep, ReadMilliStep, CreateStateStep, RetierStep,
     ProcessTierStep, DecideDegradeStep, DegradeStep, DecideEvictStep, EvictPodStep,
     EscalateStep DEF Handle
<1>2. CASE UNCHANGED vars
  BY <1>2 DEF vars, envVars, memVars, bounds, PressureInv, PressureType, TypeOK, ProcsTyped,
              Order, AbsentHasNothing, HeldTiers, Held
<1> QED
  BY <1>1, <1>2, WorkerStep, EnvironmentStep DEF Next

LEMMA PressureInvariant == Spec => []PressureInv
<1>1. Init => PressureInv
  BY PressureInvInit
<1>2. PressureInv /\ [Next]_vars => PressureInv'
  BY PressureInvStep
<1> QED
  BY <1>1, <1>2, PTL DEF Spec

\* The state of the pressure handler is well typed: whatever goroutines share
\* the map, there is always an object to refer to, and every one they hold
\* stays one.
THEOREM PressureTypeCorrect == Spec => []TypeOK
<1>1. PressureInv => TypeOK
  BY DEF PressureInv, PressureType
<1> QED
  BY <1>1, PressureInvariant, PTL

\* Lower tiers first, for any number of goroutines in the handler at once: a
\* pod is degraded or evicted only if every lower tier with a pod that was
\* there from the start has had its eviction tried.
THEOREM LowerTiersFirst == Spec => []TierOrder
<1>1. PressureInv => TierOrder
  <2> SUFFICES ASSUME PressureInv, NEW g \in Procs, proc[g].pc \in {"degrade", "evict"},
                      NEW q \in Resident, pod[q] # Absent, Criticality[q] \in Tiers,
                      Below(Criticality[q], curTier(g))
               PROVE  object[proc[g].state].per[Criticality[q]].tried
    BY DEF TierOrder
  <2>1. Tried(object[proc[g].state], curTier(g), HeldTiers)
    BY ActingFacts DEF Acting, Working
  <2>2. pod[q].phase # "absent"
    BY PressureAssumption DEF PressureInv, Order, AbsentHasNothing
  <2>3. Criticality[q] \in HeldTiers
    BY <2>2 DEF HeldTiers, Held
  <2> QED
    BY <2>1, <2>3 DEF Tried
<1> QED
  BY <1>1, PressureInvariant, PTL
=============================================================================
