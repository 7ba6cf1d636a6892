-------------------------- MODULE ReconcilerProofs --------------------------
(***************************************************************************)
(* Proofs about the controller's lifecycle of RT pods, for every set of    *)
(* nodes, cores and pods, every RT setting and every bound on what the     *)
(* environment does: it uses the ledger the way CPUPool says, it           *)
(* implements Ownership, a migration stays within the threshold, and room  *)
(* is made before it is taken.                                             *)
(***************************************************************************)
EXTENDS Reconciler, PlacementLemmas

\* The steps of a Reconcile by what it has made sure of.
Preempting == {"select", "preempt", "migrateOff", "migrateOn", "migrateStatus", "evict"}
Charging == Preempting \cup
            {"check", "utilization", "entry", "compare", "unregister", "register"}
Allocating == Charging \cup {"allocate", "budget"}
HoldsCopy == {"cleanup", "drop", "finalize", "setNode", "allocate"}

(***************************************************************************)
(* What the local variables of the worker and of the pod-event goroutine   *)
(* hold where they are used.                                               *)
(***************************************************************************)
LocalsOK ==
    /\ worker.pc # "idle" => key \in Pods
    /\ worker.pc \in Allocating => onNode \in Nodes /\ CoreSpec[key] # <<>>
    /\ worker.pc \in Charging => worker.millis > 0
    /\ worker.pc \in Preempting => worker.i \in DOMAIN targetCores
    /\ worker.pc \in {"entry", "compare"} => worker.i = 1
    /\ worker.pc \in {"unregister", "register"} => worker.i \in DOMAIN CoreSpec[key]
    /\ worker.pc \in {"migrateOff", "migrateOn", "migrateStatus", "evict", "revert"} =>
           worker.victim \in Pods
    /\ worker.pc \in {"migrateOff", "migrateOn", "migrateStatus"} => worker.target \in Cores
    /\ worker.pc \in {"migrateOff", "migrateOn"} => worker.info \in PodInfo
    /\ handler.pc = "drop" => handler.pod \in Pods

\* A CR is marked only while the finalizer holds it, and only a CR that
\* exists has one.
CRShape ==
    \A p \in Pods : /\ cr[p].deleting => cr[p].finalizer
                    /\ cr[p].finalizer => cr[p].exists

\* A copy of p's CR is old, or it is the CR: resourceVersion tells.
Copies(p, copy) ==
    /\ copy.version <= cr[p].version
    /\ copy.version = cr[p].version => copy = cr[p]

\* Whoever may still write with a copy holds one of those, and the worker's
\* copy is no newer than the cache it came from.
VersionsOK ==
    /\ \A p \in Pods : /\ Copies(p, crCache[p])
                       /\ escalating[p].exists => Copies(p, escalating[p])
    /\ worker.pc \in HoldsCopy =>
           Copies(key, worker.rt) /\ worker.rt.version <= crCache[key].version
    /\ worker.pc = "revert" => Copies(worker.victim, worker.rt)

\* What the worker's copy of the CR told it to do.
Decision ==
    /\ worker.pc \in HoldsCopy => worker.rt.exists
    /\ worker.pc \in {"cleanup", "drop"} => worker.rt.deleting /\ worker.rt.finalizer
    /\ worker.pc = "finalize" => ~ worker.rt.deleting /\ ~ worker.rt.finalizer
    /\ worker.pc \in {"setNode", "allocate"} => ~ worker.rt.deleting /\ worker.rt.finalizer

\* The CR cannot disappear without the worker.
HeldCR(p) == cr[p].exists /\ cr[p].finalizer

(***************************************************************************)
(* Who relies on a held CR: every ledger entry, the cache's view of a live *)
(* CR, the Reconcile that is about to charge its pod and the one that has  *)
(* victims in hand.  A cleanup has left no entry on the pools behind it.   *)
(***************************************************************************)
Holding ==
    /\ \A p \in Pods : Entry(p) => HeldCR(p)
    /\ \A p \in Pods : crCache[p].finalizer /\ ~ crCache[p].deleting => HeldCR(p)
    /\ worker.pc \in Allocating => HeldCR(key)
    /\ \A p \in Pods : worker.victims[p] # NoPod => HeldCR(p)
    /\ worker.pc \in {"migrateOff", "migrateOn"} => HeldCR(worker.victim)
    /\ worker.pc = "drop" => \A n \in Nodes \ worker.todo, c \in Cores :
                                 corePods[n][c][key] = NoPod

\* The target of a migration still has the room it was chosen for.
TargetFits ==
    worker.pc \in {"migrateOff", "migrateOn"} =>
        usage[onNode][worker.target] + worker.info.CPUMillis <= UtilizationThreshold

ReconcilerInv ==
    /\ TypeOK /\ PoolInv /\ LocalsOK /\ CRShape /\ VersionsOK /\ Decision
    /\ Holding /\ TargetFits

-----------------------------------------------------------------------------
(***************************************************************************)
(* Types of the values the state is made of.                               *)
(***************************************************************************)
LEMMA IdleTypes ==
    /\ NoCR \in CR /\ AbsentPod \in PodState
    /\ EmptyCore \in [Pods -> PodInfo \cup {NoPod}]
    /\ IdleWorker \in Worker
    /\ IdleHandler \in [pc : {"idle", "drop"}, pod : Pods \cup {NoKey}, todo : SUBSET Nodes]
<1>1. NoCR \in CR /\ AbsentPod \in PodState
  BY DEF NoCR, CR, AbsentPod, PodState
<1>2. EmptyCore \in [Pods -> PodInfo \cup {NoPod}]
  BY DEF EmptyCore
<1> QED
  BY <1>1, <1>2 DEF IdleWorker, Worker, WorkerPC, IdleHandler

LEMMA KindNames ==
    /\ "createPod" \in Kinds /\ "deletePod" \in Kinds /\ "finishPod" \in Kinds
    /\ "createCR" \in Kinds /\ "deleteCR" \in Kinds /\ "overrun" \in Kinds
    /\ "recovery" \in Kinds /\ "failure" \in Kinds /\ "restart" \in Kinds
    /\ "lost" \in Kinds
BY DEF Kinds

BoundsOK == used \in [Kinds -> Nat] /\ limit \in [Kinds -> Nat]

LEMMA SpendType ==
    ASSUME BoundsOK, NEW k \in Kinds, Spend(k)
    PROVE  BoundsOK'
BY DEF BoundsOK, Spend

StoreOK == cr \in [Pods -> CR] /\ crNote \subseteq Pods

LEMMA CommitType ==
    ASSUME StoreOK, NEW p \in Pods, NEW new \in CR, Commit(p, new)
    PROVE  StoreOK'
<1>1. cr[p].version + 1 \in Nat
  BY DEF StoreOK, CR
<1>2. [new EXCEPT !.version = cr[p].version + 1] \in CR
  BY <1>1 DEF CR
<1> QED
  BY <1>2 DEF StoreOK, Commit

LEMMA WriteType ==
    ASSUME StoreOK, BoundsOK, NEW p \in Pods, NEW copy, NEW new \in CR,
           Write(p, copy, new)
    PROVE  StoreOK' /\ BoundsOK'
BY CommitType DEF Write, StoreOK, BoundsOK, bounds

LEMMA WriteFailsType ==
    ASSUME StoreOK, BoundsOK, NEW p \in Pods, NEW copy, WriteFails(p, copy)
    PROVE  StoreOK' /\ BoundsOK'
<1>1. StoreOK'
  BY DEF WriteFails, StoreOK
<1>2. CASE UNCHANGED bounds
  BY <1>1, <1>2 DEF bounds, BoundsOK
<1>3. CASE Spend("failure")
  BY <1>1, <1>3, SpendType, KindNames
<1> QED
  BY <1>2, <1>3 DEF WriteFails

LEMMA StatusLostType ==
    ASSUME StoreOK, BoundsOK, NEW p \in Pods, NEW copy, StatusLost(p, copy)
    PROVE  StoreOK' /\ BoundsOK'
BY KindNames DEF StatusLost, StoreOK, BoundsOK

\* A budget is never zero: a zero becomes the default.
LEMMA BudgetPositive ==
    ASSUME NEW p \in Pods
    PROVE  cpuMillis(p) \in Nat /\ cpuMillis(p) > 0
<1> DEFINE r == IF p \in runtimeHi THEN RuntimeHi[p] ELSE RuntimeLow[p]
<1>1. r \in Nat /\ Period[p] \in Nat /\ UnitsPerCore \in Nat
      /\ DefaultUnits \in Nat /\ DefaultUnits > 0
  BY ReconcilerAssumption
<1>2. r * UnitsPerCore \in Nat
  BY <1>1
<1>3. Period[p] > 0 => (r * UnitsPerCore) \div Period[p] \in Nat
  <2> DEFINE a == r * UnitsPerCore
  <2>1. a \in Nat
    BY <1>2
  <2> HIDE DEF a
  <2>2. Period[p] > 0 => a \div Period[p] \in Nat
    BY <1>1, <2>1
  <2> QED
    BY <2>2 DEF a
<1> QED
  BY <1>1, <1>3 DEF cpuMillis

\* Every way a CR, a pod, a list of pod events or the core index is updated.
LEMMA CRUpdates ==
    ASSUME NEW copy \in CR
    PROVE  /\ \A b \in BOOLEAN : [copy EXCEPT !.deleting = b] \in CR
           /\ \A b \in BOOLEAN : [copy EXCEPT !.finalizer = b] \in CR
           /\ \A b \in BOOLEAN : [copy EXCEPT !.hi = b] \in CR
           /\ \A n \in Nodes \cup {NoNode} : [copy EXCEPT !.node = n] \in CR
           /\ \A s \in Seq(CoreIDs) : [copy EXCEPT !.allocated = s] \in CR
BY DEF CR

LEMMA EventUpdates ==
    /\ \A b \in BOOLEAN : <<b>> \in Seq(BOOLEAN)
    /\ \A s \in Seq(BOOLEAN), b \in BOOLEAN : Append(s, b) \in Seq(BOOLEAN)
    /\ \A s \in Seq(BOOLEAN) : s # <<>> => Tail(s) \in Seq(BOOLEAN)
OBVIOUS

LEMMA WorkerUpdates ==
    ASSUME NEW w \in Worker
    PROVE  /\ \A pc \in WorkerPC : [w EXCEPT !.pc = pc] \in Worker
           /\ \A pc \in WorkerPC, rt \in CR : [w EXCEPT !.pc = pc, !.rt = rt] \in Worker
           /\ \A pc \in WorkerPC, m \in Nat, R \in SUBSET (CoreIDs \cup {0}) :
                 [w EXCEPT !.pc = pc, !.needed = m, !.refilled = R] \in Worker
           /\ \A R \in SUBSET (CoreIDs \cup {0}) :
                 [w EXCEPT !.i = @ + 1, !.refilled = R] \in Worker
           /\ \A pc \in WorkerPC : [w EXCEPT !.pc = pc, !.i = @ + 1] \in Worker
           /\ \A pc \in WorkerPC, p \in Pods, rt \in CR, po \in PodState :
                 [w EXCEPT !.pc = pc, !.key = p, !.rt = rt, !.po = po] \in Worker
<1>1. ASSUME NEW pc \in WorkerPC PROVE [w EXCEPT !.pc = pc] \in Worker
  BY DEF Worker
<1>2. ASSUME NEW pc \in WorkerPC, NEW rt \in CR
      PROVE  [w EXCEPT !.pc = pc, !.rt = rt] \in Worker
  BY DEF Worker
<1>3. ASSUME NEW pc \in WorkerPC, NEW m \in Nat, NEW R \in SUBSET (CoreIDs \cup {0})
      PROVE  [w EXCEPT !.pc = pc, !.needed = m, !.refilled = R] \in Worker
  BY DEF Worker
<1>4. w.i + 1 \in Nat \ {0}
  BY DEF Worker
<1>5. ASSUME NEW R \in SUBSET (CoreIDs \cup {0})
      PROVE  [w EXCEPT !.i = @ + 1, !.refilled = R] \in Worker
  BY <1>4 DEF Worker
<1>6. ASSUME NEW pc \in WorkerPC PROVE [w EXCEPT !.pc = pc, !.i = @ + 1] \in Worker
  BY <1>4 DEF Worker
<1>7. ASSUME NEW pc \in WorkerPC, NEW p \in Pods, NEW rt \in CR, NEW po \in PodState
      PROVE  [w EXCEPT !.pc = pc, !.key = p, !.rt = rt, !.po = po] \in Worker
  BY DEF Worker
<1> QED
  BY <1>1, <1>2, <1>3, <1>5, <1>6, <1>7

LEMMA IndexUpdates ==
    ASSUME worker \in Worker
    PROVE  worker.i + 1 \in Nat \ {0} /\ 1 \in Nat \ {0}
BY DEF Worker

LEMMA PodUpdates ==
    ASSUME NEW s \in PodState
    PROVE  /\ [s EXCEPT !.deleting = TRUE] \in PodState
           /\ [s EXCEPT !.phase = "Done"] \in PodState
           /\ \A n \in Nodes : [s EXCEPT !.node = n] \in PodState
BY DEF PodState

\* Where the steps of preemption and registration lead.
LEMMA NextPC ==
    ASSUME worker \in Worker
    PROVE  /\ \/ SelectVictims \/ NoVictimLeft \/ NextVictim \/ PreemptionDone
              \/ PrepareEntry \/ CompareEntry \/ Unregister
              \/ \E v \in Pods : PreemptPod(v)
              => worker'.key = worker.key
           /\ SelectVictims => worker'.pc = "preempt"
           /\ NoVictimLeft => worker'.pc = "utilization"
           /\ \A v \in Pods : PreemptPod(v) =>
                 worker'.pc \in {"preempt", "evict", "migrateOff"}
           /\ NextVictim => worker'.pc = "preempt"
           /\ PreemptionDone => worker'.pc = "entry"
           /\ PrepareEntry => worker'.pc = "compare"
           /\ CompareEntry => worker'.pc \in {"unregister", "tail"}
           /\ Unregister => worker'.pc = "register"
<1> DEFINE Fields == {"pc", "key", "rt", "po", "millis", "i", "needed", "victims",
                      "victim", "info", "target", "todo", "revert", "skipped", "refilled"}
<1>1. worker = [f \in Fields |-> worker[f]]
  BY DEF Worker
<1> HIDE DEF Fields
<1>2. "pc" \in Fields /\ "key" \in Fields /\ "pc" # "key"
  BY DEF Fields
<1>3. SelectVictims => worker'.pc = "preempt" /\ worker'.key = worker.key
  BY <1>1, <1>2 DEF SelectVictims
<1>4. NoVictimLeft => worker'.pc = "utilization" /\ worker'.key = worker.key
  BY <1>1, <1>2 DEF NoVictimLeft
<1>5. ASSUME NEW v \in Pods, PreemptPod(v)
      PROVE  /\ worker'.pc \in {"preempt", "evict", "migrateOff"}
             /\ worker'.key = worker.key
  <2> DEFINE rest == [worker EXCEPT !.victims[v] = NoPod]
  <2>1. rest = [f \in Fields |-> rest[f]] /\ rest.pc = worker.pc
        /\ rest.key = worker.key
    BY <1>1, <1>2
  <2> HIDE DEF rest
  <2>2. \/ worker' = [rest EXCEPT !.skipped = @ \cup {v}]
        \/ worker' = [rest EXCEPT !.pc = "evict", !.victim = v]
        \/ \E info, c : worker' = [rest EXCEPT !.pc = "migrateOff", !.victim = v,
                                              !.info = info, !.target = c]
    BY <1>5 DEF PreemptPod, rest
  <2>3. worker.pc = "preempt"
    BY <1>5 DEF PreemptPod
  <2> QED
    BY <1>2, <2>1, <2>2, <2>3
<1>6. NextVictim => worker'.pc = "preempt" /\ worker'.key = worker.key
  BY <1>1, <1>2 DEF NextVictim
<1>7. PreemptionDone => worker'.pc = "entry" /\ worker'.key = worker.key
  BY <1>1, <1>2 DEF PreemptionDone
<1>8. PrepareEntry => worker'.pc = "compare" /\ worker'.key = worker.key
  BY <1>1, <1>2 DEF PrepareEntry
<1>9. CompareEntry => worker'.pc \in {"unregister", "tail"} /\ worker'.key = worker.key
  BY <1>1, <1>2 DEF CompareEntry, Goto
<1>10. Unregister => worker'.pc = "register" /\ worker'.key = worker.key
  BY <1>1, <1>2 DEF Unregister, Goto
<1> QED
  BY <1>3, <1>4, <1>5, <1>6, <1>7, <1>8, <1>9, <1>10

\* Where the other steps lead.
LEMMA GotoPC ==
    ASSUME worker \in Worker
    PROVE  /\ \A pc \in WorkerPC : Goto(pc) => worker'.pc = pc
           /\ Allocate => worker'.pc = "budget"
           /\ ReadBudget => worker'.pc = "check"
           /\ CheckRegistered => worker'.pc \in {"tail", "utilization"}
           /\ MigrateOff => worker'.pc = "migrateOn"
           /\ MigrateOn => worker'.pc = "migrateStatus"
           /\ RecoverBegin => worker'.pc = "recover"
           /\ RecoverEnd => worker'.pc = "recover"
<1> DEFINE Fields == {"pc", "key", "rt", "po", "millis", "i", "needed", "victims",
                      "victim", "info", "target", "todo", "revert", "skipped", "refilled"}
<1>1. worker = [f \in Fields |-> worker[f]]
  BY DEF Worker
<1> HIDE DEF Fields
<1>2. "pc" \in Fields
  BY DEF Fields
<1>3. \A pc \in WorkerPC : Goto(pc) => worker'.pc = pc
  BY <1>1, <1>2 DEF Goto
<1>4. Allocate => worker'.pc = "budget"
  BY <1>1, <1>2 DEF Allocate, Goto
<1>5. ReadBudget => worker'.pc = "check"
  BY <1>1, <1>2 DEF ReadBudget
<1>6. CheckRegistered => worker'.pc \in {"tail", "utilization"}
  BY <1>1, <1>2 DEF CheckRegistered, Goto
<1>7. /\ MigrateOff => worker'.pc = "migrateOn"
      /\ MigrateOn => worker'.pc = "migrateStatus"
  BY <1>1, <1>2 DEF MigrateOff, MigrateOn, Goto
<1>8. RecoverBegin => worker'.pc = "recover"
  BY <1>1, <1>2 DEF RecoverBegin
<1>9. RecoverEnd => worker'.pc = "recover"
  BY <1>1, <1>2 DEF RecoverEnd
<1> QED
  BY <1>3, <1>4, <1>5, <1>6, <1>7, <1>8, <1>9

-----------------------------------------------------------------------------
(***************************************************************************)
(* Type correctness, given that the ledger stays well typed.               *)
(***************************************************************************)
LEMMA TypeStep ==
    ASSUME TypeOK, LocalsOK, PoolTypeOK', [Next]_vars
    PROVE  TypeOK'
<1> USE DEF TypeOK, StoreOK, BoundsOK, LocalsOK, apiVars, memVars, bounds
<1>1. ASSUME NEW p \in Pods, CreateCR(p) PROVE TypeOK'
  BY <1>1, SpendType, KindNames, CommitType, IdleTypes DEF CreateCR, Env, CR, NoCR
<1>2. ASSUME NEW p \in Pods, DeleteCR(p) PROVE TypeOK'
  <2>1. [cr[p] EXCEPT !.deleting = TRUE] \in CR
    BY CRUpdates
  <2> QED
    BY <1>2, <2>1, SpendType, KindNames, CommitType, IdleTypes DEF DeleteCR, Env
<1>3. ASSUME NEW p \in Pods, CreatePod(p) PROVE TypeOK'
  BY <1>3, SpendType, KindNames, IdleTypes DEF CreatePod, SetPod, Env, PodState,
     AbsentPod
<1>4. ASSUME NEW p \in Pods, FinishPod(p) PROVE TypeOK'
  BY <1>4, SpendType, KindNames, PodUpdates DEF FinishPod, SetPod, Env
<1>5. ASSUME NEW p \in Pods, DeletePod(p) PROVE TypeOK'
  BY <1>5, SpendType, KindNames, PodUpdates DEF DeletePod, SetPod, Env
<1>6. ASSUME NEW p \in Pods, OverrunBegin(p) PROVE TypeOK'
  BY <1>6, SpendType, KindNames DEF OverrunBegin
<1>7. ASSUME NEW p \in Pods, SyncCR(p) PROVE TypeOK'
  BY <1>7 DEF SyncCR, Env
<1>8. ASSUME NEW p \in Pods, SyncPod(p) PROVE TypeOK'
  <2>1. podCache[p].deleting \/ pod[p].deleting \in BOOLEAN
    BY DEF PodState
  <2>2. Append(podEvents[p], podCache[p].deleting \/ pod[p].deleting) \in Seq(BOOLEAN)
    BY <2>1
  <2> QED
    BY <1>8, <2>2 DEF SyncPod, Env
<1>9. ASSUME NEW p \in Pods, RemovePod(p) PROVE TypeOK'
  BY <1>9, IdleTypes DEF RemovePod, SetPod, Env
<1>10. ASSUME NEW p \in Pods, NEW n \in Nodes, SchedulePod(p, n) PROVE TypeOK'
  BY <1>10, PodUpdates DEF SchedulePod, SetPod, Env
<1>11. ASSUME NEW p \in Pods, OverrunEnd(p) PROVE TypeOK'
  <2>1. [escalating[p] EXCEPT !.hi = TRUE] \in CR
    BY CRUpdates
  <2>2. StoreOK' /\ BoundsOK'
    BY <1>11, <2>1, CommitType, StatusLostType DEF OverrunEnd
  <2> QED
    BY <1>11, <2>2, IdleTypes DEF OverrunEnd
<1>12. ASSUME NEW p \in Pods, OverrunRefused(p) PROVE TypeOK'
  BY <1>12, SpendType, KindNames, IdleTypes DEF OverrunRefused
<1>13. ASSUME NEW p \in Pods, Begin(p) PROVE TypeOK'
  <2>1. FirstStep(p) \in WorkerPC
    BY DEF FirstStep, WorkerPC
  <2>2. worker' \in Worker
    <3>1. worker' = [IdleWorker EXCEPT !.pc = FirstStep(p), !.key = p,
                         !.rt = crCache[p], !.po = podCache[p]]
      BY <1>13 DEF Begin
    <3>2. IdleWorker \in Worker /\ crCache[p] \in CR /\ podCache[p] \in PodState
      BY IdleTypes
    <3> QED
      BY ONLY <2>1, <3>1, <3>2, p \in Pods, WorkerUpdates
  <2> QED
    BY <1>13, <2>2 DEF Begin, Work
<1>14. ASSUME NEW p \in Pods, BeginNothing(p) PROVE TypeOK'
  BY <1>14 DEF BeginNothing, Work
<1>15. ASSUME NEW p \in Pods, HandleLiveEvent(p) PROVE TypeOK'
  <2>1. Tail(podEvents[p]) \in Seq(BOOLEAN)
    BY <1>15, EventUpdates DEF HandleLiveEvent
  <2> QED
    BY <1>15, <2>1 DEF HandleLiveEvent, Enqueued
<1>16. ASSUME NEW p \in Pods, HandleTerminatingEvent(p) PROVE TypeOK'
  <2>1. Tail(podEvents[p]) \in Seq(BOOLEAN)
    BY <1>16, EventUpdates DEF HandleTerminatingEvent
  <2>2. pooled \subseteq Nodes
    BY DEF PoolTypeOK
  <2> QED
    BY <1>16, <2>1, <2>2 DEF HandleTerminatingEvent
<1>17. ASSUME NEW n \in Nodes, HandlerDrop(n) PROVE TypeOK'
  BY <1>17 DEF HandlerDrop
<1>18. CASE HandlerEnqueue
  BY <1>18, IdleTypes DEF HandlerEnqueue, Enqueued
<1>19. CASE Cleanup
  <2>1. pooled \subseteq Nodes
    BY DEF PoolTypeOK
  <2> QED
    BY <1>19, <2>1 DEF Cleanup, Work, Worker, WorkerPC
<1>20. ASSUME NEW n \in Nodes, CleanupDrop(n) PROVE TypeOK'
  BY <1>20 DEF CleanupDrop, Work, Worker
<1>21. CASE RemoveFinalizer
  <2>1. StoreOK' /\ BoundsOK'
    BY <1>21, WriteType, WriteFailsType, IdleTypes DEF RemoveFinalizer, key
  <2> QED
    BY <1>21, <2>1, IdleTypes DEF RemoveFinalizer, Requeue, Work, key
<1>22. CASE AddFinalizer
  <2>1. [worker.rt EXCEPT !.finalizer = TRUE] \in CR
    BY DEF Worker, CR
  <2>2. StoreOK' /\ BoundsOK'
    BY <1>22, <2>1, WriteType, WriteFailsType DEF AddFinalizer, key
  <2> QED
    BY <1>22, <2>2, IdleTypes DEF AddFinalizer, Requeue, Work, key
<1>23. CASE SetNode
  <2>1. [worker.rt EXCEPT !.node = worker.po.node] \in CR
    BY DEF Worker, CR, PodState
  <2>2. StoreOK' /\ BoundsOK'
    BY <1>23, <2>1, WriteType, WriteFailsType DEF SetNode, key, bounds
  <2> QED
    BY <1>23, <2>2, IdleTypes DEF SetNode, Requeue, Work, key
<1>24. CASE Allocate
  <2>1. [worker.rt EXCEPT !.allocated = CoreSpec[key]] \in CR
    BY <1>24, ReconcilerAssumption DEF Allocate, Worker, CR, key
  <2>2. StoreOK' /\ BoundsOK'
    BY <1>24, <2>1, WriteType, WriteFailsType DEF Allocate, key, bounds
  <2>3. worker' \in Worker
    <3>1. CASE worker.rt.allocated = <<>>
      <4> DEFINE new == [worker.rt EXCEPT !.allocated = CoreSpec[key]]
      <4>1. worker' = [worker EXCEPT !.pc = "budget", !.rt = new]
        BY <1>24, <3>1 DEF Allocate
      <4>2. new \in CR /\ "budget" \in WorkerPC
        BY <2>1 DEF WorkerPC
      <4>3. worker \in Worker
        OBVIOUS
      <4> HIDE DEF new
      <4> QED
        BY ONLY <4>1, <4>2, <4>3, WorkerUpdates
    <3>2. CASE worker.rt.allocated # <<>>
      <4>1. worker' = [worker EXCEPT !.pc = "budget"]
        BY <1>24, <3>2 DEF Allocate, Goto
      <4>2. worker \in Worker /\ "budget" \in WorkerPC
        BY DEF WorkerPC
      <4> QED
        BY ONLY <4>1, <4>2, WorkerUpdates
    <3> QED
      BY <3>1, <3>2
  <2> QED
    BY <1>24, <2>2, <2>3 DEF Allocate, Work
<1>25. CASE ReadBudget
  BY <1>25, BudgetPositive DEF ReadBudget, Local, Work, Worker, WorkerPC, key
<1>26. CASE CheckRegistered
  <2>1. PICK pc \in WorkerPC : worker' = [worker EXCEPT !.pc = pc]
    BY <1>26 DEF CheckRegistered, WorkerPC, Goto
  <2>2. worker \in Worker
    OBVIOUS
  <2>3. worker' \in Worker
    BY ONLY <2>1, <2>2, WorkerUpdates
  <2> QED
    BY <1>26, <2>3 DEF CheckRegistered, Local, Work
<1>27. CASE CheckUtilization
  <2> DEFINE needed == NeededBudget(onNode, currentCore, worker.millis)
  <2>1. needed \in Int
    <3>1. onNode \in Nodes /\ worker.millis \in Nat
      BY <1>27 DEF CheckUtilization, Allocating, Charging, Worker
    <3>2. GetCoreUtilization(onNode, currentCore) \in Nat
      BY <3>1 DEF GetCoreUtilization, PoolTypeOK
    <3> QED
      BY <3>1, <3>2, PlacementAssumption DEF NeededBudget
  <2> HIDE DEF needed
  <2>2. needed > 0 => needed \in Nat
    BY <2>1
  <2> DEFINE rest == worker.refilled \ {currentCore}
  <2>3. \/ /\ needed > 0
           /\ worker' = [worker EXCEPT !.pc = "select", !.needed = needed, !.refilled = rest]
        \/ worker' = [worker EXCEPT !.i = @ + 1, !.refilled = rest]
    BY <1>27 DEF CheckUtilization, needed
  <2>4. worker' \in Worker
    <3>1. "select" \in WorkerPC
      BY DEF WorkerPC
    <3>2. rest \in SUBSET (CoreIDs \cup {0})
      BY DEF Worker
    <3> HIDE DEF rest
    <3>3. CASE /\ needed > 0
               /\ worker' = [worker EXCEPT !.pc = "select", !.needed = needed,
                                           !.refilled = rest]
      BY <2>2, <3>1, <3>2, <3>3, WorkerUpdates
    <3>4. CASE worker' = [worker EXCEPT !.i = @ + 1, !.refilled = rest]
      BY <3>2, <3>4, WorkerUpdates
    <3> QED
      BY <2>3, <3>3, <3>4
  <2> QED
    BY <1>27, <2>4 DEF CheckUtilization, Local, Work
<1>28. CASE SelectVictims
  <2>1. CorePods(onNode, currentCore) \in CoreMap
    BY <1>28, IdleTypes DEF SelectVictims, Allocating, Charging, Preempting, CorePods, CoreMap, PoolTypeOK
  <2>2. PICK V : worker' = [worker EXCEPT !.pc = "preempt", !.needed = 0,
                                !.victims = Only(CorePods(onNode, currentCore), V)]
    BY <1>28 DEF SelectVictims
  <2>3. Only(CorePods(onNode, currentCore), V) \in [Pods -> PodInfo \cup {NoPod}]
    BY <2>1, OnlyType DEF CoreMap
  <2>4. worker' \in Worker
    BY <2>2, <2>3 DEF Worker, WorkerPC
  <2> QED
    BY <1>28, <2>4 DEF SelectVictims, Local, Work
<1>29. CASE NoVictimLeft
  BY <1>29, IndexUpdates DEF NoVictimLeft, Local, Work, Worker, WorkerPC
<1>30. ASSUME NEW v \in Pods, PreemptPod(v) PROVE TypeOK'
  <2> DEFINE info == worker.victims[v]
             rest == [worker EXCEPT !.victims[v] = NoPod]
             fits == MigrationTargets(onNode, currentCore, info.CPUMillis)
  <2>1. rest \in Worker /\ info \in PodInfo \cup {NoPod}
    BY DEF Worker
  <2>2. fits \subseteq CoreIDs
    BY PoolAssumption DEF MigrationTargets
  <2>3. \/ worker' = [rest EXCEPT !.skipped = @ \cup {v}]
        \/ worker' = [rest EXCEPT !.pc = "evict", !.victim = v]
        \/ \E c \in fits : worker' = [rest EXCEPT !.pc = "migrateOff", !.victim = v,
                                                 !.info = info, !.target = c]
    BY <1>30 DEF PreemptPod
  <2> HIDE DEF info, rest, fits
  <2>4. ASSUME NEW c \in fits
        PROVE  [rest EXCEPT !.pc = "migrateOff", !.victim = v, !.info = info,
                            !.target = c] \in Worker
    BY <2>1, <2>2 DEF Worker, WorkerPC
  <2>5. [rest EXCEPT !.pc = "evict", !.victim = v] \in Worker
    BY <2>1 DEF Worker, WorkerPC
  <2>6. [rest EXCEPT !.skipped = @ \cup {v}] \in Worker
    BY <2>1 DEF Worker
  <2>7. worker' \in Worker
    <3>1. CASE \E c \in fits : worker' = [rest EXCEPT !.pc = "migrateOff", !.victim = v,
                                                      !.info = info, !.target = c]
      BY <2>4, <3>1
    <3> QED
      BY <2>3, <2>5, <2>6, <3>1
  <2> QED
    BY <1>30, <2>7 DEF PreemptPod, Local, Work
<1>31. CASE MigrateOff
  BY <1>31 DEF MigrateOff, Local, Work, Worker, WorkerPC, Goto
<1>32. CASE MigrateOn
  BY <1>32 DEF MigrateOn, Local, Work, Worker, WorkerPC, Goto
<1>33. CASE MigrateStatus
  <2>1. worker.victim \in Pods /\ worker.target \in CoreIDs \cup {0}
    BY <1>33 DEF MigrateStatus, Worker
  <2>2. worker.target \in CoreIDs
    BY <1>33, PoolAssumption DEF MigrateStatus
  <2>3. [crCache[worker.victim] EXCEPT !.allocated = <<worker.target>>] \in CR
    <3>1. <<worker.target>> \in Seq(CoreIDs) /\ crCache[worker.victim] \in CR
      BY <2>1, <2>2
    <3> QED
      BY <3>1, CRUpdates
  <2>4. StoreOK' /\ BoundsOK'
    BY <1>33, <2>1, <2>3, WriteType, WriteFailsType DEF MigrateStatus, bounds
  <2>5. worker' \in Worker
    BY <1>33 DEF MigrateStatus, NextVictim, Worker, WorkerPC
  <2> QED
    BY <1>33, <2>4, <2>5 DEF MigrateStatus, Work
<1>34. CASE Evict
  <2>1. worker' \in Worker
    BY <1>34 DEF Evict, NextVictim, Worker, WorkerPC
  <2>2. BoundsOK'
    BY <1>34, SpendType, KindNames DEF Evict, bounds
  <2>3. pod' \in [Pods -> PodState]
    <3>1. [pod[worker.victim] EXCEPT !.deleting = TRUE] \in PodState
      <4>1. pod[worker.victim] \in PodState
        BY <1>34 DEF Evict
      <4> QED
        BY <4>1 DEF PodState
    <3> QED
      BY <1>34, <3>1 DEF Evict
  <2> QED
    BY <1>34, <2>1, <2>2, <2>3 DEF Evict
<1>35. CASE PreemptionDone
  BY <1>35, IndexUpdates DEF PreemptionDone, Local, Work, Worker, WorkerPC
<1>36. CASE PrepareEntry
  BY <1>36, BudgetPositive DEF PrepareEntry, Local, Work, Worker, WorkerPC, key
<1>37. CASE CompareEntry
  <2>1. PICK pc \in WorkerPC : worker' = [worker EXCEPT !.pc = pc]
    BY <1>37 DEF CompareEntry, WorkerPC, Goto
  <2>2. worker \in Worker
    OBVIOUS
  <2>3. worker' \in Worker
    BY ONLY <2>1, <2>2, WorkerUpdates
  <2> QED
    BY <1>37, <2>3 DEF CompareEntry, Local, Work
<1>38. CASE Unregister
  BY <1>38 DEF Unregister, Local, Work, Worker, WorkerPC, Goto
<1>39. CASE Register
  <2>1. worker \in Worker /\ "unregister" \in WorkerPC /\ "tail" \in WorkerPC
    BY DEF WorkerPC
  <2>2. \/ worker' = [worker EXCEPT !.pc = "unregister", !.i = @ + 1]
        \/ worker' = [worker EXCEPT !.pc = "tail"]
    BY <1>39 DEF Register
  <2>3. worker' \in Worker
    BY ONLY <2>1, <2>2, WorkerUpdates
  <2> QED
    BY <1>39, <2>3 DEF Register, Local, Work
<1>40. CASE Finish
  BY <1>40, IdleTypes DEF Finish, Local, Work
<1>41. CASE RecoverBegin
  <2>1. {q \in Labelled : podCache[q].node = worker.rt.node} \subseteq Pods
    BY ReconcilerAssumption
  <2>2. worker' \in Worker
    BY <1>41, <2>1 DEF RecoverBegin, Worker, WorkerPC
  <2> QED
    BY <1>41, <2>2, SpendType, KindNames DEF RecoverBegin, Work
<1>42. ASSUME NEW p \in Pods, RecoverPod(p) PROVE TypeOK'
  <2>1. ASSUME worker' = [worker EXCEPT !.pc = "revert", !.victim = p,
                                        !.rt = crCache[p], !.revert = @ \ {p}]
        PROVE  worker' \in Worker
    BY <2>1 DEF Worker, WorkerPC
  <2>2. ASSUME worker' = [worker EXCEPT !.revert = @ \ {p}]
        PROVE  worker' \in Worker
    BY <2>2 DEF Worker
  <2>3. worker' \in Worker
    BY <1>42, <2>1, <2>2 DEF RecoverPod
  <2> QED
    BY <1>42, <2>3 DEF RecoverPod, Local, Work
<1>43. CASE RecoverEnd
  <2>1. [worker.rt EXCEPT !.hi = FALSE] \in CR
    BY DEF Worker, CR
  <2>2. StoreOK' /\ BoundsOK'
    BY <1>43, <2>1, WriteType, StatusLostType DEF RecoverEnd
  <2>3. worker' \in Worker
    BY <1>43 DEF RecoverEnd, Worker, WorkerPC
  <2> QED
    BY <1>43, <2>2, <2>3 DEF RecoverEnd, Work
<1>44. CASE RecoverDone
  BY <1>44, IdleTypes DEF RecoverDone, Local, Work
<1>45. CASE Restart
  <2>1. podEvents' \in [Pods -> Seq(BOOLEAN)]
    <3>1. \A p \in Pods : pod[p].deleting \in BOOLEAN
      BY DEF PodState
    <3>2. \A p \in Pods : <<pod[p].deleting>> \in Seq(BOOLEAN) /\ <<>> \in Seq(BOOLEAN)
      BY <3>1, EventUpdates
    <3> QED
      BY <1>45, <3>2 DEF Restart
  <2> QED
    BY <1>45, <2>1, SpendType, KindNames, IdleTypes DEF Restart
<1>46. CASE UNCHANGED vars
  BY <1>46 DEF vars
<1> HIDE DEF TypeOK, LocalsOK
<1> QED
  BY <1>1, <1>2, <1>3, <1>4, <1>5, <1>6, <1>7, <1>8, <1>9, <1>10, <1>11, <1>12, <1>13,
     <1>14, <1>15, <1>16, <1>17, <1>18, <1>19, <1>20, <1>21, <1>22, <1>23, <1>24, <1>25,
     <1>26, <1>27, <1>28, <1>29, <1>30, <1>31, <1>32, <1>33, <1>34, <1>35, <1>36, <1>37,
     <1>38, <1>39, <1>40, <1>41, <1>42, <1>43, <1>44, <1>45, <1>46 DEF Next,
     Environment, Informer, Kubelet, Dequeue, HandlerStep, WorkerStep

-----------------------------------------------------------------------------
(***************************************************************************)
(* The ledger.  The controller changes it through the operations of        *)
(* CPUPool, called with arguments they are made for.                       *)
(***************************************************************************)
Outside(p) ==
    Environment(p) \/ Informer(p) \/ Kubelet(p) \/ OverrunEnd(p) \/ OverrunRefused(p)
    \/ Dequeue(p)

\* The steps of the worker that read the ledger or leave it alone.
Reading ==
    \/ Cleanup \/ RemoveFinalizer \/ AddFinalizer \/ SetNode \/ Allocate \/ ReadBudget
    \/ CheckUtilization \/ SelectVictims \/ NoVictimLeft \/ \E v \in Pods : PreemptPod(v)
    \/ MigrateStatus \/ Evict \/ PreemptionDone \/ CompareEntry
    \/ Finish \/ RecoverBegin \/ (\E p \in Pods : RecoverPod(p))
    \/ RecoverEnd \/ RecoverDone

LEMMA OutsideKeepsLedger == ASSUME NEW p \in Pods, Outside(p) PROVE UNCHANGED poolVars
BY DEF Outside, Environment, Informer, Kubelet, Dequeue, CreateCR, DeleteCR, CreatePod,
       FinishPod, DeletePod, OverrunBegin, SyncCR, SyncPod, RemovePod, SchedulePod,
       SetPod, Env, OverrunEnd, OverrunRefused, Begin, BeginNothing, poolVars

LEMMA ReadingKeepsLedger == Reading => UNCHANGED poolVars
BY DEF Reading, Cleanup, RemoveFinalizer, AddFinalizer, SetNode, Allocate, ReadBudget,
       CheckUtilization, SelectVictims, NoVictimLeft, PreemptPod, MigrateStatus, Evict,
       PreemptionDone, CompareEntry, Finish, RecoverBegin, RecoverPod, RecoverEnd,
       RecoverDone, poolVars

LEMMA NonEmptySpec ==
    ASSUME NEW p \in Pods, CoreSpec[p] # <<>>
    PROVE  /\ CoreSpec[p] \in Seq(CoreIDs) /\ 1 \in DOMAIN CoreSpec[p]
           /\ Len(CoreSpec[p]) \in Nat /\ DOMAIN CoreSpec[p] = 1 .. Len(CoreSpec[p])
<1>1. CoreSpec[p] \in Seq(CoreIDs)
  BY ReconcilerAssumption
<1> QED
  BY <1>1

\* The entry the worker registers for its own pod.
LEMMA OwnInfoType ==
    ASSUME TypeOK, LocalsOK, worker.pc \in Charging
    PROVE  ownInfo \in PodInfo
<1>1. key \in Pods /\ worker.millis \in Nat /\ worker.millis > 0
  BY DEF TypeOK, LocalsOK, Charging, Preempting, Worker
<1> QED
  BY <1>1, ReconcilerAssumption DEF ownInfo, PodInfo, key

LEMMA LedgerStep ==
    ASSUME TypeOK, LocalsOK, [Next]_vars
    PROVE  [PoolNext]_poolVars
<1>1. ASSUME NEW p \in Pods, Outside(p) PROVE UNCHANGED poolVars
  BY <1>1, OutsideKeepsLedger
<1>2. ASSUME NEW p \in Pods, HandleLiveEvent(p) \/ HandleTerminatingEvent(p)
      PROVE  UNCHANGED poolVars
  BY <1>2 DEF HandleLiveEvent, HandleTerminatingEvent
<1>3. ASSUME NEW n \in Nodes, HandlerDrop(n) PROVE PoolNext
  BY <1>3 DEF HandlerDrop, LocalsOK, PoolNext
<1>4. CASE HandlerEnqueue
  BY <1>4 DEF HandlerEnqueue
<1>5. CASE Reading
  BY <1>5, ReadingKeepsLedger
<1>6. ASSUME NEW n \in Nodes, CleanupDrop(n) PROVE PoolNext
  BY <1>6 DEF CleanupDrop, LocalsOK, PoolNext
<1>7. CASE CheckRegistered
  BY <1>7 DEF CheckRegistered, EnsurePool, LocalsOK, Allocating, Charging, PoolNext
<1>8. CASE MigrateOff
  <2>1. worker.victim \in Pods /\ onNode \in Nodes /\ worker.i \in DOMAIN targetCores
    BY <1>8 DEF MigrateOff, LocalsOK, Allocating, Charging, Preempting
  <2>2. targetCores \in Seq(CoreIDs)
    BY DEF TypeOK, Worker, CR, targetCores
  <2>3. currentCore \in CoreIDs
    BY <2>1, <2>2 DEF currentCore
  <2> QED
    BY <1>8, <2>1, <2>3 DEF MigrateOff, PoolNext
<1>9. CASE MigrateOn
  BY <1>9, PoolAssumption
  DEF MigrateOn, LocalsOK, Allocating, Charging, Preempting, PoolNext
<1>10. CASE PrepareEntry
  BY <1>10 DEF PrepareEntry, EnsurePool, LocalsOK, Allocating, Charging, PoolNext
<1>11. CASE Unregister
  <2>1. key \in Pods /\ onNode \in Nodes /\ CoreSpec[key][worker.i] \in CoreIDs
    BY <1>11, NonEmptySpec DEF Unregister, LocalsOK, Allocating, Charging
  <2> QED
    BY <1>11, <2>1 DEF Unregister, PoolNext
<1>12. CASE Register
  <2>1. key \in Pods /\ onNode \in Nodes /\ CoreSpec[key][worker.i] \in CoreIDs
    BY <1>12, NonEmptySpec DEF Register, LocalsOK, Allocating, Charging
  <2>2. ownInfo \in PodInfo
    BY <1>12, OwnInfoType DEF Register, Charging
  <2> QED
    BY <1>12, <2>1, <2>2 DEF Register, PoolNext
<1>13. CASE Restart
  BY <1>13 DEF Restart, PoolNext
<1>14. CASE UNCHANGED vars
  BY <1>14 DEF vars
<1> QED
  BY <1>1, <1>2, <1>3, <1>4, <1>5, <1>6, <1>7, <1>8, <1>9, <1>10, <1>11, <1>12, <1>13, <1>14
  DEF Next, Outside, HandlerStep, WorkerStep, Reading

-----------------------------------------------------------------------------
(***************************************************************************)
(* The local variables.  Only Reconcile itself changes the worker's.       *)
(***************************************************************************)
LEMMA OutsideKeepsLocals ==
    ASSUME NEW p \in Pods, Outside(p), ~ Begin(p) PROVE UNCHANGED <<worker, handler>>
BY DEF Outside, Environment, Informer, Kubelet, Dequeue, CreateCR, DeleteCR, CreatePod,
       FinishPod, DeletePod, OverrunBegin, SyncCR, SyncPod, RemovePod, SchedulePod,
       SetPod, Env, OverrunEnd, OverrunRefused, BeginNothing, Work

LEMMA LocalsStep ==
    ASSUME TypeOK, LocalsOK, [Next]_vars
    PROVE  LocalsOK'
<1> USE DEF LocalsOK, Allocating, Charging, Preempting, key, onNode, targetCores
<1>1. ASSUME NEW p \in Pods, Begin(p) PROVE LocalsOK'
  <2>1. /\ worker'.pc = FirstStep(p) /\ worker'.key = p /\ worker'.po = podCache[p]
        /\ handler' = handler
    BY <1>1 DEF Begin, Work, IdleWorker
  <2>2. FirstStep(p) \in {"cleanup", "finalize", "setNode", "allocate", "tail"}
    BY DEF FirstStep
  <2>3. FirstStep(p) = "allocate" => podCache[p].node \in Nodes /\ CoreSpec[p] # <<>>
    BY DEF FirstStep, Schedulable, TypeOK, PodState
  <2> QED
    BY <2>1, <2>2, <2>3 DEF LocalsOK, Allocating, Charging, Preempting, key, onNode
<1>2. CASE Cleanup
  BY <1>2 DEF Cleanup, Work
<1>3. ASSUME NEW n \in Nodes, CleanupDrop(n) PROVE LocalsOK'
  BY <1>3 DEF CleanupDrop, Work
<1>4. CASE RemoveFinalizer
  BY <1>4 DEF RemoveFinalizer, Requeue, Work, IdleWorker, IdleHandler
<1>5. CASE AddFinalizer
  BY <1>5 DEF AddFinalizer, Requeue, Work, IdleWorker, IdleHandler
<1>6. CASE SetNode
  BY <1>6 DEF SetNode, Requeue, Work, IdleWorker, IdleHandler
<1>7. CASE Allocate
  <2>1. worker.pc = "allocate" /\ handler' = handler
        /\ \/ worker' = [worker EXCEPT !.pc = "budget"]
           \/ \E new : worker' = [worker EXCEPT !.pc = "budget", !.rt = new]
    BY <1>7 DEF Allocate, Goto, Work
  <2>2. worker'.pc = "budget" /\ worker'.key = worker.key /\ worker'.po = worker.po
    BY <2>1 DEF TypeOK, Worker
  <2> QED
    BY <2>1, <2>2
<1>8. CASE ReadBudget
  BY <1>8, BudgetPositive DEF ReadBudget, Local, Work
<1>9. CASE CheckRegistered
  BY <1>9 DEF CheckRegistered, Local, Work, Goto
<1>10. CASE CheckUtilization
  <2>1. worker.pc = "utilization" /\ worker.i \in DOMAIN targetCores /\ handler' = handler
        /\ \/ \E m, R : worker' = [worker EXCEPT !.pc = "select", !.needed = m,
                                                 !.refilled = R]
           \/ \E R : worker' = [worker EXCEPT !.i = @ + 1, !.refilled = R]
    BY <1>10 DEF CheckUtilization, Local, Work
  <2>2. CASE \E m, R : worker' = [worker EXCEPT !.pc = "select", !.needed = m,
                                                !.refilled = R]
    <3>1. worker'.pc = "select" /\ worker'.key = worker.key /\ worker'.i = worker.i
          /\ worker'.po = worker.po /\ worker'.rt = worker.rt
          /\ worker'.victim = worker.victim /\ worker'.info = worker.info
          /\ worker'.target = worker.target /\ worker'.victims = worker.victims
          /\ worker'.millis = worker.millis
      BY <2>2 DEF TypeOK, Worker
    <3> QED
      BY <2>1, <3>1
  <2>3. CASE \E R : worker' = [worker EXCEPT !.i = @ + 1, !.refilled = R]
    <3>1. worker'.pc = worker.pc /\ worker'.key = worker.key
          /\ worker'.po = worker.po /\ worker'.rt = worker.rt
          /\ worker'.victim = worker.victim /\ worker'.info = worker.info
          /\ worker'.target = worker.target /\ worker'.victims = worker.victims
          /\ worker'.millis = worker.millis
      BY <2>3 DEF TypeOK, Worker
    <3> QED
      BY <2>1, <3>1
  <2> QED
    BY <2>1, <2>2, <2>3
<1>11. CASE SelectVictims
  BY <1>11 DEF SelectVictims, Local, Work
<1>12. CASE NoVictimLeft
  BY <1>12 DEF NoVictimLeft, Local, Work
<1>13. ASSUME NEW v \in Pods, PreemptPod(v) PROVE LocalsOK'
  <2> DEFINE info == worker.victims[v]
             rest == [worker EXCEPT !.victims[v] = NoPod]
             fits == MigrationTargets(onNode, currentCore, info.CPUMillis)
  <2>1. fits \subseteq Cores
    BY DEF MigrationTargets
  <2>2. info \in PodInfo
    BY <1>13 DEF PreemptPod, Waiting, TypeOK, Worker
  <2>3. worker.pc = "preempt" /\ handler' = handler
        /\ \/ worker' = [rest EXCEPT !.skipped = @ \cup {v}]
           \/ worker' = [rest EXCEPT !.pc = "evict", !.victim = v]
           \/ \E c \in fits : worker' = [rest EXCEPT !.pc = "migrateOff", !.victim = v,
                                                    !.info = info, !.target = c]
    BY <1>13 DEF PreemptPod, Local, Work
  <2> HIDE DEF info, fits
  <2>4. CASE worker' = [rest EXCEPT !.skipped = @ \cup {v}]
    BY <2>3, <2>4
  <2>5. CASE worker' = [rest EXCEPT !.pc = "evict", !.victim = v]
    BY <2>3, <2>5
  <2>6. CASE \E c \in fits : worker' = [rest EXCEPT !.pc = "migrateOff", !.victim = v,
                                                  !.info = info, !.target = c]
    <3>1. PICK c \in fits : worker' = [rest EXCEPT !.pc = "migrateOff", !.victim = v,
                                                  !.info = info, !.target = c]
      BY <2>6
    <3>2. /\ worker'.pc = "migrateOff" /\ worker'.victim = v /\ worker'.info = info
          /\ worker'.target = c /\ worker'.key = worker.key /\ worker'.po = worker.po
          /\ worker'.i = worker.i /\ worker'.rt = worker.rt /\ worker'.millis = worker.millis
      BY <3>1 DEF TypeOK, Worker
    <3> QED
      BY <2>1, <2>2, <2>3, <3>2
  <2> QED
    BY <2>3, <2>4, <2>5, <2>6
<1>14. CASE MigrateOff
  BY <1>14 DEF MigrateOff, Local, Work, Goto
<1>15. CASE MigrateOn
  BY <1>15 DEF MigrateOn, Local, Work, Goto
<1>16. CASE MigrateStatus
  BY <1>16 DEF MigrateStatus, NextVictim, Work
<1>17. CASE Evict
  BY <1>17 DEF Evict, NextVictim
<1>18. CASE PreemptionDone
  BY <1>18, NonEmptySpec DEF PreemptionDone, Local, Work
<1>19. CASE PrepareEntry
  BY <1>19, BudgetPositive DEF PrepareEntry, Local, Work
<1>20. CASE CompareEntry
  BY <1>20, NonEmptySpec DEF CompareEntry, Local, Work, Goto
<1>21. CASE Unregister
  BY <1>21 DEF Unregister, Local, Work, Goto
<1>22. CASE Register
  <2>1. /\ worker.i \in 1 .. Len(CoreSpec[key])
        /\ DOMAIN CoreSpec[key] = 1 .. Len(CoreSpec[key]) /\ Len(CoreSpec[key]) \in Nat
    BY <1>22, NonEmptySpec DEF Register
  <2>2. worker.i < Len(CoreSpec[key]) => worker.i + 1 \in DOMAIN CoreSpec[key]
    BY <2>1
  <2>3. handler' = handler /\ worker.pc = "register"
        /\ \/ /\ worker.i < Len(CoreSpec[key])
              /\ worker' = [worker EXCEPT !.pc = "unregister", !.i = @ + 1]
           \/ worker' = [worker EXCEPT !.pc = "tail"]
    BY <1>22 DEF Register, Local, Work
  <2>4. CASE worker.i < Len(CoreSpec[key]) /\ worker' = [worker EXCEPT !.pc = "unregister", !.i = @ + 1]
    BY <2>2, <2>3, <2>4 DEF TypeOK, Worker
  <2>5. CASE worker' = [worker EXCEPT !.pc = "tail"]
    BY <2>3, <2>5
  <2> QED
    BY <2>3, <2>4, <2>5
<1>23. CASE Finish
  BY <1>23 DEF Finish, Local, Work, IdleWorker, IdleHandler
<1>24. CASE RecoverBegin
  BY <1>24 DEF RecoverBegin, Work
<1>25. ASSUME NEW p \in Pods, RecoverPod(p) PROVE LocalsOK'
  BY <1>25 DEF RecoverPod, Local, Work
<1>26. CASE RecoverEnd
  BY <1>26 DEF RecoverEnd, Work
<1>27. CASE RecoverDone
  BY <1>27 DEF RecoverDone, Local, Work, IdleWorker, IdleHandler
<1>28. CASE Restart
  BY <1>28 DEF Restart, IdleWorker, IdleHandler
<1>29. ASSUME NEW p \in Pods, Outside(p), ~ Begin(p) PROVE LocalsOK'
  BY <1>29, OutsideKeepsLocals
<1>30. ASSUME NEW p \in Pods, HandleLiveEvent(p) PROVE LocalsOK'
  BY <1>30 DEF HandleLiveEvent
<1>31. ASSUME NEW p \in Pods, HandleTerminatingEvent(p) PROVE LocalsOK'
  BY <1>31 DEF HandleTerminatingEvent
<1>32. ASSUME NEW n \in Nodes, HandlerDrop(n) PROVE LocalsOK'
  BY <1>32 DEF HandlerDrop
<1>33. CASE HandlerEnqueue
  BY <1>33 DEF HandlerEnqueue, IdleHandler
<1>34. CASE UNCHANGED vars
  BY <1>34 DEF vars
<1> HIDE DEF LocalsOK
<1> QED
  BY <1>1, <1>2, <1>3, <1>4, <1>5, <1>6, <1>7, <1>8, <1>9, <1>10, <1>11, <1>12, <1>13,
     <1>14, <1>15, <1>16, <1>17, <1>18, <1>19, <1>20, <1>21, <1>22, <1>23, <1>24, <1>25,
     <1>26, <1>27, <1>28, <1>29, <1>30, <1>31, <1>32, <1>33, <1>34 DEF Next, Outside,
     Dequeue, HandlerStep, WorkerStep

-----------------------------------------------------------------------------
(***************************************************************************)
(* The CRs.  Every step leaves them alone or gives one of them a new       *)
(* version; how a CR's life goes on is told by its flags.                  *)
(***************************************************************************)
AbsentCR(x) == ~ x.exists /\ ~ x.deleting /\ ~ x.finalizer
NewCR(x) == x.exists /\ ~ x.deleting /\ ~ x.finalizer
GuardedCR(x) == x.exists /\ ~ x.deleting /\ x.finalizer
LeavingCR(x) == x.exists /\ x.deleting /\ x.finalizer

SameLife(x, y) ==
    (y.exists <=> x.exists) /\ (y.deleting <=> x.deleting) /\ (y.finalizer <=> x.finalizer)

LifeGoesOn(x, y) ==
    \/ SameLife(x, y)
    \/ AbsentCR(x) /\ NewCR(y)
    \/ NewCR(x) /\ AbsentCR(y)
    \/ NewCR(x) /\ GuardedCR(y)
    \/ GuardedCR(x) /\ LeavingCR(y)

Rewrite(p, x) ==
    x \in CR /\ cr' = [cr EXCEPT ![p] = x] /\ x.version = cr[p].version + 1

Vanishes(p, x) ==
    /\ RemoveFinalizer /\ p = key /\ worker' = IdleWorker
    /\ cr[p].version = worker.rt.version
    /\ LeavingCR(cr[p]) /\ AbsentCR(x)

LEMMA CommitRewrites ==
    ASSUME TypeOK, NEW p \in Pods, NEW new \in CR, Commit(p, new)
    PROVE  \E x \in CR : Rewrite(p, x) /\ SameLife(new, x)
<1> DEFINE x == [new EXCEPT !.version = cr[p].version + 1]
<1>0. cr[p] \in CR
  BY DEF TypeOK
<1>1. cr[p].version + 1 \in Nat
  BY <1>0 DEF CR
<1>2. x \in CR /\ x.version = cr[p].version + 1 /\ SameLife(new, x)
  BY <1>1 DEF CR, SameLife
<1>3. cr' = [cr EXCEPT ![p] = x]
  BY DEF Commit
<1> HIDE DEF x
<1> QED
  BY <1>2, <1>3 DEF Rewrite

LEMMA WriteRewrites ==
    ASSUME TypeOK, NEW p \in Pods, NEW copy, Copies(p, copy), NEW new \in CR,
           Write(p, copy, new)
    PROVE  /\ copy = cr[p]
           /\ cr' = cr \/ \E x \in CR : Rewrite(p, x) /\ SameLife(new, x)
BY CommitRewrites DEF Write, Copies

\* What a write does to the CR of p when the copy is not the current one.
LEMMA WriteFailsKeeps ==
    ASSUME NEW p, NEW copy, WriteFails(p, copy) \/ StatusLost(p, copy)
    PROVE  cr' = cr
BY DEF WriteFails, StatusLost

LEMMA OthersKeepCR ==
    ASSUME [Next]_vars,
           ~ \E p \in Pods : CreateCR(p) \/ DeleteCR(p) \/ OverrunEnd(p),
           ~ RemoveFinalizer, ~ AddFinalizer, ~ SetNode, ~ Allocate, ~ MigrateStatus,
           ~ RecoverEnd
    PROVE  cr' = cr
<1>1. CASE \E p \in Pods : Environment(p) \/ Informer(p) \/ Kubelet(p) \/ OverrunRefused(p)
                           \/ Dequeue(p)
  BY <1>1 DEF Environment, Informer, Kubelet, Dequeue, CreatePod, FinishPod, DeletePod,
              OverrunBegin, SyncCR, SyncPod, RemovePod, SchedulePod, SetPod,
              OverrunRefused, Begin, BeginNothing, apiVars
<1>2. CASE HandlerStep
  BY <1>2 DEF HandlerStep, HandleLiveEvent, HandleTerminatingEvent, HandlerDrop,
              HandlerEnqueue, apiVars
<1>3. CASE WorkerStep
  BY <1>3 DEF WorkerStep, Cleanup, CleanupDrop, ReadBudget, CheckRegistered,
              CheckUtilization, SelectVictims, NoVictimLeft, PreemptPod, MigrateOff,
              MigrateOn, Evict, PreemptionDone, PrepareEntry, CompareEntry, Unregister,
              Register, Finish, RecoverBegin, RecoverPod, RecoverDone, Local
<1>4. CASE Restart
  BY <1>4 DEF Restart
<1>5. CASE UNCHANGED vars
  BY <1>5 DEF vars, apiVars
<1> QED
  BY <1>1, <1>2, <1>3, <1>4, <1>5 DEF Next

LEMMA CRStep ==
    ASSUME TypeOK, LocalsOK, CRShape, VersionsOK, Decision, [Next]_vars
    PROVE  \/ cr' = cr
           \/ \E p \in Pods, x \in CR :
                 Rewrite(p, x) /\ (LifeGoesOn(cr[p], x) \/ Vanishes(p, x))
<1> DEFINE Goal == \/ cr' = cr
                   \/ \E p \in Pods, x \in CR :
                         Rewrite(p, x) /\ (LifeGoesOn(cr[p], x) \/ Vanishes(p, x))
<1> SUFFICES Goal
  OBVIOUS
<1>1. ASSUME NEW p \in Pods, CreateCR(p) PROVE Goal
  <2> DEFINE new == [NoCR EXCEPT !.exists = TRUE]
  <2>1. new \in CR /\ NewCR(new)
    BY IdleTypes DEF NoCR, CR, NewCR
  <2>2. AbsentCR(cr[p])
    BY <1>1 DEF CreateCR, CRShape, AbsentCR
  <2>3. PICK x \in CR : Rewrite(p, x) /\ SameLife(new, x)
    BY <1>1, <2>1, CommitRewrites DEF CreateCR
  <2> HIDE DEF new
  <2> QED
    BY <2>1, <2>2, <2>3 DEF LifeGoesOn, SameLife, NewCR
<1>2. ASSUME NEW p \in Pods, DeleteCR(p) PROVE Goal
  <2>1. CASE cr[p].finalizer
    <3> DEFINE new == [cr[p] EXCEPT !.deleting = TRUE]
    <3>1. cr[p] \in CR
      BY DEF TypeOK
    <3>2. new \in CR /\ LeavingCR(new) /\ GuardedCR(cr[p])
      BY <1>2, <2>1, <3>1 DEF DeleteCR, CR, LeavingCR, GuardedCR
    <3>3. PICK x \in CR : Rewrite(p, x) /\ SameLife(new, x)
      BY <1>2, <2>1, <3>2, CommitRewrites DEF DeleteCR
    <3> HIDE DEF new
    <3> QED
      BY <3>2, <3>3 DEF LifeGoesOn, SameLife, LeavingCR
  <2>2. CASE ~ cr[p].finalizer
    <3>1. NewCR(cr[p]) /\ AbsentCR(NoCR)
      BY <1>2, <2>2 DEF DeleteCR, NewCR, AbsentCR, NoCR
    <3>2. PICK x \in CR : Rewrite(p, x) /\ SameLife(NoCR, x)
      BY <1>2, <2>2, CommitRewrites, IdleTypes DEF DeleteCR
    <3> QED
      BY <3>1, <3>2 DEF LifeGoesOn, SameLife, AbsentCR
  <2> QED
    BY <2>1, <2>2
<1>3. ASSUME NEW p \in Pods, OverrunEnd(p) PROVE Goal
  <2> DEFINE new == [escalating[p] EXCEPT !.hi = TRUE]
  <2>1. escalating[p] \in CR /\ Copies(p, escalating[p])
    BY <1>3 DEF OverrunEnd, TypeOK, VersionsOK
  <2>2. new \in CR /\ SameLife(escalating[p], new)
    BY <2>1 DEF CR, SameLife
  <2>3. CASE cr[p].version = escalating[p].version /\ Commit(p, new)
    <3>1. PICK x \in CR : Rewrite(p, x) /\ SameLife(new, x)
      BY <2>2, <2>3, CommitRewrites
    <3> HIDE DEF new
    <3> QED
      BY <2>1, <2>2, <2>3, <3>1 DEF LifeGoesOn, SameLife, Copies
  <2>4. CASE StatusLost(p, escalating[p])
    BY <2>4, WriteFailsKeeps
  <2> QED
    BY <1>3, <2>3, <2>4 DEF OverrunEnd
<1>4. CASE RemoveFinalizer
  <2>1. key \in Pods /\ Copies(key, worker.rt) /\ LeavingCR(worker.rt)
    BY <1>4 DEF RemoveFinalizer, LocalsOK, VersionsOK, HoldsCopy, Decision, LeavingCR
  <2>2. CASE Write(key, worker.rt, NoCR) /\ worker' = IdleWorker
    <3>1. worker.rt = cr[key] /\ worker.rt.version = cr[key].version
      BY <2>1, <2>2, WriteRewrites, IdleTypes
    <3>2. cr' = cr \/ \E x \in CR : Rewrite(key, x) /\ SameLife(NoCR, x)
      BY <2>1, <2>2, WriteRewrites, IdleTypes
    <3>3. AbsentCR(NoCR)
      BY DEF AbsentCR, NoCR
    <3> QED
      BY <1>4, <2>1, <2>2, <3>1, <3>2, <3>3 DEF Vanishes, SameLife, AbsentCR
  <2>3. CASE WriteFails(key, worker.rt)
    BY <2>3, WriteFailsKeeps
  <2> QED
    BY <1>4, <2>2, <2>3 DEF RemoveFinalizer
<1>5. CASE AddFinalizer
  <2> DEFINE new == [worker.rt EXCEPT !.finalizer = TRUE]
  <2>1. key \in Pods /\ Copies(key, worker.rt) /\ NewCR(worker.rt) /\ worker.rt \in CR
    BY <1>5 DEF AddFinalizer, LocalsOK, VersionsOK, HoldsCopy, Decision, NewCR, TypeOK, Worker
  <2>2. new \in CR /\ GuardedCR(new)
    BY <2>1 DEF CR, NewCR, GuardedCR
  <2>3. CASE Write(key, worker.rt, new)
    <3>1. worker.rt = cr[key] /\ (cr' = cr \/ \E x \in CR : Rewrite(key, x) /\ SameLife(new, x))
      BY <2>1, <2>2, <2>3, WriteRewrites
    <3> HIDE DEF new
    <3> QED
      BY <2>1, <2>2, <3>1 DEF LifeGoesOn, SameLife, GuardedCR
  <2>4. CASE WriteFails(key, worker.rt)
    BY <2>4, WriteFailsKeeps
  <2> QED
    BY <1>5, <2>3, <2>4 DEF AddFinalizer
<1>6. ASSUME NEW p \in Pods, NEW copy \in CR, NEW new \in CR, Copies(p, copy),
             SameLife(copy, new), Write(p, copy, new)
      PROVE  Goal
  <2>1. copy = cr[p] /\ (cr' = cr \/ \E x \in CR : Rewrite(p, x) /\ SameLife(new, x))
    BY <1>6, WriteRewrites
  <2> QED
    BY <1>6, <2>1 DEF LifeGoesOn, SameLife
<1>7. CASE SetNode
  <2>1. key \in Pods /\ Copies(key, worker.rt) /\ worker.rt \in CR /\ worker.po \in PodState
    BY <1>7 DEF SetNode, LocalsOK, VersionsOK, HoldsCopy, TypeOK, Worker
  <2>2. /\ [worker.rt EXCEPT !.node = worker.po.node] \in CR
        /\ SameLife(worker.rt, [worker.rt EXCEPT !.node = worker.po.node])
    BY <2>1 DEF CR, PodState, SameLife
  <2>3. \/ Write(key, worker.rt, [worker.rt EXCEPT !.node = worker.po.node])
        \/ WriteFails(key, worker.rt)
        \/ cr' = cr
    BY <1>7 DEF SetNode
  <2> QED
    BY <1>6, <2>1, <2>2, <2>3, WriteFailsKeeps
<1>8. CASE Allocate
  <2>1. key \in Pods /\ Copies(key, worker.rt) /\ worker.rt \in CR
        /\ CoreSpec[key] \in Seq(CoreIDs)
    BY <1>8, ReconcilerAssumption
    DEF Allocate, LocalsOK, VersionsOK, HoldsCopy, TypeOK, Worker
  <2>2. /\ [worker.rt EXCEPT !.allocated = CoreSpec[key]] \in CR
        /\ SameLife(worker.rt, [worker.rt EXCEPT !.allocated = CoreSpec[key]])
    BY <2>1 DEF CR, SameLife
  <2>3. \/ Write(key, worker.rt, [worker.rt EXCEPT !.allocated = CoreSpec[key]])
        \/ WriteFails(key, worker.rt)
        \/ cr' = cr
    BY <1>8 DEF Allocate
  <2> QED
    BY <1>6, <2>1, <2>2, <2>3, WriteFailsKeeps
<1>9. CASE MigrateStatus
  <2> DEFINE v == worker.victim
             new == [crCache[v] EXCEPT !.allocated = <<worker.target>>]
  <2>1. v \in Pods /\ worker.target \in CoreIDs
    BY <1>9, PoolAssumption DEF MigrateStatus, LocalsOK
  <2>2. Copies(v, crCache[v]) /\ crCache[v] \in CR
    BY <2>1 DEF VersionsOK, TypeOK
  <2>3. new \in CR /\ SameLife(crCache[v], new)
    <3>1. <<worker.target>> \in Seq(CoreIDs)
      BY <2>1
    <3> QED
      BY <2>2, <3>1 DEF CR, SameLife
  <2>4. Write(v, crCache[v], new) \/ WriteFails(v, crCache[v]) \/ cr' = cr
    BY <1>9 DEF MigrateStatus
  <2> HIDE DEF v, new
  <2> QED
    BY <1>6, <2>1, <2>2, <2>3, <2>4, WriteFailsKeeps
<1>10. CASE RecoverEnd
  <2> DEFINE v == worker.victim
             new == [worker.rt EXCEPT !.hi = FALSE]
  <2>1. v \in Pods /\ Copies(v, worker.rt) /\ worker.rt \in CR
    BY <1>10 DEF RecoverEnd, LocalsOK, VersionsOK, TypeOK, Worker
  <2>2. new \in CR /\ SameLife(worker.rt, new)
    BY <2>1 DEF CR, SameLife
  <2>3. Write(v, worker.rt, new) \/ StatusLost(v, worker.rt)
    BY <1>10 DEF RecoverEnd
  <2> HIDE DEF v, new
  <2> QED
    BY <1>6, <2>1, <2>2, <2>3, WriteFailsKeeps
<1> HIDE DEF Goal
<1>11. ASSUME cr' = cr PROVE Goal
  BY <1>11 DEF Goal
<1> QED
  BY <1>1, <1>2, <1>3, <1>4, <1>5, <1>7, <1>8, <1>9, <1>10, <1>11, OthersKeepCR

-----------------------------------------------------------------------------
(***************************************************************************)
(* Copies.                                                                 *)
(***************************************************************************)
LEMMA ShapeStep ==
    ASSUME TypeOK, LocalsOK, CRShape, VersionsOK, Decision, [Next]_vars
    PROVE  CRShape'
<1>1. CASE cr' = cr
  BY <1>1 DEF CRShape
<1>2. ASSUME NEW p \in Pods, NEW x \in CR, Rewrite(p, x),
             LifeGoesOn(cr[p], x) \/ Vanishes(p, x)
      PROVE  CRShape'
  <2>1. (x.deleting => x.finalizer) /\ (x.finalizer => x.exists)
    BY <1>2 DEF LifeGoesOn, SameLife, Vanishes, AbsentCR, NewCR, GuardedCR, LeavingCR, CRShape
  <2> QED
    BY <1>2, <2>1 DEF Rewrite, CRShape, TypeOK
<1> QED
  BY <1>1, <1>2, CRStep

\* An old copy stays an old copy.
LEMMA CopiesStep ==
    ASSUME TypeOK, LocalsOK, CRShape, VersionsOK, Decision, [Next]_vars,
           NEW q \in Pods, NEW copy \in CR, Copies(q, copy)
    PROVE  /\ copy.version <= cr'[q].version
           /\ copy.version = cr'[q].version => copy = cr'[q]
<1>1. CASE cr' = cr
  BY <1>1 DEF Copies
<1>2. ASSUME NEW p \in Pods, NEW x \in CR, Rewrite(p, x)
      PROVE  /\ copy.version <= cr'[q].version
             /\ copy.version = cr'[q].version => copy = cr'[q]
  <2>1. CASE q # p
    BY <1>2, <2>1 DEF Rewrite, TypeOK, Copies
  <2>2. CASE q = p
    <3>1. cr'[q] = x /\ x.version = cr[q].version + 1
      BY <1>2, <2>2 DEF Rewrite, TypeOK
    <3>2. copy.version \in Nat /\ cr[q].version \in Nat
      BY DEF TypeOK, CR
    <3> QED
      BY <3>1, <3>2 DEF Copies
  <2> QED
    BY <2>1, <2>2
<1> QED
  BY <1>1, <1>2, CRStep

LEMMA CacheStep ==
    ASSUME [Next]_vars
    PROVE  crCache' = crCache \/ (\E p \in Pods : SyncCR(p)) \/ Restart
<1>1. CASE \E p \in Pods : Environment(p) \/ Informer(p) \/ Kubelet(p) \/ OverrunEnd(p)
                           \/ OverrunRefused(p) \/ Dequeue(p)
  BY <1>1 DEF Environment, Informer, Kubelet, Dequeue, CreateCR, DeleteCR, CreatePod,
              FinishPod, DeletePod, OverrunBegin, SyncPod, RemovePod, SchedulePod, SetPod,
              OverrunEnd, OverrunRefused, Begin, BeginNothing, Work, apiVars
<1>2. CASE HandlerStep
  BY <1>2 DEF HandlerStep, HandleLiveEvent, HandleTerminatingEvent, HandlerDrop,
              HandlerEnqueue, apiVars
<1>3. CASE WorkerStep
  BY <1>3 DEF WorkerStep, Cleanup, CleanupDrop, RemoveFinalizer, AddFinalizer, SetNode,
              Allocate, ReadBudget, CheckRegistered, CheckUtilization, SelectVictims,
              NoVictimLeft, PreemptPod, MigrateOff, MigrateOn, MigrateStatus, Evict,
              PreemptionDone, PrepareEntry, CompareEntry, Unregister, Register, Finish,
              RecoverBegin, RecoverPod, RecoverEnd, RecoverDone, Local, Work
<1>4. CASE UNCHANGED vars
  BY <1>4 DEF vars, apiVars
<1> QED
  BY <1>1, <1>2, <1>3, <1>4 DEF Next

LEMMA EscalatingStep ==
    ASSUME TypeOK, [Next]_vars, NEW q \in Pods
    PROVE  \/ escalating'[q] = escalating[q]
           \/ escalating'[q] = crCache[q]
           \/ escalating'[q] = NoCR
<1>1. CASE \E p \in Pods : Environment(p) \/ Informer(p) \/ Kubelet(p) \/ Dequeue(p)
  BY <1>1 DEF Environment, Informer, Kubelet, Dequeue, CreateCR, DeleteCR, CreatePod,
              FinishPod, DeletePod, OverrunBegin, SyncCR, SyncPod, RemovePod, SchedulePod,
              SetPod, Env, Begin, BeginNothing, Work, memVars, TypeOK
<1>2. CASE \E p \in Pods : OverrunEnd(p) \/ OverrunRefused(p)
  BY <1>2 DEF OverrunEnd, OverrunRefused, TypeOK
<1>3. CASE HandlerStep
  BY <1>3 DEF HandlerStep, HandleLiveEvent, HandleTerminatingEvent, HandlerDrop,
              HandlerEnqueue, memVars
<1>4. CASE WorkerStep
  BY <1>4 DEF WorkerStep, Cleanup, CleanupDrop, RemoveFinalizer, AddFinalizer, SetNode,
              Allocate, ReadBudget, CheckRegistered, CheckUtilization, SelectVictims,
              NoVictimLeft, PreemptPod, MigrateOff, MigrateOn, MigrateStatus, Evict,
              PreemptionDone, PrepareEntry, CompareEntry, Unregister, Register, Finish,
              RecoverBegin, RecoverPod, RecoverEnd, RecoverDone, Local, Work, memVars
<1>5. CASE Restart
  BY <1>5 DEF Restart
<1>6. CASE UNCHANGED vars
  BY <1>6 DEF vars, memVars
<1> QED
  BY <1>1, <1>2, <1>3, <1>4, <1>5, <1>6 DEF Next

\* Where the worker's copy of a CR comes from.
LEMMA WorkerCopyStep ==
    ASSUME TypeOK, LocalsOK, [Next]_vars
    PROVE  \/ worker'.pc \notin HoldsCopy \cup {"revert"}
           \/ worker' = worker
           \/ \E p \in Pods : Begin(p)
           \/ /\ Cleanup \/ \E n \in Nodes : CleanupDrop(n)
              /\ worker.pc \in {"cleanup", "drop"} /\ worker'.pc = "drop"
              /\ worker'.key = worker.key /\ worker'.rt = worker.rt
           \/ /\ worker'.pc = "revert" /\ worker'.victim \in Pods
              /\ worker'.rt = crCache[worker'.victim]
<1> USE DEF HoldsCopy
<1>1. ASSUME NEW p \in Pods, Outside(p), ~ Begin(p) PROVE worker' = worker
  BY <1>1, OutsideKeepsLocals
<1>2. CASE HandlerStep
  BY <1>2 DEF HandlerStep, HandleLiveEvent, HandleTerminatingEvent, HandlerDrop,
              HandlerEnqueue
<1>3. CASE Cleanup \/ \E n \in Nodes : CleanupDrop(n)
  <2>1. CASE Cleanup
    BY <2>1 DEF Cleanup, TypeOK, Worker
  <2>2. CASE \E n \in Nodes : CleanupDrop(n)
    BY <2>2 DEF CleanupDrop, TypeOK, Worker
  <2> QED
    BY <1>3, <2>1, <2>2
<1>4. CASE RemoveFinalizer \/ AddFinalizer \/ SetNode \/ Finish \/ RecoverDone \/ Restart
  BY <1>4 DEF RemoveFinalizer, AddFinalizer, SetNode, Finish, RecoverDone, Restart,
              Requeue, IdleWorker
<1>5. CASE Allocate \/ ReadBudget \/ CheckRegistered \/ SelectVictims \/ NoVictimLeft
  <2>1. CASE Allocate
    BY <2>1, GotoPC DEF TypeOK
  <2>2. CASE ReadBudget \/ CheckRegistered
    BY <2>2, GotoPC DEF TypeOK
  <2>3. CASE SelectVictims \/ NoVictimLeft
    BY <2>3, NextPC DEF TypeOK
  <2> QED
    BY <1>5, <2>1, <2>2, <2>3
<1>6. ASSUME NEW v \in Pods, PreemptPod(v)
      PROVE  worker'.pc \notin HoldsCopy \cup {"revert"}
  BY <1>6, NextPC DEF TypeOK
<1>7. CASE MigrateOff \/ MigrateOn \/ MigrateStatus \/ Evict \/ PreemptionDone
           \/ PrepareEntry \/ CompareEntry \/ Unregister \/ Register \/ RecoverBegin
           \/ RecoverEnd \/ CheckUtilization
  <2>1. CASE MigrateOff \/ MigrateOn \/ MigrateStatus \/ Evict
    <3>1. CASE MigrateOff \/ MigrateOn
      BY <3>1, GotoPC DEF TypeOK
    <3>2. CASE NextVictim
      BY <3>2, NextPC DEF TypeOK
    <3> QED
      BY <2>1, <3>1, <3>2 DEF MigrateStatus, Evict
  <2>2. CASE PreemptionDone \/ PrepareEntry \/ CompareEntry \/ Unregister
    BY <2>2, NextPC DEF TypeOK
  <2>3. CASE Register
    BY <2>3 DEF Register, TypeOK, Worker
  <2>4. CASE RecoverBegin \/ RecoverEnd
    BY <2>4, GotoPC DEF TypeOK
  <2>5. CASE CheckUtilization
    BY <2>5 DEF CheckUtilization, TypeOK, Worker
  <2> QED
    BY <1>7, <2>1, <2>2, <2>3, <2>4, <2>5
<1>8. ASSUME NEW p \in Pods, RecoverPod(p)
      PROVE  \/ worker'.pc \notin HoldsCopy \cup {"revert"}
             \/ /\ worker'.pc = "revert" /\ worker'.victim \in Pods
                /\ worker'.rt = crCache[worker'.victim]
  BY <1>8 DEF RecoverPod, TypeOK, Worker
<1>9. CASE UNCHANGED vars
  BY <1>9 DEF vars
<1> QED
  BY <1>1, <1>2, <1>3, <1>4, <1>5, <1>6, <1>7, <1>8, <1>9
  DEF Next, Outside, WorkerStep

LEMMA VersionsStep ==
    ASSUME TypeOK, TypeOK', LocalsOK, CRShape, VersionsOK, Decision, [Next]_vars
    PROVE  VersionsOK'
<1>1. ASSUME NEW q \in Pods PROVE Copies(q, crCache[q])'
  <2>1. CASE crCache' = crCache
    BY <2>1, CopiesStep DEF VersionsOK, Copies, TypeOK
  <2>2. CASE (\E p \in Pods : SyncCR(p)) \/ Restart
    <3>1. cr' = cr /\ (crCache'[q] = crCache[q] \/ crCache'[q] = cr[q])
      BY <2>2 DEF SyncCR, Restart, TypeOK
    <3>2. cr[q].version <= cr[q].version
      BY DEF TypeOK, CR
    <3> QED
      BY <3>1, <3>2 DEF VersionsOK, Copies
  <2> QED
    BY <2>1, <2>2, CacheStep
<1>2. ASSUME NEW q \in Pods, escalating'[q].exists PROVE Copies(q, escalating[q])'
  <2>1. CASE escalating'[q] = escalating[q]
    BY <1>2, <2>1, CopiesStep DEF VersionsOK, Copies, TypeOK
  <2>2. CASE escalating'[q] = crCache[q]
    BY <2>2, CopiesStep DEF VersionsOK, Copies, TypeOK
  <2>3. escalating'[q] # NoCR
    BY <1>2 DEF NoCR
  <2> QED
    BY <2>1, <2>2, <2>3, EscalatingStep
<1>3. ASSUME NEW q \in Pods PROVE crCache[q].version <= crCache'[q].version
  <2>1. crCache[q].version \in Nat /\ crCache[q].version <= cr[q].version
    BY DEF TypeOK, CR, VersionsOK, Copies
  <2>2. crCache'[q] = crCache[q] \/ crCache'[q] = cr[q]
    BY CacheStep DEF SyncCR, Restart, TypeOK
  <2> QED
    BY <2>1, <2>2
<1>4. ASSUME worker'.pc \in HoldsCopy
      PROVE  (Copies(key, worker.rt) /\ worker.rt.version <= crCache[key].version)'
  <2>1. ASSUME NEW q \in Pods, q = worker'.key, NEW copy \in CR, copy = worker'.rt,
               Copies(q, copy), copy.version <= crCache[q].version
        PROVE  (Copies(key, worker.rt) /\ worker.rt.version <= crCache[key].version)'
    <3>1. /\ copy.version <= cr'[q].version
          /\ copy.version = cr'[q].version => copy = cr'[q]
      BY <2>1, CopiesStep
    <3>2. copy.version \in Nat /\ crCache[q].version \in Nat /\ crCache'[q].version \in Nat
      BY DEF TypeOK, CR
    <3>3. copy.version <= crCache'[q].version
      BY <1>3, <2>1, <3>2
    <3> QED
      BY <2>1, <3>1, <3>3 DEF Copies, key
  <2>2. CASE worker' = worker \/ (/\ worker.pc \in {"cleanup", "drop"} /\ worker'.pc = "drop"
                                  /\ worker'.key = worker.key /\ worker'.rt = worker.rt)
    <3>1. worker.pc \in HoldsCopy /\ worker.pc # "idle"
      BY <1>4, <2>2 DEF HoldsCopy
    <3>2. worker.key \in Pods /\ worker.rt \in CR
      BY <3>1 DEF LocalsOK, key, TypeOK, Worker
    <3> QED
      BY <2>1, <2>2, <3>1, <3>2 DEF VersionsOK, key
  <2>3. ASSUME NEW p \in Pods, Begin(p)
        PROVE  (Copies(key, worker.rt) /\ worker.rt.version <= crCache[key].version)'
    <3>1. worker'.key = p /\ worker'.rt = crCache[p]
      BY <2>3 DEF Begin, IdleWorker
    <3>2. crCache[p].version <= crCache[p].version /\ crCache[p] \in CR
      BY DEF TypeOK, CR
    <3> QED
      BY <2>1, <3>1, <3>2 DEF VersionsOK
  <2> QED
    BY <1>4, <2>2, <2>3, WorkerCopyStep DEF HoldsCopy
<1>5. ASSUME worker'.pc = "revert" PROVE Copies(worker.victim, worker.rt)'
  <2>1. ASSUME NEW q \in Pods, q = worker'.victim, NEW copy \in CR, copy = worker'.rt,
               Copies(q, copy)
        PROVE  Copies(worker.victim, worker.rt)'
    BY <2>1, CopiesStep DEF Copies
  <2>2. CASE worker' = worker
    <3>1. worker.victim \in Pods /\ worker.rt \in CR
      BY <1>5, <2>2 DEF LocalsOK, TypeOK, Worker
    <3> QED
      BY <1>5, <2>1, <2>2, <3>1 DEF VersionsOK
  <2>3. CASE worker'.victim \in Pods /\ worker'.rt = crCache[worker'.victim]
    BY <2>1, <2>3 DEF VersionsOK, TypeOK
  <2>4. ASSUME NEW p \in Pods, Begin(p) PROVE FALSE
    <3>1. worker'.pc = FirstStep(p)
      BY <2>4 DEF Begin, IdleWorker
    <3> QED
      BY <1>5, <3>1 DEF FirstStep
  <2> QED
    BY <1>5, <2>2, <2>3, <2>4, WorkerCopyStep
<1> QED
  BY <1>1, <1>2, <1>4, <1>5 DEF VersionsOK

LEMMA DecisionStep ==
    ASSUME TypeOK, LocalsOK, Decision, [Next]_vars
    PROVE  Decision'
<1>1. CASE worker'.pc \notin HoldsCopy
  BY <1>1 DEF Decision, HoldsCopy
<1>2. CASE worker' = worker
  BY <1>2 DEF Decision
<1>3. ASSUME NEW p \in Pods, Begin(p) PROVE Decision'
  <2>1. worker'.pc = FirstStep(p) /\ worker'.rt = crCache[p] /\ crCache[p].exists
    BY <1>3 DEF Begin, IdleWorker
  <2> QED
    BY <2>1 DEF FirstStep, Decision
<1>4. CASE /\ worker.pc \in {"cleanup", "drop"} /\ worker'.pc = "drop"
           /\ worker'.key = worker.key /\ worker'.rt = worker.rt
  BY <1>4 DEF Decision, HoldsCopy
<1> QED
  BY <1>1, <1>2, <1>3, <1>4, WorkerCopyStep DEF HoldsCopy

-----------------------------------------------------------------------------
(***************************************************************************)
(* Who relies on a held CR.                                                *)
(***************************************************************************)
CRInv == TypeOK /\ LocalsOK /\ CRShape /\ VersionsOK /\ Decision

\* A held CR stays held, unless the worker takes the finalizer off.
LEMMA HeldStep ==
    ASSUME CRInv, [Next]_vars, NEW q \in Pods, HeldCR(q)
    PROVE  HeldCR(q)' \/ \E x \in CR : Vanishes(q, x)
<1>1. CASE cr' = cr
  BY <1>1 DEF HeldCR
<1>2. ASSUME NEW p \in Pods, NEW x \in CR, Rewrite(p, x),
             LifeGoesOn(cr[p], x) \/ Vanishes(p, x)
      PROVE  HeldCR(q)' \/ \E y \in CR : Vanishes(q, y)
  <2>1. CASE q # p
    BY <1>2, <2>1 DEF Rewrite, HeldCR, CRInv, TypeOK
  <2>2. CASE q = p /\ LifeGoesOn(cr[p], x)
    <3>1. cr'[q] = x
      BY <1>2, <2>2 DEF Rewrite, CRInv, TypeOK
    <3> QED
      BY <2>2, <3>1 DEF HeldCR, LifeGoesOn, SameLife, AbsentCR, NewCR, GuardedCR, LeavingCR
  <2>3. CASE q = p /\ Vanishes(p, x)
    BY <2>3
  <2> QED
    BY <1>2, <2>1, <2>2, <2>3
<1> QED
  BY <1>1, <1>2, CRStep DEF CRInv

\* An entry comes from a migration of the pod or from its own Reconcile.
LEMMA EntriesStep ==
    ASSUME TypeOK, PoolInv, LocalsOK, [Next]_vars,
           NEW m \in Nodes, NEW d \in Cores, NEW q \in Pods,
           corePods'[m][d][q] # NoPod
    PROVE  \/ corePods[m][d][q] # NoPod
           \/ MigrateOn /\ q = worker.victim
           \/ Register /\ q = key
<1>0. LooseType /\ UnpooledEmpty
  BY DEF PoolInv, PoolTypeOK, LooseType, CoreMap
<1>1. CASE UNCHANGED poolVars
  BY <1>1 DEF poolVars
<1>2. ASSUME NEW n \in Nodes, NEW p, RemovePodFromPool(n, p)
      PROVE  corePods[m][d][q] # NoPod
  BY <1>0, <1>2 DEF RemovePodFromPool, DropPods, Only, LooseType
<1>3. ASSUME NEW n \in Nodes, GetOrCreateCPUPool(n)
      PROVE  corePods[m][d][q] # NoPod
  BY <1>0, <1>3, CreateStep
<1>4. ASSUME NEW n \in Nodes, NEW c, NEW p \in Pods, RemovePodFromCore(n, c, p)
      PROVE  corePods[m][d][q] # NoPod
  <2>1. CASE c \notin Cores
    BY <1>4, <2>1 DEF RemovePodFromCore
  <2>2. CASE c \in Cores
    <3>1. corePods' = [corePods EXCEPT ![n][c][p] = NoPod]
      BY <1>4, <2>2 DEF RemovePodFromCore
    <3>2. corePods'[m][d][q] = NoPod \/ corePods'[m][d][q] = corePods[m][d][q]
      BY <1>0, <2>2, <3>1 DEF LooseType, CoreMap
    <3> QED
      BY <3>2
  <2> QED
    BY <2>1, <2>2
<1>5. ASSUME NEW n \in Nodes, NEW c, NEW p \in Pods, NEW info, AddPodToCore(n, c, p, info)
      PROVE  corePods[m][d][q] # NoPod \/ q = p
  <2>1. CASE c \notin Cores
    BY <1>5, <2>1 DEF AddPodToCore
  <2>2. CASE c \in Cores
    <3>1. corePods' = [corePods EXCEPT ![n][c][p] = info]
      BY <1>5, <2>2 DEF AddPodToCore
    <3>2. q = p \/ corePods'[m][d][q] = corePods[m][d][q]
      BY <1>0, <2>2, <3>1 DEF LooseType, CoreMap
    <3> QED
      BY <3>2
  <2> QED
    BY <2>1, <2>2
<1>6. CASE HandlerStep
  BY <1>1, <1>2, <1>6
  DEF HandlerStep, HandleLiveEvent, HandleTerminatingEvent, HandlerDrop, HandlerEnqueue
<1>7. ASSUME NEW n \in Nodes, CleanupDrop(n) PROVE corePods[m][d][q] # NoPod
  BY <1>2, <1>7 DEF CleanupDrop
<1>8. CASE CheckRegistered \/ PrepareEntry
  BY <1>3, <1>8 DEF CheckRegistered, PrepareEntry, EnsurePool, LocalsOK, Allocating, Charging
<1>9. CASE MigrateOff \/ Unregister
  <2>1. onNode \in Nodes /\ key \in Pods
    BY <1>9 DEF MigrateOff, Unregister, LocalsOK, Allocating, Charging, Preempting
  <2>2. MigrateOff => worker.victim \in Pods
    BY DEF MigrateOff, LocalsOK
  <2> QED
    BY <1>4, <1>9, <2>1, <2>2 DEF MigrateOff, Unregister
<1>10. CASE MigrateOn
  <2>1. onNode \in Nodes /\ worker.victim \in Pods
    BY <1>10 DEF MigrateOn, LocalsOK, Allocating, Charging, Preempting
  <2> QED
    BY <1>5, <1>10, <2>1 DEF MigrateOn
<1>11. CASE Register
  <2>1. onNode \in Nodes /\ key \in Pods
    BY <1>11 DEF Register, LocalsOK, Allocating, Charging
  <2> QED
    BY <1>5, <1>11, <2>1 DEF Register
<1>12. CASE Restart
  BY <1>12 DEF Restart, ProcessRestart, EmptyCore
<1>13. CASE UNCHANGED vars
  BY <1>1, <1>13 DEF vars
<1> QED
  BY <1>1, <1>6, <1>7, <1>8, <1>9, <1>10, <1>11, <1>12, <1>13, OutsideKeepsLedger,
     ReadingKeepsLedger
  DEF Next, Outside, WorkerStep, Reading

\* A Reconcile that is to charge its pod began with a live CR in the cache.
LEMMA AllocatingStep ==
    ASSUME TypeOK, LocalsOK, [Next]_vars, worker'.pc \in Allocating
    PROVE  \/ worker.pc \in Allocating /\ worker'.key = worker.key
           \/ \E p \in Pods : /\ Begin(p) /\ worker'.key = p
                              /\ crCache[p].finalizer /\ ~ crCache[p].deleting
<1> USE DEF Allocating, Charging, Preempting
<1>1. ASSUME NEW p \in Pods, Outside(p), ~ Begin(p) PROVE worker' = worker
  BY <1>1, OutsideKeepsLocals
<1>2. CASE HandlerStep
  BY <1>2 DEF HandlerStep, HandleLiveEvent, HandleTerminatingEvent, HandlerDrop,
              HandlerEnqueue
<1>3. ASSUME NEW p \in Pods, Begin(p)
      PROVE  worker'.key = p /\ crCache[p].finalizer /\ ~ crCache[p].deleting
  <2>1. worker'.pc = FirstStep(p) /\ worker'.key = p
    BY <1>3 DEF Begin, IdleWorker
  <2> QED
    BY <2>1 DEF FirstStep
<1>4. CASE Cleanup \/ \E n \in Nodes : CleanupDrop(n)
  <2>1. CASE Cleanup
    BY <2>1 DEF Cleanup, TypeOK, Worker
  <2>2. ASSUME NEW n \in Nodes, CleanupDrop(n) PROVE FALSE
    BY <2>2 DEF CleanupDrop, TypeOK, Worker
  <2> QED
    BY <1>4, <2>1, <2>2
<1>5. CASE RemoveFinalizer \/ AddFinalizer \/ SetNode \/ Finish \/ RecoverDone \/ Restart
  BY <1>5 DEF RemoveFinalizer, AddFinalizer, SetNode, Finish, RecoverDone, Restart,
              Requeue, IdleWorker
<1>6. CASE RecoverBegin \/ RecoverEnd \/ \E p \in Pods : RecoverPod(p)
  <2>1. ASSUME RecoverBegin \/ RecoverEnd PROVE FALSE
    <3>1. worker'.pc = "recover"
      BY <2>1 DEF RecoverBegin, RecoverEnd, TypeOK, Worker
    <3> QED
      BY <3>1
  <2>2. ASSUME NEW p \in Pods, RecoverPod(p) PROVE FALSE
    BY <2>2 DEF RecoverPod, TypeOK, Worker
  <2> QED
    BY <1>6, <2>1, <2>2
<1>7. CASE Allocate
  BY <1>7 DEF Allocate, Goto, TypeOK, Worker
<1>8. CASE ReadBudget \/ CheckRegistered
  BY <1>8 DEF ReadBudget, CheckRegistered, Goto, TypeOK, Worker
<1>9. CASE CheckUtilization
  BY <1>9 DEF CheckUtilization, TypeOK, Worker
<1>10. CASE SelectVictims \/ NoVictimLeft
  <2>1. worker.pc \in {"select", "preempt"}
    BY <1>10 DEF SelectVictims, NoVictimLeft
  <2> QED
    BY <1>10, <2>1, NextPC DEF TypeOK
<1>11. CASE \E v \in Pods : PreemptPod(v)
  <2>1. worker.pc \in {"preempt"}
    BY <1>11 DEF PreemptPod
  <2> QED
    BY <1>11, <2>1, NextPC DEF TypeOK
<1>12. CASE MigrateOff \/ MigrateOn
  BY <1>12 DEF MigrateOff, MigrateOn, Goto, TypeOK, Worker
<1>13. CASE MigrateStatus \/ Evict
  BY <1>13, NextPC DEF MigrateStatus, Evict, TypeOK
<1>14. CASE PreemptionDone \/ PrepareEntry \/ CompareEntry \/ Unregister
  <2>1. worker.pc \in {"utilization", "entry", "compare", "unregister"}
    BY <1>14 DEF PreemptionDone, PrepareEntry, CompareEntry, Unregister
  <2> QED
    BY <1>14, <2>1, NextPC DEF TypeOK
<1>15. CASE Register
  BY <1>15 DEF Register, TypeOK, Worker
<1>16. CASE UNCHANGED vars
  BY <1>16 DEF vars
<1> QED
  BY <1>1, <1>2, <1>3, <1>4, <1>5, <1>6, <1>7, <1>8, <1>9, <1>10, <1>11, <1>12, <1>13,
     <1>14, <1>15, <1>16
  DEF Next, Outside, WorkerStep

\* A victim in hand was found in the ledger.
LEMMA VictimsStep ==
    ASSUME TypeOK, LocalsOK, [Next]_vars
    PROVE  /\ \A q \in Pods : worker'.victims[q] # NoPod =>
                  worker.victims[q] # NoPod \/ Entry(q)
           /\ worker'.pc \in {"migrateOff", "migrateOn"} =>
                  \/ /\ worker.pc \in {"migrateOff", "migrateOn"}
                     /\ worker'.victim = worker.victim
                  \/ worker'.victim \in Pods /\ worker.victims[worker'.victim] # NoPod
<1> DEFINE Goal ==
       /\ \A q \in Pods : worker'.victims[q] # NoPod =>
              worker.victims[q] # NoPod \/ Entry(q)
       /\ worker'.pc \in {"migrateOff", "migrateOn"} =>
              \/ /\ worker.pc \in {"migrateOff", "migrateOn"}
                 /\ worker'.victim = worker.victim
              \/ worker'.victim \in Pods /\ worker.victims[worker'.victim] # NoPod
<1> SUFFICES Goal
  OBVIOUS
<1>1. ASSUME worker' = worker PROVE Goal
  BY <1>1
<1>2. ASSUME worker'.victims = worker.victims,
             worker'.pc \notin {"migrateOff", "migrateOn"}
      PROVE  Goal
  BY <1>2
<1>3. ASSUME worker'.victims = EmptyCore, worker'.pc \notin {"migrateOff", "migrateOn"}
      PROVE  Goal
  BY <1>3 DEF EmptyCore
<1>4. ASSUME NEW p \in Pods, Outside(p), ~ Begin(p) PROVE Goal
  BY <1>1, <1>4, OutsideKeepsLocals
<1>5. CASE HandlerStep
  <2>1. worker' = worker
    BY <1>5 DEF HandlerStep, HandleLiveEvent, HandleTerminatingEvent, HandlerDrop,
                HandlerEnqueue
  <2> QED
    BY <1>1, <2>1
<1>6. ASSUME NEW p \in Pods, Begin(p) PROVE Goal
  <2>1. worker'.pc = FirstStep(p) /\ worker'.victims = EmptyCore
    BY <1>6 DEF Begin, IdleWorker
  <2> QED
    BY <1>3, <2>1 DEF FirstStep
<1>7. CASE RemoveFinalizer \/ AddFinalizer \/ SetNode \/ Finish \/ RecoverDone \/ Restart
  <2>1. worker' = IdleWorker
    BY <1>7 DEF RemoveFinalizer, AddFinalizer, SetNode, Finish, RecoverDone, Restart, Requeue
  <2> QED
    BY <1>3, <2>1 DEF IdleWorker
<1>8. CASE Cleanup \/ RecoverBegin \/ RecoverEnd
  <2>1. worker'.victims = worker.victims /\ worker'.pc \in {"drop", "recover"}
    BY <1>8 DEF Cleanup, RecoverBegin, RecoverEnd, TypeOK, Worker
  <2> QED
    BY <1>2, <2>1
<1>9. ASSUME NEW n \in Nodes, CleanupDrop(n) PROVE Goal
  <2>1. worker'.victims = worker.victims /\ worker'.pc = "drop"
    BY <1>9 DEF CleanupDrop, TypeOK, Worker
  <2> QED
    BY <1>2, <2>1
<1>10. ASSUME NEW p \in Pods, RecoverPod(p) PROVE Goal
  <2>1. worker'.victims = worker.victims /\ worker'.pc \in {"recover", "revert"}
    BY <1>10 DEF RecoverPod, TypeOK, Worker
  <2> QED
    BY <1>2, <2>1
<1>11. CASE Allocate \/ ReadBudget \/ CheckRegistered
  <2>1. CASE Allocate
    BY <1>2, <2>1 DEF Allocate, Goto, TypeOK, Worker
  <2>2. CASE ReadBudget \/ CheckRegistered
    BY <1>2, <2>2 DEF ReadBudget, CheckRegistered, Goto, TypeOK, Worker
  <2> QED
    BY <1>11, <2>1, <2>2
<1>12. CASE CheckUtilization \/ NoVictimLeft \/ PreemptionDone
  <2>1. worker'.victims = worker.victims /\ worker'.pc \in {"utilization", "select", "entry"}
    <3>1. CASE CheckUtilization
      BY <3>1 DEF CheckUtilization, TypeOK, Worker
    <3>2. CASE NoVictimLeft
      BY <3>2 DEF NoVictimLeft, TypeOK, Worker
    <3>3. CASE PreemptionDone
      BY <3>3 DEF PreemptionDone, TypeOK, Worker
    <3> QED
      BY <1>12, <3>1, <3>2, <3>3
  <2> QED
    BY <1>2, <2>1
<1>13. CASE SelectVictims
  <2> DEFINE f == CorePods(onNode, currentCore)
  <2>1. PICK V : worker' = [worker EXCEPT !.pc = "preempt", !.needed = 0,
                                          !.victims = Only(f, V)]
    BY <1>13 DEF SelectVictims
  <2>2. worker'.pc = "preempt" /\ worker'.victims = Only(f, V)
    BY <2>1 DEF TypeOK, Worker
  <2>3. onNode \in Nodes
    BY <1>13 DEF SelectVictims, LocalsOK, Allocating, Charging, Preempting
  <2>4. ASSUME NEW q \in Pods, worker'.victims[q] # NoPod PROVE Entry(q)
    <3>1. f[q] # NoPod
      BY <2>2, <2>4 DEF Only
    <3>2. currentCore \in Cores /\ corePods[onNode][currentCore][q] # NoPod
      BY <3>1 DEF CorePods, EmptyCore
    <3> QED
      BY <2>3, <3>2 DEF Entry
  <2> QED
    BY <2>2, <2>4
<1>14. ASSUME NEW v \in Pods, PreemptPod(v) PROVE Goal
  <2> DEFINE rest == [worker EXCEPT !.victims[v] = NoPod]
  <2>1. worker.pc = "preempt" /\ worker.victims[v] # NoPod
    BY <1>14 DEF PreemptPod, Waiting
  <2>2. \/ worker' = [rest EXCEPT !.skipped = @ \cup {v}]
        \/ worker' = [rest EXCEPT !.pc = "evict", !.victim = v]
        \/ \E i, c : worker' = [rest EXCEPT !.pc = "migrateOff", !.victim = v,
                                            !.info = i, !.target = c]
    BY <1>14 DEF PreemptPod
  <2>3. rest.pc = "preempt" /\ rest.victims = [worker.victims EXCEPT ![v] = NoPod]
    BY <2>1 DEF TypeOK, Worker
  <2>4. /\ worker'.victims = [worker.victims EXCEPT ![v] = NoPod]
        /\ worker'.pc \in {"preempt", "evict"} \/ worker'.victim = v
    BY <2>1, <2>2, <2>3 DEF TypeOK, Worker
  <2>5. \A q \in Pods : worker'.victims[q] # NoPod => worker.victims[q] # NoPod
    BY <2>4 DEF TypeOK, Worker
  <2> QED
    BY <2>1, <2>4, <2>5
<1>15. CASE MigrateOff
  BY <1>15 DEF MigrateOff, Goto, TypeOK, Worker
<1>16. CASE MigrateOn
  BY <1>2, <1>16 DEF MigrateOn, Goto, TypeOK, Worker
<1>17. CASE MigrateStatus \/ Evict
  <2>1. NextVictim /\ worker \in Worker
    BY <1>17 DEF MigrateStatus, Evict, TypeOK
  <2>2. worker'.victims = worker.victims /\ worker'.pc = "preempt"
    BY <2>1 DEF NextVictim, Worker
  <2> QED
    BY <1>2, <2>2
<1>18. CASE PrepareEntry \/ CompareEntry \/ Unregister
  <2>1. worker \in Worker /\ worker'.pc \in {"compare", "unregister", "tail", "register"}
    BY <1>18, NextPC DEF TypeOK
  <2>2. worker'.victims = worker.victims
    <3>1. CASE \E m : worker' = [worker EXCEPT !.pc = "compare", !.millis = m]
      BY <2>1, <3>1 DEF Worker
    <3>2. CASE \E pc : worker' = [worker EXCEPT !.pc = pc]
      BY <2>1, <3>2 DEF Worker
    <3> QED
      BY <1>18, <3>1, <3>2 DEF PrepareEntry, CompareEntry, Unregister, Goto
  <2> QED
    BY <1>2, <2>1, <2>2
<1>19. CASE Register
  <2>1. worker'.victims = worker.victims /\ worker'.pc \in {"unregister", "tail"}
    BY <1>19 DEF Register, TypeOK, Worker
  <2> QED
    BY <1>2, <2>1
<1>20. CASE UNCHANGED vars
  BY <1>1, <1>20 DEF vars
<1> HIDE DEF Goal
<1> QED
  BY <1>4, <1>5, <1>6, <1>7, <1>8, <1>9, <1>10, <1>11, <1>12, <1>13, <1>14, <1>15,
     <1>16, <1>17, <1>18, <1>19, <1>20
  DEF Next, Outside, WorkerStep

\* A cleanup gets past a pool only by removing the pod from it.
LEMMA CleanupStep ==
    ASSUME TypeOK, PoolInv, LocalsOK, Holding, [Next]_vars, worker'.pc = "drop"
    PROVE  \A n \in Nodes \ worker'.todo, c \in Cores :
               corePods'[n][c][worker'.key] = NoPod
<1>1. \/ worker' = worker
      \/ Cleanup
      \/ \E n \in Nodes : CleanupDrop(n)
  <2>1. ASSUME NEW p \in Pods, Begin(p) PROVE FALSE
    <3>1. worker'.pc = FirstStep(p)
      BY <2>1 DEF Begin, IdleWorker
    <3> QED
      BY <3>1 DEF FirstStep
  <2> QED
    BY <2>1, WorkerCopyStep DEF HoldsCopy
<1>2. CASE worker' = worker
  <2>1. key \in Pods
    BY <1>2 DEF LocalsOK
  <2>2. ~ MigrateOn /\ ~ Register
    BY <1>2 DEF MigrateOn, Register
  <2>3. \A n \in Nodes \ worker.todo, c \in Cores : corePods[n][c][key] = NoPod
    BY <1>2 DEF Holding
  <2> QED
    BY <1>2, <2>1, <2>2, <2>3, EntriesStep DEF key
<1>3. CASE Cleanup
  <2>1. worker'.todo = pooled /\ worker'.key = key /\ corePods' = corePods /\ key \in Pods
    BY <1>3 DEF Cleanup, TypeOK, Worker, LocalsOK, poolVars, key
  <2> QED
    BY <2>1 DEF PoolInv, UnpooledEmpty, EmptyCore
<1>4. ASSUME NEW n \in Nodes, CleanupDrop(n)
      PROVE  \A m \in Nodes \ worker'.todo, c \in Cores :
                 corePods'[m][c][worker'.key] = NoPod
  <2>1. /\ worker.pc = "drop" /\ worker'.todo = worker.todo \ {n} /\ worker'.key = key
        /\ key \in Pods
    BY <1>4 DEF CleanupDrop, TypeOK, Worker, LocalsOK, key
  <2>2. corePods' = [corePods EXCEPT ![n] =
                        [c \in Cores |-> Only(corePods[n][c], Pods \ {key})]]
    BY <1>4 DEF CleanupDrop, RemovePodFromPool, DropPods
  <2>3. corePods \in [Nodes -> [Cores -> CoreMap]]
    BY DEF PoolInv, PoolTypeOK, CoreMap
  <2>4. ASSUME NEW c \in Cores PROVE corePods'[n][c][key] = NoPod
    BY <2>1, <2>2, <2>3 DEF Only
  <2>5. ASSUME NEW m \in Nodes \ worker.todo, NEW c \in Cores, m # n
        PROVE  corePods'[m][c][key] = NoPod
    BY <2>1, <2>2, <2>3, <2>5 DEF Holding
  <2> QED
    BY <2>1, <2>4, <2>5
<1> QED
  BY <1>1, <1>2, <1>3, <1>4

LEMMA HoldingStep ==
    ASSUME CRInv, PoolInv, Holding, [Next]_vars
    PROVE  Holding'
<1> USE DEF CRInv
\* Once the finalizer is off, nobody relies on the CR any more.
<1>1. ASSUME NEW q \in Pods, HeldCR(q)
      PROVE  \/ HeldCR(q)'
             \/ /\ \A n \in Nodes, c \in Cores : corePods'[n][c][q] = NoPod
                /\ crCache'[q].deleting
                /\ worker' = IdleWorker
  <2>1. ASSUME NEW x \in CR, Vanishes(q, x)
        PROVE  /\ \A n \in Nodes, c \in Cores : corePods'[n][c][q] = NoPod
               /\ crCache'[q].deleting
               /\ worker' = IdleWorker
    <3>1. /\ worker.pc = "drop" /\ worker.todo = {} /\ q = key
          /\ corePods' = corePods /\ crCache' = crCache
      BY <2>1 DEF Vanishes, RemoveFinalizer, poolVars, Work
    <3>2. \A n \in Nodes, c \in Cores : corePods[n][c][q] = NoPod
      BY <3>1 DEF Holding
    <3>3. /\ worker.rt.version <= crCache[q].version /\ crCache[q].version <= cr[q].version
          /\ cr[q].version = worker.rt.version
      BY <2>1, <3>1 DEF Vanishes, VersionsOK, HoldsCopy, Copies
    <3>4. crCache[q].version = cr[q].version
      BY <3>3 DEF TypeOK, CR
    <3>5. crCache[q].deleting
      BY <2>1, <3>4 DEF VersionsOK, Copies, Vanishes, LeavingCR
    <3> QED
      BY <2>1, <3>1, <3>2, <3>5 DEF Vanishes
  <2> QED
    BY <1>1, <2>1, HeldStep
<1>2. ASSUME NEW q \in Pods, Entry(q)' PROVE HeldCR(q)'
  <2>1. PICK n \in Nodes, c \in Cores : corePods'[n][c][q] # NoPod
    BY <1>2 DEF Entry
  <2>2. CASE corePods[n][c][q] # NoPod
    <3>1. HeldCR(q)
      BY <2>2 DEF Entry, Holding
    <3> QED
      BY <1>1, <2>1, <3>1
  <2>3. CASE MigrateOn /\ q = worker.victim
    <3>1. HeldCR(q)
      BY <2>3 DEF MigrateOn, Holding
    <3> QED
      BY <1>1, <2>1, <3>1
  <2>4. CASE Register /\ q = key
    <3>1. HeldCR(q)
      BY <2>4 DEF Register, Holding, Allocating, Charging
    <3> QED
      BY <1>1, <2>1, <3>1
  <2> QED
    BY <2>1, <2>2, <2>3, <2>4, EntriesStep
<1>3. ASSUME NEW q \in Pods, crCache'[q].finalizer, ~ crCache'[q].deleting
      PROVE  HeldCR(q)'
  <2>1. CASE crCache'[q] = crCache[q]
    <3>1. HeldCR(q)
      BY <1>3, <2>1 DEF Holding
    <3> QED
      BY <1>1, <1>3, <3>1
  <2>2. CASE cr' = cr /\ crCache'[q] = cr[q]
    BY <1>3, <2>2 DEF HeldCR, CRShape
  <2>3. crCache'[q] = crCache[q] \/ (cr' = cr /\ crCache'[q] = cr[q])
    BY CacheStep DEF SyncCR, Restart, TypeOK
  <2> QED
    BY <2>1, <2>2, <2>3
<1>4. ASSUME worker'.pc \in Allocating PROVE HeldCR(key)'
  <2>1. worker' # IdleWorker
    BY <1>4 DEF IdleWorker, Allocating, Charging, Preempting
  <2>2. ASSUME NEW q \in Pods, q = worker'.key, HeldCR(q) PROVE HeldCR(key)'
    <3>1. HeldCR(q)'
      BY <1>1, <2>1, <2>2
    <3> QED
      BY <2>2, <3>1 DEF HeldCR, key
  <2>3. CASE worker.pc \in Allocating /\ worker'.key = worker.key
    <3>1. key \in Pods /\ HeldCR(key)
      BY <2>3 DEF LocalsOK, Holding, Allocating, Charging, Preempting
    <3> QED
      BY <2>2, <2>3, <3>1 DEF key
  <2>4. CASE \E p \in Pods : /\ Begin(p) /\ worker'.key = p
                             /\ crCache[p].finalizer /\ ~ crCache[p].deleting
    BY <2>2, <2>4 DEF Holding
  <2> QED
    BY <1>4, <2>3, <2>4, AllocatingStep
<1>5. ASSUME NEW q \in Pods, worker'.victims[q] # NoPod PROVE HeldCR(q)'
  <2>1. worker' # IdleWorker
    BY <1>5 DEF IdleWorker, EmptyCore
  <2>2. worker.victims[q] # NoPod \/ Entry(q)
    BY <1>5, VictimsStep
  <2>3. HeldCR(q)
    BY <2>2 DEF Holding
  <2> QED
    BY <1>1, <2>1, <2>3
<1>6. ASSUME worker'.pc \in {"migrateOff", "migrateOn"} PROVE HeldCR(worker.victim)'
  <2>1. worker' # IdleWorker
    BY <1>6 DEF IdleWorker
  <2>2. ASSUME NEW q \in Pods, q = worker'.victim, HeldCR(q) PROVE HeldCR(worker.victim)'
    <3>1. HeldCR(q)'
      BY <1>1, <2>1, <2>2
    <3> QED
      BY <2>2, <3>1 DEF HeldCR
  <2>3. CASE worker.pc \in {"migrateOff", "migrateOn"} /\ worker'.victim = worker.victim
    <3>1. worker.victim \in Pods /\ HeldCR(worker.victim)
      BY <2>3 DEF LocalsOK, Holding
    <3> QED
      BY <2>2, <2>3, <3>1
  <2>4. CASE worker'.victim \in Pods /\ worker.victims[worker'.victim] # NoPod
    BY <2>2, <2>4 DEF Holding
  <2> QED
    BY <1>6, <2>3, <2>4, VictimsStep
<1>7. worker'.pc = "drop" => \A n \in Nodes \ worker'.todo, c \in Cores :
                                 corePods'[n][c][worker'.key] = NoPod
  BY CleanupStep
<1> QED
  BY <1>2, <1>3, <1>4, <1>5, <1>6, <1>7 DEF Holding, key, HeldCR

-----------------------------------------------------------------------------
(***************************************************************************)
(* The target of a migration.                                              *)
(***************************************************************************)

\* Only a migration and a registration add to a core.
LEMMA UsageStep ==
    ASSUME TypeOK, PoolInv, LocalsOK, [Next]_vars, ~ MigrateOn, ~ Register,
           NEW m \in Nodes, NEW d \in Cores
    PROVE  usage'[m][d] <= usage[m][d]
<1>0. LooseType /\ UnpooledEmpty /\ usage[m][d] \in Nat
  BY DEF PoolInv, PoolTypeOK, LooseType, CoreMap
<1>1. CASE UNCHANGED poolVars
  BY <1>0, <1>1 DEF poolVars
<1>2. ASSUME NEW n \in Nodes, NEW p, RemovePodFromPool(n, p)
      PROVE  usage'[m][d] <= usage[m][d]
  <2>1. usage' = [usage EXCEPT ![n] =
                     [c \in Cores |-> usage[n][c] - Committed(Only(corePods[n][c], {p}))]]
    BY <1>2 DEF RemovePodFromPool, DropPods
  <2>2. Committed(Only(corePods[n][d], {p})) \in Nat
    BY <1>0, OnlyType, UnitsFinite DEF LooseType
  <2>3. CASE m = n
    <3>1. usage'[m][d] = usage[m][d] - Committed(Only(corePods[n][d], {p}))
      BY <1>0, <2>1, <2>3 DEF LooseType
    <3> QED
      BY <1>0, <2>2, <3>1
  <2>4. CASE m # n
    BY <1>0, <2>1, <2>4 DEF LooseType
  <2> QED
    BY <2>3, <2>4
<1>3. ASSUME NEW n \in Nodes, GetOrCreateCPUPool(n)
      PROVE  usage'[m][d] <= usage[m][d]
  BY <1>0, <1>3, CreateStep
<1>4. ASSUME NEW n \in Nodes, NEW c, NEW p \in Pods, RemovePodFromCore(n, c, p)
      PROVE  usage'[m][d] <= usage[m][d]
  <2>1. CASE c \notin Cores
    BY <1>0, <1>4, <2>1 DEF RemovePodFromCore
  <2>2. CASE c \in Cores
    <3>1. usage' = [usage EXCEPT ![n][c] = usage[n][c] - corePods[n][c][p].CPUMillis]
      BY <1>4, <2>2 DEF RemovePodFromCore
    <3>2. corePods[n][c][p].CPUMillis \in Nat
      BY <1>0, <2>2, MillisType DEF LooseType
    <3>3. \/ usage'[m][d] = usage[m][d]
          \/ usage'[m][d] = usage[m][d] - corePods[n][c][p].CPUMillis
      BY <1>0, <2>2, <3>1 DEF LooseType
    <3> QED
      BY <1>0, <3>2, <3>3
  <2> QED
    BY <2>1, <2>2
<1>5. CASE HandlerStep
  BY <1>1, <1>2, <1>5
  DEF HandlerStep, HandleLiveEvent, HandleTerminatingEvent, HandlerDrop, HandlerEnqueue
<1>6. ASSUME NEW n \in Nodes, CleanupDrop(n) PROVE usage'[m][d] <= usage[m][d]
  BY <1>2, <1>6 DEF CleanupDrop
<1>7. CASE CheckRegistered \/ PrepareEntry
  BY <1>3, <1>7 DEF CheckRegistered, PrepareEntry, EnsurePool, LocalsOK, Allocating, Charging
<1>8. CASE MigrateOff \/ Unregister
  <2>1. onNode \in Nodes /\ key \in Pods
    BY <1>8 DEF MigrateOff, Unregister, LocalsOK, Allocating, Charging, Preempting
  <2>2. MigrateOff => worker.victim \in Pods
    BY DEF MigrateOff, LocalsOK
  <2> QED
    BY <1>4, <1>8, <2>1, <2>2 DEF MigrateOff, Unregister
<1>9. CASE Restart
  BY <1>0, <1>9 DEF Restart, ProcessRestart
<1>10. CASE UNCHANGED vars
  BY <1>1, <1>10 DEF vars
<1> QED
  BY <1>1, <1>5, <1>6, <1>7, <1>8, <1>9, <1>10, OutsideKeepsLedger, ReadingKeepsLedger
  DEF Next, Outside, WorkerStep, Reading

LEMMA MigratingStep ==
    ASSUME TypeOK, LocalsOK, [Next]_vars, worker'.pc \in {"migrateOff", "migrateOn"}
    PROVE  worker' = worker \/ MigrateOff \/ \E v \in Pods : PreemptPod(v)
<1>1. ASSUME NEW p \in Pods, Outside(p), ~ Begin(p) PROVE worker' = worker
  BY <1>1, OutsideKeepsLocals
<1>2. CASE HandlerStep
  BY <1>2 DEF HandlerStep, HandleLiveEvent, HandleTerminatingEvent, HandlerDrop,
              HandlerEnqueue
<1>3. ASSUME NEW p \in Pods, Begin(p) PROVE FALSE
  <2>1. worker'.pc = FirstStep(p)
    BY <1>3 DEF Begin, IdleWorker
  <2> QED
    BY <2>1 DEF FirstStep
<1>4. ASSUME worker' = IdleWorker PROVE FALSE
  BY <1>4 DEF IdleWorker
<1>5. ASSUME RemoveFinalizer \/ AddFinalizer \/ SetNode \/ Finish \/ RecoverDone \/ Restart
      PROVE  FALSE
  BY <1>4, <1>5 DEF RemoveFinalizer, AddFinalizer, SetNode, Finish, RecoverDone, Restart,
                    Requeue
<1>6. ASSUME Cleanup \/ RecoverBegin \/ RecoverEnd PROVE FALSE
  <2>1. worker'.pc \in {"drop", "recover"}
    BY <1>6 DEF Cleanup, RecoverBegin, RecoverEnd, TypeOK, Worker
  <2> QED
    BY <2>1
<1>7. ASSUME NEW n \in Nodes, CleanupDrop(n) PROVE FALSE
  BY <1>7 DEF CleanupDrop, TypeOK, Worker
<1>8. ASSUME NEW p \in Pods, RecoverPod(p) PROVE FALSE
  BY <1>8 DEF RecoverPod, TypeOK, Worker
<1>9. ASSUME Allocate PROVE FALSE
  BY <1>9 DEF Allocate, Goto, TypeOK, Worker
<1>10. ASSUME ReadBudget \/ CheckRegistered PROVE FALSE
  BY <1>10 DEF ReadBudget, CheckRegistered, Goto, TypeOK, Worker
<1>11. ASSUME CheckUtilization \/ NoVictimLeft \/ PreemptionDone PROVE FALSE
  <2>1. worker'.pc \in {"utilization", "select", "entry"}
    BY <1>11 DEF CheckUtilization, NoVictimLeft, PreemptionDone, TypeOK, Worker
  <2> QED
    BY <2>1
<1>12. ASSUME SelectVictims PROVE FALSE
  BY <1>12 DEF SelectVictims, TypeOK, Worker
<1>13. ASSUME MigrateOn PROVE FALSE
  BY <1>13 DEF MigrateOn, Goto, TypeOK, Worker
<1>14. ASSUME MigrateStatus \/ Evict PROVE FALSE
  BY <1>14 DEF MigrateStatus, Evict, NextVictim, TypeOK, Worker
<1>15. ASSUME PrepareEntry \/ CompareEntry \/ Unregister PROVE FALSE
  BY <1>15 DEF PrepareEntry, CompareEntry, Unregister, Goto, TypeOK, Worker
<1>16. ASSUME Register PROVE FALSE
  <2>1. worker'.pc \in {"unregister", "tail"}
    BY <1>16 DEF Register, TypeOK, Worker
  <2> QED
    BY <2>1
<1>17. CASE UNCHANGED vars
  BY <1>17 DEF vars
<1> QED
  BY <1>1, <1>2, <1>3, <1>5, <1>6, <1>7, <1>8, <1>9, <1>10, <1>11, <1>12, <1>13, <1>14,
     <1>15, <1>16, <1>17
  DEF Next, Outside, WorkerStep

LEMMA TargetStep ==
    ASSUME TypeOK, TypeOK', PoolInv, LocalsOK, LocalsOK', TargetFits, [Next]_vars
    PROVE  TargetFits'
<1> SUFFICES ASSUME worker'.pc \in {"migrateOff", "migrateOn"}
             PROVE  usage'[worker'.po.node][worker'.target] + worker'.info.CPUMillis
                        <= UtilizationThreshold
  BY DEF TargetFits, onNode
<1>0. /\ worker'.po.node \in Nodes /\ worker'.target \in Cores /\ worker'.info.CPUMillis \in Nat
  BY DEF LocalsOK, Allocating, Charging, Preempting, onNode, PodInfo
<1> DEFINE n == worker'.po.node
           c == worker'.target
           m == worker'.info.CPUMillis
<1>1. ASSUME usage[n][c] + m <= UtilizationThreshold, ~ MigrateOn, ~ Register
      PROVE  usage'[n][c] + m <= UtilizationThreshold
  <2>1. usage'[n][c] <= usage[n][c]
    BY <1>0, <1>1, UsageStep
  <2>2. usage[n][c] \in Nat /\ usage'[n][c] \in Nat
    BY <1>0 DEF TypeOK, PoolTypeOK
  <2> HIDE DEF n, c
  <2> QED
    BY <1>0, <1>1, <2>1, <2>2, PlacementAssumption DEF m
<1>2. CASE worker' = worker \/ MigrateOff
  <2>1. /\ worker.pc \in {"migrateOff", "migrateOn"}
        /\ worker'.po = worker.po /\ worker'.target = worker.target /\ worker'.info = worker.info
    BY <1>2 DEF MigrateOff, Goto, TypeOK, Worker
  <2>2. ~ MigrateOn /\ ~ Register
    <3>1. ASSUME worker.pc = "migrateOn", worker' # worker PROVE FALSE
      BY <1>2, <3>1 DEF MigrateOff
    <3>2. ASSUME MigrateOn, worker' = worker PROVE FALSE
      BY <3>2 DEF MigrateOn, Goto, TypeOK, Worker
    <3> QED
      BY <2>1, <3>1, <3>2 DEF MigrateOn, Register
  <2> QED
    BY <1>1, <2>1, <2>2 DEF TargetFits, onNode
<1>3. ASSUME NEW v \in Pods, PreemptPod(v)
      PROVE  usage'[n][c] + m <= UtilizationThreshold
  <2> DEFINE info == worker.victims[v]
             rest == [worker EXCEPT !.victims[v] = NoPod]
             fits == MigrationTargets(onNode, currentCore, info.CPUMillis)
  <2>1. worker.pc = "preempt"
    BY <1>3 DEF PreemptPod
  <2>2. \/ worker' = [rest EXCEPT !.skipped = @ \cup {v}]
        \/ worker' = [rest EXCEPT !.pc = "evict", !.victim = v]
        \/ \E d \in fits : worker' = [rest EXCEPT !.pc = "migrateOff", !.victim = v,
                                                  !.info = info, !.target = d]
    BY <1>3 DEF PreemptPod
  <2>3. rest.pc = "preempt" /\ rest.po = worker.po /\ rest \in Worker
    BY <2>1 DEF TypeOK, Worker
  <2> HIDE DEF info, rest, fits
  <2>4. worker'.po = worker.po /\ worker'.info = info /\ worker'.target \in fits
    BY <2>2, <2>3 DEF Worker
  <2>5. usage[onNode][worker'.target] + info.CPUMillis <= UtilizationThreshold
    BY <2>4 DEF fits, MigrationTargets
  <2>6. ~ MigrateOn /\ ~ Register
    BY <2>1 DEF MigrateOn, Register
  <2> QED
    BY <1>1, <2>4, <2>5, <2>6 DEF onNode
<1> QED
  BY <1>2, <1>3, MigratingStep

-----------------------------------------------------------------------------
(***************************************************************************)
(* The inductive invariant.                                                *)
(***************************************************************************)
\* The record that a CR starts with.
NewRecord(b) == [NoCR EXCEPT !.exists = b]

LEMMA NewRecordFacts ==
    ASSUME NEW b \in {TRUE, FALSE}
    PROVE  /\ NewRecord(b) \in CR
           /\ NewRecord(b).deleting = FALSE /\ NewRecord(b).finalizer = FALSE
           /\ NewRecord(b).version = 0
<1>1. NoCR \in CR
  BY IdleTypes
<1>2. CASE b = TRUE
  <2>1. NewRecord(TRUE) \in CR
    BY <1>1 DEF NewRecord, CR
  <2>2. /\ NewRecord(TRUE).deleting = FALSE /\ NewRecord(TRUE).finalizer = FALSE
        /\ NewRecord(TRUE).version = 0
    BY DEF NewRecord, NoCR
  <2> QED
    BY <1>2, <2>1, <2>2
<1>3. CASE b = FALSE
  <2>1. NewRecord(FALSE) \in CR
    BY <1>1 DEF NewRecord, CR
  <2>2. /\ NewRecord(FALSE).deleting = FALSE /\ NewRecord(FALSE).finalizer = FALSE
        /\ NewRecord(FALSE).version = 0
    BY DEF NewRecord, NoCR
  <2> QED
    BY <1>3, <2>1, <2>2
<1> QED
  BY <1>2, <1>3

LEMMA InvInit == Init => ReconcilerInv
<1> SUFFICES ASSUME Init PROVE ReconcilerInv
  OBVIOUS
<1>1. PoolInv
  BY EmptyLedger DEF Init
<1>2. PICK s \in Scenarios, n \in Nodes :
         /\ pod = [p \in Pods |->
               IF p \in s.present
                 THEN [phase |-> "Active", node |-> n, deleting |-> FALSE]
                 ELSE AbsentPod]
         /\ podEvents = [p \in Pods |-> IF p \in s.present THEN <<FALSE>> ELSE <<>>]
         /\ limit = s.limit
  BY DEF Init
<1>3. TypeOK
  <2>1. cr \in [Pods -> CR]
    <3>1. \A p \in Pods : cr[p] = NewRecord(p \in Installed)
      BY DEF Init, NewRecord
    <3>2. \A p \in Pods : cr[p] \in CR
      <4> TAKE p \in Pods
      <4>1. (p \in Installed) = TRUE \/ (p \in Installed) = FALSE
        OBVIOUS
      <4> QED
        BY <3>1, <4>1, NewRecordFacts
    <3>3. cr = [p \in Pods |-> cr[p]]
      BY DEF Init
    <3> QED
      BY <3>2, <3>3
  <2>2. pod \in [Pods -> PodState]
    BY <1>2, IdleTypes DEF PodState
  <2>3. podEvents \in [Pods -> Seq(BOOLEAN)]
    <3>1. <<FALSE>> \in Seq(BOOLEAN) /\ <<>> \in Seq(BOOLEAN)
      BY EventUpdates
    <3> QED
      BY <1>2, <3>1
  <2>4. limit \in [Kinds -> Nat] /\ used \in [Kinds -> Nat]
    BY <1>2, ReconcilerAssumption DEF Init
  <2>5. PoolTypeOK
    BY <1>1 DEF PoolInv
  <2> QED
    BY <2>1, <2>2, <2>3, <2>4, <2>5, IdleTypes, ReconcilerAssumption DEF Init, TypeOK
<1>4. LocalsOK
  BY DEF Init, LocalsOK, IdleWorker, IdleHandler, Allocating, Charging, Preempting
<1>5. /\ \A p \in Pods : ~ cr[p].deleting /\ ~ cr[p].finalizer
      /\ crCache = cr /\ \A p \in Pods : cr[p].version <= cr[p].version
  <2>1. \A p \in Pods : cr[p] = NewRecord(p \in Installed)
    BY DEF Init, NewRecord
  <2>2. ASSUME NEW p \in Pods
        PROVE  /\ cr[p].deleting = FALSE /\ cr[p].finalizer = FALSE
               /\ cr[p].version = 0
    <3>1. (p \in Installed) = TRUE \/ (p \in Installed) = FALSE
      OBVIOUS
    <3> QED
      BY <2>1, <3>1, NewRecordFacts
  <2>3. \A p \in Pods : cr[p].version <= cr[p].version
    <3>1. 0 <= 0
      OBVIOUS
    <3>2. \A p \in Pods : cr[p].version = 0
      BY <2>2
    <3> QED
      BY <3>1, <3>2
  <2>4. crCache = cr
    BY DEF Init
  <2> QED
    BY <2>2, <2>3, <2>4
<1>6. CRShape
  BY <1>5 DEF CRShape
<1>7. \A p \in Pods : ~ escalating[p].exists
  BY DEF Init, NoCR
<1>8. worker.pc = "idle" /\ worker.victims = EmptyCore
  BY DEF Init, IdleWorker
<1>9. VersionsOK
  BY <1>5, <1>7, <1>8 DEF VersionsOK, Copies, HoldsCopy
<1>10. Decision /\ TargetFits
  BY <1>8 DEF Decision, TargetFits, HoldsCopy
<1>11. \A p \in Pods : ~ Entry(p)
  BY DEF Init, PoolInit, Entry, EmptyCore
<1>12. Holding
  BY <1>5, <1>8, <1>11 DEF Holding, EmptyCore, Allocating, Charging, Preempting
<1> QED
  BY <1>1, <1>3, <1>4, <1>6, <1>9, <1>10, <1>12 DEF ReconcilerInv

LEMMA InvStep == ReconcilerInv /\ [Next]_vars => ReconcilerInv'
<1> SUFFICES ASSUME ReconcilerInv, [Next]_vars PROVE ReconcilerInv'
  OBVIOUS
<1> USE DEF ReconcilerInv
<1>1. PoolInv'
  BY LedgerStep, PoolInvStep
<1>2. TypeOK'
  BY <1>1, TypeStep DEF PoolInv
<1>3. LocalsOK'
  BY LocalsStep
<1>4. CRShape' /\ VersionsOK' /\ Decision'
  BY <1>2, ShapeStep, VersionsStep, DecisionStep
<1>5. Holding'
  BY HoldingStep DEF CRInv
<1>6. TargetFits'
  BY <1>2, <1>3, TargetStep
<1> QED
  BY <1>1, <1>2, <1>3, <1>4, <1>5, <1>6

LEMMA ReconcilerInvariant == Spec => []ReconcilerInv
BY InvInit, InvStep, PTL DEF Spec

\* The controller's state stays well typed, whatever the interleaving of the
\* worker, the pod-event goroutine, the overrun handlers, the informers and
\* the users, through failures and restarts.
THEOREM ReconcilerTypeCorrect == Spec => []TypeOK
<1>1. ReconcilerInv => TypeOK
  BY DEF ReconcilerInv
<1> QED
  BY <1>1, ReconcilerInvariant, PTL

\* The controller is a client of the ledger as CPUPool specifies it: every
\* call it makes has arguments the ledger is specified for, and what is
\* proved about the ledger holds of it in the controller.
THEOREM ReconcilerUsesLedger == Spec => PoolSpec
<1>1. Init => PoolInit
  BY DEF Init
<1>2. ReconcilerInv /\ [Next]_vars => [PoolNext]_poolVars
  BY LedgerStep DEF ReconcilerInv
<1> QED
  BY <1>1, <1>2, ReconcilerInvariant, PTL DEF Spec, PoolSpec

\* No interleaving of Reconciles, cleanups, migrations and restarts lets
\* UsageMillis fall below the budgets registered on a core.
THEOREM ReconcilerUsageCovers == Spec => []UsageCovers
BY ReconcilerUsesLedger, UsageAlwaysCovers, PTL

\* Usage that a removal or an overwritten entry has left behind on a core is
\* never given back by any of them, short of a restart.
THEOREM ReconcilerDriftStays == Spec => DriftIsPermanent
BY ReconcilerUsesLedger, DriftNeverGivenBack, PTL

\* A migration never pushes its target core beyond the threshold: between
\* the choice of the target and the registration there, nobody but the
\* worker itself adds budget to a core.
THEOREM MigrationsFit == Spec => MigrationWithinThreshold
<1> DEFINE A == worker.pc = "migrateOn" /\ worker'.pc = "migrateStatus" =>
                    usage'[onNode][worker.target] <= UtilizationThreshold
<1>1. ReconcilerInv /\ [Next]_vars => [A]_vars
  <2> SUFFICES ASSUME ReconcilerInv, [Next]_vars, worker.pc = "migrateOn",
                      worker'.pc = "migrateStatus"
               PROVE  usage'[onNode][worker.target] <= UtilizationThreshold
    OBVIOUS
  <2>1. /\ onNode \in Nodes /\ worker.target \in Cores /\ worker.info \in PodInfo
        /\ usage \in [Nodes -> [Cores -> Nat]]
        /\ usage[onNode][worker.target] + worker.info.CPUMillis <= UtilizationThreshold
    BY DEF ReconcilerInv, LocalsOK, Allocating, Charging, Preempting, TargetFits, TypeOK,
           PoolTypeOK
  <2>2. CASE MigrateOn
    <3>1. usage' = [usage EXCEPT ![onNode][worker.target] = @ + worker.info.CPUMillis]
      BY <2>1, <2>2 DEF MigrateOn, AddPodToCore
    <3> QED
      BY <2>1, <3>1
  <2>3. CASE ~ MigrateOn
    <3>1. ~ Register
      BY DEF Register
    <3>2. usage'[onNode][worker.target] <= usage[onNode][worker.target]
      BY <2>1, <2>3, <3>1, UsageStep DEF ReconcilerInv
    <3>3. usage'[onNode][worker.target] \in Nat
      BY <2>1, InvStep DEF ReconcilerInv, TypeOK, PoolTypeOK
    <3>4. worker.info.CPUMillis \in Nat /\ usage[onNode][worker.target] \in Nat
      BY <2>1 DEF PodInfo
    <3> QED
      BY <2>1, <3>2, <3>3, <3>4, PlacementAssumption
  <2> QED
    BY <2>2, <2>3
<1> HIDE DEF A
<1>2. Spec => [][A]_vars
  BY <1>1, ReconcilerInvariant, PTL DEF Spec
<1> QED
  BY <1>2 DEF A, MigrationWithinThreshold

-----------------------------------------------------------------------------
(***************************************************************************)
(* The controller implements Ownership.                                    *)
(***************************************************************************)
LEMMA StageOfCR ==
    ASSUME NEW p \in Pods
    PROVE  /\ AbsentCR(cr[p]) => Stage(p) = "absent"
           /\ NewCR(cr[p]) => Stage(p) = "new"
           /\ GuardedCR(cr[p]) => Stage(p) = "guarded"
           /\ LeavingCR(cr[p]) => Stage(p) = "leaving"
BY DEF Stage, AbsentCR, NewCR, GuardedCR, LeavingCR

\* One step of the controller on the life of the CRs, the ledger left alone.
LEMMA LifeRefines ==
    ASSUME ReconcilerInv, ReconcilerInv', [Next]_vars, cr' # cr
    PROVE  [Own!OwnNext]_(Own!ownVars)
<1> USE DEF ReconcilerInv
<1>1. UNCHANGED poolVars
  <2>1. ASSUME NEW p \in Pods, CreateCR(p) \/ DeleteCR(p) \/ OverrunEnd(p)
        PROVE  UNCHANGED poolVars
    BY <2>1, OutsideKeepsLedger DEF Outside, Environment
  <2>2. CASE RemoveFinalizer \/ AddFinalizer \/ SetNode \/ Allocate \/ MigrateStatus \/ RecoverEnd
    BY <2>2, ReadingKeepsLedger DEF Reading
  <2> QED
    BY <2>1, <2>2, OthersKeepCR
<1>2. {q \in Pods : Entry(q)}' = {q \in Pods : Entry(q)}
  BY <1>1 DEF Entry, poolVars
<1>3. PICK p \in Pods, x \in CR : Rewrite(p, x) /\ (LifeGoesOn(cr[p], x) \/ Vanishes(p, x))
  BY CRStep
<1>4. cr'[p] = x /\ \A q \in Pods \ {p} : cr'[q] = cr[q]
  BY <1>3 DEF Rewrite, TypeOK
<1>5. \A q \in Pods \ {p} : Stage(q)' = Stage(q)
  BY <1>4 DEF Stage
<1>6. CASE SameLife(cr[p], x)
  <2>1. Stage(p)' = Stage(p)
    BY <1>4, <1>6 DEF Stage, SameLife
  <2>2. [q \in Pods |-> Stage(q)]' = [q \in Pods |-> Stage(q)]
    BY <1>5, <2>1
  <2> QED
    BY <1>2, <2>2 DEF Own!ownVars
<1>7. ASSUME NEW to, Stage(p)' = to
      PROVE  [q \in Pods |-> Stage(q)]' = [[q \in Pods |-> Stage(q)] EXCEPT ![p] = to]
  BY <1>5, <1>7
<1>8. /\ AbsentCR(x) => Stage(p)' = "absent"
      /\ NewCR(x) => Stage(p)' = "new"
      /\ GuardedCR(x) => Stage(p)' = "guarded"
      /\ LeavingCR(x) => Stage(p)' = "leaving"
  BY <1>4 DEF Stage, AbsentCR, NewCR, GuardedCR, LeavingCR
<1>9. CASE AbsentCR(cr[p]) /\ NewCR(x)
  <2>1. Own!Create(p)
    BY <1>2, <1>7, <1>8, <1>9, StageOfCR DEF Own!Create, Own!Move
  <2> QED
    BY <2>1 DEF Own!OwnNext
<1>10. CASE NewCR(cr[p]) /\ AbsentCR(x)
  <2>1. Own!Discard(p)
    BY <1>2, <1>7, <1>8, <1>10, StageOfCR DEF Own!Discard, Own!Move
  <2> QED
    BY <2>1 DEF Own!OwnNext
<1>11. CASE NewCR(cr[p]) /\ GuardedCR(x)
  <2>1. Own!Guard(p)
    BY <1>2, <1>7, <1>8, <1>11, StageOfCR DEF Own!Guard, Own!Move
  <2> QED
    BY <2>1 DEF Own!OwnNext
<1>12. CASE GuardedCR(cr[p]) /\ LeavingCR(x)
  <2>1. Own!Mark(p)
    BY <1>2, <1>7, <1>8, <1>12, StageOfCR DEF Own!Mark, Own!Move
  <2> QED
    BY <2>1 DEF Own!OwnNext
<1>13. CASE Vanishes(p, x)
  <2>1. ~ Entry(p)
    BY <1>13 DEF Vanishes, RemoveFinalizer, Holding, Entry
  <2>2. LeavingCR(cr[p]) /\ AbsentCR(x)
    BY <1>13 DEF Vanishes
  <2>3. Own!Vanish(p)
    BY <1>2, <1>7, <1>8, <2>1, <2>2, StageOfCR DEF Own!Vanish, Own!Move
  <2> QED
    BY <2>3 DEF Own!OwnNext
<1> QED
  BY <1>3, <1>6, <1>9, <1>10, <1>11, <1>12, <1>13 DEF LifeGoesOn

\* What one operation on the ledger does to the pods that hold budget.
LEMMA ChargedStep ==
    ASSUME TypeOK, PoolInv, LocalsOK, [Next]_vars
    PROVE  \/ \A q \in Pods : Entry(q)' <=> Entry(q)
           \/ \E p \in Pods : \A q \in Pods \ {p} : Entry(q)' <=> Entry(q)
           \/ \A q \in Pods : ~ Entry(q)'
<1> DEFINE Alone(p) == \A q \in Pods \ {p} : Entry(q)' <=> Entry(q)
<1>0. LooseType /\ UnpooledEmpty
  BY DEF PoolInv, PoolTypeOK, LooseType, CoreMap
<1>1. ASSUME corePods' = corePods PROVE \A q \in Pods : Entry(q)' <=> Entry(q)
  BY <1>1 DEF Entry
<1>2. ASSUME NEW p \in Pods,
             \A m \in Nodes, d \in Cores, q \in Pods \ {p} :
                 corePods'[m][d][q] = corePods[m][d][q]
      PROVE  Alone(p)
  BY <1>2 DEF Entry
<1>3. ASSUME NEW n \in Nodes, NEW p \in Pods, RemovePodFromPool(n, p) PROVE Alone(p)
  <2>1. \A m \in Nodes, d \in Cores, q \in Pods \ {p} :
            corePods'[m][d][q] = corePods[m][d][q]
    BY <1>0, <1>3 DEF RemovePodFromPool, DropPods, Only, LooseType
  <2> QED
    BY <1>2, <2>1
<1>4. ASSUME NEW n \in Nodes, NEW c, NEW p \in Pods, RemovePodFromCore(n, c, p) PROVE Alone(p)
  <2>1. \/ corePods' = corePods
        \/ c \in Cores /\ corePods' = [corePods EXCEPT ![n][c][p] = NoPod]
    BY <1>4 DEF RemovePodFromCore
  <2>2. ASSUME NEW m \in Nodes, NEW d \in Cores, NEW q \in Pods \ {p}
        PROVE  corePods'[m][d][q] = corePods[m][d][q]
    <3>1. CASE corePods' = corePods
      BY <3>1
    <3>2. CASE c \in Cores /\ corePods' = [corePods EXCEPT ![n][c][p] = NoPod]
      BY <1>0, <3>2 DEF LooseType, CoreMap
    <3> QED
      BY <2>1, <3>1, <3>2
  <2> QED
    BY <1>2, <2>2
<1>5. ASSUME NEW n \in Nodes, NEW c, NEW p \in Pods, NEW info, AddPodToCore(n, c, p, info)
      PROVE  Alone(p)
  <2>1. \/ corePods' = corePods
        \/ c \in Cores /\ corePods' = [corePods EXCEPT ![n][c][p] = info]
    BY <1>5 DEF AddPodToCore
  <2>2. ASSUME NEW m \in Nodes, NEW d \in Cores, NEW q \in Pods \ {p}
        PROVE  corePods'[m][d][q] = corePods[m][d][q]
    <3>1. CASE corePods' = corePods
      BY <3>1
    <3>2. CASE c \in Cores /\ corePods' = [corePods EXCEPT ![n][c][p] = info]
      BY <1>0, <3>2 DEF LooseType, CoreMap
    <3> QED
      BY <2>1, <3>1, <3>2
  <2> QED
    BY <1>2, <2>2
<1>6. ASSUME NEW n \in Nodes, GetOrCreateCPUPool(n) PROVE corePods' = corePods
  BY <1>0, <1>6, CreateStep
<1>7. ASSUME UNCHANGED poolVars PROVE corePods' = corePods
  BY <1>7 DEF poolVars
<1>8. ASSUME ProcessRestart PROVE \A q \in Pods : ~ Entry(q)'
  BY <1>8 DEF ProcessRestart, Entry, EmptyCore
<1> HIDE DEF Alone
<1>9. CASE HandlerStep
  <2>1. ASSUME NEW n \in Nodes, HandlerDrop(n) PROVE \E p \in Pods : Alone(p)
    BY <1>3, <2>1 DEF HandlerDrop, LocalsOK
  <2>2. CASE UNCHANGED poolVars
    BY <1>1, <1>7, <2>2
  <2> QED
    BY <1>9, <2>1, <2>2
    DEF HandlerStep, HandleLiveEvent, HandleTerminatingEvent, HandlerEnqueue, Alone
<1>10. ASSUME NEW n \in Nodes, CleanupDrop(n) PROVE \E p \in Pods : Alone(p)
  BY <1>3, <1>10 DEF CleanupDrop, LocalsOK
<1>11. CASE CheckRegistered \/ PrepareEntry
  <2>1. onNode \in Nodes
    BY <1>11 DEF CheckRegistered, PrepareEntry, LocalsOK, Allocating, Charging
  <2> QED
    BY <1>1, <1>6, <1>11, <2>1 DEF CheckRegistered, PrepareEntry, EnsurePool
<1>12. ASSUME MigrateOff \/ MigrateOn PROVE \E p \in Pods : Alone(p)
  <2>1. onNode \in Nodes /\ worker.victim \in Pods
    BY <1>12 DEF MigrateOff, MigrateOn, LocalsOK, Allocating, Charging, Preempting
  <2> QED
    BY <1>4, <1>5, <1>12, <2>1 DEF MigrateOff, MigrateOn
<1>13. ASSUME Unregister \/ Register PROVE \E p \in Pods : Alone(p)
  <2>1. onNode \in Nodes /\ key \in Pods
    BY <1>13 DEF Unregister, Register, LocalsOK, Allocating, Charging
  <2> QED
    BY <1>4, <1>5, <1>13, <2>1 DEF Unregister, Register
<1>14. CASE Restart
  BY <1>8, <1>14 DEF Restart
<1>15. CASE UNCHANGED poolVars
  BY <1>1, <1>7, <1>15
<1>16. (\E p \in Pods : Alone(p)) =>
           \E p \in Pods : \A q \in Pods \ {p} : Entry(q)' <=> Entry(q)
  BY DEF Alone
<1> QED
  BY <1>9, <1>10, <1>11, <1>12, <1>13, <1>14, <1>15, <1>16, OutsideKeepsLedger,
     ReadingKeepsLedger
  DEF Next, Outside, WorkerStep, Reading, vars

\* One step of the controller on the ledger, the CRs left alone.
LEMMA ChargeRefines ==
    ASSUME ReconcilerInv, ReconcilerInv', [Next]_vars, cr' = cr
    PROVE  [Own!OwnNext]_(Own!ownVars)
<1> DEFINE C == {q \in Pods : Entry(q)}
<1>1. [q \in Pods |-> Stage(q)]' = [q \in Pods |-> Stage(q)]
  BY DEF Stage
<1>2. CASE \A q \in Pods : Entry(q)' <=> Entry(q)
  <2>1. C' = C
    BY <1>2
  <2> QED
    BY <1>1, <2>1 DEF Own!ownVars
<1>3. CASE \A q \in Pods : ~ Entry(q)'
  <2>1. C' = {}
    BY <1>3
  <2>2. Own!Forget
    BY <1>1, <2>1 DEF Own!Forget
  <2> QED
    BY <2>2 DEF Own!OwnNext
<1>4. ASSUME NEW p \in Pods, \A q \in Pods \ {p} : Entry(q)' <=> Entry(q)
      PROVE  [Own!OwnNext]_(Own!ownVars)
  <2>1. CASE Entry(p)'
    <3>1. C' = C \cup {p}
      BY <1>4, <2>1
    <3>2. HeldCR(p)'
      BY <2>1 DEF ReconcilerInv, Holding
    <3>3. GuardedCR(cr[p]) \/ LeavingCR(cr[p])
      BY <3>2 DEF HeldCR, GuardedCR, LeavingCR
    <3>4. Stage(p) \in {"guarded", "leaving"}
      BY <3>3, StageOfCR
    <3>5. Own!Charge(p)
      BY <1>1, <3>1, <3>4 DEF Own!Charge, Own!Held
    <3> QED
      BY <3>5 DEF Own!OwnNext
  <2>2. CASE ~ Entry(p)'
    <3>1. C' = C \ {p}
      BY <1>4, <2>2
    <3>2. Own!Release(p)
      BY <1>1, <3>1 DEF Own!Release
    <3> QED
      BY <3>2 DEF Own!OwnNext
  <2> QED
    BY <2>1, <2>2
<1> QED
  BY <1>2, <1>3, <1>4, ChargedStep DEF ReconcilerInv

\* The controller implements Ownership: budget is registered only in the name
\* of a CR that holds the finalizer, and the finalizer goes only once the
\* budget is given back, whatever the caches lag behind and whoever is in
\* flight.
THEOREM ReconcilerImplementsOwnership == Spec => ImplementsOwnership
<1>1. Init => Own!OwnInit
  <2> SUFFICES ASSUME Init PROVE Own!OwnInit
    OBVIOUS
  <2>1. \A p \in Pods : ~ Entry(p)
    BY DEF Init, PoolInit, Entry, EmptyCore
  <2>2. ASSUME NEW p \in Pods PROVE Stage(p) \in {"absent", "new"}
    <3>1. cr[p] = [NoCR EXCEPT !.exists = p \in Installed]
      BY DEF Init
    <3>2. AbsentCR(cr[p]) \/ NewCR(cr[p])
      BY <3>1 DEF NoCR, AbsentCR, NewCR
    <3> QED
      BY <3>2, StageOfCR
  <2> QED
    BY <2>1, <2>2 DEF Own!OwnInit
<1>2. ReconcilerInv /\ ReconcilerInv' /\ [Next]_vars => [Own!OwnNext]_(Own!ownVars)
  BY LifeRefines, ChargeRefines
<1> QED
  BY <1>1, <1>2, ReconcilerInvariant, PTL DEF Spec, ImplementsOwnership, Own!OwnSpec

\* Budget held in the name of a CR that is gone or may go at any time.
OrphanedEntry(p) == Entry(p) /\ ~ HeldCR(p)

\* No entry of the ledger is ever orphaned: the CR it belongs to exists and
\* carries the finalizer, although the worker registers budget from a copy of
\* the CR that the API server may have replaced long ago.
THEOREM NoOrphanedEntry == Spec => [](\A p \in Pods : ~ OrphanedEntry(p))
<1>1. ReconcilerInv => \A p \in Pods : ~ OrphanedEntry(p)
  BY DEF ReconcilerInv, Holding, OrphanedEntry
<1> QED
  BY <1>1, ReconcilerInvariant, PTL
-----------------------------------------------------------------------------
(***************************************************************************)
(* Room is made before it is taken.  A victim that was told to go stays on *)
(* its way out until its entry is gone: the pod is terminating, the cache  *)
(* still shows it so, its termination is among the events, or the handler  *)
(* has yet to reach the pool.                                              *)
(***************************************************************************)
Doomed(v) ==
    \/ pod[v].deleting
    \/ podCache[v].deleting
    \/ \E i \in DOMAIN podEvents[v] : podEvents[v][i]
    \/ handler.pc = "drop" /\ handler.pod = v /\ onNode \in handler.todo

\* The ledger of a core of the node that room is made on.
Entries(c) == CorePods(onNode, c)
Load(c) == GetCoreUtilization(onNode, c)

Out(c) == {v \in Pods : \/ Doomed(v) \/ v \in worker.skipped \/ v \notin Labelled
                        \/ Entries(c)[v] = NoPod}

\* A pod of criticality crit and the given budget fits on a core with entries
\* f and usage u once the pods of X are gone, or nobody else gives way to it.
RoomIn(f, u, millis, crit, X) ==
    \/ u + millis - Budget(f, X) <= UtilizationThreshold
    \/ \A v \in Pods : f[v] # NoPod
                       /\ CriticalityRank(f[v].Criticality) < CriticalityRank(crit) => v \in X

HasRoom(c, X) == RoomIn(Entries(c), Load(c), worker.millis, Criticality[key], X)

InTurn == {"select", "preempt", "migrateOff", "migrateOn", "migrateStatus", "evict"}
MakingRoom == InTurn \cup {"utilization", "entry"}

\* Room is being made on the core; or it was checked already.
InHand(c) == worker.pc \in InTurn /\ c = currentCore
Checked(c) == \E k \in DOMAIN targetCores :
                  targetCores[k] = c /\ (worker.pc = "entry" \/ k < worker.i)

\* The victims still in hand make up for the room that is not there yet.
InHandRoom(c) ==
    /\ worker.pc = "select" => Load(c) + worker.millis - UtilizationThreshold <= worker.needed
    /\ worker.pc \in {"preempt", "migrateOn", "migrateStatus"} => HasRoom(c, Out(c) \cup Waiting)
    /\ worker.pc \in {"evict", "migrateOff"} =>
           HasRoom(c, Out(c) \cup Waiting \cup {worker.victim})
    /\ worker.pc = "evict" =>
           podCache[worker.victim].phase # "None" \/ worker.victim \in Out(c)
    /\ worker.pc \in {"migrateOff", "migrateOn"} => worker.target # c

\* The room on a core that was checked is taken by a migrated victim only.
SettledRoom(c) == c \in worker.refilled \/ HasRoom(c, Out(c))

RoomSteps(c) ==
    /\ InHand(c) => InHandRoom(c)
    /\ worker.pc \in MakingRoom /\ ~ InHand(c) /\ Checked(c) => SettledRoom(c)

\* A pod disappears only after the cache has shown it terminating, and only
\* then does another one take its name.
CacheShape ==
    \A v \in Pods :
        /\ pod[v].phase = "None" => podCache[v].phase = "None" \/ podCache[v].deleting
        /\ podCache[v].deleting => pod[v].phase = "None" \/ pod[v].deleting

\* The cores are checked from the first one on.
FreshIndex == worker.pc \in {"allocate", "budget", "check"} => worker.i = 1

NoFailure == used["failure"] = 0

RoomInv == CacheShape /\ FreshIndex /\ (NoFailure => \A c \in CoreIDs : RoomSteps(c))

\* Room counts the more pods as gone, the easier it is found.
LEMMA RoomGrows ==
    ASSUME NEW f \in CoreMap, NEW u \in Int, NEW millis \in Nat, NEW crit, NEW X, NEW Y,
           \A v \in Pods : v \in X => v \in Y, RoomIn(f, u, millis, crit, X)
    PROVE  RoomIn(f, u, millis, crit, Y)
<1>1. Budget(f, X) \in Nat /\ Budget(f, Y) \in Nat /\ Budget(f, X) <= Budget(f, Y)
  BY BudgetFacts, BudgetGrows
<1>2. CASE u + millis - Budget(f, X) <= UtilizationThreshold
  BY <1>1, <1>2, PlacementAssumption DEF RoomIn
<1>3. CASE \A v \in Pods : f[v] # NoPod
                           /\ CriticalityRank(f[v].Criticality) < CriticalityRank(crit) => v \in X
  BY <1>3 DEF RoomIn
<1> QED
  BY <1>2, <1>3 DEF RoomIn

\* Room is kept when pods of X leave the core and the set grows.
LEMMA RoomKept ==
    ASSUME NEW f \in CoreMap, NEW u \in Int, NEW millis \in Nat, NEW crit,
           NEW G, NEW X, NEW Y, \A v \in Pods : (v \in G => v \in X) /\ (v \in X => v \in Y),
           RoomIn(f, u, millis, crit, X)
    PROVE  RoomIn(Only(f, Pods \ G), u - Budget(f, G), millis, crit, Y)
<1> DEFINE g == Only(f, X)
           h == Only(f, Pods \ G)
<1>1. g \in CoreMap /\ h \in CoreMap
  BY OnlyType
<1>2. CASE u + millis - Budget(f, X) <= UtilizationThreshold
  <2>1. Only(g, G) = Only(f, G) /\ Only(g, Pods \ G) = Only(h, X)
    BY DEF Only
  <2> HIDE DEF g, h
  <2>2. Committed(g) = Committed(Only(g, G)) + Committed(Only(g, Pods \ G))
    BY <1>1, CommittedSplit
  <2>3. Budget(f, X) = Budget(f, G) + Budget(h, X)
    BY <2>1, <2>2 DEF Budget, g
  <2>4. Budget(h, X) <= Budget(h, Y)
    BY <1>1, BudgetGrows
  <2>5. Budget(f, X) \in Nat /\ Budget(f, G) \in Nat /\ Budget(h, X) \in Nat /\ Budget(h, Y) \in Nat
    BY <1>1, BudgetFacts
  <2>6. (u - Budget(f, G)) + millis - Budget(h, Y) <= UtilizationThreshold
    BY <1>2, <2>3, <2>4, <2>5, PlacementAssumption
  <2> QED
    BY <2>6 DEF RoomIn, h
<1>3. CASE \A v \in Pods : f[v] # NoPod
                           /\ CriticalityRank(f[v].Criticality) < CriticalityRank(crit) => v \in X
  <2>1. \A v \in Pods : h[v] # NoPod => h[v] = f[v]
    BY DEF Only
  <2>2. \A v \in Pods : h[v] # NoPod
                        /\ CriticalityRank(h[v].Criticality) < CriticalityRank(crit) => v \in Y
    BY <1>3, <2>1
  <2> QED
    BY <2>2 DEF RoomIn
<1> QED
  BY <1>2, <1>3 DEF RoomIn

\* The pods of G leave the core that room is made on, with their budget.
Shrunk(c, G) == Entries(c)' = Only(Entries(c), Pods \ G) /\ Load(c)' = Load(c) - Budget(Entries(c), G)

LEMMA CoreTypes ==
    ASSUME ReconcilerInv, worker.pc \in MakingRoom, NEW c
    PROVE  /\ Entries(c) \in CoreMap /\ Load(c) \in Nat /\ onNode \in Nodes /\ key \in Pods
           /\ worker.millis \in Nat /\ LooseType /\ targetCores \in Seq(CoreIDs)
           /\ worker \in Worker
<1>1. onNode \in Nodes /\ key \in Pods /\ worker \in Worker /\ PoolInv
  BY DEF ReconcilerInv, LocalsOK, Allocating, Charging, Preempting, MakingRoom, InTurn, TypeOK
<1>2. worker.millis \in Nat /\ targetCores \in Seq(CoreIDs)
  BY <1>1 DEF Worker, targetCores, CR
<1> QED
  BY <1>1, <1>2, LedgerTypes DEF Entries, Load

LEMMA NothingLeaves ==
    ASSUME ReconcilerInv, worker.pc \in MakingRoom, NEW c, Entries(c)' = Entries(c), Load(c)' = Load(c)
    PROVE  Shrunk(c, {})
<1>1. Entries(c) \in CoreMap /\ Load(c) \in Nat
  BY CoreTypes
<1>2. Only(Entries(c), Pods \ {}) = Entries(c)
  BY <1>1 DEF Only, CoreMap
<1>3. Budget(Entries(c), {}) = 0
  BY <1>1, BudgetFacts
<1> QED
  BY <1>1, <1>2, <1>3 DEF Shrunk

\* What the steps of others and of the worker itself do to the core.
LEMMA CoreSteps ==
    ASSUME ReconcilerInv, worker.pc \in MakingRoom, NEW c,
           worker'.po = worker.po, worker'.rt = worker.rt
    PROVE  /\ UNCHANGED poolVars => Shrunk(c, {})
           /\ \A n \in Nodes, p \in Pods : RemovePodFromPool(n, p) =>
                 Shrunk(c, IF n = onNode THEN {p} ELSE {})
           /\ \A d : \A p \in Pods : RemovePodFromCore(onNode, d, p) =>
                 Shrunk(c, IF d = c THEN {p} ELSE {})
           /\ \A d, p, info : d # c /\ AddPodToCore(onNode, d, p, info) =>
                 Shrunk(c, {})
<1> DEFINE n0 == onNode
<1>1. onNode' = onNode /\ targetCores' = targetCores
  BY DEF onNode, targetCores
<1>2. LooseType /\ n0 \in Nodes
  BY CoreTypes
<1>3. CASE c \notin Cores
  <2>1. Entries(c) = EmptyCore /\ Load(c) = 0 /\ Entries(c)' = EmptyCore /\ Load(c)' = 0
    BY <1>1, <1>3 DEF Entries, Load, CorePods, GetCoreUtilization
  <2>2. \A G : Only(EmptyCore, G) = EmptyCore
    BY DEF Only, EmptyCore
  <2>3. \A G : Shrunk(c, G)
    BY <2>1, <2>2, CommittedEmpty DEF Shrunk, Budget
  <2> QED
    BY <2>3
<1>4. CASE c \in Cores
  <2>1. /\ Entries(c) = corePods[n0][c] /\ Load(c) = usage[n0][c]
        /\ Entries(c)' = corePods'[n0][c] /\ Load(c)' = usage'[n0][c]
    BY <1>1, <1>4 DEF Entries, Load, CorePods, GetCoreUtilization
  <2>2. corePods[n0][c] \in CoreMap
    BY <1>2, <1>4 DEF LooseType
  <2>3. UNCHANGED poolVars => Shrunk(c, {})
    BY <2>1, NothingLeaves DEF poolVars
  <2>4. ASSUME NEW n \in Nodes, NEW p \in Pods, RemovePodFromPool(n, p)
        PROVE  Shrunk(c, IF n = onNode THEN {p} ELSE {})
    <3>1. DropPods(n, {p})
      BY <2>4 DEF RemovePodFromPool
    <3>2. CASE n = onNode
      <4>1. /\ corePods'[n0][c] = Only(corePods[n0][c], Pods \ {p})
            /\ usage'[n0][c] = usage[n0][c] - Committed(Only(corePods[n0][c], {p}))
        BY <1>2, <1>4, <3>1, <3>2 DEF DropPods, LooseType
      <4> QED
        BY <2>1, <3>2, <4>1 DEF Shrunk, Budget
    <3>3. CASE n # onNode
      <4>1. corePods'[n0][c] = corePods[n0][c] /\ usage'[n0][c] = usage[n0][c]
        BY <1>2, <1>4, <3>1, <3>3 DEF DropPods, LooseType
      <4> QED
        BY <2>1, <3>3, <4>1, NothingLeaves
    <3> QED
      BY <3>2, <3>3
  <2>5. ASSUME NEW d, NEW p \in Pods, RemovePodFromCore(onNode, d, p)
        PROVE  Shrunk(c, IF d = c THEN {p} ELSE {})
    <3>1. CASE d = c
      <4>1. /\ corePods'[n0][c] = [corePods[n0][c] EXCEPT ![p] = NoPod]
            /\ usage'[n0][c] = usage[n0][c] - corePods[n0][c][p].CPUMillis
        BY <1>2, <1>4, <2>5, <3>1 DEF RemovePodFromCore, LooseType
      <4>2. [corePods[n0][c] EXCEPT ![p] = NoPod] = Only(corePods[n0][c], Pods \ {p})
        BY <2>2 DEF Only, CoreMap
      <4>3. Budget(corePods[n0][c], {p}) = corePods[n0][c][p].CPUMillis
        BY <2>2, CommittedPoint DEF Budget
      <4> QED
        BY <2>1, <3>1, <4>1, <4>2, <4>3 DEF Shrunk
    <3>2. CASE d # c
      <4>1. corePods'[n0][c] = corePods[n0][c] /\ usage'[n0][c] = usage[n0][c]
        BY <1>2, <1>4, <2>5, <3>2 DEF RemovePodFromCore, LooseType
      <4> QED
        BY <2>1, <3>2, <4>1, NothingLeaves
    <3> QED
      BY <3>1, <3>2
  <2>6. ASSUME NEW d, NEW p, NEW info, d # c, AddPodToCore(onNode, d, p, info)
        PROVE  Shrunk(c, {})
    <3>1. corePods'[n0][c] = corePods[n0][c] /\ usage'[n0][c] = usage[n0][c]
      BY <1>2, <1>4, <2>6 DEF AddPodToCore, LooseType
    <3> QED
      BY <2>1, <3>1, NothingLeaves
  <2> QED
    BY <2>3, <2>4, <2>5, <2>6
<1> QED
  BY <1>3, <1>4

\* Who acts while room is made.
Bystander == (\E p \in Pods : Outside(p) /\ ~ Begin(p)) \/ HandlerStep \/ UNCHANGED vars

RoomAction ==
    \/ CheckUtilization \/ SelectVictims \/ NoVictimLeft \/ (\E v \in Pods : PreemptPod(v))
    \/ MigrateOff \/ MigrateOn \/ MigrateStatus \/ Evict \/ PreemptionDone

LEMMA MakingRoomStep ==
    ASSUME TypeOK, [Next]_vars, worker'.pc \in MakingRoom
    PROVE  Bystander \/ RoomAction \/ CheckRegistered
<1> USE DEF MakingRoom, InTurn
<1>1. ASSUME NEW p \in Pods, Begin(p) PROVE FALSE
  <2>1. worker'.pc = FirstStep(p)
    BY <1>1 DEF Begin, IdleWorker
  <2> QED
    BY <2>1 DEF FirstStep
<1>2. ASSUME worker' = IdleWorker PROVE FALSE
  BY <1>2 DEF IdleWorker
<1>3. ASSUME RemoveFinalizer \/ AddFinalizer \/ SetNode \/ Finish \/ RecoverDone \/ Restart
      PROVE  FALSE
  BY <1>2, <1>3 DEF RemoveFinalizer, AddFinalizer, SetNode, Finish, RecoverDone, Restart,
                    Requeue
<1>4. ASSUME Cleanup \/ RecoverBegin \/ RecoverEnd PROVE FALSE
  <2>1. worker'.pc \in {"drop", "recover"}
    BY <1>4 DEF Cleanup, RecoverBegin, RecoverEnd, TypeOK, Worker
  <2> QED
    BY <2>1
<1>5. ASSUME NEW n \in Nodes, CleanupDrop(n) PROVE FALSE
  BY <1>5 DEF CleanupDrop, TypeOK, Worker
<1>6. ASSUME NEW p \in Pods, RecoverPod(p) PROVE FALSE
  BY <1>6 DEF RecoverPod, TypeOK, Worker
<1>7. ASSUME Allocate PROVE FALSE
  <2>1. worker'.pc = "budget"
    BY <1>7, GotoPC DEF TypeOK
  <2> QED
    BY <2>1
<1>8. ASSUME ReadBudget PROVE FALSE
  BY <1>8 DEF ReadBudget, TypeOK, Worker
<1>9. ASSUME PrepareEntry \/ CompareEntry \/ Unregister PROVE FALSE
  <2>1. worker'.pc \in {"compare", "unregister", "tail", "register"}
    BY <1>9, NextPC DEF TypeOK
  <2> QED
    BY <2>1
<1>10. ASSUME Register PROVE FALSE
  <2>1. worker'.pc \in {"unregister", "tail"}
    BY <1>10 DEF Register, TypeOK, Worker
  <2> QED
    BY <2>1
<1> QED
  BY <1>1, <1>3, <1>4, <1>5, <1>6, <1>7, <1>8, <1>9, <1>10
  DEF Next, Outside, WorkerStep, Bystander, RoomAction

LEMMA BystanderKeeps == Bystander => worker' = worker
BY OutsideKeepsLocals
DEF Bystander, HandlerStep, HandleLiveEvent, HandleTerminatingEvent, HandlerDrop,
    HandlerEnqueue, vars

LEMMA RoomActionKeeps ==
    ASSUME TypeOK, RoomAction
    PROVE  /\ worker'.po = worker.po /\ worker'.rt = worker.rt /\ worker'.key = worker.key
           /\ worker'.millis = worker.millis /\ worker.skipped \subseteq worker'.skipped
           /\ worker.pc \in MakingRoom
           /\ UNCHANGED <<podCache, podEvents, handler>>
           /\ pod' = pod \/ (Evict /\ pod' = [pod EXCEPT ![worker.victim].deleting = TRUE])
<1> DEFINE Same == /\ worker'.po = worker.po /\ worker'.rt = worker.rt
                   /\ worker'.key = worker.key /\ worker'.millis = worker.millis
                   /\ worker.skipped \subseteq worker'.skipped
<1>0. worker \in Worker
  BY DEF TypeOK
<1>1. ASSUME CheckUtilization \/ SelectVictims \/ NoVictimLeft \/ PreemptionDone PROVE Same
  <2>1. CASE CheckUtilization
    <3>1. \/ \E m, R : worker' = [worker EXCEPT !.pc = "select", !.needed = m, !.refilled = R]
          \/ \E R : worker' = [worker EXCEPT !.i = @ + 1, !.refilled = R]
      BY <2>1 DEF CheckUtilization
    <3>2. CASE \E m, R : worker' = [worker EXCEPT !.pc = "select", !.needed = m, !.refilled = R]
      BY <1>0, <3>2 DEF Worker
    <3>3. CASE \E R : worker' = [worker EXCEPT !.i = @ + 1, !.refilled = R]
      BY <1>0, <3>3 DEF Worker
    <3> QED
      BY <3>1, <3>2, <3>3
  <2>2. CASE SelectVictims
    BY <1>0, <2>2 DEF SelectVictims, Worker
  <2>3. CASE NoVictimLeft
    BY <1>0, <2>3 DEF NoVictimLeft, Worker
  <2>4. CASE PreemptionDone
    BY <1>0, <2>4 DEF PreemptionDone, Worker
  <2> QED
    BY <1>1, <2>1, <2>2, <2>3, <2>4
<1>2. ASSUME MigrateOff \/ MigrateOn \/ MigrateStatus \/ Evict PROVE Same
  <2>1. CASE \E pc : worker' = [worker EXCEPT !.pc = pc]
    BY <1>0, <2>1 DEF Worker
  <2>2. CASE NextVictim
    BY <1>0, <2>2 DEF NextVictim, Worker
  <2>3. CASE MigrateOn
    BY <1>0, <2>3 DEF MigrateOn, Worker
  <2> QED
    BY <1>2, <2>1, <2>2, <2>3 DEF MigrateOff, MigrateStatus, Evict, Goto
<1>3. ASSUME NEW v \in Pods, PreemptPod(v) PROVE Same
  <2> DEFINE rest == [worker EXCEPT !.victims[v] = NoPod]
  <2>1. \/ worker' = [rest EXCEPT !.skipped = @ \cup {v}]
        \/ worker' = [rest EXCEPT !.pc = "evict", !.victim = v]
        \/ \E i, d : worker' = [rest EXCEPT !.pc = "migrateOff", !.victim = v,
                                            !.info = i, !.target = d]
    BY <1>3 DEF PreemptPod
  <2>2. /\ rest \in Worker /\ rest.po = worker.po /\ rest.rt = worker.rt /\ rest.key = worker.key
        /\ rest.millis = worker.millis /\ rest.skipped = worker.skipped
    BY <1>0 DEF Worker
  <2> HIDE DEF rest
  <2> QED
    BY <2>1, <2>2 DEF Worker
<1>4. Same
  BY <1>1, <1>2, <1>3 DEF RoomAction
<1>5. worker.pc \in MakingRoom
  BY DEF RoomAction, CheckUtilization, SelectVictims, NoVictimLeft, PreemptPod, MigrateOff,
         MigrateOn, MigrateStatus, Evict, PreemptionDone, MakingRoom, InTurn
<1>6. UNCHANGED <<podCache, podEvents, handler>>
  BY DEF RoomAction, CheckUtilization, SelectVictims, NoVictimLeft, PreemptPod, MigrateOff,
         MigrateOn, MigrateStatus, Evict, PreemptionDone, Local, Work
<1>7. pod' = pod \/ (Evict /\ pod' = [pod EXCEPT ![worker.victim].deleting = TRUE])
  BY DEF RoomAction, CheckUtilization, SelectVictims, NoVictimLeft, PreemptPod, MigrateOff,
         MigrateOn, MigrateStatus, Evict, PreemptionDone, Local, Work
<1> HIDE DEF Same
<1> QED
  BY <1>4, <1>5, <1>6, <1>7 DEF Same

\* Failures are only counted up.
LEMMA FailuresStep ==
    ASSUME TypeOK, [Next]_vars, used'["failure"] = 0
    PROVE  used["failure"] = 0
<1>1. used \in [Kinds -> Nat] /\ "failure" \in Kinds
  BY KindNames DEF TypeOK
<1>2. CASE used' = used
  BY <1>2
<1>3. ASSUME NEW k \in Kinds, Spend(k) PROVE used["failure"] = 0
  BY <1>1, <1>3 DEF Spend
<1>4. ASSUME NEW p, NEW copy, StatusLost(p, copy) PROVE used["failure"] = 0
  BY <1>1, <1>4, KindNames DEF StatusLost
<1>5. ASSUME NEW p, NEW copy, NEW new, Write(p, copy, new) \/ WriteFails(p, copy)
      PROVE  used' = used \/ Spend("failure")
  BY <1>5 DEF Write, WriteFails, bounds
<1>6. ASSUME NEW p \in Pods, Outside(p) PROVE used["failure"] = 0
  BY <1>2, <1>3, <1>4, <1>6, KindNames
  DEF Outside, Environment, Informer, Kubelet, Dequeue, CreateCR, DeleteCR, CreatePod,
      FinishPod, DeletePod, OverrunBegin, SyncCR, SyncPod, RemovePod, SchedulePod,
      OverrunEnd, OverrunRefused, Begin, BeginNothing, bounds
<1>7. CASE HandlerStep
  BY <1>2, <1>7 DEF HandlerStep, HandleLiveEvent, HandleTerminatingEvent, HandlerDrop,
                    HandlerEnqueue, bounds
<1>8. ASSUME Cleanup \/ (\E n \in Nodes : CleanupDrop(n)) \/ ReadBudget \/ CheckRegistered
             \/ CheckUtilization \/ SelectVictims \/ NoVictimLeft
             \/ (\E v \in Pods : PreemptPod(v)) \/ MigrateOff \/ MigrateOn
             \/ PreemptionDone \/ PrepareEntry \/ CompareEntry \/ Unregister \/ Register
             \/ Finish \/ (\E p \in Pods : RecoverPod(p)) \/ RecoverDone
      PROVE  used["failure"] = 0
  <2>1. used' = used
    BY <1>8 DEF Cleanup, CleanupDrop, ReadBudget, CheckRegistered, CheckUtilization,
       SelectVictims, NoVictimLeft, PreemptPod, MigrateOff, MigrateOn, PreemptionDone,
       PrepareEntry, CompareEntry, Unregister, Register, Finish, RecoverPod, RecoverDone,
       Local, bounds
  <2> QED
    BY <1>2, <2>1
<1>9. ASSUME RemoveFinalizer \/ AddFinalizer \/ SetNode \/ Allocate \/ MigrateStatus \/ Evict
      PROVE  used["failure"] = 0
  <2>1. used' = used \/ Spend("failure")
    BY <1>5, <1>9 DEF RemoveFinalizer, AddFinalizer, SetNode, Allocate, MigrateStatus, Evict,
       bounds
  <2> QED
    BY <1>2, <1>3, <2>1, KindNames
<1>10. CASE RecoverBegin \/ Restart
  BY <1>3, <1>10, KindNames DEF RecoverBegin, Restart
<1>11. CASE RecoverEnd
  <2>1. used' = used \/ Spend("failure") \/ StatusLost(worker.victim, worker.rt)
    BY <1>5, <1>11 DEF RecoverEnd
  <2> QED
    BY <1>2, <1>3, <1>4, <2>1, KindNames
<1>12. CASE UNCHANGED vars
  BY <1>2, <1>12 DEF vars, bounds
<1> QED
  BY <1>6, <1>7, <1>8, <1>9, <1>10, <1>11, <1>12 DEF Next, Outside, WorkerStep

LEMMA TailFacts ==
    ASSUME NEW S, NEW s \in Seq(S), s # <<>>
    PROVE  /\ Head(s) = s[1]
           /\ \A j \in DOMAIN s : j # 1 => /\ j - 1 \in DOMAIN Tail(s)
                                           /\ Tail(s)[j - 1] = s[j]
OBVIOUS

\* A pod on its way out stays so, whoever acts, until its entry is gone.
LEMMA DoomStays ==
    ASSUME ReconcilerInv, worker.pc \in MakingRoom, Bystander \/ RoomAction,
           NEW v \in Labelled, Doomed(v), NEW c
    PROVE  Doomed(v)' \/ Entries(c)'[v] = NoPod
<1>1. /\ worker'.po = worker.po /\ worker'.rt = worker.rt
      /\ onNode' = onNode /\ targetCores' = targetCores
  BY BystanderKeeps, RoomActionKeeps DEF ReconcilerInv, onNode, targetCores
<1>2. /\ pod \in [Pods -> PodState] /\ podCache \in [Pods -> PodState]
      /\ podEvents \in [Pods -> Seq(BOOLEAN)] /\ v \in Pods
  BY ReconcilerAssumption DEF ReconcilerInv, TypeOK
<1>3. CASE UNCHANGED <<pod, podCache, podEvents, handler>>
  BY <1>1, <1>3 DEF Doomed
<1>4. ASSUME NEW p \in Pods, NEW s, SetPod(p, s) PROVE Doomed(v)'
  <2>1. /\ podCache[p] = pod[p] /\ pod' = [pod EXCEPT ![p] = s]
        /\ UNCHANGED <<podCache, podEvents, handler>>
    BY <1>4 DEF SetPod, Env
  <2>2. pod[v].deleting => pod'[v].deleting \/ podCache'[v].deleting
    BY <1>2, <2>1
  <2> QED
    BY <1>1, <2>1, <2>2 DEF Doomed
<1>5. ASSUME NEW p \in Pods, SyncPod(p) PROVE Doomed(v)'
  <2> DEFINE e == podCache[p].deleting \/ pod[p].deleting
  <2>1. /\ podCache' = [podCache EXCEPT ![p] = pod[p]]
        /\ podEvents' = [podEvents EXCEPT ![p] = Append(podEvents[p], e)]
        /\ UNCHANGED <<pod, handler>>
    BY <1>5 DEF SyncPod, Env
  <2>2. /\ e \in BOOLEAN
        /\ Append(podEvents[p], e)[Len(podEvents[p]) + 1] = e
        /\ Len(podEvents[p]) + 1 \in DOMAIN Append(podEvents[p], e)
        /\ \A i \in DOMAIN podEvents[p] :
              i \in DOMAIN Append(podEvents[p], e)
              /\ Append(podEvents[p], e)[i] = podEvents[p][i]
    BY <1>2 DEF PodState
  <2> HIDE DEF e
  <2>3. CASE podCache[v].deleting /\ v = p
    <3>1. podEvents'[v][Len(podEvents[p]) + 1]
          /\ Len(podEvents[p]) + 1 \in DOMAIN podEvents'[v]
      BY <1>2, <2>1, <2>2, <2>3 DEF e
    <3> QED
      BY <3>1 DEF Doomed
  <2>4. CASE podCache[v].deleting /\ v # p
    BY <1>2, <2>1, <2>4 DEF Doomed
  <2>5. CASE \E i \in DOMAIN podEvents[v] : podEvents[v][i]
    <3>1. \E i \in DOMAIN podEvents'[v] : podEvents'[v][i]
      BY <1>2, <2>1, <2>2, <2>5
    <3> QED
      BY <3>1 DEF Doomed
  <2> QED
    BY <1>1, <2>1, <2>3, <2>4, <2>5 DEF Doomed
<1>6. ASSUME NEW p \in Pods, HandleLiveEvent(p) PROVE Doomed(v)'
  <2>1. /\ podEvents[p] # <<>> /\ (p \notin Labelled \/ ~ Head(podEvents[p]))
        /\ podEvents' = [podEvents EXCEPT ![p] = Tail(@)]
        /\ UNCHANGED <<pod, podCache, handler>>
    BY <1>6 DEF HandleLiveEvent
  <2>2. ASSUME NEW i \in DOMAIN podEvents[v], podEvents[v][i]
        PROVE  \E j \in DOMAIN podEvents'[v] : podEvents'[v][j]
    <3>1. CASE v = p
      <4> DEFINE s == podEvents[v]
      <4>1. s \in Seq(BOOLEAN) /\ s # <<>> /\ i \in DOMAIN s /\ s[i] /\ ~ Head(s)
        BY <1>2, <2>1, <2>2, <3>1
      <4> HIDE DEF s
      <4>2. Head(s) = s[1] /\ \A j \in DOMAIN s : j # 1 =>
               j - 1 \in DOMAIN Tail(s) /\ Tail(s)[j - 1] = s[j]
        BY <4>1, TailFacts
      <4>3. i # 1 /\ i - 1 \in DOMAIN Tail(s) /\ Tail(s)[i - 1] = s[i]
        BY <4>1, <4>2
      <4>4. podEvents'[v] = Tail(s)
        BY <1>2, <2>1, <3>1 DEF s
      <4> QED
        BY <4>1, <4>3, <4>4
    <3> QED
      BY <1>2, <2>1, <2>2, <3>1
  <2> QED
    BY <1>1, <2>1, <2>2 DEF Doomed
<1>7. ASSUME NEW p \in Pods, HandleTerminatingEvent(p)
      PROVE  Doomed(v)' \/ Entries(c)'[v] = NoPod
  <2>1. /\ podEvents[p] # <<>> /\ handler.pc = "idle"
        /\ podEvents' = [podEvents EXCEPT ![p] = Tail(@)]
        /\ handler' = [pc |-> "drop", pod |-> p, todo |-> pooled]
        /\ UNCHANGED <<pod, podCache>> /\ UNCHANGED poolVars
    BY <1>7 DEF HandleTerminatingEvent
  <2>2. CASE v # p
    BY <1>1, <1>2, <2>1, <2>2 DEF Doomed
  <2>3. CASE v = p /\ onNode \in pooled
    BY <1>1, <2>1, <2>3 DEF Doomed
  <2>4. CASE onNode \notin pooled
    <3>1. onNode \in Nodes /\ UnpooledEmpty
      BY CoreTypes DEF ReconcilerInv, PoolInv
    <3>2. Entries(c)' = Entries(c)
      BY <1>1, <2>1 DEF Entries, CorePods, poolVars
    <3>3. \A d \in Cores : corePods[onNode][d] = EmptyCore
      BY <2>4, <3>1 DEF UnpooledEmpty
    <3> QED
      BY <1>2, <3>2, <3>3 DEF Entries, CorePods, EmptyCore
  <2> QED
    BY <2>2, <2>3, <2>4
<1>8. ASSUME NEW n \in Nodes, HandlerDrop(n) PROVE Doomed(v)' \/ Entries(c)'[v] = NoPod
  <2>1. /\ handler.pc = "drop" /\ RemovePodFromPool(n, handler.pod) /\ handler.pod \in Pods
        /\ handler' = [handler EXCEPT !.todo = @ \ {n}]
        /\ UNCHANGED <<pod, podCache, podEvents>>
    BY <1>8 DEF HandlerDrop, ReconcilerInv, LocalsOK, apiVars
  <2>2. /\ handler'.pc = handler.pc /\ handler'.pod = handler.pod
        /\ handler'.todo = handler.todo \ {n}
    BY <2>1 DEF ReconcilerInv, TypeOK
  <2>3. CASE n = onNode /\ v = handler.pod
    <3>1. Shrunk(c, {v})
      BY <1>1, <2>1, <2>3, CoreSteps
    <3> QED
      BY <1>2, <3>1 DEF Shrunk, Only
  <2>4. CASE n # onNode \/ v # handler.pod
    BY <1>1, <2>1, <2>2, <2>4 DEF Doomed
  <2> QED
    BY <2>3, <2>4
<1>9. CASE HandlerEnqueue
  <2>1. handler.todo = {} /\ UNCHANGED <<pod, podCache, podEvents>>
    BY <1>9 DEF HandlerEnqueue, apiVars
  <2> QED
    BY <1>1, <2>1 DEF Doomed
<1>10. CASE RoomAction
  <2>1. /\ UNCHANGED <<podCache, podEvents, handler>>
        /\ pod' = pod \/ pod' = [pod EXCEPT ![worker.victim].deleting = TRUE]
    BY <1>10, RoomActionKeeps DEF ReconcilerInv
  <2>2. pod[v].deleting => pod'[v].deleting
    <3>1. pod[v] \in PodState
      BY <1>2
    <3>2. CASE pod' = [pod EXCEPT ![worker.victim].deleting = TRUE] /\ v = worker.victim
      <4>1. pod'[v] = [pod[v] EXCEPT !.deleting = TRUE]
        BY <1>2, <3>2
      <4> QED
        BY <3>1, <4>1 DEF PodState
    <3>3. CASE pod' = pod \/ (pod' = [pod EXCEPT ![worker.victim].deleting = TRUE]
                             /\ v # worker.victim)
      BY <1>2, <3>3
    <3> QED
      BY <2>1, <3>2, <3>3
  <2> QED
    BY <1>1, <2>1, <2>2 DEF Doomed
<1>11. ASSUME NEW p \in Pods, Outside(p) /\ ~ Begin(p) PROVE Doomed(v)'
  <2>1. \/ UNCHANGED <<pod, podCache, podEvents, handler>>
        \/ \E s : SetPod(p, s)
        \/ SyncPod(p)
    BY <1>11
    DEF Outside, Environment, Informer, Kubelet, Dequeue, CreateCR, DeleteCR, CreatePod,
        FinishPod, DeletePod, OverrunBegin, SyncCR, RemovePod, SchedulePod,
        OverrunEnd, OverrunRefused, BeginNothing, Env, Work, apiVars
  <2> QED
    BY <1>1, <1>4, <1>5, <2>1 DEF Doomed
<1> QED
  BY <1>3, <1>6, <1>7, <1>8, <1>9, <1>10, <1>11
  DEF Bystander, HandlerStep, vars, apiVars

LEMMA OutGrows ==
    ASSUME ReconcilerInv, worker.pc \in MakingRoom, Bystander \/ RoomAction, NEW c,
           NEW G, Shrunk(c, G), NEW v \in Pods, v \in Out(c)
    PROVE  v \in Out(c)'
<1>1. v \in worker.skipped => v \in worker'.skipped
  BY BystanderKeeps, RoomActionKeeps DEF ReconcilerInv
<1>2. Entries(c)[v] = NoPod => Entries(c)'[v] = NoPod
  BY DEF Shrunk, Only
<1>3. v \in Labelled /\ Doomed(v) => Doomed(v)' \/ Entries(c)'[v] = NoPod
  BY DoomStays
<1> QED
  BY <1>1, <1>2, <1>3 DEF Out

\* Room is kept over a step when pods that count as gone leave the core.
LEMMA HasRoomStep ==
    ASSUME ReconcilerInv, worker.pc \in MakingRoom, Bystander \/ RoomAction, NEW c,
           NEW G, Shrunk(c, G), NEW X, NEW Y, HasRoom(c, X),
           \A v \in Pods : (v \in G => v \in X) /\ (v \in X => v \in Y)
    PROVE  RoomIn(Entries(c)', Load(c)', worker'.millis, Criticality[worker'.key], Y)
<1>1. worker'.millis = worker.millis /\ worker'.key = worker.key
  BY BystanderKeeps, RoomActionKeeps DEF ReconcilerInv
<1>2. Entries(c) \in CoreMap /\ Load(c) \in Int /\ worker.millis \in Nat
  BY CoreTypes
<1>3. RoomIn(Entries(c), Load(c), worker.millis, Criticality[worker.key], X)
  BY DEF HasRoom, key
<1>4. RoomIn(Only(Entries(c), Pods \ G), Load(c) - Budget(Entries(c), G), worker.millis,
             Criticality[worker.key], Y)
  BY <1>2, <1>3, RoomKept
<1> QED
  BY <1>1, <1>4 DEF Shrunk

\* Only pods on their way out leave the core by the hand of others.
LEMMA BystanderShrinks ==
    ASSUME ReconcilerInv, worker.pc \in MakingRoom, Bystander, NEW c
    PROVE  \E G : Shrunk(c, G) /\ \A v \in Pods : v \in G => v \in Out(c)
<1>1. worker'.po = worker.po /\ worker'.rt = worker.rt
  BY BystanderKeeps
<1>2. CASE UNCHANGED poolVars
  BY <1>1, <1>2, CoreSteps
<1>3. ASSUME NEW n \in Nodes, HandlerDrop(n)
      PROVE  \E G : Shrunk(c, G) /\ \A v \in Pods : v \in G => v \in Out(c)
  <2> DEFINE G == IF n = onNode THEN {handler.pod} ELSE {}
  <2>1. /\ RemovePodFromPool(n, handler.pod) /\ handler.pod \in Pods
        /\ handler.pc = "drop" /\ n \in handler.todo
    BY <1>3 DEF HandlerDrop, ReconcilerInv, LocalsOK
  <2>2. Shrunk(c, G)
    BY <1>1, <2>1, CoreSteps
  <2>3. \A v \in Pods : v \in G => v \in Out(c)
    BY <2>1 DEF Out, Doomed
  <2> HIDE DEF G
  <2> QED
    BY <2>2, <2>3
<1>4. Bystander => UNCHANGED poolVars \/ \E n \in Nodes : HandlerDrop(n)
  BY OutsideKeepsLedger
  DEF Bystander, HandlerStep, HandleLiveEvent, HandleTerminatingEvent, HandlerEnqueue, vars
<1> QED
  BY <1>2, <1>3, <1>4

\* A pod that the cache loses sight of was seen terminating.
LEMMA CacheLoses ==
    ASSUME TypeOK, CacheShape, Bystander, NEW v \in Pods, NEW c,
           podCache[v].phase # "None", podCache'[v].phase = "None"
    PROVE  v \in Out(c)
<1>1. ASSUME podCache' = podCache PROVE FALSE
  BY <1>1
<1>2. ASSUME NEW p \in Pods, SyncPod(p) PROVE v \in Out(c)
  <2>1. podCache' = [podCache EXCEPT ![p] = pod[p]]
    BY <1>2 DEF SyncPod
  <2>2. pod[v].phase = "None"
    BY <2>1 DEF TypeOK
  <2> QED
    BY <2>2 DEF CacheShape, Out, Doomed
<1>3. (\E p \in Pods : SyncPod(p)) \/ podCache' = podCache
  BY DEF Bystander, HandlerStep, HandleLiveEvent, HandleTerminatingEvent, HandlerDrop,
        HandlerEnqueue, Outside, Environment, Informer, Kubelet, Dequeue, CreateCR, DeleteCR,
        CreatePod, FinishPod, DeletePod, OverrunBegin, SyncCR, RemovePod, SchedulePod, SetPod,
        OverrunEnd, OverrunRefused, BeginNothing, Env, Work, apiVars, vars
<1> QED
  BY <1>1, <1>2, <1>3


\* The steps of the worker take pods off the core in hand only, and put one
\* on a core only by a migration.
LEMMA RoomActionShrinks ==
    ASSUME ReconcilerInv, RoomAction, NEW c, ~ (MigrateOn /\ worker.target = c)
    PROVE  \E G : Shrunk(c, G) /\ \A v \in Pods : v \in G => v \in Out(c)'
<1>1. worker'.po = worker.po /\ worker'.rt = worker.rt /\ worker.pc \in MakingRoom
  BY RoomActionKeeps DEF ReconcilerInv
<1>2. CASE UNCHANGED poolVars
  BY <1>1, <1>2, CoreSteps
<1>3. CASE MigrateOn
  <2>1. worker.target # c /\ AddPodToCore(onNode, worker.target, worker.victim, worker.info)
    BY <1>3 DEF MigrateOn
  <2>2. Shrunk(c, {})
    BY <1>1, <2>1, CoreSteps
  <2> QED
    BY <2>2
<1>4. CASE MigrateOff
  <2> DEFINE G == IF currentCore = c THEN {worker.victim} ELSE {}
  <2>1. worker.victim \in Pods /\ RemovePodFromCore(onNode, currentCore, worker.victim)
    BY <1>4 DEF MigrateOff, ReconcilerInv, LocalsOK
  <2>2. Shrunk(c, G)
    BY <1>1, <2>1, CoreSteps
  <2> HIDE DEF G
  <2>3. \A v \in Pods : v \in G => v \in Out(c)'
    BY <2>2 DEF Shrunk, Only, Out
  <2> QED
    BY <2>2, <2>3
<1> QED
  BY <1>2, <1>3, <1>4
  DEF RoomAction, CheckUtilization, SelectVictims, NoVictimLeft, PreemptPod, MigrateStatus,
      Evict, PreemptionDone

LEMMA RefilledKept ==
    ASSUME TypeOK, RoomAction
    PROVE  /\ ~ CheckUtilization => worker.refilled \subseteq worker'.refilled
           /\ CheckUtilization => worker.refilled \ {currentCore} \subseteq worker'.refilled
           /\ MigrateOn => worker.target \in worker'.refilled
<1>0. worker \in Worker
  BY DEF TypeOK
<1>1. CASE CheckUtilization
  <2>1. worker'.refilled = worker.refilled \ {currentCore}
    BY <1>0, <1>1 DEF CheckUtilization, Worker
  <2>2. ~ MigrateOn
    BY <1>1 DEF CheckUtilization, MigrateOn
  <2> QED
    BY <1>1, <2>1, <2>2
<1>2. CASE MigrateOn
  <2>1. worker'.refilled = worker.refilled \cup {worker.target}
    BY <1>0, <1>2 DEF MigrateOn, Worker
  <2>2. ~ CheckUtilization
    BY <1>2 DEF CheckUtilization, MigrateOn
  <2> QED
    BY <2>1, <2>2
<1>3. ASSUME SelectVictims \/ NoVictimLeft \/ PreemptionDone \/ MigrateOff \/ NextVictim
      PROVE  worker'.refilled = worker.refilled
  <2>1. CASE SelectVictims
    BY <1>0, <2>1 DEF SelectVictims, Worker
  <2>2. CASE NoVictimLeft
    BY <1>0, <2>2 DEF NoVictimLeft, Worker
  <2>3. CASE PreemptionDone
    BY <1>0, <2>3 DEF PreemptionDone, Worker
  <2>4. CASE MigrateOff
    BY <1>0, <2>4 DEF MigrateOff, Goto, Worker
  <2>5. CASE NextVictim
    BY <1>0, <2>5 DEF NextVictim, Worker
  <2> QED
    BY <1>3, <2>1, <2>2, <2>3, <2>4, <2>5
<1>4. ASSUME NEW v \in Pods, PreemptPod(v) PROVE worker'.refilled = worker.refilled
  <2> DEFINE rest == [worker EXCEPT !.victims[v] = NoPod]
  <2>1. \/ worker' = [rest EXCEPT !.skipped = @ \cup {v}]
        \/ worker' = [rest EXCEPT !.pc = "evict", !.victim = v]
        \/ \E i, d : worker' = [rest EXCEPT !.pc = "migrateOff", !.victim = v,
                                            !.info = i, !.target = d]
    BY <1>4 DEF PreemptPod
  <2>2. rest \in Worker /\ rest.refilled = worker.refilled
    BY <1>0 DEF Worker
  <2> HIDE DEF rest
  <2> QED
    BY <2>1, <2>2 DEF Worker
<1> QED
  BY <1>1, <1>2, <1>3, <1>4 DEF RoomAction, MigrateStatus, Evict

\* A core that was checked keeps its room, except for a victim that is
\* migrated onto it.
LEMMA SettledStep ==
    ASSUME ReconcilerInv, worker.pc \in MakingRoom, Bystander \/ RoomAction, NEW c,
           SettledRoom(c), ~ (CheckUtilization /\ c = currentCore)
    PROVE  SettledRoom(c)'
<1>1. CASE RoomAction /\ (c \in worker.refilled \/ (MigrateOn /\ worker.target = c))
  BY <1>1, RefilledKept DEF ReconcilerInv, SettledRoom
<1>2. CASE Bystander /\ c \in worker.refilled
  BY <1>2, BystanderKeeps DEF SettledRoom
<1>3. CASE HasRoom(c, Out(c)) /\ (Bystander \/ ~ (MigrateOn /\ worker.target = c))
  <2>1. PICK G : Shrunk(c, G) /\ \A v \in Pods : v \in G => v \in Out(c)'
    <3>1. CASE Bystander
      <4>1. PICK G : Shrunk(c, G) /\ \A v \in Pods : v \in G => v \in Out(c)
        BY <3>1, BystanderShrinks
      <4> QED
        BY <4>1, OutGrows
    <3>2. CASE RoomAction /\ ~ (MigrateOn /\ worker.target = c)
      BY <3>2, RoomActionShrinks
    <3> QED
      BY <1>3, <3>1, <3>2
  <2>2. \A v \in Pods : v \in Out(c) => v \in Out(c)'
    BY <2>1, OutGrows
  <2> DEFINE X == Out(c) \cup G
             Y == Out(c)'
  <2>3. \A v \in Pods : (v \in G => v \in X) /\ (v \in X => v \in Y)
                        /\ (v \in Out(c) => v \in X)
    BY <2>1, <2>2
  <2> HIDE DEF X, Y
  <2>4. HasRoom(c, X)
    <3>1. Entries(c) \in CoreMap /\ Load(c) \in Int /\ worker.millis \in Nat
      BY CoreTypes
    <3> QED
      BY <1>3, <2>3, <3>1, RoomGrows DEF HasRoom
  <2>5. RoomIn(Entries(c)', Load(c)', worker'.millis, Criticality[worker'.key], Y)
    BY <2>1, <2>3, <2>4, HasRoomStep
  <2> QED
    BY <2>5 DEF SettledRoom, HasRoom, key, Y
<1> QED
  BY <1>1, <1>2, <1>3 DEF SettledRoom

\* Others do not take the room away.
LEMMA BystanderRoom ==
    ASSUME ReconcilerInv, CacheShape, worker.pc \in MakingRoom, Bystander, NEW c,
           InHandRoom(c)
    PROVE  InHandRoom(c)'
<1>1. worker' = worker /\ targetCores' = targetCores /\ Waiting' = Waiting
  BY BystanderKeeps DEF targetCores, Waiting
<1>2. PICK G : Shrunk(c, G) /\ \A v \in Pods : v \in G => v \in Out(c)
  BY BystanderShrinks
<1>3. \A v \in Pods : v \in Out(c) => v \in Out(c)'
  BY <1>2, OutGrows
<1>4. ASSUME NEW X, NEW Z, Z = Out(c) \cup X, HasRoom(c, Z)
      PROVE  RoomIn(Entries(c)', Load(c)', worker'.millis, Criticality[worker'.key], Out(c)' \cup X)
  <2> DEFINE Y == Out(c)' \cup X
  <2>1. \A v \in Pods : (v \in G => v \in Z) /\ (v \in Z => v \in Y)
    BY <1>2, <1>3, <1>4
  <2> HIDE DEF Y
  <2>2. RoomIn(Entries(c)', Load(c)', worker'.millis, Criticality[worker'.key], Y)
    BY <1>2, <1>4, <2>1, HasRoomStep
  <2> QED
    BY <2>2 DEF Y
<1>5. worker.pc = "select" => Load(c)' + worker.millis - UtilizationThreshold <= worker.needed
  <2>1. Entries(c) \in CoreMap /\ Load(c) \in Nat /\ worker.millis \in Nat /\ worker.needed \in Nat
    BY CoreTypes DEF Worker
  <2>2. Budget(Entries(c), G) \in Nat
    BY <2>1, BudgetFacts
  <2> QED
    BY <1>2, <2>1, <2>2, PlacementAssumption DEF InHandRoom, Shrunk
<1>6. worker.pc \in {"preempt", "migrateOn", "migrateStatus"} => HasRoom(c, Out(c) \cup Waiting)'
  BY <1>1, <1>4 DEF InHandRoom, HasRoom, key
<1>7. worker.pc \in {"evict", "migrateOff"} =>
          HasRoom(c, Out(c) \cup Waiting \cup {worker.victim})'
  <2>1. /\ Out(c) \cup Waiting \cup {worker.victim} = Out(c) \cup (Waiting \cup {worker.victim})
        /\ Out(c)' \cup Waiting' \cup {worker'.victim} = Out(c)' \cup (Waiting \cup {worker.victim})
    BY <1>1
  <2> QED
    BY <1>4, <2>1 DEF InHandRoom, HasRoom, key
<1>8. worker.pc = "evict" => podCache'[worker.victim].phase # "None" \/ worker.victim \in Out(c)'
  <2>1. worker.pc = "evict" => worker.victim \in Pods
    BY DEF ReconcilerInv, LocalsOK
  <2> QED
    BY <1>3, <2>1, CacheLoses DEF InHandRoom, ReconcilerInv
<1> QED
  BY <1>1, <1>5, <1>6, <1>7, <1>8 DEF InHandRoom

\* The core has to give what it lacks, and the victims chosen are enough or
\* all there are.
LEMMA CheckRoom ==
    ASSUME ReconcilerInv, CheckUtilization, NEW c, c = currentCore
    PROVE  InHandRoom(c)' /\ (worker'.pc = "utilization" => SettledRoom(c)')
<1>1. worker.pc \in MakingRoom /\ worker.pc = "utilization" /\ UNCHANGED poolVars
  BY DEF CheckUtilization, MakingRoom
<1>2. /\ Entries(c) \in CoreMap /\ Load(c) \in Nat /\ worker.millis \in Nat /\ worker \in Worker
  BY <1>1, CoreTypes
<1> DEFINE rest == worker.refilled \ {currentCore}
<1> DEFINE needed == Load(c) + worker.millis - UtilizationThreshold
<1>4. \/ worker' = [worker EXCEPT !.pc = "select", !.needed = needed, !.refilled = rest]
      \/ needed <= 0 /\ worker' = [worker EXCEPT !.i = @ + 1, !.refilled = rest]
  BY <1>2, PlacementAssumption DEF CheckUtilization, NeededBudget, Load
<1> HIDE DEF needed, rest
<1>5. CASE worker' = [worker EXCEPT !.pc = "select", !.needed = needed, !.refilled = rest]
  <2>1. /\ worker'.pc = "select" /\ worker'.needed = needed /\ worker'.millis = worker.millis
        /\ worker'.po = worker.po /\ worker'.rt = worker.rt
    BY <1>2, <1>5 DEF Worker
  <2>2. Load(c)' = Load(c)
    BY <1>1, <2>1 DEF Load, GetCoreUtilization, onNode, targetCores, poolVars
  <2>3. Load(c)' + worker'.millis - UtilizationThreshold <= worker'.needed
    BY <1>2, <2>1, <2>2, PlacementAssumption DEF needed
  <2> QED
    BY <2>1, <2>3 DEF InHandRoom
<1>6. CASE needed <= 0 /\ worker' = [worker EXCEPT !.i = @ + 1, !.refilled = rest]
  <2>1. /\ worker'.pc = "utilization" /\ worker'.millis = worker.millis
        /\ worker'.po = worker.po /\ worker'.rt = worker.rt
    BY <1>1, <1>2, <1>6 DEF Worker
  <2>2. Load(c)' = Load(c) /\ Entries(c)' = Entries(c)
    BY <1>1, <2>1 DEF Load, Entries, GetCoreUtilization, CorePods, onNode, targetCores, poolVars
  <2>3. Budget(Entries(c)', Out(c)') \in Nat
    BY <1>2, <2>2, BudgetFacts
  <2>4. Load(c)' + worker'.millis - Budget(Entries(c)', Out(c)') <= UtilizationThreshold
    BY <1>2, <1>6, <2>1, <2>2, <2>3, PlacementAssumption DEF needed
  <2>5. HasRoom(c, Out(c))'
    BY <2>4 DEF HasRoom, RoomIn
  <2> QED
    BY <2>1, <2>5 DEF InHandRoom, SettledRoom
<1> QED
  BY <1>4, <1>5, <1>6

LEMMA SelectRoom ==
    ASSUME ReconcilerInv, NEW c, c = currentCore, InHandRoom(c), SelectVictims
    PROVE  InHandRoom(c)'
<1>1. worker.pc \in MakingRoom /\ worker.pc = "select" /\ UNCHANGED poolVars
  BY DEF SelectVictims, MakingRoom, InTurn
<1>2. /\ Entries(c) \in CoreMap /\ Load(c) \in Nat /\ worker.millis \in Nat /\ worker \in Worker
      /\ worker.needed \in Nat
  BY <1>1, CoreTypes DEF Worker
<1> DEFINE C == Evictable(onNode, c, Criticality[key])
<1>4. PICK V \in SelectMinimumVictims(Entries(c), C, worker.needed) :
          worker' = [worker EXCEPT !.pc = "preempt", !.needed = 0,
                                   !.victims = Only(Entries(c), V)]
  BY DEF SelectVictims, Entries
<1>5. V \subseteq C /\ (Budget(Entries(c), V) >= worker.needed \/ V = C)
  BY DEF SelectMinimumVictims
<1>6. /\ worker'.pc = "preempt" /\ worker'.millis = worker.millis
      /\ worker'.po = worker.po /\ worker'.rt = worker.rt /\ worker'.key = worker.key
      /\ worker'.victims = Only(Entries(c), V)
  BY <1>2, <1>4 DEF Worker
<1>7. Load(c)' = Load(c) /\ Entries(c)' = Entries(c)
  BY <1>1, <1>6 DEF Load, Entries, GetCoreUtilization, CorePods, onNode, targetCores, poolVars
<1>8. \A v : v \in C <=> /\ v \in Pods /\ Entries(c)[v] # NoPod
                         /\ CriticalityRank(Entries(c)[v].Criticality)
                               < CriticalityRank(Criticality[key])
  BY DEF Evictable, GetPodsOnCore, Entries, CorePods, EmptyCore
<1> HIDE DEF C
<1>9. \A v \in Pods : v \in V => v \in Waiting'
  BY <1>5, <1>6, <1>8 DEF Waiting, Only
<1> DEFINE X == Out(c)' \cup Waiting'
<1>10. Budget(Entries(c), V) \in Nat /\ Budget(Entries(c), X) \in Nat
  BY <1>2, BudgetFacts
<1>11. Budget(Entries(c), V) <= Budget(Entries(c), X)
  <2>1. \A v \in Pods : v \in V => v \in X
    BY <1>9
  <2> HIDE DEF X
  <2> QED
    BY <1>2, <2>1, BudgetGrows
<1>12. RoomIn(Entries(c), Load(c), worker.millis, Criticality[key], X)
  <2>1. CASE Budget(Entries(c), V) >= worker.needed
    <3>1. Load(c) + worker.millis - UtilizationThreshold <= worker.needed
      BY <1>1 DEF InHandRoom
    <3> HIDE DEF X
    <3>2. Load(c) + worker.millis - Budget(Entries(c), X) <= UtilizationThreshold
      BY <1>2, <1>10, <1>11, <2>1, <3>1, PlacementAssumption
    <3> QED
      BY <3>2 DEF RoomIn
  <2>2. CASE V = C
    BY <1>8, <1>9, <2>2 DEF RoomIn
  <2> QED
    BY <1>5, <2>1, <2>2
<1>13. HasRoom(c, Out(c) \cup Waiting)'
  BY <1>6, <1>7, <1>12 DEF HasRoom, key
<1> QED
  BY <1>6, <1>13 DEF InHandRoom

\* A victim in turn is given up on, or it is in hand.
LEMMA PreemptRoom ==
    ASSUME ReconcilerInv, NEW c, c = currentCore, InHandRoom(c), NEW v \in Pods, PreemptPod(v)
    PROVE  InHandRoom(c)'
<1>1. worker.pc \in MakingRoom /\ worker.pc = "preempt" /\ UNCHANGED poolVars /\ RoomAction
  BY DEF PreemptPod, MakingRoom, InTurn, RoomAction
<1>2. worker \in Worker
  BY <1>1, CoreTypes
<1> DEFINE rest == [worker EXCEPT !.victims[v] = NoPod]
<1>4. \/ worker' = [rest EXCEPT !.skipped = @ \cup {v}]
      \/ /\ podCache[v].phase # "None"
         /\ worker' = [rest EXCEPT !.pc = "evict", !.victim = v]
      \/ \E i, d : /\ d # c
                   /\ worker' = [rest EXCEPT !.pc = "migrateOff", !.victim = v,
                                             !.info = i, !.target = d]
  BY DEF PreemptPod, MigrationTargets
<1>5. /\ rest \in Worker /\ rest.pc = "preempt" /\ rest.skipped = worker.skipped
      /\ rest.victims = [worker.victims EXCEPT ![v] = NoPod]
  BY <1>1, <1>2 DEF Worker
<1> HIDE DEF rest
<1>6. worker'.victims = rest.victims
  <2>1. CASE worker' = [rest EXCEPT !.skipped = @ \cup {v}]
    BY <1>5, <2>1 DEF Worker
  <2>2. CASE worker' = [rest EXCEPT !.pc = "evict", !.victim = v]
    BY <1>5, <2>2 DEF Worker
  <2>3. ASSUME NEW i, NEW d, worker' = [rest EXCEPT !.pc = "migrateOff", !.victim = v,
                                                    !.info = i, !.target = d]
        PROVE  worker'.victims = rest.victims
    BY <1>5, <2>3 DEF Worker
  <2> QED
    BY <1>4, <2>1, <2>2, <2>3
<1>7. worker'.po = worker.po /\ worker'.rt = worker.rt /\ podCache' = podCache
  BY <1>1, RoomActionKeeps DEF ReconcilerInv
<1>8. Shrunk(c, {}) /\ targetCores' = targetCores
  BY <1>1, <1>7, CoreSteps DEF targetCores
<1>9. \A u \in Pods : u \in Out(c) => u \in Out(c)'
  BY <1>1, <1>8, OutGrows
<1>10. \A u \in Pods : u \in Waiting => u \in Waiting' \/ u = v
  BY <1>2, <1>5, <1>6 DEF Waiting, Worker
<1> DEFINE X == Out(c) \cup Waiting
<1>11. HasRoom(c, X)
  BY <1>1 DEF InHandRoom
<1>12. ASSUME NEW Y, \A u \in Pods : u \in X => u \in Y
       PROVE  RoomIn(Entries(c)', Load(c)', worker'.millis, Criticality[worker'.key], Y)
  <2> HIDE DEF X
  <2> QED
    BY <1>1, <1>8, <1>11, <1>12, HasRoomStep
<1>13. CASE worker' = [rest EXCEPT !.skipped = @ \cup {v}]
  <2>1. worker'.pc = "preempt" /\ v \in worker'.skipped
    BY <1>5, <1>13 DEF Worker
  <2>2. v \in Out(c)'
    BY <2>1 DEF Out
  <2>3. HasRoom(c, Out(c) \cup Waiting)'
    BY <1>9, <1>10, <1>12, <2>2 DEF HasRoom, key
  <2> QED
    BY <2>1, <2>3 DEF InHandRoom
<1>14. ASSUME worker'.victim = v
       PROVE  HasRoom(c, Out(c) \cup Waiting \cup {worker.victim})'
  BY <1>9, <1>10, <1>12, <1>14 DEF HasRoom, key
<1>15. CASE /\ podCache[v].phase # "None"
            /\ worker' = [rest EXCEPT !.pc = "evict", !.victim = v]
  <2>1. worker'.pc = "evict" /\ worker'.victim = v
    BY <1>5, <1>15 DEF Worker
  <2> QED
    BY <1>7, <1>14, <1>15, <2>1 DEF InHandRoom
<1>16. CASE \E i, d : /\ d # c
                      /\ worker' = [rest EXCEPT !.pc = "migrateOff", !.victim = v,
                                                !.info = i, !.target = d]
  <2>1. worker'.pc = "migrateOff" /\ worker'.victim = v /\ worker'.target # c
    BY <1>5, <1>16 DEF Worker
  <2> QED
    BY <1>8, <1>14, <2>1 DEF InHandRoom
<1> QED
  BY <1>4, <1>13, <1>15, <1>16

\* The victim in hand is seen out.
LEMMA VictimRoom ==
    ASSUME ReconcilerInv, CacheShape, NEW c, c = currentCore, InHandRoom(c),
           used'["failure"] = 0,
           NoVictimLeft \/ MigrateOff \/ MigrateOn \/ MigrateStatus \/ Evict
    PROVE  InHandRoom(c)' /\ (worker'.pc = "utilization" => SettledRoom(c)')
<1>1. worker.pc \in MakingRoom /\ RoomAction
  BY DEF NoVictimLeft, MigrateOff, MigrateOn, MigrateStatus, Evict, MakingRoom, InTurn,
         RoomAction
<1>2. worker \in Worker
  BY <1>1, CoreTypes
<1>3. /\ worker'.po = worker.po /\ worker'.rt = worker.rt
      /\ targetCores' = targetCores /\ onNode' = onNode
  BY <1>1, RoomActionKeeps DEF ReconcilerInv, targetCores, onNode
<1>4. ASSUME NEW G, Shrunk(c, G), NEW X, HasRoom(c, X), NEW Y,
             \A v \in Pods : (v \in G => v \in X) /\ (v \in X => v \in Y)
      PROVE  RoomIn(Entries(c)', Load(c)', worker'.millis, Criticality[worker'.key], Y)
  BY <1>1, <1>4, HasRoomStep
<1>5. CASE NoVictimLeft \/ MigrateOn \/ MigrateStatus \/ Evict
  <2>0. UNCHANGED poolVars \/ MigrateOn
    BY <1>5 DEF NoVictimLeft, MigrateStatus, Evict
  <2>1. Shrunk(c, {})
    BY <1>1, <1>3, <2>0, CoreSteps DEF MigrateOn, InHandRoom
  <2>2. \A v \in Pods : v \in Out(c) => v \in Out(c)'
    BY <1>1, <2>1, OutGrows
  <2>3. ASSUME NEW X, HasRoom(c, X), NEW Y, \A v \in Pods : v \in X => v \in Y
        PROVE  RoomIn(Entries(c)', Load(c)', worker'.millis, Criticality[worker'.key], Y)
    BY <1>4, <2>1, <2>3
  <2>4. CASE NoVictimLeft
    <3>1. worker'.pc = "utilization" /\ worker.pc = "preempt" /\ Waiting = {}
      BY <1>2, <2>4 DEF NoVictimLeft, Worker
    <3>2. HasRoom(c, Out(c))'
      BY <2>2, <2>3, <3>1 DEF InHandRoom, HasRoom, key
    <3> QED
      BY <3>1, <3>2 DEF InHandRoom, SettledRoom
  <2>6. CASE MigrateOn \/ MigrateStatus
    <3>1. /\ worker.pc \in {"migrateOn", "migrateStatus"} /\ worker'.victims = worker.victims
          /\ worker'.pc \in {"migrateStatus", "preempt"}
      <4>1. CASE MigrateOn
        BY <1>2, <4>1 DEF MigrateOn, Worker
      <4>2. CASE MigrateStatus
        BY <1>2, <4>2 DEF MigrateStatus, NextVictim, Worker
      <4> QED
        BY <2>6, <4>1, <4>2
    <3>2. HasRoom(c, Out(c) \cup Waiting) /\ Waiting' = Waiting
      BY <3>1 DEF InHandRoom, Waiting
    <3>3. HasRoom(c, Out(c) \cup Waiting)'
      BY <2>2, <2>3, <3>2 DEF HasRoom, key
    <3> QED
      BY <3>1, <3>3 DEF InHandRoom
  <2>7. CASE Evict
    <3>1. worker.pc = "evict" /\ worker'.pc = "preempt" /\ worker'.victims = worker.victims
      BY <1>2, <2>7 DEF Evict, NextVictim, Worker
    <3>2. worker.victim \in Pods
      BY <3>1 DEF ReconcilerInv, LocalsOK
    <3>3. pod \in [Pods -> PodState] /\ used \in [Kinds -> Nat] /\ "failure" \in Kinds
      BY KindNames DEF ReconcilerInv, TypeOK
    <3>4. ~ Spend("failure")
      BY <3>3 DEF Spend
    <3>5. \/ pod' = [pod EXCEPT ![worker.victim].deleting = TRUE]
          \/ pod[worker.victim].phase = "None" \/ pod[worker.victim].deleting
      BY <2>7, <3>4 DEF Evict
    <3>6. worker.victim \in Out(c)'
      <4>1. CASE pod' = [pod EXCEPT ![worker.victim].deleting = TRUE]
        <5>1. pod'[worker.victim].deleting
          BY <3>2, <3>3, <4>1 DEF PodState
        <5> QED
          BY <3>2, <5>1 DEF Out, Doomed
      <4>2. CASE pod[worker.victim].phase = "None" \/ pod[worker.victim].deleting
        <5>1. worker.victim \in Out(c)
          BY <3>1, <3>2, <4>2 DEF InHandRoom, CacheShape, Out, Doomed
        <5> QED
          BY <2>2, <3>2, <5>1
      <4> QED
        BY <3>5, <4>1, <4>2
    <3>7. HasRoom(c, Out(c) \cup Waiting \cup {worker.victim}) /\ Waiting' = Waiting
      BY <3>1 DEF InHandRoom, Waiting
    <3>8. HasRoom(c, Out(c) \cup Waiting)'
      BY <2>2, <2>3, <3>6, <3>7 DEF HasRoom, key
    <3> QED
      BY <3>1, <3>8 DEF InHandRoom
  <2> QED
    BY <1>5, <2>4, <2>6, <2>7
<1>6. CASE MigrateOff
  <2>1. /\ worker.pc = "migrateOff" /\ worker'.pc = "migrateOn" /\ worker'.target = worker.target
        /\ worker'.victims = worker.victims /\ worker.victim \in Pods
        /\ RemovePodFromCore(onNode, currentCore, worker.victim)
    BY <1>2, <1>6 DEF MigrateOff, Goto, Worker, ReconcilerInv, LocalsOK
  <2>3. Shrunk(c, {worker.victim})
    BY <1>1, <1>3, <2>1, CoreSteps
  <2>4. \A v \in Pods : v \in Out(c) => v \in Out(c)'
    BY <1>1, <2>3, OutGrows
  <2>5. worker.victim \in Out(c)'
    BY <2>1, <2>3 DEF Out, Shrunk, Only
  <2>6. HasRoom(c, Out(c) \cup Waiting \cup {worker.victim}) /\ Waiting' = Waiting
    BY <2>1 DEF InHandRoom, Waiting
  <2>7. HasRoom(c, Out(c) \cup Waiting)'
    <3> DEFINE X == Out(c) \cup Waiting \cup {worker.victim}
               Y == Out(c)' \cup Waiting'
    <3>1. \A v \in Pods : (v \in {worker.victim} => v \in X) /\ (v \in X => v \in Y)
      BY <2>4, <2>5, <2>6
    <3>2. HasRoom(c, X)
      BY <2>6
    <3> HIDE DEF X, Y
    <3>3. RoomIn(Entries(c)', Load(c)', worker'.millis, Criticality[worker'.key], Y)
      BY <1>4, <2>3, <3>1, <3>2
    <3> QED
      BY <3>3 DEF HasRoom, key, Y
  <2> QED
    BY <1>3, <2>1, <2>7 DEF InHandRoom
<1> QED
  BY <1>5, <1>6

\* The index moves on only when a core is done with.
LEMMA IndexStep ==
    ASSUME TypeOK, RoomAction
    PROVE  /\ CheckUtilization => \/ worker'.pc = "select" /\ worker'.i = worker.i
                                  \/ worker'.pc = "utilization" /\ worker'.i = worker.i + 1
           /\ NoVictimLeft => worker'.pc = "utilization" /\ worker'.i = worker.i + 1
           /\ PreemptionDone => worker'.pc = "entry"
           /\ ~ CheckUtilization /\ ~ NoVictimLeft /\ ~ PreemptionDone =>
                 worker.pc \in InTurn /\ worker'.pc \in InTurn /\ worker'.i = worker.i
<1>0. worker \in Worker
  BY DEF TypeOK
<1>1. CASE CheckUtilization
  BY <1>0, <1>1 DEF CheckUtilization, NoVictimLeft, PreemptionDone, Worker
<1>2. CASE NoVictimLeft \/ PreemptionDone
  BY <1>0, <1>2 DEF CheckUtilization, NoVictimLeft, PreemptionDone, Worker
<1>3. CASE SelectVictims
  BY <1>0, <1>3 DEF SelectVictims, CheckUtilization, NoVictimLeft, PreemptionDone, Worker, InTurn
<1>4. CASE MigrateOff \/ MigrateOn \/ MigrateStatus \/ Evict
  <2>1. /\ worker.pc \in {"migrateOff", "migrateOn", "migrateStatus", "evict"}
        /\ worker'.pc \in {"migrateOn", "migrateStatus", "preempt"} /\ worker'.i = worker.i
    <3>1. CASE MigrateOff
      BY <1>0, <3>1 DEF MigrateOff, Goto, Worker
    <3>2. CASE MigrateOn
      BY <1>0, <3>2 DEF MigrateOn, Worker
    <3>3. CASE MigrateStatus
      BY <1>0, <3>3 DEF MigrateStatus, NextVictim, Worker
    <3>4. CASE Evict
      BY <1>0, <3>4 DEF Evict, NextVictim, Worker
    <3> QED
      BY <1>4, <3>1, <3>2, <3>3, <3>4
  <2> QED
    BY <2>1 DEF CheckUtilization, NoVictimLeft, PreemptionDone, InTurn
<1>5. ASSUME NEW v \in Pods, PreemptPod(v)
      PROVE  worker.pc = "preempt" /\ worker'.pc \in InTurn /\ worker'.i = worker.i
  <2> DEFINE rest == [worker EXCEPT !.victims[v] = NoPod]
  <2>1. \/ worker' = [rest EXCEPT !.skipped = @ \cup {v}]
        \/ worker' = [rest EXCEPT !.pc = "evict", !.victim = v]
        \/ \E i, d : worker' = [rest EXCEPT !.pc = "migrateOff", !.victim = v,
                                            !.info = i, !.target = d]
    BY <1>5 DEF PreemptPod
  <2>2. rest \in Worker /\ rest.pc = "preempt" /\ rest.i = worker.i /\ worker.pc = "preempt"
    BY <1>0, <1>5 DEF Worker, PreemptPod
  <2> HIDE DEF rest
  <2>3. CASE worker' = [rest EXCEPT !.skipped = @ \cup {v}]
    BY <2>2, <2>3 DEF Worker, InTurn
  <2>4. CASE worker' = [rest EXCEPT !.pc = "evict", !.victim = v]
    BY <2>2, <2>4 DEF Worker, InTurn
  <2>5. CASE \E i, d : worker' = [rest EXCEPT !.pc = "migrateOff", !.victim = v,
                                              !.info = i, !.target = d]
    BY <2>2, <2>5 DEF Worker, InTurn
  <2> QED
    BY <2>1, <2>3, <2>4, <2>5
<1>6. CASE \E v \in Pods : PreemptPod(v)
  <2>1. worker.pc = "preempt" /\ worker'.pc \in InTurn /\ worker'.i = worker.i
    BY <1>5, <1>6
  <2>2. CASE ~ NoVictimLeft
    BY <2>1, <2>2 DEF CheckUtilization, PreemptionDone, InTurn
  <2>3. CASE NoVictimLeft
    BY <1>2, <2>3
  <2> QED
    BY <2>2, <2>3
<1> QED
  BY <1>1, <1>2, <1>3, <1>4, <1>6 DEF RoomAction

\* A core that is not in hand is left as it was settled.
LEMMA CheckedStep ==
    ASSUME TypeOK, RoomAction, NEW c, ~ InHand(c), ~ (CheckUtilization /\ c = currentCore)
    PROVE  ~ InHand(c)' /\ (Checked(c)' => Checked(c))
<1>1. /\ worker'.rt = worker.rt /\ worker.pc \in MakingRoom /\ worker \in Worker
  BY RoomActionKeeps DEF TypeOK
<1>2. targetCores' = targetCores /\ targetCores \in Seq(CoreIDs) /\ worker.i \in Nat \ {0}
  BY <1>1 DEF targetCores, Worker, CR
<1>3. CASE CheckUtilization
  <2>1. c # currentCore /\ worker.pc = "utilization"
    BY <1>3 DEF CheckUtilization
  <2>2. CASE worker'.pc = "select" /\ worker'.i = worker.i
    BY <1>2, <2>1, <2>2 DEF InHand, Checked, currentCore
  <2>3. CASE worker'.pc = "utilization" /\ worker'.i = worker.i + 1
    BY <1>2, <2>1, <2>3 DEF InHand, InTurn, Checked, currentCore
  <2> QED
    BY <1>3, <2>2, <2>3, IndexStep
<1>4. CASE NoVictimLeft
  <2>1. worker.pc = "preempt" /\ worker'.pc = "utilization" /\ worker'.i = worker.i + 1
    BY <1>4, IndexStep DEF NoVictimLeft
  <2>2. c # currentCore
    BY <2>1 DEF InHand, InTurn
  <2> QED
    BY <1>2, <2>1, <2>2 DEF InHand, InTurn, Checked, currentCore
<1>5. CASE PreemptionDone
  <2>1. worker'.pc = "entry" /\ worker.i \notin DOMAIN targetCores
    BY <1>5, IndexStep DEF PreemptionDone
  <2>2. \A k \in DOMAIN targetCores : k < worker.i
    BY <1>2, <2>1
  <2> QED
    BY <1>2, <2>1, <2>2 DEF InHand, InTurn, Checked
<1>6. CASE ~ CheckUtilization /\ ~ NoVictimLeft /\ ~ PreemptionDone
  <2>1. worker.pc \in InTurn /\ worker'.pc \in InTurn /\ worker'.i = worker.i
    BY <1>6, IndexStep
  <2>2. worker'.pc # "entry"
    BY <2>1 DEF InTurn
  <2> QED
    BY <1>2, <2>1, <2>2 DEF InHand, Checked, currentCore
<1> QED
  BY <1>3, <1>4, <1>5, <1>6

LEMMA RoomStepsStep ==
    ASSUME ReconcilerInv, RoomInv, [Next]_vars, NoFailure', NEW c \in CoreIDs
    PROVE  RoomSteps(c)'
<1>1. TypeOK /\ CacheShape
  BY DEF ReconcilerInv, RoomInv
<1>2. used["failure"] = 0 /\ used'["failure"] = 0
  BY <1>1, FailuresStep DEF NoFailure
<1>3. RoomSteps(c)
  BY <1>2 DEF RoomInv, NoFailure
<1>4. CASE worker'.pc \notin MakingRoom
  BY <1>4 DEF RoomSteps, InHand, MakingRoom
<1>5. CASE worker'.pc \in MakingRoom /\ CheckRegistered
  <2>1. worker.i = 1 /\ worker \in Worker
    BY <1>5 DEF CheckRegistered, RoomInv, FreshIndex, ReconcilerInv, TypeOK
  <2>2. worker'.i = 1 /\ worker'.pc = "utilization" /\ worker'.rt = worker.rt
    BY <1>5, <2>1 DEF CheckRegistered, Goto, Worker, MakingRoom, InTurn
  <2>3. targetCores' \in Seq(CoreIDs)
    BY <2>1, <2>2 DEF targetCores, Worker, CR
  <2>4. ~ InHand(c)' /\ ~ Checked(c)'
    BY <2>2, <2>3 DEF InHand, InTurn, Checked
  <2> QED
    BY <2>4 DEF RoomSteps
<1>6. CASE worker'.pc \in MakingRoom /\ Bystander
  <2>1. worker' = worker
    BY <1>6, BystanderKeeps
  <2>2. (InHand(c)' <=> InHand(c)) /\ (Checked(c)' <=> Checked(c))
    BY <2>1 DEF InHand, Checked, currentCore, targetCores
  <2>3. InHand(c) => InHandRoom(c)'
    BY <1>1, <1>3, <1>6, <2>1, BystanderRoom DEF RoomSteps
  <2>4. ~ (CheckUtilization /\ c = currentCore)
    <3>1. ASSUME CheckUtilization PROVE worker' # worker
      <4>1. worker \in Worker /\ worker.pc = "utilization" /\ RoomAction
        BY <1>1, <3>1 DEF TypeOK, CheckUtilization, RoomAction
      <4>2. worker.i \in Nat
        BY <4>1 DEF Worker
      <4> QED
        BY <1>1, <3>1, <4>1, <4>2, IndexStep
    <3> QED
      BY <2>1, <3>1
  <2>5. ~ InHand(c) /\ Checked(c) => SettledRoom(c)'
    BY <1>3, <1>6, <2>1, <2>4, SettledStep DEF RoomSteps
  <2> QED
    BY <2>2, <2>3, <2>5 DEF RoomSteps
<1>7. CASE RoomAction /\ CheckUtilization /\ c = currentCore
  <2>1. InHandRoom(c)' /\ (worker'.pc = "utilization" => SettledRoom(c)')
    BY <1>7, CheckRoom
  <2>2. \/ worker'.pc = "select" /\ worker'.i = worker.i
        \/ worker'.pc = "utilization"
    BY <1>1, <1>7, IndexStep
  <2>3. worker'.rt = worker.rt
    BY <1>1, <1>7, RoomActionKeeps
  <2>4. worker'.pc = "select" => InHand(c)'
    BY <1>7, <2>2, <2>3 DEF InHand, InTurn, currentCore, targetCores
  <2> QED
    BY <2>1, <2>2, <2>4 DEF RoomSteps
<1>8. CASE RoomAction /\ InHand(c)
  <2>1. c = currentCore /\ InHandRoom(c) /\ worker.pc \in InTurn
    BY <1>3, <1>8 DEF InHand, RoomSteps
  <2>2. ~ CheckUtilization /\ ~ PreemptionDone
    BY <2>1 DEF InTurn, CheckUtilization, PreemptionDone
  <2>3. InHandRoom(c)' /\ (worker'.pc = "utilization" => SettledRoom(c)')
    <3>1. CASE SelectVictims \/ \E v \in Pods : PreemptPod(v)
      <4>1. InHandRoom(c)'
        BY <2>1, <3>1, SelectRoom, PreemptRoom
      <4>2. CASE NoVictimLeft
        BY <1>1, <1>2, <2>1, <4>2, VictimRoom
      <4>3. CASE ~ NoVictimLeft
        <5>1. worker'.pc \in InTurn
          BY <1>1, <1>8, <2>2, <4>3, IndexStep
        <5> QED
          BY <4>1, <5>1 DEF InTurn
      <4> QED
        BY <4>2, <4>3
    <3>2. CASE NoVictimLeft \/ MigrateOff \/ MigrateOn \/ MigrateStatus \/ Evict
      BY <1>1, <1>2, <2>1, <3>2, VictimRoom
    <3> QED
      BY <1>8, <2>2, <3>1, <3>2 DEF RoomAction
  <2>4. CASE NoVictimLeft
    <3>1. worker'.pc = "utilization"
      BY <1>1, <1>8, <2>4, IndexStep
    <3> QED
      BY <2>3, <3>1 DEF RoomSteps
  <2>5. CASE ~ NoVictimLeft
    <3>1. worker'.pc \in InTurn /\ worker'.i = worker.i /\ worker'.rt = worker.rt
      BY <1>1, <1>8, <2>2, <2>5, IndexStep, RoomActionKeeps
    <3>2. InHand(c)'
      BY <2>1, <3>1 DEF InHand, currentCore, targetCores
    <3> QED
      BY <2>3, <3>2 DEF RoomSteps
  <2> QED
    BY <2>4, <2>5
<1>9. CASE RoomAction /\ ~ InHand(c) /\ ~ (CheckUtilization /\ c = currentCore)
  <2>1. ~ InHand(c)' /\ (Checked(c)' => Checked(c))
    BY <1>1, <1>9, CheckedStep
  <2>2. worker.pc \in MakingRoom
    BY <1>1, <1>9, RoomActionKeeps
  <2>3. Checked(c) => SettledRoom(c)'
    BY <1>3, <1>9, <2>2, SettledStep DEF RoomSteps
  <2> QED
    BY <2>1, <2>3 DEF RoomSteps
<1> QED
  BY <1>1, <1>4, <1>5, <1>6, <1>7, <1>8, <1>9, MakingRoomStep

LEMMA FreshIndexStep ==
    ASSUME ReconcilerInv, FreshIndex, [Next]_vars
    PROVE  FreshIndex'
<1> DEFINE Early == {"allocate", "budget", "check"}
<1>0. worker \in Worker
  BY DEF ReconcilerInv, TypeOK
<1>1. CASE worker' = worker
  BY <1>1 DEF FreshIndex
<1>2. CASE worker'.i = 1
  BY <1>2 DEF FreshIndex
<1>3. CASE worker'.pc \notin Early
  BY <1>3 DEF FreshIndex
<1>4. ASSUME NEW p \in Pods, Outside(p) PROVE worker' = worker \/ worker'.i = 1
  <2>1. CASE Begin(p)
    BY <2>1 DEF Begin, IdleWorker
  <2> QED
    BY <1>4, <2>1, OutsideKeepsLocals
<1>5. CASE HandlerStep \/ UNCHANGED vars
  BY <1>1, <1>5 DEF HandlerStep, HandleLiveEvent, HandleTerminatingEvent, HandlerDrop,
                    HandlerEnqueue, vars
<1>6. CASE Allocate \/ ReadBudget
  <2>1. worker.i = 1
    BY <1>6 DEF Allocate, ReadBudget, FreshIndex
  <2> QED
    BY <1>0, <1>2, <1>6, <2>1 DEF Allocate, ReadBudget, Goto, Worker
<1>7. CASE RemoveFinalizer \/ AddFinalizer \/ SetNode \/ Finish \/ RecoverDone \/ Restart
  BY <1>2, <1>7 DEF RemoveFinalizer, AddFinalizer, SetNode, Finish, RecoverDone, Restart,
                    Requeue, IdleWorker
<1>8. CASE Cleanup \/ RecoverBegin \/ RecoverEnd
  <2>1. worker'.pc \in {"drop", "recover"}
    BY <1>0, <1>8 DEF Cleanup, RecoverBegin, RecoverEnd, Worker
  <2> QED
    BY <1>3, <2>1
<1>9. CASE (\E n \in Nodes : CleanupDrop(n)) \/ (\E p \in Pods : RecoverPod(p))
  <2>1. worker'.pc \in {"drop", "recover", "revert"}
    BY <1>0, <1>9 DEF CleanupDrop, RecoverPod, Worker
  <2> QED
    BY <1>3, <2>1
<1>10. CASE CheckRegistered \/ CheckUtilization \/ MigrateOff \/ MigrateOn
  <2>1. worker'.pc \in {"tail", "utilization", "select", "migrateOn", "migrateStatus"}
    BY <1>0, <1>10 DEF CheckRegistered, CheckUtilization, MigrateOff, MigrateOn, Goto, Worker
  <2> QED
    BY <1>3, <2>1
<1>11. CASE \/ SelectVictims \/ NoVictimLeft \/ PreemptionDone \/ PrepareEntry
            \/ CompareEntry \/ Unregister \/ MigrateStatus \/ Evict
            \/ \E v \in Pods : PreemptPod(v)
  <2>1. worker'.pc \in {"preempt", "evict", "migrateOff", "utilization", "entry", "compare",
                        "unregister", "tail", "register"}
    BY <1>0, <1>11, NextPC DEF MigrateStatus, Evict
  <2> QED
    BY <1>3, <2>1
<1>12. CASE Register
  <2>1. worker'.pc \in {"unregister", "tail"}
    BY <1>0, <1>12 DEF Register, Worker
  <2> QED
    BY <1>3, <2>1
<1> QED
  BY <1>1, <1>2, <1>4, <1>5, <1>6, <1>7, <1>8, <1>9, <1>10, <1>11, <1>12
  DEF Next, Outside, WorkerStep

LEMMA CacheShapeStep ==
    ASSUME TypeOK, CacheShape, [Next]_vars
    PROVE  CacheShape'
<1>1. pod \in [Pods -> PodState] /\ podCache \in [Pods -> PodState]
  BY DEF TypeOK
<1>2. CASE UNCHANGED <<pod, podCache>>
  BY <1>2 DEF CacheShape
<1> DEFINE Sound(p, s) == /\ s.phase # "None" \/ pod[p].deleting
                          /\ pod[p].deleting => s.phase = "None" \/ s.deleting
<1>3. ASSUME NEW p \in Pods, NEW s, SetPod(p, s), Sound(p, s)
      PROVE  CacheShape'
  <2>1. podCache[p] = pod[p] /\ pod' = [pod EXCEPT ![p] = s] /\ podCache' = podCache
    BY <1>3 DEF SetPod
  <2> QED
    BY <1>1, <1>3, <2>1 DEF CacheShape
<1>4. ASSUME NEW p \in Pods, Environment(p) \/ Kubelet(p)
      PROVE  \/ UNCHANGED <<pod, podCache>>
             \/ \E s : SetPod(p, s) /\ Sound(p, s)
  <2>1. CASE CreateCR(p) \/ DeleteCR(p) \/ OverrunBegin(p)
    BY <2>1 DEF CreateCR, DeleteCR, OverrunBegin, apiVars
  <2>2. CASE CreatePod(p)
    BY <2>2 DEF CreatePod, AbsentPod
  <2>3. CASE FinishPod(p)
    <3>1. /\ [pod[p] EXCEPT !.phase = "Done"].phase = "Done"
          /\ [pod[p] EXCEPT !.phase = "Done"].deleting = pod[p].deleting
      BY <1>1 DEF PodState
    <3> QED
      BY <2>3, <3>1 DEF FinishPod
  <2>4. CASE DeletePod(p)
    <3>1. /\ [pod[p] EXCEPT !.deleting = TRUE].phase = pod[p].phase
          /\ [pod[p] EXCEPT !.deleting = TRUE].deleting
      BY <1>1 DEF PodState
    <3> QED
      BY <2>4, <3>1 DEF DeletePod
  <2>5. ASSUME NEW n \in Nodes, SchedulePod(p, n)
        PROVE  \E s : SetPod(p, s) /\ Sound(p, s)
    <3>1. [pod[p] EXCEPT !.node = n].phase = pod[p].phase
      BY <1>1 DEF PodState
    <3> QED
      BY <2>5, <3>1 DEF SchedulePod
  <2>6. CASE RemovePod(p)
    BY <2>6 DEF RemovePod, AbsentPod
  <2> QED
    BY <1>4, <2>1, <2>2, <2>3, <2>4, <2>5, <2>6 DEF Environment, Kubelet
<1>5. ASSUME NEW p \in Pods, SyncPod(p) PROVE CacheShape'
  <2>1. podCache' = [podCache EXCEPT ![p] = pod[p]] /\ pod' = pod
    BY <1>5 DEF SyncPod
  <2> QED
    BY <1>1, <2>1 DEF CacheShape
<1>6. CASE Evict
  <2>1. podCache' = podCache
        /\ (pod' = pod \/ pod' = [pod EXCEPT ![worker.victim].deleting = TRUE])
    BY <1>6 DEF Evict
  <2>2. \A v \in Pods : /\ pod'[v].phase = pod[v].phase
                        /\ pod[v].deleting => pod'[v].deleting
    BY <1>1, <2>1 DEF PodState
  <2> QED
    BY <2>1, <2>2 DEF CacheShape
<1>7. CASE Restart
  BY <1>1, <1>7 DEF Restart, CacheShape
<1>8. ASSUME NEW p \in Pods,
             SyncCR(p) \/ OverrunEnd(p) \/ OverrunRefused(p) \/ Dequeue(p)
      PROVE  UNCHANGED <<pod, podCache>>
  BY <1>8 DEF SyncCR, OverrunEnd, OverrunRefused, Dequeue, Begin, BeginNothing, Work, apiVars
<1>9. CASE HandlerStep \/ UNCHANGED vars
  BY <1>2, <1>9 DEF HandlerStep, HandleLiveEvent, HandleTerminatingEvent, HandlerDrop,
                    HandlerEnqueue, vars, apiVars
<1>10. CASE WorkerStep /\ ~ Evict
  <2>1. UNCHANGED <<pod, podCache>>
    BY <1>10 DEF WorkerStep, Cleanup, CleanupDrop, RemoveFinalizer, AddFinalizer, SetNode,
       Allocate, ReadBudget, CheckRegistered, CheckUtilization, SelectVictims, NoVictimLeft,
       PreemptPod, MigrateOff, MigrateOn, MigrateStatus, PreemptionDone, PrepareEntry,
       CompareEntry, Unregister, Register, Finish, RecoverBegin, RecoverPod, RecoverEnd,
       RecoverDone, Local, Work
  <2> QED
    BY <1>2, <2>1
<1> QED
  BY <1>2, <1>3, <1>4, <1>5, <1>6, <1>7, <1>8, <1>9, <1>10 DEF Next, Informer

LEMMA RoomInit == Init => RoomInv
<1> SUFFICES ASSUME Init PROVE RoomInv
  OBVIOUS
<1>1. worker.pc = "idle"
  BY DEF Init, IdleWorker
<1>2. CacheShape
  BY DEF Init, CacheShape
<1>3. \A c \in CoreIDs : RoomSteps(c)
  BY <1>1 DEF RoomSteps, InHand, InTurn, MakingRoom
<1> QED
  BY <1>1, <1>2, <1>3 DEF RoomInv, FreshIndex

LEMMA RoomInvariant == Spec => [](ReconcilerInv /\ RoomInv)
<1> DEFINE Both == ReconcilerInv /\ RoomInv
<1>1. Init => Both
  BY InvInit, RoomInit
<1>2. Both /\ [Next]_vars => Both'
  <2> SUFFICES ASSUME Both, [Next]_vars PROVE Both'
    OBVIOUS
  <2>1. ReconcilerInv'
    BY InvStep
  <2>2. CacheShape' /\ FreshIndex'
    BY CacheShapeStep, FreshIndexStep DEF RoomInv, ReconcilerInv
  <2>3. NoFailure' => \A c \in CoreIDs : RoomSteps(c)'
    BY RoomStepsStep
  <2> QED
    BY <2>1, <2>2, <2>3 DEF RoomInv
<1> HIDE DEF Both
<1>3. Spec => []Both
  BY <1>1, <1>2, PTL DEF Spec
<1> QED
  BY <1>3 DEF Both

(***************************************************************************)
(* Room is made before it is taken, for every number of pods, cores and    *)
(* target cores, every RT setting and any number of events around the      *)
(* Reconcile: when updateCPUPoolForPod is reached, the newcomer fits on    *)
(* every core beside the pods that stay, or checkAndPreemptForPod has left *)
(* no pod of lower criticality there, unless a victim of another core was  *)
(* migrated onto it in the meantime.                                       *)
(***************************************************************************)
THEOREM RoomIsMade == Spec => []RoomMade
<1>1. ReconcilerInv /\ RoomInv => RoomMade
  <2> SUFFICES ASSUME ReconcilerInv, RoomInv, worker.pc = "entry", used["failure"] = 0,
                      NEW i \in DOMAIN targetCores, NEW c, c = targetCores[i]
               PROVE  \/ c \in worker.refilled
                      \/ Load(c) + worker.millis - Budget(Entries(c), Excepted)
                            <= UtilizationThreshold
                      \/ Evictable(onNode, c, Criticality[key]) \subseteq Excepted
    BY DEF RoomMade, Load, Entries
  <2>1. /\ Entries(c) \in CoreMap /\ Load(c) \in Nat /\ worker.millis \in Nat
        /\ targetCores \in Seq(CoreIDs)
    BY CoreTypes DEF MakingRoom
  <2>2. c \in CoreIDs
    BY <2>1
  <2>3. SettledRoom(c)
    BY <2>2 DEF RoomInv, NoFailure, RoomSteps, MakingRoom, InHand, InTurn, Checked
  <2>4. \A v \in Pods : v \in Out(c) => v \in Excepted \/ Entries(c)[v] = NoPod
    <3> SUFFICES ASSUME NEW v \in Pods, Doomed(v) PROVE Leaving(v)
      BY DEF Out, Excepted
    <3> QED
      BY DEF RoomInv, CacheShape, Doomed, Leaving
  <2> DEFINE D == {v \in Out(c) : Entries(c)[v] # NoPod}
  <2>5. CASE Load(c) + worker.millis - Budget(Entries(c), Out(c)) <= UtilizationThreshold
    <3>1. Only(Entries(c), Out(c)) = Only(Entries(c), D)
      BY DEF Only
    <3>2. \A v \in Pods : v \in D => v \in Excepted
      BY <2>4
    <3> HIDE DEF D
    <3>3. Budget(Entries(c), Out(c)) <= Budget(Entries(c), Excepted)
      BY <2>1, <3>1, <3>2, BudgetGrows DEF Budget
    <3>4. Budget(Entries(c), Out(c)) \in Nat /\ Budget(Entries(c), Excepted) \in Nat
      BY <2>1, BudgetFacts
    <3> QED
      BY <2>1, <2>5, <3>3, <3>4, PlacementAssumption
  <2>6. CASE \A v \in Pods : Entries(c)[v] # NoPod /\ CriticalityRank(Entries(c)[v].Criticality)
                                < CriticalityRank(Criticality[key]) => v \in Out(c)
    BY <2>4, <2>6 DEF Evictable, GetPodsOnCore, Entries, CorePods
  <2> QED
    BY <2>3, <2>5, <2>6 DEF SettledRoom, HasRoom, RoomIn
<1> QED
  BY <1>1, RoomInvariant, PTL
=============================================================================
