----------------------------- MODULE Reconciler -----------------------------
(***************************************************************************)
(* The controller's lifecycle of an RT pod: the Reconcile worker, the pod  *)
(* event handler, the overrun handlers and the informer caches, over the   *)
(* shared ledger of CPUPool (internal/controller/mckube_controller.go).    *)
(*                                                                         *)
(* There is one worker (MaxConcurrentReconciles is 1), one pod-event       *)
(* goroutine, and one goroutine per overrun report; each action is one     *)
(* lock section or one API call of one of them.  Two actions are a lock    *)
(* section and the API call after it: OverrunEnd and RecoverEnd set        *)
(* podRuntimeState (904-906, 489-491) and write the status (911, 495) in   *)
(* one step, or lose the write.  RuntimeEscalation has the two apart.  The *)
(* API server, the scheduler, the kubelet and the users are external.      *)
(* There is one CR per pod, named like it, with RT settings that do not    *)
(* change.  Requests to node-actuator do not feed back into the state kept *)
(* here.                                                                   *)
(***************************************************************************)
EXTENDS Placement, Sequences

CONSTANTS
    Criticality,  \* Spec.Criticality of each pod's CR
    RuntimeLow, RuntimeHi, Period,  \* Spec.RTSettings, in microseconds
    CoreSpec,     \* ParseCoreSet(*Spec.RTSettings.Core), <<>> for a nil core
    Labelled,     \* the pods that carry the sdv.com label
    UnitsPerCore, \* budget units per core: 1000 millicores in the code
    DefaultUnits, \* the budget that replaces a zero: 100 millicores
    NoNode,       \* the empty node name
    Installed,    \* the pods whose CR exists when the controller starts
    Scenarios     \* what is looked at: the pods that are already scheduled by
                  \* then, and how often the environment may act, by kind

Kinds == {"createPod", "deletePod", "finishPod", "createCR", "deleteCR",
          "overrun", "recovery", "failure", "restart", "lost"}

ASSUME ReconcilerAssumption ==
    /\ Criticality \in [Pods -> Criticalities]
    /\ RuntimeLow \in [Pods -> Nat] /\ RuntimeHi \in [Pods -> Nat]
    /\ Period \in [Pods -> Nat]
    /\ CoreSpec \in [Pods -> Seq(CoreIDs)]
    /\ Labelled \subseteq Pods /\ Installed \subseteq Pods
    /\ UnitsPerCore \in Nat \ {0} /\ DefaultUnits \in Nat \ {0}
    /\ NoNode \notin Nodes
    /\ Scenarios \subseteq [present : SUBSET Pods, limit : [Kinds -> Nat]]

VARIABLES
    cr,         \* the CRs in the API server
    crCache,    \* the informer's copy of them
    crNote,     \* CRs written since the informer last delivered them
    pod,        \* the pods in the API server
    podCache,   \* the informer's copy of them
    podEvents,  \* podEvents[p]: undelivered pod events, TRUE if terminating
    runtimeHi,  \* the pods with podRuntimeState "hi"; a missing entry is "low"
    escalating, \* escalating[p]: the CR copy of an overrun handler that waits
                \* for node-actuator, NoCR if there is none
    queue,      \* the work queue of CR keys
    worker,     \* the Reconcile in progress
    handler,    \* the findObjectsForPod call in progress
    used,       \* how often each kind of environment event has happened
    limit       \* how often it may happen in this behaviour; never changes

apiVars == <<cr, crCache, crNote, pod, podCache, podEvents>>
memVars == <<runtimeHi, escalating>>
bounds == <<used, limit>>
vars == <<poolVars, apiVars, memVars, queue, worker, handler, bounds>>

\* hi is Status.CurrentRuntime = "hi"; version is the resourceVersion.
CR == [exists : BOOLEAN, deleting : BOOLEAN, finalizer : BOOLEAN,
       node : Nodes \cup {NoNode}, allocated : Seq(CoreIDs), hi : BOOLEAN,
       version : Nat]

NoCR == [exists |-> FALSE, deleting |-> FALSE, finalizer |-> FALSE,
         node |-> NoNode, allocated |-> <<>>, hi |-> FALSE, version |-> 0]

\* "Active" is Pending or Running; "Done" is Succeeded or Failed.
PodState == [phase : {"None", "Active", "Done"}, node : Nodes \cup {NoNode},
             deleting : BOOLEAN]

AbsentPod == [phase |-> "None", node |-> NoNode, deleting |-> FALSE]

NoKey == "none"

\* The local variables of a Reconcile: its copies of the CR and the pod, the
\* index of the core it is working on, the budget that core lacks, the
\* victims still to preempt, the one in hand with its entry and its new core,
\* the pools still to clean, the pods still to revert.  skipped and refilled
\* are history: the victims that were not in the cache when their turn came,
\* and the cores a victim was migrated onto since they were last checked.
IdleWorker == [pc |-> "idle", key |-> NoKey, rt |-> NoCR, po |-> AbsentPod,
               millis |-> 0, i |-> 1, needed |-> 0, victims |-> EmptyCore,
               victim |-> NoKey, info |-> NoPod, target |-> 0, todo |-> {},
               revert |-> {}, skipped |-> {}, refilled |-> {}]

IdleHandler == [pc |-> "idle", pod |-> NoKey, todo |-> {}]

Spend(kind) == /\ used[kind] < limit[kind]
               /\ used' = [used EXCEPT ![kind] = @ + 1]
               /\ UNCHANGED limit

Goto(pc) == worker' = [worker EXCEPT !.pc = pc]

-----------------------------------------------------------------------------
(***************************************************************************)
(* API server, informers, users, scheduler and kubelet (external).  A pod  *)
(* changes again only once its last change has reached the cache.          *)
(***************************************************************************)
Env == UNCHANGED <<poolVars, memVars, worker, handler>>

\* A write that the API server accepts.
Commit(p, new) ==
    /\ cr' = [cr EXCEPT ![p] = [new EXCEPT !.version = cr[p].version + 1]]
    /\ crNote' = crNote \cup {p}

CreateCR(p) ==
    /\ ~ cr[p].exists /\ Spend("createCR")
    /\ Commit(p, [NoCR EXCEPT !.exists = TRUE])
    /\ Env /\ UNCHANGED <<crCache, pod, podCache, podEvents, queue>>

\* With the finalizer in place deletion only marks the CR.
DeleteCR(p) ==
    /\ cr[p].exists /\ ~ cr[p].deleting /\ Spend("deleteCR")
    /\ Commit(p, IF cr[p].finalizer THEN [cr[p] EXCEPT !.deleting = TRUE] ELSE NoCR)
    /\ Env /\ UNCHANGED <<crCache, pod, podCache, podEvents, queue>>

\* Every CR event enqueues the CR's key.
SyncCR(p) ==
    /\ p \in crNote
    /\ crCache' = [crCache EXCEPT ![p] = cr[p]]
    /\ crNote' = crNote \ {p}
    /\ queue' = queue \cup {p}
    /\ Env /\ UNCHANGED <<cr, pod, podCache, podEvents, bounds>>

SetPod(p, state) ==
    /\ podCache[p] = pod[p]
    /\ pod' = [pod EXCEPT ![p] = state]
    /\ Env /\ UNCHANGED <<cr, crCache, crNote, podCache, podEvents, queue>>

CreatePod(p) ==
    /\ pod[p] = AbsentPod /\ Spend("createPod")
    /\ SetPod(p, [AbsentPod EXCEPT !.phase = "Active"])

SchedulePod(p, n) ==
    /\ pod[p].phase = "Active" /\ pod[p].node = NoNode /\ ~ pod[p].deleting
    /\ SetPod(p, [pod[p] EXCEPT !.node = n]) /\ UNCHANGED bounds

FinishPod(p) ==
    /\ pod[p].phase = "Active" /\ pod[p].node # NoNode /\ Spend("finishPod")
    /\ SetPod(p, [pod[p] EXCEPT !.phase = "Done"])

DeletePod(p) ==
    /\ pod[p].phase # "None" /\ ~ pod[p].deleting /\ Spend("deletePod")
    /\ SetPod(p, [pod[p] EXCEPT !.deleting = TRUE])

\* The kubelet reports the containers gone.
RemovePod(p) ==
    /\ pod[p].deleting /\ SetPod(p, AbsentPod) /\ UNCHANGED bounds

\* An update event carries the old and the new object, a delete event the
\* last one; the cache is current before the handler runs.
SyncPod(p) ==
    /\ podCache[p] # pod[p]
    /\ podCache' = [podCache EXCEPT ![p] = pod[p]]
    /\ podEvents' = [podEvents EXCEPT ![p] =
                        Append(@, podCache[p].deleting \/ pod[p].deleting)]
    /\ Env /\ UNCHANGED <<cr, crCache, crNote, pod, queue, bounds>>

-----------------------------------------------------------------------------
(***************************************************************************)
(* The pod-event goroutine: findObjectsForPod and cleanupPodState.         *)
(***************************************************************************)
Enqueued(p) == IF crCache[p].exists THEN {p} ELSE {}

\* Mutant: a live event is consumed without enqueuing the CR.
LiveEventDropped(p) ==
    /\ handler.pc = "idle" /\ podEvents[p] # <<>>
    /\ p \notin Labelled \/ ~ Head(podEvents[p])
    /\ podEvents' = [podEvents EXCEPT ![p] = Tail(@)]
    /\ UNCHANGED <<poolVars, cr, crCache, crNote, pod, podCache, memVars,
                   queue, worker, handler, bounds>>

HandleLiveEvent(p) ==
    /\ handler.pc = "idle" /\ podEvents[p] # <<>>
    /\ p \notin Labelled \/ ~ Head(podEvents[p])
    /\ podEvents' = [podEvents EXCEPT ![p] = Tail(@)]
    /\ queue' = IF p \in Labelled THEN queue \cup Enqueued(p) ELSE queue
    /\ UNCHANGED <<poolVars, cr, crCache, crNote, pod, podCache, memVars,
                   worker, handler, bounds>>

\* The runtime state goes first; the read lock on globalPools freezes the
\* set of pools the removal then walks through.
HandleTerminatingEvent(p) ==
    /\ handler.pc = "idle" /\ podEvents[p] # <<>>
    /\ p \in Labelled /\ Head(podEvents[p])
    /\ podEvents' = [podEvents EXCEPT ![p] = Tail(@)]
    /\ runtimeHi' = runtimeHi \ {p}
    /\ handler' = [pc |-> "drop", pod |-> p, todo |-> pooled]
    /\ UNCHANGED <<poolVars, cr, crCache, crNote, pod, podCache, escalating,
                   queue, worker, bounds>>

HandlerDrop(n) ==
    /\ handler.pc = "drop" /\ n \in handler.todo
    /\ RemovePodFromPool(n, handler.pod)
    /\ handler' = [handler EXCEPT !.todo = @ \ {n}]
    /\ UNCHANGED <<apiVars, memVars, queue, worker, bounds>>

HandlerEnqueue ==
    /\ handler.pc = "drop" /\ handler.todo = {}
    /\ queue' = queue \cup Enqueued(handler.pod)
    /\ handler' = IdleHandler
    /\ UNCHANGED <<poolVars, apiVars, memVars, worker, bounds>>

-----------------------------------------------------------------------------
(***************************************************************************)
(* Writing a CR.  An update with somebody's copy is accepted only if nobody *)
(* wrote the CR since that copy was cached; it can also fail for another   *)
(* reason.  An update that changes nothing leaves no trace.                *)
(***************************************************************************)
Write(p, copy, new) ==
    /\ cr[p].version = copy.version
    /\ IF new = copy THEN UNCHANGED <<cr, crNote>> ELSE Commit(p, new)
    /\ UNCHANGED bounds

WriteFails(p, copy) ==
    /\ \/ cr[p].version # copy.version /\ UNCHANGED bounds
       \/ cr[p].version = copy.version /\ Spend("failure")
    /\ UNCHANGED <<cr, crNote>>

\* A status update of the runtime level that fails is logged and not
\* repeated; used["lost"] only counts them.
StatusLost(p, copy) ==
    LET conflict == cr[p].version # copy.version IN
    /\ conflict \/ used["failure"] < limit["failure"]
    /\ used' = [used EXCEPT !["lost"] = @ + 1,
                            !["failure"] = IF conflict THEN @ ELSE @ + 1]
    /\ UNCHANGED <<cr, crNote, limit>>

-----------------------------------------------------------------------------
(***************************************************************************)
(* handleOverrunEvent: the pod, the CR and the state are read before the   *)
(* request to node-actuator, the state and the CR are written after its    *)
(* answer.  A pod has at most one handler at a time.                       *)
(***************************************************************************)
OverrunBegin(p) ==
    /\ podCache[p].node # NoNode
    /\ crCache[p].exists
    /\ p \notin runtimeHi /\ ~ escalating[p].exists
    /\ Spend("overrun")
    /\ escalating' = [escalating EXCEPT ![p] = crCache[p]]
    /\ UNCHANGED <<poolVars, apiVars, runtimeHi, queue, worker, handler>>

\* Mutant: the escalation is not written to the CR.
OverrunEndSilent(p) ==
    /\ escalating[p].exists
    /\ escalating' = [escalating EXCEPT ![p] = NoCR]
    /\ runtimeHi' = runtimeHi \cup {p}
    /\ UNCHANGED <<poolVars, apiVars, queue, worker, handler, bounds>>

\* The state changes once node-actuator has accepted the request.  The status
\* is then updated; its new LastOverrunTime always makes a difference.
OverrunEnd(p) ==
    LET copy == escalating[p] IN
    /\ copy.exists
    /\ escalating' = [escalating EXCEPT ![p] = NoCR]
    /\ runtimeHi' = runtimeHi \cup {p}
    /\ \/ /\ cr[p].version = copy.version
          /\ Commit(p, [copy EXCEPT !.hi = TRUE]) /\ UNCHANGED bounds
       \/ StatusLost(p, copy)
    /\ UNCHANGED <<poolVars, crCache, pod, podCache, podEvents, queue, worker,
                   handler>>

OverrunRefused(p) ==
    /\ escalating[p].exists /\ Spend("failure")
    /\ escalating' = [escalating EXCEPT ![p] = NoCR]
    /\ UNCHANGED <<poolVars, apiVars, runtimeHi, queue, worker, handler>>

-----------------------------------------------------------------------------
(***************************************************************************)
(* Reconcile.  The worker's copies rt and po are the ones it read from the *)
(* caches when it began.                                                   *)
(***************************************************************************)
Work == UNCHANGED <<crCache, pod, podCache, podEvents, escalating, handler>>

key == worker.key

\* The budget of a pod, by the runtime that podRuntimeState selects.
cpuMillis(p) ==
    LET effectiveRuntime == IF p \in runtimeHi THEN RuntimeHi[p] ELSE RuntimeLow[p]
        millis == IF Period[p] > 0
                    THEN (effectiveRuntime * UnitsPerCore) \div Period[p] ELSE 0
    IN  IF millis = 0 THEN DefaultUnits ELSE millis

Schedulable(state) == state.phase = "Active" /\ state.node # NoNode

\* Where a Reconcile of p goes once it has read its CR and pod.
FirstStep(p) ==
    LET rt == crCache[p] IN
    CASE rt.deleting /\ rt.finalizer      -> "cleanup"
      [] ~ rt.deleting /\ ~ rt.finalizer  -> "finalize"
      [] ~ rt.deleting /\ rt.finalizer /\ rt.node = NoNode -> "setNode"
      [] ~ rt.deleting /\ rt.finalizer /\ rt.node # NoNode
         /\ Schedulable(podCache[p]) /\ CoreSpec[p] # <<>> -> "allocate"
      [] OTHER -> "tail"

\* The CR is gone, or marked with nothing left to clean up: nothing to do.
BeginNothing(p) ==
    /\ worker.pc = "idle" /\ p \in queue
    /\ crCache[p].exists => crCache[p].deleting /\ ~ crCache[p].finalizer
    /\ queue' = queue \ {p}
    /\ Work /\ UNCHANGED <<poolVars, cr, crNote, runtimeHi, worker, bounds>>

Begin(p) ==
    /\ worker.pc = "idle" /\ p \in queue
    /\ crCache[p].exists /\ (crCache[p].deleting => crCache[p].finalizer)
    /\ queue' = queue \ {p}
    /\ worker' = [IdleWorker EXCEPT !.pc = FirstStep(p), !.key = p,
                      !.rt = crCache[p], !.po = podCache[p]]
    /\ Work /\ UNCHANGED <<poolVars, cr, crNote, runtimeHi, bounds>>

Requeue == queue' = queue \cup {key} /\ worker' = IdleWorker

\* Deletion: cleanupPodState, then the finalizer is removed.
Cleanup ==
    /\ worker.pc = "cleanup"
    /\ runtimeHi' = runtimeHi \ {key}
    /\ worker' = [worker EXCEPT !.pc = "drop", !.todo = pooled]
    /\ Work /\ UNCHANGED <<poolVars, cr, crNote, queue, bounds>>

CleanupDrop(n) ==
    /\ worker.pc = "drop" /\ n \in worker.todo
    /\ RemovePodFromPool(n, key)
    /\ worker' = [worker EXCEPT !.todo = @ \ {n}]
    /\ Work /\ UNCHANGED <<cr, crNote, runtimeHi, queue, bounds>>

\* Mutant: the finalizer is removed before the budget is given back.
RemoveFinalizerEarly ==
    /\ worker.pc = "drop"
    /\ \/ Write(key, worker.rt, NoCR) /\ worker' = IdleWorker /\ UNCHANGED queue
       \/ WriteFails(key, worker.rt) /\ Requeue
    /\ Work /\ UNCHANGED <<poolVars, runtimeHi>>

\* Mutant: a failed update is not retried.
RemoveFinalizerOnce ==
    /\ worker.pc = "drop" /\ worker.todo = {}
    /\ Write(key, worker.rt, NoCR) \/ WriteFails(key, worker.rt)
    /\ worker' = IdleWorker
    /\ Work /\ UNCHANGED <<poolVars, runtimeHi, queue>>

RemoveFinalizer ==
    /\ worker.pc = "drop" /\ worker.todo = {}
    /\ \/ Write(key, worker.rt, NoCR) /\ worker' = IdleWorker /\ UNCHANGED queue
       \/ WriteFails(key, worker.rt) /\ Requeue
    /\ Work /\ UNCHANGED <<poolVars, runtimeHi>>

AddFinalizer ==
    /\ worker.pc = "finalize"
    /\ \/ Write(key, worker.rt, [worker.rt EXCEPT !.finalizer = TRUE])
       \/ WriteFails(key, worker.rt)
    /\ Requeue /\ Work /\ UNCHANGED <<poolVars, runtimeHi>>

\* Spec.Node is filled in from the pod; until it has one the key comes back.
SetNode ==
    /\ worker.pc = "setNode"
    /\ IF Schedulable(worker.po)
         THEN \/ Write(key, worker.rt, [worker.rt EXCEPT !.node = worker.po.node])
              \/ WriteFails(key, worker.rt)
         ELSE UNCHANGED <<cr, crNote, bounds>>
    /\ Requeue /\ Work /\ UNCHANGED <<poolVars, runtimeHi>>

\* Status.AllocatedCore starts out as the core of the spec.  A failed update
\* is only logged: the worker goes on with its own copy.
Allocate ==
    /\ worker.pc = "allocate"
    /\ IF worker.rt.allocated = <<>>
         THEN LET new == [worker.rt EXCEPT !.allocated = CoreSpec[key]] IN
              /\ Write(key, worker.rt, new) \/ WriteFails(key, worker.rt)
              /\ worker' = [worker EXCEPT !.pc = "budget", !.rt = new]
         ELSE Goto("budget") /\ UNCHANGED <<cr, crNote, bounds>>
    /\ Work /\ UNCHANGED <<poolVars, runtimeHi, queue>>

targetCores == worker.rt.allocated
onNode == worker.po.node
Local == Work /\ UNCHANGED <<cr, crNote, runtimeHi, queue, bounds>>

ReadBudget ==
    /\ worker.pc = "budget"
    /\ worker' = [worker EXCEPT !.pc = "check", !.millis = cpuMillis(key)]
    /\ Local /\ UNCHANGED poolVars

ownInfo == [Criticality |-> Criticality[key], CPUMillis |-> worker.millis]

RegisteredOn(n, c, p, info) == c \in Cores /\ corePods[n][c][p] = info

\* Creating the pool waits for a removal that walks through the pools.
EnsurePool == handler.todo = {} /\ GetOrCreateCPUPool(onNode)

CheckRegistered ==
    /\ worker.pc = "check"
    /\ EnsurePool
    /\ Goto(IF \A i \in DOMAIN targetCores :
                   RegisteredOn(onNode, targetCores[i], key, ownInfo)
              THEN "tail" ELSE "utilization")
    /\ Local

currentCore == targetCores[worker.i]

\* Mutant: victims are selected whether or not the threshold is exceeded.
CheckUnconditional ==
    /\ worker.pc = "utilization" /\ worker.i \in DOMAIN targetCores
    /\ worker' = [worker EXCEPT !.pc = "select",
                     !.needed = NeededBudget(onNode, currentCore, worker.millis)]
    /\ Local /\ UNCHANGED poolVars

\* checkAndPreemptForPod: one round per target core.
CheckUtilization ==
    /\ worker.pc = "utilization" /\ worker.i \in DOMAIN targetCores
    /\ LET needed == NeededBudget(onNode, currentCore, worker.millis)
           rest == worker.refilled \ {currentCore}
       IN  IF needed > 0
             THEN worker' = [worker EXCEPT !.pc = "select", !.needed = needed,
                                           !.refilled = rest]
             ELSE worker' = [worker EXCEPT !.i = @ + 1, !.refilled = rest]
    /\ Local /\ UNCHANGED poolVars

SelectVictims ==
    /\ worker.pc = "select"
    /\ LET f == CorePods(onNode, currentCore)
           C == Evictable(onNode, currentCore, Criticality[key])
       IN  \E V \in SelectMinimumVictims(f, C, worker.needed) :
              worker' = [worker EXCEPT !.pc = "preempt", !.needed = 0,
                                       !.victims = Only(f, V)]
    /\ Local /\ UNCHANGED poolVars

Waiting == {p \in Pods : worker.victims[p] # NoPod}

NoVictimLeft ==
    /\ worker.pc = "preempt" /\ Waiting = {}
    /\ worker' = [worker EXCEPT !.pc = "utilization", !.i = @ + 1]
    /\ Local /\ UNCHANGED poolVars

\* preemptPod takes the victims in their sorted order.  One whose pod is no
\* longer in the cache is skipped with an error; one that fits on another
\* core is to migrate, any other is to be evicted.
PreemptPod(v) ==
    /\ worker.pc = "preempt" /\ v \in Waiting
    /\ \A u \in Waiting : ~ SortsBefore(worker.victims, u, v)
    /\ LET info == worker.victims[v]
           rest == [worker EXCEPT !.victims[v] = NoPod]
           fits == MigrationTargets(onNode, currentCore, info.CPUMillis)
       IN  \/ /\ podCache[v].phase = "None"
              /\ worker' = [rest EXCEPT !.skipped = @ \cup {v}]
           \/ /\ podCache[v].phase # "None"
              /\ NoMigrationTarget(onNode, currentCore, info.CPUMillis)
              /\ worker' = [rest EXCEPT !.pc = "evict", !.victim = v]
           \/ /\ podCache[v].phase # "None"
              /\ \E c \in fits :
                    worker' = [rest EXCEPT !.pc = "migrateOff", !.victim = v,
                                           !.info = info, !.target = c]
    /\ Local /\ UNCHANGED poolVars

MigrateOff ==
    /\ worker.pc = "migrateOff"
    /\ RemovePodFromCore(onNode, currentCore, worker.victim)
    /\ Goto("migrateOn")
    /\ Local

MigrateOn ==
    /\ worker.pc = "migrateOn"
    /\ AddPodToCore(onNode, worker.target, worker.victim, worker.info)
    /\ worker' = [worker EXCEPT !.pc = "migrateStatus", !.refilled = @ \cup {worker.target}]
    /\ Local

NextVictim == worker' = [worker EXCEPT !.pc = "preempt", !.victim = NoKey,
                                       !.info = NoPod, !.target = 0]

\* updatePodCoreAffinity on the cached CR of the victim, if there is one.
MigrateStatus ==
    /\ worker.pc = "migrateStatus"
    /\ LET rt == crCache[worker.victim] IN
       IF rt.exists
         THEN \/ Write(worker.victim, rt, [rt EXCEPT !.allocated = <<worker.target>>])
              \/ WriteFails(worker.victim, rt)
         ELSE UNCHANGED <<cr, crNote, bounds>>
    /\ NextVictim /\ Work /\ UNCHANGED <<poolVars, runtimeHi, queue>>

\* Mutant: the eviction is never requested.
EvictForgotten ==
    /\ worker.pc = "evict"
    /\ NextVictim
    /\ Local /\ UNCHANGED poolVars

\* The eviction API marks the pod as terminating; it can be refused.  The
\* victim's ledger entry stays until the pod event arrives.  (The "evicted"
\* label that is set first only causes one more live event.)
Evict ==
    LET v == worker.victim IN
    /\ worker.pc = "evict"
    /\ \/ /\ pod[v].phase # "None" /\ ~ pod[v].deleting /\ podCache[v] = pod[v]
          /\ pod' = [pod EXCEPT ![v].deleting = TRUE] /\ UNCHANGED bounds
       \/ /\ pod[v].phase = "None" \/ pod[v].deleting
          /\ UNCHANGED <<pod, bounds>>
       \/ Spend("failure") /\ UNCHANGED pod
    /\ NextVictim
    /\ UNCHANGED <<poolVars, cr, crCache, crNote, podCache, podEvents, memVars,
                   queue, handler>>

PreemptionDone ==
    /\ worker.pc = "utilization" /\ worker.i \notin DOMAIN targetCores
    /\ worker' = [worker EXCEPT !.pc = "entry", !.i = 1]
    /\ Local /\ UNCHANGED poolVars

\* updateCPUPoolForPod: the cores are those of the spec, and the runtime
\* state is read again.
PrepareEntry ==
    /\ worker.pc = "entry"
    /\ EnsurePool
    /\ worker' = [worker EXCEPT !.pc = "compare", !.millis = cpuMillis(key)]
    /\ Local

CompareEntry ==
    /\ worker.pc = "compare"
    /\ Goto(IF \E i \in DOMAIN CoreSpec[key] :
                   ~ RegisteredOn(onNode, CoreSpec[key][i], key, ownInfo)
              THEN "unregister" ELSE "tail")
    /\ Local /\ UNCHANGED poolVars

Unregister ==
    /\ worker.pc = "unregister"
    /\ RemovePodFromCore(onNode, CoreSpec[key][worker.i], key)
    /\ Goto("register")
    /\ Local

Register ==
    /\ worker.pc = "register"
    /\ AddPodToCore(onNode, CoreSpec[key][worker.i], key, ownInfo)
    /\ worker' = IF worker.i < Len(CoreSpec[key])
                   THEN [worker EXCEPT !.pc = "unregister", !.i = @ + 1]
                   ELSE [worker EXCEPT !.pc = "tail"]
    /\ Local

\* The node's CPU state closes the Reconcile.  Most often it has not changed.
Finish ==
    /\ worker.pc = "tail"
    /\ worker' = IdleWorker
    /\ Local /\ UNCHANGED poolVars

\* handleCPURecovery: when the node is seen to have recovered, the labelled
\* pods the cache has on it go back from hi to low, one after the other.
RecoverBegin ==
    /\ worker.pc = "tail" /\ Spend("recovery")
    /\ worker' = [worker EXCEPT !.pc = "recover", !.revert =
                     {p \in Labelled : podCache[p].node = worker.rt.node}]
    /\ Work /\ UNCHANGED <<poolVars, cr, crNote, runtimeHi, queue>>

\* The state and the CR are read before the requests to node-actuator.
RecoverPod(p) ==
    /\ worker.pc = "recover" /\ p \in worker.revert
    /\ worker' = IF p \in runtimeHi /\ crCache[p].exists
                   THEN [worker EXCEPT !.pc = "revert", !.victim = p,
                                       !.rt = crCache[p], !.revert = @ \ {p}]
                   ELSE [worker EXCEPT !.revert = @ \ {p}]
    /\ Local /\ UNCHANGED poolVars

RecoverEnd ==
    LET p == worker.victim
        copy == worker.rt
    IN  /\ worker.pc = "revert"
        /\ runtimeHi' = runtimeHi \ {p}
        /\ Write(p, copy, [copy EXCEPT !.hi = FALSE]) \/ StatusLost(p, copy)
        /\ worker' = [worker EXCEPT !.pc = "recover", !.victim = NoKey]
        /\ Work /\ UNCHANGED <<poolVars, queue>>

RecoverDone ==
    /\ worker.pc = "recover" /\ worker.revert = {}
    /\ worker' = IdleWorker
    /\ Local /\ UNCHANGED poolVars

-----------------------------------------------------------------------------
(***************************************************************************)
(* The process dies and comes back: everything in memory is lost, and the  *)
(* informers list what the API server holds.                               *)
(***************************************************************************)
Restart ==
    /\ Spend("restart")
    /\ ProcessRestart
    /\ runtimeHi' = {} /\ escalating' = [p \in Pods |-> NoCR]
    /\ worker' = IdleWorker /\ handler' = IdleHandler
    /\ crCache' = cr /\ crNote' = {} /\ podCache' = pod
    /\ queue' = {p \in Pods : cr[p].exists}
    /\ podEvents' = [p \in Pods |-> IF pod[p].phase = "None" THEN <<>>
                                    ELSE <<pod[p].deleting>>]
    /\ UNCHANGED <<cr, pod>>

Init ==
    /\ PoolInit
    /\ cr = [p \in Pods |-> [NoCR EXCEPT !.exists = p \in Installed]]
    /\ crCache = cr /\ crNote = {} /\ queue = Installed
    /\ \E s \in Scenarios, n \in Nodes :
          /\ pod = [p \in Pods |->
                IF p \in s.present
                  THEN [phase |-> "Active", node |-> n, deleting |-> FALSE]
                  ELSE AbsentPod]
          /\ podEvents = [p \in Pods |-> IF p \in s.present THEN <<FALSE>> ELSE <<>>]
          /\ limit = s.limit
    /\ podCache = pod
    /\ runtimeHi = {} /\ escalating = [p \in Pods |-> NoCR]
    /\ worker = IdleWorker /\ handler = IdleHandler
    /\ used = [k \in Kinds |-> 0]

Environment(p) ==
    \/ CreateCR(p) \/ DeleteCR(p) \/ CreatePod(p) \/ FinishPod(p) \/ DeletePod(p)
    \/ OverrunBegin(p)

Informer(p) == SyncCR(p) \/ SyncPod(p)

Kubelet(p) == RemovePod(p) \/ \E n \in Nodes : SchedulePod(p, n)

HandlerStep ==
    \/ \E p \in Pods : HandleLiveEvent(p) \/ HandleTerminatingEvent(p)
    \/ \E n \in Nodes : HandlerDrop(n)
    \/ HandlerEnqueue

Dequeue(p) == Begin(p) \/ BeginNothing(p)

WorkerStep ==
    \/ Cleanup \/ (\E n \in Nodes : CleanupDrop(n)) \/ RemoveFinalizer
    \/ AddFinalizer \/ SetNode \/ Allocate \/ ReadBudget \/ CheckRegistered
    \/ CheckUtilization \/ SelectVictims \/ NoVictimLeft
    \/ \E v \in Pods : PreemptPod(v)
    \/ MigrateOff \/ MigrateOn \/ MigrateStatus \/ Evict
    \/ PreemptionDone \/ PrepareEntry \/ CompareEntry \/ Unregister \/ Register
    \/ Finish \/ RecoverBegin \/ (\E p \in Pods : RecoverPod(p))
    \/ RecoverEnd \/ RecoverDone

Next ==
    \/ \E p \in Pods : \/ Environment(p) \/ Informer(p) \/ Kubelet(p)
                       \/ OverrunEnd(p) \/ OverrunRefused(p) \/ Dequeue(p)
    \/ HandlerStep \/ WorkerStep \/ Restart

(***************************************************************************)
(* Watches deliver, the scheduler and the kubelet do their part, each      *)
(* goroutine runs, and the work queue is FIFO: a key that stays in it is   *)
(* taken although another key keeps coming back.                           *)
(***************************************************************************)
Fairness ==
    /\ \A p \in Pods : /\ WF_vars(SyncCR(p)) /\ WF_vars(SyncPod(p))
                       /\ WF_vars(Kubelet(p)) /\ WF_vars(OverrunEnd(p))
                       /\ SF_vars(Dequeue(p))
    /\ WF_vars(HandlerStep) /\ WF_vars(WorkerStep)

Spec == Init /\ [][Next]_vars

FairSpec == Spec /\ Fairness

-----------------------------------------------------------------------------
WorkerPC == {"idle", "cleanup", "drop", "finalize", "setNode", "allocate",
             "budget", "check", "utilization", "select", "preempt",
             "migrateOff", "migrateOn", "migrateStatus", "evict", "entry",
             "compare", "unregister", "register", "tail", "recover", "revert"}

Worker == [pc : WorkerPC, key : Pods \cup {NoKey}, rt : CR, po : PodState,
           millis : Nat, i : Nat \ {0}, needed : Nat,
           victims : [Pods -> PodInfo \cup {NoPod}], victim : Pods \cup {NoKey},
           info : PodInfo \cup {NoPod}, target : CoreIDs \cup {0},
           todo : SUBSET Nodes, revert : SUBSET Pods, skipped : SUBSET Pods,
           refilled : SUBSET (CoreIDs \cup {0})]

\* The controller's state is well typed.
TypeOK ==
    /\ PoolTypeOK
    /\ cr \in [Pods -> CR] /\ crCache \in [Pods -> CR] /\ crNote \subseteq Pods
    /\ pod \in [Pods -> PodState] /\ podCache \in [Pods -> PodState]
    /\ podEvents \in [Pods -> Seq(BOOLEAN)]
    /\ runtimeHi \subseteq Pods /\ escalating \in [Pods -> CR]
    /\ queue \subseteq Pods
    /\ worker \in Worker
    /\ handler \in [pc : {"idle", "drop"}, pod : Pods \cup {NoKey}, todo : SUBSET Nodes]
    /\ used \in [Kinds -> Nat] /\ limit \in [Kinds -> Nat]

Entry(p) == \E n \in Nodes, c \in Cores : corePods[n][c][p] # NoPod

\* The stage of a CR's life that Ownership speaks of.
Stage(p) ==
    CASE ~ cr[p].exists                    -> "absent"
      [] cr[p].exists /\ cr[p].deleting    -> "leaving"
      [] cr[p].exists /\ ~ cr[p].deleting  ->
            IF cr[p].finalizer THEN "guarded" ELSE "new"

Own == INSTANCE Ownership WITH
           lifecycle <- [p \in Pods |-> Stage(p)],
           charged <- {p \in Pods : Entry(p)}

\* The controller implements Ownership.  Whatever the caches lag behind, and
\* whoever is in flight, budget is registered only in the name of a CR that
\* holds the finalizer, and the finalizer goes, in one step with the CR, only
\* once the budget is given back.
ImplementsOwnership == Own!OwnSpec

\* A migration never pushes the target core beyond the utilization
\* threshold, although the target was chosen several steps before.
MigrationWithinThreshold ==
    [][worker.pc = "migrateOn" /\ worker'.pc = "migrateStatus" =>
          usage'[onNode][worker.target] <= UtilizationThreshold]_vars

\* The pod is terminating or gone, or its last termination is still to be
\* handled: its entry is on its way out.
Leaving(v) ==
    \/ pod[v].deleting \/ pod[v].phase = "None" \/ podCache[v].phase = "None"
    \/ \E i \in DOMAIN podEvents[v] : podEvents[v][i]
    \/ handler.pc = "drop" /\ handler.pod = v

\* The pods that a preemption need not see out: those on their way out, those
\* that preemptPod gave up on, and those without the label, whose end the
\* controller does not hear of.
Excepted == {v \in Pods : Leaving(v)} \cup worker.skipped \cup (Pods \ Labelled)

\* Room is made before it is taken.  When a Reconcile is about to charge its
\* pod, and no call has failed, the pod fits on each of the cores that were
\* checked within the threshold beside the pods that stay, or else no pod of
\* lower criticality is left there to stay: migrations and evictions that run
\* while pods come, go and are cleaned up do not leave the job half done.
\* The exception is a core that a victim of a later one was migrated onto
\* after it had been checked.
RoomMade ==
    worker.pc = "entry" /\ used["failure"] = 0 =>
        \A i \in DOMAIN targetCores :
            LET c == targetCores[i] IN
            \/ c \in worker.refilled
            \/ GetCoreUtilization(onNode, c) + worker.millis
                  - Budget(CorePods(onNode, c), Excepted) <= UtilizationThreshold
            \/ Evictable(onNode, c, Criticality[key]) \subseteq Excepted

\* A CR marked for deletion is eventually released, through conflicts,
\* failed updates and restarts.
DeletionCompletes ==
    \A p \in Pods : cr[p].deleting ~> ~ cr[p].deleting

Wanted(p) ==
    /\ cr[p].exists /\ ~ cr[p].deleting
    /\ pod[p].phase = "Active" /\ ~ pod[p].deleting

\* A live labelled pod with a CR gets its budget registered, and a late
\* cleanup of its previous incarnation or a restart does not take it away
\* for good.
EventuallyRegistered ==
    \A p \in Labelled : CoreSpec[p] # <<>> => (Wanted(p) ~> (Entry(p) \/ ~ Wanted(p)))

\* The ledger follows escalation and recovery: once a pod is live for good
\* and no status update of its runtime level was lost, its entry settles on
\* the budget of the runtime that podRuntimeState selects, on every core of
\* its spec.  (Losing one is enough to lose this: nothing else wakes the
\* worker until the informers' periodic resync, hours later.)
BudgetSettles ==
    \A p \in Labelled :
        <>[](Wanted(p) /\ pod[p].node # NoNode /\ used["lost"] = 0) =>
            <>[](\A i \in DOMAIN CoreSpec[p] :
                    pod[p].node \in Nodes /\ CoreSpec[p][i] \in Cores =>
                    corePods[pod[p].node][CoreSpec[p][i]][p].CPUMillis = cpuMillis(p))

Quiescent ==
    /\ crNote = {} /\ podCache = pod /\ \A p \in Pods : podEvents[p] = <<>>
    /\ queue = {} /\ \A p \in Pods : ~ escalating[p].exists
    /\ worker.pc = "idle" /\ handler.pc = "idle"

\* mckube_controller.go:655 "cleanupPodState: Cleans up all internal state
\* when a Pod is deleted": when nothing is in progress, a labelled pod that
\* is gone holds no budget.
DeletedPodsLeave ==
    Quiescent => \A p \in Labelled : pod[p].phase = "None" => ~ Entry(p)
=============================================================================
