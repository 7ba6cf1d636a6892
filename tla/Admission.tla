----------------------------- MODULE Admission -----------------------------
(***************************************************************************)
(* Admission of RT pods: the mutating webhook, which selects a node and a  *)
(* core and writes them to the CR (internal/webhook/pod_mutator.go), and   *)
(* the validating webhook, which checks the choice (rt_validator.go),      *)
(* beside the controller that charges the ledger later.                    *)
(*                                                                         *)
(* Each request is a process of its own; it reads the CR from the          *)
(* informer's cache and the ledger of the same process.  The search over   *)
(* the pools takes their locks one after the other; it is one step here.   *)
(* Of the controller's one worker, and of the pod events beside it, there  *)
(* are the steps that change the ledger; Reconciler has the others, and    *)
(* the caches of pods.  RT settings do not change, a core specification is *)
(* one core, and the runtime is low.                                       *)
(***************************************************************************)
EXTENDS Placement

CONSTANTS
    Requests,     \* the pod creations that reach the API server
    Criticality,  \* Spec.Criticality of each pod's CR
    RuntimeLow, RuntimeHi, Period,  \* Spec.RTSettings
    UnitsPerCore, \* budget units per core
    DefaultUnits, \* the budget that replaces a zero: 100 millicores
    NoNode, NoCore,  \* the empty node name, the unset core
    Installed,    \* the pods whose CR exists from the start
    MaxMishaps    \* bound on failing calls, pod deletions and restarts

ASSUME AdmissionAssumption ==
    /\ Criticality \in [Pods -> Criticalities]
    /\ RuntimeLow \in [Pods -> Nat] /\ RuntimeHi \in [Pods -> Nat]
    /\ Period \in [Pods -> Nat \ {0}] /\ UnitsPerCore \in Nat \ {0}
    /\ DefaultUnits \in Nat \ {0}
    /\ NoNode \notin Nodes /\ NoCore \notin CoreIDs
    /\ Installed \subseteq Pods
    /\ MaxMishaps \in Nat

VARIABLES
    cr,       \* the CRs in the API server
    crCache,  \* the informer's copy of them
    pod,      \* the pods in the API server
    request,  \* the admission requests
    worker,   \* the controller's worker: the pod in hand and its victims
    going,    \* the pools <<p, n>> that a termination of p is to clean up
    spared,   \* history: victims <<p, n>> that were neither moved nor evicted
    unsound,  \* history: charges <<p, n>> that no check covers
    mishaps   \* how many calls failed, pods were deleted, restarts happened

ledgerVars == <<poolVars, worker, going, spared, unsound>>
vars == <<ledgerVars, cr, crCache, pod, request, mishaps>>

\* Spec.RTSettings.Core, Spec.Node and Status.AllocatedCore.
CR == [exists : BOOLEAN, core : CoreIDs \cup {NoCore}, node : Nodes \cup {NoNode},
       allocated : CoreIDs \cup {NoCore}]

BlankCR(exists) == [exists |-> exists, core |-> NoCore, node |-> NoNode,
                    allocated |-> NoCore]

\* A (node, core) pair, or none.
Place == (Nodes \X CoreIDs) \cup {<<>>}

\* decided is the place that the mutating webhook selected and wrote to the
\* CR; checked is the place that a webhook found feasible, as long as the
\* usage of its core has not been raised since (history).
AbsentPod == [live |-> FALSE, deleting |-> FALSE, node |-> NoNode,
              decided |-> <<>>, checked |-> <<>>]

\* core is where room is made, spec the core that is charged; covered says
\* whether a check covers the charge.
IdleWorker == [pc |-> "idle", pod |-> "none", node |-> NoNode, core |-> NoCore,
               spec |-> NoCore, covered |-> FALSE, left |-> {},
               victim |-> "none", target |-> NoCore]

\* The local state of one request: the CR copy, the selected place.
NewRequest == [pc |-> "new", pod |-> "none", dryRun |-> FALSE,
               copy |-> BlankCR(FALSE), selected |-> <<>>, decided |-> <<>>,
               checked |-> <<>>]

InUnits(p, runtime) == (runtime[p] * UnitsPerCore) \div Period[p]
requiredBudget(p) == InUnits(p, RuntimeHi)
registered(p) ==
    LET millis == InUnits(p, RuntimeLow) IN
    [Criticality |-> Criticality[p],
     CPUMillis |-> IF millis = 0 THEN DefaultUnits ELSE millis]

Mishap == mishaps < MaxMishaps /\ mishaps' = mishaps + 1

-----------------------------------------------------------------------------
(***************************************************************************)
(* The mutating webhook.                                                   *)
(***************************************************************************)
Become(r, new) == request' = [request EXCEPT ![r] = new]
Webhook == UNCHANGED <<ledgerVars, crCache>>

\* A pod that already carries the annotations of the mutating webhook passes
\* through it unchanged.
Arrive(r, p, dryRun, annotated) ==
    /\ request[r].pc = "new"
    /\ Become(r, [NewRequest EXCEPT !.pc = IF annotated THEN "validate" ELSE "mutate",
                                    !.pod = p, !.dryRun = dryRun])
    /\ Webhook /\ UNCHANGED <<cr, pod, mishaps>>

\* No CR in the cache, or one that names a core: nothing is selected and the
\* pod is not bound.  So too if the CRs or the nodes cannot be listed.
MutateNothing(r) ==
    LET rt == crCache[request[r].pod] IN
    /\ request[r].pc = "mutate"
    /\ \/ (~ rt.exists \/ rt.core # NoCore) /\ UNCHANGED mishaps
       \/ Mishap
    /\ Become(r, [request[r] EXCEPT !.pc = "validate"])
    /\ Webhook /\ UNCHANGED <<cr, pod>>

Select(r) ==
    LET p == request[r].pod IN
    /\ request[r].pc = "mutate" /\ crCache[p].exists /\ crCache[p].core = NoCore
    /\ \E res \in SelectBestNodeAndCore(Nodes, requiredBudget(p), Criticality[p], {}) :
          Become(r, IF res.feasible
                      THEN [request[r] EXCEPT
                              !.pc = IF request[r].dryRun THEN "validate" ELSE "patch",
                              !.copy = crCache[p],
                              !.selected = <<res.node, res.core>>,
                              !.checked = <<res.node, res.core>>]
                      ELSE [request[r] EXCEPT !.pc = "validate"])
    /\ Webhook /\ UNCHANGED <<cr, pod, mishaps>>

\* Mutant: cores are numbered from one.
PatchOneBased(r) ==
    LET p == request[r].pod IN
    /\ request[r].pc = "patch"
    /\ cr' = [cr EXCEPT ![p].core = request[r].selected[2] + 1,
                        ![p].node = request[r].selected[1]]
    /\ Become(r, [request[r] EXCEPT !.pc = "validate", !.decided = request[r].selected])
    /\ Webhook /\ UNCHANGED <<pod, mishaps>>

\* patchMcKubeCore: a merge patch, which no concurrent write makes fail.  It
\* carries the node only if the copy had none.
PatchMcKubeCore(r) ==
    LET p == request[r].pod
        selected == request[r].selected
    IN  /\ request[r].pc = "patch"
        /\ cr' = [cr EXCEPT ![p].core = selected[2],
                            ![p].node = IF request[r].copy.node = NoNode
                                          THEN selected[1] ELSE @]
        /\ Become(r, [request[r] EXCEPT !.pc = "validate", !.decided = selected])
        /\ Webhook /\ UNCHANGED <<pod, mishaps>>

\* A failed patch is logged; the pod stays bound to the selected node.
PatchFails(r) ==
    /\ request[r].pc = "patch" /\ Mishap
    /\ Become(r, [request[r] EXCEPT !.pc = "validate"])
    /\ Webhook /\ UNCHANGED <<cr, pod>>

-----------------------------------------------------------------------------
(***************************************************************************)
(* The validating webhook.                                                 *)
(***************************************************************************)
validateRTSettings(p) ==
    /\ RuntimeLow[p] > 0 /\ RuntimeLow[p] <= RuntimeHi[p]
    /\ RuntimeHi[p] <= (Period[p] * RTCapacity) \div UnitsPerCore

selectedCore(rt) == IF rt.allocated # NoCore THEN rt.allocated ELSE rt.core

Allow(r, checked) ==
    Become(r, [request[r] EXCEPT !.pc = "create", !.checked = checked])

Deny(r) == Become(r, [request[r] EXCEPT !.pc = "denied"])

\* Without a CR in the cache there is nothing to check; nor is there if the
\* CRs or the nodes cannot be listed.
ValidateNothing(r) ==
    /\ request[r].pc = "validate"
    /\ \/ ~ crCache[request[r].pod].exists /\ UNCHANGED mishaps
       \/ Mishap
    /\ Allow(r, request[r].checked)
    /\ Webhook /\ UNCHANGED <<cr, pod>>

\* Case A: the CR names node and core, and that place is checked.
ValidatePlace(r) ==
    LET p == request[r].pod
        rt == crCache[p]
        core == selectedCore(rt)
    IN  /\ request[r].pc = "validate" /\ rt.exists /\ validateRTSettings(p)
        /\ core # NoCore /\ rt.node # NoNode
        /\ \E res \in CheckNodeCoreFeasibility(rt.node, core, requiredBudget(p),
                                               Criticality[p]) :
              IF res.feasible THEN Allow(r, <<rt.node, core>>) ELSE Deny(r)
        /\ Webhook /\ UNCHANGED <<cr, pod, mishaps>>

\* Case B: some place in the cluster must do.
ValidateCluster(r) ==
    LET p == request[r].pod
        rt == crCache[p]
    IN  /\ request[r].pc = "validate" /\ rt.exists /\ validateRTSettings(p)
        /\ selectedCore(rt) = NoCore \/ rt.node = NoNode
        /\ \E res \in SelectBestNodeAndCore(Nodes, requiredBudget(p), Criticality[p], {}) :
              IF res.feasible THEN Allow(r, request[r].checked) ELSE Deny(r)
        /\ Webhook /\ UNCHANGED <<cr, pod, mishaps>>

ValidateSettings(r) ==
    /\ request[r].pc = "validate" /\ crCache[request[r].pod].exists
    /\ ~ validateRTSettings(request[r].pod)
    /\ Deny(r)
    /\ Webhook /\ UNCHANGED <<cr, pod, mishaps>>

-----------------------------------------------------------------------------
(***************************************************************************)
(* API server, informer, scheduler and users (external).                   *)
(***************************************************************************)

\* The pod is stored, unless one of that name exists or it is a dry run.
CreatePod(r) ==
    LET p == request[r].pod
        place == request[r].selected
    IN  /\ request[r].pc = "create"
        /\ Become(r, [request[r] EXCEPT !.pc = "done"])
        /\ IF pod[p].live \/ request[r].dryRun
             THEN UNCHANGED pod
             ELSE pod' = [pod EXCEPT ![p] =
                     [live |-> TRUE, deleting |-> FALSE,
                      node |-> IF place = <<>> THEN NoNode ELSE place[1],
                      decided |-> request[r].decided, checked |-> request[r].checked]]
        /\ Webhook /\ UNCHANGED <<cr, mishaps>>

\* The webhook does not answer in time: failurePolicy is Fail.
TimeOut(r) ==
    /\ request[r].pc = "validate" /\ Mishap
    /\ Deny(r)
    /\ Webhook /\ UNCHANGED <<cr, pod>>

\* A CR may be created with a core and with a node.
CreateCR(p, core, node) ==
    /\ ~ cr[p].exists
    /\ cr' = [cr EXCEPT ![p] = [BlankCR(TRUE) EXCEPT !.core = core, !.node = node]]
    /\ Webhook /\ UNCHANGED <<pod, request, mishaps>>

SyncCR(p) ==
    /\ crCache[p] # cr[p]
    /\ crCache' = [crCache EXCEPT ![p] = cr[p]]
    /\ UNCHANGED <<ledgerVars, cr, pod, request, mishaps>>

SchedulePod(p, n) ==
    /\ pod[p].live /\ pod[p].node = NoNode
    /\ pod' = [pod EXCEPT ![p].node = n]
    /\ Webhook /\ UNCHANGED <<cr, request, mishaps>>

-----------------------------------------------------------------------------
(***************************************************************************)
(* The controller's worker.  Its updates are refused if the copy in the    *)
(* cache is not current; a refused one is only logged.                     *)
(***************************************************************************)
Written(p, current, new) == IF cr[p] = current THEN [cr EXCEPT ![p] = new] ELSE cr

\* A pod that is scheduled, terminating or not.
Scheduled(p) == pod[p].live /\ pod[p].node # NoNode

\* Spec.Node is filled in from the pod.
SetNode(p) ==
    /\ worker.pc = "idle" /\ crCache[p].exists /\ crCache[p].node = NoNode
    /\ Scheduled(p)
    /\ cr' = Written(p, crCache[p], [crCache[p] EXCEPT !.node = pod[p].node])
    /\ Webhook /\ UNCHANGED <<pod, request, mishaps>>

isRegistered(p, c) == c \in Cores /\ corePods[pod[p].node][c][p] = registered(p)

\* Mutant: what is needed is computed before the pod's own budget is added.
victimsForUsage(p) ==
    LET n == pod[p].node
        c == selectedCore(crCache[p])
        needed == NeededBudget(n, c, 0)
    IN  {V \in {{}} : needed <= 0}
        \cup {V \in PreemptionVictims(n, c, 0, Criticality[p]) : needed >= 0}

\* checkAndPreemptForPod: the victims that give way to p on its core.
victims(p) ==
    LET n == pod[p].node
        c == selectedCore(crCache[p])
        millis == registered(p).CPUMillis
        needed == NeededBudget(n, c, millis)
    IN  {V \in {{}} : needed <= 0}
        \cup {V \in PreemptionVictims(n, c, millis, Criticality[p]) : needed >= 0}

\* The check that p was created with is still good, it was made for the core
\* that is charged and where room is made, and for no less than is charged.
covered(p) ==
    LET rt == crCache[p] IN
    /\ pod[p].checked = <<pod[p].node, rt.core>> /\ selectedCore(rt) = rt.core
    /\ registered(p).CPUMillis <= requiredBudget(p)

\* A complete CR and its scheduled pod.  AllocatedCore starts out as the core
\* of the spec; a pod that is not registered on its core is taken in hand.
Reconcile(p) ==
    LET rt == crCache[p]
        core == selectedCore(rt)
    IN  /\ worker.pc = "idle"
        /\ rt.exists /\ rt.node # NoNode /\ rt.core # NoCore /\ Scheduled(p)
        /\ cr' = Written(p, rt, [rt EXCEPT !.allocated = core])
        /\ GetOrCreateCPUPool(pod[p].node)
        /\ \/ isRegistered(p, core) /\ UNCHANGED worker
           \/ /\ ~ isRegistered(p, core)
              /\ \E V \in victims(p) :
                    worker' = [IdleWorker EXCEPT
                                 !.pc = "preempt", !.pod = p, !.node = pod[p].node,
                                 !.core = core, !.spec = rt.core,
                                 !.covered = covered(p), !.left = V]
        /\ UNCHANGED <<crCache, pod, request, going, spared, unsound, mishaps>>

\* The victims in hand are taken one by one; Reconciler has their order.
TakeVictim(v) == worker.pc = "preempt" /\ v \in worker.left
Without(v) == [worker EXCEPT !.left = @ \ {v}]

targetsOf(v) == MigrationTargets(worker.node, worker.core, registered(v).CPUMillis)

\* The victim's pod is not found.
VictimGone(v) ==
    /\ TakeVictim(v) /\ ~ pod[v].live
    /\ worker' = Without(v)
    /\ spared' = spared \cup {<<v, worker.node>>}
    /\ UNCHANGED <<poolVars, cr, crCache, pod, request, going, unsound, mishaps>>

\* The victim fits on another core, and is taken off this one first.
MigrateOff(v) ==
    /\ TakeVictim(v) /\ pod[v].live
    /\ RemovePodFromCore(worker.node, worker.core, v)
    /\ \E t \in targetsOf(v) :
          worker' = [Without(v) EXCEPT !.pc = "migrateOn", !.victim = v, !.target = t]
    /\ UNCHANGED <<cr, crCache, pod, request, going, spared, unsound, mishaps>>

\* The usage of the place goes up: the checks made for it are out of date.
Raised(rec, place) == IF rec.checked = place THEN [rec EXCEPT !.checked = <<>>] ELSE rec

Raise(place) ==
    /\ pod' = [q \in Pods |-> Raised(pod[q], place)]
    /\ request' = [r \in Requests |-> Raised(request[r], place)]

MigrateOn ==
    /\ worker.pc = "migrateOn"
    /\ AddPodToCore(worker.node, worker.target, worker.victim, registered(worker.victim))
    /\ Raise(<<worker.node, worker.target>>)
    /\ worker' = [worker EXCEPT !.pc = "migrateStatus"]
    /\ UNCHANGED <<cr, crCache, going, spared, unsound, mishaps>>

\* updatePodCoreAffinity.
MigrateStatus ==
    LET rt == crCache[worker.victim] IN
    /\ worker.pc = "migrateStatus"
    /\ cr' = IF rt.exists
               THEN Written(worker.victim, rt, [rt EXCEPT !.allocated = worker.target])
               ELSE cr
    /\ worker' = [worker EXCEPT !.pc = "preempt", !.victim = "none", !.target = NoCore]
    /\ UNCHANGED <<poolVars, crCache, pod, request, going, spared, unsound, mishaps>>

\* It fits on no other core.  The eviction marks it as terminating; its entry
\* stays until the event of that is handled.
CannotMigrate(v) == NoMigrationTarget(worker.node, worker.core, registered(v).CPUMillis)

Terminates(p) == going' = going \cup ({p} \X Nodes)

EvictPod(v) ==
    /\ TakeVictim(v) /\ pod[v].live /\ CannotMigrate(v)
    /\ worker' = Without(v)
    /\ pod' = [pod EXCEPT ![v].deleting = TRUE]
    /\ Terminates(v)
    /\ UNCHANGED <<poolVars, cr, crCache, request, spared, unsound, mishaps>>

\* The eviction is refused; the worker goes on.
EvictRefused(v) ==
    /\ TakeVictim(v) /\ pod[v].live /\ CannotMigrate(v) /\ Mishap
    /\ worker' = Without(v)
    /\ spared' = spared \cup {<<v, worker.node>>}
    /\ UNCHANGED <<poolVars, cr, crCache, pod, request, going, unsound>>

\* updateCPUPoolForPod: the pod is charged on the core of the spec, beside
\* the victims that are not gone yet, unless it is there already.
UpdateCPUPool ==
    LET p == worker.pod
        n == worker.node
        c == worker.spec
    IN  /\ worker.pc = "preempt" /\ worker.left = {}
        /\ worker' = IdleWorker
        /\ IF CorePods(n, c)[p] # NoPod
             THEN UNCHANGED <<poolVars, pod, request, unsound>>
             ELSE /\ AddPodToCore(n, c, p, registered(p))
                  /\ Raise(<<n, c>>)
                  /\ unsound' = IF worker.covered THEN unsound
                                                  ELSE unsound \cup {<<p, n>>}
        /\ UNCHANGED <<cr, crCache, going, spared, mishaps>>

-----------------------------------------------------------------------------
(***************************************************************************)
(* The end of a pod; its CR keeps node, core and allocation.               *)
(***************************************************************************)
DeletePod(p) ==
    /\ pod[p].live /\ ~ pod[p].deleting /\ Mishap
    /\ pod' = [pod EXCEPT ![p].deleting = TRUE]
    /\ Terminates(p)
    /\ UNCHANGED <<poolVars, cr, crCache, request, worker, spared, unsound>>

RemovePod(p) ==
    /\ pod[p].deleting
    /\ pod' = [pod EXCEPT ![p] = AbsentPod]
    /\ Terminates(p)
    /\ UNCHANGED <<poolVars, cr, crCache, request, worker, spared, unsound, mishaps>>

\* cleanupPodState visits the pools one after the other.  It goes by the name
\* of the pod, which may have been created again.
CleanUp(p, n) ==
    /\ <<p, n>> \in going
    /\ IF n \in pooled THEN RemovePodFromPool(n, p) ELSE UNCHANGED poolVars
    /\ going' = going \ {<<p, n>>} /\ spared' = spared \ {<<p, n>>}
    /\ unsound' = unsound \ {<<p, n>>}
    /\ UNCHANGED <<cr, crCache, pod, request, worker, mishaps>>

\* Webhooks and controller are one process: the ledger is lost, and the
\* requests in progress fail.  The pods are listed anew.
Restart ==
    /\ Mishap
    /\ ProcessRestart
    /\ crCache' = cr
    /\ request' = [r \in Requests |->
           IF request[r].pc \in {"mutate", "patch", "validate"}
             THEN [request[r] EXCEPT !.pc = "denied"] ELSE request[r]]
    /\ worker' = IdleWorker
    /\ going' = {p \in Pods : pod[p].deleting} \X Nodes
    /\ spared' = {} /\ unsound' = {}
    /\ UNCHANGED <<cr, pod>>

-----------------------------------------------------------------------------
Init ==
    /\ PoolInit
    /\ cr = [p \in Pods |-> BlankCR(p \in Installed)] /\ crCache = cr
    /\ pod = [p \in Pods |-> AbsentPod]
    /\ request = [r \in Requests |-> NewRequest]
    /\ worker = IdleWorker
    /\ going = {} /\ spared = {} /\ unsound = {}
    /\ mishaps = 0

RequestStep(r) ==
    \/ \E p \in Pods, dryRun, annotated \in BOOLEAN : Arrive(r, p, dryRun, annotated)
    \/ MutateNothing(r) \/ Select(r) \/ PatchMcKubeCore(r) \/ PatchFails(r)
    \/ ValidateNothing(r) \/ ValidatePlace(r) \/ ValidateCluster(r)
    \/ ValidateSettings(r) \/ CreatePod(r) \/ TimeOut(r)

PodStep(p) ==
    \/ \E core \in CoreIDs \cup {NoCore}, node \in Nodes \cup {NoNode} :
          CreateCR(p, core, node)
    \/ SyncCR(p) \/ (\E n \in Nodes : SchedulePod(p, n))
    \/ SetNode(p) \/ Reconcile(p)
    \/ VictimGone(p) \/ MigrateOff(p) \/ EvictPod(p) \/ EvictRefused(p)
    \/ DeletePod(p) \/ RemovePod(p) \/ (\E n \in Nodes : CleanUp(p, n))

WorkerStep == MigrateOn \/ MigrateStatus \/ UpdateCPUPool

Next ==
    \/ \E r \in Requests : RequestStep(r)
    \/ \E p \in Pods : PodStep(p)
    \/ WorkerStep \/ Restart

Spec == Init /\ [][Next]_vars

-----------------------------------------------------------------------------
Request == [pc : {"new", "mutate", "patch", "validate", "create", "done", "denied"},
            pod : Pods \cup {"none"}, dryRun : BOOLEAN, copy : CR,
            selected : Place, decided : Place, checked : Place]

Worker == [pc : {"idle", "preempt", "migrateOn", "migrateStatus"},
           pod : Pods \cup {"none"}, node : Nodes \cup {NoNode},
           core : CoreIDs \cup {NoCore}, spec : CoreIDs \cup {NoCore},
           covered : BOOLEAN, left : SUBSET Pods,
           victim : Pods \cup {"none"}, target : Cores \cup {NoCore}]

PodState == [live : BOOLEAN, deleting : BOOLEAN, node : Nodes \cup {NoNode},
             decided : Place, checked : Place]

\* Admission's state is well typed; in particular the webhook writes only
\* cores to a CR that there are.
TypeOK ==
    /\ PoolTypeOK
    /\ cr \in [Pods -> CR] /\ crCache \in [Pods -> CR]
    /\ pod \in [Pods -> PodState] /\ request \in [Requests -> Request]
    /\ worker \in Worker
    /\ going \subseteq Pods \X Nodes
    /\ spared \subseteq Pods \X Nodes /\ unsound \subseteq Pods \X Nodes
    /\ mishaps \in 0 .. MaxMishaps

\* The pods whose budget on node n is there to stay.
Staying(n) == {p \in Pods : <<p, n>> \notin going \cup spared}

\* Leaving aside the pods that are being cleaned up and the victims that the
\* controller could neither move nor evict (1074 logs it, and the newcomer
\* is charged all the same), the pods of a core exceed the RT capacity only
\* if one of them was charged without a check that covers the charge: the
\* webhooks found another place feasible, or none, or the usage of the core
\* was raised after the last check; or the controller made room on another
\* core (its AllocatedCore is not the core of the spec), or charges more
\* than was checked (a budget that rounds to zero counts 100 millicores, and
\* without validation runtime_low may exceed runtime_hi).  Between selection
\* and validation the ledger may change freely: with the CR in the cache the
\* second check makes up for it.  A charge whose check counted on victims is
\* made while they are still in the ledger, and a migration adds to a core
\* that other requests were checked for.
OverloadNeedsStaleCheck ==
    \A n \in Nodes, c \in Cores :
        Budget(corePods[n][c], Staying(n)) > RTCapacity =>
            \E p \in GetPodsOnCore(n, c) \cap Staying(n) : <<p, n>> \in unsound

\* pod_mutator.go:190 "This makes the core decision the single source of
\* truth for the Controller and the Validating Webhook": the CR of a live pod
\* names the place that was selected for it and written to the CR.
DecisionIsTruth ==
    \A p \in Pods : pod[p].live /\ pod[p].decided # <<>> =>
        <<cr[p].node, cr[p].core>> = pod[p].decided
=============================================================================
