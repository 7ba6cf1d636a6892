------------------------- MODULE RuntimeEscalation -------------------------
(***************************************************************************)
(* Who sets the kernel runtime of a pod's containers, and with what: the   *)
(* Reconcile worker (apply, migration, throttling before eviction, CPU     *)
(* recovery), the overrun handlers and the webhook's goroutine             *)
(* (internal/controller/mckube_controller.go, internal/webhook).           *)
(*                                                                         *)
(* One pod name is followed through its incarnations.  Every request to    *)
(* node-actuator is a step of its own: what the sender read before it may  *)
(* be out of date when it takes effect, and what it writes after it may    *)
(* come after somebody else's write.  Which core a migration picks and     *)
(* what the ledger holds is the matter of Reconciler.                      *)
(***************************************************************************)
EXTENDS Integers, FiniteSets

CONSTANTS
    Containers, \* the pod's containers
    First,      \* ContainerStatuses[0]
    Scenarios,  \* what is looked at: how often the environment may act, by kind
    MaxUid      \* bound on the incarnations of the pod

Kinds == {"create", "mutate", "delete", "overrun", "preempt", "busy", "failure",
          "lost", "restart", "late"}

ASSUME EscalationAssumption ==
    /\ IsFiniteSet(Containers) /\ First \in Containers
    /\ Scenarios \subseteq [Kinds -> Nat] /\ MaxUid \in Nat

VARIABLES
    pod,       \* phase and incarnation (UID) of the pod
    kernel,    \* kernel[c]: the runtime node-actuator last set for container c
    level,     \* podRuntimeState[name]; "none" if there is no entry
    throttled, \* throttledVictims: the age of each incarnation's marker
    events,    \* pod events with a deletion timestamp still to be handled
    queued,    \* whether the CR's key is in the work queue
    busy,      \* the isCpuBusy annotation of the node
    lastBusy,  \* lastCpuBusyState[node]; {} before the first look
    worker,    \* the Reconcile in progress
    overrun,   \* overrun[c]: the handler of a report about container c
    hooks,     \* the incarnations whose webhook goroutine is alive; 0 for a
               \* goroutine of a request that created no pod
    used,      \* how often each kind of environment event has happened
    limit      \* how often it may happen in this behaviour; never changes

podVars == <<pod, events, busy>>
memVars == <<level, throttled, lastBusy>>
bounds == <<used, limit>>
vars == <<podVars, kernel, memVars, queued, worker, overrun, hooks, bounds>>

Uids == 0 .. MaxUid

Phases == {"absent", "pending", "running", "terminating"}

\* marked: a throttling request went through; unchanged: the migration wrote
\* the AllocatedCore that was there already.
IdleWorker == [pc |-> "idle", uid |-> 0, todo |-> {}, send |-> "none",
               marked |-> FALSE, unchanged |-> FALSE]

IdleOverrun == [pc |-> "idle", uid |-> 0]

Spend(kind) == /\ used[kind] < limit[kind]
               /\ used' = [used EXCEPT ![kind] = @ + 1]
               /\ UNCHANGED limit

\* Mutant: the entry is taken as it is, also where there is none.
RuntimeAsStored == level

\* The runtime that podRuntimeState selects.
effectiveRuntime == IF level = "hi" THEN "hi" ELSE "low"

-----------------------------------------------------------------------------
(***************************************************************************)
(* Users, the kubelet, the node's agent, the clock (external).  A pod that *)
(* starts or stops causes a pod event, and that a Reconcile.               *)
(***************************************************************************)
Others == UNCHANGED <<level, throttled, lastBusy, worker, overrun>>

Gone == [c \in Containers |-> "none"]

\* The mutating webhook starts a goroutine for each pod that it mutates, also
\* if the pod is not stored: a dry run, or a request that is denied later.
MutateOnly ==
    /\ Spend("mutate")
    /\ hooks' = hooks \cup {0}
    /\ Others /\ UNCHANGED <<podVars, kernel, queued>>

CreatePod ==
    /\ pod.phase = "absent" /\ pod.uid < MaxUid /\ Spend("create")
    /\ pod' = [phase |-> "pending", uid |-> pod.uid + 1]
    /\ hooks' = hooks \cup {pod.uid + 1}
    /\ queued' = TRUE
    /\ Others /\ UNCHANGED <<kernel, events, busy>>

RunPod ==
    /\ pod.phase = "pending"
    /\ pod' = [pod EXCEPT !.phase = "running"]
    /\ queued' = TRUE
    /\ Others /\ UNCHANGED <<kernel, events, busy, hooks, bounds>>

DeletePod ==
    /\ pod.phase \in {"pending", "running"} /\ Spend("delete")
    /\ pod' = [pod EXCEPT !.phase = "terminating"]
    /\ events' = events + 1
    /\ Others /\ UNCHANGED <<kernel, queued, busy, hooks>>

RemovePod ==
    /\ pod.phase = "terminating"
    /\ pod' = [pod EXCEPT !.phase = "absent"] /\ kernel' = Gone
    /\ events' = events + 1
    /\ Others /\ UNCHANGED <<queued, busy, hooks, bounds>>

ReportNode ==
    /\ Spend("busy")
    /\ busy' = ~ busy
    /\ Others /\ UNCHANGED <<pod, kernel, events, queued, hooks>>

\* The marker's 30 seconds are over.
Expire(u) ==
    /\ throttled[u] = "fresh"
    /\ throttled' = [throttled EXCEPT ![u] = "old"]
    /\ UNCHANGED <<podVars, kernel, level, lastBusy, queued, worker, overrun, hooks, bounds>>

\* The informer's periodic resync delivers every CR again.
Resync ==
    /\ ~ queued /\ queued' = TRUE
    /\ Others /\ UNCHANGED <<podVars, kernel, hooks, bounds>>

\* findObjectsForPod for a terminating pod: cleanupPodState goes by name.
HandleTerminatingEvent ==
    /\ events > 0 /\ events' = events - 1
    /\ level' = "none"
    /\ queued' = TRUE
    /\ UNCHANGED <<pod, busy, kernel, throttled, lastBusy, worker, overrun, hooks, bounds>>

-----------------------------------------------------------------------------
(***************************************************************************)
(* SendRTRequest: node-actuator sets the runtime of a container of this    *)
(* incarnation, or the request fails; it fails for a container that is     *)
(* gone.                                                                   *)
(***************************************************************************)
Running(uid) == pod.uid = uid /\ pod.phase \in {"running", "terminating"}

Sent(c, uid, runtime) ==
    Running(uid) /\ kernel' = [kernel EXCEPT ![c] = runtime] /\ UNCHANGED bounds

NotSent(uid) ==
    /\ UNCHANGED kernel
    /\ (~ Running(uid) /\ UNCHANGED bounds) \/ Spend("failure")

\* History: RuntimeLow went to a pod at hi, and no Reconcile follows.
Late(unseen) ==
    /\ used' = [used EXCEPT !["late"] = IF unseen /\ level = "hi" THEN 1 ELSE @]
    /\ UNCHANGED limit

\* A status update of the CR: it wakes the worker, or it conflicts and is not
\* repeated.
StatusUpdate ==
    \/ queued' = TRUE /\ UNCHANGED bounds
    \/ Spend("lost") /\ UNCHANGED queued

-----------------------------------------------------------------------------
(***************************************************************************)
(* handleOverrunEvent, one goroutine per report; a container has at most   *)
(* one at a time.  A report about a pod that is at hi already is dropped.  *)
(***************************************************************************)
OverrunCheck(c) ==
    /\ overrun[c] = IdleOverrun
    /\ Running(pod.uid) /\ level # "hi" /\ Spend("overrun")
    /\ overrun' = [overrun EXCEPT ![c] = [pc |-> "send", uid |-> pod.uid]]
    /\ UNCHANGED <<podVars, kernel, memVars, queued, worker, hooks>>

OverrunSend(c) ==
    /\ overrun[c].pc = "send"
    /\ \/ /\ Sent(c, overrun[c].uid, "hi")
          /\ overrun' = [overrun EXCEPT ![c].pc = "record"]
       \/ NotSent(overrun[c].uid) /\ overrun' = [overrun EXCEPT ![c] = IdleOverrun]
    /\ UNCHANGED <<podVars, memVars, queued, worker, hooks>>

OverrunRecord(c) ==
    /\ overrun[c].pc = "record"
    /\ level' = "hi"
    /\ overrun' = [overrun EXCEPT ![c].pc = "status"]
    /\ UNCHANGED <<podVars, kernel, throttled, lastBusy, queued, worker, hooks, bounds>>

\* Mutant: the status of the CR is left alone.
OverrunSilent(c) ==
    /\ overrun[c].pc = "status"
    /\ overrun' = [overrun EXCEPT ![c] = IdleOverrun]
    /\ UNCHANGED <<podVars, kernel, memVars, queued, worker, hooks, bounds>>

OverrunStatus(c) ==
    /\ overrun[c].pc = "status"
    /\ StatusUpdate
    /\ overrun' = [overrun EXCEPT ![c] = IdleOverrun]
    /\ UNCHANGED <<podVars, kernel, memVars, worker, hooks>>

-----------------------------------------------------------------------------
(***************************************************************************)
(* scheduleRTConfiguration: goroutine u polls the pod by its name and      *)
(* sends runtime_low to its first container once.  Its                     *)
(* context ends with the admission request, so its annotations never reach *)
(* the API server and cause no event.                                      *)
(***************************************************************************)
HookApply(u) ==
    /\ u \in hooks /\ Running(pod.uid)
    /\ \/ /\ hooks' = hooks \ {u}
          /\ kernel' = [kernel EXCEPT ![First] = "low"]
          /\ Late(TRUE)
       \/ NotSent(pod.uid) /\ UNCHANGED hooks
    /\ UNCHANGED <<podVars, memVars, queued, worker, overrun>>

\* The pod is gone, or five minutes have passed.
HookStop(u) ==
    /\ u \in hooks
    /\ hooks' = hooks \ {u}
    /\ UNCHANGED <<podVars, kernel, memVars, queued, worker, overrun, bounds>>

-----------------------------------------------------------------------------
(***************************************************************************)
(* Reconcile.                                                              *)
(***************************************************************************)
Work == UNCHANGED <<podVars, overrun, hooks>>

Goto(pc) == worker' = [worker EXCEPT !.pc = pc]

GotoTail == worker' = [IdleWorker EXCEPT !.pc = "tail"]

\* Expired markers go first; a pod with a node gets its runtime state.
Begin ==
    /\ worker.pc = "idle" /\ queued
    /\ queued' = FALSE
    /\ throttled' = [u \in Uids |-> IF throttled[u] = "old" THEN "none" ELSE throttled[u]]
    /\ level' = IF pod.phase # "absent" /\ level = "none" THEN "low" ELSE level
    /\ worker' = IF pod.phase = "running"
                   THEN [IdleWorker EXCEPT !.pc = "apply", !.uid = pod.uid]
                   ELSE [IdleWorker EXCEPT !.pc = "tail"]
    /\ Work /\ UNCHANGED <<kernel, lastBusy, bounds>>

\* Mutant: a victim counts as throttled until somebody sets its runtime.
ThrottledWhileMin(u) ==
    throttled[u] = "fresh" \/ \E c \in Containers : kernel[c] = "min"

isVictimThrottled(u) == throttled[u] = "fresh"

\* applyRTSettingsToContainers: the runtime is chosen once for all requests;
\* the first request that fails ends it.
Apply ==
    /\ worker.pc = "apply"
    /\ worker' = IF isVictimThrottled(worker.uid)
                   THEN [IdleWorker EXCEPT !.pc = "tail"]
                   ELSE [worker EXCEPT !.pc = "send", !.todo = Containers,
                                       !.send = effectiveRuntime]
    /\ Work /\ UNCHANGED <<kernel, memVars, queued, bounds>>

ApplySend(c) ==
    /\ worker.pc = "send" /\ c \in worker.todo
    /\ \/ /\ Sent(c, worker.uid, worker.send)
          /\ worker' = [worker EXCEPT !.todo = @ \ {c}]
       \/ NotSent(worker.uid) /\ worker' = [worker EXCEPT !.todo = {}]
    /\ Work /\ UNCHANGED <<memVars, queued>>

ApplyDone ==
    /\ worker.pc = "send" /\ worker.todo = {}
    /\ GotoTail
    /\ Work /\ UNCHANGED <<kernel, memVars, queued, bounds>>

(***************************************************************************)
(* The Reconcile of another pod of the node may preempt this one.          *)
(***************************************************************************)
OtherReconcile ==
    /\ worker.pc = "idle"
    /\ GotoTail
    /\ Work /\ UNCHANGED <<kernel, memVars, queued, bounds>>

Preempt(pc, unchanged) ==
    /\ worker.pc = "idle" /\ pod.phase # "absent" /\ Spend("preempt")
    /\ worker' = [IdleWorker EXCEPT !.pc = pc, !.uid = pod.uid, !.unchanged = unchanged,
                      !.todo = IF pod.phase = "pending" THEN {} ELSE Containers]

\* updatePodCoreAffinity writes AllocatedCore, and returns if it cannot.  A
\* pod that was charged on the core of its spec again may move to the very
\* core its status names: that write changes nothing and causes no event.
Migrate ==
    /\ \/ Preempt("migrate", FALSE) /\ queued' = TRUE
       \/ Preempt("migrate", TRUE) /\ UNCHANGED queued
    /\ Work /\ UNCHANGED <<kernel, memVars>>

MigrateRefused ==
    /\ worker.pc = "idle" /\ pod.phase # "absent" /\ Spend("lost")
    /\ GotoTail
    /\ Work /\ UNCHANGED <<kernel, memVars, queued>>

\* It sends RuntimeLow with the new core, whatever podRuntimeState says.
MigrateSend(c) ==
    /\ worker.pc = "migrate" /\ c \in worker.todo
    /\ \/ /\ Running(worker.uid)
          /\ kernel' = [kernel EXCEPT ![c] = "low"]
          /\ Late(worker.unchanged)
       \/ NotSent(worker.uid)
    /\ worker' = [worker EXCEPT !.todo = @ \ {c}]
    /\ Work /\ UNCHANGED <<memVars, queued>>

MigrateDone ==
    /\ worker.pc = "migrate" /\ worker.todo = {}
    /\ GotoTail
    /\ Work /\ UNCHANGED <<kernel, memVars, queued, bounds>>

Throttle ==
    /\ Preempt("throttle", FALSE)
    /\ Work /\ UNCHANGED <<kernel, memVars, queued>>

ThrottleSend(c) ==
    /\ worker.pc = "throttle" /\ c \in worker.todo
    /\ \/ /\ Sent(c, worker.uid, "min")
          /\ worker' = [worker EXCEPT !.todo = @ \ {c}, !.marked = TRUE]
       \/ NotSent(worker.uid) /\ worker' = [worker EXCEPT !.todo = @ \ {c}]
    /\ Work /\ UNCHANGED <<memVars, queued>>

markThrottledVictim ==
    /\ worker.pc = "throttle" /\ worker.todo = {}
    /\ throttled' = IF worker.marked THEN [throttled EXCEPT ![worker.uid] = "fresh"]
                                     ELSE throttled
    /\ Goto("evict")
    /\ Work /\ UNCHANGED <<kernel, level, lastBusy, queued, bounds>>

\* The eviction goes through whether or not throttling did; it names the pod,
\* and it can be refused.
Evict ==
    /\ worker.pc = "evict"
    /\ \/ /\ pod.phase \in {"pending", "running"}
          /\ pod' = [pod EXCEPT !.phase = "terminating"] /\ events' = events + 1
          /\ UNCHANGED bounds
       \/ pod.phase \in {"absent", "terminating"} /\ UNCHANGED <<pod, events, bounds>>
       \/ Spend("failure") /\ UNCHANGED <<pod, events>>
    /\ GotoTail
    /\ UNCHANGED <<busy, kernel, memVars, queued, overrun, hooks>>

(***************************************************************************)
(* The tail, and handleCPURecovery.  (The pressure handler of the busy     *)
(* branch is PressureTiers.)                                               *)
(***************************************************************************)
CheckNode ==
    /\ worker.pc = "tail"
    /\ lastBusy' = {busy}
    /\ worker' = IF lastBusy # {busy} /\ ~ busy
                   THEN [IdleWorker EXCEPT !.pc = "recover"] ELSE IdleWorker
    /\ Work /\ UNCHANGED <<kernel, level, throttled, queued, bounds>>

\* Mutant: the node's recovery leaves the pods as they are.
RecoverNothing ==
    /\ worker.pc = "recover"
    /\ worker' = IdleWorker
    /\ Work /\ UNCHANGED <<kernel, memVars, queued, bounds>>

\* A pod that is not at hi, or has no host yet, is left alone.
Recover ==
    /\ worker.pc = "recover"
    /\ \/ /\ worker' = IF Running(pod.uid) /\ level = "hi"
                         THEN [worker EXCEPT !.pc = "revert", !.uid = pod.uid,
                                             !.todo = Containers]
                         ELSE IdleWorker
          /\ UNCHANGED bounds
       \/ Spend("failure") /\ worker' = IdleWorker
    /\ Work /\ UNCHANGED <<kernel, memVars, queued>>

RevertSend(c) ==
    /\ worker.pc = "revert" /\ c \in worker.todo
    /\ Sent(c, worker.uid, "low") \/ NotSent(worker.uid)
    /\ worker' = [worker EXCEPT !.todo = @ \ {c}]
    /\ Work /\ UNCHANGED <<memVars, queued>>

\* The state changes even if no request went through.
RevertDone ==
    /\ worker.pc = "revert" /\ worker.todo = {}
    /\ level' = "low"
    /\ Goto("reverted")
    /\ Work /\ UNCHANGED <<kernel, throttled, lastBusy, queued, bounds>>

\* The status is low already if the overrun has not written it yet: then the
\* write changes nothing.
RevertStatus ==
    /\ worker.pc = "reverted"
    /\ \/ StatusUpdate
       \/ /\ \E c \in Containers : overrun[c].pc = "status"
          /\ UNCHANGED <<queued, bounds>>
    /\ worker' = IdleWorker
    /\ Work /\ UNCHANGED <<kernel, memVars>>

-----------------------------------------------------------------------------
Restart ==
    /\ Spend("restart")
    /\ level' = "none" /\ throttled' = [u \in Uids |-> "none"] /\ lastBusy' = {}
    /\ worker' = IdleWorker /\ overrun' = [c \in Containers |-> IdleOverrun]
    /\ hooks' = {} /\ queued' = TRUE
    /\ events' = IF pod.phase = "terminating" THEN 1 ELSE 0
    /\ UNCHANGED <<pod, busy, kernel>>

Init ==
    /\ pod = [phase |-> "absent", uid |-> 0] /\ kernel = Gone
    /\ level = "none" /\ throttled = [u \in Uids |-> "none"] /\ events = 0
    /\ queued = TRUE /\ busy = FALSE /\ lastBusy = {}
    /\ worker = IdleWorker /\ overrun = [c \in Containers |-> IdleOverrun]
    /\ hooks = {} /\ used = [k \in Kinds |-> 0] /\ limit \in Scenarios

Kubelet == RunPod \/ RemovePod

Environment ==
    \/ MutateOnly \/ CreatePod \/ DeletePod \/ ReportNode \/ Restart
    \/ OtherReconcile \/ Migrate \/ MigrateRefused \/ Throttle
    \/ \E c \in Containers : OverrunCheck(c)

OverrunStep(c) == OverrunSend(c) \/ OverrunRecord(c) \/ OverrunStatus(c)

HookStep(u) == HookApply(u) \/ HookStop(u)

WorkerStep ==
    \/ Apply \/ ApplyDone \/ MigrateDone \/ markThrottledVictim \/ Evict
    \/ CheckNode \/ Recover \/ RevertDone \/ RevertStatus
    \/ \E c \in Containers : \/ ApplySend(c) \/ MigrateSend(c)
                             \/ ThrottleSend(c) \/ RevertSend(c)

Next ==
    \/ Environment \/ Kubelet \/ HandleTerminatingEvent \/ Resync
    \/ \E u \in Uids : Expire(u) \/ HookStep(u)
    \/ \E c \in Containers : OverrunStep(c)
    \/ Begin \/ WorkerStep

(***************************************************************************)
(* Goroutines run and node-actuator answers, the kubelet does its part,    *)
(* the clock runs, the work queue is FIFO, and the informers resync (every *)
(* ten hours by default).                                                  *)
(***************************************************************************)
Fairness ==
    /\ WF_vars(Kubelet) /\ WF_vars(HandleTerminatingEvent) /\ WF_vars(Resync)
    /\ \A u \in Uids : WF_vars(Expire(u)) /\ WF_vars(HookStep(u))
    /\ \A c \in Containers : WF_vars(OverrunStep(c))
    /\ SF_vars(Begin) /\ WF_vars(WorkerStep)

Spec == Init /\ [][Next]_vars

FairSpec == Spec /\ Fairness

-----------------------------------------------------------------------------
Runtimes == {"none", "low", "hi", "min"}

Worker == [pc : {"idle", "apply", "send", "migrate", "throttle", "evict", "tail",
                 "recover", "revert", "reverted"},
           uid : Uids, todo : SUBSET Containers, send : Runtimes,
           marked : BOOLEAN, unchanged : BOOLEAN]

Overrun == [pc : {"idle", "send", "record", "status"}, uid : Uids]

\* The escalation state is well typed; in particular the worker sends one of
\* the two runtimes of the spec, also if podRuntimeState was dropped after
\* the Reconcile had filled it in.
TypeOK ==
    /\ pod \in [phase : Phases, uid : Uids] /\ kernel \in [Containers -> Runtimes]
    /\ level \in {"none", "low", "hi"} /\ throttled \in [Uids -> {"none", "fresh", "old"}]
    /\ events \in Nat /\ queued \in BOOLEAN /\ busy \in BOOLEAN /\ lastBusy \subseteq BOOLEAN
    /\ worker \in Worker /\ (worker.pc = "send" => worker.send \in {"low", "hi"})
    /\ overrun \in [Containers -> Overrun]
    /\ hooks \subseteq Uids /\ used \in [Kinds -> Nat] /\ limit \in Scenarios

Quiescent ==
    /\ worker.pc = "idle" /\ ~ queued /\ events = 0 /\ hooks = {}
    /\ \A c \in Containers : overrun[c].pc = "idle"

Agrees == \A c \in Containers : kernel[c] = effectiveRuntime

\* When nothing is left to do and no call has failed, the containers of a
\* running pod have the runtime podRuntimeState selects: whoever changes one
\* of the two behind the other's back also causes the Reconcile that repairs
\* it.  Excepted are the two that do not, where they find the pod at hi: a
\* webhook goroutine, and a migration that rewrites the AllocatedCore it
\* finds (1309-1311, then RuntimeLow at 1332).
QuietAgrees ==
    /\ Quiescent /\ pod.phase = "running"
    /\ used["failure"] = 0 /\ used["lost"] = 0 /\ used["late"] = 0
    => Agrees

\* A pod that keeps running settles on its runtime, through failed requests,
\* lost updates, a migration, a throttling whose eviction is refused, a late
\* webhook goroutine and a restart.
KernelSettles == <>[](pod.phase = "running") => <>[](pod.phase = "running" /\ Agrees)

\* Once the controller has seen the node busy, a pod at hi goes back to low
\* when the node stays idle.
EscalationReverted ==
    (level = "hi" /\ lastBusy = {TRUE} /\ pod.phase = "running")
      ~> (level # "hi" \/ busy \/ pod.phase # "running" \/ used["failure"] > 0)

\* RUNTIME_ESCALATION.md:27 (when isCpuBusy=false is sent, all RT pods of the
\* node go back to runtime_low): a pod that was at hi while the node was busy
\* does not stay at hi on a node that is idle from then on.
RecoveryReverts ==
    []((level = "hi" /\ busy) => <>(level # "hi" \/ pod.phase # "running") \/ []<>busy)
=============================================================================
