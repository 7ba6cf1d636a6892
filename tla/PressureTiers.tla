--------------------------- MODULE PressureTiers ---------------------------
(***************************************************************************)
(* CPU pressure on one node (internal/ipvs, and the tail of Reconcile with *)
(* handleCPURecovery in internal/controller/mckube_controller.go).         *)
(*                                                                         *)
(* A node event starts a goroutine that degrades or evicts pods of the     *)
(* current criticality tier; the Reconcile worker calls the same handler   *)
(* when it sees the node become busy, and clears the state when it sees it *)
(* recover.  ProcessingNodes is guarded by ProcessingMutex, PressureState  *)
(* and the object it points to by nothing: an action is what one goroutine *)
(* does between two API calls or two accesses to them.  The node's agent,  *)
(* the API server and the kubelet are external.                            *)
(***************************************************************************)
EXTENDS Integers, FiniteSets, Sequences, SequencesExt, FiniteSetsExt

CONSTANTS
    Pods,        \* the pods that may run on the node
    Criticality, \* their McKubeRealtime criticality; NoTier without a label,
                 \* without such an object or with an unknown value
    Labelled,    \* the pods with an sdv.com label
    Requests,    \* the CPU requests of their containers, in millicores
    Resident,    \* the pods that run there from the start
    Background,  \* the goroutines that can be alive at the same time
    Worker,      \* the Reconcile worker
    NoTier, NoState,
    Scenarios    \* what is looked at: the durations above 90% that the agent
                 \* reports, and how often the environment may act, by kind

Kinds == {"arrive", "depart", "idle", "failure", "restart"}

CriticalityRank == [LOW |-> 0, MIDDLE |-> 1, HIGH |-> 2]

Tiers == DOMAIN CriticalityRank

ASSUME PressureAssumption ==
    /\ Criticality \in [Pods -> Tiers \cup {NoTier}] /\ NoTier \notin Tiers
    /\ \A p \in Pods \ Labelled : Criticality[p] = NoTier
    /\ Requests \in [Pods -> Seq(Nat)]
    /\ Labelled \subseteq Pods /\ Resident \subseteq Pods
    /\ IsFiniteSet(Background) /\ Worker \notin Background
    /\ NoState \notin Nat
    /\ \A s \in Scenarios : s.seconds \subseteq Nat /\ s.limit \in [Kinds -> Nat]

VARIABLES
    busy,            \* the isCpuBusy annotation of the node
    overSec,         \* its over-90% duration
    pod,             \* the pods of the node, as the informer lists them
    processing,      \* ProcessingNodes[node]
    pressureState,   \* the object PressureState[node] points to, or NoState
    object,          \* the NodePressureState objects
    lastBusy,        \* lastCpuBusyState[node]; {} before the first look
    proc,            \* the goroutines and the worker
    used,            \* how often each kind of environment event has happened
    scenario         \* the scenario of this behaviour; never changes

envVars == <<busy, overSec, pod>>
memVars == <<processing, pressureState, object, lastBusy>>
bounds == <<used, scenario>>
vars == <<envVars, memVars, proc, bounds>>

Procs == Background \cup {Worker}

\* An object is referred to by the map or by a goroutine that still holds it.
Ids == 1 .. Cardinality(Procs) + 1

MinMilli == 10
TierMissingTolerance == 2

\* degraded is DegradeCount > 0: the count is only ever compared with zero.
PerTier == [degraded : BOOLEAN, tried : BOOLEAN, missing : Nat, last : Nat]

FreshTier == [degraded |-> FALSE, tried |-> FALSE, missing |-> 0, last |-> 0]

\* A missing PerTier entry is created fresh where it is first used.
FreshState == [tiers |-> {}, current |-> NoTier, per |-> [t \in Tiers |-> FreshTier]]

Absent == [phase |-> "absent", req |-> <<>>]

NoPods == [p \in Pods |-> Absent]

\* The local variables of HandleNodeCPUPressure and ProcessCurrentTier: the
\* duration, the listed pods, their summed requests (a later listing), the
\* object, the tier in hand and the pod acted upon.
Idle == [pc |-> "idle", over |-> 0, pods |-> NoPods, milli |-> <<>>,
         state |-> NoState, tier |-> NoTier, target |-> {}]

Spend(kind) == /\ used[kind] < scenario.limit[kind]
               /\ used' = [used EXCEPT ![kind] = @ + 1]
               /\ UNCHANGED scenario

Step(g, new) == proc' = [proc EXCEPT ![g] = new]

Goto(g, pc) == Step(g, [proc[g] EXCEPT !.pc = pc])

\* Objects that nothing refers to any more are collected.
Reachable(obj, ptr, g) ==
    [i \in Ids |-> IF i = ptr \/ \E h \in Procs \ {g} : proc[h].state = i
                     THEN obj[i] ELSE FreshState]

\* The handler returns and leaves obj behind: the worker goes on with its
\* next Reconcile, the goroutine runs its deferred function.
LeaveWith(g, obj) ==
    /\ Step(g, IF g = Worker THEN Idle ELSE [Idle EXCEPT !.pc = "done"])
    /\ object' = Reachable(obj, pressureState, g)

Leave(g) == LeaveWith(g, object)

-----------------------------------------------------------------------------
(***************************************************************************)
(* The agent, the API server and the kubelet (external).                   *)
(***************************************************************************)
Agent == UNCHANGED <<pod, memVars, proc>>

\* While the node is busy the duration only grows.
ReportBusy(sec) ==
    /\ sec \in scenario.seconds /\ (busy => sec > overSec)
    /\ busy' = TRUE /\ overSec' = sec
    /\ Agent /\ UNCHANGED bounds

ReportIdle ==
    /\ busy /\ Spend("idle")
    /\ busy' = FALSE /\ overSec' = 0
    /\ Agent

SetPod(p, new) ==
    /\ pod' = [pod EXCEPT ![p] = new]
    /\ UNCHANGED <<busy, overSec, memVars, proc>>

\* A resident pod that is gone comes back under another name.
Arrive(p) ==
    /\ p \notin Resident /\ pod[p] = Absent /\ Spend("arrive")
    /\ SetPod(p, [phase |-> "running", req |-> Requests[p]])

Depart(p) ==
    /\ pod[p].phase = "running" /\ Spend("depart")
    /\ SetPod(p, Absent)

\* The containers of an evicted pod have stopped.
Terminated(p) ==
    /\ pod[p].phase = "terminating"
    /\ SetPod(p, Absent) /\ UNCHANGED bounds

-----------------------------------------------------------------------------
(***************************************************************************)
(* Pure helpers over a listing f of the pods.                              *)
(***************************************************************************)
Listed(f) == {p \in Pods : f[p].phase # "absent"}

FilterPodsByCriticality(f, t) == {p \in Listed(f) : Criticality[p] = t}

CollectSortedTiers(f) == {t \in Tiers : FilterPodsByCriticality(f, t) # {}}

Below(s, t) == CriticalityRank[s] < CriticalityRank[t]

Lowest(T) == CHOOSE t \in T : \A s \in T : ~ Below(s, t)

NextHigherTier(cur, T) == {t \in T : Below(cur, t) /\ \A s \in T : Below(cur, s) => ~ Below(s, t)}

ReindexCurrentTier(state) ==
    CASE state.tiers = {} -> NoTier
      [] state.tiers # {} /\ state.current \in state.tiers -> state.current
      [] OTHER -> Lowest(state.tiers)

Sum(req) == FoldSeq(LAMBDA x, y : x + y, 0, req)

\* Sum of the requests of every pod listed; the others have no entry.
ListPodMilliCPUByNode(f) == [p \in Listed(f) |-> Sum(f[p].req)]

\* The listing has no defined order: any pod with the highest sum can win.
PickHighestCPUFromMilli(P, milli) ==
    LET known == P \cap DOMAIN milli IN
    {p \in known : \A q \in known : milli[q] <= milli[p]}

HasActionableInTier(f, t) ==
    \E p \in FilterPodsByCriticality(f, t) :
        \E i \in DOMAIN f[p].req : f[p].req[i] > MinMilli

\* Mutant: a fixed amount is taken off, without the floor.
DegradeByFixed(req) == [i \in DOMAIN req |-> req[i] - 20]

\* Every container with a request loses a fifth of it, down to MinMilli.
DegradePodRequests(req) ==
    [i \in DOMAIN req |-> IF req[i] = 0 THEN 0 ELSE Max({MinMilli, (req[i] * 8) \div 10})]

-----------------------------------------------------------------------------
(***************************************************************************)
(* FindObjectsForNode.  An event that finds the node in processing is      *)
(* dropped; node events recur, if only with the kubelet's heartbeats.      *)
(***************************************************************************)
NodeEvent(g) ==
    /\ g \in Background /\ proc[g] = Idle
    /\ ~ processing
    /\ processing' = TRUE
    /\ Goto(g, IF busy THEN "list" ELSE "done")
    /\ UNCHANGED <<envVars, pressureState, object, lastBusy, bounds>>

\* Mutant: the flag is not cleared when the goroutine ends.
KeepProcessing(g) ==
    /\ proc[g].pc = "done"
    /\ Step(g, Idle)
    /\ UNCHANGED <<envVars, memVars, bounds>>

ClearProcessing(g) ==
    /\ proc[g].pc = "done"
    /\ processing' = FALSE
    /\ Step(g, Idle)
    /\ UNCHANGED <<envVars, pressureState, object, lastBusy, bounds>>

(***************************************************************************)
(* HandleNodeCPUPressure, in a goroutine or in the worker.                 *)
(***************************************************************************)
Local == UNCHANGED <<envVars, memVars>>

\* The node, the McKubeRealtime objects and the pods are read.
ReadNodeAndPods(g) ==
    /\ proc[g].pc = "list"
    /\ \/ /\ Listed(pod) # {}
          /\ Step(g, [proc[g] EXCEPT !.pc = "milli", !.over = overSec, !.pods = pod])
          /\ UNCHANGED <<object, bounds>>
       \/ Listed(pod) = {} /\ Leave(g) /\ UNCHANGED bounds
       \/ Spend("failure") /\ Leave(g)
    /\ UNCHANGED <<envVars, processing, pressureState, lastBusy>>

\* The requests come from a second listing; then the map is looked up.
ReadMilli(g) ==
    /\ proc[g].pc = "milli"
    /\ Step(g, [proc[g] EXCEPT !.milli = ListPodMilliCPUByNode(pod),
                   !.state = pressureState,
                   !.pc = IF pressureState = NoState THEN "create" ELSE "retier"])
    /\ Local /\ UNCHANGED bounds

Unreferenced == {i \in Ids : i # pressureState /\ \A g \in Procs : proc[g].state # i}

CreateState(g) ==
    /\ proc[g].pc = "create"
    /\ LET i == CHOOSE i \in Unreferenced : TRUE IN
       /\ object' = [object EXCEPT ![i] = FreshState]
       /\ pressureState' = i
       /\ Step(g, [proc[g] EXCEPT !.pc = "retier", !.state = i])
    /\ UNCHANGED <<envVars, processing, lastBusy, bounds>>

Retier(g) ==
    /\ proc[g].pc = "retier"
    /\ LET state == [object[proc[g].state] EXCEPT !.tiers = CollectSortedTiers(proc[g].pods)]
           tier == ReindexCurrentTier(state)
           obj == [object EXCEPT ![proc[g].state] = [state EXCEPT !.current = tier]]
       IN  IF state.tiers = {} THEN LeaveWith(g, obj)
                               ELSE object' = obj /\ Goto(g, "process")
    /\ UNCHANGED <<envVars, processing, pressureState, lastBusy, bounds>>

(***************************************************************************)
(* ProcessCurrentTier.  The tier is the object's, which another goroutine  *)
(* may have moved on; curTier and pts are those of the goroutine from then *)
(* on.                                                                     *)
(***************************************************************************)
curTier(g) == proc[g].tier
pts(g) == object[proc[g].state].per[curTier(g)]
targets(g) == FilterPodsByCriticality(proc[g].pods, curTier(g))

SetTier(g, t, new) == object' = [object EXCEPT ![proc[g].state].per[t] = new]

ProcessTier(g) ==
    LET state == object[proc[g].state]
        t == state.current
        here == FilterPodsByCriticality(proc[g].pods, t)
    IN
    /\ proc[g].pc = "process"
    /\ \/ t = NoTier /\ Leave(g)
       \/ /\ t # NoTier /\ here # {}
          /\ SetTier(g, t, [state.per[t] EXCEPT !.missing = 0])
          /\ Step(g, [proc[g] EXCEPT !.pc = "degrade?", !.tier = t])
       \/ /\ t # NoTier /\ here = {}
          /\ LET missing == Min({state.per[t].missing + 1, TierMissingTolerance})
                 moved == [state EXCEPT !.per[t].missing = missing]
                 next == NextHigherTier(t, state.tiers)
             IN  IF missing = TierMissingTolerance /\ next # {}
                   THEN /\ object' = [object EXCEPT ![proc[g].state] =
                                         [moved EXCEPT !.current = Lowest(next)]]
                        /\ UNCHANGED proc
                   ELSE LeaveWith(g, [object EXCEPT ![proc[g].state] = moved])
    /\ UNCHANGED <<envVars, processing, pressureState, lastBusy, bounds>>

\* Mutant: a pod that is down to the minimum is not counted as degraded.
DecideDegradeOnlyAbove(g) ==
    /\ proc[g].pc = "degrade?"
    /\ LET tops == PickHighestCPUFromMilli(targets(g), proc[g].milli)
           should == /\ proc[g].over >= 1 /\ ~ pts(g).tried
                     /\ ~ pts(g).degraded \/ proc[g].over - pts(g).last >= 3
       IN  IF should /\ \E p \in tops : proc[g].milli[p] > MinMilli
             THEN \E p \in tops : Step(g, [proc[g] EXCEPT !.pc = "degrade", !.target = {p}])
             ELSE Goto(g, "evict?")
    /\ Local /\ UNCHANGED bounds

DecideDegrade(g) ==
    /\ proc[g].pc = "degrade?"
    /\ LET tops == PickHighestCPUFromMilli(targets(g), proc[g].milli)
           should == /\ proc[g].over >= 1 /\ ~ pts(g).tried
                     /\ ~ pts(g).degraded \/ proc[g].over - pts(g).last >= 3
       IN  \/ /\ ~ should \/ tops = {}
              /\ Goto(g, "evict?") /\ UNCHANGED object
           \/ /\ should
              /\ \E p \in tops :
                    \/ /\ proc[g].milli[p] > MinMilli
                       /\ Step(g, [proc[g] EXCEPT !.pc = "degrade", !.target = {p}])
                       /\ UNCHANGED object
                    \/ /\ proc[g].milli[p] <= MinMilli
                       /\ SetTier(g, curTier(g), [pts(g) EXCEPT !.degraded = TRUE])
                       /\ Goto(g, "evict?")
    /\ UNCHANGED <<envVars, processing, pressureState, lastBusy, bounds>>

\* The resize patch carries absolute values computed from the listed pod; the
\* answer replaces the listed pod.  A failed patch counts for nothing.
Degrade(g) ==
    /\ proc[g].pc = "degrade"
    /\ \E p \in proc[g].target :
         LET new == [pod[p] EXCEPT !.req = DegradePodRequests(proc[g].pods[p].req)] IN
         \/ /\ pod[p].phase # "absent"
            /\ pod' = [pod EXCEPT ![p] = new]
            /\ SetTier(g, curTier(g), [pts(g) EXCEPT !.degraded = TRUE, !.last = proc[g].over])
            /\ Step(g, [proc[g] EXCEPT !.pc = "evict?", !.pods[p] = new, !.target = {}])
            /\ UNCHANGED bounds
         \/ /\ (pod[p].phase = "absent" /\ UNCHANGED bounds) \/ Spend("failure")
            /\ Step(g, [proc[g] EXCEPT !.pc = "evict?", !.target = {}])
            /\ UNCHANGED <<pod, object>>
    /\ UNCHANGED <<busy, overSec, processing, pressureState, lastBusy>>

DecideEvict(g) ==
    /\ proc[g].pc = "evict?"
    /\ LET victims == PickHighestCPUFromMilli(targets(g), proc[g].milli)
           should == proc[g].over >= 10 /\ pts(g).degraded /\ ~ pts(g).tried
       IN  \/ (~ should \/ victims = {}) /\ Goto(g, "escalate")
           \/ /\ should
              /\ \E p \in victims : Step(g, [proc[g] EXCEPT !.pc = "evict", !.target = {p}])
    /\ Local /\ UNCHANGED bounds

\* EvictPod.  The label it sets first changes nothing here.  The tier counts
\* as tried even if the eviction is refused.
EvictPod(g) ==
    /\ proc[g].pc = "evict"
    /\ \E p \in proc[g].target :
         \/ /\ pod[p].phase # "absent"
            /\ pod' = [pod EXCEPT ![p].phase = "terminating"] /\ UNCHANGED bounds
         \/ /\ (pod[p].phase = "absent" /\ UNCHANGED bounds) \/ Spend("failure")
            /\ UNCHANGED pod
    /\ SetTier(g, curTier(g), [pts(g) EXCEPT !.tried = TRUE])
    /\ Step(g, [proc[g] EXCEPT !.pc = "escalate", !.target = {}])
    /\ UNCHANGED <<busy, overSec, processing, pressureState, lastBusy>>

\* Mutant: the next tier is taken before an eviction was tried.
EscalateEarly(g) ==
    /\ proc[g].pc = "escalate"
    /\ LET next == NextHigherTier(curTier(g), object[proc[g].state].tiers) IN
       IF pts(g).degraded /\ next # {}
         THEN LeaveWith(g, [object EXCEPT ![proc[g].state].current = Lowest(next)])
         ELSE Leave(g)
    /\ UNCHANGED <<envVars, processing, pressureState, lastBusy, bounds>>

Escalate(g) ==
    /\ proc[g].pc = "escalate"
    /\ LET next == NextHigherTier(curTier(g), object[proc[g].state].tiers) IN
       IF /\ pts(g).degraded /\ pts(g).tried
          /\ ~ HasActionableInTier(proc[g].pods, curTier(g)) /\ next # {}
         THEN LeaveWith(g, [object EXCEPT ![proc[g].state].current = Lowest(next)])
         ELSE Leave(g)
    /\ UNCHANGED <<envVars, processing, pressureState, lastBusy, bounds>>

-----------------------------------------------------------------------------
(***************************************************************************)
(* The tail of Reconcile: only a change of the flag since the last look is *)
(* handled, and it counts as seen before it is handled.                    *)
(***************************************************************************)
CheckNode ==
    /\ proc[Worker] = Idle
    /\ lastBusy # {busy}
    /\ lastBusy' = {busy}
    /\ Goto(Worker, IF busy THEN "list" ELSE "recover")
    /\ UNCHANGED <<envVars, processing, pressureState, object, bounds>>

\* handleCPURecovery.  Without labelled pods, or without a listing, it
\* returns at once; otherwise the pods are reverted before it clears the maps.
RecoverPods ==
    /\ proc[Worker].pc = "recover"
    /\ \/ Listed(pod) \cap Labelled # {} /\ Goto(Worker, "clear") /\ UNCHANGED bounds
       \/ Listed(pod) \cap Labelled = {} /\ Step(Worker, Idle) /\ UNCHANGED bounds
       \/ Spend("failure") /\ Step(Worker, Idle)
    /\ Local

RecoverClear ==
    /\ proc[Worker].pc = "clear"
    /\ pressureState' = NoState /\ processing' = FALSE
    /\ Step(Worker, Idle)
    /\ object' = Reachable(object, NoState, Worker)
    /\ UNCHANGED <<envVars, lastBusy, bounds>>

\* A crash (Go aborts on concurrent map writes) or a restart.
Restart ==
    /\ Spend("restart")
    /\ processing' = FALSE /\ pressureState' = NoState /\ lastBusy' = {}
    /\ object' = [i \in Ids |-> FreshState]
    /\ proc' = [g \in Procs |-> Idle]
    /\ UNCHANGED <<busy, overSec, pod>>

Init ==
    /\ busy = FALSE /\ overSec = 0
    /\ pod = [p \in Pods |-> IF p \in Resident
                               THEN [phase |-> "running", req |-> Requests[p]] ELSE Absent]
    /\ processing = FALSE /\ pressureState = NoState
    /\ object = [i \in Ids |-> FreshState] /\ lastBusy = {}
    /\ proc = [g \in Procs |-> Idle]
    /\ used = [k \in Kinds |-> 0] /\ scenario \in Scenarios

Handle(g) ==
    \/ ReadNodeAndPods(g) \/ ReadMilli(g) \/ CreateState(g) \/ Retier(g)
    \/ ProcessTier(g) \/ DecideDegrade(g) \/ Degrade(g) \/ DecideEvict(g)
    \/ EvictPod(g) \/ Escalate(g) \/ ClearProcessing(g)

Recover == RecoverPods \/ RecoverClear

Environment ==
    \/ (\E sec \in scenario.seconds : ReportBusy(sec)) \/ ReportIdle
    \/ \E p \in Pods : Arrive(p) \/ Depart(p)
    \/ Restart

Next ==
    \/ Environment
    \/ \E p \in Pods : Terminated(p)
    \/ \E g \in Procs : NodeEvent(g) \/ Handle(g)
    \/ CheckNode \/ Recover

(***************************************************************************)
(* Goroutines run (the API calls of a goroutine end within its 30 s        *)
(* timeout), the kubelet does its part, and node events keep coming, if    *)
(* only as heartbeats.  Nothing guarantees another Reconcile: CheckNode is *)
(* not fair.                                                               *)
(***************************************************************************)
Fairness ==
    /\ \A g \in Procs : WF_vars(Handle(g))
    /\ WF_vars(Recover)
    /\ WF_vars(\E g \in Background : NodeEvent(g))
    /\ \A p \in Pods : WF_vars(Terminated(p))

Spec == Init /\ [][Next]_vars

FairSpec == Spec /\ Fairness

-----------------------------------------------------------------------------
ProcPC == {"idle", "done", "list", "milli", "create", "retier", "process", "degrade?",
           "degrade", "evict?", "evict", "escalate", "recover", "clear"}

PodRecord == [phase : {"absent", "running", "terminating"}, req : Seq(Nat)]

\* The pressure handler's state is well typed.
TypeOK ==
    /\ busy \in BOOLEAN /\ overSec \in scenario.seconds \cup {0}
    /\ pod \in [Pods -> PodRecord]
    /\ processing \in BOOLEAN /\ pressureState \in Ids \cup {NoState}
    /\ object \in [Ids -> [tiers : SUBSET Tiers, current : Tiers \cup {NoTier},
                           per : [Tiers -> PerTier]]]
    /\ lastBusy \subseteq BOOLEAN
    /\ \A g \in Procs :
         /\ proc[g].pc \in ProcPC /\ proc[g].pods \in [Pods -> PodRecord]
         /\ proc[g].state \in Ids \cup {NoState} /\ proc[g].tier \in Tiers \cup {NoTier}
         /\ proc[g].target \subseteq Pods
    /\ used \in [Kinds -> Nat] /\ scenario \in Scenarios

\* Lower tiers first: whatever goroutines share, replace or lose a pressure
\* state, a pod is degraded or evicted only if every lower tier with a pod
\* that was there from the start has had its eviction tried.
TierOrder ==
    \A g \in Procs : proc[g].pc \in {"degrade", "evict"} =>
        \A q \in Resident :
            (/\ pod[q] # Absent /\ Criticality[q] \in Tiers
             /\ Below(Criticality[q], curTier(g)))
            => object[proc[g].state].per[Criticality[q]].tried

\* A node does not stay marked as being processed, whatever fails and
\* whoever clears the mark first.
ProcessingEnds == processing ~> ~ processing

\* If a node with pods in some tier stays above 90% for ten seconds and more,
\* an eviction is eventually tried, also when the pods cannot be degraded
\* any further, calls have failed or the controller was restarted.
EvictionTried ==
    <>[](busy /\ overSec >= 10 /\ CollectSortedTiers(pod) # {}) =>
        <>(pressureState # NoState /\ \E t \in Tiers : object[pressureState].per[t].tried)

\* event_handler.go:237 "If CPU threshold duration is 1+ seconds, perform
\* graceful degradation repeatedly": under lasting pressure the pods of the
\* lowest tier are eventually gone or down to the minimum.
LowestTierRelieved ==
    <>[](busy /\ overSec >= 10) =>
        <>(LET T == CollectSortedTiers(pod) IN
           T # {} => ~ HasActionableInTier(pod, Lowest(T)))
=============================================================================
