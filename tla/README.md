# Verification of MC-Kube

MC-Kube is a Kubernetes operator for mixed-criticality real-time (RT) pods. It
keeps a ledger of the RT budget of every core of every node, places pods with
it, preempts pods of lower criticality, moves pods between a low and a high
runtime, and degrades or evicts pods on a node under CPU pressure. This
directory holds TLA+ models of that logic, the TLC runs that check them on small
instances, and TLAPS proofs of their invariants, action properties and
refinements for every instance.

## 1. Inventory

| Part | State | Operations | Correct when |
|---|---|---|---|
| Ledger, `internal/cpupool/cpupool.go` | `globalPools`: per node and core a counter `UsageMillis` and a map `Pods` | `GetOrCreateCPUPool`, `AddPodToCore`, `RemovePodFromCore`, `RemovePodFromPool`, `RemovePodsNotIn`, readers | the counter never under-reports what is registered, and agrees with it at rest |
| Placement, same file | none | `SelectBestNodeAndCore`, `CheckNodeCoreFeasibility`, `SelectMinimumVictims` | an admitted pod fits once its victims are gone; victims have lower criticality |
| Reconcile worker, `internal/controller/mckube_controller.go` | local copies of CR and pod | finalizer, node, allocation, `checkAndPreemptForPod`, `preemptPod`, `updateCPUPoolForPod`, `handleCPURecovery` | entries belong to live CRs; room is made before it is taken; deletions finish |
| Pod events, same file | – | `findObjectsForPod`, `cleanupPodState` | a pod that is gone holds nothing |
| Overrun, same file | `podRuntimeState` | `handleOverrunEvent` | ledger, status and container agree on low or hi |
| Webhooks, `internal/webhook` | annotations, CR core | `Handle` of mutator and validator, `scheduleRTConfiguration` | concurrent admissions do not share the same free budget |
| Pressure tiers, `internal/ipvs` | `PressureState`, `ProcessingNodes` | `FindObjectsForNode`, `HandleNodeCPUPressure`, `ProcessCurrentTier`, `EvictPod` | tiers escalate in order, one actor per node |
| Data collector, `internal/ipvs/data_collector.go` | – | sums of CPU requests, criticalities | – |
| Types, start-up, taint thread | – | wiring; `Timers` is never filled | – |

Interaction. Controller and webhooks run in one process and share the ledger.
The controller has one Reconcile worker (`MaxConcurrentReconciles` is left at
1), one pod-event and one node-event goroutine, and one goroutine per overrun
report of the HTTP listener on port 8090; the webhooks run per request and start
one goroutine per pod they mutate, stored or not. All of them talk to the API server through an
informer cache for reads and optimistic-concurrency updates for writes, and to
node-actuator (not in the repository) over HTTP. `sync.RWMutex`es protect the
pools, the list of pools and `podRuntimeState`, each for a single access: every
decision spans several lock sections.

What is hard: a Reconcile acts on copies that grow old while events, overruns
and cleanups run; the ledger's counter is maintained by differences and never
recomputed; pods are keyed by name, so a pod and its successor share entries;
all state but the CR is lost at a restart; status updates may conflict and most
of them are only logged. `PROJECT.json` lists the hazards at their lines.

## 2. Modules

| Module | Models | Extends |
|---|---|---|
| `CPUPool` | the ledger; one action per lock section | – |
| `CPUPoolProofs` | theorems about `CPUPool` | `CPUPool` |
| `Placement` | the decisions taken from the ledger | `CPUPool` |
| `PlacementSpec` | ledgers of registering and leaving pods, and what the decisions promise over them | `Placement` |
| `PlacementLemmas` | what the decision operators return, cited by the proofs below | `Placement`, `CPUPoolProofs` |
| `PlacementProofs` | theorems about the decisions | `PlacementSpec`, `PlacementLemmas` |
| `Ownership` | abstract specification: who may hold budget | – |
| `OwnershipProofs` | theorems about `Ownership` | `Ownership` |
| `Reconciler` | worker, pod events, overruns, informers over the ledger; implements `Ownership` | `Placement` |
| `ReconcilerProofs` | theorems about `Reconciler` | `Reconciler`, `PlacementLemmas` |
| `Admission` | both webhooks as processes, beside the controller's steps on the ledger | `Placement` |
| `AdmissionProofs` | theorems about `Admission` | `Admission`, `PlacementLemmas` |
| `RuntimeEscalation` | everyone who sets the runtime of a pod's containers | – |
| `RuntimeEscalationProofs` | theorems about `RuntimeEscalation` | `RuntimeEscalation` |
| `PressureTiers` | CPU pressure and recovery of a node | – |
| `PressureTiersProofs` | theorems about `PressureTiers` | `PressureTiers` |
| `MCCPUPool`, `MCPlacement`, `MCReconciler`, `MCAdmission`, `MCRuntimeEscalation`, `MCPressureTiers` | instances for TLC | the above |

**CPUPool.** `usage[n][c]` is `Cores[c].UsageMillis`, `corePods[n][c][p]` the
entry of pod `p` in `Cores[c].Pods`, `NoPod` when the map has none. `Committed`
is the sum of the registered budgets, written as the cardinality of a set of
units so that the proofs can use the library's facts about finite sets. The
removals that walk over all pools are one action per pool, because the code
locks one pool at a time. `CoreIDs` contains IDs no pool has, since a CR can name
any core.

**Placement.** A decision is the set of results the code can return. Go's map
iteration and `sort.Slice` (not stable) leave ties open. The code compares
`float64` fractions of a core; rounding changes such a comparison only when both
sides are equal in exact arithmetic, so budgets are exact integers here and
equality leaves both answers possible (for a migration target that fits exactly,
`NoMigrationTarget` is the other answer). `SelectMinimumVictims` and
`greedyMinVictims` are the same algorithm on two element types and share one
operator.

**Reconciler.** Each action is one lock section or one API call, with two
exceptions: `OverrunEnd` and `RecoverEnd` set `podRuntimeState` (lines 904–906,
489–491) and write the status (911, 495) in one step. What can come of the gap
between the two, that the write is late, conflicts and is lost, is the choice
`StatusLost`; `RuntimeEscalation`, which is about that state, has them apart
(`OverrunRecord` and `OverrunStatus`, `RevertDone` and `RevertStatus`). `worker` holds
the local variables of the Reconcile in progress; its `pc` names the place in
the code, from `FirstStep` (which branch a Reconcile takes) through allocation
(`Allocate`, `ReadBudget`, `CheckRegistered`), preemption (`CheckUtilization`
to `PreemptionDone`), registration (`PrepareEntry` to `Register`) and the tail
(`Finish`, `RecoverBegin` to `RecoverDone`). `handler` is the `findObjectsForPod`
call in progress. `escalating[p]` is the CR copy an overrun handler holds while
it waits for node-actuator. `version` is the resourceVersion: a write with an
older copy conflicts, and a write that changes nothing leaves no trace. API
server, scheduler, kubelet and users are the environment. Two fields of `worker`
are history: `skipped`, the victims `preemptPod` gave up on because they were not
in the cache, and `refilled`, the cores a victim was migrated onto since
`checkAndPreemptForPod` last looked at them.

Abstractions of `Reconciler`, all deliberate:
- one CR per pod, named like it, with RT settings that do not change (a CR
  without RT settings never reaches the ledger and is left out; a CR without a
  core has `CoreSpec[p] = <<>>`);
- a CR watch delivers the newest version and skips versions in between; a pod
  changes again only once its last change is in the cache, so the pod cache is
  at most one version behind;
- budgets in units of 50 millicores, with the code's integer truncation and its
  default of 100 millicores for a zero;
- requests to node-actuator either fail, which the overrun path reacts to, or
  succeed; what they set in the kernel is the state of `RuntimeEscalation`;
- a pod has at most one overrun handler at a time, and a pod with a node has a
  host IP;
- the label update in `EvictPod` only causes one more live event and is left out;
- whether a node is seen to recover at the end of a Reconcile is a free choice;
  the flag it depends on is in `RuntimeEscalation` and `PressureTiers`.

**Ownership.** Two variables: the stage of each CR's life (`absent`, `new`,
`guarded` by the finalizer, `leaving`) and the set of pods that hold budget.
`Charge` needs a guarded or leaving CR, `Vanish` needs the budget to be given
back. `Reconciler` maps `cr` to the stage and the ledger's entries to the set;
caches, queue, worker, handler and overruns are hidden, and every one of their
steps must be a step of `Ownership` or a stutter (`ImplementsOwnership`).

**Admission.** A request moves from the mutating webhook (`MutateNothing`,
`Select`, `PatchMcKubeCore`, `PatchFails`; a pod that already has the webhook's
annotations skips it) to the validating one (`ValidateSettings`, `ValidatePlace`
for its case A, `ValidateCluster` for case B, `ValidateNothing`) and to
`CreatePod`. CRs are read from the informer's cache. Beside the requests runs the
controller's one worker with the steps that change the ledger or the CR:
`SetNode`; `Reconcile` takes an unregistered pod in hand and selects its victims;
each victim is not found (`VictimGone`), migrated (`MigrateOff`, `MigrateOn`,
`MigrateStatus`), evicted (`EvictPod`) or not (`EvictRefused`, which the code only
logs); then `UpdateCPUPool` charges the newcomer, whatever became of them. An
evicted or deleted pod keeps its entries until `CleanUp`, one pool at a time.
`going` has the cleanups that are due.

Four things are history. `decided` is the place a webhook selected and wrote to
the CR. `checked` is the place a webhook found feasible, until the usage of that
core is raised by a charge or a migration. `spared` has the victims that were
neither moved nor evicted. `unsound` has the charges without a check that covers
them: a charge is covered if the pod's check is of that very place, room was made
on that core and not on another one named by `AllocatedCore`, and no more is
charged than was checked (a budget that rounds to zero is charged as 100
millicores).

The search over the pools, which takes their locks one by one, is one step; a CR
names one core; the controller registers at the low runtime; it reads pods as
they are, and takes the victims in any order. The pod caches, the order of the
victims and registrations at the high runtime are `Reconciler`'s.

**RuntimeEscalation.** One pod name through its incarnations. `kernel[c]` is the
runtime node-actuator last set for a container, `level` the entry of
`podRuntimeState`, `throttled` the markers of `throttledVictims` (`Expire` is the
30 s TTL). Every `SendRTRequest` is a step of its own. The senders are the apply
path (`Apply`, `ApplySend`), migration (`Migrate`, `MigrateSend`), throttling
before eviction (`Throttle` to `Evict`), recovery (`CheckNode`, `Recover`,
`RevertSend` to `RevertStatus`), the overrun handlers and the webhook's goroutine
(`HookApply`). A status update wakes the worker unless it fails or changes
nothing. A migration may write the `AllocatedCore` that is there already: a pod
that was registered on the core of its spec again (line 1387) may be moved to the
core its status names. The webhook starts its goroutine for every pod it mutates,
also in a dry run and before a denial (`MutateOnly`); the goroutine's context is
that of the admission request and ends with it, so its annotations never reach
the API server. Caches are current; containers do not restart within a pod; which
core a request carries is left out.

**PressureTiers.** One node. `object` is the heap of `NodePressureState` values,
`pressureState` the one the map points to: since the map and the objects are not
locked, a goroutine may go on with an object that recovery has removed from the
map. An action is what a goroutine does between two API calls or two accesses to
shared state; `proc[g]` holds its local variables. The node's annotations change
only upwards while it is busy. `DegradeCount` is reduced to whether it is zero,
which is all the code asks. Pod names and labels do not change.

## 3. Runs

| Run | Expect | What it shows |
|---|---|---|
| `pool` | pass | any sequence of ledger operations: typing, `UsageCovers`, `DriftIsPermanent` |
| `placement` | pass | the declarative victim selection equals the sort-and-accumulate loop; admissions are sound; the validator accepts what the mutator picks; preemption makes room |
| `preempt` | pass | preemption by migration and eviction under interference: typing, `RoomMade`, `MigrationWithinThreshold`, and the refinement `ImplementsOwnership` |
| `reconcile_live` | pass | `DeletionCompletes`, `EventuallyRegistered`, `BudgetSettles` through restarts, failures, overruns, recreations |
| `pressure_order` | pass | typing, `TierOrder`: lower tiers of the resident pods first, whoever shares, loses or replaces the pressure state |
| `pressure_live` | pass | `ProcessingEnds`, `EvictionTried` through failures, recovery and restart |
| `escalation` | pass | typing, `QuietAgrees`, `KernelSettles`, `EscalationReverted`: kernel and `podRuntimeState` agree at rest and settle |
| `admission` | pass | typing, `OverloadNeedsStaleCheck`: the pods that stay exceed a core only through a charge that no check covers |
| `ghost_entry` | violation | a Reconcile in flight re-registers a cleaned-up pod |
| `recovery_lost` | violation | a busy episode between two Reconciles is never seen to end |
| `pressure_stall` | violation | after one eviction a tier is neither relieved nor left |
| `decision_truth` | violation | overlapping admissions: the pod is bound to one place, the CR names another |

The violations are the disagreements between a comment or a guide and the code
listed under `findings` in `PROJECT.json`, each with its quote.

**Scenarios.** The environment (users, kubelet, failures, restarts, overruns) is
unbounded in reality; here each kind of event has a limit, counted in `used`.
Since all limits at one would be too large, `Init` picks one of a few
*scenarios*: limits, and for `Reconciler` the pods already there, for
`PressureTiers` the durations reported. One run explores them all.

Bounds and why they are enough. `pool`: two pods, two cores and one core ID out
of range distinguish "this entry" from "another", and budgets 1 and 2 with at
most 4 per core let an entry be overwritten by a smaller and a larger one;
`MaxUsage` is needed because re-registration drifts without bound. `placement`:
three pods allow two victims and a bystander, two nodes (one without a reported
CPU count) allow every kind of candidate core; budgets 3, 8 and 15 of 19 make
direct placement, eviction and refusal all happen, pods are symmetric.
`preempt`: one LOW and one HIGH pod on a two-core node are the smallest instance
with a preemptor and a victim; the LOW pod fits on the other core at its low
runtime and not at its high one, so both migration and eviction happen; the HIGH
pod wants both cores, the free one first, so that its victim may be migrated onto
a core that was already checked. The scenarios cover an arrival with a failed
call, and an overrun, a pod that finishes and a replaced CR during the
preemption; other deletions and combinations of these (a victim recreated while
room is made, an overrun with a failing call) are left to the theorems, which
have no bounds.
`reconcile_live` follows one pod. `pressure_order`: a LOW pod that is there and a
MIDDLE pod that arrives, one goroutine and the worker; two background goroutines
besides the worker (possible after a recovery has deleted the mark) are beyond
these bounds and covered by the proof of `LowerTiersFirst`. `pressure_live`: one pod already at 10m. `escalation`: two
containers, of which one is the webhook's, two incarnations; the five scenarios
are a recreation, a dry run or a restart while the node becomes busy and idle
again, and a preemption with a restart or with failing calls. `admission`: one
node with two cores, so that a victim can be migrated or not; a LOW pod that
fills a core up to the threshold and cannot move, a LOW pod that can, with invalid
settings (it is admitted only where the validating webhook has no CR or fails, and
its charge exceeds its check), and a HIGH pod whose CR is created while requests
are under way; two symmetric requests and two mishaps (failed call, refused
eviction, deletion, restart) at any point; several nodes, more requests and
budgets that round to zero are left to the proof; `decision_truth` has two nodes. Deadlock is not checked
except in `pool`: once the bounded environment is used up, a controller with
nothing to do is at rest.

Fairness (`FairSpec`). Weak fairness for watch delivery, kubelet and scheduler
(they retry until done), for each overrun handler, the event goroutines and the
worker (Go schedules runnable goroutines, and no lock is held across a call).
That a request to node-actuator is eventually answered is an assumption: the
controller uses the default HTTP client, which has no timeout; only the
webhook's client (30 s) and the pressure goroutine's context (30 s) have one.
Strong fairness for taking a key from the work queue, since the queue is FIFO: a
key in it is taken although another keeps coming back. `PressureTiers` assumes
that node events recur, if only as kubelet heartbeats; nothing there forces
another Reconcile, so `CheckNode` is not fair. `RuntimeEscalation` assumes the
informer's periodic resync (ten hours by default), which is what repairs a
runtime after a lost status update, a late webhook goroutine or a migration
without an event: `KernelSettles` holds only with it, `QuietAgrees` says what
holds without. No fairness for users,
failures, overruns, node reports or restarts; failures are bounded, so retries
eventually get through.

What the passing properties leave open, on purpose. `QuietAgrees` excepts two
senders of `runtime_low` that no Reconcile follows, where they find the pod at hi:
the webhook goroutine, which puts the first container back to low behind
`podRuntimeState`'s back, and a migration that rewrites the `AllocatedCore` it
finds (1309–1311), which puts them all back. Without either exception TLC finds
the behaviour. The runtimes disagree until the next Reconcile.
`EscalationReverted` needs the controller to have seen the node busy
(`recovery_lost` is the other case) and no failed call. `OverloadNeedsStaleCheck`
excepts pods whose charge no check covers: two admissions may both be checked
against a core before either is registered on it. It leaves aside the pods that
are being cleaned up, since the newcomer is charged (1414) while evicted victims
are still in the ledger, and the victims that could be neither moved nor evicted,
whose failure is only logged (1074): beside them a core stays overcommitted. `RoomMade` excepts the cores
that a victim of a later core was migrated onto after they had been checked (the
migration looks at the threshold and not at what the preemptor is about to
charge), the pods on their way out, the pods without the label, whose end
`findObjectsForPod` ignores,
and the victims `preemptPod` skipped. The last exception is a finding of the
proof attempt: without it the invariant is not inductive, and TLC then produced
the behaviour. A ghost entry (run `ghost_entry`) of a LOW pod is selected as a
victim; its pod is not in the cache, so `preemptPod` returns an error that is
only logged; if a pod of that name is created before the preemptor registers,
its entry is that of a live pod again and the core is charged beyond the
threshold.

Seen while modelling, stated by no run: a victim that is registered on several
cores can be migrated onto one of its own, which charges that core twice
(`DriftIsPermanent` says the excess stays); a Reconcile with a CR cached from
before a migration registers the old core beside the new one; pools have 16
cores on every node; a status update that conflicts after an escalation is lost,
so `Status.CurrentRuntime` may say low for a pod at hi. They are among the
hazards.

## 4. Proofs

`CPUPoolProofs` proves, for all nodes, cores, finite sets of pods and budgets:

- `PoolTypeCorrect`: `PoolSpec => []PoolTypeOK`;
- `UsageAlwaysCovers`: `PoolSpec => []UsageCovers`;
- `DriftNeverGivenBack`: `PoolSpec => DriftIsPermanent`.

They use `PoolAssumption` only (the pods are a finite set, pools have cores a CR
can name). Neither of the first two is inductive alone: that a removal leaves
`UsageMillis` a natural number needs `UsageCovers`, `UsageCovers` needs types,
and creating a pool preserves both only if a node without a pool has no
entries. The inductive invariant `PoolInv` is the conjunction of the three. The
core of the argument is `CommittedSplit`: the units of a core are the disjoint
union of those of any set of pods and of the rest. `CommittedUpdate` (one entry
changes) and `DropStep` (several are dropped) follow, and each action has a lemma
that says what it does to the drift of a core, from which both `UsageCovers` and
`DriftIsPermanent` follow (`DriftKeepsCover`).

`OwnershipProofs` proves, for every set of pods and without assumptions:

- `BudgetIsOwned`: `OwnSpec => []ChargedIsHeld`, budget is held only in the name
  of a CR with the finalizer; the invariant is inductive as it stands;
- `BudgetLeavesFirst`: `OwnSpec => NoBudgetOutlivesCR`, a CR disappears only with
  its budget given back; from the invariant, since a CR that is still `new`
  holds none.

`PlacementProofs` proves `AdmissionsAreSound`, `ValidatorAcceptsSelection` and
`PreemptionIsEnough` as `PoolSpec => []...`: for every ledger the operations of
`CPUPool` can produce, drift included, and not only for those of `PlacementSpec`
(which `PlacementUsesLedger` shows to be among them). The decisions are functions
of the ledger, so each follows from `PoolInv` alone; the work is in
`PlacementLemmas`, which says what `SelectBestNodeAndCore` can return
(`SearchCases`) and that the victims of an admission make room for it
(`EvictionMakesRoom`). Assumption: the threshold is at most the RT capacity, as
in the code (0.9 and 0.95).

`ReconcilerProofs` proves, for all nodes, cores, pods, RT settings and limits on
the environment:

- `ReconcilerTypeCorrect`: `Spec => []TypeOK`;
- `ReconcilerUsesLedger`: `Spec => PoolSpec`, every step is an operation of the
  ledger or a stutter, with `ReconcilerUsageCovers` and `ReconcilerDriftStays` as
  its consequences;
- `MigrationsFit`: `Spec => MigrationWithinThreshold`;
- `ReconcilerImplementsOwnership`: `Spec => ImplementsOwnership`, so that the two
  theorems of `OwnershipProofs` hold of the controller in general, and
  `NoOrphanedEntry`, the same promise in terms of CRs and ledger entries;
- `RoomIsMade`: `Spec => []RoomMade`.

The inductive invariant of all but the last is `ReconcilerInv`. `PoolInv` and
`LocalsOK` (what the local variables hold at each `pc`) make the ledger calls
well formed. `VersionsOK` is optimistic concurrency: a copy of a CR is older than
the CR or equal to it, so a write that is accepted was computed from the current
CR; with `Decision` (why the worker is where it is) and `CRShape` it shows that
no stale copy brings back a CR or a finalizer. `Holding` says who relies on a
held CR: every entry, the cache's view of a live CR, the Reconcile about to
charge, the victims in hand, and it says that a cleanup leaves no entry behind
it. The cached view is in it because the worker decides from the cache: a CR that
the cache shows live with its finalizer can only be released by the worker
itself, which does one thing at a time. `TargetFits` is the step between
choosing a migration target and charging it: only the worker adds to a core, and
others only take away.

`RoomIsMade` needs `RoomInv` on top. It speaks of each core of the node, since a
preemptor with several cores works on one while the others have been checked
already. The core in hand satisfies `InHandRoom`: at each step of its preemption
the newcomer would fit if the pods that are `Out` (doomed, skipped, unlabelled,
or without an entry), the victims still waiting and the one in hand were gone, or
no other pod gives way. A core that was checked satisfies `SettledRoom`: the
newcomer fits there once the pods that are `Out` have left, unless the core was
refilled by a migration. The proof shows that the core in hand is settled when
its last victim is (`VictimRoom`), and that neither others nor the work on the
next core unsettle it (`SettledStep`): the worker only takes entries away, except
for the migration that `refilled` records. The longest part is that a pod once
`Out` stays so whoever acts (`DoomStays`): its termination passes from the API
server to the cache, from the cache to the event queue, from there to the
handler, and from the handler to the pool, and at each hand-over one of the two
sides has it. `CacheShape` (a pod disappears, and its name is taken again, only
after the cache has seen it go) closes the gaps, and `FreshIndex` says that the
first core is where the checking starts. Nothing is assumed about the number of
cores, about duplicates among them or about which of them the node has.

`RuntimeEscalationProofs` proves `EscalationTypeCorrect` and `QuietPodAgrees`:
`Spec => []QuietAgrees`, for any set of containers and incarnations. The
invariant `EscalationInv` says more than "agrees at rest": as long as no call has
failed, a running pod's containers agree with `podRuntimeState` and nobody is in
the middle of sending, or something is on its way that repairs it (`OnItsWay`):
the key is queued, a status write that queues it is due, the pod is being
evicted, or the worker is sending the right runtime to the containers that are
left. `Markers` excludes that a stale throttle marker keeps the repair away, and
`MigrationQueued` says a migration has queued the key before it sends anything,
unless its status write changed nothing, which is the exception `QuietAgrees`
makes.

`PressureTiersProofs` proves `PressureTypeCorrect` and `LowerTiersFirst`:
`Spec => []TierOrder`, for any pods and any number of goroutines. The invariant
`Order` is about the pods that were there from the start and still are: every
listing in flight has them, every pressure state that has been given tiers has
theirs, and no pressure state, and no goroutine that holds one (also one the map
no longer has), is past a tier of theirs without its eviction. A goroutine is
judged by the tier it holds, since another may have moved the shared state on.

`AdmissionProofs` proves `AdmissionTypeCorrect`, `AdmissionUsesLedger` and
`OverloadOnlyUncovered`: `Spec => []OverloadNeedsStaleCheck`, for any number of
nodes, cores, pods and concurrent requests. The invariant `AdmissionInv` gives a
check its meaning: as long as a pod or a request has `checked`, the pods of that
core that do not give way to it leave room for it (`Holds`). Entries that
disappear preserve that, and a charge or a migration onto the place withdraws the
check. `SoundFits` says the pods that stay and were charged with a covering check
fit together, from which the theorem follows. To preserve it through a charge the
worker carries the check with it (`WorkerSafe`): as long as it holds a covered
charge, the newcomer fits beside the pods that stay and are not among the victims
left (`RoomFor`), and each victim that is taken off the list leaves the core, is
marked as going, or is spared. A migration adds to a core too; `VictimFits`, from
the choice of the target to its charge, says the target stays within the
threshold, and that is at most the RT capacity. Nothing is said about usage being
exact: the ledger may have drifted, which only makes the decisions more careful.

All theorems use the `ASSUME`s of the modules only (types of the constants, one
threshold, positive periods where the webhook refuses others), which TLC
evaluates in the runs.

Only model-checked: liveness and everything under fairness, and `ENABLED`, which
are beyond the proof system; `GreedyMatchesLoop`, whose reference ranges over the
sorted sequences of the candidates: that every set the declarative selection
allows is a prefix of one needs the existence of a sorted sequence for every
finite set, which is induction over data;
and the four violations, which are existence claims.

## 5. Not modelled, and possible extensions

Not modelled: parsing (`GetRealTimeData`, `ParseCoreSet`, annotations of wrong
form), wiring (`cmd/main.go`), generated code, logging, the taint thread (it
works on `Timers`, which nothing fills), `cleanupPodStateByMcKubeName` and
`FindLeastLoadedCore` (never called), the agents outside the repository, leader
election (one instance of the operator is assumed).

Possible extensions:

1. `Reconciler` in place of the worker of `Admission`, so that the two models share
   one controller, with its pod caches and high runtimes; so far they share the
   ledger (`PoolSpec`) and the decisions (`Placement`).
2. A second background goroutine in `pressure_order`, with local variables that
   are forgotten as soon as they are dead, so that TLC sees what the proof covers.
