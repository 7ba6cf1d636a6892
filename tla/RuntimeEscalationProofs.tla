---------------------- MODULE RuntimeEscalationProofs ----------------------
(***************************************************************************)
(* Proofs about the kernel runtimes of a pod's containers, for every set   *)
(* of containers, every number of incarnations and every bound on what the *)
(* environment does.                                                       *)
(***************************************************************************)
EXTENDS RuntimeEscalation, TLAPS

\* No request, status update or eviction has failed so far, and no webhook
\* goroutine and no migration without an event found the pod at hi.
Reliable == used["failure"] = 0 /\ used["lost"] = 0 /\ used["late"] = 0

\* The work in flight that makes the containers agree with podRuntimeState
\* again, or that takes the pod away: the key is queued; an overrun or a
\* recovery is about to write the status, which queues the key; an eviction
\* is on its way; the worker is about to choose the runtime of this
\* incarnation, or is sending it to the containers that are left.
OnItsWay ==
    \/ queued
    \/ \E c \in Containers : overrun[c].pc \in {"record", "status"}
    \/ worker.pc \in {"revert", "reverted", "throttle", "evict"}
    \/ worker.pc = "apply" /\ worker.uid = pod.uid
    \/ /\ worker.pc = "send" /\ worker.uid = pod.uid
       /\ worker.send = effectiveRuntime
       /\ \A c \in Containers \ worker.todo : kernel[c] = effectiveRuntime

\* Agreement is not enough while the worker sends: what it sends, and the
\* incarnation it sends it to, have to be right as well.
Settled == Agrees /\ worker.pc \notin {"apply", "send"}

Repair == Reliable /\ pod.phase = "running" => Settled \/ OnItsWay

\* A migration leaves the key queued behind it, unless its status update
\* changes nothing.
MigrationQueued == worker.pc = "migrate" => queued \/ worker.unchanged

\* Nobody knows an incarnation before it exists, and a pod is marked as
\* throttled only on its way to the eviction.
Markers ==
    /\ worker.uid <= pod.uid
    /\ \A u \in Uids : throttled[u] = "fresh" => u <= pod.uid
    /\ Reliable /\ throttled[pod.uid] = "fresh" /\ pod.phase \in {"pending", "running"} =>
           worker.pc = "evict"

EscalationInv == TypeOK /\ Repair /\ MigrationQueued /\ Markers

-----------------------------------------------------------------------------
LEMMA IdleType ==
    /\ 0 \in Uids
    /\ IdleWorker \in Worker /\ IdleWorker.pc = "idle"
    /\ IdleOverrun \in Overrun
BY EscalationAssumption DEF Uids, IdleWorker, IdleOverrun, Runtimes, Worker, Overrun

LEMMA TypeInit == Init => TypeOK
<1> SUFFICES ASSUME Init PROVE TypeOK
  OBVIOUS
<1>1. kernel \in [Containers -> Runtimes] /\ pod \in [phase : Phases, uid : Uids]
  BY IdleType DEF Init, Gone, Runtimes, Phases
<1>2. used \in [Kinds -> Nat] /\ limit \in Scenarios
  BY DEF Init
<1>3. overrun \in [Containers -> Overrun]
  BY IdleType DEF Init
<1> QED
  BY <1>1, <1>2, <1>3, IdleType DEF Init, TypeOK

\* What Spend leaves of the counters, one kind at a time.
LEMMA SpendType ==
    ASSUME TypeOK, NEW k \in Kinds, Spend(k)
    PROVE  /\ used' \in [Kinds -> Nat] /\ limit' \in Scenarios
           /\ used'[k] > 0 /\ \A j \in Kinds : used[j] > 0 => used'[j] > 0
BY DEF TypeOK, Spend

LEMMA KindNames ==
    /\ "create" \in Kinds /\ "mutate" \in Kinds /\ "delete" \in Kinds /\ "overrun" \in Kinds
    /\ "preempt" \in Kinds /\ "busy" \in Kinds /\ "failure" \in Kinds
    /\ "lost" \in Kinds /\ "restart" \in Kinds /\ "late" \in Kinds
BY DEF Kinds

\* What a request to node-actuator leaves of the kernel and the counters.
LEMMA SentType ==
    ASSUME TypeOK, NEW c \in Containers, NEW uid, NEW r \in Runtimes, Sent(c, uid, r)
    PROVE  /\ kernel' \in [Containers -> Runtimes]
           /\ used' \in [Kinds -> Nat] /\ limit' \in Scenarios
BY DEF TypeOK, Sent, bounds

LEMMA LateType ==
    ASSUME TypeOK, NEW unseen, Late(unseen)
    PROVE  used' \in [Kinds -> Nat] /\ limit' \in Scenarios
BY KindNames DEF TypeOK, Late

LEMMA NotSentType ==
    ASSUME TypeOK, NEW uid, NotSent(uid)
    PROVE  /\ kernel' \in [Containers -> Runtimes]
           /\ used' \in [Kinds -> Nat] /\ limit' \in Scenarios
<1>1. kernel' \in [Containers -> Runtimes]
  BY DEF TypeOK, NotSent
<1>2. CASE UNCHANGED bounds
  BY <1>1, <1>2 DEF TypeOK, bounds
<1>3. CASE Spend("failure")
  BY <1>1, <1>3, SpendType, KindNames
<1> QED
  BY <1>2, <1>3 DEF NotSent

LEMMA StatusUpdateType ==
    ASSUME TypeOK, StatusUpdate
    PROVE  /\ queued' \in BOOLEAN
           /\ used' \in [Kinds -> Nat] /\ limit' \in Scenarios
<1>1. CASE queued' = TRUE /\ UNCHANGED bounds
  BY <1>1 DEF TypeOK, bounds
<1>2. CASE Spend("lost") /\ UNCHANGED queued
  BY <1>2, SpendType, KindNames DEF TypeOK
<1> QED
  BY <1>1, <1>2 DEF StatusUpdate

LEMMA TypeStep == TypeOK /\ [Next]_vars => TypeOK'
<1> SUFFICES ASSUME TypeOK, [Next]_vars PROVE TypeOK'
  OBVIOUS
<1> USE EscalationAssumption DEF TypeOK, Worker, Overrun, podVars, memVars, bounds
<1>1. CASE CreatePod
  <2>1. pod.uid + 1 \in Uids
    BY <1>1 DEF CreatePod, Uids
  <2> QED
    BY <1>1, <2>1, SpendType, KindNames DEF CreatePod, Others, Phases
<1>2. CASE RunPod
  BY <1>2 DEF RunPod, Others, Phases
<1>3. CASE DeletePod
  BY <1>3, SpendType, KindNames DEF DeletePod, Others, Phases
<1>4. CASE RemovePod
  BY <1>4 DEF RemovePod, Others, Gone, Runtimes, Phases
<1>5. CASE ReportNode
  BY <1>5, SpendType, KindNames DEF ReportNode, Others
<1>6. CASE Resync
  BY <1>6 DEF Resync, Others
<1>7. CASE HandleTerminatingEvent
  BY <1>7 DEF HandleTerminatingEvent
<1>8. CASE Restart
  BY <1>8, SpendType, KindNames, IdleType DEF Restart
<1>9. CASE OtherReconcile
  BY <1>9, IdleType DEF OtherReconcile, GotoTail, Work
<1>10. CASE Migrate
  <2>1. PICK same \in BOOLEAN : Preempt("migrate", same) /\ queued' \in BOOLEAN
    BY <1>10 DEF Migrate
  <2>2. worker' \in Worker /\ worker'.pc = "migrate"
    BY <2>1, IdleType DEF Preempt
  <2>3. used' \in [Kinds -> Nat] /\ limit' \in Scenarios
    BY <2>1, SpendType, KindNames DEF Preempt
  <2> QED
    BY <1>10, <2>1, <2>2, <2>3 DEF Migrate, Work
<1>11. CASE MigrateRefused
  BY <1>11, SpendType, KindNames, IdleType DEF MigrateRefused, GotoTail, Work
<1>12. CASE Throttle
  BY <1>12, SpendType, KindNames, IdleType DEF Throttle, Preempt, Work
<1>13. ASSUME NEW c \in Containers, OverrunCheck(c) PROVE TypeOK'
  BY <1>13, SpendType, KindNames DEF OverrunCheck
<1>14. ASSUME NEW c \in Containers, OverrunSend(c) PROVE TypeOK'
  BY <1>14, SentType, NotSentType, IdleType DEF OverrunSend, Runtimes
<1>15. ASSUME NEW c \in Containers, OverrunRecord(c) PROVE TypeOK'
  BY <1>15 DEF OverrunRecord
<1>16. ASSUME NEW u \in Uids, Expire(u) PROVE TypeOK'
  BY <1>16 DEF Expire
<1>17. ASSUME NEW u \in Uids, HookApply(u) PROVE TypeOK'
  <2>1. CASE kernel' = [kernel EXCEPT ![First] = "low"] /\ Late(TRUE) /\ hooks' = hooks \ {u}
    <3>1. kernel' \in [Containers -> Runtimes] /\ hooks' \subseteq Uids
      BY <2>1 DEF Runtimes
    <3>2. used' \in [Kinds -> Nat] /\ limit' \in Scenarios
      BY <2>1, LateType
    <3> QED
      BY <1>17, <3>1, <3>2 DEF HookApply
  <2>2. CASE NotSent(pod.uid) /\ UNCHANGED hooks
    BY <1>17, <2>2, NotSentType DEF HookApply
  <2> QED
    BY <1>17, <2>1, <2>2 DEF HookApply
<1>18. ASSUME NEW u \in Uids, HookStop(u) PROVE TypeOK'
  BY <1>18 DEF HookStop
<1>19. CASE Begin
  BY <1>19, IdleType DEF Begin, Work
<1>20. CASE Apply
  <2>1. CASE worker' = [IdleWorker EXCEPT !.pc = "tail"]
    BY <1>20, <2>1, IdleType DEF Apply, Work
  <2>2. CASE worker' = [worker EXCEPT !.pc = "send", !.todo = Containers,
                                      !.send = effectiveRuntime]
    BY <1>20, <2>2 DEF Apply, Work, effectiveRuntime, Runtimes
  <2> QED
    BY <1>20, <2>1, <2>2 DEF Apply
<1>21. ASSUME NEW c \in Containers, ApplySend(c) PROVE TypeOK'
  BY <1>21, SentType, NotSentType DEF ApplySend, Work
<1>22. CASE ApplyDone
  BY <1>22, IdleType DEF ApplyDone, Work, GotoTail
<1>23. ASSUME NEW c \in Containers, MigrateSend(c) PROVE TypeOK'
  BY <1>23, NotSentType, LateType DEF MigrateSend, Work, Runtimes
<1>24. CASE MigrateDone
  BY <1>24, IdleType DEF MigrateDone, Work, GotoTail
<1>25. ASSUME NEW c \in Containers, ThrottleSend(c) PROVE TypeOK'
  <2>1. CASE Sent(c, worker.uid, "min") /\ worker' = [worker EXCEPT !.todo = @ \ {c}, !.marked = TRUE]
    BY <1>25, <2>1, SentType DEF ThrottleSend, Work, Runtimes
  <2>2. CASE NotSent(worker.uid) /\ worker' = [worker EXCEPT !.todo = @ \ {c}]
    BY <1>25, <2>2, NotSentType DEF ThrottleSend, Work
  <2> QED
    BY <1>25, <2>1, <2>2 DEF ThrottleSend
<1>26. CASE markThrottledVictim
  BY <1>26 DEF markThrottledVictim, Work, Goto
<1>27. CASE Evict
  BY <1>27, SpendType, KindNames, IdleType DEF Evict, GotoTail, Phases
<1>28. CASE CheckNode
  BY <1>28, IdleType DEF CheckNode, Work
<1>29. CASE Recover
  <2>1. CASE Spend("failure") /\ worker' = IdleWorker
    BY <1>29, <2>1, SpendType, KindNames, IdleType DEF Recover, Work
  <2>2. CASE UNCHANGED bounds /\ worker' = IdleWorker
    BY <1>29, <2>2, IdleType DEF Recover, Work
  <2>3. CASE UNCHANGED bounds /\ worker' = [worker EXCEPT !.pc = "revert", !.uid = pod.uid,
                                                        !.todo = Containers]
    BY <1>29, <2>3 DEF Recover, Work
  <2> QED
    BY <1>29, <2>1, <2>2, <2>3 DEF Recover
<1>30. ASSUME NEW c \in Containers, RevertSend(c) PROVE TypeOK'
  BY <1>30, SentType, NotSentType DEF RevertSend, Work, Runtimes
<1>31. CASE RevertDone
  BY <1>31 DEF RevertDone, Goto, Work
<1>32. CASE UNCHANGED vars
  BY <1>32 DEF vars
<1>33. CASE MutateOnly
  BY <1>33, SpendType, KindNames, IdleType DEF MutateOnly, Others
<1>34. ASSUME NEW c \in Containers, OverrunStatus(c) PROVE TypeOK'
  BY <1>34, StatusUpdateType, IdleType DEF OverrunStatus
<1>35. CASE RevertStatus
  BY <1>35, StatusUpdateType, IdleType DEF RevertStatus, Work
<1> QED
  BY <1>1, <1>2, <1>3, <1>4, <1>5, <1>6, <1>7, <1>8, <1>9, <1>10, <1>11, <1>12, <1>13, <1>14, <1>15, <1>16, <1>17, <1>18, <1>19, <1>20, <1>21, <1>22, <1>23, <1>24, <1>25, <1>26, <1>27, <1>28, <1>29, <1>30, <1>31, <1>32, <1>33, <1>34, <1>35
  DEF Next, Environment, Kubelet, HookStep, OverrunStep, WorkerStep

\* The escalation state stays well typed, whatever the interleaving of the
\* worker, the overrun handlers, the webhook goroutines and the environment.
THEOREM EscalationTypeCorrect == Spec => []TypeOK
BY TypeInit, TypeStep, PTL DEF Spec

-----------------------------------------------------------------------------
\* Nothing that fails is forgotten: what is reliable after a step was so
\* before it.
LEMMA SpendReliable ==
    ASSUME TypeOK, NEW k \in Kinds, Spend(k), Reliable'
    PROVE  Reliable /\ k # "failure" /\ k # "lost"
<1>1. used \in [Kinds -> Nat]
  BY DEF TypeOK
<1> QED
  BY <1>1, SpendType, KindNames DEF Reliable

LEMMA NotSentReliable ==
    ASSUME TypeOK, NEW uid, NotSent(uid), Reliable'
    PROVE  Reliable /\ UNCHANGED kernel /\ ~ Running(uid)
<1>1. CASE Spend("failure")
  BY <1>1, SpendReliable, KindNames
<1>2. CASE ~ Running(uid) /\ UNCHANGED bounds
  BY <1>2 DEF NotSent, Reliable, bounds
<1> QED
  BY <1>1, <1>2 DEF NotSent

LEMMA LateReliable ==
    ASSUME TypeOK, NEW unseen, Late(unseen), Reliable'
    PROVE  Reliable /\ ~ (unseen /\ level = "hi")
BY KindNames DEF TypeOK, Late, Reliable

LEMMA StatusUpdateReliable ==
    ASSUME TypeOK, StatusUpdate, Reliable'
    PROVE  Reliable /\ queued' = TRUE
<1>1. CASE Spend("lost")
  BY <1>1, SpendReliable, KindNames
<1>2. CASE queued' = TRUE /\ UNCHANGED bounds
  BY <1>2 DEF Reliable, bounds
<1> QED
  BY <1>1, <1>2 DEF StatusUpdate

LEMMA ReliableStep == TypeOK /\ [Next]_vars /\ Reliable' => Reliable
<1> SUFFICES ASSUME TypeOK, [Next]_vars, Reliable' PROVE Reliable
  OBVIOUS
<1> USE DEF Reliable, bounds
<1>1. CASE CreatePod
  BY <1>1, SpendReliable, KindNames DEF CreatePod
<1>2. CASE RunPod
  BY <1>2 DEF RunPod, Others
<1>3. CASE DeletePod
  BY <1>3, SpendReliable, KindNames DEF DeletePod
<1>4. CASE RemovePod
  BY <1>4 DEF RemovePod, Others
<1>5. CASE ReportNode
  BY <1>5, SpendReliable, KindNames DEF ReportNode
<1>6. CASE Resync
  BY <1>6 DEF Resync, Others
<1>7. CASE HandleTerminatingEvent
  BY <1>7 DEF HandleTerminatingEvent
<1>8. CASE Restart
  BY <1>8, SpendReliable, KindNames DEF Restart
<1>9. CASE OtherReconcile
  BY <1>9 DEF OtherReconcile
<1>10. CASE Migrate
  BY <1>10, SpendReliable, KindNames DEF Migrate, Preempt
<1>11. CASE MigrateRefused
  BY <1>11, SpendReliable, KindNames DEF MigrateRefused
<1>12. CASE Throttle
  BY <1>12, SpendReliable, KindNames DEF Throttle, Preempt
<1>13. ASSUME NEW c \in Containers, OverrunCheck(c) PROVE Reliable
  BY <1>13, SpendReliable, KindNames DEF OverrunCheck
<1>14. ASSUME NEW c \in Containers, OverrunSend(c) PROVE Reliable
  BY <1>14, NotSentReliable DEF OverrunSend, Sent
<1>15. ASSUME NEW c \in Containers, OverrunRecord(c) PROVE Reliable
  BY <1>15 DEF OverrunRecord
<1>16. ASSUME NEW u \in Uids, Expire(u) PROVE Reliable
  BY <1>16 DEF Expire
<1>17. ASSUME NEW u \in Uids, HookApply(u) PROVE Reliable
  BY <1>17, NotSentReliable, LateReliable DEF HookApply
<1>18. ASSUME NEW u \in Uids, HookStop(u) PROVE Reliable
  BY <1>18 DEF HookStop
<1>19. CASE Begin
  BY <1>19 DEF Begin
<1>20. CASE Apply
  BY <1>20 DEF Apply
<1>21. ASSUME NEW c \in Containers, ApplySend(c) PROVE Reliable
  BY <1>21, NotSentReliable DEF ApplySend, Sent
<1>22. CASE ApplyDone
  BY <1>22 DEF ApplyDone
<1>23. ASSUME NEW c \in Containers, MigrateSend(c) PROVE Reliable
  BY <1>23, NotSentReliable, LateReliable DEF MigrateSend
<1>24. CASE MigrateDone
  BY <1>24 DEF MigrateDone
<1>25. ASSUME NEW c \in Containers, ThrottleSend(c) PROVE Reliable
  BY <1>25, NotSentReliable DEF ThrottleSend, Sent
<1>26. CASE markThrottledVictim
  BY <1>26 DEF markThrottledVictim
<1>27. CASE Evict
  BY <1>27, SpendReliable, KindNames DEF Evict
<1>28. CASE CheckNode
  BY <1>28 DEF CheckNode
<1>29. CASE Recover
  BY <1>29, SpendReliable, KindNames DEF Recover
<1>30. ASSUME NEW c \in Containers, RevertSend(c) PROVE Reliable
  BY <1>30, NotSentReliable DEF RevertSend, Sent
<1>31. CASE RevertDone
  BY <1>31 DEF RevertDone
<1>32. CASE UNCHANGED vars
  BY <1>32 DEF vars
<1>33. CASE MutateOnly
  BY <1>33, SpendReliable, KindNames DEF MutateOnly
<1>34. ASSUME NEW c \in Containers, OverrunStatus(c) PROVE Reliable
  BY <1>34, StatusUpdateReliable DEF OverrunStatus
<1>35. CASE RevertStatus
  BY <1>35, StatusUpdateReliable DEF RevertStatus
<1> QED
  BY <1>1, <1>2, <1>3, <1>4, <1>5, <1>6, <1>7, <1>8, <1>9, <1>10, <1>11, <1>12, <1>13, <1>14, <1>15, <1>16, <1>17, <1>18, <1>19, <1>20, <1>21, <1>22, <1>23, <1>24, <1>25, <1>26, <1>27, <1>28, <1>29, <1>30, <1>31, <1>32, <1>33, <1>34, <1>35
  DEF Next, Environment, Kubelet, HookStep, OverrunStep, WorkerStep

LEMMA MigrateFacts ==
    ASSUME TypeOK, Migrate
    PROVE  /\ pod.phase # "absent" /\ worker.pc = "idle"
           /\ worker'.pc = "migrate" /\ worker'.uid = pod.uid
           /\ queued' \/ (worker'.unchanged /\ queued' = queued)
           /\ UNCHANGED <<pod, kernel, level, throttled, overrun>>
<1>1. PICK same \in BOOLEAN :
         Preempt("migrate", same) /\ queued' = (queued \/ ~ same)
  BY DEF Migrate, TypeOK
<1>2. /\ pod.phase # "absent" /\ worker.pc = "idle"
      /\ worker'.pc = "migrate" /\ worker'.uid = pod.uid /\ worker'.unchanged = same
  BY <1>1 DEF Preempt, IdleWorker
<1>3. UNCHANGED <<pod, kernel, level, throttled, overrun>>
  BY DEF Migrate, Work, podVars, memVars
<1>4. queued' \/ (worker'.unchanged /\ queued' = queued)
  BY <1>1, <1>2 DEF TypeOK
<1> QED
  BY <1>2, <1>3, <1>4

LEMMA MigrationQueuedStep == TypeOK /\ MigrationQueued /\ [Next]_vars => MigrationQueued'
<1> SUFFICES ASSUME TypeOK, MigrationQueued, [Next]_vars PROVE MigrationQueued'
  OBVIOUS
<1> USE DEF TypeOK, Worker, MigrationQueued, podVars, memVars
<1>1. CASE CreatePod
  BY <1>1 DEF CreatePod, Others
<1>2. CASE RunPod
  BY <1>2 DEF RunPod, Others
<1>3. CASE DeletePod
  BY <1>3 DEF DeletePod, Others
<1>4. CASE RemovePod
  BY <1>4 DEF RemovePod, Others
<1>5. CASE ReportNode
  BY <1>5 DEF ReportNode, Others
<1>6. CASE Resync
  BY <1>6 DEF Resync, Others
<1>7. CASE HandleTerminatingEvent
  BY <1>7 DEF HandleTerminatingEvent
<1>8. CASE Restart
  BY <1>8 DEF Restart, IdleWorker
<1>9. CASE OtherReconcile
  BY <1>9 DEF OtherReconcile, GotoTail, IdleWorker, Work
<1>10. CASE Migrate
  BY <1>10, MigrateFacts
<1>11. CASE MigrateRefused
  BY <1>11 DEF MigrateRefused, GotoTail, IdleWorker, Work
<1>12. CASE Throttle
  BY <1>12 DEF Throttle, Preempt, Work
<1>13. ASSUME NEW c \in Containers, OverrunCheck(c) PROVE MigrationQueued'
  BY <1>13 DEF OverrunCheck
<1>14. ASSUME NEW c \in Containers, OverrunSend(c) PROVE MigrationQueued'
  BY <1>14 DEF OverrunSend
<1>15. ASSUME NEW c \in Containers, OverrunRecord(c) PROVE MigrationQueued'
  BY <1>15 DEF OverrunRecord
<1>16. ASSUME NEW u \in Uids, Expire(u) PROVE MigrationQueued'
  BY <1>16 DEF Expire
<1>17. ASSUME NEW u \in Uids, HookApply(u) PROVE MigrationQueued'
  BY <1>17 DEF HookApply
<1>18. ASSUME NEW u \in Uids, HookStop(u) PROVE MigrationQueued'
  BY <1>18 DEF HookStop
<1>19. CASE Begin
  BY <1>19 DEF Begin, Work, IdleWorker
<1>20. CASE Apply
  BY <1>20 DEF Apply, Work
<1>21. ASSUME NEW c \in Containers, ApplySend(c) PROVE MigrationQueued'
  BY <1>21 DEF ApplySend, Work
<1>22. CASE ApplyDone
  BY <1>22 DEF ApplyDone, GotoTail, IdleWorker, Work
<1>23. ASSUME NEW c \in Containers, MigrateSend(c) PROVE MigrationQueued'
  BY <1>23 DEF MigrateSend, Work
<1>24. CASE MigrateDone
  BY <1>24 DEF MigrateDone, GotoTail, IdleWorker, Work
<1>25. ASSUME NEW c \in Containers, ThrottleSend(c) PROVE MigrationQueued'
  BY <1>25 DEF ThrottleSend, Work
<1>26. CASE markThrottledVictim
  BY <1>26 DEF markThrottledVictim, Goto, Work
<1>27. CASE Evict
  BY <1>27 DEF Evict, GotoTail, IdleWorker
<1>28. CASE CheckNode
  BY <1>28 DEF CheckNode, Work, IdleWorker
<1>29. CASE Recover
  <2>1. CASE worker' = IdleWorker
    BY <1>29, <2>1 DEF Recover, Work, IdleWorker
  <2>2. CASE worker' = [worker EXCEPT !.pc = "revert", !.uid = pod.uid, !.todo = Containers]
    BY <1>29, <2>2 DEF Recover, Work
  <2> QED
    BY <1>29, <2>1, <2>2 DEF Recover
<1>30. ASSUME NEW c \in Containers, RevertSend(c) PROVE MigrationQueued'
  BY <1>30 DEF RevertSend, Work
<1>31. CASE RevertDone
  BY <1>31 DEF RevertDone, Goto, Work
<1>32. CASE UNCHANGED vars
  BY <1>32 DEF vars
<1>33. CASE MutateOnly
  BY <1>33 DEF MutateOnly, Others
<1>34. ASSUME NEW c \in Containers, OverrunStatus(c) PROVE MigrationQueued'
  BY <1>34 DEF OverrunStatus, StatusUpdate
<1>35. CASE RevertStatus
  BY <1>35 DEF RevertStatus, Work, IdleWorker
<1> QED
  BY <1>1, <1>2, <1>3, <1>4, <1>5, <1>6, <1>7, <1>8, <1>9, <1>10, <1>11, <1>12, <1>13, <1>14, <1>15, <1>16, <1>17, <1>18, <1>19, <1>20, <1>21, <1>22, <1>23, <1>24, <1>25, <1>26, <1>27, <1>28, <1>29, <1>30, <1>31, <1>32, <1>33, <1>34, <1>35
  DEF Next, Environment, Kubelet, HookStep, OverrunStep, WorkerStep

LEMMA MarkersStep == TypeOK /\ Markers /\ [Next]_vars => TypeOK' /\ Markers'
<1> SUFFICES ASSUME TypeOK, Markers, [Next]_vars PROVE Markers'
  BY TypeStep
<1>0. TypeOK' /\ (Reliable' => Reliable)
  BY TypeStep, ReliableStep
<1> USE <1>0 DEF TypeOK, Worker, Overrun, Markers, podVars, memVars
<1>1. CASE CreatePod
  BY <1>1, EscalationAssumption DEF CreatePod, Others, Uids
<1>2. CASE RunPod
  BY <1>2 DEF RunPod, Others
<1>3. CASE DeletePod
  BY <1>3 DEF DeletePod, Others
<1>4. CASE RemovePod
  BY <1>4 DEF RemovePod, Others
<1>5. CASE ReportNode
  BY <1>5 DEF ReportNode, Others
<1>6. CASE Resync
  BY <1>6 DEF Resync, Others
<1>7. CASE HandleTerminatingEvent
  BY <1>7 DEF HandleTerminatingEvent
<1>8. CASE Restart
  BY <1>8, EscalationAssumption DEF Restart, Uids, IdleWorker
<1>9. CASE OtherReconcile
  BY <1>9, EscalationAssumption DEF OtherReconcile, GotoTail, IdleWorker, Work, Uids
<1>10. CASE Migrate
  BY <1>10, MigrateFacts, EscalationAssumption DEF Uids
<1>11. CASE MigrateRefused
  BY <1>11, EscalationAssumption DEF MigrateRefused, GotoTail, IdleWorker, Work, Uids
<1>12. CASE Throttle
  BY <1>12, EscalationAssumption DEF Throttle, Preempt, Work, Uids, IdleWorker
<1>13. ASSUME NEW c \in Containers, OverrunCheck(c) PROVE Markers'
  BY <1>13 DEF OverrunCheck
<1>14. ASSUME NEW c \in Containers, OverrunSend(c) PROVE Markers'
  BY <1>14 DEF OverrunSend
<1>15. ASSUME NEW c \in Containers, OverrunRecord(c) PROVE Markers'
  BY <1>15 DEF OverrunRecord
<1>16. ASSUME NEW u \in Uids, Expire(u) PROVE Markers'
  BY <1>16 DEF Expire
<1>17. ASSUME NEW u \in Uids, HookApply(u) PROVE Markers'
  BY <1>17 DEF HookApply
<1>18. ASSUME NEW u \in Uids, HookStop(u) PROVE Markers'
  BY <1>18 DEF HookStop
<1>19. CASE Begin
  BY <1>19, EscalationAssumption DEF Begin, Work, Uids, IdleWorker
<1>20. CASE Apply
  <2>1. worker'.uid \in {worker.uid, 0} /\ worker.pc = "apply" /\ UNCHANGED <<pod, throttled>>
    BY <1>20 DEF Apply, Work, IdleWorker
  <2> QED
    BY <1>20, <2>1, EscalationAssumption DEF Uids
<1>21. ASSUME NEW c \in Containers, ApplySend(c) PROVE Markers'
  BY <1>21 DEF ApplySend, Work
<1>22. CASE ApplyDone
  BY <1>22, EscalationAssumption DEF ApplyDone, GotoTail, IdleWorker, Work, Uids
<1>23. ASSUME NEW c \in Containers, MigrateSend(c) PROVE Markers'
  BY <1>23 DEF MigrateSend, Work
<1>24. CASE MigrateDone
  BY <1>24, EscalationAssumption DEF MigrateDone, GotoTail, IdleWorker, Work, Uids
<1>25. ASSUME NEW c \in Containers, ThrottleSend(c) PROVE Markers'
  <2>1. /\ worker'.pc = "throttle" /\ worker'.uid = worker.uid /\ worker.pc = "throttle"
        /\ UNCHANGED <<pod, throttled>>
    BY <1>25 DEF ThrottleSend, Work
  <2> QED
    BY <1>25, <2>1 DEF ThrottleSend
<1>26. CASE markThrottledVictim
  BY <1>26 DEF markThrottledVictim, Goto, Work
<1>27. CASE Evict
  <2>1. worker'.uid = 0 /\ worker.pc = "evict" /\ UNCHANGED throttled /\ pod'.uid = pod.uid
    BY <1>27 DEF Evict, GotoTail, IdleWorker
  <2>2. Reliable' => pod'.phase \in {"absent", "terminating"}
    BY <1>27, SpendReliable, KindNames DEF Evict
  <2> QED
    BY <2>1, <2>2, EscalationAssumption DEF Uids
<1>28. CASE CheckNode
  BY <1>28, EscalationAssumption DEF CheckNode, Work, Uids, IdleWorker
<1>29. CASE Recover
  <2>1. CASE worker' = IdleWorker
    BY <1>29, <2>1, EscalationAssumption DEF Recover, Work, IdleWorker, Uids
  <2>2. CASE worker' = [worker EXCEPT !.pc = "revert", !.uid = pod.uid, !.todo = Containers]
    BY <1>29, <2>2, EscalationAssumption DEF Recover, Work, Uids
  <2> QED
    BY <1>29, <2>1, <2>2 DEF Recover
<1>30. ASSUME NEW c \in Containers, RevertSend(c) PROVE Markers'
  BY <1>30 DEF RevertSend, Work
<1>31. CASE RevertDone
  BY <1>31 DEF RevertDone, Goto, Work
<1>32. CASE UNCHANGED vars
  BY <1>32 DEF vars
<1>33. CASE MutateOnly
  BY <1>33 DEF MutateOnly, Others
<1>34. ASSUME NEW c \in Containers, OverrunStatus(c) PROVE Markers'
  BY <1>34 DEF OverrunStatus
<1>35. CASE RevertStatus
  BY <1>35, EscalationAssumption DEF RevertStatus, Work, Uids, IdleWorker
<1> QED
  BY <1>1, <1>2, <1>3, <1>4, <1>5, <1>6, <1>7, <1>8, <1>9, <1>10, <1>11, <1>12, <1>13, <1>14, <1>15, <1>16, <1>17, <1>18, <1>19, <1>20, <1>21, <1>22, <1>23, <1>24, <1>25, <1>26, <1>27, <1>28, <1>29, <1>30, <1>31, <1>32, <1>33, <1>34, <1>35
  DEF Next, Environment, Kubelet, HookStep, OverrunStep, WorkerStep

LEMMA RepairStep == EscalationInv /\ [Next]_vars => Repair'
<1> SUFFICES ASSUME EscalationInv, [Next]_vars, Reliable', pod'.phase = "running"
             PROVE  (Settled \/ OnItsWay)'
  BY DEF Repair
<1>0. TypeOK /\ TypeOK' /\ Reliable /\ Markers /\ MigrationQueued
      /\ (pod.phase = "running" => Settled \/ OnItsWay)
  BY TypeStep, ReliableStep DEF EscalationInv, Repair
<1> USE <1>0 DEF TypeOK, Worker, Overrun, Settled, Agrees, OnItsWay, effectiveRuntime, podVars, memVars
<1> HIDE DEF EscalationInv
<1>1. CASE CreatePod
  BY <1>1 DEF CreatePod, Others
<1>2. CASE RunPod
  BY <1>2 DEF RunPod, Others
<1>3. CASE DeletePod
  BY <1>3 DEF DeletePod, Others
<1>4. CASE RemovePod
  BY <1>4 DEF RemovePod, Others
<1>5. CASE ReportNode
  BY <1>5 DEF ReportNode, Others
<1>6. CASE Resync
  BY <1>6 DEF Resync, Others
<1>7. CASE HandleTerminatingEvent
  BY <1>7 DEF HandleTerminatingEvent
<1>8. CASE Restart
  BY <1>8 DEF Restart
<1>9. CASE OtherReconcile
  BY <1>9 DEF OtherReconcile, GotoTail, IdleWorker, Work
<1>10. CASE Migrate
  BY <1>10, MigrateFacts
<1>11. CASE MigrateRefused
  BY <1>11, SpendReliable, KindNames DEF MigrateRefused, GotoTail, IdleWorker, Work
<1>12. CASE Throttle
  BY <1>12 DEF Throttle, Preempt, Work
<1>13. ASSUME NEW c \in Containers, OverrunCheck(c) PROVE (Settled \/ OnItsWay)'
  BY <1>13 DEF OverrunCheck, IdleOverrun
<1>14. ASSUME NEW c \in Containers, OverrunSend(c) PROVE (Settled \/ OnItsWay)'
  BY <1>14, NotSentReliable DEF OverrunSend, Sent, Running
<1>15. ASSUME NEW c \in Containers, OverrunRecord(c) PROVE (Settled \/ OnItsWay)'
  BY <1>15 DEF OverrunRecord
<1>16. ASSUME NEW u \in Uids, Expire(u) PROVE (Settled \/ OnItsWay)'
  BY <1>16 DEF Expire
<1>17. ASSUME NEW u \in Uids, HookApply(u) PROVE (Settled \/ OnItsWay)'
  <2>1. CASE kernel' = [kernel EXCEPT ![First] = "low"] /\ Late(TRUE) /\ hooks' = hooks \ {u}
    <3>1. level # "hi" /\ UNCHANGED <<pod, level, queued, worker, overrun>>
      BY <1>17, <2>1, LateReliable DEF HookApply
    <3>2. pod.phase = "running" /\ effectiveRuntime = "low" /\ effectiveRuntime' = "low"
      BY <3>1
    <3>3. \A c \in Containers : kernel'[c] = kernel[c] \/ kernel'[c] = "low"
      BY <2>1
    <3> QED
      BY <3>1, <3>2, <3>3
  <2>2. CASE NotSent(pod.uid) /\ UNCHANGED hooks
    BY <1>17, <2>2, NotSentReliable DEF HookApply, Running
  <2> QED
    BY <1>17, <2>1, <2>2 DEF HookApply
<1>18. ASSUME NEW u \in Uids, HookStop(u) PROVE (Settled \/ OnItsWay)'
  BY <1>18 DEF HookStop
<1>19. CASE Begin
  BY <1>19 DEF Begin, Work, IdleWorker
<1>20. CASE Apply
  <2>1. CASE isVictimThrottled(worker.uid)
    BY <1>20, <2>1 DEF Apply, Work, isVictimThrottled, Markers
  <2>2. CASE ~ isVictimThrottled(worker.uid)
    BY <1>20, <2>2 DEF Apply, Work
  <2> QED
    BY <2>1, <2>2
<1>21. ASSUME NEW c \in Containers, ApplySend(c) PROVE (Settled \/ OnItsWay)'
  <2>1. CASE Sent(c, worker.uid, worker.send) /\ worker' = [worker EXCEPT !.todo = @ \ {c}]
    <3>1. CASE queued \/ \E d \in Containers : overrun[d].pc \in {"record", "status"}
      BY <1>21, <2>1, <3>1 DEF ApplySend, Work
    <3>2. CASE (/\ worker.uid = pod.uid /\ worker.send = effectiveRuntime
                         /\ \A d \in Containers \ worker.todo : kernel[d] = effectiveRuntime)
      BY <1>21, <2>1, <3>2 DEF ApplySend, Work, Sent
    <3> QED
      BY <1>21, <2>1, <3>1, <3>2 DEF ApplySend, Work
  <2>2. CASE NotSent(worker.uid) /\ worker' = [worker EXCEPT !.todo = {}]
    BY <1>21, <2>2, NotSentReliable DEF ApplySend, Work, Running
  <2> QED
    BY <1>21, <2>1, <2>2 DEF ApplySend
<1>22. CASE ApplyDone
  BY <1>22 DEF ApplyDone, GotoTail, IdleWorker, Work
<1>23. ASSUME NEW c \in Containers, MigrateSend(c) PROVE (Settled \/ OnItsWay)'
  <2>1. CASE /\ Running(worker.uid) /\ Late(worker.unchanged)
             /\ kernel' = [kernel EXCEPT ![c] = "low"]
    BY <1>23, <2>1, LateReliable DEF MigrateSend, Work, MigrationQueued
  <2>2. CASE NotSent(worker.uid)
    BY <1>23, <2>2, NotSentReliable DEF MigrateSend, Work
  <2> QED
    BY <1>23, <2>1, <2>2 DEF MigrateSend
<1>24. CASE MigrateDone
  BY <1>24 DEF MigrateDone, GotoTail, IdleWorker, Work
<1>25. ASSUME NEW c \in Containers, ThrottleSend(c) PROVE (Settled \/ OnItsWay)'
  <2>1. worker'.pc = "throttle"
    BY <1>25 DEF ThrottleSend
  <2> QED
    BY <2>1
<1>26. CASE markThrottledVictim
  BY <1>26 DEF markThrottledVictim, Goto, Work
<1>27. CASE Evict
  BY <1>27, SpendReliable, KindNames DEF Evict, GotoTail, IdleWorker
<1>28. CASE CheckNode
  BY <1>28 DEF CheckNode, Work, IdleWorker
<1>29. CASE Recover
  <2>1. CASE worker' = IdleWorker
    BY <1>29, <2>1 DEF Recover, Work, IdleWorker
  <2>2. CASE worker' = [worker EXCEPT !.pc = "revert", !.uid = pod.uid, !.todo = Containers]
    BY <1>29, <2>2 DEF Recover, Work
  <2> QED
    BY <1>29, <2>1, <2>2 DEF Recover
<1>30. ASSUME NEW c \in Containers, RevertSend(c) PROVE (Settled \/ OnItsWay)'
  BY <1>30, NotSentReliable DEF RevertSend, Work, Sent, Running
<1>31. CASE RevertDone
  BY <1>31 DEF RevertDone, Goto, Work
<1>32. CASE UNCHANGED vars
  BY <1>32 DEF vars
<1>33. CASE MutateOnly
  BY <1>33 DEF MutateOnly, Others
<1>34. ASSUME NEW c \in Containers, OverrunStatus(c) PROVE (Settled \/ OnItsWay)'
  BY <1>34, StatusUpdateReliable DEF OverrunStatus
<1>35. CASE RevertStatus
  BY <1>35, StatusUpdateReliable DEF RevertStatus, Work
<1> QED
  BY <1>1, <1>2, <1>3, <1>4, <1>5, <1>6, <1>7, <1>8, <1>9, <1>10, <1>11, <1>12, <1>13, <1>14, <1>15, <1>16, <1>17, <1>18, <1>19, <1>20, <1>21, <1>22, <1>23, <1>24, <1>25, <1>26, <1>27, <1>28, <1>29, <1>30, <1>31, <1>32, <1>33, <1>34, <1>35
  DEF Next, Environment, Kubelet, HookStep, OverrunStep, WorkerStep

\* Whoever changes a container's runtime or podRuntimeState behind the
\* other's back leaves a Reconcile behind that repairs it: with nothing left
\* to do and no failed call, the containers of a running pod have the runtime
\* podRuntimeState selects.  For every number of containers, reports,
\* preemptions, recreations and restarts.
THEOREM QuietPodAgrees == Spec => []QuietAgrees
<1>1. Init => EscalationInv
  <2> SUFFICES ASSUME Init PROVE EscalationInv
    OBVIOUS
  <2>1. TypeOK
    BY TypeInit
  <2> QED
    BY <2>1 DEF Init, EscalationInv, Repair, OnItsWay, MigrationQueued, Markers, IdleWorker, TypeOK
<1>2. EscalationInv /\ [Next]_vars => EscalationInv'
  BY MarkersStep, MigrationQueuedStep, RepairStep DEF EscalationInv
<1>3. EscalationInv => QuietAgrees
  BY DEF EscalationInv, Repair, Settled, Reliable, OnItsWay, QuietAgrees, Quiescent
<1> QED
  BY <1>1, <1>2, <1>3, PTL DEF Spec
=============================================================================
