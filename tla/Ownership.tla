----------------------------- MODULE Ownership -----------------------------
(***************************************************************************)
(* What the controller promises about budget and custom resources, without *)
(* caches, queues, workers or goroutines: budget is only ever held in the  *)
(* name of a CR that cannot disappear, and a CR that is being deleted      *)
(* disappears only after its budget is given back.  Reconciler implements  *)
(* this specification (internal/controller/mckube_controller.go).          *)
(***************************************************************************)
CONSTANT Pods   \* RT pods; each has one CR, named like it

VARIABLES
    lifecycle,  \* lifecycle[p]: where p's CR is in its life
    charged     \* the pods that hold budget in the ledger

ownVars == <<lifecycle, charged>>

Stages == {"absent", "new", "guarded", "leaving"}

\* The stages in which the finalizer keeps the CR from disappearing.
Held == {"guarded", "leaving"}

Move(p, from, to) ==
    /\ lifecycle[p] = from
    /\ lifecycle' = [lifecycle EXCEPT ![p] = to]
    /\ UNCHANGED charged

\* A user creates the CR, and may delete it before the controller sees it.
Create(p) == Move(p, "absent", "new")
Discard(p) == Move(p, "new", "absent")

\* The controller adds its finalizer.
Guard(p) == Move(p, "new", "guarded")

\* A user deletes the CR: it is only marked.
Mark(p) == Move(p, "guarded", "leaving")

\* The finalizer is removed and the CR is gone.
Vanish(p) == p \notin charged /\ Move(p, "leaving", "absent")

Charge(p) ==
    /\ lifecycle[p] \in Held
    /\ charged' = charged \cup {p}
    /\ UNCHANGED lifecycle

Release(p) ==
    /\ charged' = charged \ {p}
    /\ UNCHANGED lifecycle

\* A restart empties the ledger, which lives in memory.
Forget == charged' = {} /\ UNCHANGED lifecycle

OwnInit ==
    /\ lifecycle \in [Pods -> {"absent", "new"}]
    /\ charged = {}

OwnNext ==
    \/ \E p \in Pods : \/ Create(p) \/ Discard(p) \/ Guard(p) \/ Mark(p)
                       \/ Vanish(p) \/ Charge(p) \/ Release(p)
    \/ Forget

OwnSpec == OwnInit /\ [][OwnNext]_ownVars

-----------------------------------------------------------------------------
\* Budget is held only in the name of a CR that the finalizer keeps alive.
\* Whatever implements this specification never orphans a ledger entry.
ChargedIsHeld ==
    /\ charged \subseteq Pods
    /\ lifecycle \in [Pods -> Stages]
    /\ \A p \in charged : lifecycle[p] \in Held

\* A CR disappears for good only with its budget given back: the step that
\* ends its life finds no budget in its name and leaves none.
NoBudgetOutlivesCR ==
    [][\A p \in Pods : lifecycle[p] # "absent" /\ lifecycle'[p] = "absent" =>
          p \notin charged /\ p \notin charged']_ownVars
=============================================================================
