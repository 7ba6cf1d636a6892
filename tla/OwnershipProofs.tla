-------------------------- MODULE OwnershipProofs --------------------------
(***************************************************************************)
(* The two promises of Ownership hold for every set of pods.               *)
(***************************************************************************)
EXTENDS Ownership, TLAPS

LEMMA HeldInit == OwnInit => ChargedIsHeld
BY DEF OwnInit, ChargedIsHeld, Stages, Held

LEMMA HeldStep == ChargedIsHeld /\ [OwnNext]_ownVars => ChargedIsHeld'
<1> SUFFICES ASSUME ChargedIsHeld, [OwnNext]_ownVars PROVE ChargedIsHeld'
  OBVIOUS
<1> USE DEF ChargedIsHeld, Stages, Held
<1>1. ASSUME NEW p \in Pods, Create(p) PROVE ChargedIsHeld'
  BY <1>1 DEF Create, Move
<1>2. ASSUME NEW p \in Pods, Discard(p) PROVE ChargedIsHeld'
  BY <1>2 DEF Discard, Move
<1>3. ASSUME NEW p \in Pods, Guard(p) PROVE ChargedIsHeld'
  BY <1>3 DEF Guard, Move
<1>4. ASSUME NEW p \in Pods, Mark(p) PROVE ChargedIsHeld'
  BY <1>4 DEF Mark, Move
<1>5. ASSUME NEW p \in Pods, Vanish(p) PROVE ChargedIsHeld'
  BY <1>5 DEF Vanish, Move
<1>6. ASSUME NEW p \in Pods, Charge(p) PROVE ChargedIsHeld'
  BY <1>6 DEF Charge
<1>7. ASSUME NEW p \in Pods, Release(p) PROVE ChargedIsHeld'
  BY <1>7 DEF Release
<1>8. CASE Forget
  BY <1>8 DEF Forget
<1>9. CASE UNCHANGED ownVars
  BY <1>9 DEF ownVars
<1> QED
  BY <1>1, <1>2, <1>3, <1>4, <1>5, <1>6, <1>7, <1>8, <1>9 DEF OwnNext

\* Whatever refines Ownership holds budget only in the name of a CR that its
\* finalizer keeps alive.
THEOREM BudgetIsOwned == OwnSpec => []ChargedIsHeld
<1>1. OwnInit => ChargedIsHeld
  BY HeldInit
<1>2. ChargedIsHeld /\ [OwnNext]_ownVars => ChargedIsHeld'
  BY HeldStep
<1> QED
  BY <1>1, <1>2, PTL DEF OwnSpec

\* In whatever refines Ownership, a CR that was ever guarded or created is
\* gone only once its budget is gone.
THEOREM BudgetLeavesFirst == OwnSpec => NoBudgetOutlivesCR
<1> DEFINE Ends == \A p \in Pods : lifecycle[p] # "absent" /\ lifecycle'[p] = "absent" =>
                       p \notin charged /\ p \notin charged'
<1>1. ChargedIsHeld /\ [OwnNext]_ownVars => [Ends]_ownVars
  <2> SUFFICES ASSUME ChargedIsHeld, OwnNext PROVE Ends
    BY DEF ownVars
  <2> USE DEF ChargedIsHeld, Stages, Held
  <2>1. ASSUME NEW p \in Pods, Create(p) \/ Guard(p) \/ Mark(p) PROVE Ends
    BY <2>1 DEF Create, Guard, Mark, Move
  <2>2. ASSUME NEW p \in Pods, Discard(p) \/ Vanish(p) PROVE Ends
    BY <2>2 DEF Discard, Vanish, Move
  <2>3. ASSUME NEW p \in Pods, Charge(p) \/ Release(p) PROVE Ends
    BY <2>3 DEF Charge, Release
  <2>4. CASE Forget
    BY <2>4 DEF Forget
  <2> QED
    BY <2>1, <2>2, <2>3, <2>4 DEF OwnNext
<1> QED
  BY <1>1, BudgetIsOwned, PTL DEF OwnSpec, NoBudgetOutlivesCR
=============================================================================
