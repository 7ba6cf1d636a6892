---------------------------- MODULE MCReconciler ----------------------------
(***************************************************************************)
(* Small instances of Reconciler: a LOW pod and a HIGH pod that share a    *)
(* core of a two-core node.  One unit is 50 millicores, the period 20 us.  *)
(***************************************************************************)
EXTENDS Reconciler

CONSTANTS low, high   \* the two pods

MCCriticality == [p \in Pods |-> IF p = high THEN "HIGH" ELSE "LOW"]

\* The LOW pod can migrate to the free core at runtime_low, not at runtime_hi.
MCRuntimeLow == [p \in Pods |-> IF p = high THEN 13 ELSE 10]
MCRuntimeHi == [p \in Pods |-> IF p = high THEN 14 ELSE 19]
MCPeriod == [p \in Pods |-> 20]
MCNumCores == [n \in Nodes |-> 2]

OneCore == [p \in Pods |-> <<0>>]

\* The core that is free is checked first, and may then take the LOW pod.
TwoCores == [p \in Pods |-> IF p = high THEN <<1, 0>> ELSE <<0>>]

Limits(pods, crs, others) ==
    [k \in Kinds |-> CASE k = "createPod" -> pods
                       [] k = "createCR"  -> crs
                       [] k \in others    -> 1
                       [] OTHER           -> 0]

Scenario(present, l) == [present |-> present, limit |-> l]

\* The HIGH pod arrives while a call fails; or both pods are there and room
\* is made while one of them overruns or finishes, or its CR is replaced.
\* Evicted pods go and leave their events behind in all of them.
PreemptScenarios ==
    {Scenario({low}, Limits(1, 0, {"failure"})),
     Scenario({low, high}, Limits(0, 0, {"overrun"})),
     Scenario({low, high}, Limits(0, 0, {"finishPod"})),
     Scenario({low, high}, Limits(0, 1, {"deleteCR"}))}

\* The controller restarts while pod and CR are deleted and the pod comes
\* back, or while the CR is replaced and calls fail; the pod overruns and is
\* recreated, or overruns while the node recovers and calls fail.
LiveScenarios ==
    {Scenario({low}, Limits(1, 0, {"deletePod", "deleteCR", "restart"})),
     Scenario({low}, Limits(0, 1, {"deleteCR", "failure", "restart"})),
     Scenario({low}, Limits(1, 0, {"overrun", "deletePod"})),
     Scenario({low}, Limits(0, 0, {"overrun", "recovery", "failure"}))}

GhostScenario == {Scenario({low}, Limits(0, 0, {"deletePod"}))}
=============================================================================
