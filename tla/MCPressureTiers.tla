-------------------------- MODULE MCPressureTiers --------------------------
(***************************************************************************)
(* Small instances of PressureTiers: LOW pods l1 and l2, a MIDDLE pod m.   *)
(***************************************************************************)
EXTENDS PressureTiers

CONSTANTS l1, l2, m

MCCriticality == [p \in Pods |-> IF p = m THEN "MIDDLE" ELSE "LOW"]

\* One degradation takes 12 to the minimum.
MCRequests == [p \in Pods |-> <<12>>]
MinRequests == [p \in Pods |-> <<10>>]
BigRequests == [p \in Pods |-> <<15>>]

Limits(arrive, depart, idle, failure, restart) ==
    [arrive |-> arrive, depart |-> depart, idle |-> idle, failure |-> failure,
     restart |-> restart]

Scenario(seconds, l) == [seconds |-> seconds, limit |-> l]

\* A pod arrives under short and long pressure; one arrives and one leaves
\* under short pressure; one arrives or one leaves while the node recovers and
\* becomes busy again.
OrderScenarios ==
    {Scenario({1, 10}, Limits(1, 0, 0, 0, 0)),
     Scenario({1}, Limits(1, 1, 0, 0, 0)),
     Scenario({1}, Limits(1, 0, 1, 0, 0)),
     Scenario({10}, Limits(0, 1, 1, 0, 0))}

\* The node recovers, a call fails, the controller restarts.
LiveScenario == {Scenario({10}, Limits(0, 0, 1, 1, 1))}

\* Nothing but lasting pressure.
StallScenario == {Scenario({1, 10}, Limits(0, 0, 0, 0, 0))}
=============================================================================
