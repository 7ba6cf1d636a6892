---------------------------- MODULE MCAdmission ----------------------------
(***************************************************************************)
(* Small instances of Admission: a node with two cores, or two nodes with  *)
(* one core each, and pods that need more than half of a core.             *)
(***************************************************************************)
EXTENDS Admission, TLC

CONSTANTS a, b, h   \* a LOW pod that fills a core up to the threshold, a LOW
                    \* one whose runtime_low exceeds its runtime_hi, a HIGH one

MCCriticality == [p \in Pods |-> IF p = h THEN "HIGH" ELSE "LOW"]
MCRuntimeLow == [p \in Pods |-> CASE p = a -> 18 [] p = b -> 12 [] OTHER -> 10]
MCRuntimeHi == [p \in Pods |-> CASE p = a -> 18 [] p = b -> 10 [] OTHER -> 12]
MCPeriod == [p \in Pods |-> 20]
MCNumCores == [n \in Nodes |-> Cardinality(Cores)]

RequestSymmetry == Permutations(Requests)
=============================================================================
