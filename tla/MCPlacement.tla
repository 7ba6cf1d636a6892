---------------------------- MODULE MCPlacement ----------------------------
(***************************************************************************)
(* A small instance of PlacementSpec, and the victim loop as the reference *)
(* for the declarative victim selection.                                   *)
(***************************************************************************)
EXTENDS PlacementSpec, SequencesExt

\* n1 does not report its CPU count; n2 has both cores of a pool.
MixedCores == [n \in Nodes |-> IF n = CHOOSE m \in Nodes : TRUE THEN 0 ELSE 2]

PodSymmetry == Permutations(Pods)

-----------------------------------------------------------------------------
\* The reference for the victim loop of SelectMinimumVictims: sort, then
\* take pods one at a time until the accumulated budget reaches needed.
SortedOrders(f, C) ==
    {s \in SetToSeqs(C) : \A i, j \in DOMAIN s : i < j => ~ SortsBefore(f, s[j], s[i])}

Taken(s, k) == {s[i] : i \in 1 .. k}

LoopResults(f, C, needed) ==
    UNION {{Taken(s, k) : k \in
              {k \in 0 .. Len(s) :
                 /\ \A i \in 1 .. k - 1 : Budget(f, Taken(s, i)) <= needed
                 /\ k = Len(s) \/ (k > 0 /\ Budget(f, Taken(s, k)) >= needed)}}
           : s \in SortedOrders(f, C)}

\* The set of results the model allows the victim selection is exactly the
\* set the sort-and-accumulate loop can return, over every core and need.
GreedyMatchesLoop ==
    \A n \in Nodes, c \in Cores, crit \in Criticalities, needed \in Budgets :
        LET C == Evictable(n, c, crit) IN
        SelectMinimumVictims(corePods[n][c], C, needed) =
            LoopResults(corePods[n][c], C, needed)
=============================================================================
