------------------------ MODULE MCRuntimeEscalation ------------------------
(***************************************************************************)
(* Small instances of RuntimeEscalation.                                   *)
(***************************************************************************)
EXTENDS RuntimeEscalation

Limits(create, mutate, delete, overruns, preempt, reports, failure, lost, restart) ==
    [create |-> create, mutate |-> mutate, delete |-> delete, overrun |-> overruns,
     preempt |-> preempt, busy |-> reports, failure |-> failure, lost |-> lost,
     restart |-> restart, late |-> 0]

\* The pod is recreated, or a request for it is mutated only, or the
\* controller restarts, while the node becomes busy and idle again; or the
\* pod is preempted while the controller restarts or while calls fail.
SettleScenarios ==
    {Limits(2, 0, 1, 1, 0, 2, 0, 0, 0),
     Limits(1, 1, 0, 1, 0, 2, 0, 0, 0),
     Limits(1, 0, 0, 1, 0, 2, 0, 0, 1),
     Limits(1, 0, 0, 1, 1, 0, 0, 0, 1),
     Limits(1, 0, 0, 1, 1, 0, 1, 1, 0)}

\* The node becomes busy and idle again.
LostScenario == {Limits(1, 0, 0, 1, 0, 2, 0, 0, 0)}
=============================================================================
