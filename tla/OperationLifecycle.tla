------------------------- MODULE OperationLifecycle -------------------------
(***************************************************************************)
(* What the operations table promises its readers, whoever writes it: an   *)
(* operation is created once, pending and at version 1; every later change *)
(* of its status follows an edge of the state machine and raises the       *)
(* version by one; a terminal operation never changes again.               *)
(***************************************************************************)
EXTENDS Integers, OperationState

CONSTANT Ops

VARIABLES opStatus, opVersion

lifecycleVars == <<opStatus, opVersion>>

\* The store's table, and the one edge outside it that FinalizeUpgrade takes:
\* an agent that was stopped reports helm_cancelled for a running upgrade.
Edge(s, t) == CanTransitionTo(s, t) \/ (s = "running" /\ t = "cancelled")

LifecycleInit ==
    /\ opStatus = [o \in Ops |-> "absent"]
    /\ opVersion = [o \in Ops |-> 0]

Created(o) ==
    /\ opStatus[o] = "absent"
    /\ opStatus' = [opStatus EXCEPT ![o] = "pending"]
    /\ opVersion' = [opVersion EXCEPT ![o] = 1]

Moved(o) ==
    \E t \in Statuses :
        /\ Edge(opStatus[o], t)
        /\ opStatus' = [opStatus EXCEPT ![o] = t]
        /\ opVersion' = [opVersion EXCEPT ![o] = @ + 1]

LifecycleNext == \E o \in Ops : Created(o) \/ Moved(o)

LifecycleSpec == LifecycleInit /\ [][LifecycleNext]_lifecycleVars

=============================================================================
