--------------------------- MODULE OperationState ---------------------------
(***************************************************************************)
(* The operation state machine: the event table the orchestrator consults  *)
(* before it writes a status, and the edge table the store enforces when a *)
(* status is written. The two are separate code and are kept separate here.*)
(***************************************************************************)

Statuses == {"pending", "preflight", "queued", "running", "cancelling",
             "succeeded", "failed", "cancelled", "timeout"}

Events == {"start_preflight", "preflight_passed", "enqueue", "begin", "complete",
           "error", "cancel", "acknowledge_cancel", "timeout"}

IsTerminal(s) == s \in {"succeeded", "failed", "cancelled", "timeout"}

InitialStatus == "pending"

\* The store's edge table.
Successors(s) ==
    CASE s = "pending"    -> {"preflight", "queued", "failed", "cancelled", "timeout"}
      [] s = "preflight"  -> {"queued", "failed", "cancelled", "timeout"}
      [] s = "queued"     -> {"running", "cancelled", "timeout"}
      [] s = "running"    -> {"succeeded", "failed", "cancelling", "timeout"}
      [] s = "cancelling" -> {"cancelled", "failed", "timeout"}
      [] OTHER            -> {}

CanTransitionTo(s, t) == t \in Successors(s)

\* The orchestrator's event table: <<current, event, next>>.
validTransitions ==
    { <<"pending", "start_preflight", "preflight">>,
      <<"pending", "enqueue", "queued">>,
      <<"pending", "cancel", "cancelled">>,
      <<"pending", "timeout", "timeout">>,
      <<"preflight", "preflight_passed", "queued">>,
      <<"preflight", "error", "failed">>,
      <<"preflight", "cancel", "cancelled">>,
      <<"preflight", "timeout", "timeout">>,
      <<"queued", "begin", "running">>,
      <<"queued", "cancel", "cancelled">>,
      <<"queued", "timeout", "timeout">>,
      <<"running", "complete", "succeeded">>,
      <<"running", "error", "failed">>,
      <<"running", "cancel", "cancelling">>,
      <<"running", "timeout", "timeout">>,
      <<"cancelling", "acknowledge_cancel", "cancelled">>,
      <<"cancelling", "error", "failed">>,
      <<"cancelling", "timeout", "timeout">> }

\* Transition(s, e, t): event e is valid in status s and leads to t.
Transition(s, e, t) == <<s, e, t>> \in validTransitions

=============================================================================
