--------------------------- MODULE MCNotification ---------------------------
(***************************************************************************)
(* Instances of Notification: one operation, up to two approvals ahead of  *)
(* it, one or two consumers.                                               *)
(***************************************************************************)
EXTENDS Notification

CONSTANTS o1, a1, a2, c1, c2

OneOp == {o1}
NoApproval == {}
OneApproval == {a1}
TwoApprovals == {a1, a2}
OneConsumer == {c1}
TwoConsumers == {c1, c2}
=============================================================================
