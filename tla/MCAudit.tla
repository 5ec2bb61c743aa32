------------------------------- MODULE MCAudit -------------------------------
(***************************************************************************)
(* Instances of AuditTrail for TLC: an outbox row and a direct event that  *)
(* contend with each other for a buffer of one.                            *)
(***************************************************************************)
EXTENDS AuditTrail

OneRow == {1}
DirectEvents == {2}
=============================================================================
