---------------------------- MODULE MCAdmission ----------------------------
(* TLC instances of OperationAdmission.                                    *)
EXTENDS OperationAdmission, TLC

CONSTANTS install, again, emergency, rollback, replay, ana, ben, auth, orchestrator

\* again retries install and replay retries rollback, each with the same key.
MCKind == install :> "install" @@ again :> "install" @@ emergency :> "emergency"
          @@ rollback :> "rollback" @@ replay :> "rollback"
MCKey  == install :> "k1" @@ again :> "k1" @@ emergency :> "k2" @@ rollback :> "k3" @@ replay :> "k3"

\* ana makes every request but the emergency change, which is ben's.
MCActor == [r \in {install, again, emergency, rollback, replay} |->
               IF r = emergency THEN ben ELSE ana]

Pick(f) == [r \in Requests |-> f[r]]
MCKinds == Pick(MCKind)
MCKeys == Pick(MCKey)
MCActors == Pick(MCActor)

Admins == [a \in Actors |-> "admin"]
=============================================================================
