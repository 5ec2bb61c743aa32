----------------------------- MODULE MCRelease -----------------------------
(* TLC instances of ReleaseOperation.                                      *)
EXTENDS ReleaseOperation, TLC

CONSTANTS install, upgrade, rollback, another

MCCommands == Ops \X (1 .. NStages + 1)
MCStageCommands == Ops \X (1 .. NStages)
MCUpgradeCommands == UpgradeOps \X (1 .. NStages + 1)
=============================================================================
