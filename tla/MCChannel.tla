----------------------------- MODULE MCChannel -----------------------------
(* TLC instances of CommandChannel.                                        *)
EXTENDS CommandChannel, TLC

CONSTANTS stage, write
=============================================================================
