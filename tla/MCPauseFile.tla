---------------------------- MODULE MCPauseFile -----------------------------
(* Instances of PauseFile for TLC.                                         *)
EXTENDS PauseFile, TLC

CONSTANTS api, loop, other
=============================================================================
