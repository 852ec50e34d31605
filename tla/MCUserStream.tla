---------------------------- MODULE MCUserStream ----------------------------
(* Instances of UserStream for TLC.                                        *)
EXTENDS UserStream

CONSTANTS a, main
=============================================================================
