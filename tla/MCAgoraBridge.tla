--------------------------- MODULE MCAgoraBridge ----------------------------
(* Instances of AgoraBridge for TLC.                                       *)
EXTENDS AgoraBridge

MCEvent == Message
=============================================================================
