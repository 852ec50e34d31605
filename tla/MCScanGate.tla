----------------------------- MODULE MCScanGate -----------------------------
(* Instances of ScanGate for TLC.                                          *)
EXTENDS ScanGate, TLC

CONSTANTS a, b

RunSymmetry == Permutations({a, b})
=============================================================================
