---------------------------- MODULE MCRunnerLock ----------------------------
(* Instances of RunnerLock for TLC: one runner in each of two processes.   *)
EXTENDS RunnerLock, TLC

CONSTANTS r1, r2, p1, p2

TwoProcesses == r1 :> p1 @@ r2 :> p2
=============================================================================
