------------------------ MODULE MCSubworkflowResume -------------------------
(* Instances of SubworkflowResume for TLC.                                 *)
EXTENDS SubworkflowResume
=============================================================================
