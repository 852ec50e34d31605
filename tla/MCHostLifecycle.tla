-------------------------- MODULE MCHostLifecycle ---------------------------
(* Instances of HostLifecycle for TLC: the module is finite as it stands.  *)
EXTENDS HostLifecycle
=============================================================================
