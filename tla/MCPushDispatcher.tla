-------------------------- MODULE MCPushDispatcher --------------------------
(* The push dispatcher of a plane with a phone and a watch.                *)
EXTENDS PushDispatcher

CONSTANTS phone, watch
=============================================================================
