---------------------------- MODULE MCBroadcast ----------------------------
(* A broadcast and the tasks that serve it for TLC.                         *)
EXTENDS Broadcast
=============================================================================
