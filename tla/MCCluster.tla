----------------------------- MODULE MCCluster -----------------------------
(* The dials of one relay of a cluster for TLC.                             *)
EXTENDS Cluster
=============================================================================
