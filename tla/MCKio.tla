------------------------------- MODULE MCKio -------------------------------
(* The kio channel for TLC.                                                 *)
EXTENDS Kio
=============================================================================
