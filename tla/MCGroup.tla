------------------------------ MODULE MCGroup ------------------------------
(* A group and its frames for TLC.                                          *)
EXTENDS Group
=============================================================================
