------------------------------ MODULE MCTrack ------------------------------
(* A track for TLC.                                                         *)
EXTENDS Track
=============================================================================
