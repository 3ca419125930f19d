---------------------------- MODULE MCRequests ----------------------------
(* Broadcasts on demand for TLC.                                            *)
EXTENDS Requests
===========================================================================
