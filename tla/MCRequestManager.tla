-------------------------- MODULE MCRequestManager --------------------------
(***************************************************************************)
(* Instances of RequestManager.                                            *)
(***************************************************************************)
EXTENDS RequestManager

CONSTANTS q1, q2, a1, a2, r1, r2, r3

AllThreads == Requesters \cup Responders
=============================================================================
