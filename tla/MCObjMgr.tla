------------------------------ MODULE MCObjMgr ------------------------------
(***************************************************************************)
(* An instance of ObjMgr for TLC.                                          *)
(***************************************************************************)
EXTENDS ObjMgr, TLC

CONSTANTS v1, p1, p2, p3, hdd, mc, kw, r1, r2

\* Sound: no peer is named.
Symmetry == Permutations(Peers)
=============================================================================
