---------------------------- MODULE MCScheduler ----------------------------
(***************************************************************************)
(* Instances of Scheduler for TLC.                                         *)
(***************************************************************************)
EXTENDS Scheduler, TLC

CONSTANTS p1, p2, m1, m2, m3

\* Sound: no action or property tells two posters or two buffers apart.
Symmetry == Permutations(Posters) \cup Permutations(Slots)
=============================================================================
