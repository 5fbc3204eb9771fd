----------------------------- MODULE MCOsifSync -----------------------------
(***************************************************************************)
(* Instances of OsifSync for TLC.                                          *)
(***************************************************************************)
EXTENDS OsifSync, TLC

CONSTANTS d, p, v1, v2, t1, t2, t3, pf

OneVdev  == v1 :> p
TwoVdevs == v1 :> p @@ v2 :> p

\* Sound: only Platform is named.
Symmetry == Permutations(Threads \ {Platform})

\* The properties of osif say nothing once a transition was usurped, which is for
\* good: all these states are one.
UntilUsurped == IF usurped THEN <<>> ELSE <<allVars>>

(***************************************************************************)
(* The behaviours that RecoveryCompletes speaks of: those that the         *)
(* hypothesis of it excludes, end where they are disturbed.                *)
(***************************************************************************)
UndisturbedNext == Undisturbed /\ OsifNext

UndisturbedSpec == OsifInit /\ [][UndisturbedNext]_allVars /\ OsifFairness
=============================================================================
