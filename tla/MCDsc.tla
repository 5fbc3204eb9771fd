------------------------------- MODULE MCDsc -------------------------------
(***************************************************************************)
(* Instances of Dsc for TLC.                                               *)
(***************************************************************************)
EXTENDS Dsc, TLC

CONSTANTS d, p1, v1, v2, t1, t2, t3

\* A chain, and one psoc with two interfaces.
OneVdev == v1 :> p1
OnePsoc == v1 :> p1 @@ v2 :> p1

\* Sound: no action, property or constant tells two threads or two vdevs of
\* the same psoc apart.
Symmetry == Permutations(Threads) \cup Permutations(Vdevs)

(***************************************************************************)
(* Recovering and unloading, one at a time: with both flags set the checks *)
(* answer as they do for a driver that recovers.                           *)
(***************************************************************************)
OneFlagNext ==
  \/ TreeNext
  \/ \E t \in Threads : ThreadNext(t)
  \/ ~unloading /\ SetRecovering
  \/ ~recovering /\ SetUnloading

OneFlagSpec == Init /\ [][OneFlagNext]_vars

(***************************************************************************)
(* The driver in its steady state: the tree is built and stays, and it is  *)
(* neither recovering nor unloading.  Every state of it is a state of Spec.*)
(***************************************************************************)
SteadyInit ==
  /\ attached = Nodes
  /\ active = [n \in Nodes |-> NULL] /\ queue = [n \in Nodes |-> <<>>]
  /\ count = [n \in Nodes |-> 0] /\ done = [n \in Nodes |-> 0]
  /\ tran = [t \in Threads |-> "none"] /\ pc = [t \in Threads |-> "idle"]
  /\ at = [t \in Threads |-> NULL] /\ cur = [t \in Threads |-> NULL]
  /\ todo = [t \in Threads |-> {}] /\ drained = [t \in Threads |-> {}]
  /\ recovering = FALSE /\ unloading = FALSE

SteadyNext == \E t \in Threads : ThreadNext(t)

SteadySpec == SteadyInit /\ [][SteadyNext]_vars

SteadyFairSpec == SteadySpec /\ \A t \in Threads : ThreadFairness(t)
=============================================================================
