----------------------------- MODULE BranchLock -----------------------------
(***************************************************************************)
(* What the users of the driver synchronization core are promised,         *)
(* without queues, events, flags and triggers (wlan_dsc.h): a node has at  *)
(* most one transition, and then its whole branch has no other and begins  *)
(* no operation; and whoever holds the branch can learn that a node of it  *)
(* has no operation left, which stays so until the transition ends.        *)
(* Dsc implements this specification.                                      *)
(***************************************************************************)
CONSTANTS
  Node,
  Thread,
  Branch,  \* Branch[n]: n, the nodes above it and the nodes below it
  None

VARIABLES
  owner,   \* the thread whose transition is in flight on a node
  ops,     \* the threads in an operation on a node
  quiet    \* the nodes a thread has been told are without operations

vars == <<owner, ops, quiet>>

Free(n) == \A m \in Branch[n] : owner[m] = None

Init ==
  /\ owner = [n \in Node |-> None]
  /\ ops = [n \in Node |-> {}]
  /\ quiet = [t \in Thread |-> {}]

\* A transition begins on a free branch.
Acquire(t, n) ==
  /\ Free(n)
  /\ owner' = [owner EXCEPT ![n] = t]
  /\ UNCHANGED <<ops, quiet>>

\* A transition ends and the branches it leaves free go to any waiters at once;
\* the transitions elsewhere go on.
Release(n) ==
  /\ owner[n] # None
  /\ owner' \in [Node -> Thread \cup {None}]
  /\ owner'[n] # owner[n]
  /\ \A m \in Node \ {n} : owner[m] # None => owner'[m] = owner[m]
  /\ \A m \in Node : owner'[m] # None => \A k \in Branch[m] \ {m} : owner'[k] = None
  /\ quiet' = [quiet EXCEPT ![owner[n]] = {}]
  /\ UNCHANGED ops

\* An operation begins on a free branch and ends when it likes.
Begin(t, n) ==
  /\ Free(n)
  /\ \A m \in Node : t \notin ops[m]
  /\ ops' = [ops EXCEPT ![n] = ops[n] \cup {t}]
  /\ UNCHANGED <<owner, quiet>>

End(t, n) ==
  /\ t \in ops[n]
  /\ ops' = [ops EXCEPT ![n] = ops[n] \ {t}]
  /\ UNCHANGED <<owner, quiet>>

\* The holder of a branch is told that a node of it is quiet.
Observe(t, n) ==
  /\ \E m \in Node : owner[m] = t /\ n \in Branch[m]
  /\ ops[n] = {}
  /\ quiet' = [quiet EXCEPT ![t] = quiet[t] \cup {n}]
  /\ UNCHANGED <<owner, ops>>

Next ==
  \E n \in Node :
    \/ Release(n)
    \/ \E t \in Thread : Acquire(t, n) \/ Begin(t, n) \/ End(t, n) \/ Observe(t, n)

Spec == Init /\ [][Next]_vars
=============================================================================
