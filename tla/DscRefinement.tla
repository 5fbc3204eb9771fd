--------------------------- MODULE DscRefinement ---------------------------
(***************************************************************************)
(* Dsc implements BranchLock, for every tree and any threads.              *)
(***************************************************************************)
EXTENDS DscProofs

\* The threads in an operation are the same if no thread enters or leaves one.
LEMMA OpsKept ==
  ASSUME \A u \in Threads : /\ pc'[u] = "op" <=> pc[u] = "op"
                            /\ pc[u] = "op" => at'[u] = at[u]
  PROVE  [n \in Nodes |-> OpsOn(n)]' = [n \in Nodes |-> OpsOn(n)]
<1>1. \A n \in Nodes : OpsOn(n)' = OpsOn(n)
  BY DEF OpsOn
<1>2. QED
  BY <1>1

\* A node with a count of zero has nobody in an operation.
LEMMA ZeroIsNobody ==
  ASSUME SafetyInv, OpsCounted, NEW n \in Nodes, count[n] = 0
  PROVE  OpsOn(n) = {}
<1> SUFFICES ASSUME NEW t \in OpsOn(n) PROVE FALSE
  OBVIOUS
<1>1. t \in Threads /\ pc[t] = "op" /\ at[t] = n
  BY DEF OpsOn
<1>2. QED
  BY <1>1, OpIsCounted DEF SafetyInv

\* A transition starts only on a branch without one.
LEMMA StartIsAcquire ==
  ASSUME SafetyInv, NEW t \in Threads, NEW n \in Nodes, dsc_trans_start(t, n)
  PROVE  Promise!Acquire(t, n)
<1>1. \A m \in BranchOf[n] : active[m] = NULL
  BY CanTransMeansFree DEF dsc_trans_start, BranchOf
<1>2. [m \in Nodes |-> OpsOn(m)]' = [m \in Nodes |-> OpsOn(m)]
  BY OpsKept DEF dsc_trans_start, SafetyInv, TypeOK
<1>3. QED
  BY <1>1, <1>2 DEF Promise!Acquire, Promise!Free, dsc_trans_start

\* A thread that is nowhere owns nothing, here after a step.
LEMMA NowhereOwnsNothing ==
  ASSUME SafetyInv', NEW t \in Threads, NEW m \in Nodes, at'[t] = NULL
  PROVE  active'[m] # t
<1>1. m # NULL
  BY TreeFacts
<1>2. active'[m] = t => at'[t] = m
  BY DEF SafetyInv, OwnerLink, Holds
<1>3. QED
  BY <1>1, <1>2

\* A transition's end gives up its own node and no other thread's.
LEMMA StopIsRelease ==
  ASSUME SafetyInv, SafetyInv', NEW t \in Threads, dsc_trans_stop(t)
  PROVE  at[t] \in Nodes /\ Promise!Release(at[t])
<1> DEFINE n == at[t]
<1>1. n \in Nodes /\ active[n] = t /\ t # NULL
  BY StopOwns, TreeFacts
<1>2. active'[n] # t
  <2>1. at'[t] = NULL
    BY DEF dsc_trans_stop, SafetyInv, TypeOK
  <2>2. QED
    BY <1>1, <2>1, NowhereOwnsNothing
<1>3. \A m \in Nodes \ {n} : active[m] # NULL => active'[m] = active[m]
  <2> SUFFICES ASSUME NEW m \in Nodes \ {n}, active[m] # NULL PROVE active'[m] = active[m]
    OBVIOUS
  <2>1. Cleared(t)[m] = active[m]
    BY <1>1 DEF Cleared, SafetyInv, TypeOK
  <2>2. m \notin Triggered(t)
    BY <2>1, TriggerSound DEF Related
  <2>3. QED
    BY <2>1, <2>2 DEF dsc_trans_stop, Triggered, Cleared
<1>4. \A m \in Nodes : active'[m] # NULL => \A k \in BranchOf[m] \ {m} : active'[k] = NULL
  BY TreeFacts DEF SafetyInv, BranchExclusion, BranchOf
<1>5. [m \in Nodes |-> OpsOn(m)]' = [m \in Nodes |-> OpsOn(m)]
  BY OpsKept DEF dsc_trans_stop, SafetyInv, TypeOK
<1>6. drained' = [drained EXCEPT ![active[n]] = {}] /\ active' \in [Nodes -> Threads \cup {NULL}]
  BY <1>1 DEF dsc_trans_stop, SafetyInv, TypeOK
<1>7. QED
  BY <1>1, <1>2, <1>3, <1>4, <1>5, <1>6 DEF Promise!Release

\* An operation starts only on a branch without a transition.
LEMMA OpStartIsBegin ==
  ASSUME SafetyInv, NEW t \in Threads, NEW n \in Nodes, dsc_op_start(t, n)
  PROVE  Promise!Begin(t, n)
<1>1. \A m \in BranchOf[n] : active[m] = NULL
  BY CanTransMeansFree DEF dsc_op_start, BranchOf
<1>2. \A m \in Nodes : t \notin OpsOn(m)
  BY DEF OpsOn, dsc_op_start
<1>3. \A m \in Nodes : OpsOn(m)' = IF m = n THEN OpsOn(n) \cup {t} ELSE OpsOn(m)
  BY DEF OpsOn, dsc_op_start, SafetyInv, TypeOK
<1>4. QED
  BY <1>1, <1>2, <1>3 DEF Promise!Begin, Promise!Free, dsc_op_start

\* An operation's end takes exactly its thread off the node.
LEMMA OpStopIsEnd ==
  ASSUME SafetyInv, NEW t \in Threads, dsc_op_stop(t)
  PROVE  at[t] \in Nodes /\ Promise!End(t, at[t])
<1>1. at[t] \in Nodes
  BY DEF dsc_op_stop, SafetyInv, TypeOK, PcLink
<1>2. t \in OpsOn(at[t])
  BY <1>1 DEF OpsOn, dsc_op_stop
<1>3. \A m \in Nodes : OpsOn(m)' = IF m = at[t] THEN OpsOn(m) \ {t} ELSE OpsOn(m)
  BY <1>1 DEF OpsOn, dsc_op_stop, SafetyInv, TypeOK
<1>4. QED
  BY <1>1, <1>2, <1>3 DEF Promise!End, dsc_op_stop

\* A visit that ends, without a sleep or after one, tells its caller so.
LEMMA VisitIsObserve ==
  ASSUME SafetyInv, WaitInv, NEW t \in Threads, NEW n \in Nodes, n \in todo[t], count[n] = 0,
         drained' = [drained EXCEPT ![t] = drained[t] \cup {n}], active' = active,
         [m \in Nodes |-> OpsOn(m)]' = [m \in Nodes |-> OpsOn(m)]
  PROVE  Promise!Observe(t, n)
<1>1. at[t] \in Nodes /\ active[at[t]] = t
  BY WaiterOwns DEF WaitInv
<1>2. n \in BranchOf[at[t]]
  BY <1>1 DEF BranchOf, WaitInv, WaitLink
<1>3. OpsOn(n) = {}
  BY ZeroIsNobody DEF WaitInv
<1>4. QED
  BY <1>1, <1>2, <1>3 DEF Promise!Observe

\* Every step of DSC is a step of the lock or leaves it alone.
LEMMA StepIsPromised ==
  SafetyInv /\ WaitInv /\ SafetyInv' /\ [Next]_vars => [Promise!Next]_(Promise!vars)
<1> SUFFICES ASSUME SafetyInv, WaitInv, SafetyInv', [Next]_vars
             PROVE  Promise!Next \/ UNCHANGED Promise!vars
  OBVIOUS
<1> USE DEF SafetyInv, TypeOK
<1>1. ASSUME active' = active, drained' = drained,
             \A u \in Threads : /\ pc'[u] = "op" <=> pc[u] = "op"
                                /\ pc[u] = "op" => at'[u] = at[u]
      PROVE  UNCHANGED Promise!vars
  BY <1>1, OpsKept DEF Promise!vars
<1>2. ASSUME NEW t \in Threads, NEW n \in Nodes, dsc_ops_skip(t, n) PROVE Promise!Next
  <2>1. [m \in Nodes |-> OpsOn(m)]' = [m \in Nodes |-> OpsOn(m)]
    BY <1>2, OpsKept DEF dsc_ops_skip
  <2>2. Promise!Observe(t, n)
    BY <1>2, <2>1, VisitIsObserve DEF dsc_ops_skip, NextToVisit, treeVars
  <2>3. QED
    BY <2>2 DEF Promise!Next
<1>3. ASSUME NEW t \in Threads, dsc_ops_wake(t) PROVE Promise!Next
  <2>1. [m \in Nodes |-> OpsOn(m)]' = [m \in Nodes |-> OpsOn(m)]
    BY <1>3, OpsKept DEF dsc_ops_wake
  <2>2. cur[t] \in Nodes /\ cur[t] \in todo[t] /\ count[cur[t]] = 0
    BY <1>3 DEF dsc_ops_wake, WaitInv, WaitLink
  <2>3. Promise!Observe(t, cur[t])
    BY <1>3, <2>1, <2>2, VisitIsObserve DEF dsc_ops_wake
  <2>4. QED
    BY <2>2, <2>3 DEF Promise!Next
<1>4. ASSUME NEW t \in Threads, NEW n \in Nodes, dsc_trans_start(t, n) \/ dsc_op_start(t, n)
      PROVE  Promise!Next
  BY <1>4, StartIsAcquire, OpStartIsBegin DEF Promise!Next
<1>5. ASSUME NEW t \in Threads, dsc_trans_stop(t) \/ dsc_op_stop(t) PROVE Promise!Next
  BY <1>5, StopIsRelease, OpStopIsEnd DEF Promise!Next
<1>6. ASSUME NEW n \in Nodes, dsc_create(n) \/ dsc_destroy(n) PROVE UNCHANGED Promise!vars
  BY <1>1, <1>6 DEF dsc_create, dsc_destroy, threadVars
<1>7. ASSUME NEW t \in Threads, NEW n \in Nodes, dsc_trans_queue(t, n) \/ dsc_ops_block(t, n)
      PROVE  UNCHANGED Promise!vars
  BY <1>1, <1>7 DEF dsc_trans_queue, dsc_ops_block
<1>8. ASSUME NEW t \in Threads, dsc_tran_wait(t) \/ dsc_wait_for_ops(t) \/ UptreeWait(t)
      PROVE  UNCHANGED Promise!vars
  BY <1>1, <1>8 DEF dsc_tran_wait, dsc_wait_for_ops, UptreeWait, dsc_vdev_wait_for_uptree_ops, treeVars
<1>9. ASSUME SetRecovering \/ SetUnloading \/ UNCHANGED vars PROVE UNCHANGED Promise!vars
  BY <1>1, <1>9 DEF SetRecovering, SetUnloading, vars, treeVars, threadVars
<1>10. QED
  BY <1>2, <1>3, <1>4, <1>5, <1>6, <1>7, <1>8, <1>9, NextSteps DEF AnyStep

\* DSC implements the branch lock of wlan_dsc.h: its queues, triggers, counts
\* and events give every caller exactly the steps BranchLock allows.
THEOREM Refinement == Spec => ImplementsPromise
<1>1. Init => Promise!Init
  BY DEF Init, Promise!Init, OpsOn
<1>2. QED
  BY <1>1, StepIsPromised, Invariance, PTL DEF Spec, ImplementsPromise, Promise!Spec
=============================================================================
