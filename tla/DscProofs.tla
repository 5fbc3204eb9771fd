----------------------------- MODULE DscProofs -----------------------------
(***************************************************************************)
(* Proofs of the safety properties of Dsc, for every tree, every number of *)
(* threads and every saturation bound of the completion counter.           *)
(***************************************************************************)
EXTENDS Dsc, FiniteSetTheorems, TLAPS

(***************************************************************************)
(* The calls of the three levels are instances of the same few steps.      *)
(***************************************************************************)
UptreeWait(t) == \E v \in Vdevs : dsc_vdev_wait_for_uptree_ops(t, v)

AnyStep ==
  \/ \E n \in Nodes : dsc_create(n) \/ dsc_destroy(n)
  \/ \E t \in Threads, n \in Nodes :
       \/ dsc_trans_start(t, n) \/ dsc_trans_queue(t, n) \/ dsc_op_start(t, n)
       \/ dsc_ops_skip(t, n) \/ dsc_ops_block(t, n)
  \/ \E t \in Threads :
       \/ dsc_tran_wait(t) \/ dsc_trans_stop(t) \/ dsc_op_stop(t)
       \/ dsc_wait_for_ops(t) \/ UptreeWait(t) \/ dsc_ops_wake(t)
  \/ SetRecovering
  \/ SetUnloading

DscStep == AnyStep \/ UNCHANGED vars

\* Every step of Next, whatever its level, is one of them.
LEMMA NextSteps == Next => AnyStep
<1> SUFFICES ASSUME Next PROVE AnyStep
  OBVIOUS
<1> USE DEF AnyStep, Nodes
<1>1. ASSUME TreeNext PROVE AnyStep
  BY <1>1 DEF TreeNext, dsc_driver_create, dsc_driver_destroy, dsc_psoc_create, dsc_psoc_destroy,
              dsc_vdev_create, dsc_vdev_destroy
<1>2. ASSUME NEW t \in Threads, DriverCall(t) PROVE AnyStep
  BY <1>2 DEF DriverCall, dsc_driver_trans_start, dsc_driver_trans_start_wait, dsc_driver_trans_stop,
              dsc_driver_op_start, dsc_driver_op_stop, dsc_driver_wait_for_ops
<1>3. ASSUME NEW t \in Threads, NEW p \in Psocs, PsocCall(t, p) PROVE AnyStep
  BY <1>3 DEF PsocCall, dsc_psoc_trans_start, dsc_psoc_trans_start_wait, dsc_psoc_trans_stop,
              dsc_psoc_op_start, dsc_psoc_op_stop, dsc_psoc_wait_for_ops
<1>4. ASSUME NEW t \in Threads, NEW v \in Vdevs, VdevCall(t, v) PROVE AnyStep
  BY <1>4 DEF VdevCall, dsc_vdev_trans_start, dsc_vdev_trans_start_wait, dsc_vdev_trans_stop,
              dsc_vdev_op_start, dsc_vdev_op_stop, dsc_vdev_wait_for_ops, UptreeWait
<1>5. ASSUME NEW t \in Threads, Progress(t) PROVE AnyStep
  BY <1>5 DEF Progress
<1>6. QED
  BY <1>1, <1>2, <1>3, <1>4, <1>5 DEF Next, ThreadNext

(***************************************************************************)
(* The tree.                                                               *)
(***************************************************************************)
\* Parents, ancestors and descendants are nodes; being on one branch is
\* symmetric and does not depend on which end one looks from.
LEMMA TreeFacts ==
  /\ NULL \notin Nodes /\ NULL \notin Threads
  /\ \A n \in Nodes : Uptree(n) \subseteq Nodes /\ DownTree(n) \subseteq Nodes
  /\ \A m, n \in Nodes : m \in Uptree(n) <=> n \in DownTree(m)
  /\ \A m, n \in Nodes : Related(m, n) <=> Related(n, m)
  /\ \A n \in Nodes \ {Driver} : Parent(n) \in Nodes
BY DscAssumption DEF DscAssumption, Nodes, Uptree, DownTree, Related, VdevsOf, Parent

\* The nodes a stop triggers have a waiter.
LEMMA TriggeredHaveWaiters ==
  ASSUME TypeOK, NEW n \in Nodes, NEW act
  PROVE  dsc_trigger_trans(act, n) \subseteq {m \in Nodes : queue[m] # <<>>}
BY DscAssumption
   DEF DscAssumption, dsc_trigger_trans, dsc_driver_trigger_trans, dsc_psoc_trigger_trans,
       dsc_vdev_trigger_trans, dsc_driver_trans_trigger_checked,
       dsc_psoc_trans_trigger_checked, dsc_trans_queued, VdevsOf, Nodes

(***************************************************************************)
(* Type correctness.                                                       *)
(***************************************************************************)
LEMMA TypeInit == Init => TypeOK
<1> SUFFICES ASSUME Init PROVE TypeOK
  OBVIOUS
<1>1. 0 \in 0 .. DoneMax /\ 0 \in Nat
  BY DscAssumption DEF DscAssumption
<1>2. queue \in [Nodes -> Seq(Threads)]
  BY DEF Init
<1>3. done \in [Nodes -> 0 .. DoneMax] /\ count \in [Nodes -> Nat]
  BY <1>1 DEF Init
<1>4. QED
  BY <1>2, <1>3 DEF Init, TypeOK

\* The operations in flight on a node are finite in number, and a thread that
\* is inside one is counted.
LEMMA OpIsCounted ==
  ASSUME TypeOK, OpsCounted, NEW t \in Threads, pc[t] = "op", at[t] \in Nodes
  PROVE  count[at[t]] > 0
<1>1. t \in OpsOn(at[t]) /\ IsFiniteSet(OpsOn(at[t]))
  <2>1. OpsOn(at[t]) \subseteq Threads
    BY DEF OpsOn
  <2>2. QED
    BY <2>1, DscAssumption, FS_Subset DEF OpsOn, DscAssumption
<1>2. Cardinality(OpsOn(at[t])) # 0
  BY <1>1, FS_EmptySet
<1>3. QED
  BY <1>2 DEF OpsCounted, TypeOK

LEMMA TypeNext == TypeOK /\ PcLink /\ OpsCounted /\ DscStep => TypeOK'
<1> SUFFICES ASSUME TypeOK, PcLink, OpsCounted, DscStep PROVE TypeOK'
  OBVIOUS
<1> USE DscAssumption DEF DscAssumption
<1>1. ASSUME NEW n \in Nodes, dsc_create(n) PROVE TypeOK'
  BY <1>1 DEF TypeOK, dsc_create, threadVars, flagVars
<1>2. ASSUME NEW n \in Nodes, dsc_destroy(n) PROVE TypeOK'
  BY <1>2 DEF TypeOK, dsc_destroy, flagVars
<1>3. ASSUME NEW t \in Threads, NEW n \in Nodes, dsc_trans_start(t, n) PROVE TypeOK'
  BY <1>3 DEF TypeOK, dsc_trans_start, flagVars
<1>4. ASSUME NEW t \in Threads, NEW n \in Nodes, dsc_trans_queue(t, n) PROVE TypeOK'
  BY <1>4 DEF TypeOK, dsc_trans_queue, flagVars
<1>5. ASSUME NEW t \in Threads, NEW n \in Nodes, dsc_op_start(t, n) PROVE TypeOK'
  BY <1>5 DEF TypeOK, dsc_op_start, flagVars
<1>6a. ASSUME NEW t \in Threads, NEW n \in Nodes, dsc_ops_skip(t, n) PROVE TypeOK'
  BY <1>6a DEF TypeOK, dsc_ops_skip, treeVars, flagVars
<1>6b. ASSUME NEW t \in Threads, NEW n \in Nodes, dsc_ops_block(t, n) PROVE TypeOK'
  BY <1>6b DEF TypeOK, dsc_ops_block, flagVars
<1>7. ASSUME NEW t \in Threads, dsc_tran_wait(t) PROVE TypeOK'
  BY <1>7 DEF TypeOK, dsc_tran_wait, treeVars, flagVars
<1>8. ASSUME NEW t \in Threads, dsc_trans_stop(t) PROVE TypeOK'
  <2> DEFINE act  == [active EXCEPT ![at[t]] = NULL]
             trig == dsc_trigger_trans(act, at[t])
  <2>1. at[t] \in Nodes
    BY <1>8 DEF dsc_trans_stop, PcLink, TypeOK
  <2>2. \A m \in trig : m \in Nodes /\ queue[m] \in Seq(Threads) /\ queue[m] # <<>>
    BY <2>1, TriggeredHaveWaiters DEF TypeOK
  <2>3. \A m \in trig : Head(queue[m]) \in Threads /\ Tail(queue[m]) \in Seq(Threads)
    BY <2>2
  <2>4. act \in [Nodes -> Threads \cup {NULL}]
    BY <2>1 DEF TypeOK
  <2> HIDE DEF act, trig
  <2>5. /\ active' = [m \in Nodes |-> IF m \in trig THEN Head(queue[m]) ELSE act[m]]
        /\ queue' = [m \in Nodes |-> IF m \in trig THEN Tail(queue[m]) ELSE queue[m]]
        /\ tran' = [u \in Threads |-> IF \E m \in trig : Head(queue[m]) = u
                                      THEN "granted" ELSE tran[u]]
        /\ pc' = [pc EXCEPT ![t] = "idle"]
        /\ at' = [at EXCEPT ![t] = NULL]
        /\ drained' = [drained EXCEPT ![t] = {}]
        /\ UNCHANGED <<attached, count, done, todo, cur, flagVars>>
    BY <1>8 DEF dsc_trans_stop, act, trig
  <2>6. QED
    BY <2>3, <2>4, <2>5 DEF TypeOK, flagVars
<1>9. ASSUME NEW t \in Threads, dsc_op_stop(t) PROVE TypeOK'
  <2>1. at[t] \in Nodes /\ count[at[t]] > 0
    BY <1>9, OpIsCounted DEF dsc_op_stop, PcLink, TypeOK
  <2>2. QED
    BY <1>9, <2>1 DEF TypeOK, dsc_op_stop, complete, flagVars
<1>10. ASSUME NEW t \in Threads, dsc_wait_for_ops(t) PROVE TypeOK'
  BY <1>10, TreeFacts DEF TypeOK, dsc_wait_for_ops, treeVars, flagVars, PcLink
<1>11. ASSUME NEW t \in Threads, UptreeWait(t) PROVE TypeOK'
  BY <1>11, TreeFacts DEF TypeOK, UptreeWait, dsc_vdev_wait_for_uptree_ops, treeVars, flagVars, PcLink
<1>12. ASSUME NEW t \in Threads, dsc_ops_wake(t) PROVE TypeOK'
  BY <1>12 DEF TypeOK, dsc_ops_wake, flagVars, PcLink
<1>13. CASE SetRecovering \/ SetUnloading
  BY <1>13 DEF TypeOK, SetRecovering, SetUnloading, treeVars, threadVars
<1>14. CASE UNCHANGED vars
  BY <1>14 DEF TypeOK, vars, treeVars, threadVars, flagVars
<1>15. QED
  BY <1>1, <1>2, <1>3, <1>4, <1>5, <1>6a, <1>6b, <1>7, <1>8, <1>9, <1>10, <1>11, <1>12, <1>13, <1>14
     DEF DscStep, AnyStep

-----------------------------------------------------------------------------
(***************************************************************************)
(* What a stop does to the tree.                                           *)
(***************************************************************************)
\* active once the stopped transition is cleared, and the nodes triggered.
Cleared(t)   == [active EXCEPT ![at[t]] = NULL]
Triggered(t) == dsc_trigger_trans(Cleared(t), at[t])

\* The thread that stops owns the node it stops, and nothing else on that
\* node's branch is in flight.
LEMMA StopOwns ==
  ASSUME SafetyInv, NEW t \in Threads, dsc_trans_stop(t)
  PROVE  /\ at[t] \in Nodes /\ active[at[t]] = t
         /\ \A m \in Nodes : Related(m, at[t]) /\ m # at[t] => active[m] = NULL
         /\ Cleared(t) \in [Nodes -> Threads \cup {NULL}]
<1>1. at[t] \in Nodes
  BY DEF dsc_trans_stop, SafetyInv, PcLink, TypeOK
<1>2. active[at[t]] = t
  BY <1>1 DEF dsc_trans_stop, SafetyInv, OwnerLink, Holds
<1>3. \A m \in Nodes : Related(m, at[t]) /\ m # at[t] => active[m] = NULL
  BY <1>1, <1>2, TreeFacts DEF SafetyInv, BranchExclusion
<1>4. QED
  BY <1>1, <1>2, <1>3, DscAssumption DEF SafetyInv, TypeOK, Cleared

\* Triggered nodes have waiters, lie on branches that are free once the
\* stopped transition is cleared, on different branches from one another, and
\* under no waiting node.
LEMMA TriggerSound ==
  ASSUME SafetyInv, NEW t \in Threads, dsc_trans_stop(t)
  PROVE  \A m \in Triggered(t) :
           /\ m \in Nodes /\ queue[m] # <<>>
           /\ \A k \in Nodes : Related(k, m) => Cleared(t)[k] = NULL
           /\ \A k \in Triggered(t) : Related(k, m) => k = m
           /\ \A k \in Uptree(m) : queue[k] = <<>>
<1> DEFINE n == at[t]
           act == Cleared(t)
<1>1. n \in Nodes /\ \A m \in Nodes : Related(m, n) => act[m] = NULL
  BY StopOwns DEF Cleared, SafetyInv, TypeOK
<1>2. \A m \in Nodes \ attached : act[m] = NULL
  BY <1>1, StopOwns DEF SafetyInv, TypeOK, DetachedIdle, Cleared
<1>3. \A m \in Triggered(t) : m \in Nodes /\ queue[m] # <<>>
  BY <1>1, TriggeredHaveWaiters DEF SafetyInv, Triggered
<1> HIDE DEF act
<1>4. CASE n = Driver
  <2>1. Triggered(t) = dsc_driver_trigger_trans
    BY <1>4 DEF Triggered, dsc_trigger_trans
  <2>2. \A m \in Nodes : Related(m, Driver)
    BY DscAssumption DEF DscAssumption, Related, DownTree, Nodes
  <2>3. QED
    BY <1>1, <1>3, <1>4, <2>1, <2>2, DscAssumption
       DEF DscAssumption, dsc_driver_trigger_trans, dsc_trans_queued, Related, Uptree,
           DownTree, VdevsOf, Nodes, act
<1>5. CASE n \in Psocs
  <2>1. Triggered(t) = dsc_psoc_trigger_trans(act, n)
    BY <1>5, DscAssumption DEF DscAssumption, Triggered, dsc_trigger_trans, act
  <2>2. QED
    BY <1>1, <1>2, <1>3, <1>5, <2>1, DscAssumption
       DEF DscAssumption, dsc_psoc_trigger_trans, dsc_driver_trans_trigger_checked,
           dsc_driver_can_trigger, dsc_driver_trans_active_down_tree, dsc_trans_active,
           dsc_trans_queued, Related, Uptree, DownTree, VdevsOf, Nodes, act
<1>6. CASE n \in Vdevs
  <2>1. Triggered(t) = dsc_vdev_trigger_trans(act, n)
    BY <1>6, DscAssumption DEF DscAssumption, Triggered, dsc_trigger_trans, act
  <2>2. QED
    BY <1>1, <1>2, <1>3, <1>6, <2>1, DscAssumption
       DEF DscAssumption, dsc_vdev_trigger_trans, dsc_driver_trans_trigger_checked,
           dsc_driver_can_trigger, dsc_driver_trans_active_down_tree,
           dsc_psoc_trans_trigger_checked, dsc_psoc_can_trigger,
           dsc_psoc_trans_active_down_tree, dsc_trans_active, dsc_trans_queued,
           Related, Uptree, DownTree, VdevsOf, Nodes, act
<1>7. QED
  BY <1>1, <1>4, <1>5, <1>6 DEF Nodes

-----------------------------------------------------------------------------
(***************************************************************************)
(* Each conjunct of SafetyInv is preserved.                                *)
(***************************************************************************)
LEMMA PcLinkNext == TypeOK /\ PcLink /\ QueueLink /\ DscStep => PcLink'
<1> SUFFICES ASSUME TypeOK, PcLink, QueueLink, DscStep PROVE PcLink'
  OBVIOUS
<1> USE TreeFacts DEF TypeOK, PcLink
<1>1. ASSUME NEW n \in Nodes, dsc_create(n) PROVE PcLink'
  BY <1>1 DEF dsc_create, threadVars
<1>2. ASSUME NEW n \in Nodes, dsc_destroy(n) PROVE PcLink'
  BY <1>2 DEF dsc_destroy, QueueLink
<1>3. ASSUME NEW t \in Threads, NEW n \in Nodes, dsc_trans_start(t, n) PROVE PcLink'
  BY <1>3 DEF dsc_trans_start
<1>4. ASSUME NEW t \in Threads, NEW n \in Nodes, dsc_trans_queue(t, n) PROVE PcLink'
  BY <1>4 DEF dsc_trans_queue
<1>5. ASSUME NEW t \in Threads, NEW n \in Nodes, dsc_op_start(t, n) PROVE PcLink'
  BY <1>5 DEF dsc_op_start
<1>6a. ASSUME NEW t \in Threads, NEW n \in Nodes, dsc_ops_skip(t, n) PROVE PcLink'
  BY <1>6a DEF dsc_ops_skip
<1>6b. ASSUME NEW t \in Threads, NEW n \in Nodes, dsc_ops_block(t, n) PROVE PcLink'
  BY <1>6b DEF dsc_ops_block
<1>7. ASSUME NEW t \in Threads, dsc_tran_wait(t) PROVE PcLink'
  BY <1>7 DEF dsc_tran_wait
<1>8. ASSUME NEW t \in Threads, dsc_trans_stop(t) PROVE PcLink'
  <2>1. \A m \in Triggered(t) : pc[Head(queue[m])] = "queued" /\ Head(queue[m]) # t
    <3>1. \A m \in Triggered(t) : m \in Nodes /\ queue[m] # <<>>
      <4>1. at[t] \in Nodes
        BY <1>8 DEF dsc_trans_stop
      <4>2. QED
        BY <4>1, TriggeredHaveWaiters DEF Triggered
    <3>2. \A m \in Triggered(t) : 1 \in DOMAIN queue[m] /\ Head(queue[m]) = queue[m][1]
      BY <3>1
    <3>3. QED
      BY <1>8, <3>1, <3>2 DEF QueueLink, dsc_trans_stop
  <2>2. /\ tran' = [u \in Threads |-> IF \E m \in Triggered(t) : Head(queue[m]) = u
                                      THEN "granted" ELSE tran[u]]
        /\ pc' = [pc EXCEPT ![t] = "idle"] /\ at' = [at EXCEPT ![t] = NULL]
        /\ cur' = cur /\ pc[t] = "held"
    BY <1>8 DEF dsc_trans_stop, Triggered, Cleared
  <2>3. QED
    BY <2>1, <2>2
<1>9. ASSUME NEW t \in Threads, dsc_op_stop(t) PROVE PcLink'
  BY <1>9 DEF dsc_op_stop
<1>10. ASSUME NEW t \in Threads, dsc_wait_for_ops(t) PROVE PcLink'
  BY <1>10 DEF dsc_wait_for_ops
<1>11. ASSUME NEW t \in Threads, UptreeWait(t) PROVE PcLink'
  BY <1>11 DEF UptreeWait, dsc_vdev_wait_for_uptree_ops
<1>12. ASSUME NEW t \in Threads, dsc_ops_wake(t) PROVE PcLink'
  BY <1>12 DEF dsc_ops_wake
<1>13. CASE SetRecovering \/ SetUnloading
  BY <1>13 DEF SetRecovering, SetUnloading, threadVars
<1>14. CASE UNCHANGED vars
  BY <1>14 DEF vars, threadVars
<1>15. QED
  BY <1>1, <1>2, <1>3, <1>4, <1>5, <1>6a, <1>6b, <1>7, <1>8, <1>9, <1>10, <1>11, <1>12, <1>13,
     <1>14 DEF DscStep, AnyStep

\* The steps that touch neither a transition nor a queue.
TransitionsAlone ==
  /\ UNCHANGED <<attached, active, queue>>
  /\ \A t \in Threads, n \in Nodes : Holds(t, n)' <=> Holds(t, n)
  /\ \A t \in Threads : pc[t] = "queued" /\ tran[t] = "pending" =>
       pc'[t] = "queued" /\ tran'[t] = "pending" /\ at'[t] = at[t]

LEMMA AloneKeepsSafety ==
  SafetyInv /\ TransitionsAlone
    => OwnerLink' /\ QueueLink' /\ BranchExclusion' /\ DetachedIdle' /\ NoLostTrigger'
<1> SUFFICES ASSUME SafetyInv, TransitionsAlone
             PROVE  OwnerLink' /\ QueueLink' /\ BranchExclusion' /\ DetachedIdle' /\ NoLostTrigger'
  OBVIOUS
<1>1. OwnerLink'
  BY DEF SafetyInv, OwnerLink, TransitionsAlone
<1>2. QueueLink'
  BY DEF SafetyInv, QueueLink, TransitionsAlone, TypeOK
<1>3. BranchExclusion' /\ DetachedIdle'
  BY DEF SafetyInv, BranchExclusion, DetachedIdle, TransitionsAlone
<1>4. NoLostTrigger'
  BY DEF SafetyInv, NoLostTrigger, TransitionsAlone, dsc_trans_active_or_queued,
         dsc_trans_active, dsc_trans_queued
<1>5. QED
  BY <1>1, <1>2, <1>3, <1>4

LEMMA AloneSteps ==
  ASSUME TypeOK, PcLink, NEW t \in Threads, NEW n \in Nodes,
         \/ dsc_op_start(t, n) \/ dsc_ops_skip(t, n) \/ dsc_ops_block(t, n)
         \/ dsc_op_stop(t) \/ dsc_wait_for_ops(t) \/ UptreeWait(t)
         \/ dsc_ops_wake(t) \/ SetRecovering \/ SetUnloading \/ UNCHANGED vars
  PROVE  TransitionsAlone
<1> USE TreeFacts DEF TypeOK, PcLink, TransitionsAlone, Holds, treeVars, threadVars, flagVars
<1>1. CASE dsc_op_start(t, n)
  BY <1>1 DEF dsc_op_start
<1>2. CASE dsc_ops_skip(t, n)
  BY <1>2 DEF dsc_ops_skip
<1>3. CASE dsc_ops_block(t, n)
  BY <1>3 DEF dsc_ops_block
<1>4. CASE dsc_op_stop(t)
  BY <1>4 DEF dsc_op_stop
<1>5. CASE dsc_wait_for_ops(t) \/ UptreeWait(t)
  BY <1>5 DEF dsc_wait_for_ops, UptreeWait, dsc_vdev_wait_for_uptree_ops
<1>6. CASE dsc_ops_wake(t)
  BY <1>6 DEF dsc_ops_wake
<1>7. CASE SetRecovering \/ SetUnloading \/ UNCHANGED vars
  BY <1>7 DEF SetRecovering, SetUnloading, vars
<1>8. QED
  BY <1>1, <1>2, <1>3, <1>4, <1>5, <1>6, <1>7

\* dsc_create and dsc_destroy.
LEMMA CreateKeepsSafety ==
  ASSUME SafetyInv, NEW n \in Nodes, dsc_create(n)
  PROVE  OwnerLink' /\ QueueLink' /\ BranchExclusion' /\ DetachedIdle' /\ NoLostTrigger'
<1> USE DEF dsc_create, threadVars, SafetyInv
<1>1. OwnerLink' /\ QueueLink' /\ BranchExclusion'
  BY DEF OwnerLink, Holds, QueueLink, BranchExclusion
<1>2. DetachedIdle'
  BY DEF DetachedIdle
<1>3. NoLostTrigger'
  BY DEF NoLostTrigger, dsc_trans_active_or_queued, dsc_trans_active, dsc_trans_queued
<1>4. QED
  BY <1>1, <1>2, <1>3

\* The queued transitions of a node are aborted and taken off its queue.
LEMMA AbortLinks ==
  ASSUME TypeOK, OwnerLink, QueueLink, NEW n \in Nodes,
         tran' = [t \in Threads |-> IF \E i \in DOMAIN queue[n] : queue[n][i] = t
                                    THEN "aborted" ELSE tran[t]],
         queue' = [queue EXCEPT ![n] = <<>>],
         UNCHANGED <<active, pc, at>>
  PROVE  OwnerLink' /\ QueueLink'
<1> DEFINE InQueue(t) == \E i \in DOMAIN queue[n] : queue[n][i] = t
<1>1. \A t \in Threads : tran'[t] = IF InQueue(t) THEN "aborted" ELSE tran[t]
  OBVIOUS
<1>2. OwnerLink'
  BY <1>1 DEF OwnerLink, Holds, QueueLink
<1>3. QueueLink'
  <2> SUFFICES ASSUME NEW m \in Nodes, NEW i \in DOMAIN queue'[m]
               PROVE  /\ pc'[queue'[m][i]] = "queued" /\ tran'[queue'[m][i]] = "pending"
                      /\ at'[queue'[m][i]] = m
                      /\ \A j \in DOMAIN queue'[m] : queue'[m][i] = queue'[m][j] => i = j
    BY DEF QueueLink
  <2>1. m # n /\ queue'[m] = queue[m]
    BY DEF TypeOK
  <2>2. queue[m][i] \in Threads /\ ~InQueue(queue[m][i])
    BY <2>1 DEF QueueLink, TypeOK
  <2>3. QED
    BY <1>1, <2>1, <2>2 DEF QueueLink
<1>4. QED
  BY <1>2, <1>3

LEMMA DestroyKeepsSafety ==
  ASSUME SafetyInv, NEW n \in Nodes, dsc_destroy(n)
  PROVE  OwnerLink' /\ QueueLink' /\ BranchExclusion' /\ DetachedIdle' /\ NoLostTrigger'
<1> USE DEF SafetyInv
<1>1. /\ active' = active /\ active[n] = NULL /\ Children(n) \cap attached = {}
      /\ attached' = attached \ {n} /\ queue' = [queue EXCEPT ![n] = <<>>]
  BY DEF dsc_destroy, Quiescent
<1>2. OwnerLink' /\ QueueLink'
  BY AbortLinks DEF dsc_destroy
<1>3. BranchExclusion'
  BY <1>1 DEF BranchExclusion
<1>4. DetachedIdle'
  BY <1>1, DscAssumption
     DEF DscAssumption, DetachedIdle, TypeOK, Children, Parent, VdevsOf, Nodes
<1>5. NoLostTrigger'
  <2>1. \A m \in Nodes : queue'[m] # <<>> => m # n /\ queue[m] # <<>>
    BY <1>1 DEF TypeOK
  <2>2. \A m \in Nodes : n \in Uptree(m) => queue[m] = <<>> /\ active[m] = NULL
    BY <1>1, DscAssumption
       DEF DscAssumption, DetachedIdle, Uptree, Children, Parent, VdevsOf, Nodes, TypeOK
  <2>3. \A m \in Nodes : m # n => (queue'[m] # <<>> <=> queue[m] # <<>>)
    BY <1>1 DEF TypeOK
  <2>4. QED
    BY <1>1, <2>1, <2>2, <2>3, DscAssumption
       DEF DscAssumption, NoLostTrigger, dsc_trans_active_or_queued, dsc_trans_active,
           dsc_trans_queued, Uptree, Nodes
<1>6. QED
  BY <1>2, <1>3, <1>4, <1>5

\* A start that succeeds finds its branch free of transitions and of waiters
\* up-tree, for each of the three can_trans checks.
LEMMA CanTransMeansFree ==
  ASSUME SafetyInv, NEW n \in attached, dsc_can_trans(n) = "SUCCESS"
  PROVE  /\ \A m \in Nodes : Related(m, n) => active[m] = NULL
         /\ queue[n] = <<>>
         /\ \A m \in Uptree(n) : queue[m] = <<>>
<1>1. n \in Nodes
  BY DEF SafetyInv, TypeOK
<1>2. \A m \in Nodes \ attached : active[m] = NULL
  BY DEF SafetyInv, DetachedIdle
<1>3. CASE n = Driver
  BY <1>2, <1>3, DscAssumption
     DEF DscAssumption, dsc_can_trans, dsc_driver_can_trans, dsc_trans_active_or_queued,
         dsc_trans_active, dsc_trans_queued, dsc_driver_trans_active_down_tree, Related,
         Uptree, DownTree, Nodes
<1>4. CASE n \in Psocs
  BY <1>2, <1>4, DscAssumption
     DEF DscAssumption, dsc_can_trans, dsc_psoc_can_trans, dsc_trans_active_or_queued,
         dsc_trans_active, dsc_trans_queued, dsc_psoc_trans_active_down_tree, Related,
         Uptree, DownTree, VdevsOf, Nodes
<1>5. CASE n \in Vdevs
  BY <1>2, <1>5, DscAssumption
     DEF DscAssumption, dsc_can_trans, dsc_vdev_can_trans, dsc_trans_active_or_queued,
         dsc_trans_active, dsc_trans_queued, Related, Uptree, DownTree, VdevsOf, Nodes
<1>6. QED
  BY <1>1, <1>3, <1>4, <1>5 DEF Nodes

LEMMA StartKeepsSafety ==
  ASSUME SafetyInv, NEW t \in Threads, NEW n \in Nodes, dsc_trans_start(t, n)
  PROVE  OwnerLink' /\ QueueLink' /\ BranchExclusion' /\ DetachedIdle' /\ NoLostTrigger'
<1> USE TreeFacts DEF SafetyInv
<1>1. /\ \A m \in Nodes : Related(m, n) => active[m] = NULL
      /\ n \in attached /\ active' = [active EXCEPT ![n] = t]
      /\ pc[t] = "idle" /\ pc' = [pc EXCEPT ![t] = "held"] /\ at' = [at EXCEPT ![t] = n]
      /\ UNCHANGED <<attached, queue, tran>>
  BY CanTransMeansFree DEF dsc_trans_start
<1>2. active[n] = NULL
  BY <1>1 DEF Related
<1>3. \A m \in Nodes : active'[m] = IF m = n THEN t ELSE active[m]
  BY <1>1 DEF TypeOK
<1>4. OwnerLink'
  BY <1>1, <1>2, <1>3 DEF OwnerLink, Holds, TypeOK, PcLink
<1>5. QueueLink'
  BY <1>1 DEF QueueLink, TypeOK
<1>6. BranchExclusion'
  BY <1>1, <1>3 DEF BranchExclusion
<1>7. DetachedIdle'
  BY <1>1, <1>3 DEF DetachedIdle
<1>8. NoLostTrigger'
  BY <1>1, <1>2, <1>3, DscAssumption
     DEF DscAssumption, NoLostTrigger, dsc_trans_active_or_queued, dsc_trans_active,
         dsc_trans_queued, VdevsOf, Nodes
<1>9. QED
  BY <1>4, <1>5, <1>6, <1>7, <1>8

\* A thread that queues itself is at the end of that queue only.
LEMMA QueueLinks ==
  ASSUME TypeOK, PcLink, OwnerLink, QueueLink, NEW t \in Threads, NEW n \in Nodes, dsc_trans_queue(t, n)
  PROVE  OwnerLink' /\ QueueLink'
<1> USE TreeFacts
<1>1. /\ queue' = [queue EXCEPT ![n] = Append(queue[n], t)]
      /\ pc[t] = "idle" /\ pc' = [pc EXCEPT ![t] = "queued"] /\ at' = [at EXCEPT ![t] = n]
      /\ tran' = [tran EXCEPT ![t] = "pending"]
      /\ active' = active
  BY DEF dsc_trans_queue
<1>2. OwnerLink'
  BY <1>1 DEF OwnerLink, Holds, TypeOK, PcLink
<1>3. QueueLink'
  <2> SUFFICES ASSUME NEW m \in Nodes, NEW i \in DOMAIN queue'[m]
               PROVE  /\ pc'[queue'[m][i]] = "queued" /\ tran'[queue'[m][i]] = "pending"
                      /\ at'[queue'[m][i]] = m
                      /\ \A j \in DOMAIN queue'[m] : queue'[m][i] = queue'[m][j] => i = j
    BY DEF QueueLink
  <2>1. CASE m # n
    <3>1. queue'[m] = queue[m] /\ queue[m][i] \in Threads /\ queue[m][i] # t
      BY <1>1, <2>1 DEF QueueLink, TypeOK
    <3>2. QED
      BY <1>1, <3>1 DEF QueueLink, TypeOK
  <2>2. CASE m = n
    <3>1. queue'[n] = Append(queue[n], t) /\ queue[n] \in Seq(Threads)
      BY <1>1 DEF TypeOK
    <3>2. /\ DOMAIN queue'[n] = 1 .. Len(queue[n]) + 1
          /\ DOMAIN queue[n] = 1 .. Len(queue[n])
          /\ queue'[n][Len(queue[n]) + 1] = t
          /\ \A j \in DOMAIN queue[n] : queue'[n][j] = queue[n][j] /\ queue[n][j] \in Threads
      BY <3>1
    <3>3. \A j \in DOMAIN queue[n] : queue[n][j] # t
      BY <1>1 DEF QueueLink
    <3>4. Len(queue[n]) \in Nat
      BY <3>1
    <3>5. \A j \in DOMAIN queue'[n] : j = Len(queue[n]) + 1 \/ j \in DOMAIN queue[n]
      BY <3>2, <3>4
    <3>6. QED
      BY <1>1, <2>2, <3>2, <3>3, <3>5 DEF QueueLink, TypeOK
  <2>3. QED
    BY <2>1, <2>2
<1>4. QED
  BY <1>2, <1>3

\* A start that must wait has something to wait for on its branch.
LEMMA QueueKeepsSafety ==
  ASSUME SafetyInv, NEW t \in Threads, NEW n \in Nodes, dsc_trans_queue(t, n)
  PROVE  OwnerLink' /\ QueueLink' /\ BranchExclusion' /\ DetachedIdle' /\ NoLostTrigger'
<1> USE TreeFacts DEF SafetyInv
<1>1. /\ n \in attached /\ dsc_can_trans(n) \in {"E_AGAIN", "E_BUSY"}
      /\ queue' = [queue EXCEPT ![n] = Append(queue[n], t)]
      /\ pc[t] = "idle" /\ pc' = [pc EXCEPT ![t] = "queued"] /\ at' = [at EXCEPT ![t] = n]
      /\ tran' = [tran EXCEPT ![t] = "pending"]
      /\ UNCHANGED <<attached, active>>
  BY DEF dsc_trans_queue
<1>2. OwnerLink' /\ QueueLink'
  BY QueueLinks
<1>3. BranchExclusion'
  BY <1>1 DEF BranchExclusion
<1>4. DetachedIdle'
  BY <1>1 DEF DetachedIdle, TypeOK
<1>5. NoLostTrigger'
  <2>1. \A m \in Nodes : queue'[m] = <<>> => queue[m] = <<>>
    <3> SUFFICES ASSUME NEW m \in Nodes, queue'[m] = <<>> PROVE queue[m] = <<>>
      OBVIOUS
    <3>1. m = n => Append(queue[n], t) = <<>>
      BY <1>1 DEF TypeOK
    <3>2. queue[n] \in Seq(Threads)
      BY DEF TypeOK
    <3>3. Append(queue[n], t) # <<>>
      BY <3>2
    <3>4. QED
      BY <1>1, <3>1, <3>3 DEF TypeOK
  <2>2. \A m \in Nodes : m # n => queue'[m] = queue[m]
    BY <1>1 DEF TypeOK
  <2>3. CASE n = Driver
    BY <1>1, <2>1, <2>2, <2>3, DscAssumption
       DEF DscAssumption, NoLostTrigger, dsc_can_trans, dsc_driver_can_trans,
           dsc_trans_active_or_queued, dsc_trans_active, dsc_trans_queued,
           dsc_driver_trans_active_down_tree, Nodes
  <2>4. CASE n \in Psocs
    BY <1>1, <2>1, <2>2, <2>4, DscAssumption
       DEF DscAssumption, NoLostTrigger, dsc_can_trans, dsc_psoc_can_trans,
           dsc_trans_active_or_queued, dsc_trans_active, dsc_trans_queued,
           dsc_psoc_trans_active_down_tree, VdevsOf, Nodes
  <2>5. CASE n \in Vdevs
    BY <1>1, <2>1, <2>2, <2>5, DscAssumption
       DEF DscAssumption, NoLostTrigger, dsc_can_trans, dsc_vdev_can_trans,
           dsc_trans_active_or_queued, dsc_trans_active, dsc_trans_queued, VdevsOf, Nodes
  <2>6. QED
    BY <2>3, <2>4, <2>5 DEF Nodes
<1>6. QED
  BY <1>2, <1>3, <1>4, <1>5

LEMMA TranWaitAlone ==
  ASSUME TypeOK, PcLink, NEW t \in Threads, dsc_tran_wait(t)
  PROVE  TransitionsAlone
BY TreeFacts DEF TypeOK, PcLink, TransitionsAlone, Holds, dsc_tran_wait, treeVars

\* The thread that stops gives its node up, and the first waiter of every
\* triggered node, which nobody holds by then, becomes its owner.
LEMMA StopLinks ==
  ASSUME TypeOK, PcLink, OwnerLink, QueueLink, NEW t \in Threads, dsc_trans_stop(t),
         \A m \in Triggered(t) : m \in Nodes /\ queue[m] # <<>> /\ Cleared(t)[m] = NULL
  PROVE  /\ \A m \in Triggered(t) : Head(queue[m]) \in Threads
         /\ OwnerLink' /\ QueueLink'
<1> USE TreeFacts
<1> DEFINE n == at[t]
           act == Cleared(t)
           trig == Triggered(t)
           first(m) == Head(queue[m])
<1>1. /\ active' = [m \in Nodes |-> IF m \in trig THEN first(m) ELSE act[m]]
      /\ queue' = [m \in Nodes |-> IF m \in trig THEN Tail(queue[m]) ELSE queue[m]]
      /\ tran' = [u \in Threads |-> IF \E m \in trig : first(m) = u THEN "granted" ELSE tran[u]]
      /\ pc' = [pc EXCEPT ![t] = "idle"] /\ at' = [at EXCEPT ![t] = NULL]
      /\ pc[t] = "held"
  BY DEF dsc_trans_stop, Triggered, Cleared
<1>2. /\ n \in Nodes /\ active[n] = t
      /\ \A m \in Nodes : act[m] = IF m = n THEN NULL ELSE active[m]
  BY DEF dsc_trans_stop, TypeOK, PcLink, OwnerLink, Holds, Cleared
<1>3. \A m \in trig : m \in Nodes /\ queue[m] # <<>> /\ act[m] = NULL
  OBVIOUS
<1>4. \A m \in trig : /\ first(m) \in Threads /\ first(m) # t
                      /\ pc[first(m)] = "queued" /\ tran[first(m)] = "pending" /\ at[first(m)] = m
  <2>1. \A m \in trig : 1 \in DOMAIN queue[m] /\ first(m) = queue[m][1] /\ queue[m][1] \in Threads
    BY <1>3 DEF TypeOK
  <2>2. QED
    BY <1>1, <1>3, <2>1 DEF QueueLink
<1> HIDE DEF n, act, trig, first
<1>5. OwnerLink'
  <2> SUFFICES ASSUME NEW u \in Threads, NEW m \in Nodes
               PROVE  active'[m] = u <=> Holds(u, m)'
    BY DEF OwnerLink
  <2>1. CASE m \in trig
    <3>1. active'[m] = first(m) /\ act[m] = NULL
      BY <1>1, <1>3, <2>1
    <3>2. \A k \in trig : first(k) = u /\ at[u] = m => k = m
      BY <1>4
    <3>3. u # t => active[m] # u
      BY <1>2, <3>1
    <3>4. QED
      BY <1>1, <1>2, <1>4, <2>1, <3>1, <3>2, <3>3 DEF OwnerLink, Holds, TypeOK, n
  <2>2. CASE m \notin trig
    <3>1. active'[m] = IF m = n THEN NULL ELSE active[m]
      BY <1>1, <1>2, <2>2
    <3>2. \A k \in trig : first(k) = u => at[u] # m
      BY <1>4, <2>2
    <3>3. CASE u = t
      BY <1>1, <1>2, <3>1, <3>3 DEF OwnerLink, Holds, TypeOK, n
    <3>4. CASE u # t
      BY <1>1, <1>2, <3>1, <3>2, <3>4 DEF OwnerLink, Holds, TypeOK, n
    <3>5. QED
      BY <3>3, <3>4
  <2>3. QED
    BY <2>1, <2>2
<1>6. QueueLink'
  <2> SUFFICES ASSUME NEW m \in Nodes, NEW i \in DOMAIN queue'[m]
               PROVE  /\ pc'[queue'[m][i]] = "queued" /\ tran'[queue'[m][i]] = "pending"
                      /\ at'[queue'[m][i]] = m
                      /\ \A j \in DOMAIN queue'[m] : queue'[m][i] = queue'[m][j] => i = j
    BY DEF QueueLink
  <2>1. ASSUME NEW u \in Threads, pc[u] = "queued", tran[u] = "pending", at[u] = m,
               m \in trig => u # first(m)
        PROVE  pc'[u] = "queued" /\ tran'[u] = "pending" /\ at'[u] = m
    BY <1>1, <1>4, <2>1 DEF TypeOK
  <2>2. queue[m] \in Seq(Threads)
    BY DEF TypeOK
  <2>3. CASE m \notin trig
    <3>1. queue'[m] = queue[m]
      BY <1>1, <2>3
    <3>2. queue[m][i] \in Threads
      BY <2>2, <3>1
    <3>3. QED
      BY <2>1, <2>3, <3>1, <3>2 DEF QueueLink
  <2>4. CASE m \in trig
    <3>1. queue'[m] = Tail(queue[m]) /\ queue[m] # <<>> /\ first(m) = queue[m][1]
      BY <1>1, <1>3, <2>2, <2>4 DEF first
    <3>2. /\ Len(queue[m]) \in Nat \ {0}
          /\ DOMAIN queue'[m] = 1 .. Len(queue[m]) - 1 /\ DOMAIN queue[m] = 1 .. Len(queue[m])
          /\ \A j \in DOMAIN queue'[m] : queue'[m][j] = queue[m][j + 1]
      BY <2>2, <3>1
    <3>3. \A j \in DOMAIN queue'[m] : j \in Nat /\ j + 1 \in DOMAIN queue[m] /\ j + 1 # 1
      BY <3>2
    <3>4. queue[m][i + 1] \in Threads /\ queue[m][i + 1] # first(m)
      BY <2>2, <3>1, <3>2, <3>3 DEF QueueLink
    <3>5. pc'[queue'[m][i]] = "queued" /\ tran'[queue'[m][i]] = "pending" /\ at'[queue'[m][i]] = m
      BY <2>1, <3>2, <3>3, <3>4 DEF QueueLink
    <3>6. ASSUME NEW j \in DOMAIN queue'[m], queue'[m][i] = queue'[m][j] PROVE i = j
      <4>1. i + 1 = j + 1
        BY SMTT(30), <3>2, <3>3, <3>6 DEF QueueLink
      <4>2. QED
        BY <3>3, <4>1
    <3>7. QED
      BY <3>5, <3>6
  <2>5. QED
    BY <2>3, <2>4
<1>7. QED
  BY <1>4, <1>5, <1>6 DEF trig, first

\* A stop keeps them: the triggered waiters become the owners of branches that
\* are free, and whoever is still queued has an owner or a waiter above it.
LEMMA StopKeepsSafety ==
  ASSUME SafetyInv, NEW t \in Threads, dsc_trans_stop(t)
  PROVE  OwnerLink' /\ QueueLink' /\ BranchExclusion' /\ DetachedIdle' /\ NoLostTrigger'
<1> USE TreeFacts DEF SafetyInv
<1> DEFINE n == at[t]
           act == Cleared(t)
           trig == Triggered(t)
           first(m) == Head(queue[m])
<1>1. /\ active' = [m \in Nodes |-> IF m \in trig THEN first(m) ELSE act[m]]
      /\ queue' = [m \in Nodes |-> IF m \in trig THEN Tail(queue[m]) ELSE queue[m]]
      /\ tran' = [u \in Threads |-> IF \E m \in trig : first(m) = u THEN "granted" ELSE tran[u]]
      /\ pc' = [pc EXCEPT ![t] = "idle"] /\ at' = [at EXCEPT ![t] = NULL]
      /\ pc[t] = "held" /\ attached' = attached
  BY DEF dsc_trans_stop, Triggered, Cleared
<1>2. /\ n \in Nodes /\ active[n] = t
      /\ \A m \in Nodes : act[m] = IF m = n THEN NULL ELSE active[m]
  BY StopOwns DEF Cleared, TypeOK
<1>3. \A m \in trig :
        /\ m \in Nodes /\ queue[m] # <<>>
        /\ \A k \in Nodes : Related(k, m) => act[k] = NULL
        /\ \A k \in trig : Related(k, m) => k = m
  BY TriggerSound
<1>4. /\ \A m \in trig : first(m) \in Threads
      /\ OwnerLink' /\ QueueLink'
  <2>1. \A m \in trig : act[m] = NULL
    BY <1>3 DEF Related
  <2>2. QED
    BY <1>3, <2>1, StopLinks
<1> HIDE DEF n, act, trig, first
<1>5. BranchExclusion'
  <2> SUFFICES ASSUME NEW m \in Nodes, NEW k \in Nodes,
                      active'[m] # NULL, active'[k] # NULL, Related(m, k)
               PROVE  m = k
    BY DEF BranchExclusion
  <2>1. CASE m \notin trig /\ k \notin trig
    BY <1>1, <1>2, <2>1 DEF BranchExclusion
  <2>2. CASE m \in trig \/ k \in trig
    BY <1>1, <1>3, <2>2
  <2>3. QED
    BY <2>1, <2>2
<1>6. DetachedIdle'
  <2>1. \A m \in trig : m \in attached
    BY <1>3 DEF DetachedIdle
  <2>2. QED
    BY <1>1, <1>2, <2>1 DEF DetachedIdle, TypeOK
<1>7. /\ \A m \in Nodes : queue'[m] # <<>> => queue[m] # <<>>
      /\ \A m \in Nodes : queue'[m] = <<>> => queue[m] = <<>> \/ active'[m] # NULL
      /\ \A m \in Nodes : m \in trig \/ act[m] # NULL => active'[m] # NULL
  BY <1>1, <1>3, <1>4
<1>8. NoLostTrigger'
  <2> USE DscAssumption
      DEF DscAssumption, dsc_trans_active_or_queued, dsc_trans_active, dsc_trans_queued
  <2>1. trig = dsc_trigger_trans(act, n)
    BY DEF Triggered, trig, act, n
  <2>2. \A m \in Nodes : queue[m] # <<>> => m \in attached
    BY DEF DetachedIdle
  <2>3. \A m \in Nodes : Related(m, n) => act[m] = NULL
    BY <1>2, StopOwns DEF act, n
  <2>4. CASE n = Driver
    BY <1>7, <2>1, <2>2, <2>4
       DEF NoLostTrigger, dsc_trigger_trans, dsc_driver_trigger_trans, VdevsOf, Nodes
  <2>5. CASE n \in Psocs
    BY <1>2, <1>7, <2>1, <2>2, <2>3, <2>5
       DEF NoLostTrigger, dsc_trigger_trans, dsc_psoc_trigger_trans,
           dsc_driver_trans_trigger_checked, dsc_driver_can_trigger,
           dsc_driver_trans_active_down_tree, Related, Uptree, DownTree, VdevsOf, Nodes
  <2>6. CASE n \in Vdevs
    BY <1>2, <1>7, <2>1, <2>2, <2>3, <2>6
       DEF NoLostTrigger, dsc_trigger_trans, dsc_vdev_trigger_trans,
           dsc_driver_trans_trigger_checked, dsc_driver_can_trigger,
           dsc_driver_trans_active_down_tree, dsc_psoc_trans_trigger_checked,
           dsc_psoc_can_trigger, dsc_psoc_trans_active_down_tree,
           Related, Uptree, DownTree, VdevsOf, Nodes
  <2>7. QED
    BY <1>2, <2>4, <2>5, <2>6 DEF Nodes
<1>9. QED
  BY <1>4, <1>5, <1>6, <1>8

LEMMA SafetyInit == Init => SafetyInv
<1> SUFFICES ASSUME Init PROVE SafetyInv
  OBVIOUS
<1>1. TypeOK
  BY TypeInit
<1>2. PcLink /\ OwnerLink /\ QueueLink /\ BranchExclusion /\ DetachedIdle /\ NoLostTrigger
  BY TreeFacts, DscAssumption
     DEF DscAssumption, Init, PcLink, OwnerLink, Holds, QueueLink, BranchExclusion,
         DetachedIdle, NoLostTrigger, Nodes
<1>3. QED
  BY <1>1, <1>2 DEF SafetyInv

LEMMA SafetyNext == SafetyInv /\ OpsCounted /\ [Next]_vars => SafetyInv'
<1> SUFFICES ASSUME SafetyInv, OpsCounted, [Next]_vars PROVE SafetyInv'
  OBVIOUS
<1>1. TypeOK' /\ PcLink'
  BY TypeNext, PcLinkNext, NextSteps DEF SafetyInv, DscStep
<1>2. OwnerLink' /\ QueueLink' /\ BranchExclusion' /\ DetachedIdle' /\ NoLostTrigger'
  <2> DEFINE Goal == OwnerLink' /\ QueueLink' /\ BranchExclusion' /\ DetachedIdle' /\ NoLostTrigger'
  <2>1. ASSUME NEW n \in Nodes, dsc_create(n) \/ dsc_destroy(n) PROVE Goal
    BY <2>1, CreateKeepsSafety, DestroyKeepsSafety
  <2>2. ASSUME NEW t \in Threads, NEW n \in Nodes, dsc_trans_start(t, n) \/ dsc_trans_queue(t, n)
        PROVE  Goal
    BY <2>2, StartKeepsSafety, QueueKeepsSafety
  <2>3. ASSUME NEW t \in Threads, dsc_trans_stop(t) PROVE Goal
    BY <2>3, StopKeepsSafety
  <2>4. ASSUME NEW t \in Threads, dsc_tran_wait(t) PROVE Goal
    BY <2>4, TranWaitAlone, AloneKeepsSafety DEF SafetyInv
  <2>5. ASSUME NEW t \in Threads, NEW n \in Nodes,
               dsc_op_start(t, n) \/ dsc_ops_skip(t, n) \/ dsc_ops_block(t, n)
        PROVE  Goal
    BY <2>5, AloneSteps, AloneKeepsSafety DEF SafetyInv
  <2>6. ASSUME NEW t \in Threads,
               \/ dsc_op_stop(t) \/ dsc_wait_for_ops(t) \/ UptreeWait(t)
               \/ dsc_ops_wake(t)
        PROVE  Goal
    <3>1. Driver \in Nodes
      BY DEF Nodes
    <3>2. QED
      BY <2>6, <3>1, AloneSteps, AloneKeepsSafety DEF SafetyInv
  <2>7. ASSUME SetRecovering \/ SetUnloading \/ UNCHANGED vars PROVE Goal
    <3>1. TransitionsAlone
      BY <2>7 DEF TransitionsAlone, Holds, SetRecovering, SetUnloading, vars, treeVars, threadVars
    <3>2. QED
      BY <3>1, AloneKeepsSafety
  <2> HIDE DEF Goal
  <2>8. Goal
    BY <2>1, <2>2, <2>3, <2>4, <2>5, <2>6, <2>7, NextSteps DEF AnyStep
  <2>9. QED
    BY <2>8 DEF Goal
<1>3. QED
  BY <1>1, <1>2 DEF SafetyInv

-----------------------------------------------------------------------------
(***************************************************************************)
(* Operations and the waits for them.                                      *)
(***************************************************************************)
\* A thread with something to visit or to rely on owns its node.
LEMMA WaiterOwns ==
  ASSUME SafetyInv, WaitLink, NEW t \in Threads, todo[t] \cup drained[t] # {}
  PROVE  at[t] \in Nodes /\ active[at[t]] = t
<1>1. pc[t] \in {"held", "block"}
  BY DEF WaitLink
<1>2. at[t] \in Nodes
  BY <1>1 DEF SafetyInv, PcLink, TypeOK
<1>3. QED
  BY <1>1, <1>2 DEF SafetyInv, OwnerLink, Holds

\* Two nodes that are on one branch with m, one of them m or above it, are on
\* one branch with each other.
LEMMA BranchThrough ==
  ASSUME NEW m \in Nodes, NEW n \in Nodes, NEW k \in Nodes,
         Related(m, n), m \notin Uptree(n), Related(m, k)
  PROVE  Related(k, n)
BY DscAssumption DEF DscAssumption, Related, Uptree, DownTree, VdevsOf, Nodes

LEMMA OneMore ==
  ASSUME NEW S, IsFiniteSet(S), NEW x
  PROVE  /\ x \notin S => Cardinality(S \cup {x}) = Cardinality(S) + 1
         /\ x \in S => Cardinality(S \ {x}) = Cardinality(S) - 1
BY FS_AddElement, FS_RemoveElement

LEMMA OpsCountedNext == TypeOK /\ PcLink /\ OpsCounted /\ DscStep => OpsCounted'
<1> SUFFICES ASSUME TypeOK, PcLink, OpsCounted, DscStep PROVE OpsCounted'
  OBVIOUS
<1> USE DEF TypeOK, PcLink
<1>1. ASSUME count' = count,
             \A u \in Threads : (pc'[u] = "op" <=> pc[u] = "op") /\ (pc[u] = "op" => at'[u] = at[u])
      PROVE  OpsCounted'
  <2>1. \A n \in Nodes : OpsOn(n)' = OpsOn(n)
    BY <1>1 DEF OpsOn
  <2>2. QED
    BY <1>1, <2>1 DEF OpsCounted
<1>2. \A n \in Nodes : IsFiniteSet(OpsOn(n))
  <2>1. \A n \in Nodes : OpsOn(n) \subseteq Threads
    BY DEF OpsOn
  <2>2. QED
    BY <2>1, DscAssumption, FS_Subset DEF DscAssumption
<1>3. ASSUME NEW t \in Threads, NEW n \in Nodes, dsc_op_start(t, n) PROVE OpsCounted'
  <2>1. t \notin OpsOn(n) /\ OpsOn(n)' = OpsOn(n) \cup {t}
    BY <1>3 DEF dsc_op_start, OpsOn
  <2>2. Cardinality(OpsOn(n)') = Cardinality(OpsOn(n)) + 1
    BY ZenonT(40), <1>2, <2>1, OneMore
  <2>3. \A m \in Nodes : m # n => OpsOn(m)' = OpsOn(m)
    BY <1>3 DEF dsc_op_start, OpsOn
  <2>4. count'[n] = count[n] + 1 /\ \A m \in Nodes : m # n => count'[m] = count[m]
    BY <1>3 DEF dsc_op_start
  <2>5. QED
    BY ZenonT(40), <2>2, <2>3, <2>4 DEF OpsCounted
<1>4. ASSUME NEW t \in Threads, dsc_op_stop(t) PROVE OpsCounted'
  <2>1. PICK n \in Nodes : n = at[t] /\ pc[t] = "op"
    BY <1>4 DEF dsc_op_stop
  <2>2. t \in OpsOn(n) /\ OpsOn(n)' = OpsOn(n) \ {t}
    BY <1>4, <2>1, TreeFacts DEF dsc_op_stop, OpsOn
  <2>3. Cardinality(OpsOn(n)') = Cardinality(OpsOn(n)) - 1
    BY ZenonT(40), <1>2, <2>2, OneMore
  <2>4. \A m \in Nodes : m # n => OpsOn(m)' = OpsOn(m)
    BY <1>4, <2>1, TreeFacts DEF dsc_op_stop, OpsOn
  <2>5. count'[n] = count[n] - 1 /\ \A m \in Nodes : m # n => count'[m] = count[m]
    BY <1>4, <2>1 DEF dsc_op_stop
  <2>6. QED
    BY ZenonT(40), <2>1, <2>3, <2>4, <2>5 DEF OpsCounted
<1>5. ASSUME NEW n \in Nodes, dsc_create(n) \/ dsc_destroy(n) PROVE OpsCounted'
  BY <1>1, <1>5 DEF dsc_create, dsc_destroy, threadVars
<1>6. ASSUME NEW t \in Threads, NEW n \in Nodes, dsc_trans_start(t, n) \/ dsc_trans_queue(t, n)
      PROVE  OpsCounted'
  BY <1>1, <1>6 DEF dsc_trans_start, dsc_trans_queue
<1>7. ASSUME NEW t \in Threads, NEW n \in Nodes, dsc_ops_skip(t, n) \/ dsc_ops_block(t, n)
      PROVE  OpsCounted'
  BY <1>1, <1>7 DEF dsc_ops_skip, dsc_ops_block, treeVars
<1>8. ASSUME NEW t \in Threads, dsc_tran_wait(t) PROVE OpsCounted'
  BY <1>1, <1>8 DEF dsc_tran_wait, treeVars
<1>9. ASSUME NEW t \in Threads, dsc_trans_stop(t) PROVE OpsCounted'
  BY <1>1, <1>9 DEF dsc_trans_stop
<1>10. ASSUME NEW t \in Threads,
              dsc_wait_for_ops(t) \/ UptreeWait(t) \/ dsc_ops_wake(t)
       PROVE  OpsCounted'
  BY <1>1, <1>10 DEF dsc_wait_for_ops, UptreeWait, dsc_vdev_wait_for_uptree_ops, dsc_ops_wake, treeVars
<1>11. CASE SetRecovering \/ SetUnloading \/ UNCHANGED vars
  BY <1>1, <1>11 DEF SetRecovering, SetUnloading, vars, treeVars, threadVars
<1>12. QED
  BY <1>3, <1>4, <1>5, <1>6, <1>7, <1>8, <1>9, <1>10, <1>11 DEF DscStep, AnyStep

\* WaitLink for one thread.
WaitLinkOf(t) ==
  /\ pc[t] \notin {"held", "block"} => todo[t] = {} /\ drained[t] = {}
  /\ \A m \in todo[t] \cup drained[t] : Related(m, at[t])
  /\ \A m \in drained[t] : count[m] = 0
  /\ pc[t] = "block" => cur[t] \in todo[t] /\ (done[cur[t]] > 0 => count[cur[t]] = 0)

LEMMA WaitLinkNext ==
  SafetyInv /\ OpsCounted /\ WaitLink /\ [Next]_vars => WaitLink'
<1> SUFFICES ASSUME SafetyInv, OpsCounted, WaitLink, [Next]_vars, NEW u \in Threads
             PROVE  WaitLinkOf(u)'
  BY DEF WaitLink, WaitLinkOf
<1> USE TreeFacts DEF SafetyInv, TypeOK, PcLink
<1>0. WaitLinkOf(u)
  BY DEF WaitLink, WaitLinkOf
\* What u visits or relies on stays untouched by a step that only moves t.
<1>1. ASSUME NEW n \in Nodes, dsc_create(n) PROVE WaitLinkOf(u)'
  BY <1>0, <1>1 DEF WaitLinkOf, dsc_create, threadVars
<1>2. ASSUME NEW n \in Nodes, dsc_destroy(n) PROVE WaitLinkOf(u)'
  BY <1>0, <1>2 DEF WaitLinkOf, dsc_destroy
<1>3. ASSUME NEW t \in Threads, NEW n \in Nodes, dsc_trans_start(t, n) PROVE WaitLinkOf(u)'
  BY <1>0, <1>3 DEF WaitLinkOf, dsc_trans_start
<1>4. ASSUME NEW t \in Threads, NEW n \in Nodes, dsc_trans_queue(t, n) PROVE WaitLinkOf(u)'
  BY <1>0, <1>4 DEF WaitLinkOf, dsc_trans_queue
<1>5. ASSUME NEW t \in Threads, NEW n \in Nodes, dsc_op_start(t, n) PROVE WaitLinkOf(u)'
  <2>1. \A m \in Nodes : Related(m, n) => active[m] = NULL
    BY <1>5, CanTransMeansFree DEF dsc_op_start
  <2>2. ASSUME n \in todo[u] \cup drained[u] PROVE FALSE
    <3>1. at[u] \in Nodes /\ active[at[u]] = u
      BY <2>2, WaiterOwns
    <3>2. Related(at[u], n)
      BY <1>0, <2>2, <3>1 DEF WaitLinkOf
    <3>3. QED
      BY <2>1, <3>1, <3>2
  <2>3. \A m \in Nodes : m # n => count'[m] = count[m]
    BY <1>5 DEF dsc_op_start
  <2>4. u = t => todo[u] = {} /\ drained[u] = {}
    BY <1>0, <1>5 DEF WaitLinkOf, dsc_op_start
  <2>5. QED
    BY <1>0, <1>5, <2>2, <2>3, <2>4 DEF WaitLinkOf, dsc_op_start
<1>6. ASSUME NEW t \in Threads, NEW n \in Nodes, dsc_ops_skip(t, n) PROVE WaitLinkOf(u)'
  BY <1>0, <1>6 DEF WaitLinkOf, dsc_ops_skip, NextToVisit, treeVars
<1>7. ASSUME NEW t \in Threads, NEW n \in Nodes, dsc_ops_block(t, n) PROVE WaitLinkOf(u)'
  BY <1>0, <1>7 DEF WaitLinkOf, dsc_ops_block, NextToVisit
<1>8. ASSUME NEW t \in Threads, dsc_tran_wait(t) PROVE WaitLinkOf(u)'
  BY <1>0, <1>8 DEF WaitLinkOf, dsc_tran_wait, treeVars
<1>9. ASSUME NEW t \in Threads, dsc_trans_stop(t) PROVE WaitLinkOf(u)'
  BY <1>0, <1>9 DEF WaitLinkOf, dsc_trans_stop
<1>10. ASSUME NEW t \in Threads, dsc_op_stop(t) PROVE WaitLinkOf(u)'
  <2>1. PICK n \in Nodes : n = at[t] /\ count[n] > 0
    BY <1>10, OpIsCounted DEF dsc_op_stop
  <2>2. /\ count' = [count EXCEPT ![n] = count[n] - 1]
        /\ done' = [done EXCEPT ![n] = IF count[n] = 1 THEN complete(done[n]) ELSE done[n]]
        /\ pc' = [pc EXCEPT ![t] = "idle"] /\ at' = [at EXCEPT ![t] = NULL]
        /\ pc[t] = "op" /\ UNCHANGED <<todo, cur, drained>>
    BY <1>10, <2>1 DEF dsc_op_stop
  <2>3. n \notin drained[u]
    BY <1>0, <2>1 DEF WaitLinkOf
  <2>4. pc[u] = "block" /\ done'[cur[u]] > 0 => count'[cur[u]] = 0
    BY <1>0, <2>1, <2>2 DEF WaitLinkOf
  <2>5. QED
    BY <1>0, <2>2, <2>3, <2>4 DEF WaitLinkOf
<1>11. ASSUME NEW t \in Threads, dsc_wait_for_ops(t) PROVE WaitLinkOf(u)'
  BY <1>0, <1>11 DEF WaitLinkOf, dsc_wait_for_ops, treeVars, Related
<1>12. ASSUME NEW t \in Threads, UptreeWait(t) PROVE WaitLinkOf(u)'
  BY <1>0, <1>12 DEF WaitLinkOf, UptreeWait, dsc_vdev_wait_for_uptree_ops, treeVars, Related
<1>13. ASSUME NEW t \in Threads, dsc_ops_wake(t) PROVE WaitLinkOf(u)'
  <2>1. PICK m \in Nodes : m = cur[t] /\ m \in todo[t] /\ count[m] = 0 /\ Related(m, at[t])
    BY <1>13 DEF dsc_ops_wake, WaitLink
  <2>2. \A k \in Nodes : done'[k] > 0 => done[k] > 0
    BY <1>13, <2>1 DEF dsc_ops_wake
  <2>3. QED
    BY <1>0, <1>13, <2>1, <2>2 DEF WaitLinkOf, dsc_ops_wake
<1>14. ASSUME SetRecovering \/ SetUnloading \/ UNCHANGED vars PROVE WaitLinkOf(u)'
  BY <1>0, <1>14 DEF WaitLinkOf, SetRecovering, SetUnloading, vars, treeVars, threadVars
<1>15. QED
  BY <1>1, <1>2, <1>3, <1>4, <1>5, <1>6, <1>7, <1>8, <1>9, <1>10, <1>11, <1>12, <1>13, <1>14, NextSteps
     DEF AnyStep

\* Only one thread at a time waits on a node of its own subtree, so the one
\* wake-up that complete() provides is its own.
LEMMA NotStrandedNext ==
  SafetyInv /\ WaitInv /\ [Next]_vars => DownWaiterNotStranded'
<1> DEFINE Due(u) == pc[u] = "block" /\ cur[u] \notin Uptree(at[u])
                       => count[cur[u]] > 0 \/ done[cur[u]] > 0
<1> SUFFICES ASSUME SafetyInv, WaitInv, [Next]_vars, NEW u \in Threads
             PROVE  Due(u)'
  BY DEF DownWaiterNotStranded
<1> USE TreeFacts DEF SafetyInv, TypeOK, PcLink, WaitInv
<1>0. Due(u)
  BY DEF DownWaiterNotStranded
<1>1. ASSUME NEW n \in Nodes, dsc_create(n) PROVE Due(u)'
  BY <1>0, <1>1 DEF dsc_create, threadVars
<1>2. ASSUME NEW n \in Nodes, dsc_destroy(n) PROVE Due(u)'
  <2>1. pc[u] = "block" => cur[u] # n
    BY <1>2 DEF dsc_destroy, Quiescent, WaitLink
  <2>2. QED
    BY <1>0, <1>2, <2>1 DEF dsc_destroy
<1>3. ASSUME NEW t \in Threads, NEW n \in Nodes,
             dsc_trans_start(t, n) \/ dsc_trans_queue(t, n) \/ dsc_op_start(t, n)
      PROVE  Due(u)'
  BY <1>0, <1>3 DEF dsc_trans_start, dsc_trans_queue, dsc_op_start
<1>4. ASSUME NEW t \in Threads, NEW n \in Nodes, dsc_ops_skip(t, n) PROVE Due(u)'
  BY <1>0, <1>4 DEF dsc_ops_skip, treeVars
<1>5. ASSUME NEW t \in Threads, NEW n \in Nodes, dsc_ops_block(t, n) PROVE Due(u)'
  BY <1>0, <1>5 DEF dsc_ops_block
<1>6. ASSUME NEW t \in Threads, dsc_tran_wait(t) PROVE Due(u)'
  BY <1>0, <1>6 DEF dsc_tran_wait, treeVars
<1>7. ASSUME NEW t \in Threads, dsc_trans_stop(t) PROVE Due(u)'
  BY <1>0, <1>7 DEF dsc_trans_stop
<1>8. ASSUME NEW t \in Threads, dsc_op_stop(t) PROVE Due(u)'
  <2>1. PICK n \in Nodes : n = at[t] /\ count[n] > 0
    BY <1>8, OpIsCounted DEF dsc_op_stop
  <2>2. count'[n] > 0 \/ done'[n] > 0
    BY <1>8, <2>1, DscAssumption DEF DscAssumption, dsc_op_stop, complete
  <2>3. \A m \in Nodes : m # n => count'[m] = count[m] /\ done'[m] = done[m]
    BY <1>8, <2>1 DEF dsc_op_stop
  <2>4. QED
    BY <1>0, <1>8, <2>2, <2>3 DEF dsc_op_stop
<1>9. ASSUME NEW t \in Threads, dsc_wait_for_ops(t) \/ UptreeWait(t)
      PROVE  Due(u)'
  BY <1>0, <1>9 DEF dsc_wait_for_ops, UptreeWait, dsc_vdev_wait_for_uptree_ops, treeVars
<1>10. ASSUME NEW t \in Threads, dsc_ops_wake(t) PROVE Due(u)'
  <2>1. PICK m \in Nodes : m = cur[t] /\ m \in todo[t] /\ Related(m, at[t])
    BY <1>10 DEF dsc_ops_wake, WaitLink
  <2>2. ASSUME u # t, pc[u] = "block", cur[u] \notin Uptree(at[u]), cur[u] = m PROVE FALSE
    <3>1. m \in todo[u] /\ Related(m, at[u])
      BY <2>2 DEF WaitLink
    <3>2. at[t] \in Nodes /\ active[at[t]] = t /\ at[u] \in Nodes /\ active[at[u]] = u
      BY <2>1, <3>1, WaiterOwns
    <3>3. Related(at[t], at[u])
      BY <2>1, <2>2, <3>1, <3>2, BranchThrough
    <3>4. active[at[t]] # NULL /\ active[at[u]] # NULL
      BY <3>2
    <3>5. at[t] = at[u]
      BY <3>2, <3>3, <3>4 DEF BranchExclusion
    <3>6. QED
      BY <2>2, <3>2, <3>5
  <2>3. \A k \in Nodes : k # m => done'[k] = done[k]
    BY <1>10, <2>1 DEF dsc_ops_wake
  <2>4. QED
    BY <1>0, <1>10, <2>1, <2>2, <2>3 DEF dsc_ops_wake
<1>11. ASSUME SetRecovering \/ SetUnloading \/ UNCHANGED vars PROVE Due(u)'
  BY <1>0, <1>11 DEF SetRecovering, SetUnloading, vars, treeVars, threadVars
<1> HIDE DEF Due
<1>12. QED
  BY <1>1, <1>2, <1>3, <1>4, <1>5, <1>6, <1>7, <1>8, <1>9, <1>10, <1>11, NextSteps DEF AnyStep

-----------------------------------------------------------------------------
(***************************************************************************)
(* The theorems.                                                           *)
(***************************************************************************)
LEMMA WaitInit == Init => WaitInv
<1> SUFFICES ASSUME Init PROVE WaitInv
  OBVIOUS
<1>1. \A n \in Nodes : OpsOn(n) = {}
  BY DEF Init, OpsOn
<1>2. OpsCounted
  BY <1>1, FS_EmptySet DEF Init, OpsCounted
<1>3. WaitLink /\ DownWaiterNotStranded
  BY DEF Init, WaitLink, DownWaiterNotStranded
<1>4. QED
  BY <1>2, <1>3 DEF WaitInv

\* The invariant of the tree and its waits is inductive, so it holds always.
THEOREM Invariance == Spec => [](SafetyInv /\ WaitInv)
<1>1. Init => SafetyInv /\ WaitInv
  BY SafetyInit, WaitInit
<1>2. SafetyInv /\ WaitInv /\ [Next]_vars => (SafetyInv /\ WaitInv)'
  <2>1. SafetyInv /\ OpsCounted /\ [Next]_vars => OpsCounted'
    BY OpsCountedNext, NextSteps DEF SafetyInv, DscStep
  <2>2. QED
    BY <2>1, SafetyNext, WaitLinkNext, NotStrandedNext DEF WaitInv
<1>3. QED
  BY <1>1, <1>2, PTL DEF Spec

\* Type correctness of the DSC tree and of its callers' states.
THEOREM TypeCorrect == Spec => []TypeOK
<1>1. SafetyInv => TypeOK
  BY DEF SafetyInv
<1>2. QED
  BY <1>1, Invariance, PTL

\* Transitions exclude one another along every branch of every tree: the
\* mutual exclusion wlan_dsc.h promises of dsc_{driver,psoc,vdev}_trans_start.
THEOREM MutualExclusion == Spec => []HolderExclusion
<1>1. SafetyInv => HolderExclusion
  BY TreeFacts DEF SafetyInv, OwnerLink, BranchExclusion, HolderExclusion
<1>2. QED
  BY <1>1, Invariance, PTL

\* No trigger is lost: whoever waits in dsc_*_trans_start_wait has someone on
\* its branch whose stop will serve it.
THEOREM TriggersNotLost == Spec => []NoLostTrigger
<1>1. SafetyInv => NoLostTrigger
  BY DEF SafetyInv
<1>2. QED
  BY <1>1, Invariance, PTL

\* What dsc_*_wait_for_ops reports drained stays drained for its caller.
THEOREM DrainIsFinal == Spec => []DrainedQuiet
<1>1. SafetyInv /\ WaitInv => DrainedQuiet
  <2> SUFFICES ASSUME SafetyInv, WaitInv, NEW t \in Threads, NEW u \in Threads,
                      pc[u] = "op", at[u] \in drained[t]
               PROVE  FALSE
    BY DEF DrainedQuiet
  <2>1. at[u] \in Nodes /\ count[at[u]] = 0
    BY DEF SafetyInv, TypeOK, PcLink, WaitInv, WaitLink
  <2>2. QED
    BY <2>1, OpIsCounted DEF SafetyInv, WaitInv
<1>2. QED
  BY <1>1, Invariance, PTL

\* A holder asleep in dsc_*_wait_for_ops on its own subtree is due a wake-up.
THEOREM DownWaitersWoken == Spec => []DownWaiterNotStranded
<1>1. WaitInv => DownWaiterNotStranded
  BY DEF WaitInv
<1>2. QED
  BY <1>1, Invariance, PTL

\* Waiters are served in order: no transition begins past a waiter above it or
\* ahead of it, by any of the start and trigger paths.
THEOREM ServedInOrder == Spec => NoOvertaking
<1>1. SafetyInv /\ [Next]_vars => [GrantInOrder]_vars
  <2> SUFFICES ASSUME SafetyInv, Next PROVE GrantInOrder
    BY DEF GrantInOrder
  <2> USE TreeFacts
  <2>1. ASSUME NEW t \in Threads, NEW n \in Nodes, dsc_trans_start(t, n) PROVE GrantInOrder
    <3>1. /\ \A m \in Nodes : Related(m, n) => active[m] = NULL
          /\ queue[n] = <<>> /\ \A m \in Uptree(n) : queue[m] = <<>>
      BY <2>1, CanTransMeansFree DEF dsc_trans_start
    <3>2. \A m \in Nodes : active'[m] = IF m = n THEN t ELSE active[m]
      BY <2>1 DEF dsc_trans_start, SafetyInv, TypeOK
    <3>3. n \notin Uptree(n) /\ n \notin DownTree(n)
      BY DscAssumption DEF DscAssumption, Uptree, DownTree, VdevsOf, Nodes
    <3>4. QED
      BY <3>1, <3>2, <3>3 DEF GrantInOrder, Related
  <2>2. ASSUME NEW t \in Threads, dsc_trans_stop(t) PROVE GrantInOrder
    <3> SUFFICES ASSUME NEW n \in Nodes, active'[n] \notin {active[n], NULL}
                 PROVE  /\ \A m \in Uptree(n) : queue[m] = <<>> /\ active'[m] = NULL
                        /\ \A m \in DownTree(n) : active'[m] = NULL
                        /\ queue[n] # <<>> => active'[n] = Head(queue[n])
      BY DEF GrantInOrder
    <3>1. \A m \in Nodes : active'[m] = IF m \in Triggered(t) THEN Head(queue[m]) ELSE Cleared(t)[m]
      BY <2>2 DEF dsc_trans_stop, Triggered, Cleared
    <3>2. \A m \in Nodes : Cleared(t)[m] \in {active[m], NULL}
      BY <2>2, StopOwns DEF Cleared, SafetyInv, TypeOK
    <3>3. n \in Triggered(t)
      BY <3>1, <3>2
    <3>4. \A m \in Nodes : Related(m, n) /\ m # n => active'[m] = NULL
      BY <2>2, <3>1, <3>3, TriggerSound
    <3>5. n \notin Uptree(n) /\ n \notin DownTree(n)
      BY DscAssumption DEF DscAssumption, Uptree, DownTree, VdevsOf, Nodes
    <3>6. \A m \in Uptree(n) \cup DownTree(n) : active'[m] = NULL
      BY <3>4, <3>5 DEF Related
    <3>7. QED
      BY <2>2, <3>1, <3>3, <3>6, TriggerSound
  <2>3. ASSUME active' = active PROVE GrantInOrder
    BY <2>3 DEF GrantInOrder
  <2>4. QED
    BY <2>1, <2>2, <2>3, NextSteps
       DEF AnyStep, dsc_create, dsc_destroy, dsc_trans_queue, dsc_tran_wait, dsc_op_start,
           dsc_op_stop, dsc_ops_skip, dsc_ops_block, dsc_ops_wake, dsc_wait_for_ops,
           UptreeWait, dsc_vdev_wait_for_uptree_ops, SetRecovering, SetUnloading, treeVars
<1>2. QED
  BY <1>1, Invariance, PTL DEF Spec, NoOvertaking

\* Operations are admitted only on a branch without transitions and without
\* waiters, above and below, although the checks never read a down-tree queue.
THEOREM OpsOnFreeBranches == Spec => NoOpUnderTransition
<1>1. SafetyInv /\ OpsCounted /\ [Next]_vars => [AdmitOnFreeBranch]_vars
  <2> SUFFICES ASSUME SafetyInv, OpsCounted, Next PROVE AdmitOnFreeBranch
    BY DEF AdmitOnFreeBranch
  <2>1. ASSUME NEW t \in Threads, NEW n \in Nodes, dsc_op_start(t, n) PROVE AdmitOnFreeBranch
    <3>1. /\ \A m \in Nodes : Related(m, n) => active[m] = NULL
          /\ queue[n] = <<>> /\ \A m \in Uptree(n) : queue[m] = <<>>
      BY <2>1, CanTransMeansFree DEF dsc_op_start
    <3>2. \A m \in DownTree(n) : queue[m] = <<>>
      BY <3>1, DscAssumption
         DEF DscAssumption, SafetyInv, NoLostTrigger, dsc_trans_active_or_queued,
             dsc_trans_active, dsc_trans_queued, Related, Uptree, DownTree, VdevsOf, Nodes
    <3>3. \A m \in Nodes : m # n => count'[m] = count[m]
      BY <2>1 DEF dsc_op_start, SafetyInv, TypeOK
    <3>4. \A m \in Nodes : count[m] \in Nat
      BY DEF SafetyInv, TypeOK
    <3>5. QED
      BY <3>1, <3>2, <3>3, <3>4 DEF AdmitOnFreeBranch, Related
  <2>2. ASSUME NEW t \in Threads, dsc_op_stop(t) PROVE AdmitOnFreeBranch
    <3>1. \A m \in Nodes : count[m] \in Nat /\ ~(count'[m] > count[m])
      BY <2>2 DEF dsc_op_stop, SafetyInv, TypeOK
    <3>2. QED
      BY <3>1 DEF AdmitOnFreeBranch
  <2>3. ASSUME count' = count PROVE AdmitOnFreeBranch
    BY <2>3 DEF AdmitOnFreeBranch, SafetyInv, TypeOK
  <2>4. QED
    BY ZenonT(40), <2>1, <2>2, <2>3, NextSteps
       DEF AnyStep, dsc_create, dsc_destroy, dsc_trans_start, dsc_trans_queue, dsc_tran_wait,
           dsc_trans_stop, dsc_ops_skip, dsc_ops_block, dsc_ops_wake, dsc_wait_for_ops,
           UptreeWait, dsc_vdev_wait_for_uptree_ops, SetRecovering, SetUnloading, treeVars
<1>2. QED
  BY <1>1, Invariance, PTL DEF Spec, NoOpUnderTransition, WaitInv
=============================================================================
