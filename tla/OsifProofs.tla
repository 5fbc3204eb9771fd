----------------------------- MODULE OsifProofs -----------------------------
(***************************************************************************)
(* Proofs of the safety properties of OsifSync, for every tree and any     *)
(* number of threads, whatever flows run.                                  *)
(*                                                                         *)
(* Not all of Dsc's invariant survives here: an interface may be freed     *)
(* with a waiter or a holder on it (HolderNodeLives fails), so what the    *)
(* tree excludes is said of the nodes that exist.                          *)
(***************************************************************************)
EXTENDS OsifSync, DscProofs

\* BranchExclusion, of the nodes that exist.
LiveExclusion ==
  \A m, n \in attached : active[m] # NULL /\ active[n] # NULL /\ Related(m, n) => m = n

TreeInv == TypeOK /\ PcLink /\ OwnerLink /\ QueueLink /\ OpsCounted /\ LiveExclusion

\* Where a thread is in DSC follows from where it is in its flow.
FlowOf(t) ==
  \/ flow[t] = "none" /\ phase[t] = "none" /\ pc[t] = "idle"
  \/ flow[t] = "op" /\ phase[t] = "op" /\ pc[t] = "op"
  \/ flow[t] \in {"wait", "del", "mode", "ssr"} /\ phase[t] = "call" /\ pc[t] = "idle"
  \/ flow[t] = "ssr" /\ phase[t] = "refused" /\ pc[t] = "idle"
  \/ /\ flow[t] \in {"user", "wait", "del", "idle", "mode", "ssr"} /\ phase[t] = "enter"
     /\ pc[t] \in {"queued", "held", "block"}
  \/ flow[t] = "add" /\ phase[t] = "created" /\ pc[t] = "idle"
  \/ flow[t] = "add" /\ phase[t] \in {"enter", "registered"} /\ pc[t] = "held" /\ todo[t] = {}
  \/ flow[t] = "del" /\ phase[t] = "hidden" /\ pc[t] = "held" /\ todo[t] = {}
  \/ flow[t] \in {"add", "del"} /\ phase[t] \in {"stopped", "aborted"} /\ pc[t] = "idle"
  \/ /\ flow[t] = "ssr" /\ phase[t] = "shutdown" /\ pc[t] = "held" /\ todo[t] = {}
     /\ ptr[t] \in drained[t]

FlowAt(t) ==
  /\ FlowOf(t)
  /\ at[t] # NULL => at[t] = ptr[t]
  /\ flow[t] \in {"add", "del"} => ptr[t] \in Vdevs
  /\ flow[t] = "ssr" => t = Platform /\ ptr[t] \in Psocs

FlowNames == {"none", "op", "user", "wait", "add", "del", "idle", "mode", "ssr"}

Phases ==
  {"none", "op", "call", "refused", "enter", "created", "registered", "hidden", "stopped", "aborted", "shutdown"}

FlowType ==
  /\ flow \in [Threads -> FlowNames]
  /\ phase \in [Threads -> Phases]
  /\ ptr \in [Threads -> Nodes \cup {NULL}]
  /\ cursor \in [Threads -> Nodes \cup {NULL}]

FlowLink == FlowType /\ \A t \in Threads : FlowAt(t)

Changes(t) == flow[t] \in {"add", "del"}

\* The interface a thread works on is not, or not any more, to be found.
Hidden(t) ==
  \/ phase[t] \in {"hidden", "stopped", "aborted"}
  \/ flow[t] = "add" /\ phase[t] \in {"created", "enter"}

NodeAt(t) ==
  /\ at[t] # NULL => at[t] \in attached \cup freed
  /\ pc[t] = "op" => Found(at[t])
  /\ Changes(t) => ptr[t] \in attached
  /\ Hidden(t) => ptr[t] \notin registered

\* Which nodes exist, which of them are found, and one change at a time.
NodeLink ==
  /\ {Driver} \cup Psocs \subseteq attached
  /\ registered \subseteq attached \cap Vdevs
  /\ attached \cap freed = {}
  /\ \A t, u \in Threads : Changes(t) /\ Changes(u) => t = u
  /\ \A t \in Threads : NodeAt(t)

\* The node a transition is on, and what exists below it.
Below(n) == ({n} \cup DownTree(n)) \cap attached

\* What a holder of a node that exists has waited for is drained; what it has
\* not, it has still to visit.
DrainOf(t) ==
  /\ at[t] \in drained[t] \/ todo[t] # {} => \A m \in Below(at[t]) : m \in todo[t] \/ count[m] = 0
  /\ pc[t] = "block" =>
       /\ cur[t] \in todo[t]
       /\ cur[t] \notin Uptree(at[t]) => (done[cur[t]] > 0 => count[cur[t]] = 0)

DrainAt(t) ==
  /\ pc[t] \notin {"held", "block"} => todo[t] = {} /\ drained[t] = {}
  /\ \A m \in todo[t] : Related(m, at[t])
  /\ at[t] \in attached => DrainOf(t)

DrainLink == \A t \in Threads : DrainAt(t)

\* A thread asleep on a node of its list traversal keeps its cursor there.
CursorLink ==
  \A t \in Threads : pc[t] = "block" /\ cur[t] \in DownTree(at[t]) => cursor[t] = cur[t]

OsifInv == TreeInv /\ FlowLink /\ NodeLink /\ DrainLink /\ CursorLink
-----------------------------------------------------------------------------
(***************************************************************************)
(* The DSC calls of OsifSync, of which two, the halves of                  *)
(* dsc_vdev_destroy, are its own.                                          *)
(***************************************************************************)
CallStep ==
  \/ \E v \in Vdevs \ freed : dsc_create(v)
  \/ \E t \in Threads, n \in Nodes :
       \/ dsc_trans_start(t, n) \/ dsc_trans_queue(t, n) \/ dsc_op_start(t, n)
       \/ dsc_ops_skip(t, n) \/ dsc_ops_block(t, n)
  \/ \E t \in Threads :
       \/ dsc_tran_wait(t) \/ dsc_op_stop(t)
       \/ at[t] \in attached /\ dsc_trans_stop(t)
       \/ dsc_wait_for_ops(t) \/ dsc_ops_wake(t)
       \/ at[t] \in drained[t] /\ UptreeWait(t)
  \/ SetRecovering
  \/ UNCHANGED vars

LEMMA CallIsDscStep == CallStep => DscStep
BY DEF CallStep, DscStep, AnyStep, Nodes

\* The stop of a recovery that was refused its transition leaves DSC alone if
\* it finds nothing to stop and nobody to trigger.
LEMMA UnheldIdle ==
  ASSUME OsifInv, NEW t \in Threads, recovery_trans_stop_unheld(t), ~usurped'
  PROVE  UNCHANGED vars
<1> DEFINE n    == ptr[t]
           act  == [active EXCEPT ![n] = NULL]
           trig == dsc_psoc_trigger_trans(act, n)
<1>1. active[n] = NULL /\ trig = {}
  BY DEF recovery_trans_stop_unheld
<1>2. active \in [Nodes -> Threads \cup {NULL}] /\ queue \in [Nodes -> Seq(Threads)]
      /\ tran \in [Threads -> {"none", "pending", "granted", "aborted"}]
  BY DEF OsifInv, TreeInv, TypeOK
<1>3. act = active
  BY <1>1, <1>2
<1> HIDE DEF act, trig
<1>4. /\ active' = [m \in Nodes |-> IF m \in trig THEN Head(queue[m]) ELSE act[m]]
      /\ queue' = [m \in Nodes |-> IF m \in trig THEN Tail(queue[m]) ELSE queue[m]]
      /\ tran' = [u \in Threads |-> IF \E m \in trig : Head(queue[m]) = u THEN "granted" ELSE tran[u]]
      /\ UNCHANGED <<attached, count, done, pc, at, todo, cur, drained, flagVars>>
  BY DEF recovery_trans_stop_unheld, act, trig
<1>5. active' = active /\ queue' = queue /\ tran' = tran
  BY <1>1, <1>2, <1>3, <1>4
<1> QED BY <1>4, <1>5 DEF vars, treeVars, threadVars

\* Every step of OsifNext is such a call; a transition that is stopped is on a
\* node that exists.
LEMMA OsifSteps ==
  OsifInv /\ [OsifNext]_allVars /\ ~usurped'
    => CallStep \/ \E t \in Threads : dsc_vdev_destroy_abort(t) \/ dsc_vdev_destroy_detach(t)
<1> DEFINE Goal == CallStep \/ \E t \in Threads : dsc_vdev_destroy_abort(t) \/ dsc_vdev_destroy_detach(t)
<1> SUFFICES ASSUME OsifInv, [OsifNext]_allVars, ~usurped' PROVE Goal
  OBVIOUS
<1>1. ASSUME NEW t \in Threads, dsc_trans_stop(t), ptr[t] \in attached PROVE CallStep
  <2>1. at[t] = ptr[t]
    BY <1>1 DEF dsc_trans_stop, OsifInv, FlowLink, FlowAt, TreeInv, PcLink
  <2>2. QED
    BY <1>1, <2>1 DEF CallStep
<1>2. ASSUME NEW t \in Threads, BeginFlow(t) PROVE CallStep
  BY <1>2 DEF BeginFlow, osif_sync_op_start, osif_sync_trans_start, osif_sync_lookup,
              osif_vdev_sync_create, dsc_vdev_create, CallStep
<1>3. ASSUME NEW t \in Threads, Continue(t) PROVE Goal
  <2> USE DEF CallStep
  <2>1. CASE osif_sync_op_stop(t) \/ osif_sync_start_refused(t) \/ osif_sync_tran_wait(t)
    BY <2>1 DEF osif_sync_op_stop, osif_sync_start_refused, osif_sync_tran_wait
  <2>2. CASE osif_sync_start_wait_callback(t)
    BY <2>2 DEF osif_sync_start_wait_callback, Alive, OsifInv, TreeInv, TypeOK
  <2>3. CASE osif_sync_wait_for_ops(t)
    BY <2>3 DEF osif_sync_wait_for_ops, UptreeWait
  <2>4. CASE \E m \in Nodes : dsc_for_each_load(t, m) \/ dsc_for_each_visit(t, m)
    BY <2>4 DEF dsc_for_each_load, dsc_for_each_visit
  <2>5. CASE dsc_for_each_wake(t)
    BY <2>5 DEF dsc_for_each_wake
  <2>6. CASE osif_sync_trans_stop(t)
    BY <1>1, <2>6 DEF osif_sync_trans_stop, Ready, Alive
  <2>7. CASE add_trans_start(t)
    BY <2>7 DEF add_trans_start, dsc_trans_start, OsifInv, TreeInv, TypeOK
  <2>8. CASE add_trans_stop(t)
    BY <1>1, <2>8 DEF add_trans_stop, OsifInv, NodeLink, NodeAt, Changes
  <2>9. CASE del_trans_stop(t)
    BY <1>1, <2>9 DEF del_trans_stop, Alive
  <2>10. CASE osif_vdev_sync_register(t) \/ osif_vdev_sync_unregister(t) \/ hdd_soc_recovery_shutdown(t)
    BY <2>10 DEF osif_vdev_sync_register, osif_vdev_sync_unregister, hdd_soc_recovery_shutdown
  <2>11. CASE recovery_trans_stop(t)
    BY <1>1, <2>11 DEF recovery_trans_stop, OsifInv, NodeLink, FlowLink, FlowAt
  <2>12. CASE recovery_trans_stop_unheld(t)
    BY <2>12, UnheldIdle
  <2>13. QED
    BY <1>3, <2>1, <2>2, <2>3, <2>4, <2>5, <2>6, <2>7, <2>8, <2>9, <2>10, <2>11, <2>12 DEF Continue
<1>4. ASSUME hdd_fw_down \/ ReinitStep \/ UNCHANGED allVars PROVE CallStep
  BY <1>4 DEF hdd_fw_down, ReinitStep, hdd_soc_recovery_reinit, reinit_test, reinit_clear, allVars,
              CallStep, SetRecovering, vars, treeVars, threadVars, flagVars, OsifInv, TreeInv, TypeOK
<1>5. QED
  BY <1>2, <1>3, <1>4 DEF OsifNext

-----------------------------------------------------------------------------
(***************************************************************************)
(* The tree.                                                               *)
(***************************************************************************)
\* A start that succeeds finds the nodes of its branch that exist free.
LEMMA LiveCanTrans ==
  ASSUME TypeOK, {Driver} \cup Psocs \subseteq attached,
         NEW n \in attached, dsc_can_trans(n) = "SUCCESS"
  PROVE  \A m \in attached : Related(m, n) => active[m] = NULL
<1>1. n \in Nodes /\ attached \subseteq Nodes
  BY DEF TypeOK
<1>2. CASE n = Driver
  BY <1>1, <1>2, DscAssumption
     DEF DscAssumption, dsc_can_trans, dsc_driver_can_trans, dsc_trans_active_or_queued,
         dsc_trans_active, dsc_trans_queued, dsc_driver_trans_active_down_tree, Related,
         Uptree, DownTree, Nodes
<1>3. CASE n \in Psocs
  BY <1>1, <1>3, DscAssumption
     DEF DscAssumption, dsc_can_trans, dsc_psoc_can_trans, dsc_trans_active_or_queued,
         dsc_trans_active, dsc_trans_queued, dsc_psoc_trans_active_down_tree, Related,
         Uptree, DownTree, VdevsOf, Nodes
<1>4. CASE n \in Vdevs
  BY <1>1, <1>4, DscAssumption
     DEF DscAssumption, dsc_can_trans, dsc_vdev_can_trans, dsc_trans_active_or_queued,
         dsc_trans_active, dsc_trans_queued, Related, Uptree, DownTree, VdevsOf, Nodes
<1>5. QED
  BY <1>1, <1>2, <1>3, <1>4 DEF Nodes

\* TriggerSound, of the nodes that exist: a stop triggers no other.
LEMMA LiveTrigger ==
  ASSUME TreeInv, {Driver} \cup Psocs \subseteq attached,
         NEW t \in Threads, dsc_trans_stop(t), at[t] \in attached
  PROVE  /\ active[at[t]] = t
         /\ Cleared(t) \in [Nodes -> Threads \cup {NULL}]
         /\ \A m \in Triggered(t) :
              /\ m \in attached /\ queue[m] # <<>>
              /\ \A k \in attached : Related(k, m) => Cleared(t)[k] = NULL
              /\ \A k \in Triggered(t) : Related(k, m) => k = m
<1> DEFINE n == at[t]
           act == Cleared(t)
<1>1. n \in Nodes /\ attached \subseteq Nodes
  BY DEF TreeInv, TypeOK
<1>2. active[n] = t
  BY <1>1 DEF dsc_trans_stop, TreeInv, OwnerLink, Holds
<1>3. act \in [Nodes -> Threads \cup {NULL}]
  BY <1>1 DEF TreeInv, TypeOK, Cleared
<1>4. \A m \in attached : Related(m, n) => act[m] = NULL
  <2> SUFFICES ASSUME NEW m \in attached, Related(m, n) PROVE act[m] = NULL
    OBVIOUS
  <2>1. CASE m = n
    BY <1>1, <2>1 DEF TreeInv, TypeOK, Cleared
  <2>2. CASE m # n
    <3>1. active[m] = NULL
      BY <1>1, <1>2, <2>2, DscAssumption DEF DscAssumption, TreeInv, LiveExclusion
    <3>2. QED
      BY <1>1, <2>2, <3>1 DEF TreeInv, TypeOK, Cleared
  <2>3. QED
    BY <2>1, <2>2
<1>5. \A m \in Triggered(t) : queue[m] # <<>>
  BY <1>1, TriggeredHaveWaiters DEF TreeInv, Triggered
<1> HIDE DEF act
<1>6. CASE n = Driver
  <2>1. Triggered(t) = dsc_driver_trigger_trans
    BY <1>6 DEF Triggered, dsc_trigger_trans
  <2>2. \A m \in Nodes : Related(m, Driver)
    BY DscAssumption DEF DscAssumption, Related, DownTree, Nodes
  <2>3. QED
    BY <1>1, <1>2, <1>3, <1>4, <1>5, <1>6, <2>1, <2>2, DscAssumption
       DEF DscAssumption, dsc_driver_trigger_trans, dsc_trans_queued, Related, Uptree,
           DownTree, VdevsOf, Nodes, act
<1>7. CASE n \in Psocs
  <2>1. Triggered(t) = dsc_psoc_trigger_trans(act, n)
    BY <1>7, DscAssumption DEF DscAssumption, Triggered, dsc_trigger_trans, act
  <2>2. QED
    BY <1>1, <1>2, <1>3, <1>4, <1>5, <1>7, <2>1, DscAssumption
       DEF DscAssumption, dsc_psoc_trigger_trans, dsc_driver_trans_trigger_checked,
           dsc_driver_can_trigger, dsc_driver_trans_active_down_tree, dsc_trans_active,
           dsc_trans_queued, Related, Uptree, DownTree, VdevsOf, Nodes, act
<1>8. CASE n \in Vdevs
  <2>1. Triggered(t) = dsc_vdev_trigger_trans(act, n)
    BY <1>8, DscAssumption DEF DscAssumption, Triggered, dsc_trigger_trans, act
  <2>2. QED
    BY <1>1, <1>2, <1>3, <1>4, <1>5, <1>8, <2>1, DscAssumption
       DEF DscAssumption, dsc_vdev_trigger_trans, dsc_driver_trans_trigger_checked,
           dsc_driver_can_trigger, dsc_driver_trans_active_down_tree,
           dsc_psoc_trans_trigger_checked, dsc_psoc_can_trigger,
           dsc_psoc_trans_active_down_tree, dsc_trans_active, dsc_trans_queued,
           Related, Uptree, DownTree, VdevsOf, Nodes, act
<1>9. QED
  BY <1>1, <1>6, <1>7, <1>8 DEF Nodes
\* What has to be kept of the transitions.
Kept == OwnerLink' /\ QueueLink' /\ LiveExclusion'

LEMMA AloneKept == TreeInv /\ TransitionsAlone => Kept
BY DEF TreeInv, Kept, OwnerLink, QueueLink, LiveExclusion, TransitionsAlone, TypeOK

\* Nobody holds a node that is yet to be created.
LEMMA CreateKept ==
  ASSUME TreeInv, NodeLink, NEW v \in Vdevs \ freed, dsc_create(v)
  PROVE  Kept
<1>1. v \in Nodes /\ v \notin attached
  BY DEF dsc_create, Nodes
<1>2. active[v] = NULL
  <2>1. \A t \in Threads : at[t] # v
    BY <1>1, TreeFacts DEF NodeLink, NodeAt
  <2>2. QED
    BY <1>1, <2>1 DEF TreeInv, TypeOK, OwnerLink, Holds
<1>3. attached' = attached \cup {v} /\ UNCHANGED <<active, queue, pc, at, tran>>
  BY DEF dsc_create, threadVars
<1>4. OwnerLink' /\ QueueLink'
  BY <1>3 DEF TreeInv, OwnerLink, Holds, QueueLink
<1>5. LiveExclusion'
  BY <1>2, <1>3 DEF TreeInv, LiveExclusion
<1>6. QED
  BY <1>4, <1>5 DEF Kept

LEMMA StartKept ==
  ASSUME TreeInv, NodeLink, NEW t \in Threads, NEW n \in Nodes, dsc_trans_start(t, n)
  PROVE  Kept
<1> USE TreeFacts DEF TreeInv
<1>1. /\ \A m \in attached : Related(m, n) => active[m] = NULL
      /\ n \in attached /\ active' = [active EXCEPT ![n] = t]
      /\ pc[t] = "idle" /\ pc' = [pc EXCEPT ![t] = "held"] /\ at' = [at EXCEPT ![t] = n]
      /\ UNCHANGED <<attached, queue, tran>>
  BY LiveCanTrans DEF dsc_trans_start, NodeLink
<1>2. active[n] = NULL
  BY <1>1 DEF Related
<1>3. \A m \in Nodes : active'[m] = IF m = n THEN t ELSE active[m]
  BY <1>1 DEF TypeOK
<1>4. OwnerLink'
  BY <1>1, <1>2, <1>3 DEF OwnerLink, Holds, TypeOK, PcLink
<1>5. QueueLink'
  BY <1>1 DEF QueueLink, TypeOK
<1>6. LiveExclusion'
  BY <1>1, <1>3 DEF LiveExclusion, TypeOK
<1>7. QED
  BY <1>4, <1>5, <1>6 DEF Kept

LEMMA QueueKept ==
  ASSUME TreeInv, NEW t \in Threads, NEW n \in Nodes, dsc_trans_queue(t, n)
  PROVE  Kept
<1> USE DEF TreeInv
<1>1. OwnerLink' /\ QueueLink'
  BY QueueLinks
<1>2. UNCHANGED <<attached, active>>
  BY DEF dsc_trans_queue
<1>3. LiveExclusion'
  BY <1>2 DEF LiveExclusion
<1>4. QED
  BY <1>1, <1>3 DEF Kept

LEMMA StopKept ==
  ASSUME TreeInv, NodeLink, NEW t \in Threads, dsc_trans_stop(t), at[t] \in attached
  PROVE  Kept
<1> USE DEF TreeInv
<1> DEFINE n == at[t]
           act == Cleared(t)
           trig == Triggered(t)
<1>1. /\ n \in Nodes /\ active[n] = t /\ attached \subseteq Nodes
      /\ act \in [Nodes -> Threads \cup {NULL}]
      /\ \A m \in trig :
           /\ m \in attached /\ queue[m] # <<>>
           /\ \A k \in attached : Related(k, m) => act[k] = NULL
           /\ \A k \in trig : Related(k, m) => k = m
  BY LiveTrigger DEF NodeLink, TypeOK
<1>2. OwnerLink' /\ QueueLink'
  <2>1. \A m \in trig : m \in Nodes /\ queue[m] # <<>> /\ act[m] = NULL
    BY <1>1 DEF Related
  <2>2. QED
    BY <1>1, <2>1, StopLinks
<1>3. LiveExclusion'
  <2> SUFFICES ASSUME NEW m \in attached, NEW k \in attached,
                      active'[m] # NULL, active'[k] # NULL, Related(m, k)
               PROVE  m = k
    BY DEF LiveExclusion, dsc_trans_stop
  <2>1. \A j \in Nodes : active'[j] = IF j \in trig THEN Head(queue[j]) ELSE act[j]
    BY DEF dsc_trans_stop, Triggered, Cleared
  <2>2. \A j \in Nodes : act[j] = IF j = n THEN NULL ELSE active[j]
    BY <1>1 DEF Cleared, TypeOK
  <2>3. Related(k, m)
    BY <1>1, TreeFacts
  <2> HIDE DEF n, act, trig
  <2>4. CASE m \notin trig /\ k \notin trig
    BY <1>1, <2>1, <2>2, <2>4 DEF LiveExclusion
  <2>5. CASE m \in trig \/ k \in trig
    BY <1>1, <2>1, <2>3, <2>5
  <2>6. QED
    BY <2>4, <2>5
<1>4. QED
  BY <1>2, <1>3 DEF Kept
LEMMA AbortKept ==
  ASSUME TreeInv, NEW t \in Threads, dsc_vdev_destroy_abort(t)
  PROVE  TreeInv'
<1> USE DEF TreeInv
<1> DEFINE n == ptr[t]
<1>1. /\ n \in Nodes /\ queue' = [queue EXCEPT ![n] = <<>>]
      /\ tran' = [u \in Threads |-> IF \E i \in DOMAIN queue[n] : queue[n][i] = u
                                    THEN "aborted" ELSE tran[u]]
      /\ UNCHANGED <<attached, active, count, done, pc, at, todo, cur, drained, recovering, unloading>>
  BY DEF dsc_vdev_destroy_abort, Alive, TypeOK, flagVars
<1> HIDE DEF n
<1>2. TypeOK'
  BY <1>1 DEF TypeOK
<1>3. PcLink'
  BY <1>1 DEF PcLink, QueueLink, TypeOK
<1>4. OwnerLink' /\ QueueLink'
  BY <1>1, AbortLinks
<1>5. OpsCounted' /\ LiveExclusion'
  BY <1>1 DEF OpsCounted, OpsOn, LiveExclusion
<1>6. QED
  BY <1>2, <1>3, <1>4, <1>5

LEMMA DetachKept ==
  ASSUME TreeInv, NEW t \in Threads, dsc_vdev_destroy_detach(t)
  PROVE  TreeInv'
<1> USE DEF TreeInv
<1>1. /\ attached' \subseteq attached
      /\ todo' \in [Threads -> SUBSET Nodes]
      /\ UNCHANGED <<active, queue, count, done, tran, pc, at, cur, drained, recovering, unloading>>
  BY DEF dsc_vdev_destroy_detach, TypeOK, flagVars
<1>2. TypeOK' /\ PcLink'
  BY <1>1 DEF TypeOK, PcLink
<1>3. OwnerLink' /\ QueueLink'
  BY <1>1 DEF OwnerLink, Holds, QueueLink
<1>4. OpsCounted' /\ LiveExclusion'
  BY <1>1 DEF OpsCounted, OpsOn, LiveExclusion
<1>5. QED
  BY <1>2, <1>3, <1>4

LEMMA TreeInvNext == OsifInv /\ [OsifNext]_allVars /\ ~usurped' => TreeInv'
<1> SUFFICES ASSUME OsifInv, [OsifNext]_allVars, ~usurped' PROVE TreeInv'
  OBVIOUS
<1> USE DEF OsifInv
<1>1. ASSUME CallStep PROVE TreeInv'
  <2>1. TypeOK' /\ PcLink' /\ OpsCounted'
    BY <1>1, CallIsDscStep, TypeNext, PcLinkNext, OpsCountedNext DEF TreeInv
  <2>2. ASSUME NEW v \in Vdevs \ freed, dsc_create(v) PROVE Kept
    BY <2>2, CreateKept
  <2>3. ASSUME NEW t \in Threads, NEW n \in Nodes, dsc_trans_start(t, n) \/ dsc_trans_queue(t, n)
        PROVE  Kept
    BY <2>3, StartKept, QueueKept
  <2>4. ASSUME NEW t \in Threads, at[t] \in attached, dsc_trans_stop(t) PROVE Kept
    BY <2>4, StopKept
  <2>5. ASSUME NEW t \in Threads, dsc_tran_wait(t) PROVE Kept
    BY <2>5, TranWaitAlone, AloneKept DEF TreeInv
  <2>6. ASSUME NEW t \in Threads, NEW n \in Nodes,
               \/ dsc_op_start(t, n) \/ dsc_ops_skip(t, n) \/ dsc_ops_block(t, n)
               \/ dsc_op_stop(t) \/ dsc_wait_for_ops(t) \/ UptreeWait(t) \/ dsc_ops_wake(t)
               \/ SetRecovering \/ UNCHANGED vars
        PROVE  Kept
    BY <2>6, AloneSteps, AloneKept DEF TreeInv
  <2>7. Driver \in Nodes /\ Platform \in Threads
    BY OsifAssumption DEF Nodes, OsifAssumption
  <2>8. Kept
    BY <1>1, <2>2, <2>3, <2>4, <2>5, <2>6, <2>7 DEF CallStep
  <2>9. QED
    BY <2>1, <2>8 DEF TreeInv, Kept
<1>2. QED
  BY <1>1, OsifSteps, AbortKept, DetachKept
-----------------------------------------------------------------------------
(***************************************************************************)
(* The flows.                                                              *)
(***************************************************************************)
\* A step of t leaves every other thread where it is in its flow and in DSC.
OthersStay(t) ==
  \A u \in Threads \ {t} :
    /\ flow'[u] = flow[u] /\ phase'[u] = phase[u] /\ ptr'[u] = ptr[u]
    /\ pc'[u] = pc[u] /\ at'[u] = at[u] /\ drained'[u] = drained[u]
    /\ todo'[u] \subseteq todo[u]

FlowStep(t) == FlowType' /\ FlowAt(t)' /\ OthersStay(t)

LEMMA FlowFrame == FlowLink /\ (\E t \in Threads : FlowStep(t)) => FlowLink'
<1> SUFFICES ASSUME FlowLink, NEW t \in Threads, FlowStep(t), NEW u \in Threads
             PROVE  FlowAt(u)'
  BY DEF FlowLink, FlowStep
<1>1. CASE u = t
  BY <1>1 DEF FlowStep
<1>2. CASE u # t
  <2>1. FlowAt(u)
    BY DEF FlowLink
  <2>2. QED
    BY <1>2, <2>1 DEF FlowStep, OthersStay, FlowAt, FlowOf
<1>3. QED
  BY <1>1, <1>2

\* What a stop does to the threads.
StopEffect(t) ==
  /\ pc[t] = "held" /\ todo[t] = {}
  /\ pc' = [pc EXCEPT ![t] = "idle"] /\ at' = [at EXCEPT ![t] = NULL]
  /\ drained' = [drained EXCEPT ![t] = {}]
  /\ UNCHANGED <<attached, count, done, todo, cur, recovering, unloading>>

LEMMA StopHasEffect == \A t \in Threads : dsc_trans_stop(t) => StopEffect(t)
BY DEF dsc_trans_stop, StopEffect, flagVars

\* What Enter, and with it Leave and Goto, does to the flows.
LEMMA EnterEffect ==
  ASSUME FlowType, NEW t \in Threads, NEW k \in FlowNames, NEW s \in Phases,
         NEW n \in Nodes \cup {NULL}, Enter(t, k, s, n), cursor' \in [Threads -> Nodes \cup {NULL}]
  PROVE  /\ FlowType'
         /\ flow'[t] = k /\ phase'[t] = s /\ ptr'[t] = n
         /\ \A u \in Threads \ {t} : flow'[u] = flow[u] /\ phase'[u] = phase[u] /\ ptr'[u] = ptr[u]
BY DEF Enter, FlowType

LEMMA FlowBegin ==
  ASSUME OsifInv, NEW t \in Threads, BeginFlow(t)
  PROVE  FlowStep(t)
<1> USE TreeFacts, EnterEffect
    DEF OsifInv, TreeInv, TypeOK, PcLink, FlowLink, FlowNames, Phases, FlowAt, FlowOf, FlowStep,
        OthersStay, Begin
<1>0. cursor \in [Threads -> Nodes \cup {NULL}]
  BY SMTT(30) DEF FlowType
<1>1. ASSUME NEW n \in Nodes, osif_sync_op_start(t, n) PROVE FlowStep(t)
  BY SMTT(30), <1>0, <1>1 DEF osif_sync_op_start, dsc_op_start
<1>2. ASSUME NEW k \in Flows, NEW n \in Nodes, osif_sync_trans_start(t, k, n) PROVE FlowStep(t)
  BY <1>0, <1>2 DEF osif_sync_trans_start, dsc_trans_start
<1>3. ASSUME NEW k \in Flows, NEW n \in Nodes, osif_sync_lookup(t, k, n) PROVE FlowStep(t)
  <2>1. /\ k \in {"wait", "del", "mode", "ssr"}
        /\ k = "del" => n \in Vdevs
        /\ k = "ssr" => n \in Psocs /\ t = Platform
    BY <1>3 DEF osif_sync_lookup, NodesOf
  <2>2. Enter(t, k, "call", n) /\ flow[t] = "none" /\ cursor' = cursor
        /\ UNCHANGED <<pc, at, todo, drained>>
    BY <1>3 DEF osif_sync_lookup, vars, threadVars
  <2>3. pc[t] = "idle" /\ at[t] = NULL
    BY <2>2
  <2>4. /\ FlowType'
        /\ flow'[t] = k /\ phase'[t] = "call" /\ ptr'[t] = n
        /\ \A u \in Threads \ {t} : flow'[u] = flow[u] /\ phase'[u] = phase[u] /\ ptr'[u] = ptr[u]
    BY <1>0, <2>1, <2>2
  <2>5. QED
    BY <2>1, <2>2, <2>3, <2>4
<1>4. ASSUME NEW v \in Vdevs, osif_vdev_sync_create(t, v) PROVE FlowStep(t)
  <2>1. Enter(t, "add", "created", v) /\ flow[t] = "none" /\ t # Platform /\ v \in Nodes
        /\ cursor' = cursor /\ UNCHANGED <<pc, at, todo, drained>>
    BY <1>4 DEF osif_vdev_sync_create, dsc_vdev_create, dsc_create, threadVars, Nodes
  <2>2. pc[t] = "idle" /\ at[t] = NULL
    BY <2>1
  <2>3. QED
    BY SMTT(30), <1>0, <2>1, <2>2
<1> HIDE DEF FlowStep
<1>5. QED
  BY SMTT(30), <1>1, <1>2, <1>3, <1>4 DEF BeginFlow

LEMMA FlowContinue ==
  ASSUME OsifInv, NEW t \in Threads, Continue(t)
  PROVE  FlowStep(t)
<1> USE TreeFacts, EnterEffect
    DEF OsifInv, TreeInv, TypeOK, PcLink, FlowLink, FlowNames, Phases, FlowAt, FlowOf, FlowStep,
        OthersStay, Leave, Goto
<1>0. /\ cursor \in [Threads -> Nodes \cup {NULL}]
      /\ flow[t] \in FlowNames /\ phase[t] \in Phases /\ ptr[t] \in Nodes \cup {NULL}
  BY DEF FlowType
\* A thread that is through with DSC leaves.
<1>a. ASSUME Leave(t), cursor' = cursor, pc'[t] = "idle", at'[t] = NULL,
             \A u \in Threads \ {t} : /\ pc'[u] = pc[u] /\ at'[u] = at[u] /\ drained'[u] = drained[u]
                                      /\ todo'[u] \subseteq todo[u]
      PROVE  FlowStep(t)
  BY SMTT(30), <1>0, <1>a
<1>1. CASE osif_sync_op_stop(t)
  BY <1>a, <1>1 DEF osif_sync_op_stop, dsc_op_stop
<1>2. CASE osif_sync_start_wait_callback(t)
  <2>1. /\ phase[t] = "call" /\ flow[t] \in {"wait", "del", "mode", "ssr"}
        /\ Enter(t, flow[t], "enter", ptr[t]) /\ cursor' = cursor
    BY <1>2 DEF osif_sync_start_wait_callback
  <2>2. /\ pc'[t] \in {"held", "queued"} /\ at'[t] = ptr[t] /\ UNCHANGED <<todo, drained>>
        /\ \A u \in Threads \ {t} : pc'[u] = pc[u] /\ at'[u] = at[u]
    BY <1>2 DEF osif_sync_start_wait_callback, dsc_trans_start, dsc_trans_queue
  <2>3. QED
    BY <1>0, <2>1, <2>2
<1>3. CASE osif_sync_start_refused(t)
  <2>1. /\ phase[t] = "call" /\ cursor' = cursor /\ UNCHANGED <<pc, at, todo, drained>>
        /\ Leave(t) \/ (flow[t] = "ssr" /\ Enter(t, "ssr", "refused", ptr[t]))
    BY <1>3 DEF osif_sync_start_refused, vars, threadVars
  <2>2. CASE Leave(t)
    BY <1>a, <2>1, <2>2
  <2>3. CASE flow[t] = "ssr" /\ Enter(t, "ssr", "refused", ptr[t])
    BY <1>0, <2>1, <2>3
  <2>4. QED
    BY <2>1, <2>2, <2>3
<1>4. CASE osif_sync_tran_wait(t)
  <2>1. /\ phase[t] = "enter" /\ cursor' = cursor /\ UNCHANGED <<todo, drained>> /\ pc[t] = "queued"
        /\ \A u \in Threads \ {t} : pc'[u] = pc[u] /\ at'[u] = at[u]
    BY SMTT(30), <1>4 DEF osif_sync_tran_wait, dsc_tran_wait
  <2>2. CASE tran[t] = "granted"
    <3>1. UNCHANGED <<flow, phase, ptr>> /\ pc'[t] = "held" /\ at'[t] = at[t]
      BY <1>4, <2>2 DEF osif_sync_tran_wait, dsc_tran_wait, flowVars
    <3>2. QED
      BY <1>0, <2>1, <3>1 DEF FlowType
  <2>3. CASE tran[t] # "granted"
    <3>1. Leave(t) /\ pc'[t] = "idle" /\ at'[t] = NULL
      BY SMTT(30), <1>4, <2>3 DEF osif_sync_tran_wait, dsc_tran_wait
    <3>2. QED
      BY SMTT(30), <1>a, <2>1, <3>1
  <2>4. QED
    BY SMTT(30), <2>2, <2>3
<1>5. CASE osif_sync_wait_for_ops(t)
  BY SMTT(30), <1>5 DEF osif_sync_wait_for_ops, dsc_wait_for_ops, dsc_vdev_wait_for_uptree_ops,
              osifVars, flowVars, FlowType
<1>6. CASE \E m \in Nodes : dsc_for_each_load(t, m)
  BY SMTT(30), <1>6 DEF dsc_for_each_load, vars, threadVars, flowVars, FlowType
<1>7. CASE \E m \in Nodes : dsc_for_each_visit(t, m)
  BY SMTT(30), <1>7 DEF dsc_for_each_visit, dsc_ops_skip, dsc_ops_block, NextToVisit, flowVars, FlowType
<1>8. CASE dsc_for_each_wake(t)
  BY <1>8 DEF dsc_for_each_wake, dsc_ops_wake, flowVars, FlowType
<1>9. ASSUME dsc_trans_stop(t), cursor' = cursor, Leave(t) \/ (Changes(t) /\ Goto(t, "stopped"))
      PROVE  FlowStep(t)
  <2>1. /\ pc'[t] = "idle" /\ at'[t] = NULL /\ todo' = todo
        /\ \A u \in Threads \ {t} : pc'[u] = pc[u] /\ at'[u] = at[u] /\ drained'[u] = drained[u]
    BY <1>9, StopHasEffect DEF StopEffect
  <2>2. CASE Leave(t)
    BY <1>a, <1>9, <2>1, <2>2
  <2>3. CASE Changes(t) /\ Goto(t, "stopped")
    BY <1>0, <1>9, <2>1, <2>3 DEF Changes
  <2>4. QED
    BY <1>9, <2>2, <2>3
<1>10. CASE osif_sync_trans_stop(t) \/ add_trans_stop(t) \/ del_trans_stop(t) \/ recovery_trans_stop(t)
  <2> HIDE DEF FlowStep, FlowAt, FlowLink, Leave, Goto
  <2>1. CASE osif_sync_trans_stop(t) \/ recovery_trans_stop(t)
    BY <1>9, <2>1 DEF osif_sync_trans_stop, recovery_trans_stop
  <2>2. CASE add_trans_stop(t) \/ del_trans_stop(t)
    BY <1>9, <2>2 DEF add_trans_stop, del_trans_stop, Changes
  <2>3. QED
    BY <1>10, <2>1, <2>2
<1>11. CASE add_trans_start(t)
  <2>1. flow[t] = "add" /\ phase[t] = "created" /\ cursor' = cursor /\ pc[t] = "idle" /\ todo[t] = {}
    BY <1>11 DEF add_trans_start, DrainLink, DrainAt
  <2>2. CASE dsc_can_trans(ptr[t]) = "SUCCESS"
    <3>1. /\ Enter(t, "add", "enter", ptr[t]) /\ pc'[t] = "held" /\ at'[t] = ptr[t]
          /\ UNCHANGED <<todo, drained>>
          /\ \A u \in Threads \ {t} : pc'[u] = pc[u] /\ at'[u] = at[u]
      BY <1>11, <2>1, <2>2 DEF add_trans_start, dsc_trans_start
    <3>2. QED
      BY <1>0, <2>1, <3>1
  <2>3. CASE dsc_can_trans(ptr[t]) # "SUCCESS"
    <3>1. Enter(t, "add", "stopped", ptr[t]) /\ UNCHANGED <<pc, at, todo, drained>>
      BY <1>11, <2>1, <2>3 DEF add_trans_start, vars, threadVars
    <3>2. QED
      BY <1>0, <2>1, <3>1
  <2>4. QED
    BY <2>2, <2>3
<1>12. CASE osif_vdev_sync_register(t)
  <2>1. /\ flow[t] = "add" /\ phase[t] = "enter" /\ Enter(t, "add", "registered", ptr[t])
        /\ cursor' = cursor /\ UNCHANGED <<pc, at, todo, drained>>
    BY <1>12 DEF osif_vdev_sync_register, vars, threadVars
  <2>2. pc[t] = "held" /\ todo[t] = {} /\ at[t] = ptr[t] /\ ptr[t] \in Vdevs
    <3>1. FlowAt(t)
      OBVIOUS
    <3>2. QED
      BY <2>1, <3>1
  <2>3. QED
    BY <1>0, <2>1, <2>2
<1>13. CASE osif_vdev_sync_unregister(t)
  <2>1. /\ flow[t] = "del" /\ phase[t] = "enter" /\ Enter(t, "del", "hidden", ptr[t])
        /\ cursor' = cursor /\ UNCHANGED <<pc, at, todo, drained>> /\ pc[t] = "held" /\ todo[t] = {}
    BY <1>13 DEF osif_vdev_sync_unregister, vars, threadVars, Ready
  <2>2. QED
    BY <1>0, <2>1
<1>14. CASE dsc_vdev_destroy_abort(t)
  <2>1. /\ phase[t] = "stopped" /\ Enter(t, flow[t], "aborted", ptr[t])
        /\ cursor' = cursor /\ UNCHANGED <<pc, at, todo, drained>>
    BY <1>14 DEF dsc_vdev_destroy_abort
  <2>2. QED
    BY SMTT(30), <1>0, <2>1
<1>15. CASE dsc_vdev_destroy_detach(t)
  <2>1. /\ phase[t] = "aborted" /\ Leave(t) /\ cursor' = cursor /\ UNCHANGED <<pc, at, drained>>
        /\ \A u \in Threads : todo'[u] \subseteq todo[u]
    BY <1>15 DEF dsc_vdev_destroy_detach
  <2>2. QED
    BY <1>a, <2>1
<1>16. CASE hdd_soc_recovery_shutdown(t)
  <2>1. /\ flow[t] = "ssr" /\ phase[t] = "enter" /\ Enter(t, "ssr", "shutdown", ptr[t])
        /\ cursor' = cursor /\ UNCHANGED <<pc, at, todo, drained>>
        /\ pc[t] = "held" /\ todo[t] = {} /\ ptr[t] \in drained[t]
    BY <1>16 DEF hdd_soc_recovery_shutdown, vars, threadVars, Ready
  <2>2. QED
    BY <1>0, <2>1
<1>17. CASE recovery_trans_stop_unheld(t)
  <2>1. phase[t] = "refused" /\ Leave(t) /\ cursor' = cursor /\ UNCHANGED <<pc, at, todo, drained>>
    BY <1>17 DEF recovery_trans_stop_unheld
  <2>2. QED
    BY <1>a, <2>1
<1> HIDE DEF FlowStep, FlowAt, FlowLink, OthersStay, Leave, Goto
<1>18. QED
  BY <1>1, <1>2, <1>3, <1>4, <1>5, <1>6, <1>7, <1>8, <1>10, <1>11, <1>12, <1>13, <1>14, <1>15, <1>16,
     <1>17 DEF Continue

LEMMA FlowNext == OsifInv /\ [OsifNext]_allVars => FlowLink'
<1> SUFFICES ASSUME OsifInv, [OsifNext]_allVars PROVE FlowLink'
  OBVIOUS
<1>1. ASSUME NEW t \in Threads, BeginFlow(t) \/ Continue(t) PROVE FlowLink'
  <2>1. FlowStep(t)
    BY <1>1, FlowBegin, FlowContinue
  <2>2. QED
    BY <2>1, FlowFrame DEF OsifInv
<1>2. ASSUME UNCHANGED <<flow, phase, ptr, cursor, pc, at, todo, drained>> PROVE FlowLink'
  BY <1>2 DEF OsifInv, FlowLink, FlowType, FlowAt, FlowOf
<1>3. hdd_fw_down \/ ReinitStep \/ UNCHANGED allVars
        => UNCHANGED <<flow, phase, ptr, cursor, pc, at, todo, drained>>
  BY DEF hdd_fw_down, ReinitStep, hdd_soc_recovery_reinit, reinit_test, reinit_clear, allVars,
         vars, treeVars, threadVars, osifVars, flowVars
<1>4. QED
  BY <1>1, <1>2, <1>3 DEF OsifNext
-----------------------------------------------------------------------------
(***************************************************************************)
(* Which nodes exist and which are found.                                  *)
(***************************************************************************)
\* The steps that create, show, hide and free no interface.
Stay(t) ==
  /\ UNCHANGED <<attached, registered, freed>>
  /\ at'[t] \in {NULL, at[t]} \cup attached
  /\ pc'[t] = "op" => (pc[t] = "op" /\ at'[t] = at[t]) \/ Found(at'[t])
  /\ Changes(t)' => (Changes(t) /\ ptr'[t] = ptr[t]) \/ (Serialised /\ ptr'[t] \in attached)
  /\ Hidden(t)' => Hidden(t) /\ ptr'[t] = ptr[t]

LEMMA NodeStay ==
  ASSUME NodeLink, NEW t \in Threads, FlowStep(t), Stay(t)
  PROVE  NodeLink'
<1> USE DEF FlowStep, OthersStay, NodeLink
<1>1. /\ {Driver} \cup Psocs \subseteq attached'
      /\ registered' \subseteq attached' \cap Vdevs
      /\ attached' \cap freed' = {}
  BY DEF Stay
<1>2. ASSUME NEW u \in Threads, NEW w \in Threads, Changes(u)', Changes(w)' PROVE u = w
  <2>1. \A x \in Threads \ {t} : Changes(x)' => Changes(x)
    BY DEF Changes
  <2>2. Serialised => \A x \in Threads : ~Changes(x)
    BY DEF Serialised, Changes
  <2>3. QED
    BY <1>2, <2>1, <2>2 DEF Stay
<1>3. ASSUME NEW u \in Threads PROVE NodeAt(u)'
  <2>1. NodeAt(u)
    OBVIOUS
  <2>2. CASE u = t
    BY <2>1, <2>2 DEF NodeAt, Stay, Found
  <2>3. CASE u # t
    BY <2>1, <2>3 DEF NodeAt, Stay, Changes, Hidden, Found
  <2>4. QED
    BY <2>2, <2>3
<1>4. QED
  BY <1>1, <1>2, <1>3

LEMMA NodeBegin ==
  ASSUME OsifInv, NEW t \in Threads, BeginFlow(t)
  PROVE  NodeLink'
<1> USE TreeFacts, EnterEffect
    DEF FlowNames, Phases
<1>0. /\ TypeOK /\ PcLink /\ FlowType /\ cursor \in [Threads -> Nodes \cup {NULL}] /\ NodeLink
      /\ FlowStep(t)
  BY FlowBegin DEF FlowType, OsifInv, TreeInv, FlowLink
<1>1. ASSUME NEW n \in Nodes, osif_sync_op_start(t, n) PROVE NodeLink'
  <2>1. /\ Enter(t, "op", "op", n) /\ Found(n) /\ n \in attached /\ at'[t] = n
        /\ UNCHANGED <<attached, registered, freed, cursor>>
    BY <1>0, <1>1 DEF osif_sync_op_start, dsc_op_start, TypeOK
  <2>2. flow'[t] = "op" /\ phase'[t] = "op" /\ ptr'[t] = n
    BY <1>0, <2>1
  <2>3. Stay(t)
    BY <2>1, <2>2 DEF Stay, Changes, Hidden
  <2>4. QED
    BY SMTT(30), <1>0, <2>3, NodeStay
<1>2. ASSUME NEW k \in Flows, NEW n \in Nodes, osif_sync_trans_start(t, k, n) PROVE NodeLink'
  <2>1. Stay(t)
    BY <1>0, <1>2 DEF osif_sync_trans_start, dsc_trans_start, Stay, Changes, Hidden, TypeOK
  <2>2. QED
    BY SMTT(30), <1>0, <2>1, NodeStay
<1>3. ASSUME NEW k \in Flows, NEW n \in Nodes, osif_sync_lookup(t, k, n) PROVE NodeLink'
  <2>1. /\ k \in {"wait", "del", "mode", "ssr"} /\ Found(n) /\ (k = "del" => Serialised)
        /\ Enter(t, k, "call", n) /\ cursor' = cursor
        /\ UNCHANGED <<pc, at, attached, registered, freed>>
    BY <1>3 DEF osif_sync_lookup, vars, threadVars, treeVars
  <2>2. n \in attached
    BY <1>0, <2>1 DEF Found, NodeLink
  <2>3. flow'[t] = k /\ phase'[t] = "call" /\ ptr'[t] = n
    BY <1>0, <2>1
  <2>4. Stay(t)
    BY <1>0, <2>1, <2>2, <2>3 DEF Stay, Changes, Hidden
  <2>5. QED
    BY <1>0, <2>4, NodeStay
<1>4. ASSUME NEW v \in Vdevs, osif_vdev_sync_create(t, v) PROVE NodeLink'
  <2>1. /\ Serialised /\ v \notin freed /\ v \notin attached /\ attached' = attached \cup {v}
        /\ Enter(t, "add", "created", v) /\ cursor' = cursor
        /\ UNCHANGED <<pc, at, registered, freed>>
    BY <1>4 DEF osif_vdev_sync_create, dsc_vdev_create, dsc_create, threadVars
  <2>2. flow'[t] = "add" /\ phase'[t] = "created" /\ ptr'[t] = v
    BY <1>0, <2>1 DEF Nodes
  <2>3. \A u \in Threads \ {t} : ~Changes(u)'
    BY <1>0, <2>1 DEF Serialised, FlowStep, OthersStay, Changes
  <2>4. flow[t] = "none"
    BY <1>4 DEF osif_vdev_sync_create, Begin
  <2>5. ASSUME NEW u \in Threads PROVE NodeAt(u)'
    <3>1. NodeAt(u)
      BY <1>0 DEF NodeLink
    <3>2. CASE u = t
      <4>1. pc[t] = "idle"
        BY <2>4 DEF OsifInv, FlowLink, FlowAt, FlowOf
      <4>2. QED
        BY <1>0, <2>1, <2>2, <3>1, <3>2, <4>1 DEF NodeAt, NodeLink, PcLink
    <3>3. CASE u # t
      BY <1>0, <2>1, <2>3, <3>1, <3>3 DEF NodeAt, Hidden, Changes, Found, FlowStep, OthersStay
    <3>4. QED
      BY <3>2, <3>3
  <2>6. QED
    BY <1>0, <2>1, <2>3, <2>5 DEF NodeLink
<1>5. QED
  BY SMTT(30), <1>1, <1>2, <1>3, <1>4 DEF BeginFlow

LEMMA NodeContinue ==
  ASSUME OsifInv, NEW t \in Threads, Continue(t)
  PROVE  NodeLink'
<1> USE TreeFacts, EnterEffect
    DEF FlowNames, Phases, Leave, Goto
<1>0. /\ TypeOK /\ PcLink /\ FlowType /\ cursor \in [Threads -> Nodes \cup {NULL}] /\ NodeLink
      /\ FlowStep(t) /\ FlowAt(t) /\ NodeAt(t)
      /\ flow[t] \in FlowNames /\ phase[t] \in Phases /\ ptr[t] \in Nodes \cup {NULL}
  BY FlowContinue DEF FlowType, OsifInv, TreeInv, FlowLink, NodeLink
\* The end of a flow, and a step within one that hides nothing.
<1>a. ASSUME Leave(t), UNCHANGED <<cursor, attached, registered, freed>>, pc'[t] = "idle",
             at'[t] \in {NULL, at[t]}
      PROVE  NodeLink'
  <2>1. flow'[t] = "none" /\ phase'[t] = "none"
    BY <1>0, <1>a
  <2>2. Stay(t)
    BY <1>a, <2>1 DEF Stay, Changes, Hidden
  <2>3. QED
    BY <1>0, <2>2, NodeStay
<1>b. ASSUME NEW s \in Phases, Goto(t, s), UNCHANGED <<cursor, attached, registered, freed>>,
             pc'[t] # "op", at'[t] \in {NULL, at[t]} \cup attached,
             s \in {"hidden", "stopped", "aborted"} \/ (flow[t] = "add" /\ s \in {"created", "enter"})
               => Hidden(t)
      PROVE  NodeLink'
  <2>1. flow'[t] = flow[t] /\ phase'[t] = s /\ ptr'[t] = ptr[t]
    BY <1>0, <1>b
  <2>2. Stay(t)
    BY <1>b, <2>1 DEF Stay, Changes, Hidden
  <2>3. QED
    BY <1>0, <2>2, NodeStay
<1>c. ASSUME UNCHANGED <<flow, phase, ptr, attached, registered, freed>>,
             pc'[t] # "op", at'[t] \in {NULL, at[t]}
      PROVE  NodeLink'
  <2>1. Stay(t)
    BY SMTT(30), <1>c DEF Stay, Changes, Hidden
  <2>2. QED
    BY <1>0, <2>1, NodeStay
<1>1. CASE osif_sync_op_stop(t)
  BY <1>0, <1>a, <1>1 DEF osif_sync_op_stop, dsc_op_stop, TypeOK
<1>2. CASE osif_sync_start_wait_callback(t)
  <2>1. /\ phase[t] = "call" /\ flow[t] # "add" /\ Goto(t, "enter")
        /\ UNCHANGED <<cursor, attached, registered, freed>>
        /\ pc'[t] \in {"held", "queued"} /\ at'[t] = ptr[t] /\ ptr[t] \in attached
    BY <1>0, <1>2 DEF osif_sync_start_wait_callback, dsc_trans_start, dsc_trans_queue, Alive,
                     FlowAt, FlowOf, TypeOK
  <2>2. QED
    BY SMTT(30), <1>b, <2>1
<1>3. CASE osif_sync_start_refused(t)
  <2>1. /\ UNCHANGED <<cursor, attached, registered, freed, pc, at>> /\ pc[t] = "idle"
        /\ Leave(t) \/ Goto(t, "refused")
    BY <1>0, <1>3 DEF osif_sync_start_refused, vars, treeVars, threadVars, FlowAt, FlowOf
  <2>2. QED
    BY SMTT(30), <1>a, <1>b, <2>1
<1>4. CASE osif_sync_tran_wait(t)
  <2>1. /\ UNCHANGED <<cursor, attached, registered, freed>>
        /\ pc'[t] = IF tran[t] = "granted" THEN "held" ELSE "idle"
        /\ at'[t] = IF tran[t] = "granted" THEN at[t] ELSE NULL
        /\ IF tran[t] = "granted" THEN UNCHANGED <<flow, phase, ptr>> ELSE Leave(t)
    BY <1>0, <1>4 DEF osif_sync_tran_wait, dsc_tran_wait, treeVars, flowVars, TypeOK
  <2>2. QED
    BY SMTT(30), <1>a, <1>c, <2>1
<1>5. CASE osif_sync_wait_for_ops(t)
  BY <1>0, <1>c, <1>5 DEF osif_sync_wait_for_ops, dsc_wait_for_ops, dsc_vdev_wait_for_uptree_ops,
                         osifVars, flowVars, treeVars
<1>6. CASE \E m \in Nodes : dsc_for_each_load(t, m)
  BY <1>0, <1>c, <1>6 DEF dsc_for_each_load, vars, threadVars, treeVars, flowVars
<1>7. CASE \E m \in Nodes : dsc_for_each_visit(t, m)
  BY <1>0, <1>c, <1>7 DEF dsc_for_each_visit, dsc_ops_skip, dsc_ops_block, flowVars, treeVars, TypeOK
<1>8. CASE dsc_for_each_wake(t)
  BY <1>0, <1>c, <1>8 DEF dsc_for_each_wake, dsc_ops_wake, flowVars, TypeOK
<1>9. ASSUME dsc_trans_stop(t), UNCHANGED <<cursor, registered, freed>>,
             Leave(t) \/ (Hidden(t) /\ Goto(t, "stopped"))
      PROVE  NodeLink'
  <2>1. attached' = attached /\ pc'[t] = "idle" /\ at'[t] = NULL
    BY <1>0, <1>9, StopHasEffect DEF StopEffect, TypeOK
  <2>2. QED
    BY <1>a, <1>b, <1>9, <2>1
<1>10. CASE osif_sync_trans_stop(t) \/ recovery_trans_stop(t)
  BY <1>9, <1>10 DEF osif_sync_trans_stop, recovery_trans_stop
<1>11. CASE add_trans_stop(t) \/ del_trans_stop(t)
  BY <1>9, <1>11 DEF add_trans_stop, del_trans_stop, Hidden
<1>12. CASE add_trans_start(t)
  <2>1. /\ Hidden(t) /\ UNCHANGED <<cursor, attached, registered, freed>>
        /\ Goto(t, "enter") \/ Goto(t, "stopped")
    BY <1>12 DEF add_trans_start, Hidden, dsc_trans_start, vars, treeVars
  <2>2. pc'[t] # "op" /\ at'[t] \in {NULL, at[t]} \cup attached
    BY <1>0, <1>12 DEF add_trans_start, dsc_trans_start, vars, threadVars, TypeOK, FlowAt, FlowOf
  <2>3. QED
    BY <1>b, <2>1, <2>2
<1>13. CASE dsc_vdev_destroy_abort(t)
  <2>1. /\ Hidden(t) /\ UNCHANGED <<cursor, attached, registered, freed, pc, at>>
        /\ Goto(t, "aborted") /\ pc[t] # "op"
    BY <1>0, <1>13 DEF dsc_vdev_destroy_abort, Hidden, FlowAt, FlowOf
  <2>2. QED
    BY <1>b, <2>1
<1>14. CASE hdd_soc_recovery_shutdown(t)
  <2>1. /\ UNCHANGED <<cursor, attached, registered, freed, pc, at>>
        /\ Goto(t, "shutdown") /\ pc[t] # "op"
    BY <1>0, <1>14 DEF hdd_soc_recovery_shutdown, vars, treeVars, threadVars, Ready
  <2>2. QED
    BY <1>b, <2>1
\* A thread at which its interface is hidden is the one that changes it.
<1>d. \A u \in Threads \ {t} : Changes(t) => ~Hidden(u) /\ ~Changes(u)
  <2>1. \A u \in Threads : Hidden(u) => Changes(u)
    BY DEF OsifInv, FlowLink, FlowAt, FlowOf, Hidden, Changes
  <2>2. QED
    BY <1>0, <2>1 DEF NodeLink
<1>15. CASE osif_vdev_sync_register(t)
  <2>1. /\ flow[t] = "add" /\ Goto(t, "registered") /\ registered' = registered \cup {ptr[t]}
        /\ UNCHANGED <<cursor, attached, freed, pc, at>>
    BY <1>15 DEF osif_vdev_sync_register, vars, treeVars, threadVars
  <2>2. /\ flow'[t] = "add" /\ phase'[t] = "registered" /\ ptr'[t] = ptr[t]
        /\ ptr[t] \in attached \cap Vdevs
    BY <1>0, <2>1 DEF NodeAt, Changes, FlowAt
  <2>3. \A u \in Threads \ {t} : ~Hidden(u)' /\ ~Changes(u)'
    BY SMTT(30), <1>0, <1>d, <2>1 DEF FlowStep, OthersStay, Changes, Hidden
  <2>4. ASSUME NEW u \in Threads PROVE NodeAt(u)'
    <3>1. NodeAt(u)
      BY <1>0 DEF NodeLink
    <3>2. QED
      BY <2>1, <2>2, <2>3, <3>1 DEF NodeAt, Hidden, Changes, Found
  <2>5. QED
    BY <1>0, <2>1, <2>2, <2>3, <2>4 DEF NodeLink
<1>16. CASE osif_vdev_sync_unregister(t)
  <2>1. /\ flow[t] = "del" /\ Goto(t, "hidden") /\ registered' = registered \ {ptr[t]} /\ Ready(t)
        /\ UNCHANGED <<cursor, attached, freed, pc, at>>
    BY <1>16 DEF osif_vdev_sync_unregister, vars, treeVars, threadVars
  <2>2. flow'[t] = "del" /\ phase'[t] = "hidden" /\ ptr'[t] = ptr[t]
    BY <1>0, <2>1
  <2>3. \A u \in Threads \ {t} : ~Hidden(u)' /\ ~Changes(u)'
    BY SMTT(30), <1>0, <1>d, <2>1 DEF FlowStep, OthersStay, Changes, Hidden
  <2>4. at[t] = ptr[t] /\ ptr[t] \in attached /\ ptr[t] \in Nodes /\ count[ptr[t]] = 0
    <3>1. at[t] = ptr[t] /\ at[t] \in attached /\ at[t] \in drained[t] /\ todo[t] = {}
      BY <1>0, <2>1 DEF Ready, Alive, PcLink, FlowAt
    <3>2. count[at[t]] = 0
      BY <3>1 DEF OsifInv, DrainLink, DrainAt, DrainOf, Below
    <3>3. QED
      BY <1>0, <3>1, <3>2 DEF TypeOK
  <2>5. ASSUME NEW u \in Threads, pc[u] = "op" PROVE at[u] # ptr[t]
    BY <1>0, <2>4, <2>5, OpIsCounted DEF OsifInv, TreeInv
  <2>6. ASSUME NEW u \in Threads PROVE NodeAt(u)'
    <3>1. NodeAt(u)
      BY <1>0 DEF NodeLink
    <3>2. CASE u = t
      BY <1>0, <2>1, <2>2, <2>4, <2>5, <3>1, <3>2 DEF NodeAt, Found
    <3>3. CASE u # t
      BY <2>1, <2>3, <2>5, <3>1, <3>3 DEF NodeAt, Found
    <3>4. QED
      BY <3>2, <3>3
  <2>7. QED
    BY <1>0, <2>1, <2>3, <2>6 DEF NodeLink
<1>17. CASE dsc_vdev_destroy_detach(t)
  <2>1. /\ phase[t] = "aborted" /\ Leave(t) /\ attached' = attached \ {ptr[t]}
        /\ freed' = freed \cup {ptr[t]} /\ UNCHANGED <<cursor, registered, pc, at>>
    BY <1>17 DEF dsc_vdev_destroy_detach
  <2>2. flow'[t] = "none" /\ phase'[t] = "none" /\ ptr[t] \in Vdevs /\ Changes(t)
    BY <1>0, <2>1 DEF FlowAt, FlowOf, Changes
  <2>3. \A u \in Threads : ~Hidden(u)' /\ ~Changes(u)'
    BY <1>0, <1>d, <2>1, <2>2 DEF FlowStep, OthersStay, Changes, Hidden
  <2>4. ptr[t] \notin registered /\ ptr[t] \notin {Driver} \cup Psocs
    BY <1>0, <2>1, <2>2, DscAssumption DEF NodeAt, Hidden, DscAssumption
  <2>5. ASSUME NEW u \in Threads PROVE NodeAt(u)'
    <3>1. NodeAt(u)
      BY <1>0 DEF NodeLink
    <3>2. QED
      BY <2>1, <2>3, <3>1 DEF NodeAt, Found
  <2>6. QED
    BY <1>0, <2>1, <2>3, <2>4, <2>5 DEF NodeLink
<1>18. CASE recovery_trans_stop_unheld(t)
  <2>1. Leave(t) /\ UNCHANGED <<cursor, attached, registered, freed, pc, at>> /\ pc[t] = "idle"
    BY <1>0, <1>18 DEF recovery_trans_stop_unheld, FlowAt, FlowOf
  <2>2. QED
    BY <1>a, <2>1
<1> HIDE DEF Leave, Goto
<1>19. QED
  BY SMTT(30), <1>1, <1>2, <1>3, <1>4, <1>5, <1>6, <1>7, <1>8, <1>10, <1>11, <1>12, <1>13, <1>14, <1>15, <1>16, <1>17,
     <1>18 DEF Continue

LEMMA NodeNext == OsifInv /\ [OsifNext]_allVars => NodeLink'
<1> SUFFICES ASSUME OsifInv, [OsifNext]_allVars PROVE NodeLink'
  OBVIOUS
<1>1. ASSUME NEW t \in Threads, BeginFlow(t) \/ Continue(t) PROVE NodeLink'
  BY <1>1, NodeBegin, NodeContinue
<1>2. ASSUME UNCHANGED <<flow, phase, ptr, pc, at, attached, registered, freed>> PROVE NodeLink'
  BY <1>2 DEF OsifInv, NodeLink, NodeAt, Changes, Hidden, Found
<1>3. hdd_fw_down \/ ReinitStep \/ UNCHANGED allVars
        => UNCHANGED <<flow, phase, ptr, pc, at, attached, registered, freed>>
  BY DEF hdd_fw_down, ReinitStep, hdd_soc_recovery_reinit, reinit_test, reinit_clear, allVars,
         vars, treeVars, threadVars, osifVars, flowVars
<1>4. QED
  BY <1>1, <1>2, <1>3 DEF OsifNext
-----------------------------------------------------------------------------
(***************************************************************************)
(* The waits for operations.                                               *)
(***************************************************************************)
\* A thread that waits or has waited on a node that exists owns it.
LEMMA DrainOwns ==
  ASSUME TreeInv, DrainLink, NEW u \in Threads, todo[u] \cup drained[u] # {}
  PROVE  at[u] \in Nodes /\ active[at[u]] = u
<1>1. pc[u] \in {"held", "block"}
  BY DEF DrainLink, DrainAt
<1>2. at[u] \in Nodes
  BY <1>1 DEF TreeInv, PcLink, TypeOK
<1>3. QED
  BY <1>1, <1>2 DEF TreeInv, OwnerLink, Holds

\* What a node that exists is waited for is on its branch.
LEMMA BelowRelated ==
  ASSUME TypeOK, NEW n \in attached
  PROVE  \A m \in Below(n) : m \in attached /\ Related(n, m) /\ Related(m, n)
<1>1. n \in Nodes
  BY DEF TypeOK
<1>2. QED
  BY <1>1, TreeFacts DEF TypeOK, Below, Related

LEMMA DrainNext == OsifInv /\ CallStep => DrainLink'
<1> SUFFICES ASSUME OsifInv, CallStep, NEW u \in Threads PROVE DrainAt(u)'
  BY DEF DrainLink
<1> USE TreeFacts DEF OsifInv, TreeInv, TypeOK, PcLink
<1>0. DrainAt(u)
  BY DEF DrainLink
<1>1. ASSUME NEW v \in Vdevs \ freed, dsc_create(v) PROVE DrainAt(u)'
  <2>1. /\ v \in Nodes /\ v \notin attached /\ attached' = attached \cup {v}
        /\ UNCHANGED <<count, done, pc, at, todo, cur, drained>>
    BY <1>1 DEF dsc_create, threadVars, Nodes
  <2>2. count[v] = 0
    <3>1. \A t \in Threads : at[t] # v
      BY <2>1 DEF NodeLink, NodeAt
    <3>2. OpsOn(v) = {}
      BY <3>1 DEF OpsOn
    <3>3. QED
      BY <2>1, <3>2, FS_EmptySet DEF OpsCounted
  <2>3. at[u] \in attached' => at[u] \in attached
    BY <2>1 DEF NodeLink, NodeAt
  <2>4. Below(at[u])' \subseteq Below(at[u]) \cup {v}
    BY <2>1 DEF Below
  <2> HIDE DEF TypeOK, PcLink
  <2>5. at[u] \in attached' => DrainOf(u)'
    BY <1>0, <2>1, <2>2, <2>3, <2>4 DEF DrainAt, DrainOf
  <2>6. QED
    BY <1>0, <2>1, <2>5 DEF DrainAt
<1>2. ASSUME NEW t \in Threads, NEW n \in Nodes, dsc_trans_start(t, n) \/ dsc_trans_queue(t, n)
      PROVE  DrainAt(u)'
  <2>1. /\ UNCHANGED <<attached, count, done, todo, cur, drained>>
        /\ pc[t] = "idle" /\ pc'[t] \in {"held", "queued"}
        /\ u # t => pc'[u] = pc[u] /\ at'[u] = at[u]
    BY <1>2 DEF dsc_trans_start, dsc_trans_queue
  <2>2. CASE u = t
    BY <1>0, <2>1, <2>2 DEF DrainAt, DrainOf
  <2>3. CASE u # t
    BY <1>0, <2>1, <2>3 DEF DrainAt, DrainOf, Below
  <2>4. QED
    BY <2>2, <2>3
<1>3. ASSUME NEW t \in Threads, NEW n \in Nodes, dsc_op_start(t, n) PROVE DrainAt(u)'
  <2>1. n \in attached /\ \A m \in attached : Related(m, n) => active[m] = NULL
    BY <1>3, LiveCanTrans DEF dsc_op_start, NodeLink
  <2>2. \A m \in Nodes : m # n => count'[m] = count[m]
    BY <1>3 DEF dsc_op_start
  <2>3. UNCHANGED <<attached, done, todo, cur, drained>>
    BY <1>3 DEF dsc_op_start
  <2>4. u = t => pc[t] = "idle" /\ pc'[t] = "op" /\ todo[u] = {} /\ drained[u] = {}
    BY <1>0, <1>3 DEF DrainAt, dsc_op_start
  <2>5. u # t => pc'[u] = pc[u] /\ at'[u] = at[u]
    BY <1>3 DEF dsc_op_start
  <2>6. ASSUME at[u] \in attached, todo[u] \cup drained[u] # {}, Related(at[u], n) PROVE FALSE
    <3>1. active[at[u]] = u
      BY <2>6, DrainOwns
    <3>2. QED
      BY <2>1, <2>6, <3>1
  <2>7. CASE u = t
    BY <1>0, <2>3, <2>4, <2>7 DEF DrainAt, DrainOf
  <2>8. CASE u # t
    <3>1. ASSUME at[u] \in attached, at[u] \in drained[u] \/ todo[u] # {}
          PROVE  n \notin Below(at[u])
      BY <2>6, <3>1, BelowRelated
    <3>2. ASSUME at[u] \in attached, pc[u] = "block", cur[u] \notin Uptree(at[u])
          PROVE  cur[u] # n
      <4>1. cur[u] \in todo[u]
        BY <1>0, <3>2 DEF DrainAt, DrainOf
      <4>2. Related(cur[u], at[u])
        BY <1>0, <4>1 DEF DrainAt
      <4>3. QED
        BY <2>6, <3>2, <4>1, <4>2
    <3>3. at[u] \in attached => \A m \in Below(at[u]) : m \in Nodes
      BY DEF Below
    <3>4. at[u] \in attached' => DrainOf(u)'
      BY <1>0, <2>2, <2>3, <2>5, <2>8, <3>1, <3>2, <3>3 DEF DrainAt, DrainOf, Below
    <3>5. QED
      BY <1>0, <2>3, <2>5, <2>8, <3>4 DEF DrainAt
  <2>9. QED
    BY <2>7, <2>8
<1>4. ASSUME NEW t \in Threads, NEW n \in Nodes, dsc_ops_skip(t, n) PROVE DrainAt(u)'
  BY <1>0, <1>4 DEF DrainAt, DrainOf, Below, dsc_ops_skip, NextToVisit, treeVars
<1>5. ASSUME NEW t \in Threads, NEW n \in Nodes, dsc_ops_block(t, n) PROVE DrainAt(u)'
  BY <1>0, <1>5 DEF DrainAt, DrainOf, Below, dsc_ops_block, NextToVisit
<1>6. ASSUME NEW t \in Threads, dsc_tran_wait(t) PROVE DrainAt(u)'
  BY <1>0, <1>6 DEF DrainAt, DrainOf, Below, dsc_tran_wait, treeVars
<1>7. ASSUME NEW t \in Threads, dsc_trans_stop(t) PROVE DrainAt(u)'
  <2>1. StopEffect(t)
    BY <1>7, StopHasEffect
  <2>2. CASE u = t
    BY <2>1, <2>2 DEF DrainAt, DrainOf, StopEffect
  <2>3. CASE u # t
    BY <1>0, <2>1, <2>3 DEF DrainAt, DrainOf, Below, StopEffect
  <2>4. QED
    BY <2>2, <2>3
<1>8. ASSUME NEW t \in Threads, dsc_op_stop(t) PROVE DrainAt(u)'
  <2>1. PICK n \in Nodes : n = at[t] /\ count[n] > 0
    BY <1>8, OpIsCounted DEF dsc_op_stop
  <2>2. /\ count' = [count EXCEPT ![n] = count[n] - 1]
        /\ done' = [done EXCEPT ![n] = IF count[n] = 1 THEN complete(done[n]) ELSE done[n]]
        /\ pc' = [pc EXCEPT ![t] = "idle"] /\ at' = [at EXCEPT ![t] = NULL]
        /\ pc[t] = "op" /\ UNCHANGED <<attached, todo, cur, drained>>
    BY <1>8, <2>1 DEF dsc_op_stop
  <2>3. \A m \in Nodes : count[m] = 0 => count'[m] = 0
    BY <2>1, <2>2
  <2>4. \A m \in Nodes : (done[m] > 0 => count[m] = 0) => (done'[m] > 0 => count'[m] = 0)
    BY <2>1, <2>2
  <2>5. at[u] \in attached => \A m \in Below(at[u]) : m \in Nodes
    BY DEF Below
  <2>6. CASE u = t
    BY <1>0, <2>2, <2>6 DEF DrainAt
  <2>7. CASE u # t
    BY <1>0, <2>2, <2>3, <2>4, <2>5, <2>7 DEF DrainAt, DrainOf, Below
  <2>8. QED
    BY <2>6, <2>7
<1>9. ASSUME NEW t \in Threads, dsc_wait_for_ops(t) PROVE DrainAt(u)'
  BY <1>0, <1>9 DEF DrainAt, DrainOf, Below, dsc_wait_for_ops, treeVars, Related
<1>10. ASSUME NEW t \in Threads, at[t] \in drained[t], UptreeWait(t) PROVE DrainAt(u)'
  BY <1>0, <1>10 DEF DrainAt, DrainOf, Below, UptreeWait, dsc_vdev_wait_for_uptree_ops, treeVars, Related
<1>11. ASSUME NEW t \in Threads, dsc_ops_wake(t) PROVE DrainAt(u)'
  <2>1. /\ pc[t] = "block" /\ done[cur[t]] > 0 /\ pc' = [pc EXCEPT ![t] = "held"]
        /\ todo' = [todo EXCEPT ![t] = todo[t] \ {cur[t]}]
        /\ drained' = [drained EXCEPT ![t] = drained[t] \cup {cur[t]}]
        /\ cur' = [cur EXCEPT ![t] = NULL] /\ UNCHANGED <<attached, count, at>>
        /\ cur[t] \in Nodes
    BY <1>11 DEF dsc_ops_wake
  <2>2. CASE u = t
    <3>1. ASSUME at[t] \in attached PROVE DrainOf(t)'
      <4>1. DrainOf(t)
        BY <1>0, <2>2, <3>1 DEF DrainAt
      <4>2. cur[t] \in todo[t] /\ (cur[t] \notin Uptree(at[t]) => count[cur[t]] = 0)
        BY <2>1, <4>1 DEF DrainOf
      <4>3. \A m \in Below(at[t]) : m \notin Uptree(at[t])
        BY DscAssumption DEF DscAssumption, Below, Uptree, DownTree, VdevsOf, Nodes
      <4>4. \A m \in Below(at[t]) : m \in todo[t] \ {cur[t]} \/ count[m] = 0
        BY <4>1, <4>2, <4>3 DEF DrainOf
      <4>5. QED
        BY <2>1, <4>4 DEF DrainOf, Below
    <3>2. QED
      BY <1>0, <2>1, <2>2, <3>1 DEF DrainAt
  <2>3. CASE u # t
    <3>1. \A m \in Nodes : done'[m] > 0 => done[m] > 0
      BY <1>11, <2>1 DEF dsc_ops_wake
    <3>2. QED
      BY <1>0, <2>1, <2>3, <3>1 DEF DrainAt, DrainOf, Below
  <2>4. QED
    BY <2>2, <2>3
<1>12. CASE SetRecovering \/ UNCHANGED vars
  BY <1>0, <1>12 DEF DrainAt, DrainOf, Below, SetRecovering, vars, treeVars, threadVars
<1>13. QED
  BY <1>1, <1>2, <1>3, <1>4, <1>5, <1>6, <1>7, <1>8, <1>9, <1>10, <1>11, <1>12 DEF CallStep
\* The two halves of dsc_vdev_destroy: a traversal that stands on the node
\* that is freed keeps it, any other loses it unvisited.
LEMMA DestroyDrain ==
  ASSUME OsifInv, NEW t \in Threads, dsc_vdev_destroy_abort(t) \/ dsc_vdev_destroy_detach(t)
  PROVE  DrainLink'
<1> SUFFICES ASSUME NEW u \in Threads PROVE DrainAt(u)'
  BY DEF DrainLink
<1>0. DrainAt(u)
  BY DEF OsifInv, DrainLink
<1>1. CASE dsc_vdev_destroy_abort(t)
  BY <1>0, <1>1 DEF DrainAt, DrainOf, Below, dsc_vdev_destroy_abort
<1>2. CASE dsc_vdev_destroy_detach(t)
  <2> DEFINE v == ptr[t]
  <2>1. /\ phase[t] = "aborted" /\ attached' = attached \ {v}
        /\ todo'[u] = IF cursor[u] = v THEN todo[u] ELSE todo[u] \ {v}
        /\ UNCHANGED <<count, done, pc, at, cur, drained>>
    BY <1>2 DEF dsc_vdev_destroy_detach
  <2>2. v \in Vdevs
    BY <2>1 DEF OsifInv, FlowLink, FlowAt, FlowOf
  <2> HIDE DEF v
  <2>3. ASSUME at[u] \in attached' PROVE DrainOf(u)'
    <3>1. at[u] \in attached /\ at[u] # v /\ DrainOf(u) /\ at[u] \in Nodes
      BY <1>0, <2>1, <2>3 DEF DrainAt, OsifInv, TreeInv, TypeOK
    <3>2. Below(at[u])' = Below(at[u]) \ {v}
      BY <2>1 DEF Below
    <3>3. \A m \in Below(at[u])' : m \in todo[u] => m \in todo'[u]
      BY <2>1, <3>2
    <3>4. pc[u] = "block" => cur[u] \in todo'[u]
      <4>1. ASSUME pc[u] = "block", cur[u] = v PROVE cursor[u] = v
        <5>1. Related(v, at[u])
          BY <1>0, <3>1, <4>1 DEF DrainAt, DrainOf
        <5>2. v \in DownTree(at[u])
          BY <2>2, <3>1, <5>1, DscAssumption DEF DscAssumption, Related, Uptree, DownTree, Nodes
        <5>3. QED
          BY <4>1, <5>2 DEF OsifInv, CursorLink
      <4>2. QED
        BY <2>1, <3>1, <4>1 DEF DrainOf
    <3>5. QED
      BY <2>1, <3>1, <3>2, <3>3, <3>4 DEF DrainOf
  <2>4. QED
    BY <1>0, <2>1, <2>3 DEF DrainAt
<1>3. QED
  BY <1>1, <1>2

\* A thread falls asleep only in the visit of a node, with its cursor there.
LEMMA CursorNext == OsifInv /\ [OsifNext]_allVars => CursorLink'
<1> SUFFICES ASSUME OsifInv, [OsifNext]_allVars PROVE CursorLink'
  OBVIOUS
<1> DEFINE Same(u) == pc'[u] = "block" => pc[u] = "block" /\ UNCHANGED <<cur[u], at[u], cursor[u]>>
<1>0. TypeOK /\ FlowType /\ CursorLink
  BY DEF OsifInv, TreeInv, FlowLink
<1>1. ASSUME \A u \in Threads : Same(u) PROVE CursorLink'
  BY <1>0, <1>1 DEF CursorLink
<1>2. ASSUME NEW t \in Threads, NEW m \in Nodes, dsc_for_each_visit(t, m) PROVE CursorLink'
  <2>1. \A u \in Threads \ {t} : UNCHANGED <<pc[u], cur[u], at[u], cursor[u]>>
    BY <1>0, <1>2 DEF dsc_for_each_visit, dsc_ops_skip, dsc_ops_block, TypeOK, FlowType
  <2>2. /\ pc'[t] = "block" => cur'[t] = m /\ cursor'[t] = cursor[t]
        /\ at' = at /\ (Listed(t, m) => cursor[t] = m)
    BY <1>0, <1>2 DEF dsc_for_each_visit, dsc_ops_skip, dsc_ops_block, TypeOK, FlowType
  <2>3. QED
    BY <1>0, <2>1, <2>2 DEF CursorLink, Listed
<1>3. ASSUME NEW t \in Threads, cursor' = cursor, pc'[t] # "block",
             \A u \in Threads \ {t} : UNCHANGED <<pc[u], at[u]>>, cur' = cur
      PROVE  CursorLink'
  BY <1>1, <1>3
<1>4. ASSUME UNCHANGED <<cursor, pc, at, cur>> PROVE CursorLink'
  BY <1>1, <1>4
<1> HIDE DEF Same
<1>5. ASSUME NEW t \in Threads, BeginFlow(t) PROVE CursorLink'
  <2> USE <1>0, <1>3, <1>4
  <2>1. ASSUME NEW n \in Nodes, osif_sync_op_start(t, n) PROVE CursorLink'
    BY <2>1 DEF osif_sync_op_start, dsc_op_start, TypeOK
  <2>2. ASSUME NEW k \in Flows, NEW n \in Nodes, osif_sync_trans_start(t, k, n) PROVE CursorLink'
    BY <2>2 DEF osif_sync_trans_start, dsc_trans_start, TypeOK
  <2>3. ASSUME NEW k \in Flows, NEW n \in Nodes, osif_sync_lookup(t, k, n) PROVE CursorLink'
    BY <2>3 DEF osif_sync_lookup, vars, threadVars
  <2>4. ASSUME NEW v \in Vdevs, osif_vdev_sync_create(t, v) PROVE CursorLink'
    BY <2>4 DEF osif_vdev_sync_create, dsc_vdev_create, dsc_create, threadVars
  <2>5. QED
    BY <1>5, <2>1, <2>2, <2>3, <2>4 DEF BeginFlow
<1>6. ASSUME NEW t \in Threads, Continue(t) PROVE CursorLink'
  <2>1. CASE osif_sync_op_stop(t)
    BY <1>0, <1>3, <2>1 DEF osif_sync_op_stop, dsc_op_stop, TypeOK
  <2>2. CASE osif_sync_start_wait_callback(t)
    BY <1>0, <1>3, <2>2 DEF osif_sync_start_wait_callback, dsc_trans_start, dsc_trans_queue, TypeOK
  <2>3. CASE osif_sync_tran_wait(t)
    BY <1>0, <1>3, <2>3 DEF osif_sync_tran_wait, dsc_tran_wait, TypeOK
  <2>4. CASE osif_sync_wait_for_ops(t)
    BY <1>4, <2>4 DEF osif_sync_wait_for_ops, dsc_wait_for_ops, dsc_vdev_wait_for_uptree_ops, osifVars
  <2>5. ASSUME NEW m \in Nodes, dsc_for_each_load(t, m) PROVE CursorLink'
    <3>1. \A u \in Threads : Same(u)
      BY <1>0, <2>5 DEF dsc_for_each_load, vars, threadVars, FlowType, Same
    <3>2. QED
      BY <1>1, <3>1
  <2>6. CASE dsc_for_each_wake(t)
    <3>1. \A u \in Threads : Same(u)
      BY <1>0, <2>6 DEF dsc_for_each_wake, dsc_ops_wake, TypeOK, FlowType, Same
    <3>2. QED
      BY <1>1, <3>1
  <2>7. ASSUME dsc_trans_stop(t), cursor' = cursor PROVE CursorLink'
    <3>1. StopEffect(t)
      BY <2>7, StopHasEffect
    <3>2. pc'[t] # "block" /\ cur' = cur /\ \A u \in Threads \ {t} : UNCHANGED <<pc[u], at[u]>>
      BY <1>0, <3>1 DEF StopEffect, TypeOK
    <3>3. QED
      BY <1>3, <2>7, <3>2
  <2>8. CASE osif_sync_trans_stop(t) \/ add_trans_stop(t) \/ del_trans_stop(t) \/ recovery_trans_stop(t)
    BY <2>7, <2>8 DEF osif_sync_trans_stop, add_trans_stop, del_trans_stop, recovery_trans_stop
  <2>9. CASE add_trans_start(t)
    BY <1>0, <1>3, <1>4, <2>9 DEF add_trans_start, dsc_trans_start, vars, threadVars, TypeOK
  <2>10. CASE osif_sync_start_refused(t) \/ osif_vdev_sync_register(t) \/ osif_vdev_sync_unregister(t)
              \/ hdd_soc_recovery_shutdown(t) \/ recovery_trans_stop_unheld(t)
    BY <1>4, <2>10 DEF osif_sync_start_refused, recovery_trans_stop_unheld, osif_vdev_sync_register, osif_vdev_sync_unregister,
                       hdd_soc_recovery_shutdown, vars, threadVars
  <2>11. CASE dsc_vdev_destroy_abort(t) \/ dsc_vdev_destroy_detach(t)
    BY <1>4, <2>11 DEF dsc_vdev_destroy_abort, dsc_vdev_destroy_detach
  <2>12. QED
    BY <1>2, <1>6, <2>1, <2>2, <2>3, <2>4, <2>5, <2>6, <2>8, <2>9, <2>10, <2>11 DEF Continue
<1>7. hdd_fw_down \/ ReinitStep \/ UNCHANGED allVars => UNCHANGED <<cursor, pc, at, cur>>
  BY DEF hdd_fw_down, ReinitStep, hdd_soc_recovery_reinit, reinit_test, reinit_clear, allVars,
         vars, threadVars, osifVars
<1>8. QED
  BY <1>4, <1>5, <1>6, <1>7 DEF OsifNext

-----------------------------------------------------------------------------
(***************************************************************************)
(* The theorems.                                                           *)
(***************************************************************************)
LEMMA OsifInitInv == OsifInit => OsifInv
<1> SUFFICES ASSUME OsifInit PROVE OsifInv
  OBVIOUS
<1> USE TreeFacts, DscAssumption, OsifAssumption DEF DscAssumption, OsifAssumption, OsifInit
<1>1. TypeOK
  <2>1. queue \in [Nodes -> Seq(Threads)] /\ attached \subseteq Nodes
    BY DEF Nodes
  <2>2. done \in [Nodes -> 0 .. DoneMax] /\ count \in [Nodes -> Nat]
    OBVIOUS
  <2>3. QED
    BY <2>1, <2>2 DEF TypeOK
<1>2. PcLink /\ OwnerLink /\ QueueLink /\ LiveExclusion
  BY DEF PcLink, OwnerLink, Holds, QueueLink, LiveExclusion, Nodes
<1>3. OpsCounted
  <2>1. \A n \in Nodes : OpsOn(n) = {}
    BY DEF OpsOn
  <2>2. QED
    BY <2>1, FS_EmptySet DEF OpsCounted
<1>4. FlowLink
  BY DEF FlowLink, FlowType, FlowNames, Phases, FlowAt, FlowOf
<1>5. NodeLink
  BY DEF NodeLink, NodeAt, Changes, Hidden
<1>6. DrainLink /\ CursorLink
  BY DEF DrainLink, DrainAt, DrainOf, CursorLink
<1>7. QED
  BY <1>1, <1>2, <1>3, <1>4, <1>5, <1>6 DEF OsifInv, TreeInv

\* A transition that was usurped stays so.
LEMMA UsurpedStays == [OsifNext]_allVars /\ ~usurped' => ~usurped
<1> SUFFICES ASSUME [OsifNext]_allVars, ~usurped' PROVE ~usurped
  OBVIOUS
<1> USE DEF osifVars, ssrVars
<1>1. ASSUME NEW t \in Threads, BeginFlow(t) PROVE usurped' = usurped
  BY <1>1 DEF BeginFlow, osif_sync_op_start, osif_sync_trans_start, osif_sync_lookup, osif_vdev_sync_create
<1>2. ASSUME NEW t \in Threads, Continue(t) PROVE ~usurped
  <2>1. CASE \/ osif_sync_op_stop(t) \/ osif_sync_start_wait_callback(t) \/ osif_sync_start_refused(t)
             \/ osif_sync_tran_wait(t) \/ osif_sync_wait_for_ops(t) \/ dsc_for_each_wake(t)
             \/ \E m \in Nodes : dsc_for_each_load(t, m) \/ dsc_for_each_visit(t, m)
    BY <2>1 DEF osif_sync_op_stop, osif_sync_start_wait_callback, osif_sync_start_refused, osif_sync_tran_wait,
                osif_sync_wait_for_ops, dsc_for_each_wake, dsc_for_each_load, dsc_for_each_visit
  <2>2. CASE \/ osif_sync_trans_stop(t) \/ add_trans_start(t) \/ osif_vdev_sync_register(t)
             \/ add_trans_stop(t) \/ osif_vdev_sync_unregister(t) \/ del_trans_stop(t)
    BY <2>2 DEF osif_sync_trans_stop, add_trans_start, osif_vdev_sync_register, add_trans_stop,
                osif_vdev_sync_unregister, del_trans_stop
  <2>3. CASE \/ dsc_vdev_destroy_abort(t) \/ dsc_vdev_destroy_detach(t)
             \/ hdd_soc_recovery_shutdown(t) \/ recovery_trans_stop(t)
    BY <2>3 DEF dsc_vdev_destroy_abort, dsc_vdev_destroy_detach, hdd_soc_recovery_shutdown, recovery_trans_stop
  <2>4. CASE recovery_trans_stop_unheld(t)
    BY <2>4 DEF recovery_trans_stop_unheld
  <2> QED BY <1>2, <2>1, <2>2, <2>3, <2>4 DEF Continue
<1>3. ASSUME hdd_fw_down \/ ReinitStep \/ UNCHANGED allVars PROVE usurped' = usurped
  BY <1>3 DEF hdd_fw_down, ReinitStep, hdd_soc_recovery_reinit, reinit_test, reinit_clear, allVars
<1> QED BY <1>1, <1>2, <1>3 DEF OsifNext

\* The invariant of the synchronization contexts is inductive, until a recovery
\* without a transition (wlan_hdd_driver_ops.c:1149) stops or triggers another's.
THEOREM OsifInvariance == OsifSpec => [](~usurped => OsifInv)
<1>1. (~usurped => OsifInv) /\ [OsifNext]_allVars => (~usurped' => OsifInv')
  <2> SUFFICES ASSUME ~usurped => OsifInv, [OsifNext]_allVars, ~usurped' PROVE OsifInv'
    OBVIOUS
  <2>1. OsifInv
    BY UsurpedStays
  <2>2. DrainLink'
    BY <2>1, OsifSteps, DrainNext, DestroyDrain
  <2>3. QED
    BY <2>1, <2>2, TreeInvNext, FlowNext, NodeNext, CursorNext DEF OsifInv
<1>2. QED
  BY <1>1, OsifInitInv, PTL DEF OsifSpec

\* Deleting an interface is safe for operations: none runs on one that was
\* hidden or freed, however many threads look it up meanwhile.
THEOREM OpsRunOnLiveNodes == OsifSpec => []OpsNodeLives
<1>1. (~usurped => OsifInv) => OpsNodeLives
  <2> SUFFICES ASSUME OsifInv, NEW u \in Threads, pc[u] = "op"
               PROVE  /\ at[u] \in attached
                      /\ \A t \in Threads : phase[t] \in {"hidden", "stopped", "aborted"} => ptr[t] # at[u]
    BY DEF OpsNodeLives, OsifInv, NodeLink
  <2>1. Found(at[u]) /\ at[u] \in attached
    BY DEF OsifInv, NodeLink, NodeAt, Found
  <2>2. ASSUME NEW t \in Threads, phase[t] \in {"hidden", "stopped", "aborted"}
        PROVE  ptr[t] \in Vdevs /\ ptr[t] \notin registered
    BY <2>2 DEF OsifInv, NodeLink, NodeAt, Hidden, FlowLink, FlowAt, FlowOf
  <2>3. QED
    BY <2>1, <2>2, DscAssumption DEF DscAssumption, Found
<1>2. QED
  BY <1>1, OsifInvariance, PTL

\* Recovery has the hardware to itself between shutdown and the end of reinit.
THEOREM RecoveryIsQuiet == OsifSpec => []RecoveryQuiet
<1>1. (~usurped => OsifInv) => RecoveryQuiet
  <2> DEFINE p == ptr[Platform]
  <2> SUFFICES ASSUME OsifInv, phase[Platform] = "shutdown", NEW t \in Threads \ {Platform},
                      pc[t] \in {"op", "held", "block"},
                      at[t] \in ({p} \cup VdevsOf(p)) \cap attached
               PROVE  FALSE
    BY DEF RecoveryQuiet
  <2>1. Platform \in Threads
    BY OsifAssumption DEF OsifAssumption
  <2>2. /\ pc[Platform] = "held" /\ p \in drained[Platform] /\ todo[Platform] = {}
        /\ p \in Psocs /\ p \in attached
    BY <2>1 DEF OsifInv, FlowLink, FlowAt, FlowOf, NodeLink
  <2>3. at[Platform] = p /\ p \in Nodes
    BY <2>1, <2>2 DEF OsifInv, FlowLink, FlowAt, TreeInv, PcLink, Nodes
  <2>4. at[t] \in Below(p) /\ at[t] \in Nodes
    BY <2>2, DscAssumption DEF DscAssumption, Below, DownTree, OsifInv, TreeInv, TypeOK
  <2>5. count[at[t]] = 0
    BY <2>1, <2>2, <2>3, <2>4 DEF OsifInv, DrainLink, DrainAt, DrainOf
  <2>6. pc[t] \in {"held", "block"}
    BY <2>4, <2>5, OpIsCounted DEF OsifInv, TreeInv
  <2>7. active[at[t]] = t /\ active[p] = Platform
    BY <2>1, <2>2, <2>3, <2>4, <2>6 DEF OsifInv, TreeInv, OwnerLink, Holds
  <2>8. at[t] = p
    BY <2>1, <2>2, <2>4, <2>7, TreeFacts, BelowRelated DEF OsifInv, TreeInv, LiveExclusion
  <2>9. QED
    BY <2>7, <2>8
<1>2. QED
  BY <1>1, OsifInvariance, PTL
=============================================================================
