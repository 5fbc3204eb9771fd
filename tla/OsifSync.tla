------------------------------ MODULE OsifSync ------------------------------
(***************************************************************************)
(* The synchronization contexts of qcacld-3.0/os_if/sync over the tree of  *)
(* Dsc, and the driver flows that use them: an interface is added, used    *)
(* and deleted (cfg80211), the psoc is shut down when idle and goes        *)
(* through recovery (SSR), the driver changes its mode.                    *)
(*                                                                         *)
(* A context is found by its device and points to a DSC node.  op_start    *)
(* and trans_start look it up and call DSC under the table's lock (one     *)
(* step); trans_start_wait drops that lock between the lookup and the DSC  *)
(* call.  Nodes are memory: once freed, a node is never created again.  A  *)
(* thread whose node, or whose list cursor, has been freed under it does   *)
(* nothing more: what it would do is undefined, and HolderNodeLives speaks *)
(* of the state before that.                                               *)
(*                                                                         *)
(* The psoc and the driver exist throughout (probe, remove, load and       *)
(* unload are not modelled here), so dsc_create and dsc_destroy are called *)
(* for vdevs only, and unloading stays FALSE.                              *)
(***************************************************************************)
EXTENDS Dsc

CONSTANTS
  Initial,  \* interfaces that exist at the start
  Platform, \* the platform driver's thread, which drives recovery
  Flows     \* the flows that run

ASSUME OsifAssumption ==
  /\ Initial \subseteq Vdevs
  /\ Platform \in Threads
  /\ Flows \subseteq {"op", "user", "wait", "add", "del", "idle", "mode", "ssr"}

VARIABLES
  registered, \* vdevs whose context can be found by its net_device
  freed,      \* nodes that were destroyed
  flow,       \* the flow a thread runs
  phase,      \* how far it is
  ptr,        \* the node of the context it works on
  cursor,     \* the node its unlocked list traversal stands on
  ssr,        \* how far recovery is
  fw_down,    \* what qdf_is_fw_down answers
  usurped     \* history: a recovery without a transition has stopped or begun another's

flowVars == <<flow, phase, ptr>>
ssrVars  == <<ssr, fw_down, usurped>>
osifVars == <<registered, freed, flowVars, cursor, ssrVars>>
allVars  == <<vars, osifVars>>

\* The node of a flow: interfaces, the psoc, the driver.
NodesOf(k) ==
  CASE k \in {"user", "wait", "del"} -> Vdevs
    [] k = "op" -> Nodes
    [] k \in {"idle", "ssr"} -> Psocs
    [] OTHER -> {Driver}

Found(n) == n \in registered \cup Psocs \cup {Driver}

Enter(t, k, s, n) ==
  /\ flow' = [flow EXCEPT ![t] = k]
  /\ phase' = [phase EXCEPT ![t] = s]
  /\ ptr' = [ptr EXCEPT ![t] = n]

Leave(t) == Enter(t, "none", "none", NULL)

Goto(t, s) == Enter(t, flow[t], s, ptr[t])

Begin(t, k) == k \in Flows /\ flow[t] = "none" /\ (t = Platform <=> k = "ssr")

\* cfg80211 adds and deletes interfaces with its own mutex held.
Serialised == \A u \in Threads : flow[u] \notin {"add", "del"}

\* The thread's node still exists.
Alive(t) == ptr[t] \in attached

OsifInit ==
  /\ attached = {Driver} \cup Psocs \cup Initial
  /\ active = [n \in Nodes |-> NULL] /\ queue = [n \in Nodes |-> <<>>]
  /\ count = [n \in Nodes |-> 0] /\ done = [n \in Nodes |-> 0]
  /\ tran = [t \in Threads |-> "none"] /\ pc = [t \in Threads |-> "idle"]
  /\ at = [t \in Threads |-> NULL] /\ cur = [t \in Threads |-> NULL]
  /\ todo = [t \in Threads |-> {}] /\ drained = [t \in Threads |-> {}]
  /\ recovering = FALSE /\ unloading = FALSE
  /\ registered = Initial
  /\ freed = {}
  /\ flow = [t \in Threads |-> "none"] /\ phase = [t \in Threads |-> "none"]
  /\ ptr = [t \in Threads |-> NULL] /\ cursor = [t \in Threads |-> NULL]
  /\ ssr = "up" /\ fw_down = FALSE /\ usurped = FALSE

-----------------------------------------------------------------------------
(***************************************************************************)
(* Operations: lookup and start under the table's lock.                    *)
(***************************************************************************)
osif_sync_op_start(t, n) ==
  /\ Begin(t, "op") /\ Found(n) /\ n \in NodesOf("op")
  /\ dsc_op_start(t, n)
  /\ Enter(t, "op", "op", n)
  /\ UNCHANGED <<registered, freed, cursor, ssrVars>>

osif_sync_op_stop(t) ==
  /\ flow[t] = "op" /\ Alive(t)
  /\ dsc_op_stop(t)
  /\ Leave(t)
  /\ UNCHANGED <<registered, freed, cursor, ssrVars>>

(***************************************************************************)
(* Transitions: trans_start is one locked step, trans_start_wait is a      *)
(* lookup and then the call, which starts, queues or is refused.           *)
(***************************************************************************)
osif_sync_trans_start(t, k, n) ==
  /\ k \in {"user", "idle"} /\ Begin(t, k) /\ n \in NodesOf(k) /\ Found(n)
  /\ dsc_trans_start(t, n)
  /\ Enter(t, k, "enter", n)
  /\ UNCHANGED <<registered, freed, cursor, ssrVars>>

osif_sync_lookup(t, k, n) ==
  /\ k \in {"wait", "del", "mode", "ssr"} /\ Begin(t, k) /\ n \in NodesOf(k) /\ Found(n)
  /\ k = "ssr" => ssr = "down"
  /\ k = "del" => Serialised
  /\ Enter(t, k, "call", n)
  /\ UNCHANGED <<vars, registered, freed, cursor, ssrVars>>

osif_sync_start_wait_callback(t) ==
  /\ phase[t] = "call" /\ Alive(t)
  /\ dsc_trans_start(t, ptr[t]) \/ dsc_trans_queue(t, ptr[t])
  /\ Goto(t, "enter")
  /\ UNCHANGED <<registered, freed, cursor, ssrVars>>

\* -EINVAL: from DSC, or because the destroyed context holds no node any more.
\* The platform driver does not know of it.
osif_sync_start_refused(t) ==
  /\ phase[t] = "call"
  /\ ~Alive(t) \/ dsc_can_trans(ptr[t]) = "E_INVAL"
  /\ \/ flow[t] # "ssr" /\ Leave(t) /\ UNCHANGED ssr
     \/ flow[t] = "ssr" /\ Goto(t, "refused") /\ ssr' = "refused"
  /\ UNCHANGED <<vars, registered, freed, cursor, fw_down, usurped>>

osif_sync_tran_wait(t) ==
  /\ phase[t] = "enter"
  /\ dsc_tran_wait(t)
  /\ IF tran[t] = "granted" THEN UNCHANGED flowVars ELSE Leave(t)
  /\ UNCHANGED <<registered, freed, cursor, ssrVars>>

(***************************************************************************)
(* The waits that follow a start: vdev transitions wait for their own and  *)
(* for up-tree operations inside trans_start[_wait], psoc and driver flows *)
(* call wait_for_ops themselves.  A list traversal loads its next node     *)
(* without the lock and visits it with the lock held.                      *)
(***************************************************************************)
osif_sync_wait_for_ops(t) ==
  /\ phase[t] = "enter" /\ flow[t] # "add" /\ Alive(t)
  /\ \/ dsc_wait_for_ops(t)
     \/ at[t] \in drained[t] /\ dsc_vdev_wait_for_uptree_ops(t, at[t]) /\ at[t] \in Vdevs
  /\ UNCHANGED osifVars

Listed(t, m) == m \in DownTree(at[t])

dsc_for_each_load(t, m) ==
  /\ pc[t] = "held" /\ Alive(t)
  /\ cursor[t] = NULL
  /\ NextToVisit(t, m) /\ Listed(t, m)
  /\ cursor' = [cursor EXCEPT ![t] = m]
  /\ UNCHANGED <<vars, registered, freed, flowVars, ssrVars>>

dsc_for_each_visit(t, m) ==
  /\ Alive(t) /\ m \in attached
  /\ cursor[t] = IF Listed(t, m) THEN m ELSE NULL
  /\ dsc_ops_skip(t, m) \/ dsc_ops_block(t, m)
  /\ cursor' = [cursor EXCEPT ![t] = IF pc'[t] = "block" THEN cursor[t] ELSE NULL]
  /\ UNCHANGED <<registered, freed, flowVars, ssrVars>>

dsc_for_each_wake(t) ==
  /\ Alive(t) /\ cur[t] \in attached
  /\ dsc_ops_wake(t)
  /\ cursor' = [cursor EXCEPT ![t] = NULL]
  /\ UNCHANGED <<registered, freed, flowVars, ssrVars>>

\* All the waits of the flow are behind it.
Ready(t) ==
  /\ pc[t] = "held" /\ todo[t] = {} /\ Alive(t)
  /\ {ptr[t]} \cup (IF ptr[t] \in Vdevs THEN Uptree(ptr[t]) ELSE {}) \subseteq drained[t]

\* The flow is done with its node and ends its transition.
osif_sync_trans_stop(t) ==
  /\ phase[t] = "enter" /\ flow[t] \in {"user", "wait", "idle", "mode"} /\ Ready(t)
  /\ dsc_trans_stop(t)
  /\ Leave(t)
  /\ UNCHANGED <<registered, freed, cursor, ssrVars>>
-----------------------------------------------------------------------------
(***************************************************************************)
(* wlan_hdd_add_virtual_intf: create, start, set the interface up, make it *)
(* known, stop; if it fails, stop and destroy.                             *)
(***************************************************************************)
osif_vdev_sync_create(t, v) ==
  /\ Begin(t, "add") /\ Serialised /\ v \notin freed
  /\ dsc_vdev_create(v)
  /\ Enter(t, "add", "created", v)
  /\ UNCHANGED <<registered, freed, cursor, ssrVars>>

add_trans_start(t) ==
  /\ flow[t] = "add" /\ phase[t] = "created"
  /\ IF dsc_can_trans(ptr[t]) = "SUCCESS"
     THEN dsc_trans_start(t, ptr[t]) /\ Goto(t, "enter")
     ELSE UNCHANGED vars /\ Goto(t, "stopped")
  /\ UNCHANGED <<registered, freed, cursor, ssrVars>>

osif_vdev_sync_register(t) ==
  /\ flow[t] = "add" /\ phase[t] = "enter"
  /\ registered' = registered \cup {ptr[t]}
  /\ Goto(t, "registered")
  /\ UNCHANGED <<vars, freed, cursor, ssrVars>>

add_trans_stop(t) ==
  /\ flow[t] = "add"
  /\ dsc_trans_stop(t)
  /\ \/ phase[t] = "registered" /\ Leave(t)
     \/ phase[t] = "enter" /\ Goto(t, "stopped")
  /\ UNCHANGED <<registered, freed, cursor, ssrVars>>

(***************************************************************************)
(* wlan_hdd_del_virtual_intf: with the transition, hide the interface,     *)
(* wait for its operations, tear it down, stop, destroy.  That second wait *)
(* has nothing to wait for (DrainedQuiet) and is no step.                  *)
(***************************************************************************)
\* (mutant) the interface is not hidden.
osif_vdev_sync_unregister_skipped(t) ==
  /\ flow[t] = "del" /\ phase[t] = "enter" /\ Ready(t)
  /\ Goto(t, "hidden")
  /\ UNCHANGED <<vars, registered, freed, cursor, ssrVars>>

osif_vdev_sync_unregister(t) ==
  /\ flow[t] = "del" /\ phase[t] = "enter" /\ Ready(t)
  /\ registered' = registered \ {ptr[t]}
  /\ Goto(t, "hidden")
  /\ UNCHANGED <<vars, freed, cursor, ssrVars>>

del_trans_stop(t) ==
  /\ flow[t] = "del" /\ phase[t] = "hidden" /\ Alive(t)
  /\ dsc_trans_stop(t)
  /\ Goto(t, "stopped")
  /\ UNCHANGED <<registered, freed, cursor, ssrVars>>

\* osif_vdev_sync_destroy: dsc_vdev_destroy aborts the waiters, not locked ...
dsc_vdev_destroy_abort(t) ==
  /\ phase[t] = "stopped" /\ Alive(t)
  /\ tran' = [u \in Threads |-> IF \E i \in DOMAIN queue[ptr[t]] : queue[ptr[t]][i] = u
                                THEN "aborted" ELSE tran[u]]
  /\ queue' = [queue EXCEPT ![ptr[t]] = <<>>]
  /\ Goto(t, "aborted")
  /\ UNCHANGED <<attached, active, count, done, pc, at, todo, cur, drained, flagVars>>
  /\ UNCHANGED <<registered, freed, cursor, ssrVars>>

\* ... takes the node off its parent's list with the lock held, and frees it.
dsc_vdev_destroy_detach(t) ==
  /\ phase[t] = "aborted" /\ Alive(t)
  /\ attached' = attached \ {ptr[t]}
  /\ freed' = freed \cup {ptr[t]}
  /\ todo' = [u \in Threads |-> IF cursor[u] = ptr[t] THEN todo[u] ELSE todo[u] \ {ptr[t]}]
  /\ Leave(t)
  /\ UNCHANGED <<active, queue, count, done, tran, pc, at, cur, drained, flagVars>>
  /\ UNCHANGED <<registered, cursor, ssrVars>>
-----------------------------------------------------------------------------
(***************************************************************************)
(* Recovery: the firmware goes down, the platform driver calls shutdown,   *)
(* which starts the psoc's transition, resets the hardware and, when the   *)
(* firmware is there again, calls reinit, which ends the transition.  It   *)
(* calls reinit whether or not shutdown got the transition.  The firmware  *)
(* may go down again at any point of reinit; the next recovery begins when *)
(* this one has ended, as the platform driver's worker runs both.          *)
(***************************************************************************)
\* The platform driver's flag, and then PLD_FW_DOWN.
hdd_fw_down ==
  /\ "ssr" \in Flows /\ ssr \in {"up", "reinit", "ready", "resumed"}
  /\ ~fw_down
  /\ fw_down' = TRUE
  /\ recovering' = TRUE
  /\ ssr' = IF ssr = "up" THEN "down" ELSE ssr
  /\ UNCHANGED <<treeVars, threadVars, unloading, registered, freed, flowVars, cursor, usurped>>

\* (mutant) the transition is taken to be ended by the shutdown.
hdd_soc_recovery_shutdown_stops(t) ==
  /\ flow[t] = "ssr" /\ phase[t] = "enter" /\ Ready(t)
  /\ ssr' = "off"
  /\ dsc_trans_stop(t)
  /\ Goto(t, "shutdown")
  /\ UNCHANGED <<registered, freed, cursor, fw_down, usurped>>

hdd_soc_recovery_shutdown(t) ==
  /\ flow[t] = "ssr" /\ phase[t] = "enter" /\ Ready(t)
  /\ ssr' = "off"
  /\ Goto(t, "shutdown")
  /\ UNCHANGED <<vars, registered, freed, cursor, fw_down, usurped>>

\* The firmware has come up, and the driver is initialized anew.
hdd_soc_recovery_reinit ==
  /\ ssr \in {"off", "refused"}
  /\ fw_down' = FALSE
  /\ ssr' = "reinit"
  /\ UNCHANGED <<vars, registered, freed, flowVars, cursor, usurped>>

\* A reinit that fails, or finds the firmware down again, stays in recovery ...
reinit_test ==
  /\ ssr = "reinit"
  /\ ssr' \in IF fw_down THEN {"resumed"} ELSE {"ready", "resumed"}
  /\ UNCHANGED <<vars, registered, freed, flowVars, cursor, fw_down, usurped>>

\* ... and one that found it up ends it, whatever has happened since.
reinit_clear ==
  /\ ssr = "ready"
  /\ recovering' = FALSE
  /\ ssr' = "resumed"
  /\ UNCHANGED <<treeVars, threadVars, unloading, registered, freed, flowVars, cursor, fw_down, usurped>>

recovery_trans_stop(t) ==
  /\ flow[t] = "ssr" /\ phase[t] = "shutdown" /\ ssr = "resumed"
  /\ dsc_trans_stop(t)
  /\ ssr' = IF fw_down THEN "down" ELSE "up"
  /\ Leave(t)
  /\ UNCHANGED <<registered, freed, cursor, fw_down, usurped>>

\* The same call where shutdown was refused: osif_psoc_sync_trans_resume has only
\* asserted that some transition is there, and the stop ends whichever the
\* psoc has and triggers as if it had been the only one on its branch.  (Debug
\* builds panic on the assertions if there is none.)
recovery_trans_stop_unheld(t) ==
  LET n    == ptr[t]
      act  == [active EXCEPT ![n] = NULL]
      trig == dsc_psoc_trigger_trans(act, n)
  IN  /\ flow[t] = "ssr" /\ phase[t] = "refused" /\ ssr = "resumed"
      /\ active' = [m \in Nodes |-> IF m \in trig THEN Head(queue[m]) ELSE act[m]]
      /\ queue' = [m \in Nodes |-> IF m \in trig THEN Tail(queue[m]) ELSE queue[m]]
      /\ tran' = [u \in Threads |-> IF \E m \in trig : Head(queue[m]) = u THEN "granted" ELSE tran[u]]
      /\ usurped' = (usurped \/ active[n] # NULL \/ trig # {})
      /\ ssr' = IF fw_down THEN "down" ELSE "up"
      /\ Leave(t)
      /\ UNCHANGED <<attached, count, done, pc, at, todo, cur, drained, flagVars>>
      /\ UNCHANGED <<registered, freed, cursor, fw_down>>
-----------------------------------------------------------------------------
\* A thread begins a flow ...
BeginFlow(t) ==
  \/ \E n \in Nodes : osif_sync_op_start(t, n)
  \/ \E k \in Flows, n \in Nodes : osif_sync_trans_start(t, k, n)
  \/ \E k \in Flows, n \in Nodes : osif_sync_lookup(t, k, n)
  \/ \E v \in Vdevs : osif_vdev_sync_create(t, v)

\* ... and goes on with it.
Continue(t) ==
  \/ osif_sync_op_stop(t)
  \/ osif_sync_start_wait_callback(t)
  \/ osif_sync_start_refused(t)
  \/ osif_sync_tran_wait(t)
  \/ osif_sync_wait_for_ops(t)
  \/ \E m \in Nodes : dsc_for_each_load(t, m) \/ dsc_for_each_visit(t, m)
  \/ dsc_for_each_wake(t)
  \/ osif_sync_trans_stop(t)
  \/ add_trans_start(t)
  \/ osif_vdev_sync_register(t)
  \/ add_trans_stop(t)
  \/ osif_vdev_sync_unregister(t)
  \/ del_trans_stop(t)
  \/ dsc_vdev_destroy_abort(t)
  \/ dsc_vdev_destroy_detach(t)
  \/ hdd_soc_recovery_shutdown(t)
  \/ recovery_trans_stop(t)
  \/ recovery_trans_stop_unheld(t)

ReinitStep == hdd_soc_recovery_reinit \/ reinit_test \/ reinit_clear

OsifNext ==
  \/ \E t \in Threads : BeginFlow(t) \/ Continue(t)
  \/ hdd_fw_down
  \/ ReinitStep

OsifSpec == OsifInit /\ [][OsifNext]_allVars

(***************************************************************************)
(* Every thread goes on with its flow, the platform driver calls shutdown  *)
(* after the firmware went down and reinit after shutdown; nobody has to   *)
(* begin anything else.                                                    *)
(***************************************************************************)
OsifFairness ==
  /\ \A t \in Threads : WF_allVars(Continue(t))
  /\ WF_allVars(BeginFlow(Platform))
  /\ WF_allVars(ReinitStep)

OsifFairSpec == OsifSpec /\ OsifFairness
-----------------------------------------------------------------------------
(***************************************************************************)
(* Properties.                                                             *)
(***************************************************************************)
\* An operation never runs on an interface that a delete has hidden, nor on a
\* freed one, although the delete ends its transition in between: what
\* __wlan_hdd_del_virtual_intf tears down and osif_vdev_sync_destroy frees has
\* no operation in flight, then or later, and no look-up finds it.  It ends when
\* a recovery that was refused its transition stops somebody else's.
OpsNodeLives ==
  ~usurped =>
    /\ registered \subseteq attached \cap Vdevs
    /\ \A u \in Threads : pc[u] = "op" =>
         /\ at[u] \in attached
         /\ \A t \in Threads : phase[t] \in {"hidden", "stopped", "aborted"} => ptr[t] # at[u]

\* While the hardware is down, between a recovery shutdown that got its
\* transition and the end of reinit, no operation and no other transition is in
\* flight on the psoc or on an interface of it that exists, also if the
\* firmware goes down again; until a refused recovery (see OpsNodeLives).
RecoveryQuiet ==
  ~usurped /\ phase[Platform] = "shutdown" =>
    \A t \in Threads \ {Platform} :
      pc[t] \in {"op", "held", "block"} =>
        at[t] \notin ({ptr[Platform]} \cup VdevsOf(ptr[Platform])) \cap attached

\* A thread whose trans_start[_wait] was granted holds a transition of a
\* context that exists (dsc_vdev_destroy "aborts all queued transitions").
HolderNodeLives ==
  \A t \in Threads :
    pc[t] \in {"held", "block"} \/ tran[t] = "granted" => at[t] \in attached

\* What recovery does not survive: a transition of an interface that is freed under
\* its holder, a list traversal on one (wlan_dsc_psoc.c:382), a sleeper whom an
\* up-tree wait has stranded, and a transition that an earlier recovery, refused
\* its own, has usurped.
Undisturbed ==
  /\ HolderNodeLives
  /\ \A t \in Threads : cursor[t] \notin freed
  /\ NoStrandedWaiter
  /\ ~usurped

NewModeChange == \E t \in Threads : flow[t] # "mode" /\ flow'[t] = "mode"

\* As long as it is undisturbed, recovery, once the firmware is down, completes:
\* whoever else uses the psoc and its interfaces lets it have its transition, and a
\* failure in the middle of reinit is recovered from in its turn.  The firmware
\* has to stay up some time, and changes of the driver's mode to stop, which
\* have precedence.
RecoveryCompletes ==
  /\ <>[][~hdd_fw_down /\ ~NewModeChange]_allVars
  /\ []Undisturbed
  => (ssr = "down" ~> ssr = "up")
=============================================================================
