-------------------------------- MODULE Dsc --------------------------------
(***************************************************************************)
(* The Driver Synchronization Core of the WLAN host driver                 *)
(* (qcacld-3.0/components/dsc): a tree of one driver, its psocs (SoCs) and *)
(* their vdevs (network interfaces).  Every node carries transitions, at   *)
(* most one in flight and a FIFO of waiters, and operations, any number in *)
(* flight.  A transition excludes transitions and new operations on its    *)
(* own node, on every ancestor and on every descendant; before it does its *)
(* work it waits for the operations that were in flight when it started.   *)
(*                                                                         *)
(* All the sections the code runs under dsc_driver.lock are single         *)
(* actions; the places where a thread sleeps (a queued transition, the     *)
(* wait for operations) are steps of their own.  A call that is refused    *)
(* (-EAGAIN, -EINVAL, -EBUSY) changes no state and is not a step.          *)
(*                                                                         *)
(* A thread is one call sequence: a transition (start, optional waits,     *)
(* stop) or one operation (start, stop).  A task with several operations   *)
(* in flight is several threads here; a transition begun by one task and   *)
(* ended by another (SSR shutdown and re-init) is one thread.              *)
(***************************************************************************)
EXTENDS Naturals, Sequences, FiniteSets

CONSTANTS
  Driver,   \* the root of the tree
  Psocs,    \* psoc contexts
  Vdevs,    \* vdev contexts
  PsocOf,   \* vdev->psoc
  Threads,  \* call sequences that use the tree
  NULL,     \* no transition in flight, no node
  DoneMax   \* where the kernel's completion counter saturates (UINT_MAX)

Nodes == {Driver} \cup Psocs \cup Vdevs

ASSUME DscAssumption ==
  /\ Driver \notin Psocs \cup Vdevs
  /\ Psocs \cap Vdevs = {}
  /\ PsocOf \in [Vdevs -> Psocs]
  /\ NULL \notin Threads \cup Nodes
  /\ IsFiniteSet(Threads)
  /\ DoneMax \in Nat \ {0}

VARIABLES
  attached,   \* nodes that exist and are on their parent's list
  active,     \* trans.active_desc: the transition in flight on a node
  queue,      \* trans.queue: the transitions waiting on a node
  tran,       \* a waiter's dsc_tran: event pending, granted or aborted
  count,      \* ops.count
  done,       \* ops.event: the completion counter behind the event
  pc,         \* where a thread is
  at,         \* the node a thread's transition or operation is on
  todo,       \* nodes a thread has still to visit in *_wait_for_ops
  cur,        \* the node whose ops.event a thread sleeps on
  drained,    \* nodes a thread has seen without operations
  recovering, \* qdf_is_recovering()
  unloading   \* qdf_is_driver_unloading()

treeVars   == <<attached, active, queue, count, done>>
threadVars == <<tran, pc, at, todo, cur, drained>>
flagVars   == <<recovering, unloading>>
vars       == <<treeVars, threadVars, flagVars>>

(***************************************************************************)
(* The shape of the tree.                                                  *)
(***************************************************************************)
VdevsOf(p) == {v \in Vdevs : PsocOf[v] = p}

Parent(n) == IF n \in Vdevs THEN PsocOf[n] ELSE IF n \in Psocs THEN Driver ELSE NULL

Children(n) == IF n = Driver THEN Psocs ELSE IF n \in Psocs THEN VdevsOf(n) ELSE {}

\* Strict ancestors and strict descendants.
Uptree(n)   == IF n \in Vdevs THEN {PsocOf[n], Driver} ELSE IF n \in Psocs THEN {Driver} ELSE {}
DownTree(n) == IF n = Driver THEN Psocs \cup Vdevs ELSE IF n \in Psocs THEN VdevsOf(n) ELSE {}

Related(m, n) == m = n \/ m \in Uptree(n) \/ m \in DownTree(n)

-----------------------------------------------------------------------------
(***************************************************************************)
(* dsc_trans queries, and the checks that guard every start.               *)
(***************************************************************************)
dsc_trans_active(act, n) == act[n] # NULL

dsc_trans_queued(n) == queue[n] # <<>>

dsc_trans_active_or_queued(n) == dsc_trans_active(active, n) \/ dsc_trans_queued(n)

dsc_driver_trans_active_down_tree(act) ==
  \E n \in (Psocs \cup Vdevs) \cap attached : dsc_trans_active(act, n)

dsc_psoc_trans_active_down_tree(act, p) ==
  \E v \in VdevsOf(p) \cap attached : dsc_trans_active(act, v)

\* (mutant) the driver forgets to look at its children.
dsc_driver_can_trans_no_down == IF dsc_trans_active_or_queued(Driver) THEN "E_AGAIN" ELSE "SUCCESS"

dsc_driver_can_trans ==
  IF dsc_trans_active_or_queued(Driver) \/ dsc_driver_trans_active_down_tree(active)
  THEN "E_AGAIN"
  ELSE "SUCCESS"

\* (mutant) the psoc forgets to look at its vdevs.
dsc_psoc_can_trans_no_down(p) ==
  IF dsc_trans_active_or_queued(Driver) THEN "E_INVAL"
  ELSE IF dsc_trans_active_or_queued(p) THEN "E_AGAIN" ELSE "SUCCESS"

dsc_psoc_can_trans(p) ==
  IF dsc_trans_active_or_queued(Driver)
  THEN "E_INVAL"
  ELSE IF dsc_trans_active_or_queued(p) \/ dsc_psoc_trans_active_down_tree(active, p)
  THEN "E_AGAIN"
  ELSE "SUCCESS"

\* (mutant) only a driver transition in flight counts, not one that waits.
dsc_vdev_can_trans_active_only(v) ==
  IF dsc_trans_active(active, Driver) \/ recovering
  THEN "E_INVAL"
  ELSE IF dsc_trans_active_or_queued(PsocOf[v])
  THEN IF unloading THEN "E_INVAL" ELSE "E_BUSY"
  ELSE IF dsc_trans_active_or_queued(v) THEN "E_BUSY" ELSE "SUCCESS"

dsc_vdev_can_trans(v) ==
  IF dsc_trans_active_or_queued(Driver) \/ recovering
  THEN "E_INVAL"
  ELSE IF dsc_trans_active_or_queued(PsocOf[v])
  THEN IF unloading THEN "E_INVAL" ELSE "E_BUSY"
  ELSE IF dsc_trans_active_or_queued(v) THEN "E_BUSY" ELSE "SUCCESS"

dsc_can_trans(n) ==
  IF n = Driver THEN dsc_driver_can_trans
  ELSE IF n \in Psocs THEN dsc_psoc_can_trans(n) ELSE dsc_vdev_can_trans(n)

dsc_driver_can_trigger(act) ==
  ~dsc_trans_active(act, Driver) /\ ~dsc_driver_trans_active_down_tree(act)

dsc_psoc_can_trigger(act, p) ==
  /\ ~dsc_trans_active(act, Driver) /\ ~dsc_trans_queued(Driver)
  /\ ~dsc_trans_active(act, p)
  /\ ~dsc_psoc_trans_active_down_tree(act, p)

-----------------------------------------------------------------------------
(***************************************************************************)
(* What a stop triggers: the set of nodes whose first waiter is started.   *)
(* act is active after the stopped transition has been cleared.  A parent  *)
(* with a waiter "handles" the trigger even if it has to wait for more     *)
(* children, and then nothing below it is started.                         *)
(***************************************************************************)
dsc_driver_trans_trigger_checked(act) ==
  IF dsc_driver_can_trigger(act) THEN {Driver} ELSE {}

dsc_psoc_trans_trigger_checked(act, p) ==
  IF dsc_psoc_can_trigger(act, p) THEN {p} ELSE {}

\* (mutant) the walk over the psocs does not descend to their vdevs.
dsc_driver_trigger_trans_no_vdevs ==
  IF dsc_trans_queued(Driver) THEN {Driver} ELSE {p \in Psocs \cap attached : dsc_trans_queued(p)}

dsc_driver_trigger_trans ==
  IF dsc_trans_queued(Driver)
  THEN {Driver}
  ELSE {p \in Psocs \cap attached : dsc_trans_queued(p)}
         \cup {v \in Vdevs \cap attached : dsc_trans_queued(v) /\ ~dsc_trans_queued(PsocOf[v])}

dsc_psoc_trigger_trans(act, p) ==
  IF dsc_trans_queued(Driver)
  THEN dsc_driver_trans_trigger_checked(act)
  ELSE IF dsc_trans_queued(p)
  THEN {p}
  ELSE {v \in VdevsOf(p) \cap attached : dsc_trans_queued(v)}

\* (mutant) a vdev's stop looks at its own queue only.
dsc_vdev_trigger_trans_self(act, v) == {n \in {v} : dsc_trans_queued(n)}

dsc_vdev_trigger_trans(act, v) ==
  IF dsc_trans_queued(Driver)
  THEN dsc_driver_trans_trigger_checked(act)
  ELSE IF dsc_trans_queued(PsocOf[v])
  THEN dsc_psoc_trans_trigger_checked(act, PsocOf[v])
  ELSE {n \in {v} : dsc_trans_queued(n)}

dsc_trigger_trans(act, n) ==
  IF n = Driver THEN dsc_driver_trigger_trans
  ELSE IF n \in Psocs THEN dsc_psoc_trigger_trans(act, n) ELSE dsc_vdev_trigger_trans(act, n)

-----------------------------------------------------------------------------
Init ==
  /\ attached   = {}
  /\ active     = [n \in Nodes |-> NULL]
  /\ queue      = [n \in Nodes |-> <<>>]
  /\ count      = [n \in Nodes |-> 0]
  /\ done       = [n \in Nodes |-> 0]
  /\ tran       = [t \in Threads |-> "none"]
  /\ pc         = [t \in Threads |-> "idle"]
  /\ at         = [t \in Threads |-> NULL]
  /\ todo       = [t \in Threads |-> {}]
  /\ cur        = [t \in Threads |-> NULL]
  /\ drained    = [t \in Threads |-> {}]
  /\ recovering = FALSE
  /\ unloading  = FALSE

(***************************************************************************)
(* dsc_{driver,psoc,vdev}_create and _destroy.  Destroy aborts the queued  *)
(* transitions, detaches and frees the node; its callers owe it what the   *)
(* code asserts (no children, no operation in flight) and what it relies   *)
(* on silently: no transition in flight on the node, no thread about to    *)
(* read it in an unlocked *_wait_for_ops traversal, and no call on it from *)
(* the (unlocked) abort to the detach.  OsifSync has the real steps, and   *)
(* asks whether the callers keep to that.                                  *)
(***************************************************************************)
dsc_create(n) ==
  /\ n \notin attached
  /\ n # Driver => Parent(n) \in attached
  /\ attached' = attached \cup {n}
  /\ UNCHANGED <<active, queue, count, done, threadVars, flagVars>>

Quiescent(n) ==
  /\ active[n] = NULL
  /\ count[n] = 0
  /\ Children(n) \cap attached = {}
  /\ \A t \in Threads : n \notin todo[t]

dsc_destroy(n) ==
  /\ n \in attached
  /\ Quiescent(n)
  /\ tran' = [t \in Threads |-> IF \E i \in DOMAIN queue[n] : queue[n][i] = t
                                THEN "aborted" ELSE tran[t]]
  /\ queue' = [queue EXCEPT ![n] = <<>>]
  /\ attached' = attached \ {n}
  /\ done' = [done EXCEPT ![n] = 0]
  /\ UNCHANGED <<active, count, pc, at, todo, cur, drained, flagVars>>

(***************************************************************************)
(* Transitions.                                                            *)
(***************************************************************************)
\* dsc_*_trans_start, and the path of dsc_*_trans_start_wait that does not wait.
dsc_trans_start(t, n) ==
  /\ pc[t] = "idle"
  /\ n \in attached
  /\ dsc_can_trans(n) = "SUCCESS"
  /\ active' = [active EXCEPT ![n] = t]
  /\ pc' = [pc EXCEPT ![t] = "held"]
  /\ at' = [at EXCEPT ![t] = n]
  /\ UNCHANGED <<attached, queue, count, done, tran, todo, cur, drained, flagVars>>

\* The path of dsc_*_trans_start_wait that queues; -EINVAL is never queued.
dsc_trans_queue(t, n) ==
  /\ pc[t] = "idle"
  /\ n \in attached
  /\ dsc_can_trans(n) \in {"E_AGAIN", "E_BUSY"}
  /\ queue' = [queue EXCEPT ![n] = Append(queue[n], t)]
  /\ tran' = [tran EXCEPT ![t] = "pending"]
  /\ pc' = [pc EXCEPT ![t] = "queued"]
  /\ at' = [at EXCEPT ![t] = n]
  /\ UNCHANGED <<attached, active, count, done, todo, cur, drained, flagVars>>

\* The waiter's event was set: by a trigger (success) or by a destroy (abort).
dsc_tran_wait(t) ==
  /\ pc[t] = "queued"
  /\ tran[t] # "pending"
  /\ pc' = [pc EXCEPT ![t] = IF tran[t] = "granted" THEN "held" ELSE "idle"]
  /\ at' = [at EXCEPT ![t] = IF tran[t] = "granted" THEN at[t] ELSE NULL]
  /\ tran' = [tran EXCEPT ![t] = "none"]
  /\ UNCHANGED <<treeVars, todo, cur, drained, flagVars>>

\* dsc_*_trans_stop: clear the transition and trigger the next ones.
dsc_trans_stop(t) ==
  LET n    == at[t]
      act  == [active EXCEPT ![n] = NULL]
      trig == dsc_trigger_trans(act, n)
  IN  /\ pc[t] = "held"
      /\ todo[t] = {}
      /\ active' = [m \in Nodes |-> IF m \in trig THEN Head(queue[m]) ELSE act[m]]
      /\ queue' = [m \in Nodes |-> IF m \in trig THEN Tail(queue[m]) ELSE queue[m]]
      /\ tran' = [u \in Threads |-> IF \E m \in trig : Head(queue[m]) = u
                                    THEN "granted" ELSE tran[u]]
      /\ pc' = [pc EXCEPT ![t] = "idle"]
      /\ at' = [at EXCEPT ![t] = NULL]
      /\ drained' = [drained EXCEPT ![t] = {}]
      /\ UNCHANGED <<attached, count, done, todo, cur, flagVars>>

(***************************************************************************)
(* Operations.                                                             *)
(***************************************************************************)
\* (mutant) the operation is admitted but not counted.
dsc_op_start_uncounted(t, n) ==
  /\ pc[t] = "idle"
  /\ n \in attached
  /\ dsc_can_trans(n) = "SUCCESS"
  /\ pc' = [pc EXCEPT ![t] = "op"]
  /\ at' = [at EXCEPT ![t] = n]
  /\ UNCHANGED <<treeVars, tran, todo, cur, drained, flagVars>>

dsc_op_start(t, n) ==
  /\ pc[t] = "idle"
  /\ n \in attached
  /\ dsc_can_trans(n) = "SUCCESS"
  /\ count' = [count EXCEPT ![n] = count[n] + 1]
  /\ pc' = [pc EXCEPT ![t] = "op"]
  /\ at' = [at EXCEPT ![t] = n]
  /\ UNCHANGED <<attached, active, queue, done, tran, todo, cur, drained, flagVars>>

\* complete(): one waiter's worth of wake-up, saturating.
complete(d) == IF d = DoneMax THEN d ELSE d + 1

\* (mutant) the count is tested before it is decremented.
dsc_op_stop_tests_first(t) ==
  LET n == at[t]
  IN  /\ pc[t] = "op"
      /\ count' = [count EXCEPT ![n] = count[n] - 1]
      /\ done' = [done EXCEPT ![n] = IF count[n] = 0 THEN complete(done[n]) ELSE done[n]]
      /\ pc' = [pc EXCEPT ![t] = "idle"]
      /\ at' = [at EXCEPT ![t] = NULL]
      /\ UNCHANGED <<attached, active, queue, tran, todo, cur, drained, flagVars>>

\* dsc_*_op_stop: the last operation sets the node's event.
dsc_op_stop(t) ==
  LET n == at[t]
  IN  /\ pc[t] = "op"
      /\ count' = [count EXCEPT ![n] = count[n] - 1]
      /\ done' = [done EXCEPT ![n] = IF count[n] = 1 THEN complete(done[n]) ELSE done[n]]
      /\ pc' = [pc EXCEPT ![t] = "idle"]
      /\ at' = [at EXCEPT ![t] = NULL]
      /\ UNCHANGED <<attached, active, queue, tran, todo, cur, drained, flagVars>>

(***************************************************************************)
(* The waits for operations, called with a transition in flight.           *)
(***************************************************************************)
\* dsc_*_wait_for_ops: the node and then everything below it.
dsc_wait_for_ops(t) ==
  /\ pc[t] = "held"
  /\ todo[t] = {}
  /\ at[t] \notin drained[t]
  /\ todo' = [todo EXCEPT ![t] = {at[t]} \cup (DownTree(at[t]) \cap attached)]
  /\ UNCHANGED <<treeVars, tran, pc, at, cur, drained, flagVars>>

\* dsc_vdev_wait_for_uptree_ops: the psoc and then the driver.
dsc_vdev_wait_for_uptree_ops(t, v) ==
  /\ pc[t] = "held"
  /\ at[t] = v
  /\ todo[t] = {}
  /\ Driver \notin drained[t]
  /\ todo' = [todo EXCEPT ![t] = Uptree(v)]
  /\ UNCHANGED <<treeVars, tran, pc, at, cur, drained, flagVars>>

\* Downwards a parent is visited before its children, upwards after them.
\* The order of siblings (their list order) is left open.
NextToVisit(t, m) ==
  /\ m \in todo[t]
  /\ IF at[t] \in Vdevs THEN Children(m) \cap todo[t] = {} ELSE Parent(m) \notin todo[t]

\* The locked part of one visit: no operation in flight, nothing to wait for ...
dsc_ops_skip(t, m) ==
  /\ pc[t] = "held"
  /\ NextToVisit(t, m)
  /\ count[m] = 0
  /\ todo' = [todo EXCEPT ![t] = todo[t] \ {m}]
  /\ drained' = [drained EXCEPT ![t] = drained[t] \cup {m}]
  /\ UNCHANGED <<treeVars, tran, pc, at, cur, flagVars>>

\* (mutant) the event is not reset before the wait.
dsc_ops_block_no_reset(t, m) ==
  /\ pc[t] = "held"
  /\ NextToVisit(t, m)
  /\ count[m] > 0
  /\ pc' = [pc EXCEPT ![t] = "block"]
  /\ cur' = [cur EXCEPT ![t] = m]
  /\ UNCHANGED <<treeVars, tran, at, todo, drained, flagVars>>

\* ... or reset the event ...
dsc_ops_block(t, m) ==
  /\ pc[t] = "held"
  /\ NextToVisit(t, m)
  /\ count[m] > 0
  /\ done' = [done EXCEPT ![m] = 0]
  /\ pc' = [pc EXCEPT ![t] = "block"]
  /\ cur' = [cur EXCEPT ![t] = m]
  /\ UNCHANGED <<attached, active, queue, count, tran, at, todo, drained, flagVars>>

\* ... and sleep in qdf_wait_single_event until the event is set.
dsc_ops_wake(t) ==
  LET m == cur[t]
  IN  /\ pc[t] = "block"
      /\ done[m] > 0
      /\ done' = [done EXCEPT ![m] = IF done[m] = DoneMax THEN done[m] ELSE done[m] - 1]
      /\ pc' = [pc EXCEPT ![t] = "held"]
      /\ todo' = [todo EXCEPT ![t] = todo[t] \ {m}]
      /\ drained' = [drained EXCEPT ![t] = drained[t] \cup {m}]
      /\ cur' = [cur EXCEPT ![t] = NULL]
      /\ UNCHANGED <<attached, active, queue, count, tran, at, flagVars>>

(***************************************************************************)
(* The driver state DSC asks for: cds sets it from recovery and unload.    *)
(***************************************************************************)
SetRecovering ==
  /\ recovering' = ~recovering
  /\ UNCHANGED <<treeVars, threadVars, unloading>>

SetUnloading ==
  /\ unloading' = ~unloading
  /\ UNCHANGED <<treeVars, threadVars, recovering>>

-----------------------------------------------------------------------------
(***************************************************************************)
(* The calls, level by level.  trans_start_wait starts at once or queues.  *)
(***************************************************************************)
dsc_driver_create == dsc_create(Driver)
dsc_driver_destroy == dsc_destroy(Driver)
dsc_driver_trans_start(t) == dsc_trans_start(t, Driver)
dsc_driver_trans_start_wait(t) == dsc_trans_start(t, Driver) \/ dsc_trans_queue(t, Driver)
dsc_driver_trans_stop(t) == at[t] = Driver /\ dsc_trans_stop(t)
dsc_driver_op_start(t) == dsc_op_start(t, Driver)
dsc_driver_op_stop(t) == at[t] = Driver /\ dsc_op_stop(t)
dsc_driver_wait_for_ops(t) == at[t] = Driver /\ dsc_wait_for_ops(t)

dsc_psoc_create(p) == dsc_create(p)
dsc_psoc_destroy(p) == dsc_destroy(p)
dsc_psoc_trans_start(t, p) == dsc_trans_start(t, p)
dsc_psoc_trans_start_wait(t, p) == dsc_trans_start(t, p) \/ dsc_trans_queue(t, p)
dsc_psoc_trans_stop(t, p) == at[t] = p /\ dsc_trans_stop(t)
dsc_psoc_op_start(t, p) == dsc_op_start(t, p)
dsc_psoc_op_stop(t, p) == at[t] = p /\ dsc_op_stop(t)
dsc_psoc_wait_for_ops(t, p) == at[t] = p /\ dsc_wait_for_ops(t)

dsc_vdev_create(v) == dsc_create(v)
dsc_vdev_destroy(v) == dsc_destroy(v)
dsc_vdev_trans_start(t, v) == dsc_trans_start(t, v)
dsc_vdev_trans_start_wait(t, v) == dsc_trans_start(t, v) \/ dsc_trans_queue(t, v)
dsc_vdev_trans_stop(t, v) == at[t] = v /\ dsc_trans_stop(t)
dsc_vdev_op_start(t, v) == dsc_op_start(t, v)
dsc_vdev_op_stop(t, v) == at[t] = v /\ dsc_op_stop(t)
dsc_vdev_wait_for_ops(t, v) == at[t] = v /\ dsc_wait_for_ops(t)

DriverCall(t) ==
  \/ dsc_driver_trans_start(t)
  \/ dsc_driver_trans_start_wait(t)
  \/ dsc_driver_trans_stop(t)
  \/ dsc_driver_op_start(t)
  \/ dsc_driver_op_stop(t)
  \/ dsc_driver_wait_for_ops(t)

PsocCall(t, p) ==
  \/ dsc_psoc_trans_start(t, p)
  \/ dsc_psoc_trans_start_wait(t, p)
  \/ dsc_psoc_trans_stop(t, p)
  \/ dsc_psoc_op_start(t, p)
  \/ dsc_psoc_op_stop(t, p)
  \/ dsc_psoc_wait_for_ops(t, p)

VdevCall(t, v) ==
  \/ dsc_vdev_trans_start(t, v)
  \/ dsc_vdev_trans_start_wait(t, v)
  \/ dsc_vdev_trans_stop(t, v)
  \/ dsc_vdev_op_start(t, v)
  \/ dsc_vdev_op_stop(t, v)
  \/ dsc_vdev_wait_for_ops(t, v)
  \/ dsc_vdev_wait_for_uptree_ops(t, v)

\* What a thread does on its way through a call it has made.
Progress(t) ==
  \/ dsc_tran_wait(t)
  \/ \E n \in Nodes : dsc_ops_skip(t, n) \/ dsc_ops_block(t, n)
  \/ dsc_ops_wake(t)

ThreadNext(t) ==
  \/ DriverCall(t)
  \/ \E p \in Psocs : PsocCall(t, p)
  \/ \E v \in Vdevs : VdevCall(t, v)
  \/ Progress(t)

TreeNext ==
  \/ dsc_driver_create \/ dsc_driver_destroy
  \/ \E p \in Psocs : dsc_psoc_create(p) \/ dsc_psoc_destroy(p)
  \/ \E v \in Vdevs : dsc_vdev_create(v) \/ dsc_vdev_destroy(v)

Next == TreeNext \/ (\E t \in Threads : ThreadNext(t)) \/ SetRecovering \/ SetUnloading

Spec == Init /\ [][Next]_vars

(***************************************************************************)
(* Threads are scheduled, a caller that started something stops it (every  *)
(* start in the driver is paired with a stop on all its paths), but nobody *)
(* is obliged to start anything.                                           *)
(***************************************************************************)
ThreadFairness(t) ==
  /\ WF_vars(dsc_tran_wait(t))
  /\ WF_vars(dsc_trans_stop(t))
  /\ WF_vars(dsc_op_stop(t))
  /\ WF_vars(\E n \in Nodes : dsc_ops_skip(t, n) \/ dsc_ops_block(t, n))
  /\ WF_vars(dsc_ops_wake(t))

FairSpec == Spec /\ \A t \in Threads : ThreadFairness(t)
-----------------------------------------------------------------------------
(***************************************************************************)
(* Properties.                                                             *)
(***************************************************************************)
\* Every variable has its type: nodes carry one transition and a FIFO of
\* waiters, threads are in one of the states the DSC calls leave them in.
TypeOK ==
  /\ attached \in SUBSET Nodes
  /\ active \in [Nodes -> Threads \cup {NULL}]
  /\ queue \in [Nodes -> Seq(Threads)]
  /\ count \in [Nodes -> Nat]
  /\ done \in [Nodes -> 0 .. DoneMax]
  /\ tran \in [Threads -> {"none", "pending", "granted", "aborted"}]
  /\ pc \in [Threads -> {"idle", "queued", "held", "block", "op"}]
  /\ at \in [Threads -> Nodes \cup {NULL}]
  /\ todo \in [Threads -> SUBSET Nodes]
  /\ cur \in [Threads -> Nodes \cup {NULL}]
  /\ drained \in [Threads -> SUBSET Nodes]
  /\ recovering \in BOOLEAN
  /\ unloading \in BOOLEAN

\* A thread whose start call has succeeded and whose stop is still to come.
Holds(t, n) ==
  /\ at[t] = n
  /\ pc[t] \in {"held", "block"} \/ (pc[t] = "queued" /\ tran[t] = "granted")

\* Two transitions are never in flight on the same branch of the tree, whether
\* they were started directly, by a stop's trigger, or granted while their
\* caller still sleeps in __dsc_tran_wait (the promise of wlan_dsc.h).
HolderExclusion ==
  \A t \in Threads, m \in Nodes :
    Holds(t, m) => \A u \in Threads \ {t}, n \in Nodes : Holds(u, n) => ~Related(m, n)

\* A queued transition always has someone whose stop will look at its queue:
\* the trigger chain of __dsc_*_trigger_trans ("handled, but don't trigger; we
\* need to wait for more children") never forgets a waiter.
NoLostTrigger ==
  /\ queue[Driver] # <<>> => \E n \in Nodes : active[n] # NULL
  /\ \A p \in Psocs : queue[p] # <<>> =>
       \/ \E n \in {p} \cup VdevsOf(p) : active[n] # NULL
       \/ dsc_trans_active_or_queued(Driver)
  /\ \A v \in Vdevs : queue[v] # <<>> =>
       \/ active[v] # NULL
       \/ dsc_trans_active_or_queued(PsocOf[v])
       \/ dsc_trans_active_or_queued(Driver)

\* What __dsc_*_wait_for_ops reports drained stays drained: while a transition
\* holder relies on it, no thread is inside an operation on that node.
DrainedQuiet ==
  \A t, u \in Threads : pc[u] = "op" => at[u] \notin drained[t]

\* A holder asleep in dsc_*_wait_for_ops on its own subtree is always due a
\* wake-up: either operations are still in flight or the event is already set.
DownWaiterNotStranded ==
  \A t \in Threads :
    pc[t] = "block" /\ cur[t] \notin Uptree(at[t]) => count[cur[t]] > 0 \/ done[cur[t]] > 0

\* The same for every waiter, the uptree waits of vdev transitions included
\* (wlan_dsc_vdev.h: "checks and waits for any uptree operations").
NoStrandedWaiter ==
  \A t \in Threads : pc[t] = "block" => count[cur[t]] > 0 \/ done[cur[t]] > 0

\* Waiters are never overtaken: a transition that begins finds no waiter
\* up-tree of its node, no transition in flight on its branch, and is the
\* head of its own node's queue if that has one.  (Start and trigger paths
\* take this decision in six different functions.)
GrantInOrder ==
  \A n \in Nodes :
    active'[n] \notin {active[n], NULL} =>
      /\ \A m \in Uptree(n) : queue[m] = <<>> /\ active'[m] = NULL
      /\ \A m \in DownTree(n) : active'[m] = NULL
      /\ queue[n] # <<>> => active'[n] = Head(queue[n])

NoOvertaking == [][GrantInOrder]_vars

\* An operation is admitted only when nobody on its branch, above or below,
\* holds or waits for a transition; the checks of __dsc_*_can_op look only at
\* some of these (down-tree queues are never read), the rest follows from
\* what the queues can hold.
AdmitOnFreeBranch ==
  \A n \in Nodes :
    count'[n] > count[n] =>
      \A m \in Nodes : Related(m, n) => active[m] = NULL /\ queue[m] = <<>>

NoOpUnderTransition == [][AdmitOnFreeBranch]_vars

\* A new transition call strictly above n.
CallAbove(n) ==
  \E t \in Threads, m \in Uptree(n) : dsc_trans_start(t, m) \/ dsc_trans_queue(t, m)

\* dsc_*_trans_start_wait returns: a waiter is starved neither by transitions
\* on its own node nor by anything below it, only by an endless stream of new
\* transitions above it.  Waiters stranded by an uptree wait are excluded here
\* and are the subject of NoStrandedWaiter.
WaiterServed ==
  []NoStrandedWaiter =>
    \A n \in Nodes :
      (<>[][~CallAbove(n)]_vars) =>
        \A t \in Threads : (pc[t] = "queued" /\ at[t] = n) ~> pc[t] # "queued"

\* dsc_*_wait_for_ops on a transition's own subtree returns.
DrainEnds ==
  \A t \in Threads :
    (pc[t] = "block" /\ cur[t] \notin Uptree(at[t])) ~> pc[t] # "block"

(***************************************************************************)
(* The promise of wlan_dsc.h as a specification of its own.  A transition  *)
(* is in flight from the moment its descriptor is active, also while the   *)
(* waiter it was granted to still sleeps; an operation is a thread between *)
(* op_start and op_stop, not a count.                                      *)
(***************************************************************************)
OpsOn(n) == {t \in Threads : pc[t] = "op" /\ at[t] = n}

BranchOf == [n \in Nodes |-> {m \in Nodes : Related(m, n)}]

Promise == INSTANCE BranchLock
  WITH Node <- Nodes, Thread <- Threads, None <- NULL,
       Branch <- BranchOf,
       owner <- active, ops <- [n \in Nodes |-> OpsOn(n)], quiet <- drained

\* DSC implements the branch lock: every start, trigger, stop, operation and
\* wait of the code, with all its queues, counts and events, is a step of the
\* lock or leaves it alone.
ImplementsPromise == Promise!Spec

-----------------------------------------------------------------------------
(***************************************************************************)
(* The inductive invariant behind the safety properties (DscProofs).       *)
(***************************************************************************)
\* A thread is somewhere exactly when it is not idle, has a dsc_tran exactly
\* while it is in __dsc_tran_wait, and an event to sleep on while it sleeps.
PcLink ==
  \A t \in Threads :
    /\ pc[t] = "idle" <=> at[t] = NULL
    /\ pc[t] = "queued" <=> tran[t] # "none"
    /\ pc[t] = "block" <=> cur[t] # NULL

\* active_desc names exactly the thread whose start has succeeded there.
OwnerLink == \A t \in Threads, n \in Nodes : active[n] = t <=> Holds(t, n)

\* A queue holds distinct threads that sleep in __dsc_tran_wait for that node.
QueueLink ==
  \A n \in Nodes : \A i \in DOMAIN queue[n] :
    /\ pc[queue[n][i]] = "queued" /\ tran[queue[n][i]] = "pending" /\ at[queue[n][i]] = n
    /\ \A j \in DOMAIN queue[n] : queue[n][i] = queue[n][j] => i = j

\* HolderExclusion, said of the tree.
BranchExclusion ==
  \A m, n \in Nodes : active[m] # NULL /\ active[n] # NULL /\ Related(m, n) => m = n

\* A node that is not attached is idle, and so is everything below it.
DetachedIdle ==
  /\ \A n \in Nodes \ attached : active[n] = NULL /\ queue[n] = <<>>
  /\ \A n \in attached \ {Driver} : Parent(n) \in attached

\* Operations are counted exactly.
OpsCounted == \A n \in Nodes : count[n] = Cardinality(OpsOn(n))

\* A thread waits only on its own branch and only while it holds it; an event
\* somebody sleeps on was set by the last operation on that node.
WaitLink ==
  \A t \in Threads :
    /\ pc[t] \notin {"held", "block"} => todo[t] = {} /\ drained[t] = {}
    /\ \A m \in todo[t] \cup drained[t] : Related(m, at[t])
    /\ \A m \in drained[t] : count[m] = 0
    /\ pc[t] = "block" => cur[t] \in todo[t] /\ (done[cur[t]] > 0 => count[cur[t]] = 0)

SafetyInv ==
  /\ TypeOK /\ PcLink /\ OwnerLink /\ QueueLink /\ BranchExclusion /\ DetachedIdle /\ NoLostTrigger

WaitInv == OpsCounted /\ WaitLink /\ DownWaiterNotStranded
=============================================================================
