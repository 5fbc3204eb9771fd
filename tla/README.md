# TLA+ models of the OnePlus SM8650 vendor kernel modules

The repository holds the out-of-tree kernel modules of the SM8650 platform:
WLAN, graphics, display, camera, video, audio, IPA, Bluetooth, NFC and the
drivers around them. More than half of its 7 million lines are register and
firmware interface headers. These specifications concentrate on the part whose
correctness is a question of concurrency and of the order of events and not of
register values: the **control plane of the WLAN host driver**, that is, how the
callers of the driver (cfg80211, the platform driver, system suspend, the idle
timer, recovery) are kept from treading on each other, and how work is handed to
the one thread that does it.

Paths below are relative to `src/qcom/opensource/wlan/` unless they begin with `src/`.

## 1. Inventory

### 1.1 The WLAN control plane

| part | state | operations | hard behaviour |
|---|---|---|---|
| **DSC**, driver synchronization core (`qcacld-3.0/components/dsc`) | a tree driver - psocs - vdevs; per node the transition in flight, a FIFO of waiters, the number of operations in flight and an event | create, destroy, `trans_start[_wait]`, `trans_stop`, `op_start`, `op_stop`, `wait_for_ops`, `wait_for_uptree_ops`, on each level | decisions that read some nodes of a branch and must hold for all; triggers that must not be lost; sleeps after an unlock; an event shared by several sleepers; list walks without the lock |
| **os_if sync** (`qcacld-3.0/os_if/sync`) | tables from `net_device` / `device` to a context with a DSC node | create, register, unregister, destroy, and every DSC call by device | lookup under one lock, use after it; contexts hidden and freed under their users |
| **HDD flows** (`qcacld-3.0/core/hdd`) | driver flags (recovering, unloading, firmware down), adapters | add and delete an interface, idle shutdown and restart, mode change, recovery shutdown and reinit, suspend and resume, probe and remove | sequences of locked calls that are not atomic together; a transition begun in one callback and ended in another |
| **scheduler** (`qca-wifi-host-cmn/scheduler`) | queues by priority, event bits, the depth counter, the pool, the thread | post, handle, suspend, resume, enable, disable, (de)register a module | one bit for all queues; suspend that times out; posts while the scheduler is being disabled |
| **QDF events** (`qca-wifi-host-cmn/qdf/linux/src/qdf_event.c`) | the list of events waited for | wait, set, reset, force all complete | answer, timeout and force racing for one waiter |
| **request manager** (`qca-wifi-host-cmn/os_if/linux/wlan_osif_request_manager.c`) | the list of open requests, their cookies and reference counts | alloc, get, put, wait, complete, init, deinit | late, double and missing answers; the last of two to leave frees |
| **serialization** (`.../umac/cmn_services/serialization`) | active and pending command lists per pdev and vdev, a bitmap, a blocking flag and a counter | request, remove, activate, move, cancel, purge, timeout | callbacks with the lock dropped; timeouts that race with completion; blocking commands |
| **object manager** (`.../umac/cmn_services/obj_mgr`) | reference counts and states of psoc, pdev, vdev, peer | create, get, release, logical and physical delete | deletion deferred to the last reference |
| **state machine engine** (`.../umac/cmn_services/sm_engine`) | current state, history, a stack of substates | dispatch, transition | transitions requested from within a handler |
| **CDS** (`qcacld-3.0/core/cds`) | module contexts | open, enable, disable, close | undo of a half finished open |

They interact as follows. A request from cfg80211, from the platform driver or
from a timer enters HDD, which asks os_if for the context of its device and
starts an operation or a transition in DSC; refused, it returns an error to the
caller or waits in a DSC queue. Inside, HDD calls the components, which post
messages to the scheduler and wait on QDF events for the firmware's answer.
When the firmware goes down, `PLD_FW_DOWN` sets the recovering flag and completes
every event, the platform driver calls recovery shutdown, which starts a psoc
transition, and then reinit, which ends it. System suspend is a psoc operation
that asks the scheduler's thread to stand still until resume.

What makes these parts correct:

- DSC: transitions exclude each other and operations on a branch; a drain that
  has returned stays true; waiters are served, in order; no wake-up is lost.
- os_if and HDD: nothing runs on an interface that is being torn down, nothing
  uses a node that is freed, recovery finds the hardware to itself and ends.
- scheduler: what is posted is handled or flushed, the limit holds, the thread
  stands still exactly when suspend believes so, close returns and leaves nothing.
- QDF events: a waiter returns once, with the right reason, and no event is on the
  list after its waiter has gone.
- request manager: nobody touches a request that is freed, an answer goes to its
  own request or nowhere.
- serialization: at most one active non-scan command per vdev, a blocking command
  alone, every command released exactly once, none stranded in the pending list.
- object manager: no use after the last release, no leak after a logical delete.

### 1.2 The other components

`PROJECT.json` lists them, with the reason each is left out: audio, Bluetooth,
camera, IPA, RMNET, display, FastRPC, EVA, graphics, hardware fences, UBWC-P,
MMRM, the secure drivers, SPU, Synx, video and NFC, and on the WLAN side the data
path, the firmware interface headers, the protocol stacks and the platform
drivers. Most is the programming of hardware whose behaviour is not in the
repository. Good candidates for later are the reference-counted fence objects
(`cam_sync`, Synx, KGSL timelines, hardware fences), btfmcodec's state machine,
MMRM's admission algorithm and the NFC cold-reset handshake.

## 2. Plan

In the order of importance. What is done says so; what is left is left of that item.

1. `Dsc`, with `DscProofs`: the whole of DSC. *Done.*
2. `OsifSync` on top of `Dsc` (EXTENDS): the HDD flows over DSC. *Done:* add, delete,
   operations, waits (the delete of a NAN data interface is one, on the kernels this
   platform is built for), idle shutdown, mode change, recovery, firmware down within a
   recovery. *Left:* psoc removal, close of all adapters, load and unload, the reuse of a
   freed context slot by a new interface.
3. `Scheduler`: posters, thread, suspend, open and close. *Done.* *Left:* init and deinit,
   timers that expire into the queue, the watchdog.
4. `QdfEvent` and, on top of it, `RequestManager`: waiters, setters, timeout,
   force-complete, and the requests whose life they decide. *Done*, with `RequestProofs`.
   *Left:* `qdf_event_reset`, `qdf_event_set_all`, `qdf_wait_single_event`.
5. `Serialization`: the non-scan queues of a radio. *Done.* *Left:* the scan queue,
   `wlan_serialization_update_timer`, cancels by type.
6. `ObjMgr`: the life of vdevs and peers. *Done.* *Left:* psoc and pdev, partial creation and
   deletion, an abstract specification "alive until the last reference" and its refinement.
7. `BranchLock`: the promise of DSC without queues, events and flags, implemented by
   `Dsc`. *Done*, checked in `dsc_live` and proved in `DscRefinement`.
8. Proofs. *Done:* everything safe about `Dsc`, its refinement, everything safe about
   `RequestManager`, `Scheduler`, `Serialization` and `ObjMgr`, and `OpsNodeLives` and
   `RecoveryQuiet` of `OsifSync`. *Left:* the refinement of item 6.

## 3. The modules

### 3.1 `Dsc` (wlan_dsc_driver.c, _psoc.c, _vdev.c, __wlan_dsc.c)

A node of the tree is a value of `Nodes`; `attached` is the set of those on their
parent's list. `active`, `queue`, `count` and `done` are `trans.active_desc`,
`trans.queue`, `ops.count` and the completion behind `ops.event`. The completion
counts, as the kernel's does: `complete()` adds one up to `DoneMax`, a wait takes
one, `qdf_event_reset` sets zero. A thread is one call sequence.

Every section under `dsc_driver.lock` is one action, and each place where a thread
sleeps or has dropped the lock divides a call:

- `dsc_trans_start`, `dsc_trans_queue`: the two outcomes of `trans_start_wait` that
  change state. Refusals (`-EAGAIN`, `-EINVAL`, `-EBUSY`) do not and are no step.
- `dsc_tran_wait`: the return from `__dsc_tran_wait`, granted or aborted.
- `dsc_trans_stop`: clear and trigger. The order of the triggers does not matter as
  they touch different nodes, so `dsc_*_trigger_trans` are sets of nodes.
- `dsc_wait_for_ops` and `dsc_vdev_wait_for_uptree_ops` set the nodes to visit
  (`todo`), each visit is a locked step (`dsc_ops_skip` or `dsc_ops_block`) and, if
  there were operations, a wake-up (`dsc_ops_wake`). `drained` remembers what was seen.
- `dsc_destroy` is one step here, guarded by what its callers owe it; `OsifSync`
  takes it apart and asks whether they do.

The set `todo` holds the nodes that were attached when the wait began; a vdev created
afterwards needs no visit, as the transition keeps operations from it.

### 3.2 `OsifSync` (os_if/sync, wlan_hdd_p2p.c, wlan_hdd_driver_ops.c)

EXTENDS `Dsc` and uses its actions as the DSC calls inside the flows. `flow`, `phase`
and `ptr` say which flow a thread runs, how far it is and which node its context
points to; `registered` is the table. `op_start` and `trans_start` look up and call
under the table's lock and are one step; `trans_start_wait` is `osif_sync_lookup` and
then `osif_sync_start_wait_callback`. The unlocked traversal is two steps
(`dsc_for_each_load`, `dsc_for_each_visit`), the destroy is two (`_abort` unlocked,
`_detach` locked). `Serialised` is cfg80211's own mutex around add and delete (external).
A vdev is memory, and freed memory is not used again (`freed`).

Recovery: `hdd_fw_down`, then the thread `Platform` goes through
`hdd_soc_recovery_shutdown`, and reinit and a stop follow whether or not shutdown got its
transition, as the platform driver does not know. A refused recovery (phase `"refused"`)
resumes, which only asserts, and stops whichever transition the psoc has by then
(`recovery_trans_stop_unheld`); the history variable `usurped` records that this ended or began
somebody else's, and guards nothing. The firmware may go down again at any point of reinit (SSR within SSR); `fw_down` is the
platform driver's flag, which it sets before the uevent and clears when the firmware is up.
Reinit is therefore three steps: the firmware has come up (`hdd_soc_recovery_reinit`),
the driver is initialized and `qdf_is_fw_down` tested (`reinit_test`, which a failure of
`hdd_wlan_re_init` takes as well), the recovering flag is cleared (`reinit_clear`). A second
failure is recovered from when the first recovery has ended, as one worker runs both. The
branches of the two callbacks for a driver that is unloading are not there, as unload is not.

### 3.3 `Scheduler` (scheduler_api.c, scheduler_core.c, wlan_hdd_power.c, cds_api.c)

Each access to shared state is a step: a post is *check*, *count and allocate*, *put*,
*notify*; the thread wakes and clears `MC_POST`, scans, handles, tests for suspend,
acknowledges, sleeps; disable sets the bits, waits for the exit, flushes queue by queue.
Suspend waits (`pm = "waiting"`), sets the flag (`"set"`) and either completes
(`hdd_suspend_wlan`) or takes the error path `resume_ol_rx`, which resumes the thread whatever
the driver's state (`hdd_suspend_undo`); the regular `hdd_resume` does nothing for a driver that is
recovering or not up. Resuming the thread and resetting the flag are two steps in all three
places, `hdd_suspend_undo`, `hdd_resume` (both reset by `hdd_resume_reset`) and
`hdd_wlan_shutdown` (reset by `hdd_wlan_shutdown_reset`), with `pm` or `owner` being `"resumed"`
in between. The owner is the open and close of CDS with its undo (`Faults` has `"open"`: an open may fail after the modules were
registered, and `"timeout"`: the wait of suspend may time out). `sus_var` is the
completion `mc_sus_event_var`, with its count. `late` is a history variable: messages
that were put on a queue while the scheduler had no thread.

A message is a buffer of the pool, a queue stands for the modules it belongs to.
Suspend (a psoc operation) and close (inside a psoc transition) do not overlap: that is
`Dsc`'s promise and a guard here (`hdd_wlan_shutdown`).

### 3.4 `QdfEvent`, `RequestManager` (qdf_event.c, wlan_osif_request_manager.c)

An event is the completion with its count, `done` and `force_set`, and none of the three is
under a lock: `qdf_event_set` is two steps, the walk of `qdf_complete_wait_events` four per
event, and a waiter takes the completion in one step and reads `force_set` in another.
`pevent` is the list of the events waited for; it is changed under `qdf_wait_event_lock`,
which the walk holds to its end (`wait_event_lock_free`).

`RequestManager` EXTENDS it: a request is the memory of its event. A requester goes
*alloc, linked, sent, wait, woken, leave, back*, a responder *got, written, setting, back*, after
`osif_request_get` has tested `is_initialized` without the lock and the find has come under it
(`get_found`, `get_obsolete`; `looking` is the cookie in between), and whoever gives up the last reference goes on to *free*. The sections under the
manager's spinlock are single steps. Memory is used again, which is what makes a late
answer dangerous; an answer is nothing but its cookie (`owed` says how many are still to
come). The caller's code around the manager is that of the firmware-state query
(wlan_hdd_fw_state.c) and, for an answer that is not used, of the link-layer statistics
(wlan_hdd_stats.c). `osif_request_manager_init` is guarded by what its callers owe it, an
empty list; that is what a drain in `Dsc` gives them.

### 3.5 `Serialization` (wlan_serialization_*.c, csr_api_roam.c)

The lists of one pdev for non-scan commands. A section under `pdev_queue_lock` is one step;
as the lock is dropped around each callback, and an activation that fails dequeues, moves
and activates the next command from within, a context's state is a stack of frames (`stack`,
innermost first) and each step works on the top. `bits` is `cmd_in_use` of an entry;
`bitmap`, `blocking_cmd_active` and `blocking_cmd_waiting` are what the admission reads
instead of the lists; the counter has its width. A timer goes off at any time once armed,
and its message is handled by the scheduler's thread `Mc`, which looks the command up by
type, id and vdev, so that it may find another one with the same key. A cancel keeps its
place in the list over the callbacks (`prev`), as the code keeps `pnode`.

Not every command blocks in every build: `Families` are the sets of commands that may be
the blocking ones.

### 3.6 `ObjMgr` (wlan_objmgr_vdev_obj.c, _peer_obj.c, _psoc_obj.c, wma_dev_if.c)

A vdev or peer has its memory (`mem`), state (`st`) and count (`ref`); `table`, `psocPeers`,
`vdevPeers` and `bss` are the places from which it is reached. What a thread has still to do is
`todo`, a list of tasks, one per section under a lock; a traversal has a task for where it
stands, and the release of a last reference puts the tasks of the destruction in front, which
is how a destruction comes to run in the middle of what the thread was doing. The vdev's lock
is the one that is held over several tasks (`vlock`), as a traversal of its peers releases
them under it; `InAtomic` is what `qdf_in_atomic` sees, and decides whether a peer is destroyed at once or
goes to `freeList` and the work. A vdev is in the table before its count is set up
(`VdevAttach`, then `VdevCount`). `pins` is auxiliary: the BSS peer on which a station's
creation counted. `swapped` is history: a BSS peer was attached while a station still
counted on its predecessor.

`Hdd` creates and deletes vdevs (sme_api.c), `Mc` creates and removes peers (WMA in the
scheduler's thread), with the failures of each stage; an access point's own peer is the
last of its vdev to be removed, as LIM does. A new BSS peer is refused, by `wma_objmgr_peer_exist`,
only while another peer of its address is usable (wma_dev_if.c:1632 and 2007): a deleted one
that is not freed yet is no obstacle. `Readers` look up and traverse, those of
`Softirq` in soft interrupt context. The failing stages of a vdev's creation before it is known to
anybody are no step. The two places of a vdev, in the psoc's table and in its pdev's list, are one.

### 3.7 `BranchLock`, `DscRefinement`

`BranchLock` is what wlan_dsc.h promises: a transition has its branch to itself, operations
begin only on a free branch, and a holder who is told that a node is quiet may rely on it.
The mapping (`Promise` in `Dsc`) reads transitions off `active`, operations off the threads
(and not off the counters), and the observations off `drained`; a stop with its triggers is
one `Release`, which passes the freed branches on.

## 4. The runs

| run | question | result |
|---|---|---|
| `dsc` | the safety of DSC on one psoc, two vdevs, three threads, with creation, destruction, recovery and unloading | holds, 660,042 states |
| `dsc_live` | are waiters served, do drains end, and is every step one of `BranchLock`, on a chain with three threads | holds, 74,844 states |
| `dsc_stranded` | does every sleeper in a wait for operations have a wake-up to come | **no**, for the up-tree wait |
| `osif` | add, use, wait, delete, idle shutdown, mode change and recovery of one interface, three users and the platform driver, until a refused recovery stops another's transition | holds, 575,899 states |
| `osif_recovery` | does recovery complete, as long as nothing of the list below disturbs it, with all eight flows and two users besides the platform driver | holds, 213,748 states |
| `osif_holder` | does a granted transition always have a live node | **no** |
| `sched` | two posters, two queues, three buffers, limit two, suspends that time out, opens that fail | holds, 1,375,696 states |
| `sched_suspend` | without timeouts: is the suspend flag true, does a sleeping thread have a resumer, does close return, do messages leave their queues | holds, 67,042 states |
| `serial` | two contexts, a command on each of two vdevs, three requests, all commands blocking or none: exclusion, release, activation, bitmap, nothing stranded | holds, 1,019,927 states |
| `serial_live` | with two calls that cancel: is every accepted command released | holds, 144,000 states |
| `request` | two requesters, a responder, memory for two requests: life time, counts, right answers, no stray ones, no lost wake-up, firmware down wakes the waiters it finds | holds, 392,044 states |
| `objmgr` | a vdev and two peers whose memory is used again, two vdev and three peer creations, two readers, the work: life times, exact counts, destroyed once, BSS peer last, traversals, no self-deadlock, no leak | holds, 607,637 states |

What the violations say of the code:

- `NoStrandedWaiter`: `__dsc_vdev_wait_for_uptree_ops` makes the vdev transitions of one
  psoc sleep on the psoc's single event. In the run one thread has an operation in flight
  on the psoc; two others each start a transition, directly, on its two vdevs, wait for the
  up-tree operations and sleep on the psoc's event. The `op_stop` completes the event once,
  one of them wakes and the other sleeps for ever, with nothing in flight. The down-tree waits do not have the problem
  (`DownWaiterNotStranded`, `DrainEnds`): only one transition can wait down to a node.
- `HolderNodeLives`: the delete of an interface ends its transition before it destroys the
  node. The waiters that `dsc_vdev_destroy` promises to abort are granted by that stop.

What `osif_recovery` shows, and what it does not. `RecoveryCompletes` is not true of the code
without its hypotheses, which are these:

- `Undisturbed`: no transition is held on an interface that was freed (`HolderNodeLives`), no
  traversal stands on one, no sleeper is stranded by an up-tree wait (`NoStrandedWaiter`), and no
  refused recovery has usurped a transition. Each of the four has a finding above or a paragraph
  below, and after each the recovery, or a thread it waits for, may be stuck for ever.
- The firmware stays up some time, as every failure in the middle of a recovery begins
  another one.
- Changes of the driver's mode stop some time. They are transitions of the driver, above the
  psoc, have precedence over it, and can refuse or starve the recovery without end.

The specification of the run (`UndisturbedSpec`) lets a behaviour end where it is disturbed, as it
says nothing about it any more. All flows are in the run, in particular mode changes, the flow
that waits for an interface's transition, add and delete.

### 4.1 What else the models show

Seen in the models' behaviours, and stated by no property of a run, because the code does
not promise it or because the property would fail where others of the run hold:

- *An unlocked traversal* (wlan_dsc_psoc.c:382). The psoc's wait for operations loads its
  next vdev without the lock. A delete that had ended its own transition before the
  psoc's began may detach and free that vdev in between. In `OsifSync` such a
  thread does nothing more.
- *A refused recovery* (wlan_hdd_driver_ops.c:1149). DSC refuses the psoc transition of
  recovery shutdown with `-EINVAL` while a driver transition is there; shutdown returns
  silently, the platform driver calls reinit, `osif_psoc_sync_trans_resume` only asserts that
  there is a transition, and the stop ends whichever the psoc has by then: an idle shutdown that
  began when the driver's transition was over loses its transition under way, and others enter.
  If there is none, the stop triggers waiters as if there had been one. Exclusion on the
  psoc is lost, so that `OpsNodeLives`, `RecoveryQuiet` and `RecoveryCompletes` are stated until
  this happens (`usurped`); a refused recovery that finds no transition and triggers nothing is
  harmless and is covered by them.
- *A recovering flag that is lost* (wlan_hdd_driver_ops.c:945). Reinit tests
  `qdf_is_fw_down` and then clears the flag; a `PLD_FW_DOWN` between the two has set it in
  vain, and the shutdown that follows meets `QDF_BUG(cds_is_driver_recovering())`.
- *A suspend that times out* (wlan_hdd_power.c:2639 and 2641). If the wait ends while the thread is
  between taking the suspend bit and acknowledging, the thread goes to sleep with nobody to
  resume it. The same race leaves a completion behind, with which the next suspend
  believes the thread asleep while it runs. `SleeperHasResumer` and `SuspendFlagTrue` are
  therefore checked where suspend does not time out.
- *A late post* (scheduler_api.c:255). A post that was checked before the disable lands on a
  queue after the flush and stays there until the next enable. `late` marks such messages.
- *The counter of waiting blocking commands* (wlan_serialization_non_scan.c:93). It is
  counted up by a request that is then refused, and not by one that is pended only because
  its vdev has another one pending; the second, when moved, takes the counter below zero,
  where it wraps. With blocking commands only, nothing depends on it but the choice
  between two equal lookups. With others, a count that is too high keeps a non-blocking
  command pending with nothing active.
- *A mixture of blocking and other commands* (wlan_cm_main_api.h:590). Without
  `CONN_MGR_ADV_FEATURE` the connection commands do not block. The move after a dequeue then
  may activate a blocking command beside one that began in the gap. `BlockingAlone` is
  checked for families in which all or none block.
- *A non-blocking command stranded*: with only non-blocking commands, a cancel of the last
  active command of one vdev does not look at the pending ones of that vdev while another
  vdev's is active; they wait for the next end there. `NoStranded` is stated for blocking ones.
- *A purge that stops early* (wlan_serialization_non_scan.c:684). The cancel of all commands of
  a vdev keeps a pointer to the last pending command it passed over while it drops the lock
  for the callbacks. If that command is activated meanwhile, the walk goes on in the active
  list, ends, and leaves a command of the vdev pending, in a queue that is disabled
  (csr_api_roam.c:6469 says "Flush all the commands for vdev"). It takes a command of another
  vdev between two of the vdev that is purged, and four requests; `serial` has three.
- *A stale timeout*: the message of a timeout names the command by type, id and vdev. A
  command that ended and was asked for again is ended by it, early, but once.
- *Users of the request manager that do not pass the cookie* (wlan_hdd_main.c:6077,
  os_if_dp.c:352) and look up the context stored last: a late answer then completes another
  request. And the first cookie is NULL, which two callbacks (wlan_hdd_stats.c:8604,
  os_if_dp.c:353) take for "no context". `RequestManager` models the users that pass it.
- *A look-up that does not test the state* (wlan_vdev_get_peer_sta_count,
  wlan_objmgr_vdev_obj.c:1803; the `_no_state` look-ups of wlan_objmgr_psoc_obj.c, for example at
  csr_util.c:243). An object whose count is zero stays on the lists until its destruction
  detaches it. These functions count it up to one and release it again, which destroys it a
  second time: a mutant of `ObjMgr` (`GetPeer_any_state`) is such a look-up.
- *A new BSS peer before the old one is freed* (wlan_objmgr_peer_obj.c:116; the comment at
  wlan_objmgr_vdev_obj.c:1020 says that it happens for the pointer, and wma_dev_if.c:1985 has
  nothing against it). A station releases, when it is freed, the BSS peer that its vdev has then,
  and not the one it counted on. Let a reader hold a station of an access point that is stopped
  and started again: when it lets go, the station's free takes a reference of the new BSS
  peer with it, that is, the creator's. The new BSS peer is then destroyed and freed while it is
  usable and in use, without `obj_delete` (the case of the message "PEER object del is not
  invoked"), and the old one stays for ever, and with it its vdev. `CountExact`, `DestroyedOnce`,
  `UsedIsAlive` and `NoLeak` all fail then (with a third place for peers, one vdev creation and one
  reader, TLC finds a new BSS peer freed under its users in 33 states when the properties are stated
  without `~swapped`). The model goes on as the code does, and the properties are stated until
  `swapped`, the moment at which the new BSS peer takes the place of one that is counted on.
- *Destruction under the vdev's lock* (wlan_objmgr_vdev_obj.c:655). With `Delayed` = FALSE, as in
  the consolidate and wcn6450 builds of this platform, a traversal that lets go of a
  peer's last reference waits for the vdev's lock that it holds; `NoSelfDeadlock` fails.
- *A vdev that is found before it is counted* (wlan_objmgr_vdev_obj.c:183 and 232). The count is
  initialized after the vdev is in the psoc's table. The model has the two steps, and the look-ups
  that test the state refuse the vdev in between; the `_no_state` ones, which are not in the model,
  may count on it and have their reference wiped out.

Bounds, and why they are enough. Three threads in DSC are one holder, one waiter and
one operation, or a holder and two waiters, on any of the nodes; one psoc with two vdevs
has every relation of two nodes (ancestor, descendant, sibling; a second psoc would
repeat the sibling). Run `dsc` sets one
of the recovering and unloading flags at a time: with both, the checks answer as for recovering
alone. `DoneMax = 2` lets a completion be lost, taken twice and saturate.
`dsc_live` and the runs of `OsifSync` with one vdev keep the longest branch, on which
starvation and lost triggers would appear; the findings need two vdevs or a third thread.
`osif` and `osif_recovery` have all flows, with three users and with two, and `DoneMax = 1`; what
a completion can count up to is the matter of `dsc`. The view of `osif` (`UntilUsurped`) makes one
state of all those in which a transition was usurped, as that is for good and the properties
say nothing there. With two vdevs and the
flows op, user, wait, idle, mode and ssr, `RecoveryCompletes` holds too, in 495,264 states, but the
check of it takes almost five minutes and is not one of the runs.
Two queues distinguish priorities, two posters and three buffers reach a limit of two
messages with a third on its way in. `Faults` is empty of what a run asks to exclude.
In `Serialization`, `MaxReq` (3) lets a key be asked for
while its last command is still being ended; one pending command per vdev fills the list;
`MaxCancel` is 1 in `serial` and 2 in `serial_live`, where a purge meets a cancel;
`MaxWaiting` = 2 lets refusals drive the counter up and the move take it down again;
`CounterMod` is small so that it can wrap. In `RequestManager` two requesters, two places
in memory and two cookies reach the reuse of memory with an answer to its former owner
under way. Second answers to one request (`MaxAnswers` = 2) need an instance six times as
large; the invariants hold in it, and `RequestProofs` covers any number of answers.
In `ObjMgr` two places for peers are a BSS peer and a station, or two stations one after the
other, with a third creation in memory that was freed. A swap of BSS peers needs a third place
(the old, the new and a station), so in this run `~swapped` holds throughout and the properties are
checked in full; what they say of larger instances until a swap is proved (section 5), and the
instance with three places and two readers is too large for a run. A reader in a
thread and one in soft interrupt context release last references in every context there is.
Symmetry and the view are used in safety runs only: threads (but `Platform`), vdevs, peers and buffers are
never told apart by an action or a property; in `serial` the vdevs are exchanged together
with their commands.

Deadlock is checked in `Dsc` and `Scheduler`. `MCOsifSync`, `MCOsifRecovery` and `MCOsifHolder` switch it off: a
vdev that was deleted does not come back and a thread whose node was freed does nothing more,
so these instances really end (and `UndisturbedSpec` stops by definition); in `MCSerialization*`, `MCRequestManager` and `MCObjMgr` the bounds on
requests, cookies and creations are used up in the end.

Fairness. In DSC, threads are scheduled, and whoever started a transition or an
operation stops it, as every start in HDD is paired with a stop on all paths; nobody has
to start anything. `WaiterServed` assumes that new calls *above* the waiter stop some time
(DSC prefers up-tree, so they can starve it), and sets aside the sleepers of
`NoStrandedWaiter`. In `OsifSync` all threads go on with their flow and the platform driver
calls shutdown and reinit after a firmware crash, as its recovery worker does;
what `RecoveryCompletes` assumes beyond that is listed above. In
`Scheduler` a begun post, the thread (a handler that does not return runs into the
watchdog's panic) and a begun close go on, a suspended system is resumed, and a driver
whose firmware is down is shut down. There is no fairness for posting, suspending or
opening. `PostedHandled` assumes that posts stop, since the first queue can starve the
second, by design. In `Serialization` a call goes on (a callback returns), an armed timer goes
off and the scheduler's thread comes to its messages, which is `PostedHandled`; completions
need not come, so `EveryCommandReleased` rests on the timeouts and says so: a timeout
message that could not be posted may leave its command active. In `RequestManager` a walk and
an answer that have begun go on and a waiter with a completion wakes; neither an answer nor
a timeout has to come.

## 5. The proofs

`DscProofs` proves, with TLAPS, for every tree, every finite set of threads and every
`DoneMax` (`DscAssumption` is the only assumption):

- `TypeCorrect`, `MutualExclusion`, `TriggersNotLost`, `DrainIsFinal`, `DownWaitersWoken`:
  the invariants of run `dsc`;
- `ServedInOrder`, `OpsOnFreeBranches`: its two action properties.

All follow from `Invariance`: `SafetyInv /\ WaitInv` holds always. None of the safety
properties is inductive alone. `HolderExclusion` speaks of threads; the checks read
`active` and `queue`. `OwnerLink` and `QueueLink` tie the two (the thread named by
`active_desc` is the one that holds, a waiter is on one queue, once, pending), and
`BranchExclusion` says exclusion of the tree itself. It survives a stop's triggers only
because of `NoLostTrigger` (where a queue is not empty, something above or at the node is
active or queued), which says what the checks, that never look at down-tree queues, may
rely on: the stop of the last transition on a branch is the one that starts the next.
`DetachedIdle` gives the triggers, which range over the attached nodes, the same view. For
the waits, `OpsCounted` says that the counter is the number of threads inside operations,
and `WaitLink` that only the holder of a branch waits on it and that an event with a sleeper
was set by the last operation; with `BranchExclusion` no second thread resets or takes the
event of a node in somebody's own subtree, which is `DownWaiterNotStranded`. The up-tree wait
is outside this argument, and is where `NoStrandedWaiter` fails.

The proof has a lemma per action and invariant, and lemmas for what the can-start checks
and the trigger sets imply.

`DscRefinement` proves `Spec => ImplementsPromise` from `Invariance`: a start is an `Acquire`
(the checks see the whole branch), a stop with its triggers is a `Release` (the triggered
nodes are free and do not lie on one branch), the end of a visit is an `Observe`
(`OpsCounted` turns the counter into threads), and every other step leaves the mapped
variables alone.

`RequestProofs` proves, for any memory, any threads and any number of cookies and answers
(`RequestAssumption`), the six invariants of run `request`. `Invariance` is that of `IInv`,
whose parts are there for these reasons: `PcLink` ties a thread's pointer and its list node to
where it is; `WalkLink` says that the nodes the walk has yet to visit stay on the list while
it holds the lock; `OwnLink` that memory on the manager's list is live and that memory off it
belongs to one thread alone, which links or frees it; `CookieLink` that cookies on the list are
distinct and older than the next one, and that nothing is owed, and nobody is looking, for those
to come;
`CountLink` that the count is the number of referrers; `AnswerLink` that a completion without
`force_set` means the answer is in the private area, which is `RightAnswer` one step
earlier; `WakeLink` is `NoLostCompletion` from the moment the request is known.

`SchedulerProofs` proves the invariants of runs `sched` and `sched_suspend`, for any number of
queues, posters and buffers (`SchedulerAssumption`; `TokenMax > 1` is the kernel's `UINT_MAX`):
`TypeCorrect`, `WakeupsNotLost`, `DepthCorrect`. In `IInv`, `OwnerLink` says where the opener
and the thread are with respect to each other; `PlaceLink` that a buffer in use is in one place,
a poster's hand, one queue or the thread, so that `sch_msg_q_depth` counts buffers and is never
decremented below what is there. `NoLostWakeup` speaks of a sleeping thread and is
not inductive: the thread clears `MC_POST` before it scans, and a message may be put on a queue
that the scan has already passed. `WakeLink` says it of the running thread: a queue behind
the scan that is not empty has `MC_POST` set, or a poster that is about to set it (the
`late` messages excepted). The suspend flag needs in addition `SuspendLink`: the request of a
suspend is in one place, the bit, the thread or the completion. It is true as long as the wait of
suspend does not time out, and `SuspendFlagCorrect` and `SleeperIsResumed` have that as their
hypothesis, `"timeout" \notin Faults`, as the run has. The thread is resumed before the flag is
reset, so the flag may also stand for a resumer that is about to reset it (`pm` or `owner` is
`"resumed"`), and `SuspendLink` says that nothing else begins a suspend meanwhile.

`OsifProofs` proves `OpsRunOnLiveNodes` and `RecoveryIsQuiet` for all trees, threads and flows, from
`DscAssumption` and the assumptions of `OsifSync`, until `usurped` (4.1): the invariant is
`~usurped => OsifInv`, as a refused recovery breaks the tie between a holder and its node. The invariants of `DscProofs` cannot be
used as they are: `OsifSync` destroys a vdev below waiters that were granted
(`HolderNodeLives` fails), so that a transition may belong to a node that is gone. The part
of them that survives, exclusion among the nodes that exist (`LiveExclusion`) and what the
counters say, is proved again. `FlowLink` derives a thread's place in DSC from its place
in its flow; `NodeLink` says that a node that can be found is attached, that one change of the
interfaces runs at a time, and that a delete hides its interface before it drains it. `DrainLink`
carries the drain over the walk: whatever lives below a node that its holder has drained is
drained too or is still to be visited, which is what a vdev created meanwhile cannot break. From this a
node with an operation is not destroyed, and a recovery that has drained the tree has no
operation below it until it lets go.

`SerializationProofs` proves the six invariants of run `serial`, for any commands, contexts and
counts, and any depth of calls (`SerializationAssumption`). The frames of a context's stack
are claims: a frame that starts or has called an activation (`Acts`), and one that releases or
resumes (`Ends`), each has its command for itself (`ActLink`, `EndLink`), which is
`ReleasedOnce` before the callback runs. `ListLink` says that an entry is on at most one
list and once, `TimerLink` which commands may have an armed timer, `MoveLink` that a move after a
blocking command looks at all queues. `BlockingAlone` and `ActiveCovered` rest on what the
admission reads: commands that are held (active, or in the hands of a cancel's callback) are on
different vdevs and the bitmap says which (`VdevLink`), and the blocking flag says whether a blocking
command is held (`BlockLink`). They are theorems for builds in which all commands or none block
(`Families \subseteq {Cmd, {}}`), as for mixtures `BlockingAlone` is false (4.1).
`StrandLink` is `NoStranded` in the middle of a call: while a blocking command is pending something is
active or some frame is still going to look. An action is classified once by what it does
to the lists and the frames, and the invariants are proved per class.

`ObjMgrLemmas` and `ObjMgrProofs` prove the six invariants of run `objmgr`, for any vdevs,
peers, readers and numbers of creations, with the two assumptions of `ObjMgr` (peers and
readers are finite sets, kinds of objects and threads are disjoint) and, in all six, until
`swapped`: the invariant is `~swapped => IInv`, and once a BSS peer has taken the place of one
that is counted on, it is false of the code (4.1). A new BSS peer that comes while the old one
is deleted, not freed, and counted on by nobody is covered. `SelfDeadlockFree` has
`Delayed` as its hypothesis, as without the work the traversal does wait for itself.
A count is compared with the number of tasks, over all threads, that give the reference
back (`Pending`, the cardinality of a set of places). One lemma, `PendingStep`, says how that
number changes when a step replaces the first tasks of one thread's program by others (`Step`):
by the difference of what the two pieces contain; everything about counts goes through it and
needs no induction. `IInv` then has, next to that count for peers and vdevs alike (`RefLink`)
and its counterpart for objects that nobody refers to (`EndLink`, which is `DestroyedOnce`):
`ShapeLink`, what a thread's program may look like, in particular what stands behind a task, as
the rest of a creation or of a traversal is what keeps its vdev alive; `TaskLink`, what each
task relies on, the memory of its object first of all; `ListLink`, `StageLink` and `AloneLink`,
that lists and memory agree, and on which list a peer is at which stage of its creation and
destruction; `PinLink`, that a station counts on the BSS peer its vdev has now, which is what
a swap breaks; `LockLink`, who may hold a vdev's lock and that, where
destruction is delayed, nobody destroys a peer under one; `WorkLink` and `BornLink`, that a
peer on the free list has a work to come and an object half created somebody who goes on.
`NoLeak` follows where all programs are empty: nothing is named, so a deleted object that is
still there has peers on its list or stations that count on it.
The actions are proved by what they do to the objects: those that only take and
give references in `ObjMgrLemmas`, those that change a state, a list or memory in `ObjMgrProofs`.

Only model-checked: liveness under fairness (`WaiterServed`, `DrainEnds`, `RecoveryCompletes`,
`CloseReturns`, `PostedHandled`, `EveryCommandReleased`, `ForcedReturns`), which is beyond the
prover. Every safety property of every run but the two that are violated is a theorem.

## 6. What is not modelled

- In DSC: the refusal of a second transition or operation with the same description
  (changes no state), the debug timers and their panics, the cached command of a vdev.
- In os_if and HDD: see the plan, 2. Registration failures for want of memory.
- In QDF events and the request manager: `qdf_event_reset`, `qdf_event_set_all`,
  `qdf_wait_single_event`, the bound on the list's length and its destruction at unload;
  request data beyond "whose answer it is"; CPUs and interrupts.
- In serialization: the scan queue, `wlan_serialization_update_timer`, cancels by type or
  attribute, the rules callbacks, the history. A vdev's queue is not enabled again once
  it was disabled. The pool of entries is taken to give a fresh one (the header says why).
- In the object manager: psoc and pdev objects and their limits, components that create or
  delete asynchronously (partial states), look-ups that do not test the state, the lists of
  logically deleted peers, temporary and multi-link peers, the references' debug ids.
- In the scheduler: the history and watchdog, the contents and flush callbacks of messages,
  the timer message, `scheduler_init`. A queue's registration table is not modelled; that
  `scheduler_deregister_module` resets the wrong index of it is noted in the hazards.
- Memory ordering: locks, atomics, bit operations and completions are taken to be
  sequentially consistent; the weaker ordering of set_bit and clear_bit is not looked at.
- Everything in 1.2.
