------------------------------- MODULE ObjMgr -------------------------------
(***************************************************************************)
(* The object manager (umac/cmn_services/obj_mgr): life time of vdevs and  *)
(* peers.  An object is counted; deleting it (xxx_obj_delete) is logical,  *)
(* it only forbids new references, and the thread that lets go of the last *)
(* reference destroys and frees it, wherever that thread happens to be:    *)
(* in the middle of a traversal, in soft interrupt context, or under the   *)
(* vdev's spin lock.  In these last two cases a build with                 *)
(* FEATURE_DELAYED_PEER_OBJ_DESTROY leaves the peer to a work.             *)
(*                                                                         *)
(* A thread's program is its todo list, one task per critical section; the *)
(* release of a last reference puts the tasks of the destruction in front. *)
(* The psoc's lock, the lists' locks and the peers' locks are held for one *)
(* task; the vdev's lock may be held over several (vlock).                 *)
(*                                                                         *)
(* Left out: psoc and pdev objects (they outlive the others), the pdev's   *)
(* list of vdevs, components that answer QDF_STATUS_COMP_ASYNC, the counts *)
(* per debug id, temporary peers.  The limits on the numbers of peers are  *)
(* a refusal that may happen.                                              *)
(***************************************************************************)
EXTENDS Integers, Sequences, FiniteSets, SequencesExt

CONSTANTS
  Vdevs,      \* vdev objects; each has its entry of the psoc's vdev table
  Peers,      \* memory for peer objects
  NULL,
  Hdd,        \* the thread that creates and deletes interfaces
  Mc,         \* the scheduler's thread: WMA creates and removes peers in it
  Worker,     \* the kernel worker of pdev->peer_obj_free_work
  Readers,    \* threads that look objects up
  Softirq,    \* those of them that run in soft interrupt context
  Delayed,    \* FEATURE_DELAYED_PEER_OBJ_DESTROY
  MaxPeers,   \* bound: peer creations in a behaviour
  MaxVdevs    \* bound: vdev creations in a behaviour

ASSUME ThreadsAssumption ==
  /\ Hdd # Mc /\ Hdd # Worker /\ Mc # Worker
  /\ {Hdd, Mc, Worker} \cap Readers = {}
  /\ Softirq \subseteq Readers
  /\ IsFiniteSet(Readers)

ASSUME ObjectsAssumption ==
  /\ Vdevs \cap Peers = {} /\ Vdevs # {} /\ IsFiniteSet(Peers)
  /\ NULL \notin Vdevs \cup Peers \cup Readers \cup {Hdd, Mc, Worker}
  /\ Delayed \in BOOLEAN
  /\ MaxPeers \in Nat /\ MaxVdevs \in Nat

Threads == Readers \cup {Hdd, Mc, Worker}
Objects == Vdevs \cup Peers

VARIABLES
  mem,        \* objects whose memory is allocated
  st,         \* obj_state; "uncounted" is ALLOCATED before ref_cnt is set up
  ref,        \* ref_cnt
  role,       \* a peer's type: "bss", or "sta" for a client of the vdev's AP
  vdevOf,     \* the vdev of a peer
  pins,       \* auxiliary: the BSS peer that a sta peer's creation counted on
  swapped,    \* history: a BSS peer took the place of one still counted on
  table,      \* psoc's wlan_vdev_list: the vdevs that are in it
  psocPeers,  \* psoc's peer list (one hash list)
  vdevPeers,  \* vdevs' wlan_peer_list
  bss,        \* vdevs' bss_peer
  vlock,      \* vdevs' vdev_lock: the thread that holds it over several tasks
  freeList,   \* pdev's peer_free_list
  work,       \* peer_obj_free_work is scheduled
  todo,       \* what the threads have still to do
  made        \* creations so far: peers and vdevs

lists == <<table, psocPeers, vdevPeers, bss>>
delay == <<freeList, work>>
birth == <<role, vdevOf, made, swapped>>
vars == <<mem, st, ref, pins, birth, lists, vlock, delay, todo>>

-----------------------------------------------------------------------------
(* Tasks *)

T(op, o) == [op |-> op, obj |-> o]

Ops == {"alloc", "attach", "pin", "init", "del", "rel", "next", "visit",
        "vend", "unlock", "destroy", "detach", "free", "valloc", "vcount",
        "vinit", "pop", "sched"}

Idle(t)        == todo[t] = <<>>
Doing(t, k)    == todo[t] # <<>> /\ Head(todo[t]) = k
Then(t, tasks) == todo' = [todo EXCEPT ![t] = tasks \o Tail(@)]

Without(seq, p) == RemoveAt(seq, SelectInSeq(seq, LAMBDA q : q = p))

Usable(o) == st[o] = "created"

\* The places of a list, those behind p, those of its active peers, and the
\* first peer of some places, if there is one.
All(seq)          == 1..Len(seq)
After(seq, p)     == {j \in All(seq) : \E i \in 1..j-1 : seq[i] = p}
Active(seq, js)   == {j \in js : Usable(seq[j])}
FirstOf(seq, js)  ==
  IF js = {} THEN {} ELSE {seq[Min(js)]}

Tasks(op, ps) == IF ps = {} THEN <<>> ELSE <<T(op, CHOOSE p \in ps : TRUE)>>

\* xxx_get_ref; with the guard Usable it is xxx_try_get_ref.
Get(o) == ref' = [ref EXCEPT ![o] = @ + 1]

\* qdf_in_atomic()
InAtomic(t) == t \in Softirq \/ \E v \in Vdevs : vlock[v] = t

-----------------------------------------------------------------------------
Init ==
  /\ mem = {}
  /\ st = [o \in Objects |-> "deleted"]
  /\ ref = [o \in Objects |-> 0]
  /\ role = [p \in Peers |-> "sta"]
  /\ vdevOf = [p \in Peers |-> CHOOSE v \in Vdevs : TRUE]
  /\ pins = [p \in Peers |-> NULL]
  /\ swapped = FALSE
  /\ table = {} /\ psocPeers = <<>>
  /\ vdevPeers = [v \in Vdevs |-> <<>>]
  /\ bss = [v \in Vdevs |-> NULL]
  /\ vlock = [v \in Vdevs |-> NULL]
  /\ freeList = <<>> /\ work = FALSE
  /\ todo = [t \in Threads |-> <<>>]
  /\ made = [peers |-> 0, vdevs |-> 0]

-----------------------------------------------------------------------------
(* vdevs: creation and deletion by HDD *)

\* sme_vdev_create -> wlan_objmgr_vdev_obj_create
VdevCreate(v) ==
  /\ Idle(Hdd) /\ v \notin mem /\ made.vdevs < MaxVdevs
  /\ made' = [made EXCEPT !.vdevs = @ + 1]
  /\ todo' = [todo EXCEPT ![Hdd] = <<T("valloc", v)>>]
  /\ UNCHANGED <<mem, st, ref, pins, role, vdevOf, swapped, lists, vlock, delay>>

\* wlan_objmgr_vdev_obj_create up to wlan_objmgr_psoc_vdev_attach: the vdev is
\* in the psoc's table before it has a count, and before it can be used.
VdevAttach(v) ==
  /\ Doing(Hdd, T("valloc", v))
  /\ mem' = mem \cup {v}
  /\ st' = [st EXCEPT ![v] = "uncounted"]
  /\ ref' = [ref EXCEPT ![v] = 0]
  /\ table' = table \cup {v}
  /\ bss' = [bss EXCEPT ![v] = NULL]
  /\ Then(Hdd, <<T("vcount", v)>>)
  /\ UNCHANGED <<pins, birth, psocPeers, vdevPeers, vlock, delay>>

\* qdf_atomic_init of ref_cnt and the creator's reference
VdevCount(v) ==
  /\ Doing(Hdd, T("vcount", v))
  /\ st' = [st EXCEPT ![v] = "allocated"]
  /\ ref' = [ref EXCEPT ![v] = 1]
  /\ Then(Hdd, <<T("vinit", v)>>)
  /\ UNCHANGED <<mem, pins, birth, lists, vlock, delay>>

\* The components' create handlers; SME then takes its own reference and keeps
\* it until after the deletion.  A vdev that a component or the MLO device
\* context refuses is deleted by its creator.
VdevInit(v) ==
  /\ Doing(Hdd, T("vinit", v))
  /\ \/ /\ st' = [st EXCEPT ![v] = "created"]
        /\ Get(v)
        /\ Then(Hdd, <<T("del", v), T("rel", v)>>)
     \/ /\ \E s \in {"allocated", "created"} : st' = [st EXCEPT ![v] = s]
        /\ Then(Hdd, <<T("del", v)>>)
        /\ UNCHANGED ref
  /\ UNCHANGED <<mem, pins, birth, lists, vlock, delay>>

\* wlan_objmgr_vdev_obj_delete, wlan_objmgr_peer_obj_delete
Delete(t, o) ==
  /\ Doing(t, T("del", o))
  /\ o \in Vdevs => vlock[o] = NULL
  /\ st' = [st EXCEPT ![o] = "deleted"]
  /\ Then(t, <<T("rel", o)>>)
  /\ UNCHANGED <<mem, ref, pins, birth, lists, vlock, delay>>

-----------------------------------------------------------------------------
(* Peers: creation and removal by WMA, in the scheduler's thread *)

\* wma_create_objmgr_peer.  Its caller, LIM, adds stations to a BSS that is up,
\* and wma_objmgr_peer_exist refuses an access point a second peer of its own
\* address as long as the first is usable.  A first one that is deleted and not
\* freed yet is no obstacle: the look-up passes over it.
PeerCreate(v, p, r) ==
  /\ Idle(Mc) /\ p \notin mem /\ made.peers < MaxPeers
  /\ v \in table /\ Usable(v) /\ vlock[v] = NULL
  /\ IF r = "sta"
     THEN bss[v] # NULL /\ Usable(bss[v])
     ELSE \A q \in ToSet(vdevPeers[v]) : ~Usable(q)
  /\ Get(v)
  /\ role' = [role EXCEPT ![p] = r]
  /\ vdevOf' = [vdevOf EXCEPT ![p] = v]
  /\ made' = [made EXCEPT !.peers = @ + 1]
  /\ todo' = [todo EXCEPT ![Mc] = <<T("alloc", p), T("rel", v)>>]
  /\ UNCHANGED <<mem, st, pins, swapped, lists, vlock, delay>>

\* Mutant: a creation without memory forgets the vdev it has counted.
PeerAlloc_leaks(p) ==
  /\ Doing(Mc, T("alloc", p))
  /\ \/ /\ mem' = mem \cup {p}
        /\ st' = [st EXCEPT ![p] = "allocated"]
        /\ ref' = [ref EXCEPT ![p] = 1]
        /\ psocPeers' = Append(psocPeers, p)
        /\ Then(Mc, <<T("attach", p)>>)
     \/ /\ todo' = [todo EXCEPT ![Mc] = <<>>]
        /\ UNCHANGED <<mem, st, ref, psocPeers>>
  /\ UNCHANGED <<pins, birth, table, vdevPeers, bss, vlock, delay>>

\* wlan_objmgr_peer_obj_create up to wlan_objmgr_psoc_peer_attach
PeerAlloc(p) ==
  /\ Doing(Mc, T("alloc", p))
  /\ \/ /\ mem' = mem \cup {p}
        /\ st' = [st EXCEPT ![p] = "allocated"]
        /\ ref' = [ref EXCEPT ![p] = 1]
        /\ psocPeers' = Append(psocPeers, p)
        /\ Then(Mc, <<T("attach", p)>>)
     \/ /\ Then(Mc, <<>>)
        /\ UNCHANGED <<mem, st, ref, psocPeers>>
  /\ UNCHANGED <<pins, birth, table, vdevPeers, bss, vlock, delay>>

\* Stations of v are not destroyed yet that count on the BSS peer it has.
CountedOn(v) == \E q \in Peers : vdevOf[q] = v /\ pins[q] # NULL

\* wlan_objmgr_vdev_peer_attach; when it refuses the peer leaves the psoc's
\* list and is freed, whatever its count.
PeerAttach(p) ==
  LET v == vdevOf[p] IN
  /\ Doing(Mc, T("attach", p))
  /\ vlock[v] = NULL
  /\ \/ /\ vdevPeers' = [vdevPeers EXCEPT ![v] = Append(@, p)]
        /\ bss' = IF role[p] = "bss" THEN [bss EXCEPT ![v] = p] ELSE bss
        /\ swapped' = (swapped \/ (role[p] = "bss" /\ CountedOn(v)))
        /\ Get(v)
        /\ Then(Mc, IF role[p] = "sta" THEN <<T("pin", p), T("init", p)>>
                                       ELSE <<T("init", p)>>)
        /\ UNCHANGED <<mem, psocPeers, st>>
     \/ /\ psocPeers' = Without(psocPeers, p)
        /\ mem' = mem \ {p}
        /\ st' = [st EXCEPT ![p] = "deleted"]
        /\ ref' = [ref EXCEPT ![p] = 0]
        /\ Then(Mc, <<>>)
        /\ UNCHANGED <<vdevPeers, bss, swapped>>
  /\ UNCHANGED <<pins, role, vdevOf, made, table, vlock, delay>>

\* Mutant: the station does not count on the BSS peer.
PeerPinBss_no_get(p) ==
  /\ Doing(Mc, T("pin", p))
  /\ pins' = [pins EXCEPT ![p] = bss[vdevOf[p]]]
  /\ Then(Mc, <<>>)
  /\ UNCHANGED <<mem, st, ref, birth, lists, vlock, delay>>

\* "Increment ref count for BSS peer, so that BSS peer deletes last"
PeerPinBss(p) ==
  LET b == bss[vdevOf[p]] IN
  /\ Doing(Mc, T("pin", p))
  /\ IF b = NULL THEN UNCHANGED ref ELSE Get(b)
  /\ pins' = [pins EXCEPT ![p] = b]
  /\ Then(Mc, <<>>)
  /\ UNCHANGED <<mem, st, birth, lists, vlock, delay>>

\* The components' create handlers.  WMA deletes a peer that it could create
\* here but not in the data path or in the firmware.
PeerInit(p) ==
  /\ Doing(Mc, T("init", p))
  /\ \/ /\ st' = [st EXCEPT ![p] = "created"]
        /\ \E undo \in {<<>>, <<T("del", p)>>} :
             todo' = [todo EXCEPT ![Mc] = Tail(@) \o undo]
     \/ /\ Then(Mc, <<T("del", p)>>)
        /\ UNCHANGED st
  /\ UNCHANGED <<mem, ref, pins, birth, lists, vlock, delay>>

\* wma_remove_objmgr_peer.  LIM removes an AP's own peer after its stations.
PeerRemove(p) ==
  /\ Idle(Mc) /\ p \in ToSet(psocPeers) /\ Usable(p)
  /\ role[p] = "bss" =>
       \A q \in ToSet(vdevPeers[vdevOf[p]]) \ {p} : ~Usable(q)
  /\ Get(p)
  /\ todo' = [todo EXCEPT ![Mc] = <<T("del", p), T("rel", p)>>]
  /\ UNCHANGED <<mem, st, pins, birth, lists, vlock, delay>>

-----------------------------------------------------------------------------
(* Look-ups and traversals *)

\* Mutant: the look-up does not test the state.
GetPeer_any_state(t, p) ==
  /\ Idle(t) /\ p \in ToSet(psocPeers)
  /\ Get(p)
  /\ todo' = [todo EXCEPT ![t] = <<T("rel", p)>>]
  /\ UNCHANGED <<mem, st, pins, birth, lists, vlock, delay>>

\* wlan_objmgr_get_peer and the other look-ups in the psoc's list
GetPeer(t, p) ==
  /\ Idle(t) /\ p \in ToSet(psocPeers) /\ Usable(p)
  /\ Get(p)
  /\ todo' = [todo EXCEPT ![t] = <<T("rel", p)>>]
  /\ UNCHANGED <<mem, st, pins, birth, lists, vlock, delay>>

\* wlan_objmgr_get_vdev_by_id_from_psoc
GetVdev(t, v) ==
  /\ Idle(t) /\ v \in table /\ vlock[v] = NULL /\ Usable(v)
  /\ Get(v)
  /\ todo' = [todo EXCEPT ![t] = <<T("rel", v)>>]
  /\ UNCHANGED <<mem, st, pins, birth, lists, vlock, delay>>

\* wlan_objmgr_vdev_try_get_bsspeer, by a thread that has the vdev
GetBssPeer(t, v) ==
  /\ Doing(t, T("rel", v)) /\ Len(todo[t]) = 1 /\ vlock[v] = NULL
  /\ bss[v] # NULL /\ Usable(bss[v])
  /\ Get(bss[v])
  /\ todo' = [todo EXCEPT ![t] = <<T("rel", bss[v])>> \o @]
  /\ UNCHANGED <<mem, st, pins, birth, lists, vlock, delay>>

\* Mutant: the traversal starts at a peer without counting it.
IterateHead_no_get(t) ==
  /\ Idle(t)
  /\ todo' = [todo EXCEPT ![t] = Tasks("next", FirstOf(psocPeers, Active(psocPeers, All(psocPeers))))]
  /\ UNCHANGED <<mem, st, ref, pins, birth, lists, vlock, delay>>

\* wlan_objmgr_iterate_obj_list: the head of the psoc's list ...
IterateHead(t) ==
  LET head == FirstOf(psocPeers, Active(psocPeers, All(psocPeers))) IN
  /\ Idle(t) /\ head # {}
  /\ \E p \in head : Get(p)
  /\ todo' = [todo EXCEPT ![t] = Tasks("next", head)]
  /\ UNCHANGED <<mem, st, pins, birth, lists, vlock, delay>>

\* ... and, after the handler, the next active peer, before the release of
\* the one the traversal stands on.
IterateNext(t, p) ==
  LET next == FirstOf(psocPeers, Active(psocPeers, After(psocPeers, p))) IN
  /\ Doing(t, T("next", p))
  /\ IF next = {} THEN UNCHANGED ref ELSE \E q \in next : Get(q)
  /\ Then(t, <<T("rel", p)>> \o Tasks("next", next))
  /\ UNCHANGED <<mem, st, pins, birth, lists, vlock, delay>>

\* wlan_objmgr_iterate_peerobj_list, by a thread that has the vdev: the lock
\* is held over the whole traversal.
VisitStart(t, v) ==
  /\ Doing(t, T("rel", v)) /\ Len(todo[t]) = 1
  /\ vlock[v] = NULL /\ Usable(v)
  /\ vlock' = [vlock EXCEPT ![v] = t]
  /\ Get(v)
  /\ todo' = [todo EXCEPT ![t] =
       Tasks("visit", FirstOf(vdevPeers[v], All(vdevPeers[v])))
         \o <<T("vend", v)>> \o @]
  /\ UNCHANGED <<mem, st, pins, birth, lists, delay>>

Visit(t, p) ==
  LET list == vdevPeers[vdevOf[p]]
      next == Tasks("visit", FirstOf(list, After(list, p)))
  IN
  /\ Doing(t, T("visit", p))
  /\ IF Usable(p)
     THEN Get(p) /\ Then(t, <<T("rel", p)>> \o next)
     ELSE UNCHANGED ref /\ Then(t, next)
  /\ UNCHANGED <<mem, st, pins, birth, lists, vlock, delay>>

VisitEnd(t, v) ==
  /\ Doing(t, T("vend", v))
  /\ Then(t, <<T("rel", v), T("unlock", v)>>)
  /\ UNCHANGED <<mem, st, ref, pins, birth, lists, vlock, delay>>

VisitUnlock(t, v) ==
  /\ Doing(t, T("unlock", v))
  /\ vlock' = [vlock EXCEPT ![v] = NULL]
  /\ Then(t, <<>>)
  /\ UNCHANGED <<mem, st, ref, pins, birth, lists, delay>>

-----------------------------------------------------------------------------
(* Release and destruction *)

\* Mutant: the destruction is only left to the work in soft interrupts.
Deferred_in_softirq(t, o) == Delayed /\ o \in Peers /\ t \in Softirq

\* wlan_objmgr_peer_obj_destroy: at once, or by the work
Deferred(t, o) == Delayed /\ o \in Peers /\ InAtomic(t)

\* wlan_objmgr_peer_release_ref, wlan_objmgr_vdev_release_ref
Release(t, o) ==
  /\ Doing(t, T("rel", o))
  /\ ref' = [ref EXCEPT ![o] = IF @ > 0 THEN @ - 1 ELSE 0]
  /\ \/ /\ ref[o] # 1
        /\ Then(t, <<>>)
        /\ UNCHANGED freeList
     \/ /\ ref[o] = 1 /\ ~Deferred(t, o)
        /\ Then(t, <<T("destroy", o)>>)
        /\ UNCHANGED freeList
     \/ /\ ref[o] = 1 /\ Deferred(t, o)
        /\ freeList' = Append(freeList, o)
        /\ Then(t, <<T("sched", NULL)>>)
  /\ UNCHANGED <<mem, st, pins, birth, lists, vlock, work>>

\* qdf_sched_work
Schedule(t) ==
  /\ Doing(t, T("sched", NULL))
  /\ work' = TRUE
  /\ Then(t, <<>>)
  /\ UNCHANGED <<mem, st, ref, pins, birth, lists, vlock, freeList>>

\* wlan_objmgr_peer_obj_free_work
WorkStart ==
  /\ work /\ Idle(Worker)
  /\ work' = FALSE
  /\ todo' = [todo EXCEPT ![Worker] = <<T("pop", NULL)>>]
  /\ UNCHANGED <<mem, st, ref, pins, birth, lists, vlock, freeList>>

WorkPop ==
  /\ Doing(Worker, T("pop", NULL))
  /\ IF freeList = <<>>
     THEN Then(Worker, <<>>) /\ UNCHANGED freeList
     ELSE /\ todo' = [todo EXCEPT ![Worker] = <<T("destroy", Head(freeList))>> \o @]
          /\ freeList' = Tail(freeList)
  /\ UNCHANGED <<mem, st, ref, pins, birth, lists, vlock, work>>

\* wlan_objmgr_peer_obj_free: a station lets go of the BSS peer that the vdev
\* has now, and the vdev is kept until the peer is freed.  (That the reference
\* on the vdev is taken before and not after that release makes no difference:
\* the peer's own reference is still there.)
FreeTasks(p) ==
  LET b == bss[vdevOf[p]] IN
  (IF role[p] = "sta" /\ b # NULL THEN <<T("rel", b)>> ELSE <<>>)
    \o <<T("detach", p), T("free", p), T("rel", vdevOf[p])>>

\* __wlan_objmgr_peer_obj_destroy
PeerDestroy(t, p) ==
  /\ Doing(t, T("destroy", p))
  /\ Get(vdevOf[p])
  /\ Then(t, FreeTasks(p))
  /\ pins' = [pins EXCEPT ![p] = NULL]
  /\ UNCHANGED <<mem, st, birth, lists, vlock, delay>>

\* wlan_objmgr_vdev_peer_detach
PeerDetach(t, p) ==
  LET v == vdevOf[p] IN
  /\ Doing(t, T("detach", p))
  /\ vlock[v] = NULL
  /\ vdevPeers' = [vdevPeers EXCEPT ![v] = Without(@, p)]
  /\ bss' = IF bss[v] = p THEN [bss EXCEPT ![v] = NULL] ELSE bss
  /\ Then(t, <<T("rel", v)>>)
  /\ UNCHANGED <<mem, st, ref, pins, birth, table, psocPeers, vlock, delay>>

\* wlan_objmgr_psoc_peer_detach and qdf_mem_free
PeerFree(t, p) ==
  /\ Doing(t, T("free", p))
  /\ psocPeers' = Without(psocPeers, p)
  /\ mem' = mem \ {p}
  /\ Then(t, <<>>)
  /\ UNCHANGED <<st, ref, pins, birth, table, vdevPeers, bss, vlock, delay>>

\* wlan_objmgr_vdev_obj_destroy
VdevDestroy(t, v) ==
  /\ Doing(t, T("destroy", v))
  /\ Then(t, <<T("free", v)>>)
  /\ UNCHANGED <<mem, st, ref, pins, birth, lists, vlock, delay>>

\* wlan_objmgr_vdev_obj_free
VdevFree(t, v) ==
  /\ Doing(t, T("free", v))
  /\ table' = table \ {v}
  /\ mem' = mem \ {v}
  /\ Then(t, <<>>)
  /\ UNCHANGED <<st, ref, pins, birth, psocPeers, vdevPeers, bss, vlock, delay>>

-----------------------------------------------------------------------------
HddStep ==
  \E v \in Vdevs : VdevCreate(v) \/ VdevAttach(v) \/ VdevCount(v) \/ VdevInit(v)

McStep ==
  \E p \in Peers :
    \/ \E v \in Vdevs, r \in {"bss", "sta"} : PeerCreate(v, p, r)
    \/ PeerAlloc(p) \/ PeerAttach(p) \/ PeerPinBss(p) \/ PeerInit(p)
    \/ PeerRemove(p)

ReaderStep(t) ==
  \/ IterateHead(t)
  \/ \E p \in Peers : GetPeer(t, p) \/ IterateNext(t, p) \/ Visit(t, p)
  \/ \E v \in Vdevs : \/ GetVdev(t, v) \/ GetBssPeer(t, v) \/ VisitStart(t, v)
                      \/ VisitEnd(t, v) \/ VisitUnlock(t, v)

CommonStep(t) ==
  \/ Schedule(t)
  \/ \E o \in Objects : Delete(t, o) \/ Release(t, o)
  \/ \E p \in Peers : PeerDestroy(t, p) \/ PeerDetach(t, p) \/ PeerFree(t, p)
  \/ \E v \in Vdevs : VdevDestroy(t, v) \/ VdevFree(t, v)

Next ==
  \/ HddStep \/ McStep \/ WorkStart \/ WorkPop
  \/ \E t \in Readers : ReaderStep(t)
  \/ \E t \in Threads : CommonStep(t)

Spec == Init /\ [][Next]_vars

-----------------------------------------------------------------------------
(* Properties *)

\* How many times the tasks of the threads name o in an operation of ops.
Pending(o, ops) ==
  LET places(t) == {i \in All(todo[t]) : todo[t][i].op \in ops /\ todo[t][i].obj = o}
  IN  Cardinality(UNION {{t} \X places(t) : t \in Threads})

\* Every property below holds until a BSS peer takes the place of one that
\* stations of the vdev still count on.  wlan_objmgr_peer_obj_free releases the
\* BSS peer the vdev has then and not the one the station's creation counted,
\* so that from there on one count is too high and one too low.  The code has
\* nothing that excludes it: `swapped' records it, and guards no step.

\* What the variables are; no peer is linked into a list twice.
Types ==
  /\ \A list \in {psocPeers, freeList} \cup {vdevPeers[v] : v \in Vdevs} :
       IsInjective(list)
  /\ mem \subseteq Objects
  /\ st \in [Objects -> {"uncounted", "allocated", "created", "deleted"}]
  /\ ref \in [Objects -> Nat]
  /\ role \in [Peers -> {"bss", "sta"}]
  /\ vdevOf \in [Peers -> Vdevs]
  /\ pins \in [Peers -> Peers \cup {NULL}]
  /\ table \subseteq Vdevs
  /\ psocPeers \in Seq(Peers)
  /\ vdevPeers \in [Vdevs -> Seq(Peers)]
  /\ bss \in [Vdevs -> Peers \cup {NULL}]
  /\ vlock \in [Vdevs -> Threads \cup {NULL}]
  /\ freeList \in Seq(Peers)
  /\ work \in BOOLEAN
  /\ todo \in [Threads -> Seq([op : Ops, obj : Objects \cup {NULL}])]
  /\ made \in [peers : 0..MaxPeers, vdevs : 0..MaxVdevs]

\* The types; no peer is linked into a list twice, until a swap.
TypeOK == swapped \in BOOLEAN /\ (~swapped => Types)

\* Whatever is led to is there: no thread has anything left to do with an
\* object whose memory is freed, no list, table or pointer leads to one, and a
\* traversal stands on a peer that is on its list, so that it has a next.
UsedIsAlive == ~swapped =>
  /\ \A t \in Threads : \A i \in 1..Len(todo[t]) :
       LET k == todo[t][i] IN
       /\ k.op \notin {"valloc", "alloc"} => k.obj \in mem \cup {NULL}
       /\ k.op = "next"  => k.obj \in ToSet(psocPeers)
       /\ k.op = "visit" => /\ k.obj \in ToSet(vdevPeers[vdevOf[k.obj]])
                            /\ vlock[vdevOf[k.obj]] = t
  /\ table \cup ToSet(psocPeers) \cup ToSet(freeList) \subseteq mem
  /\ \A v \in mem \cap Vdevs :
       ToSet(vdevPeers[v]) \cup ({bss[v]} \ {NULL}) \subseteq mem
  /\ \A p \in mem \cap Peers : {vdevOf[p]} \cup ({pins[p]} \ {NULL}) \subseteq mem

\* The creator's reference, from the set-up of the count to the deletion.
Creators(o) == IF st[o] \in {"allocated", "created"} THEN 1 ELSE 0

\* A count is exactly the references there are: the creator's until the
\* logical deletion, one per thread that must still release it, one per peer
\* for its vdev, one per station for its BSS peer.  Neither a leak nor a
\* release too many can hide behind another reference, until a swap.
CountExact == ~swapped =>
  /\ \A p \in mem \cap Peers :
       ref[p] = Creators(p) + Pending(p, {"rel", "next"})
                + Cardinality({q \in Peers : pins[q] = p})
  /\ \A v \in mem \cap Vdevs :
       ref[v] = Creators(v) + Pending(v, {"rel", "vend"}) + Len(vdevPeers[v])

\* An object without references is destroyed, by one thread and once: it is
\* on the way to be freed (or has no count yet) exactly when its count is zero,
\* however many threads let go of it together, until a swap.
DestroyedOnce == ~swapped =>
  \A o \in mem :
    Pending(o, {"vcount", "destroy", "free"})
      + Cardinality({i \in 1..Len(freeList) : freeList[i] = o})
    = IF ref[o] = 0 THEN 1 ELSE 0

\* No thread waits for a vdev's lock that it holds itself: a destruction
\* under the lock is left to the work, until a swap.
NoSelfDeadlock == ~swapped =>
  \A t \in Threads : todo[t] # <<>> =>
    LET k == Head(todo[t]) IN
    /\ k.op \in {"attach", "detach"} => vlock[vdevOf[k.obj]] # t
    /\ k.op = "del" /\ k.obj \in Vdevs => vlock[k.obj] # t

\* When no thread has anything to do, what was deleted is freed, except what a
\* peer still in use needs: its vdev and the BSS peer that it counted on.
\* After a swap a BSS peer may stay for ever.
NoLeak == ~swapped =>
  ((\A t \in Threads : Idle(t)) /\ ~work =>
    /\ freeList = <<>>
    /\ \A o \in mem : st[o] # "created" =>
         \E q \in mem \cap Peers : Usable(q) /\ o \in {vdevOf[q], pins[q]})

=============================================================================
