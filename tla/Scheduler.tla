----------------------------- MODULE Scheduler -----------------------------
(***************************************************************************)
(* The control path scheduler of the WLAN host driver                      *)
(* (qca-wifi-host-cmn/scheduler): any context posts messages to queues of  *)
(* fixed priority, one thread handles them, one at a time.  Around it, the *)
(* three actors whose timing matters: the posters, system suspend and      *)
(* resume (wlan_hdd_power.c), and the owner that opens and closes the      *)
(* modules (cds_api.c), at idle shutdown, unload and recovery.             *)
(*                                                                         *)
(* Each access to shared state (a queue under its lock, an atomic bit or   *)
(* counter, an event) is a step.  Suspend and resume are psoc operations   *)
(* and open and close run in psoc transitions, so Dsc keeps these apart.   *)
(* What a handler does is external; that it returns is its promise.        *)
(***************************************************************************)
EXTENDS Naturals, Sequences, FiniteSets

CONSTANTS
  Posters,     \* contexts that post messages
  N,           \* SCHEDULER_NUMBER_OF_MSG_QUEUE
  Slots,       \* message buffers of the sched_pool
  MaxMessages, \* SCHEDULER_CORE_MAX_MESSAGES
  TokenMax,    \* where the count of a completion saturates (UINT_MAX)
  Faults,      \* what may go wrong: "timeout" of suspend, failed "open"
  NULL

ASSUME SchedulerAssumption ==
  /\ N \in Nat \ {0} /\ MaxMessages \in Nat /\ TokenMax \in Nat /\ TokenMax > 1
  /\ IsFiniteSet(Slots) /\ Cardinality(Slots) >= MaxMessages
  /\ IsFiniteSet(Posters)
  /\ NULL \notin Slots
  /\ Faults \subseteq {"timeout", "open"}

Queues == 1 .. N

VARIABLES
  bits,       \* sch_event_flag
  queue,      \* queue_ctx.sch_msg_q
  handler,    \* queues with a scheduler_msg_process_fn
  depth,      \* __sched_queue_depth
  free,       \* buffers in the pool
  late,       \* (history) buffers put on a queue while there was no thread
  sch_thread, \* there is a scheduler thread
  thr,        \* where that thread is
  idx,        \* the queue it looks at
  current,    \* the message it handles
  resume_ev,  \* resume_sch_event
  sus_var,    \* hdd_ctx->mc_sus_event_var, a completion's count
  sus_flag,   \* hdd_ctx->is_scheduler_suspended
  pm,         \* where suspend is
  owner,      \* where open and close are
  recovering, \* cds_is_driver_recovering()
  pc, slot, target \* where a poster is, its buffer and its queue

threadVars == <<thr, idx, current>>
posterVars == <<pc, slot, target>>
queueVars  == <<queue, depth, free, late>>
pmVars     == <<sus_flag, pm>>
ownerVars  == <<handler, sch_thread, owner, recovering>>
eventVars  == <<resume_ev, sus_var>>
vars == <<bits, queueVars, threadVars, posterVars, pmVars, ownerVars, eventVars>>

InQueue(m) == \E k \in Queues : \E i \in DOMAIN queue[k] : queue[k][i] = m

Init ==
  /\ bits = {} /\ handler = {} /\ depth = 0 /\ free = Slots /\ late = {}
  /\ queue = [k \in Queues |-> <<>>]
  /\ sch_thread = FALSE /\ thr = "none" /\ idx = 1 /\ current = NULL
  /\ resume_ev = FALSE /\ sus_var = 0 /\ sus_flag = FALSE /\ pm = "awake"
  /\ owner = "closed" /\ recovering = FALSE
  /\ pc = [p \in Posters |-> "idle"] /\ slot = [p \in Posters |-> NULL]
  /\ target = [p \in Posters |-> NULL]

-----------------------------------------------------------------------------
(***************************************************************************)
(* scheduler_post_msg_by_priority.  A post that is refused at once, without *)
(* a thread or a handler, is no step.  (A module that was deregistered     *)
(* keeps its entry in scheduler_msg_qid_to_qidx; the handler check still   *)
(* refuses it, so queues stand for the modules that own them.)             *)
(***************************************************************************)
scheduler_post_msg(p, k) ==
  /\ pc[p] = "idle"
  /\ sch_thread /\ k \in handler
  /\ pc' = [pc EXCEPT ![p] = "dup"]
  /\ target' = [target EXCEPT ![p] = k]
  /\ UNCHANGED <<bits, queueVars, threadVars, slot, pmVars, ownerVars, eventVars>>

\* (mutant) a refused message is not counted, yet it is uncounted.
scheduler_core_msg_dup_tests_first(p) ==
  /\ pc[p] = "dup"
  /\ \/ /\ depth + 1 <= MaxMessages
        /\ depth' = depth + 1
        /\ \E m \in free : free' = free \ {m} /\ slot' = [slot EXCEPT ![p] = m]
        /\ pc' = [pc EXCEPT ![p] = "put"]
     \/ /\ pc' = [pc EXCEPT ![p] = "full"]
        /\ UNCHANGED <<depth, free, slot>>
  /\ UNCHANGED <<bits, queue, late, threadVars, target, pmVars, ownerVars, eventVars>>

\* Count the message, then take a buffer, unless there are too many (or no memory).
scheduler_core_msg_dup(p) ==
  /\ pc[p] = "dup"
  /\ depth' = depth + 1
  /\ \/ /\ depth + 1 <= MaxMessages
        /\ \E m \in free : free' = free \ {m} /\ slot' = [slot EXCEPT ![p] = m]
        /\ pc' = [pc EXCEPT ![p] = "put"]
     \/ /\ pc' = [pc EXCEPT ![p] = "full"]
        /\ UNCHANGED <<free, slot>>
  /\ UNCHANGED <<bits, queue, late, threadVars, target, pmVars, ownerVars, eventVars>>

dec_queue_count(p) ==
  /\ pc[p] = "full"
  /\ depth' = depth - 1
  /\ pc' = [pc EXCEPT ![p] = "idle"]
  /\ target' = [target EXCEPT ![p] = NULL]
  /\ UNCHANGED <<bits, queue, free, late, threadVars, slot, pmVars, ownerVars, eventVars>>

\* scheduler_mq_put and, for a message of high priority, scheduler_mq_put_front.
scheduler_mq_put(p) ==
  LET k == target[p]
  IN  /\ pc[p] = "put"
      /\ queue' \in {[queue EXCEPT ![k] = Append(queue[k], slot[p])],
                     [queue EXCEPT ![k] = <<slot[p]>> \o queue[k]]}
      /\ late' = IF sch_thread THEN late ELSE late \cup {slot[p]}
      /\ pc' = [pc EXCEPT ![p] = "notify"]
      /\ slot' = [slot EXCEPT ![p] = NULL]
      /\ UNCHANGED <<bits, depth, free, threadVars, target, pmVars, ownerVars, eventVars>>

\* Set MC_POST_EVENT and wake the thread.
scheduler_post_notify(p) ==
  /\ pc[p] = "notify"
  /\ bits' = bits \cup {"POST"}
  /\ pc' = [pc EXCEPT ![p] = "idle"]
  /\ target' = [target EXCEPT ![p] = NULL]
  /\ UNCHANGED <<queueVars, threadVars, slot, pmVars, ownerVars, eventVars>>

-----------------------------------------------------------------------------
(***************************************************************************)
(* scheduler_thread: wait for a bit, clear MC_POST, go through the queues, *)
(* from the first one again after every message, then look for a suspend.  *)
(* Shutdown, not suspend, is seen before every message.                    *)
(***************************************************************************)
scheduler_thread_wake ==
  /\ thr = "wait"
  /\ bits \cap {"POST", "SUSPEND"} # {}
  /\ bits' = bits \ {"POST"}
  /\ thr' = "scan" /\ idx' = 1
  /\ UNCHANGED <<queueVars, current, posterVars, pmVars, ownerVars, eventVars>>

\* complete(): saturates.
complete(c) == IF c = TokenMax THEN c ELSE c + 1

\* The thread exits; a suspend that waits for it is let go.
scheduler_thread_shutdown ==
  /\ thr = "scan" /\ idx \in Queues
  /\ "SHUTDOWN" \in bits
  /\ sus_var' = IF "SUSPEND" \in bits THEN complete(sus_var) ELSE sus_var
  /\ bits' = bits \ {"SUSPEND"}
  /\ thr' = "exited"
  /\ UNCHANGED <<queueVars, idx, current, posterVars, pmVars, ownerVars, resume_ev>>

\* A message whose queue has no handler is taken off and not freed.
scheduler_mq_get ==
  /\ thr = "scan" /\ idx \in Queues
  /\ "SHUTDOWN" \notin bits
  /\ IF queue[idx] = <<>>
     THEN idx' = idx + 1 /\ UNCHANGED <<queue, late, thr, current>>
     ELSE /\ queue' = [queue EXCEPT ![idx] = Tail(queue[idx])]
          /\ late' = late \ {Head(queue[idx])}
          /\ IF idx \in handler
             THEN thr' = "run" /\ current' = Head(queue[idx]) /\ idx' = idx
             ELSE idx' = 1 /\ UNCHANGED <<thr, current>>
  /\ UNCHANGED <<bits, depth, free, posterVars, pmVars, ownerVars, eventVars>>

\* scheduler_msg_process_fn has returned; scheduler_core_msg_free.
scheduler_msg_processed ==
  /\ thr = "run"
  /\ free' = free \cup {current}
  /\ depth' = depth - 1
  /\ thr' = "scan" /\ idx' = 1 /\ current' = NULL
  /\ UNCHANGED <<bits, queue, late, posterVars, pmVars, ownerVars, eventVars>>

\* (mutant) MC_POST is cleared after the queues were found empty.
scheduler_thread_idle_clears ==
  /\ thr = "scan" /\ idx = N + 1
  /\ thr' = IF "SUSPEND" \in bits THEN "ack" ELSE "wait"
  /\ bits' = bits \ {"SUSPEND", "POST"}
  /\ UNCHANGED <<queueVars, idx, current, posterVars, pmVars, ownerVars, eventVars>>

\* All queues were empty: test and clear MC_SUSPEND.
scheduler_thread_idle ==
  /\ thr = "scan" /\ idx = N + 1
  /\ thr' = IF "SUSPEND" \in bits THEN "ack" ELSE "wait"
  /\ bits' = bits \ {"SUSPEND"}
  /\ UNCHANGED <<queueVars, idx, current, posterVars, pmVars, ownerVars, eventVars>>

\* Reset resume_sch_event and tell suspend (hdd_suspend_cb) ...
scheduler_thread_suspend ==
  /\ thr = "ack"
  /\ resume_ev' = FALSE
  /\ sus_var' = complete(sus_var)
  /\ thr' = "asleep"
  /\ UNCHANGED <<bits, queueVars, idx, current, posterVars, pmVars, ownerVars>>

\* ... and sleep until resume_sch_event is set.
scheduler_thread_resumed ==
  /\ thr = "asleep"
  /\ resume_ev
  /\ resume_ev' = FALSE
  /\ thr' = "wait"
  /\ UNCHANGED <<bits, queueVars, idx, current, posterVars, pmVars, ownerVars, sus_var>>

-----------------------------------------------------------------------------
(***************************************************************************)
(* System suspend and resume.                                              *)
(***************************************************************************)
\* __wlan_hdd_cfg80211_suspend_wlan, an operation on a psoc that is up.
hdd_suspend ==
  /\ pm = "awake" /\ owner = "up" /\ ~recovering
  /\ bits' = bits \cup {"SUSPEND"}
  /\ pm' = "waiting"
  /\ UNCHANGED <<queueVars, threadVars, posterVars, sus_flag, ownerVars, eventVars>>

\* wait_for_completion_timeout: the scheduler has suspended itself ...
hdd_suspend_done ==
  /\ pm = "waiting" /\ sus_var > 0
  /\ sus_var' = IF sus_var = TokenMax THEN sus_var ELSE sus_var - 1
  /\ sus_flag' = TRUE
  /\ pm' = "set"
  /\ UNCHANGED <<bits, queueVars, threadVars, posterVars, ownerVars, resume_ev>>

\* The rest of suspend (data path threads, the firmware) succeeds ...
hdd_suspend_wlan ==
  /\ pm = "set"
  /\ pm' = "suspended"
  /\ UNCHANGED <<bits, queueVars, threadVars, posterVars, sus_flag, ownerVars, eventVars>>

\* ... or fails: resume_ol_rx resumes the scheduler whatever the driver's state.
hdd_suspend_undo ==
  /\ pm = "set"
  /\ resume_ev' = TRUE
  /\ pm' = "resumed"
  /\ UNCHANGED <<bits, queueVars, threadVars, posterVars, sus_flag, ownerVars, sus_var>>

\* ... or has not in time: take the request back, without a resume.
hdd_suspend_timeout ==
  /\ "timeout" \in Faults
  /\ pm = "waiting" /\ sus_var = 0
  /\ pm' = "giveup"
  /\ UNCHANGED <<bits, queueVars, threadVars, posterVars, sus_flag, ownerVars, eventVars>>

hdd_suspend_failed ==
  /\ pm = "giveup"
  /\ bits' = bits \ {"SUSPEND"}
  /\ pm' = "awake"
  /\ UNCHANGED <<queueVars, threadVars, posterVars, sus_flag, ownerVars, eventVars>>

\* __wlan_hdd_cfg80211_resume_wlan, which does nothing while the driver
\* recovers or is closed, or if recovery has resumed the scheduler already.
hdd_resume ==
  /\ pm = "suspended"
  /\ IF recovering \/ owner # "up" \/ ~sus_flag
     THEN pm' = "awake" /\ UNCHANGED resume_ev
     ELSE pm' = "resumed" /\ resume_ev' = TRUE
  /\ UNCHANGED <<bits, queueVars, threadVars, posterVars, sus_flag, ownerVars, sus_var>>

\* Resume, or suspend's error path, resets the flag after scheduler_resume.
hdd_resume_reset ==
  /\ pm = "resumed"
  /\ sus_flag' = FALSE
  /\ pm' = "awake"
  /\ UNCHANGED <<bits, queueVars, threadVars, posterVars, ownerVars, eventVars>>

-----------------------------------------------------------------------------
(***************************************************************************)
(* Open and close.                                                         *)
(***************************************************************************)
\* cds_open, by way of dispatcher_enable.
scheduler_enable ==
  /\ owner = "closed" /\ handler = {}
  /\ bits' = bits \ {"SHUTDOWN", "POST"}
  /\ sch_thread' = TRUE
  /\ thr' = "wait"
  /\ owner' = "opening"
  /\ UNCHANGED <<queueVars, idx, current, posterVars, pmVars, handler, recovering, eventVars>>

\* cds_register_all_modules, in the order of priority.
scheduler_register_module ==
  /\ owner = "opening" /\ handler # Queues
  /\ handler' = handler \cup {Cardinality(handler) + 1}
  /\ UNCHANGED <<bits, queueVars, threadVars, posterVars, pmVars, eventVars>>
  /\ UNCHANGED <<sch_thread, owner, recovering>>

\* The rest of the open succeeds, or it fails and is undone.
cds_open_done ==
  /\ owner = "opening" /\ handler = Queues
  /\ \/ owner' = "up" /\ recovering' = FALSE
     \/ "open" \in Faults /\ owner' = "undo" /\ UNCHANGED recovering
  /\ UNCHANGED <<bits, queueVars, threadVars, posterVars, pmVars, handler, sch_thread, eventVars>>

\* PLD_FW_DOWN.
hdd_fw_down ==
  /\ owner = "up" /\ ~recovering
  /\ recovering' = TRUE
  /\ UNCHANGED <<bits, queueVars, threadVars, posterVars, pmVars, handler, sch_thread, owner>>
  /\ UNCHANGED eventVars

\* No suspend or resume is under way (they are psoc operations).
Quiet == pm \in {"awake", "suspended"}

\* (mutant) the scheduler is resumed and the flag is left.
hdd_wlan_shutdown_keeps_flag ==
  /\ owner = "up" /\ recovering /\ Quiet
  /\ resume_ev' = (resume_ev \/ sus_flag)
  /\ owner' = "down"
  /\ UNCHANGED <<bits, queueVars, threadVars, posterVars, pmVars, handler, sch_thread>>
  /\ UNCHANGED <<recovering, sus_var>>

\* (mutant) the flag is reset and the scheduler is not resumed.
hdd_wlan_shutdown_no_resume ==
  /\ owner = "up" /\ recovering /\ Quiet
  /\ sus_flag' = FALSE
  /\ owner' = "down"
  /\ UNCHANGED <<bits, queueVars, threadVars, posterVars, pm, handler, sch_thread>>
  /\ UNCHANGED <<recovering, eventVars>>

\* Recovery closes at any time that is not within a suspend or a resume; if the
\* scheduler is suspended, it resumes it first ...
hdd_wlan_shutdown ==
  /\ owner = "up" /\ recovering /\ Quiet
  /\ resume_ev' = (resume_ev \/ sus_flag)
  /\ owner' = IF sus_flag THEN "resumed" ELSE "down"
  /\ UNCHANGED <<bits, queueVars, threadVars, posterVars, pmVars, handler, sch_thread>>
  /\ UNCHANGED <<recovering, sus_var>>

\* ... and resets the flag.
hdd_wlan_shutdown_reset ==
  /\ owner = "resumed"
  /\ sus_flag' = FALSE
  /\ owner' = "down"
  /\ UNCHANGED <<bits, queueVars, threadVars, posterVars, pm, handler, sch_thread>>
  /\ UNCHANGED <<recovering, eventVars>>

\* Idle shutdown and unload close only a driver that is not suspended.
hdd_idle_shutdown ==
  /\ owner = "up" /\ ~recovering /\ pm = "awake"
  /\ owner' = "down"
  /\ UNCHANGED <<bits, queueVars, threadVars, posterVars, pmVars, handler, sch_thread>>
  /\ UNCHANGED <<recovering, eventVars>>

\* (mutant) the shutdown bit is set and the thread is not woken.
scheduler_disable_no_wake ==
  /\ owner = "down" \/ (owner = "undo" /\ handler = {})
  /\ bits' = bits \cup {"SHUTDOWN"}
  /\ owner' = "stopping"
  /\ UNCHANGED <<queueVars, threadVars, posterVars, pmVars, handler, sch_thread, recovering>>
  /\ UNCHANGED eventVars

\* scheduler_disable (cds_post_disable, dispatcher_disable): tell the thread ...
scheduler_disable ==
  /\ owner = "down" \/ (owner = "undo" /\ handler = {})
  /\ bits' = bits \cup {"SHUTDOWN", "POST"}
  /\ owner' = "stopping"
  /\ UNCHANGED <<queueVars, threadVars, posterVars, pmVars, handler, sch_thread, recovering>>
  /\ UNCHANGED eventVars

\* ... wait for sch_shutdown ...
scheduler_disable_exited ==
  /\ owner = "stopping" /\ thr = "exited"
  /\ sch_thread' = FALSE
  /\ thr' = "none" /\ idx' = 1
  /\ owner' = "flush"
  /\ UNCHANGED <<bits, queueVars, current, posterVars, pmVars, handler, recovering>>
  /\ UNCHANGED eventVars

\* (mutant) the flushed message is freed and not uncounted.
scheduler_flush_uncounted ==
  /\ owner = "flush"
  /\ IF queue[idx] # <<>>
     THEN /\ queue' = [queue EXCEPT ![idx] = Tail(queue[idx])]
          /\ free' = free \cup {Head(queue[idx])}
          /\ late' = late \ {Head(queue[idx])}
          /\ UNCHANGED <<depth, idx, owner>>
     ELSE /\ idx' = IF idx = N THEN 1 ELSE idx + 1
          /\ owner' = IF idx = N THEN "closed" ELSE owner
          /\ UNCHANGED queueVars
  /\ UNCHANGED <<bits, thr, current, posterVars, pmVars, handler, sch_thread, recovering>>
  /\ UNCHANGED eventVars

\* ... and flush the queues, one message at a time, one queue after the other.
scheduler_queues_flush ==
  /\ owner = "flush"
  /\ IF queue[idx] # <<>>
     THEN /\ queue' = [queue EXCEPT ![idx] = Tail(queue[idx])]
          /\ free' = free \cup {Head(queue[idx])}
          /\ late' = late \ {Head(queue[idx])}
          /\ depth' = depth - 1
          /\ UNCHANGED <<idx, owner>>
     ELSE /\ idx' = IF idx = N THEN 1 ELSE idx + 1
          /\ owner' = IF idx = N THEN "closed" ELSE owner
          /\ UNCHANGED queueVars
  /\ UNCHANGED <<bits, thr, current, posterVars, pmVars, handler, sch_thread, recovering>>
  /\ UNCHANGED eventVars

\* cds_deregister_all_modules: the last queue, then the others in order; after
\* the scheduler was disabled, or while it runs when an open is undone.
scheduler_deregister_module(k) ==
  /\ owner \in {"closed", "undo"} /\ k \in handler
  /\ k = N \/ (N \notin handler /\ \A j \in handler : k <= j)
  /\ handler' = handler \ {k}
  /\ UNCHANGED <<bits, queueVars, threadVars, posterVars, pmVars, sch_thread, owner, recovering>>
  /\ UNCHANGED eventVars

-----------------------------------------------------------------------------
\* A post that was not refused goes on to its end.
PosterStep(p) ==
  \/ scheduler_core_msg_dup(p)
  \/ dec_queue_count(p)
  \/ scheduler_mq_put(p)
  \/ scheduler_post_notify(p)

ThreadStep ==
  \/ scheduler_thread_wake
  \/ scheduler_thread_shutdown
  \/ scheduler_mq_get
  \/ scheduler_msg_processed
  \/ scheduler_thread_idle
  \/ scheduler_thread_suspend
  \/ scheduler_thread_resumed

SuspendStep ==
  \/ hdd_suspend_done
  \/ hdd_suspend_timeout
  \/ hdd_suspend_failed
  \/ hdd_suspend_wlan
  \/ hdd_suspend_undo
  \/ hdd_resume
  \/ hdd_resume_reset

CloseStep ==
  \/ hdd_wlan_shutdown_reset
  \/ scheduler_disable
  \/ scheduler_disable_exited
  \/ scheduler_queues_flush
  \/ \E k \in Queues : scheduler_deregister_module(k)

OpenStep ==
  \/ scheduler_enable
  \/ scheduler_register_module
  \/ cds_open_done

Next ==
  \/ \E p \in Posters : PosterStep(p) \/ \E k \in Queues : scheduler_post_msg(p, k)
  \/ ThreadStep
  \/ hdd_suspend \/ SuspendStep
  \/ OpenStep \/ CloseStep
  \/ hdd_fw_down \/ hdd_wlan_shutdown \/ hdd_idle_shutdown

Spec == Init /\ [][Next]_vars

(***************************************************************************)
(* What goes on by itself: a post that was begun, the thread (a handler    *)
(* returns: the watchdog panics otherwise), an open's undo or a close that *)
(* was begun.  A suspended system is resumed some time (or its suspend is  *)
(* undone), and a driver whose firmware went down is shut down by the      *)
(* platform driver.  Nobody has to post, suspend, open or close.           *)
(***************************************************************************)
Fairness ==
  /\ \A p \in Posters : WF_vars(PosterStep(p))
  /\ WF_vars(ThreadStep)
  /\ WF_vars(SuspendStep)
  /\ WF_vars(CloseStep)
  /\ WF_vars(hdd_wlan_shutdown)

FairSpec == Spec /\ Fairness
-----------------------------------------------------------------------------
(***************************************************************************)
(* Properties.                                                             *)
(***************************************************************************)
Used == Slots \ free

\* Every variable has its type; the thread looks at the queues from the first
\* to one past the last.
TypeOK ==
  /\ bits \subseteq {"POST", "SUSPEND", "SHUTDOWN"}
  /\ queue \in [Queues -> Seq(Slots)]
  /\ handler \subseteq Queues
  /\ depth \in Nat
  /\ free \subseteq Slots /\ late \subseteq Slots
  /\ sch_thread \in BOOLEAN /\ recovering \in BOOLEAN
  /\ thr \in {"none", "wait", "scan", "run", "ack", "asleep", "exited"}
  /\ idx \in 1 .. N + 1
  /\ current \in Slots \cup {NULL}
  /\ resume_ev \in BOOLEAN /\ sus_flag \in BOOLEAN
  /\ sus_var \in 0 .. TokenMax
  /\ pm \in {"awake", "waiting", "giveup", "set", "suspended", "resumed"}
  /\ owner \in {"closed", "opening", "up", "undo", "resumed", "down", "stopping", "flush"}
  /\ pc \in [Posters -> {"idle", "dup", "full", "put", "notify"}]
  /\ slot \in [Posters -> Slots \cup {NULL}]
  /\ target \in [Posters -> Queues \cup {NULL}]

\* A message put on a queue while there is a thread is never left behind by
\* scheduler_thread: when the thread goes to sleep on its wait queue, MC_POST
\* is set or the poster is about to set it.
NoLostWakeup ==
  thr = "wait" /\ (\E m \in Slots \ late : InQueue(m)) =>
    "POST" \in bits \/ \E p \in Posters : pc[p] = "notify"

\* scheduler_core_msg_dup and _free and the undone counts of refused posts keep
\* __sched_queue_depth equal to the buffers in use, and however posts, handling
\* and flush interleave these are no more than SCHEDULER_CORE_MAX_MESSAGES.
DepthExact ==
  /\ depth = Cardinality(Used) + Cardinality({p \in Posters : pc[p] = "full"})
  /\ Cardinality(Used) <= MaxMessages

\* "is_scheduler_suspended: true if the MC Thread is suspended", or whoever
\* (resume, the error path of suspend, recovery) has just resumed it is about to
\* reset the flag.
SuspendFlagTrue ==
  sus_flag => (thr = "asleep" /\ ~resume_ev) \/ pm = "resumed" \/ owner = "resumed"

\* A thread that sleeps for a resume has someone who knows that it must be
\* resumed ("Wait for resume indication").
SleeperHasResumer == thr = "asleep" /\ ~resume_ev => sus_flag \/ pm = "waiting"

\* scheduler_disable returns, whatever is posted meanwhile and even if the
\* system was suspended when recovery began.
CloseReturns == owner \in {"resumed", "down", "undo"} ~> owner = "closed"

\* A message on a queue leaves it, to be handled or flushed (or dropped for
\* want of a handler), if posts stop some time: neither suspend and resume nor close
\* and open make scheduler_thread_process_queues or the flush forget it.
PostedHandled ==
  (<>[][\A p \in Posters, k \in Queues : ~scheduler_post_msg(p, k)]_vars) =>
    \A m \in Slots : (InQueue(m) /\ m \notin late) ~> ~InQueue(m)
=============================================================================
