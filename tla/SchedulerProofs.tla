-------------------------- MODULE SchedulerProofs --------------------------
(***************************************************************************)
(* Proofs of the safety properties of Scheduler, for any number of         *)
(* posters, queues and message buffers.                                    *)
(***************************************************************************)
EXTENDS Scheduler, FiniteSetTheorems, TLAPS

(***************************************************************************)
(* The inductive invariant.  A buffer that is in use is in at most one     *)
(* place: with a poster, on a queue, or with the thread; so a free buffer  *)
(* is in none, and the count, which follows the buffers, never goes below  *)
(* zero.  Behind the thread's scan, MC_POST or a poster that will set it   *)
(* stands for every message it has passed by.                              *)
(***************************************************************************)
OwnerLink ==
  /\ sch_thread <=> owner \notin {"closed", "flush"}
  /\ sch_thread <=> thr # "none"
  /\ thr = "exited" => owner = "stopping"
  /\ thr = "run" <=> current # NULL
  /\ "SHUTDOWN" \in bits => owner \in {"stopping", "flush", "closed"}
  /\ owner = "flush" => idx \in Queues
  /\ owner = "opening" => \E j \in 0 .. N : handler = 1 .. j
  /\ \A p \in Posters : pc[p] # "idle" => target[p] \in Queues
  /\ \A p \in Posters : pc[p] = "put" <=> slot[p] # NULL

OnQueue(k, m) == \E i \in 1 .. Len(queue[k]) : queue[k][i] = m

\* m is in use, and on no queue.
InHand(m) == m \in Used /\ \A k \in Queues : ~OnQueue(k, m)

PlaceLink ==
  /\ \A k \in Queues : \A i \in 1 .. Len(queue[k]) : queue[k][i] \in Used
  /\ \A k, j \in Queues : \A i \in 1 .. Len(queue[k]), h \in 1 .. Len(queue[j]) :
       queue[k][i] = queue[j][h] => k = j /\ i = h
  /\ current # NULL => InHand(current)
  /\ \A p \in Posters : slot[p] # NULL => InHand(slot[p]) /\ slot[p] # current
  /\ \A p, q \in Posters : slot[p] # NULL /\ slot[p] = slot[q] => p = q

\* The thread will look at the queues again.
Due == "POST" \in bits \/ \E p \in Posters : pc[p] = "notify"

AllLate(k) == \A i \in 1 .. Len(queue[k]) : queue[k][i] \in late

WakeLink ==
  /\ thr \in {"wait", "ack", "asleep"} => Due \/ \A k \in Queues : AllLate(k)
  /\ thr = "scan" => Due \/ \A k \in Queues : k < idx => AllLate(k)
  /\ owner = "flush" => \A k \in Queues : k < idx => AllLate(k)
  /\ owner = "closed" => \A k \in Queues : AllLate(k)

IInv == TypeOK /\ OwnerLink /\ PlaceLink /\ DepthExact /\ WakeLink

-----------------------------------------------------------------------------
(* Sequences and counts *)

\* Taking the first message off a queue.
LEMMA HeadTail ==
  ASSUME NEW q \in Seq(Slots), q # <<>>
  PROVE  /\ Tail(q) \in Seq(Slots) /\ Len(Tail(q)) \in Nat
         /\ Len(q) = Len(Tail(q)) + 1
         /\ Head(q) = q[1] /\ Head(q) \in Slots
         /\ \A i \in 1 .. Len(Tail(q)) : Tail(q)[i] = q[i + 1]
  OBVIOUS

\* Putting a message at the end of a queue, or at its front.
LEMMA PutBack ==
  ASSUME NEW q \in Seq(Slots), NEW m \in Slots
  PROVE  /\ Append(q, m) \in Seq(Slots)
         /\ Len(q) \in Nat /\ Len(Append(q, m)) = Len(q) + 1
         /\ Append(q, m)[Len(q) + 1] = m
         /\ \A i \in 1 .. Len(q) : Append(q, m)[i] = q[i]
  OBVIOUS

LEMMA PutFront ==
  ASSUME NEW q \in Seq(Slots), NEW m \in Slots
  PROVE  /\ <<m>> \o q \in Seq(Slots)
         /\ Len(q) \in Nat /\ Len(<<m>> \o q) = Len(q) + 1
         /\ (<<m>> \o q)[1] = m
         /\ \A i \in 2 .. Len(q) + 1 : (<<m>> \o q)[i] = q[i - 1]
  OBVIOUS

\* The buffers in use, and the posters about to undo their count, are counted.
LEMMA Counts ==
  ASSUME NEW S, IsFiniteSet(S)
  PROVE  /\ Cardinality(S) \in Nat
         /\ \A T \in SUBSET S : IsFiniteSet(T)
         /\ \A x : x \notin S => IsFiniteSet(S \cup {x}) /\ Cardinality(S \cup {x}) = Cardinality(S) + 1
         /\ \A x \in S : IsFiniteSet(S \ {x}) /\ Cardinality(S \ {x}) = Cardinality(S) - 1
<1>1. \A T \in SUBSET S : IsFiniteSet(T)
  BY FS_Subset
<1>2. QED
  BY <1>1, FS_CardinalityType, FS_AddElement, FS_RemoveElement
-----------------------------------------------------------------------------
(* Types *)

\* The type invariant in parts that the steps change apart.
QueueTypeOK ==
  /\ queue \in [Queues -> Seq(Slots)]
  /\ depth \in Nat
  /\ free \subseteq Slots /\ late \subseteq Slots

ThreadTypeOK ==
  /\ thr \in {"none", "wait", "scan", "run", "ack", "asleep", "exited"}
  /\ idx \in 1 .. N + 1
  /\ current \in Slots \cup {NULL}

EventTypeOK ==
  /\ bits \subseteq {"POST", "SUSPEND", "SHUTDOWN"}
  /\ resume_ev \in BOOLEAN /\ sus_flag \in BOOLEAN
  /\ sus_var \in 0 .. TokenMax
  /\ pm \in {"awake", "waiting", "giveup", "set", "suspended", "resumed"}

OwnerTypeOK ==
  /\ handler \subseteq Queues
  /\ sch_thread \in BOOLEAN /\ recovering \in BOOLEAN
  /\ owner \in {"closed", "opening", "up", "undo", "resumed", "down", "stopping", "flush"}

PosterTypeOK ==
  /\ pc \in [Posters -> {"idle", "dup", "full", "put", "notify"}]
  /\ slot \in [Posters -> Slots \cup {NULL}]
  /\ target \in [Posters -> Queues \cup {NULL}]

LEMMA TypeParts ==
  /\ TypeOK <=> QueueTypeOK /\ ThreadTypeOK /\ EventTypeOK /\ OwnerTypeOK /\ PosterTypeOK
  /\ TypeOK' <=> QueueTypeOK' /\ ThreadTypeOK' /\ EventTypeOK' /\ OwnerTypeOK' /\ PosterTypeOK'
BY DEF TypeOK, QueueTypeOK, ThreadTypeOK, EventTypeOK, OwnerTypeOK, PosterTypeOK

\* A buffer in use, or a poster about to undo its count, is counted.
LEMMA Counted ==
  ASSUME TypeOK, DepthExact
  PROVE  /\ depth \in Nat
         /\ Used # {} => depth - 1 \in Nat
         /\ \A p \in Posters : pc[p] = "full" => depth - 1 \in Nat
<1> DEFINE Full == {q \in Posters : pc[q] = "full"}
<1>1. IsFiniteSet(Used) /\ IsFiniteSet(Full)
  BY SchedulerAssumption, Counts DEF SchedulerAssumption, Used
<1>2. Cardinality(Used) \in Nat /\ Cardinality(Full) \in Nat
  BY <1>1, Counts
<1>3. depth = Cardinality(Used) + Cardinality(Full)
  BY DEF DepthExact
<1>4. \A m \in Used : Cardinality(Used \ {m}) \in Nat /\ Cardinality(Used \ {m}) = Cardinality(Used) - 1
  BY <1>1, Counts
<1>5. \A p \in Full : Cardinality(Full \ {p}) \in Nat /\ Cardinality(Full \ {p}) = Cardinality(Full) - 1
  BY <1>1, Counts
<1>6. depth \in Nat
  BY DEF TypeOK
<1>7. ASSUME Used # {} PROVE depth - 1 \in Nat
  <2>1. PICK m \in Used : TRUE
    BY <1>7
  <2>2. Cardinality(Used \ {m}) \in Nat /\ Cardinality(Used \ {m}) = Cardinality(Used) - 1
    BY <1>4
  <2>3. QED
    BY <1>2, <1>3, <2>2
<1>8. ASSUME NEW p \in Posters, pc[p] = "full" PROVE depth - 1 \in Nat
  <2>1. Cardinality(Full \ {p}) \in Nat /\ Cardinality(Full \ {p}) = Cardinality(Full) - 1
    BY <1>5, <1>8
  <2>2. QED
    BY <1>2, <1>3, <2>1
<1>9. QED
  BY <1>6, <1>7, <1>8
\* A message taken off a queue is in use, and the queue is there.
LEMMA Taken ==
  ASSUME TypeOK, PlaceLink, idx \in Queues, queue[idx] # <<>>
  PROVE  /\ queue[idx] \in Seq(Slots) /\ Tail(queue[idx]) \in Seq(Slots)
         /\ Len(queue[idx]) \in Nat /\ 1 \in 1 .. Len(queue[idx])
         /\ Len(Tail(queue[idx])) = Len(queue[idx]) - 1
         /\ \A i \in 1 .. Len(queue[idx]) - 1 : Tail(queue[idx])[i] = queue[idx][i + 1]
         /\ Head(queue[idx]) = queue[idx][1] /\ Head(queue[idx]) \in Used
<1>1. queue[idx] \in Seq(Slots)
  BY DEF TypeOK
<1>2. /\ Tail(queue[idx]) \in Seq(Slots) /\ Len(Tail(queue[idx])) \in Nat
      /\ Len(queue[idx]) = Len(Tail(queue[idx])) + 1
      /\ Head(queue[idx]) = queue[idx][1]
      /\ \A i \in 1 .. Len(Tail(queue[idx])) : Tail(queue[idx])[i] = queue[idx][i + 1]
  BY <1>1, HeadTail
<1>3. 1 \in 1 .. Len(queue[idx])
  BY <1>2
<1>4. QED
  BY <1>1, <1>2, <1>3 DEF PlaceLink

\* Every message counted is uncounted once.
LEMMA QueueTypeOKNext == IInv /\ Next => QueueTypeOK'
<1> SUFFICES ASSUME IInv, Next PROVE QueueTypeOK'
  OBVIOUS
<1>0. QueueTypeOK /\ ThreadTypeOK /\ PosterTypeOK
  BY TypeParts DEF IInv
<1>1. ASSUME UNCHANGED queueVars PROVE QueueTypeOK'
  BY <1>0, <1>1 DEF QueueTypeOK, queueVars
<1>2. ASSUME NEW p \in Posters, scheduler_core_msg_dup(p) PROVE QueueTypeOK'
  BY <1>0, <1>2 DEF scheduler_core_msg_dup, QueueTypeOK
<1>3. ASSUME NEW p \in Posters, dec_queue_count(p) PROVE QueueTypeOK'
  BY <1>0, <1>3, Counted DEF dec_queue_count, QueueTypeOK, IInv
<1>4. ASSUME NEW p \in Posters, scheduler_mq_put(p) PROVE QueueTypeOK'
  <2>1. target[p] \in Queues /\ slot[p] \in Slots
    BY <1>0, <1>4 DEF scheduler_mq_put, OwnerLink, PosterTypeOK, IInv
  <2>2. /\ Append(queue[target[p]], slot[p]) \in Seq(Slots)
        /\ <<slot[p]>> \o queue[target[p]] \in Seq(Slots)
    BY <1>0, <2>1, PutBack, PutFront DEF QueueTypeOK
  <2>3. queue' \in [Queues -> Seq(Slots)]
    BY <1>0, <1>4, <2>1, <2>2 DEF scheduler_mq_put, QueueTypeOK
  <2>4. QED
    BY <1>0, <1>4, <2>1, <2>3 DEF scheduler_mq_put, QueueTypeOK
<1>5. ASSUME scheduler_mq_get PROVE QueueTypeOK'
  <2>1. CASE queue[idx] = <<>>
    BY <1>0, <1>5, <2>1 DEF scheduler_mq_get, QueueTypeOK
  <2>2. CASE queue[idx] # <<>>
    <3>1. Tail(queue[idx]) \in Seq(Slots)
      BY <1>5, <2>2, Taken DEF scheduler_mq_get, IInv
    <3>2. QED
      BY <1>0, <1>5, <2>2, <3>1 DEF scheduler_mq_get, QueueTypeOK
  <2>3. QED
    BY <2>1, <2>2
<1>6. ASSUME scheduler_msg_processed PROVE QueueTypeOK'
  <2>1. current \in Used
    BY <1>6 DEF scheduler_msg_processed, OwnerLink, PlaceLink, InHand, IInv
  <2>2. depth - 1 \in Nat
    BY <2>1, Counted DEF IInv
  <2>3. QED
    BY <1>0, <1>6, <2>1, <2>2 DEF scheduler_msg_processed, QueueTypeOK, Used
<1>7. ASSUME scheduler_queues_flush PROVE QueueTypeOK'
  <2>1. CASE queue[idx] = <<>>
    BY <1>1, <1>7, <2>1 DEF scheduler_queues_flush
  <2>2. CASE queue[idx] # <<>>
    <3>1. Tail(queue[idx]) \in Seq(Slots) /\ Head(queue[idx]) \in Used
      BY <1>7, <2>2, Taken DEF scheduler_queues_flush, OwnerLink, IInv
    <3>2. depth - 1 \in Nat
      BY <3>1, Counted DEF IInv
    <3>3. QED
      BY <1>0, <1>7, <2>2, <3>1, <3>2 DEF scheduler_queues_flush, QueueTypeOK, Used
  <2>3. QED
    BY <2>1, <2>2
<1>8. QED
  BY <1>1, <1>2, <1>3, <1>4, <1>5, <1>6, <1>7 DEF Next, PosterStep, ThreadStep, SuspendStep, CloseStep,
     OpenStep, scheduler_post_msg, scheduler_post_notify, scheduler_thread_wake,
     scheduler_thread_shutdown, scheduler_thread_idle, scheduler_thread_suspend,
     scheduler_thread_resumed, hdd_suspend, hdd_suspend_done, hdd_suspend_timeout,
     hdd_suspend_failed, hdd_suspend_wlan,
     hdd_suspend_undo, hdd_resume, hdd_resume_reset, scheduler_enable, scheduler_register_module, cds_open_done,
     hdd_fw_down, hdd_wlan_shutdown,
     hdd_wlan_shutdown_reset, hdd_idle_shutdown, scheduler_disable,
     scheduler_disable_exited, scheduler_deregister_module

\* The scan goes from queue to queue and ends behind the last one.
LEMMA ThreadTypeOKNext == IInv /\ Next => ThreadTypeOK'
<1> SUFFICES ASSUME IInv, Next PROVE ThreadTypeOK'
  OBVIOUS
<1>0. QueueTypeOK /\ ThreadTypeOK /\ N \in Nat \ {0}
  BY TypeParts, SchedulerAssumption DEF IInv, SchedulerAssumption
<1>1. ASSUME UNCHANGED threadVars PROVE ThreadTypeOK'
  BY <1>0, <1>1 DEF ThreadTypeOK, threadVars
<1>2. ASSUME scheduler_mq_get PROVE ThreadTypeOK'
  <2>1. CASE queue[idx] = <<>>
    BY <1>0, <1>2, <2>1 DEF scheduler_mq_get, ThreadTypeOK, Queues
  <2>2. CASE queue[idx] # <<>>
    <3>1. Head(queue[idx]) \in Slots
      BY <1>2, <2>2, Taken DEF scheduler_mq_get, IInv, Used
    <3>2. QED
      BY <1>0, <1>2, <2>2, <3>1 DEF scheduler_mq_get, ThreadTypeOK, Queues
  <2>3. QED
    BY <2>1, <2>2
<1>3. ASSUME scheduler_queues_flush PROVE ThreadTypeOK'
  BY <1>0, <1>3 DEF scheduler_queues_flush, ThreadTypeOK, OwnerLink, IInv, Queues
<1>4. ASSUME \/ scheduler_thread_wake \/ scheduler_thread_shutdown \/ scheduler_msg_processed
             \/ scheduler_thread_idle \/ scheduler_thread_suspend \/ scheduler_thread_resumed
             \/ scheduler_enable \/ scheduler_disable_exited
      PROVE ThreadTypeOK'
  BY <1>0, <1>4 DEF ThreadTypeOK, scheduler_thread_wake, scheduler_thread_shutdown,
     scheduler_msg_processed, scheduler_thread_idle, scheduler_thread_suspend,
     scheduler_thread_resumed, scheduler_enable, scheduler_disable_exited
<1>5. QED
  BY <1>1, <1>2, <1>3, <1>4 DEF Next, PosterStep, ThreadStep, SuspendStep, CloseStep, OpenStep,
     scheduler_post_msg, scheduler_core_msg_dup, dec_queue_count, scheduler_mq_put,
     scheduler_post_notify, hdd_suspend, hdd_suspend_done, hdd_suspend_timeout,
     hdd_suspend_failed, hdd_suspend_wlan,
     hdd_suspend_undo, hdd_resume, hdd_resume_reset, scheduler_register_module, cds_open_done, hdd_fw_down,
     hdd_wlan_shutdown,
     hdd_wlan_shutdown_reset, hdd_idle_shutdown, scheduler_disable, scheduler_deregister_module
\* A completion's count stays in its range, the pm states follow each other.
LEMMA EventTypeOKNext == IInv /\ Next => EventTypeOK'
<1> SUFFICES ASSUME IInv, Next PROVE EventTypeOK'
  OBVIOUS
<1>0. EventTypeOK /\ TokenMax \in Nat
  BY TypeParts, SchedulerAssumption DEF IInv, SchedulerAssumption
<1>1. ASSUME UNCHANGED <<bits, pmVars, eventVars>> PROVE EventTypeOK'
  BY <1>0, <1>1 DEF EventTypeOK, pmVars, eventVars
<1>2. ASSUME \E p \in Posters : scheduler_post_notify(p) PROVE EventTypeOK'
  BY <1>0, <1>2 DEF EventTypeOK, scheduler_post_notify, pmVars, eventVars
<1>3. ASSUME \/ scheduler_thread_wake \/ scheduler_thread_idle
             \/ scheduler_thread_resumed \/ scheduler_enable \/ scheduler_disable
      PROVE EventTypeOK'
  BY <1>0, <1>3 DEF EventTypeOK, scheduler_thread_wake, scheduler_thread_idle,
     scheduler_thread_resumed, scheduler_enable, scheduler_disable, pmVars, eventVars
<1>4. ASSUME scheduler_thread_shutdown \/ scheduler_thread_suspend PROVE EventTypeOK'
  <2>1. complete(sus_var) \in 0 .. TokenMax
    BY <1>0 DEF complete, EventTypeOK
  <2>2. QED
    BY <1>0, <1>4, <2>1 DEF EventTypeOK, scheduler_thread_shutdown, scheduler_thread_suspend, pmVars
<1>5. ASSUME hdd_suspend_done PROVE EventTypeOK'
  BY <1>0, <1>5 DEF EventTypeOK, hdd_suspend_done
<1>6. ASSUME hdd_suspend \/ hdd_suspend_timeout \/ hdd_suspend_failed \/ hdd_suspend_wlan
             \/ hdd_suspend_undo \/ hdd_resume \/ hdd_resume_reset \/ hdd_wlan_shutdown
             \/ hdd_wlan_shutdown_reset
      PROVE EventTypeOK'
  BY <1>0, <1>6 DEF EventTypeOK, hdd_suspend, hdd_suspend_timeout, hdd_suspend_failed, hdd_suspend_wlan,
     hdd_suspend_undo, hdd_resume, hdd_resume_reset,
     hdd_wlan_shutdown,
     hdd_wlan_shutdown_reset, pmVars, eventVars
<1>7. QED
  BY <1>1, <1>2, <1>3, <1>4, <1>5, <1>6 DEF Next, PosterStep, ThreadStep, SuspendStep, CloseStep,
     OpenStep, scheduler_post_msg, scheduler_core_msg_dup, dec_queue_count, scheduler_mq_put,
     scheduler_mq_get, scheduler_msg_processed, scheduler_register_module, cds_open_done, hdd_fw_down,
     hdd_idle_shutdown, scheduler_disable_exited, scheduler_queues_flush,
     scheduler_deregister_module

\* Modules are registered in order, so that the next one exists.
LEMMA OwnerTypeOKNext == IInv /\ Next => OwnerTypeOK'
<1> SUFFICES ASSUME IInv, Next PROVE OwnerTypeOK'
  OBVIOUS
<1>0. OwnerTypeOK /\ N \in Nat \ {0}
  BY TypeParts, SchedulerAssumption DEF IInv, SchedulerAssumption
<1>1. ASSUME UNCHANGED ownerVars PROVE OwnerTypeOK'
  BY <1>0, <1>1 DEF OwnerTypeOK, ownerVars
<1>2. ASSUME scheduler_register_module PROVE OwnerTypeOK'
  <2>1. PICK j \in 0 .. N : handler = 1 .. j
    BY <1>2 DEF scheduler_register_module, OwnerLink, IInv
  <2>2. Cardinality(handler) = j
    BY <1>0, <2>1, FS_Interval
  <2>3. Cardinality(handler) + 1 \in Queues
    BY <1>0, <1>2, <2>1, <2>2 DEF scheduler_register_module, Queues
  <2>4. QED
    BY <1>0, <1>2, <2>3 DEF scheduler_register_module, OwnerTypeOK
<1>3. ASSUME \/ scheduler_enable \/ cds_open_done \/ hdd_fw_down \/ hdd_wlan_shutdown
             \/ hdd_wlan_shutdown_reset \/ hdd_idle_shutdown
             \/ scheduler_disable \/ scheduler_disable_exited \/ scheduler_queues_flush
             \/ \E k \in Queues : scheduler_deregister_module(k)
      PROVE OwnerTypeOK'
  BY <1>0, <1>3 DEF OwnerTypeOK, scheduler_enable, cds_open_done, hdd_fw_down, hdd_wlan_shutdown,
     hdd_wlan_shutdown_reset,
     hdd_idle_shutdown, scheduler_disable, scheduler_disable_exited, scheduler_queues_flush,
     scheduler_deregister_module
<1>4. QED
  BY <1>1, <1>2, <1>3 DEF Next, PosterStep, ThreadStep, SuspendStep, CloseStep,
     OpenStep, scheduler_post_msg, scheduler_core_msg_dup, dec_queue_count, scheduler_mq_put,
     scheduler_post_notify, scheduler_thread_wake, scheduler_thread_shutdown, scheduler_mq_get,
     scheduler_msg_processed, scheduler_thread_idle, scheduler_thread_suspend, scheduler_thread_resumed,
     hdd_suspend, hdd_suspend_done, hdd_suspend_timeout, hdd_suspend_failed, hdd_suspend_wlan,
     hdd_suspend_undo, hdd_resume, hdd_resume_reset

LEMMA PosterTypeOKNext == IInv /\ Next => PosterTypeOK'
<1> SUFFICES ASSUME IInv, Next PROVE PosterTypeOK'
  OBVIOUS
<1>0. PosterTypeOK /\ QueueTypeOK
  BY TypeParts DEF IInv
<1>1. ASSUME UNCHANGED posterVars PROVE PosterTypeOK'
  BY <1>0, <1>1 DEF PosterTypeOK, posterVars
<1>2. ASSUME NEW p \in Posters, NEW k \in Queues, scheduler_post_msg(p, k) PROVE PosterTypeOK'
  BY <1>0, <1>2 DEF PosterTypeOK, scheduler_post_msg
<1>3. ASSUME NEW p \in Posters, scheduler_core_msg_dup(p) PROVE PosterTypeOK'
  <2>1. CASE UNCHANGED <<free, slot>> /\ pc' = [pc EXCEPT ![p] = "full"]
    BY <1>0, <1>3, <2>1 DEF PosterTypeOK, scheduler_core_msg_dup
  <2>2. CASE \E m \in free : free' = free \ {m} /\ slot' = [slot EXCEPT ![p] = m]
    <3>1. slot' \in [Posters -> Slots \cup {NULL}]
      BY <1>0, <2>2 DEF PosterTypeOK, QueueTypeOK
    <3>2. QED
      BY <1>0, <1>3, <3>1 DEF PosterTypeOK, scheduler_core_msg_dup
  <2>3. QED
    BY <1>3, <2>1, <2>2 DEF scheduler_core_msg_dup
<1>4. ASSUME NEW p \in Posters, dec_queue_count(p) \/ scheduler_mq_put(p) \/ scheduler_post_notify(p)
      PROVE PosterTypeOK'
  BY <1>0, <1>4 DEF PosterTypeOK, dec_queue_count, scheduler_mq_put, scheduler_post_notify
<1>5. QED
  BY <1>1, <1>2, <1>3, <1>4 DEF Next, PosterStep, ThreadStep, SuspendStep, CloseStep,
     OpenStep, scheduler_thread_wake, scheduler_thread_shutdown, scheduler_mq_get,
     scheduler_msg_processed, scheduler_thread_idle, scheduler_thread_suspend, scheduler_thread_resumed,
     hdd_suspend, hdd_suspend_done, hdd_suspend_timeout, hdd_suspend_failed, hdd_suspend_wlan,
     hdd_suspend_undo, hdd_resume, hdd_resume_reset,
     scheduler_enable, scheduler_register_module, cds_open_done, hdd_fw_down, hdd_wlan_shutdown,
     hdd_wlan_shutdown_reset,
     hdd_idle_shutdown, scheduler_disable, scheduler_disable_exited, scheduler_queues_flush,
     scheduler_deregister_module

LEMMA TypeOKNext == IInv /\ [Next]_vars => TypeOK'
<1>1. IInv /\ UNCHANGED vars => TypeOK'
  BY DEF IInv, TypeOK, vars, queueVars, threadVars, posterVars, pmVars, ownerVars, eventVars
<1>2. QED
  BY <1>1, TypeParts, QueueTypeOKNext, ThreadTypeOKNext, EventTypeOKNext, OwnerTypeOKNext, PosterTypeOKNext

-----------------------------------------------------------------------------
(* Where the thread and the owner are *)

\* There is a thread from enable to the end of disable, and it exits only when
\* it is told to.
LEMMA OwnerLinkNext == IInv /\ [Next]_vars => OwnerLink'
<1> SUFFICES ASSUME IInv, [Next]_vars PROVE OwnerLink'
  OBVIOUS
<1>0. OwnerLink /\ PosterTypeOK /\ ThreadTypeOK /\ OwnerTypeOK /\ NULL \notin Slots /\ N \in Nat \ {0}
  BY TypeParts, SchedulerAssumption DEF IInv, SchedulerAssumption
<1>1. ASSUME UNCHANGED <<bits, threadVars, posterVars, ownerVars>> PROVE OwnerLink'
  BY <1>0, <1>1 DEF OwnerLink, threadVars, posterVars, ownerVars
<1>2. ASSUME NEW p \in Posters, NEW k \in Queues, scheduler_post_msg(p, k) PROVE OwnerLink'
  BY <1>0, <1>2 DEF OwnerLink, PosterTypeOK, scheduler_post_msg, threadVars, ownerVars
<1>3. ASSUME NEW p \in Posters, scheduler_core_msg_dup(p) PROVE OwnerLink'
  <2>1. slot[p] = NULL /\ UNCHANGED <<bits, threadVars, target, ownerVars>>
    BY <1>0, <1>3 DEF OwnerLink, PosterTypeOK, scheduler_core_msg_dup
  <2>2. \A q \in Posters : pc'[q] # "idle" => pc[q] # "idle"
    BY <1>0, <1>3 DEF PosterTypeOK, scheduler_core_msg_dup
  <2>3. \A q \in Posters : pc'[q] = "put" <=> slot'[q] # NULL
    <3>1. CASE UNCHANGED <<free, slot>> /\ pc' = [pc EXCEPT ![p] = "full"]
      BY <1>0, <2>1, <3>1 DEF OwnerLink, PosterTypeOK
    <3>2. CASE /\ \E m \in free : free' = free \ {m} /\ slot' = [slot EXCEPT ![p] = m]
               /\ pc' = [pc EXCEPT ![p] = "put"]
      <4>1. PICK m \in free : slot' = [slot EXCEPT ![p] = m]
        BY <3>2
      <4>2. m # NULL
        BY <1>0, TypeParts DEF QueueTypeOK, IInv
      <4>3. QED
        BY <1>0, <3>2, <4>1, <4>2 DEF OwnerLink, PosterTypeOK
    <3>3. QED
      BY <1>3, <3>1, <3>2 DEF scheduler_core_msg_dup
  <2>4. QED
    BY <1>0, <2>1, <2>2, <2>3 DEF OwnerLink, threadVars, ownerVars
<1>4. ASSUME NEW p \in Posters, dec_queue_count(p) \/ scheduler_mq_put(p) \/ scheduler_post_notify(p)
      PROVE OwnerLink'
  BY <1>0, <1>4 DEF OwnerLink, PosterTypeOK, dec_queue_count, scheduler_mq_put, scheduler_post_notify,
     threadVars, ownerVars
<1>5. ASSUME scheduler_mq_get PROVE OwnerLink'
  <2>1. CASE queue[idx] = <<>>
    BY <1>0, <1>5, <2>1 DEF OwnerLink, scheduler_mq_get, posterVars, ownerVars
  <2>2. CASE queue[idx] # <<>>
    <3>1. Head(queue[idx]) \in Slots
      BY <1>5, <2>2, Taken DEF scheduler_mq_get, IInv, Used
    <3>2. QED
      BY <1>0, <1>5, <2>2, <3>1 DEF OwnerLink, scheduler_mq_get, posterVars, ownerVars
  <2>3. QED
    BY <2>1, <2>2
<1>6. ASSUME \/ scheduler_thread_wake \/ scheduler_thread_shutdown \/ scheduler_msg_processed
             \/ scheduler_thread_idle \/ scheduler_thread_suspend \/ scheduler_thread_resumed
      PROVE OwnerLink'
  BY <1>0, <1>6 DEF OwnerLink, ThreadTypeOK, OwnerTypeOK, scheduler_thread_wake,
     scheduler_thread_shutdown, scheduler_msg_processed, scheduler_thread_idle,
     scheduler_thread_suspend, scheduler_thread_resumed, threadVars, posterVars, ownerVars
<1>7. ASSUME hdd_suspend \/ hdd_suspend_failed PROVE OwnerLink'
  BY <1>0, <1>7 DEF OwnerLink, hdd_suspend, hdd_suspend_failed, threadVars, posterVars, ownerVars
<1>8. ASSUME scheduler_register_module PROVE OwnerLink'
  <2>1. PICK j \in 0 .. N : handler = 1 .. j
    BY <1>0, <1>8 DEF scheduler_register_module, OwnerLink
  <2>2. handler' = 1 .. j + 1
    <3>1. Cardinality(handler) = j
      BY <1>0, <2>1, FS_Interval
    <3>2. QED
      BY <1>8, <2>1, <3>1 DEF scheduler_register_module
  <2>3. j + 1 \in 0 .. N
    BY <1>0, <1>8, <2>1 DEF scheduler_register_module, Queues
  <2>4. QED
    BY <1>0, <1>8, <2>2, <2>3 DEF OwnerLink, scheduler_register_module, threadVars, posterVars
<1>9. ASSUME scheduler_enable PROVE OwnerLink'
  <2>1. handler' = 1 .. 0 /\ 0 \in 0 .. N
    BY <1>0, <1>9 DEF scheduler_enable
  <2>2. QED
    BY <1>0, <1>9, <2>1 DEF OwnerLink, scheduler_enable, posterVars
<1>10. ASSUME \/ cds_open_done \/ hdd_fw_down \/ hdd_wlan_shutdown
             \/ hdd_wlan_shutdown_reset \/ hdd_idle_shutdown \/ scheduler_disable
              \/ scheduler_disable_exited \/ \E k \in Queues : scheduler_deregister_module(k)
       PROVE OwnerLink'
  BY <1>0, <1>10 DEF OwnerLink, OwnerTypeOK, ThreadTypeOK, Queues, cds_open_done, hdd_fw_down,
     hdd_wlan_shutdown,
     hdd_wlan_shutdown_reset, hdd_idle_shutdown, scheduler_disable, scheduler_disable_exited,
     scheduler_deregister_module, threadVars, posterVars
<1>11. ASSUME scheduler_queues_flush PROVE OwnerLink'
  <2>1. CASE queue[idx] = <<>>
    BY <1>0, <1>11, <2>1 DEF OwnerLink, scheduler_queues_flush, posterVars, Queues
  <2>2. CASE queue[idx] # <<>>
    BY <1>0, <1>11, <2>2 DEF OwnerLink, scheduler_queues_flush, posterVars
  <2>3. QED
    BY <2>1, <2>2
<1>12. QED
  BY <1>1, <1>2, <1>3, <1>4, <1>5, <1>6, <1>7, <1>8, <1>9, <1>10, <1>11
     DEF Next, PosterStep, ThreadStep, SuspendStep, CloseStep, OpenStep, vars,
     hdd_suspend_done, hdd_suspend_timeout, hdd_suspend_wlan,
     hdd_suspend_undo, hdd_resume, hdd_resume_reset
-----------------------------------------------------------------------------
(* Where the buffers are *)

\* Taking the first message off queue idx keeps the others in their places,
\* and leaves the one taken on no queue.
LEMMA TakenPlace ==
  ASSUME IInv, idx \in Queues, queue[idx] # <<>>,
         queue' = [queue EXCEPT ![idx] = Tail(queue[idx])]
  PROVE  /\ \A k \in Queues : \A i \in 1 .. Len(queue'[k]) :
              \E h \in 1 .. Len(queue[k]) :
                queue'[k][i] = queue[k][h] /\ (k = idx => h = i + 1) /\ (k # idx => h = i)
         /\ \A k \in Queues : \A i \in 1 .. Len(queue'[k]) : queue'[k][i] # Head(queue[idx])
         /\ \A k, j \in Queues : \A i \in 1 .. Len(queue'[k]), h \in 1 .. Len(queue'[j]) :
              queue'[k][i] = queue'[j][h] => k = j /\ i = h
<1>1. QueueTypeOK
  BY TypeParts DEF IInv
<1>2. /\ Len(queue[idx]) \in Nat /\ 1 \in 1 .. Len(queue[idx])
      /\ Len(Tail(queue[idx])) = Len(queue[idx]) - 1
      /\ \A i \in 1 .. Len(queue[idx]) - 1 : Tail(queue[idx])[i] = queue[idx][i + 1]
      /\ Head(queue[idx]) = queue[idx][1] /\ Head(queue[idx]) \in Used
  BY Taken DEF IInv
<1>3. \A k \in Queues : queue'[k] = IF k = idx THEN Tail(queue[idx]) ELSE queue[k]
  BY <1>1 DEF QueueTypeOK
<1>4. \A k \in Queues : Len(queue[k]) \in Nat
  BY <1>1 DEF QueueTypeOK
<1>5. ASSUME NEW k \in Queues, NEW i \in 1 .. Len(queue'[k])
      PROVE  \E h \in 1 .. Len(queue[k]) :
               queue'[k][i] = queue[k][h] /\ (k = idx => h = i + 1) /\ (k # idx => h = i)
  <2>1. CASE k = idx
    <3>0. queue'[k] = Tail(queue[idx])
      BY <1>3, <2>1
    <3>1. i \in 1 .. Len(queue[idx]) - 1 /\ i + 1 \in 1 .. Len(queue[idx])
      <4>1. Len(queue'[k]) = Len(queue[idx]) - 1
        BY <1>2, <3>0
      <4>2. \A n \in Nat : \A x \in 1 .. n - 1 : x + 1 \in 1 .. n
        OBVIOUS
      <4>3. i \in 1 .. Len(queue[idx]) - 1
        BY <4>1
      <4>4. QED
        BY <1>2, <4>2, <4>3
    <3>2. queue'[k][i] = queue[idx][i + 1]
      BY <1>2, <3>0, <3>1
    <3>3. QED
      BY <2>1, <3>1, <3>2
  <2>2. CASE k # idx
    BY <1>3, <2>2
  <2>3. QED
    BY <2>1, <2>2
<1>6. ASSUME NEW k \in Queues, NEW i \in 1 .. Len(queue'[k]) PROVE queue'[k][i] # Head(queue[idx])
  <2>1. PICK h \in 1 .. Len(queue[k]) :
          queue'[k][i] = queue[k][h] /\ (k = idx => h = i + 1) /\ (k # idx => h = i)
    BY <1>5
  <2>2. i > 0 /\ i \in Int
    BY <1>2, <1>3, <1>4
  <2>3. ~(k = idx /\ h = 1)
    BY <2>1, <2>2
  <2>4. QED
    BY <1>2, <2>1, <2>3 DEF IInv, PlaceLink
<1>7. ASSUME NEW k \in Queues, NEW j \in Queues,
             NEW i \in 1 .. Len(queue'[k]), NEW h \in 1 .. Len(queue'[j]), queue'[k][i] = queue'[j][h]
      PROVE  k = j /\ i = h
  <2>1. PICK a \in 1 .. Len(queue[k]) :
          queue'[k][i] = queue[k][a] /\ (k = idx => a = i + 1) /\ (k # idx => a = i)
    BY <1>5
  <2>2. PICK b \in 1 .. Len(queue[j]) :
          queue'[j][h] = queue[j][b] /\ (j = idx => b = h + 1) /\ (j # idx => b = h)
    BY <1>5
  <2>3. k = j /\ a = b
    BY <1>7, <2>1, <2>2 DEF IInv, PlaceLink
  <2>4. i \in Int /\ h \in Int
    BY <1>2, <1>3, <1>4
  <2>5. QED
    BY <2>1, <2>2, <2>3, <2>4
<1>8. QED
  BY <1>5, <1>6, <1>7

\* A buffer goes from the pool to a poster, a queue, the thread, and back.
LEMMA PlaceLinkNext == IInv /\ [Next]_vars => PlaceLink'
<1> SUFFICES ASSUME IInv, [Next]_vars PROVE PlaceLink'
  OBVIOUS
<1>0. PlaceLink /\ OwnerLink /\ QueueTypeOK /\ ThreadTypeOK /\ PosterTypeOK /\ NULL \notin Slots
  BY TypeParts, SchedulerAssumption DEF IInv, SchedulerAssumption
<1>1. ASSUME UNCHANGED <<queue, free, current, slot>> PROVE PlaceLink'
  BY <1>0, <1>1 DEF PlaceLink, InHand, OnQueue, Used
<1>2. ASSUME NEW p \in Posters, scheduler_core_msg_dup(p) PROVE PlaceLink'
  <2>1. CASE UNCHANGED <<free, slot>>
    BY <1>1, <1>2, <2>1 DEF scheduler_core_msg_dup, threadVars
  <2>2. CASE \E m \in free : free' = free \ {m} /\ slot' = [slot EXCEPT ![p] = m]
    <3>1. PICK m \in free : free' = free \ {m} /\ slot' = [slot EXCEPT ![p] = m]
      BY <2>2
    <3>2. Used' = Used \cup {m} /\ m \notin Used /\ m # NULL /\ UNCHANGED <<queue, current>>
      BY <1>0, <1>2, <3>1 DEF scheduler_core_msg_dup, threadVars, Used, QueueTypeOK
    <3>3. InHand(m)'
      BY <1>0, <3>2 DEF InHand, OnQueue, PlaceLink
    <3>4. \A x : InHand(x) => InHand(x)' /\ x # m
      BY <3>2 DEF InHand, OnQueue
    <3>5. \A q \in Posters : slot'[q] = IF q = p THEN m ELSE slot[q]
      BY <1>0, <3>1 DEF PosterTypeOK
    <3>6. QED
      BY <1>0, <3>2, <3>3, <3>4, <3>5 DEF PlaceLink
  <2>3. QED
    BY <1>2, <2>1, <2>2 DEF scheduler_core_msg_dup
<1>3. ASSUME NEW p \in Posters, scheduler_mq_put(p) PROVE PlaceLink'
  <2> DEFINE k == target[p]
             m == slot[p]
             q == queue[k]
  <2>1. k \in Queues /\ m \in Slots /\ m # NULL /\ q \in Seq(Slots) /\ InHand(m) /\ m # current
    BY <1>0, <1>3 DEF scheduler_mq_put, OwnerLink, PosterTypeOK, QueueTypeOK, PlaceLink
  <2>2. /\ Used' = Used /\ current' = current
        /\ \A u \in Posters : slot'[u] = IF u = p THEN NULL ELSE slot[u]
    BY <1>0, <1>3 DEF scheduler_mq_put, threadVars, Used, PosterTypeOK
  <2>3. PICK r \in {Append(q, m), <<m>> \o q} : queue' = [queue EXCEPT ![k] = r]
    BY <1>3 DEF scheduler_mq_put
  <2>4. \A j \in Queues : queue'[j] = IF j = k THEN r ELSE queue[j]
    BY <1>0, <2>1, <2>3 DEF QueueTypeOK
  <2>5. /\ Len(q) \in Nat /\ Len(r) = Len(q) + 1
        /\ \E b \in {0, 1} :
             /\ \A i \in 1 .. Len(q) : r[i + b] = q[i]
             /\ r[IF b = 0 THEN Len(q) + 1 ELSE 1] = m
    <3>1. CASE r = Append(q, m)
      BY <2>1, <3>1, PutBack
    <3>2. CASE r = <<m>> \o q
      <4>1. /\ Len(q) \in Nat /\ Len(r) = Len(q) + 1 /\ r[1] = m
            /\ \A i \in 2 .. Len(q) + 1 : r[i] = q[i - 1]
        BY <2>1, <3>2, PutFront
      <4>2. \A i \in 1 .. Len(q) : r[i + 1] = q[i]
        BY <4>1
      <4>3. QED
        BY <4>1, <4>2
    <3>3. QED
      BY <3>1, <3>2
  <2>6. PICK b \in {0, 1} :
          /\ \A i \in 1 .. Len(q) : r[i + b] = q[i]
          /\ r[IF b = 0 THEN Len(q) + 1 ELSE 1] = m
    BY <2>5
  <2>7. DEFINE new == IF b = 0 THEN Len(q) + 1 ELSE 1
  <2>8. \A i \in 1 .. Len(r) : i = new \/ (i - b \in 1 .. Len(q) /\ r[i] = q[i - b])
    <3>1. SUFFICES ASSUME NEW i \in 1 .. Len(r), i # new PROVE i - b \in 1 .. Len(q) /\ r[i] = q[i - b]
      OBVIOUS
    <3>2. i - b \in 1 .. Len(q) /\ (i - b) + b = i
      BY <2>5, <3>1
    <3>3. QED
      BY <2>6, <3>2
  <2>9. r[new] = m
    BY <2>6
  <2> HIDE DEF k, m, q, new
  <2>10. \A j \in Queues : \A i \in 1 .. Len(queue'[j]) :
           \/ j = k /\ i = new /\ queue'[j][i] = m
           \/ j = k /\ i - b \in 1 .. Len(q) /\ queue'[j][i] = queue[j][i - b]
           \/ j # k /\ i \in 1 .. Len(queue[j]) /\ queue'[j][i] = queue[j][i]
    BY <2>4, <2>8, <2>9 DEF q
  <2>11. \A j \in Queues : \A i \in 1 .. Len(queue[j]) : queue[j][i] # m
    BY <2>1 DEF InHand, OnQueue
  <2>12. \A j \in Queues : \A i \in 1 .. Len(queue'[j]) : queue'[j][i] \in Used'
    <3>1. SUFFICES ASSUME NEW j \in Queues, NEW i \in 1 .. Len(queue'[j]) PROVE queue'[j][i] \in Used
      BY <2>2
    <3>2. m \in Used
      BY <2>1 DEF InHand
    <3>3. \A l \in Queues : \A h \in 1 .. Len(queue[l]) : queue[l][h] \in Used
      BY <1>0 DEF PlaceLink
    <3>4. CASE j = k /\ i - b \in 1 .. Len(q) /\ queue'[j][i] = queue[j][i - b]
      BY <3>3, <3>4 DEF q
    <3>5. QED
      BY <2>10, <3>2, <3>3, <3>4
  <2>13. ASSUME NEW j \in Queues, NEW l \in Queues, NEW i \in 1 .. Len(queue'[j]),
                NEW h \in 1 .. Len(queue'[l]), queue'[j][i] = queue'[l][h]
         PROVE  j = l /\ i = h
    <3>1. i \in Int /\ h \in Int /\ b \in Int
      BY <1>0, <2>4, <2>5 DEF QueueTypeOK
    <3>2. \A a, c \in Queues : \A f \in 1 .. Len(queue[a]), g \in 1 .. Len(queue[c]) :
            queue[a][f] = queue[c][g] => a = c /\ f = g
      BY <1>0 DEF PlaceLink
    <3>3. \/ j = k /\ i = new /\ queue'[j][i] = m
          \/ j = k /\ i - b \in 1 .. Len(queue[j]) /\ queue'[j][i] = queue[j][i - b]
          \/ j # k /\ i \in 1 .. Len(queue[j]) /\ queue'[j][i] = queue[j][i]
      BY <2>10 DEF q
    <3>4. \/ l = k /\ h = new /\ queue'[l][h] = m
          \/ l = k /\ h - b \in 1 .. Len(queue[l]) /\ queue'[l][h] = queue[l][h - b]
          \/ l # k /\ h \in 1 .. Len(queue[l]) /\ queue'[l][h] = queue[l][h]
      BY <2>10 DEF q
    <3>5. CASE queue'[j][i] = m
      <4>1. j = k /\ i = new
        BY <2>11, <3>3, <3>5
      <4>2. l = k /\ h = new
        BY <2>11, <2>13, <3>4, <3>5
      <4>3. QED
        BY <4>1, <4>2
    <3>6. CASE queue'[j][i] # m
      <4>1. PICK f \in 1 .. Len(queue[j]) : queue'[j][i] = queue[j][f] /\ f = IF j = k THEN i - b ELSE i
        BY <3>3, <3>6
      <4>2. PICK g \in 1 .. Len(queue[l]) : queue'[l][h] = queue[l][g] /\ g = IF l = k THEN h - b ELSE h
        BY <2>13, <3>4, <3>6
      <4>3. j = l /\ f = g
        <5>1. queue[j][f] = queue[l][g]
          BY <2>13, <4>1, <4>2
        <5>2. QED
          BY <3>2, <5>1
      <4>4. QED
        BY <3>1, <4>1, <4>2, <4>3
    <3>7. QED
      BY <3>5, <3>6
  <2>14. \A x : InHand(x) /\ x # m => InHand(x)'
    BY ZenonT(40), <2>2, <2>10 DEF InHand, OnQueue, q
  <2>15. \A u \in Posters : u # p /\ slot[u] # NULL => slot[u] # m
    BY <1>0, <2>1 DEF PlaceLink, m
  <2>16. QED
    BY ZenonT(40), <1>0, <2>1, <2>2, <2>12, <2>13, <2>14, <2>15 DEF PlaceLink
<1>4. ASSUME scheduler_mq_get PROVE PlaceLink'
  <2>1. CASE queue[idx] = <<>>
    BY <1>1, <1>4, <2>1 DEF scheduler_mq_get, posterVars
  <2>2. CASE queue[idx] # <<>>
    <3>0. PICK m : m = Head(queue[idx])
      OBVIOUS
    <3>1. /\ idx \in Queues /\ queue' = [queue EXCEPT ![idx] = Tail(queue[idx])]
          /\ current = NULL /\ current' \in {NULL, m} /\ UNCHANGED <<free, slot>>
      BY <1>0, <1>4, <2>2, <3>0 DEF scheduler_mq_get, OwnerLink, posterVars
    <3>2. m \in Used /\ m # NULL /\ Used' = Used
      BY <1>0, <2>2, <3>0, <3>1, Taken DEF IInv, Used
    <3>3. /\ \A k \in Queues : \A i \in 1 .. Len(queue'[k]) :
               queue'[k][i] # m /\ \E h \in 1 .. Len(queue[k]) : queue'[k][i] = queue[k][h]
          /\ \A k, j \in Queues : \A i \in 1 .. Len(queue'[k]), h \in 1 .. Len(queue'[j]) :
               queue'[k][i] = queue'[j][h] => k = j /\ i = h
      <4>1. /\ \A k \in Queues : \A i \in 1 .. Len(queue'[k]) :
                 \E h \in 1 .. Len(queue[k]) :
                   queue'[k][i] = queue[k][h] /\ (k = idx => h = i + 1) /\ (k # idx => h = i)
            /\ \A k \in Queues : \A i \in 1 .. Len(queue'[k]) : queue'[k][i] # Head(queue[idx])
            /\ \A k, j \in Queues : \A i \in 1 .. Len(queue'[k]), h \in 1 .. Len(queue'[j]) :
                 queue'[k][i] = queue'[j][h] => k = j /\ i = h
        BY <2>2, <3>1, TakenPlace
      <4>2. QED
        BY <3>0, <4>1
    <3>4. \A x : InHand(x) => InHand(x)' /\ x # m
      <4>1. m = queue[idx][1] /\ 1 \in 1 .. Len(queue[idx])
        BY <2>2, <3>0, <3>1, Taken DEF IInv
      <4>2. \A x : InHand(x) => x # m
        BY <3>1, <4>1 DEF InHand, OnQueue
      <4>3. QED
        BY <3>2, <3>3, <4>2 DEF InHand, OnQueue
    <3>5. InHand(m)'
      BY <3>2, <3>3 DEF InHand, OnQueue
    <3>6. \A k \in Queues : \A i \in 1 .. Len(queue'[k]) : queue'[k][i] \in Used'
      BY <1>0, <3>2, <3>3 DEF PlaceLink
    <3>7. current' # NULL => InHand(current)'
      BY <3>1, <3>5
    <3>8. \A p \in Posters : slot'[p] # NULL => InHand(slot[p])' /\ slot'[p] # current'
      BY <1>0, <3>1, <3>4 DEF PlaceLink
    <3>9. QED
      BY ZenonT(40), <1>0, <3>1, <3>3, <3>6, <3>7, <3>8 DEF PlaceLink
  <2>3. QED
    BY <2>1, <2>2
<1>5. ASSUME scheduler_msg_processed PROVE PlaceLink'
  <2>1. InHand(current) /\ current # NULL
    BY <1>0, <1>5 DEF scheduler_msg_processed, OwnerLink, PlaceLink
  <2>2. Used' = Used \ {current} /\ current' = NULL /\ UNCHANGED <<queue, slot>>
    BY <1>5 DEF scheduler_msg_processed, Used, posterVars
  <2>3. \A x : InHand(x) /\ x # current => InHand(x)'
    BY <2>2 DEF InHand, OnQueue
  <2>4. \A k \in Queues : \A i \in 1 .. Len(queue'[k]) : queue'[k][i] \in Used'
    BY <1>0, <2>1, <2>2 DEF PlaceLink, InHand, OnQueue
  <2>5. QED
    BY <1>0, <2>2, <2>3, <2>4 DEF PlaceLink
<1>6. ASSUME scheduler_queues_flush PROVE PlaceLink'
  <2>1. CASE queue[idx] = <<>>
    BY <1>1, <1>6, <2>1 DEF scheduler_queues_flush, queueVars, posterVars
  <2>2. CASE queue[idx] # <<>>
    <3>0. PICK m : m = Head(queue[idx])
      OBVIOUS
    <3>1. /\ idx \in Queues /\ queue' = [queue EXCEPT ![idx] = Tail(queue[idx])]
          /\ UNCHANGED <<current, slot>> /\ Used' = Used \ {m}
      BY <1>0, <1>6, <2>2, <3>0 DEF scheduler_queues_flush, OwnerLink, posterVars, Used
    <3>2. /\ \A k \in Queues : \A i \in 1 .. Len(queue'[k]) :
               queue'[k][i] # m /\ \E h \in 1 .. Len(queue[k]) : queue'[k][i] = queue[k][h]
          /\ \A k, j \in Queues : \A i \in 1 .. Len(queue'[k]), h \in 1 .. Len(queue'[j]) :
               queue'[k][i] = queue'[j][h] => k = j /\ i = h
      <4>1. /\ \A k \in Queues : \A i \in 1 .. Len(queue'[k]) :
                 \E h \in 1 .. Len(queue[k]) :
                   queue'[k][i] = queue[k][h] /\ (k = idx => h = i + 1) /\ (k # idx => h = i)
            /\ \A k \in Queues : \A i \in 1 .. Len(queue'[k]) : queue'[k][i] # Head(queue[idx])
            /\ \A k, j \in Queues : \A i \in 1 .. Len(queue'[k]), h \in 1 .. Len(queue'[j]) :
                 queue'[k][i] = queue'[j][h] => k = j /\ i = h
        BY <2>2, <3>1, TakenPlace
      <4>2. QED
        BY <3>0, <4>1
    <3>3. \A x : InHand(x) => InHand(x)'
      <4>1. m = queue[idx][1] /\ 1 \in 1 .. Len(queue[idx])
        BY <2>2, <3>0, <3>1, Taken DEF IInv
      <4>2. \A x : InHand(x) => x # m
        BY <3>1, <4>1 DEF InHand, OnQueue
      <4>3. QED
        BY <3>1, <3>2, <4>2 DEF InHand, OnQueue
    <3>4. \A k \in Queues : \A i \in 1 .. Len(queue'[k]) : queue'[k][i] \in Used'
      <4>1. \A k \in Queues : \A i \in 1 .. Len(queue[k]) : queue[k][i] \in Used
        BY <1>0 DEF PlaceLink
      <4>2. ASSUME NEW k \in Queues, NEW i \in 1 .. Len(queue'[k]) PROVE queue'[k][i] \in Used'
        <5>1. queue'[k][i] # m /\ \E h \in 1 .. Len(queue[k]) : queue'[k][i] = queue[k][h]
          BY <3>2
        <5>2. QED
          BY <3>1, <4>1, <5>1
      <4>3. QED
        BY <4>2
    <3>5. /\ current' # NULL => InHand(current)'
          /\ \A p \in Posters : slot'[p] # NULL => InHand(slot[p])' /\ slot'[p] # current'
      BY <1>0, <3>1, <3>3 DEF PlaceLink
    <3>6. QED
      BY ZenonT(40), <1>0, <3>1, <3>2, <3>4, <3>5 DEF PlaceLink
  <2>3. QED
    BY <2>1, <2>2
<1>7. QED
  BY <1>1, <1>2, <1>3, <1>4, <1>5, <1>6 DEF Next, PosterStep, ThreadStep, SuspendStep, CloseStep, OpenStep,
     vars, queueVars, threadVars, posterVars,
     scheduler_post_msg, dec_queue_count, scheduler_post_notify, scheduler_thread_wake,
     scheduler_thread_shutdown, scheduler_thread_idle, scheduler_thread_suspend,
     scheduler_thread_resumed, hdd_suspend, hdd_suspend_done, hdd_suspend_timeout,
     hdd_suspend_failed, hdd_suspend_wlan,
     hdd_suspend_undo, hdd_resume, hdd_resume_reset, scheduler_enable, scheduler_register_module, cds_open_done,
     hdd_fw_down, hdd_wlan_shutdown,
     hdd_wlan_shutdown_reset, hdd_idle_shutdown, scheduler_disable,
     scheduler_disable_exited, scheduler_deregister_module
-----------------------------------------------------------------------------
(* The count *)

Full == {p \in Posters : pc[p] = "full"}

\* A message is counted before its buffer is taken and uncounted after it is
\* given back, and the limit is tested on the count.
LEMMA DepthExactNext == IInv /\ [Next]_vars => DepthExact'
<1> SUFFICES ASSUME IInv, [Next]_vars PROVE DepthExact'
  OBVIOUS
<1>0. PlaceLink /\ OwnerLink /\ QueueTypeOK /\ PosterTypeOK /\ MaxMessages \in Nat
  BY TypeParts, SchedulerAssumption DEF IInv, SchedulerAssumption
<1>1. IsFiniteSet(Used) /\ IsFiniteSet(Full)
  BY SchedulerAssumption, Counts DEF SchedulerAssumption, Used, Full
<1>2. /\ Cardinality(Used) \in Nat /\ Cardinality(Full) \in Nat
      /\ depth = Cardinality(Used) + Cardinality(Full) /\ Cardinality(Used) <= MaxMessages
  BY <1>1, Counts DEF IInv, DepthExact, Full
<1>3. DepthExact' <=> depth' = Cardinality(Used') + Cardinality(Full') /\ Cardinality(Used') <= MaxMessages
  BY DEF DepthExact, Full
<1>4. ASSUME UNCHANGED <<depth, free>>, Full' = Full PROVE DepthExact'
  BY <1>2, <1>3, <1>4 DEF Used
<1>5. ASSUME UNCHANGED <<depth, free, pc>> PROVE DepthExact'
  BY <1>4, <1>5 DEF Full
<1>6. ASSUME NEW p \in Posters,
             \/ scheduler_mq_put(p) \/ scheduler_post_notify(p)
             \/ \E k \in Queues : scheduler_post_msg(p, k)
      PROVE  DepthExact'
  <2>1. UNCHANGED <<depth, free>>
    BY <1>6 DEF scheduler_mq_put, scheduler_post_notify, scheduler_post_msg, queueVars
  <2>2. pc[p] # "full" /\ pc' \in {[pc EXCEPT ![p] = s] : s \in {"dup", "notify", "idle"}}
    BY <1>6 DEF scheduler_mq_put, scheduler_post_notify, scheduler_post_msg
  <2>3. Full' = Full
    BY <1>0, <2>2 DEF Full, PosterTypeOK
  <2>4. QED
    BY <1>4, <2>1, <2>3
<1>7. ASSUME NEW p \in Posters, scheduler_core_msg_dup(p) PROVE DepthExact'
  <2>1. depth' = depth + 1 /\ pc[p] = "dup"
    BY <1>7 DEF scheduler_core_msg_dup
  <2>2. CASE /\ depth + 1 <= MaxMessages /\ \E m \in free : free' = free \ {m}
             /\ pc' = [pc EXCEPT ![p] = "put"]
    <3>1. PICK m \in free : free' = free \ {m}
      BY <2>2
    <3>2. Used' = Used \cup {m} /\ m \notin Used
      BY <1>0, <3>1 DEF Used, QueueTypeOK
    <3>3. Full' = Full
      BY <1>0, <2>1, <2>2 DEF Full, PosterTypeOK
    <3>4. Cardinality(Used') = Cardinality(Used) + 1
      BY <1>1, <3>2, Counts
    <3>5. QED
      BY <1>0, <1>2, <1>3, <2>1, <2>2, <3>3, <3>4
  <2>3. CASE pc' = [pc EXCEPT ![p] = "full"] /\ UNCHANGED free
    <3>1. Full' = Full \cup {p} /\ p \notin Full
      BY <1>0, <2>1, <2>3 DEF Full, PosterTypeOK
    <3>2. Cardinality(Full') = Cardinality(Full) + 1 /\ Used' = Used
      BY <1>1, <2>3, <3>1, Counts DEF Used
    <3>3. QED
      BY <1>2, <1>3, <2>1, <3>2
  <2>4. QED
    BY <1>7, <2>2, <2>3 DEF scheduler_core_msg_dup
<1>8. ASSUME NEW p \in Posters, dec_queue_count(p) PROVE DepthExact'
  <2>1. depth' = depth - 1 /\ Used' = Used
    BY <1>8 DEF dec_queue_count, Used
  <2>2. Full' = Full \ {p} /\ p \in Full
    BY <1>0, <1>8 DEF dec_queue_count, Full, PosterTypeOK
  <2>3. Cardinality(Full') = Cardinality(Full) - 1
    BY <1>1, <2>2, Counts
  <2>4. QED
    BY <1>2, <1>3, <2>1, <2>3
<1>9. ASSUME NEW m \in Used, Used' = Used \ {m}, depth' = depth - 1, UNCHANGED pc PROVE DepthExact'
  <2>1. Cardinality(Used') = Cardinality(Used) - 1 /\ Full' = Full
    BY <1>1, <1>9, Counts DEF Full
  <2>2. QED
    BY <1>0, <1>2, <1>3, <1>9, <2>1
<1>10. ASSUME scheduler_msg_processed PROVE DepthExact'
  <2>1. current \in Used
    BY <1>0, <1>10 DEF scheduler_msg_processed, OwnerLink, PlaceLink, InHand
  <2>2. Used' = Used \ {current} /\ depth' = depth - 1 /\ UNCHANGED pc
    BY <1>10 DEF scheduler_msg_processed, Used, posterVars
  <2>3. QED
    BY <1>9, <2>1, <2>2
<1>11. ASSUME scheduler_queues_flush PROVE DepthExact'
  <2>1. CASE queue[idx] = <<>>
    BY <1>5, <1>11, <2>1 DEF scheduler_queues_flush, queueVars, posterVars
  <2>2. CASE queue[idx] # <<>>
    <3>1. Head(queue[idx]) \in Used
      BY <1>0, <1>11, <2>2, Taken DEF scheduler_queues_flush, OwnerLink, IInv
    <3>2. Used' = Used \ {Head(queue[idx])} /\ depth' = depth - 1 /\ UNCHANGED pc
      BY <1>11, <2>2 DEF scheduler_queues_flush, Used, posterVars
    <3>3. QED
      BY <1>9, <3>1, <3>2
  <2>3. QED
    BY <2>1, <2>2
<1>12. QED
  BY <1>5, <1>6, <1>7, <1>8, <1>10, <1>11 DEF Next, PosterStep, ThreadStep, SuspendStep, CloseStep, OpenStep,
     vars, queueVars, threadVars, posterVars, scheduler_thread_wake, scheduler_mq_get,
     scheduler_thread_shutdown, scheduler_thread_idle, scheduler_thread_suspend,
     scheduler_thread_resumed, hdd_suspend, hdd_suspend_done, hdd_suspend_timeout,
     hdd_suspend_failed, hdd_suspend_wlan,
     hdd_suspend_undo, hdd_resume, hdd_resume_reset, scheduler_enable, scheduler_register_module, cds_open_done,
     hdd_fw_down, hdd_wlan_shutdown,
     hdd_wlan_shutdown_reset, hdd_idle_shutdown, scheduler_disable,
     scheduler_disable_exited, scheduler_deregister_module
-----------------------------------------------------------------------------
(* The wakeup *)

\* Taking a message off a queue makes no other one late or not late.
LEMMA TakenLate ==
  ASSUME IInv, idx \in Queues, queue[idx] # <<>>,
         queue' = [queue EXCEPT ![idx] = Tail(queue[idx])],
         late' = late \ {Head(queue[idx])},
         NEW k \in Queues, AllLate(k)
  PROVE  AllLate(k)'
<1>1. SUFFICES ASSUME NEW i \in 1 .. Len(queue'[k]) PROVE queue'[k][i] \in late'
  BY DEF AllLate
<1>2. PICK h \in 1 .. Len(queue[k]) : queue'[k][i] = queue[k][h]
  <2>1. \E g \in 1 .. Len(queue[k]) :
          queue'[k][i] = queue[k][g] /\ (k = idx => g = i + 1) /\ (k # idx => g = i)
    BY TakenPlace
  <2>2. QED
    BY <2>1
<1>3. queue'[k][i] # Head(queue[idx])
  <2>1. \A j \in Queues : \A g \in 1 .. Len(queue'[j]) : queue'[j][g] # Head(queue[idx])
    BY TakenPlace
  <2>2. QED
    BY <2>1
<1>4. queue[k][h] \in late
  BY DEF AllLate
<1>5. QED
  BY <1>2, <1>3, <1>4

\* A message is not passed by unless its poster wakes the thread afterwards.
LEMMA WakeLinkNext == IInv /\ [Next]_vars => WakeLink'
<1> SUFFICES ASSUME IInv, [Next]_vars PROVE WakeLink'
  OBVIOUS
<1>0. /\ WakeLink /\ OwnerLink /\ QueueTypeOK /\ ThreadTypeOK /\ PosterTypeOK /\ OwnerTypeOK
      /\ N \in Nat \ {0}
  BY TypeParts, SchedulerAssumption DEF IInv, SchedulerAssumption
<1>1. ASSUME UNCHANGED <<queue, late>> PROVE \A k \in Queues : AllLate(k)' <=> AllLate(k)
  BY <1>1 DEF AllLate
<1>2. ASSUME UNCHANGED <<queue, late, thr, idx>>, Due => Due',
             owner' = owner \/ owner' \notin {"flush", "closed"}
      PROVE  WakeLink'
  BY <1>0, <1>1, <1>2 DEF WakeLink
<1>3. \A k \in Queues : queue[k] = <<>> => AllLate(k)
  BY <1>0 DEF AllLate, QueueTypeOK
<1>4. ASSUME UNCHANGED <<bits, pc>> PROVE Due' <=> Due
  BY <1>4 DEF Due
<1>5. ASSUME NEW p \in Posters, scheduler_post_notify(p) PROVE WakeLink'
  BY <1>2, <1>5 DEF scheduler_post_notify, Due, queueVars, threadVars, ownerVars
<1>6. ASSUME NEW p \in Posters,
             \/ scheduler_core_msg_dup(p) \/ dec_queue_count(p)
             \/ \E k \in Queues : scheduler_post_msg(p, k)
      PROVE  WakeLink'
  <2>1. UNCHANGED <<queue, late, bits, thr, idx, owner>>
    BY <1>6 DEF scheduler_core_msg_dup, dec_queue_count, scheduler_post_msg, queueVars, threadVars, ownerVars
  <2>2. pc[p] # "notify" /\ \E s : pc' = [pc EXCEPT ![p] = s]
    BY <1>6 DEF scheduler_core_msg_dup, dec_queue_count, scheduler_post_msg
  <2>3. \A q \in Posters : pc[q] = "notify" => pc'[q] = "notify"
    BY <1>0, <2>2 DEF PosterTypeOK
  <2>4. Due => Due'
    BY <2>1, <2>3 DEF Due
  <2>5. QED
    BY <1>2, <2>1, <2>4
<1>7. ASSUME NEW p \in Posters, scheduler_mq_put(p) PROVE WakeLink'
  <2>1. UNCHANGED <<bits, thr, idx, sch_thread, owner>> /\ pc'[p] = "notify"
    BY <1>0, <1>7 DEF scheduler_mq_put, threadVars, ownerVars, PosterTypeOK
  <2>2. Due'
    BY <2>1 DEF Due
  <2>3. CASE owner \notin {"flush", "closed"}
    BY <2>1, <2>2, <2>3 DEF WakeLink
  <2>4. CASE owner \in {"flush", "closed"}
    <3> DEFINE k == target[p]
               m == slot[p]
               q == queue[k]
    <3>1. k \in Queues /\ m \in Slots /\ q \in Seq(Slots)
      BY <1>0, <1>7 DEF scheduler_mq_put, OwnerLink, PosterTypeOK, QueueTypeOK
    <3>2. thr = "none" /\ late' = late \cup {m}
      BY <1>0, <1>7, <2>4 DEF OwnerLink, scheduler_mq_put
    <3>3. PICK r \in {Append(q, m), <<m>> \o q} : queue' = [queue EXCEPT ![k] = r]
      BY <1>7 DEF scheduler_mq_put
    <3>4. \A i \in 1 .. Len(r) : r[i] = m \/ \E h \in 1 .. Len(q) : r[i] = q[h]
      <4>1. CASE r = Append(q, m)
        <5>1. /\ Len(q) \in Nat /\ Len(r) = Len(q) + 1 /\ r[Len(q) + 1] = m
              /\ \A i \in 1 .. Len(q) : r[i] = q[i]
          BY <3>1, <4>1, PutBack
        <5>2. \A i \in 1 .. Len(r) : i = Len(q) + 1 \/ i \in 1 .. Len(q)
          BY <5>1
        <5>3. QED
          BY <5>1, <5>2
      <4>2. CASE r = <<m>> \o q
        <5>1. /\ Len(q) \in Nat /\ Len(r) = Len(q) + 1 /\ r[1] = m
              /\ \A i \in 2 .. Len(q) + 1 : r[i] = q[i - 1]
          BY <3>1, <4>2, PutFront
        <5>2. \A i \in 1 .. Len(r) : i = 1 \/ (i \in 2 .. Len(q) + 1 /\ i - 1 \in 1 .. Len(q))
          BY <5>1
        <5>3. QED
          BY <5>1, <5>2
      <4>3. QED
        BY <4>1, <4>2
    <3>5. \A j \in Queues : queue'[j] = IF j = k THEN r ELSE queue[j]
      BY <1>0, <3>1, <3>3 DEF QueueTypeOK
    <3> HIDE DEF m, k, q
    <3>6. ASSUME NEW j \in Queues, AllLate(j) PROVE AllLate(j)'
      <4>1. SUFFICES ASSUME NEW i \in 1 .. Len(queue'[j]) PROVE queue'[j][i] \in late'
        BY DEF AllLate
      <4>2. CASE j = k
        <5>1. queue'[j] = r
          BY <3>5, <4>2
        <5>2. queue'[j][i] = m \/ \E h \in 1 .. Len(q) : queue'[j][i] = q[h]
          BY <3>4, <5>1
        <5>3. \A h \in 1 .. Len(q) : q[h] \in late
          BY <3>6, <4>2 DEF AllLate, q
        <5>4. QED
          BY <3>2, <5>2, <5>3
      <4>3. CASE j # k
        BY <3>2, <3>5, <3>6, <4>3 DEF AllLate
      <4>4. QED
        BY <4>2, <4>3
    <3>7. QED
      BY <1>0, <2>1, <3>2, <3>6 DEF WakeLink
  <2>5. QED
    BY <2>3, <2>4
<1>8. ASSUME scheduler_mq_get PROVE WakeLink'
  <2>1. /\ UNCHANGED <<bits, pc, owner>> /\ owner \notin {"flush", "closed"}
        /\ thr = "scan" /\ thr' \in {"scan", "run"} /\ idx \in Queues
    BY <1>0, <1>8 DEF scheduler_mq_get, OwnerLink, posterVars, ownerVars
  <2>2. CASE queue[idx] = <<>>
    <3>1. UNCHANGED <<queue, late, thr>> /\ idx' = idx + 1
      BY <1>8, <2>2 DEF scheduler_mq_get
    <3>2. ASSUME NEW k \in Queues, k < idx', ~Due' PROVE AllLate(k)'
      <4>1. k < idx \/ k = idx
        BY <2>1, <3>1, <3>2 DEF Queues
      <4>2. AllLate(k)
        BY <1>0, <1>3, <1>4, <2>1, <2>2, <3>2, <4>1 DEF WakeLink
      <4>3. QED
        BY <1>1, <3>1, <4>2
    <3>3. QED
      BY <2>1, <3>1, <3>2 DEF WakeLink
  <2>3. CASE queue[idx] # <<>>
    <3>1. thr' = "run" \/ idx' = 1
      BY <1>8, <2>3 DEF scheduler_mq_get
    <3>2. \A k \in Queues : ~(k < 1)
      BY <1>0 DEF Queues
    <3>3. QED
      BY <2>1, <3>1, <3>2 DEF WakeLink
  <2>4. QED
    BY <2>2, <2>3
<1>9. ASSUME scheduler_thread_wake \/ scheduler_msg_processed \/ scheduler_thread_shutdown PROVE WakeLink'
  <2>1. thr \notin {"none"} /\ UNCHANGED owner /\ (thr' = "exited" \/ (thr' = "scan" /\ idx' = 1))
    BY <1>9 DEF scheduler_thread_wake, scheduler_msg_processed, scheduler_thread_shutdown, ownerVars
  <2>2. owner' \notin {"flush", "closed"}
    BY <1>0, <2>1 DEF OwnerLink
  <2>3. \A k \in Queues : ~(k < 1)
    BY <1>0 DEF Queues
  <2>4. QED
    BY <2>1, <2>2, <2>3 DEF WakeLink
<1>10. ASSUME scheduler_thread_idle PROVE WakeLink'
  <2>1. thr = "scan" /\ idx = N + 1 /\ thr' \in {"ack", "wait"} /\ UNCHANGED <<queue, late, pc, owner>>
    BY <1>10 DEF scheduler_thread_idle, queueVars, posterVars, ownerVars
  <2>2. Due' <=> Due
    BY <1>10, <2>1 DEF Due, scheduler_thread_idle
  <2>3. \A k \in Queues : k < idx
    BY <1>0, <2>1 DEF Queues
  <2>4. Due' \/ \A k \in Queues : AllLate(k)'
    BY <1>0, <1>1, <2>1, <2>2, <2>3 DEF WakeLink
  <2>5. owner' \notin {"flush", "closed"}
    BY <1>0, <2>1 DEF OwnerLink
  <2>6. QED
    BY <2>1, <2>4, <2>5 DEF WakeLink
<1>11. ASSUME scheduler_thread_suspend \/ scheduler_thread_resumed PROVE WakeLink'
  <2>1. /\ thr \in {"ack", "asleep"} /\ thr' \in {"asleep", "wait"}
        /\ UNCHANGED <<queue, late, bits, pc, owner>>
    BY <1>11 DEF scheduler_thread_suspend, scheduler_thread_resumed, queueVars, posterVars, ownerVars
  <2>2. Due' \/ \A k \in Queues : AllLate(k)'
    BY <1>0, <1>1, <1>4, <2>1 DEF WakeLink
  <2>3. owner' \notin {"flush", "closed"}
    BY <1>0, <2>1 DEF OwnerLink
  <2>4. QED
    BY <2>1, <2>2, <2>3 DEF WakeLink
<1>12. ASSUME \/ hdd_suspend \/ hdd_suspend_done \/ hdd_suspend_timeout \/ hdd_suspend_failed \/ hdd_suspend_wlan
             \/ hdd_suspend_undo \/ hdd_resume \/ hdd_resume_reset
              \/ scheduler_register_module \/ cds_open_done \/ hdd_fw_down \/ hdd_wlan_shutdown
             \/ hdd_wlan_shutdown_reset
              \/ hdd_idle_shutdown \/ scheduler_disable \/ \E k \in Queues : scheduler_deregister_module(k)
       PROVE  WakeLink'
  <2>1. UNCHANGED <<queue, late, thr, idx, pc>>
    BY <1>12 DEF hdd_suspend, hdd_suspend_done, hdd_suspend_timeout, hdd_suspend_failed, hdd_suspend_wlan,
     hdd_suspend_undo, hdd_resume, hdd_resume_reset,
       scheduler_register_module, cds_open_done, hdd_fw_down, hdd_wlan_shutdown,
     hdd_wlan_shutdown_reset, hdd_idle_shutdown,
       scheduler_disable, scheduler_deregister_module, queueVars, threadVars, posterVars
  <2>2. "POST" \in bits => "POST" \in bits'
    BY <1>12 DEF hdd_suspend, hdd_suspend_done, hdd_suspend_timeout, hdd_suspend_failed, hdd_suspend_wlan,
     hdd_suspend_undo, hdd_resume, hdd_resume_reset,
       scheduler_register_module, cds_open_done, hdd_fw_down, hdd_wlan_shutdown,
     hdd_wlan_shutdown_reset, hdd_idle_shutdown,
       scheduler_disable, scheduler_deregister_module
  <2>3. owner' = owner \/ owner' \notin {"flush", "closed"}
    BY <1>12 DEF hdd_suspend, hdd_suspend_done, hdd_suspend_timeout, hdd_suspend_failed, hdd_suspend_wlan,
     hdd_suspend_undo, hdd_resume, hdd_resume_reset,
       scheduler_register_module, cds_open_done, hdd_fw_down, hdd_wlan_shutdown,
     hdd_wlan_shutdown_reset, hdd_idle_shutdown,
       scheduler_disable, scheduler_deregister_module, ownerVars
  <2>4. Due => Due'
    BY <2>1, <2>2 DEF Due
  <2>5. QED
    BY <1>2, <2>1, <2>3, <2>4
<1>13. ASSUME scheduler_enable PROVE WakeLink'
  <2>1. owner = "closed" /\ thr' = "wait" /\ owner' = "opening" /\ UNCHANGED <<queue, late>>
    BY <1>13 DEF scheduler_enable, queueVars
  <2>2. \A k \in Queues : AllLate(k)'
    BY <1>0, <1>1, <2>1 DEF WakeLink
  <2>3. QED
    BY <2>1, <2>2 DEF WakeLink
<1>14. ASSUME scheduler_disable_exited PROVE WakeLink'
  <2>1. thr' = "none" /\ owner' = "flush" /\ idx' = 1
    BY <1>14 DEF scheduler_disable_exited
  <2>2. \A k \in Queues : ~(k < 1)
    BY <1>0 DEF Queues
  <2>3. QED
    BY <2>1, <2>2 DEF WakeLink
<1>15. ASSUME scheduler_queues_flush PROVE WakeLink'
  <2>1. owner = "flush" /\ thr' = "none" /\ idx \in Queues
    BY <1>0, <1>15 DEF scheduler_queues_flush, OwnerLink
  <2>2. CASE queue[idx] = <<>>
    <3>1. /\ UNCHANGED <<queue, late>>
          /\ idx' = IF idx = N THEN 1 ELSE idx + 1
          /\ owner' = IF idx = N THEN "closed" ELSE owner
      BY <1>15, <2>2 DEF scheduler_queues_flush, queueVars
    <3>2. \A k \in Queues : k < idx \/ k = idx => AllLate(k)'
      BY <1>0, <1>1, <1>3, <2>1, <2>2, <3>1 DEF WakeLink
    <3>3. \A k \in Queues : idx = N \/ k < idx + 1 => k < idx \/ k = idx
      BY <1>0, <2>1 DEF Queues
    <3>4. CASE idx = N
      BY <2>1, <3>1, <3>2, <3>3, <3>4 DEF WakeLink
    <3>5. CASE idx # N
      BY <2>1, <3>1, <3>2, <3>3, <3>5 DEF WakeLink
    <3>6. QED
      BY <3>4, <3>5
  <2>3. CASE queue[idx] # <<>>
    <3>1. \A k \in Queues : AllLate(k) => AllLate(k)'
      BY <1>15, <2>1, <2>3, TakenLate DEF scheduler_queues_flush
    <3>2. UNCHANGED <<idx, owner>>
      BY <1>15, <2>3 DEF scheduler_queues_flush
    <3>3. QED
      BY <1>0, <2>1, <3>1, <3>2 DEF WakeLink
  <2>4. QED
    BY <2>2, <2>3
<1>16. CASE UNCHANGED vars
  BY <1>2, <1>4, <1>16 DEF vars, queueVars, threadVars, posterVars, ownerVars
<1>17. QED
  BY <1>5, <1>6, <1>7, <1>8, <1>9, <1>10, <1>11, <1>12, <1>13, <1>14, <1>15, <1>16
     DEF Next, PosterStep, ThreadStep, SuspendStep, CloseStep, OpenStep
-----------------------------------------------------------------------------
(* The theorems *)

LEMMA InitIInv == Init => IInv
<1> SUFFICES ASSUME Init PROVE IInv
  OBVIOUS
<1> USE DEF Init
<1>1. N \in Nat \ {0} /\ MaxMessages \in Nat /\ TokenMax \in Nat /\ NULL \notin Slots
  BY SchedulerAssumption DEF SchedulerAssumption
<1>2. \A k \in Queues : queue[k] = <<>> /\ Len(queue[k]) = 0
  OBVIOUS
<1>3. TypeOK
  <2>1. /\ 0 \in 0 .. TokenMax /\ 1 \in 1 .. N + 1
    BY <1>1
  <2>2. queue \in [Queues -> Seq(Slots)]
    OBVIOUS
  <2>3. QED
    BY <2>1, <2>2 DEF TypeOK
<1>4. OwnerLink
  BY DEF OwnerLink
<1>5. PlaceLink
  BY <1>2 DEF PlaceLink
<1>6. DepthExact
  <2>1. Used = {} /\ {p \in Posters : pc[p] = "full"} = {}
    BY DEF Used
  <2>2. /\ Cardinality(Used) = 0 /\ Cardinality({p \in Posters : pc[p] = "full"}) = 0
        /\ depth = 0
    BY <2>1, FS_EmptySet
  <2>3. QED
    BY <1>1, <2>2 DEF DepthExact
<1>7. WakeLink
  BY <1>2 DEF WakeLink, AllLate
<1>8. QED
  BY <1>3, <1>4, <1>5, <1>6, <1>7 DEF IInv

\* The scheduler keeps its queues, its count and its thread consistent.
THEOREM Invariance == Spec => []IInv
<1>1. IInv /\ [Next]_vars => IInv'
  BY TypeOKNext, OwnerLinkNext, PlaceLinkNext, DepthExactNext, WakeLinkNext DEF IInv
<1>2. QED
  BY InitIInv, <1>1, PTL DEF Spec

\* Every variable has its type: no count goes below zero, and the thread's scan
\* stays within one of the queues.
THEOREM TypeCorrect == Spec => []TypeOK
<1>1. IInv => TypeOK
  BY DEF IInv
<1>2. QED
  BY Invariance, <1>1, PTL

\* However many posters and queues there are, scheduler_thread does not go to
\* sleep on a message that no wakeup will follow.
THEOREM WakeupsNotLost == Spec => []NoLostWakeup
<1>1. IInv => NoLostWakeup
  <2>1. SUFFICES ASSUME IInv, thr = "wait", NEW m \in Slots \ late, InQueue(m) PROVE Due
    BY DEF NoLostWakeup, Due
  <2>2. PICK k \in Queues : \E i \in DOMAIN queue[k] : queue[k][i] = m
    BY <2>1 DEF InQueue
  <2>3. DOMAIN queue[k] = 1 .. Len(queue[k])
    BY <2>1 DEF IInv, TypeOK
  <2>4. ~AllLate(k)
    BY <2>2, <2>3 DEF AllLate
  <2>5. QED
    BY <2>1, <2>4 DEF IInv, WakeLink
<1>2. QED
  BY Invariance, <1>1, PTL

\* __sched_queue_depth is the number of the buffers in use and of the refused
\* messages still counted, and the pool's limit holds, for any number of posters.
THEOREM DepthCorrect == Spec => []DepthExact
<1>1. IInv => DepthExact
  BY DEF IInv
<1>2. QED
  BY Invariance, <1>1, PTL
-----------------------------------------------------------------------------
(***************************************************************************)
(* Suspend and resume, when the wait of suspend does not run out.  While   *)
(* suspend waits, its request is in exactly one place: the bit, the thread *)
(* that has taken the bit, or the completion.  Outside, there is none, and *)
(* the flag stands for a thread that sleeps without a resume, or for one   *)
(* whose resumer is about to reset the flag.                               *)
(***************************************************************************)
Asked == "SUSPEND" \in bits

Sleeps == thr = "asleep" /\ ~resume_ev

SuspendLink ==
  /\ pm # "giveup"
  /\ pm # "waiting" =>
       ~Asked /\ sus_var = 0 /\ thr # "ack" /\ (Sleeps => sus_flag)
  /\ pm = "waiting" =>
       /\ owner = "up" /\ ~sus_flag
       /\ \/ Asked /\ sus_var = 0 /\ thr # "ack" /\ ~Sleeps
          \/ ~Asked /\ sus_var = 0 /\ thr = "ack"
          \/ ~Asked /\ sus_var = 1 /\ Sleeps
  /\ resume_ev => thr = "asleep"
  /\ pm \in {"set", "resumed"} => owner = "up" /\ sus_flag
  /\ owner = "resumed" => Quiet /\ sus_flag
  /\ sus_flag => Sleeps \/ pm = "resumed" \/ owner = "resumed"
  /\ sus_flag => owner = "resumed" \/ (owner = "up" /\ (pm # "awake" \/ recovering))
  /\ pm = "resumed" \/ owner = "resumed" => ~Sleeps

\* The request is handed on, and taken back by nobody else.
LEMMA SuspendLinkNext ==
  ASSUME "timeout" \notin Faults
  PROVE  IInv /\ SuspendLink /\ [Next]_vars => SuspendLink'
<1> SUFFICES ASSUME IInv, SuspendLink, [Next]_vars PROVE SuspendLink'
  OBVIOUS
<1>0. EventTypeOK /\ OwnerTypeOK /\ OwnerLink /\ TokenMax \in Nat /\ TokenMax > 1
  BY TypeParts, SchedulerAssumption DEF IInv, SchedulerAssumption
<1> USE DEF Asked, Sleeps, Quiet
<1>1. ASSUME UNCHANGED <<sus_var, thr, resume_ev, sus_flag, pm>>, Asked' <=> Asked,
             \/ owner' = owner /\ recovering' = recovering
             \/ owner' = owner /\ recovering'
             \/ ~sus_flag /\ pm # "waiting" /\ owner' # "resumed"
      PROVE  SuspendLink'
  BY <1>1 DEF SuspendLink
<1>2. ASSUME \E p \in Posters : PosterStep(p) \/ \E k \in Queues : scheduler_post_msg(p, k)
      PROVE  SuspendLink'
  BY <1>1, <1>2 DEF PosterStep, scheduler_post_msg, scheduler_core_msg_dup, dec_queue_count,
     scheduler_mq_put, scheduler_post_notify, threadVars, ownerVars, pmVars, eventVars
<1>3. ASSUME scheduler_thread_wake \/ scheduler_mq_get \/ scheduler_msg_processed \/ scheduler_disable_exited
             \/ scheduler_enable
      PROVE  SuspendLink'
  <2>1. UNCHANGED <<sus_var, resume_ev, sus_flag, pm, recovering>> /\ (Asked' <=> Asked)
    BY <1>3 DEF scheduler_thread_wake, scheduler_mq_get, scheduler_msg_processed,
       scheduler_disable_exited, scheduler_enable, ownerVars, pmVars, eventVars
  <2>2. /\ thr \in {"wait", "scan", "run", "exited", "none"}
        /\ thr' \in {"wait", "scan", "run", "exited", "none"}
    BY <1>0, <1>3 DEF scheduler_thread_wake, scheduler_mq_get, scheduler_msg_processed,
       scheduler_disable_exited, scheduler_enable, OwnerLink
  <2>3. owner' = owner \/ (owner \notin {"up", "resumed"} /\ owner' # "resumed")
    BY <1>3 DEF scheduler_thread_wake, scheduler_mq_get, scheduler_msg_processed,
       scheduler_disable_exited, scheduler_enable, ownerVars
  <2>4. QED
    BY <2>1, <2>2, <2>3 DEF SuspendLink
<1>4. ASSUME scheduler_thread_shutdown PROVE SuspendLink'
  <2>1. owner # "up" /\ pm # "waiting"
    BY <1>0, <1>4 DEF scheduler_thread_shutdown, OwnerLink, SuspendLink, EventTypeOK
  <2>2. ~Asked /\ sus_var' = sus_var
    BY <1>4, <2>1 DEF scheduler_thread_shutdown, SuspendLink
  <2>3. QED
    BY <1>4, <2>1, <2>2 DEF scheduler_thread_shutdown, SuspendLink, pmVars, ownerVars
<1>5. ASSUME scheduler_thread_idle PROVE SuspendLink'
  <2>1. pm = "waiting" => Asked
    BY <1>5 DEF scheduler_thread_idle, SuspendLink
  <2>2. QED
    BY <1>5, <2>1 DEF scheduler_thread_idle, SuspendLink, pmVars, ownerVars, eventVars
<1>6. ASSUME scheduler_thread_suspend PROVE SuspendLink'
  <2>1. pm = "waiting" /\ ~Asked /\ sus_var = 0
    BY <1>0, <1>6 DEF scheduler_thread_suspend, SuspendLink, EventTypeOK
  <2>2. sus_var' = 1
    BY <1>0, <1>6, <2>1 DEF scheduler_thread_suspend, complete
  <2>3. QED
    BY <1>6, <2>1, <2>2 DEF scheduler_thread_suspend, SuspendLink, pmVars, ownerVars
<1>7. ASSUME scheduler_thread_resumed PROVE SuspendLink'
  BY <1>7 DEF scheduler_thread_resumed, SuspendLink, pmVars, ownerVars
<1>8. ASSUME hdd_suspend PROVE SuspendLink'
  BY <1>8 DEF hdd_suspend, SuspendLink, threadVars, ownerVars, eventVars
<1>9. ASSUME hdd_suspend_done PROVE SuspendLink'
  <2>1. sus_var = 1 /\ Sleeps /\ owner = "up" /\ ~Asked
    BY <1>9 DEF hdd_suspend_done, SuspendLink
  <2>2. sus_var' = 0
    BY <1>0, <1>9, <2>1 DEF hdd_suspend_done
  <2>3. QED
    BY <1>9, <2>1, <2>2 DEF hdd_suspend_done, SuspendLink, threadVars, ownerVars
<1>10. ~hdd_suspend_timeout /\ ~hdd_suspend_failed
  BY DEF hdd_suspend_timeout, hdd_suspend_failed, SuspendLink
<1>11. ASSUME hdd_resume \/ hdd_suspend_undo PROVE SuspendLink'
  <2>1. CASE hdd_resume /\ pm' = "awake"
    BY <1>0, <1>11, <2>1 DEF hdd_resume, SuspendLink, threadVars, ownerVars, OwnerTypeOK
  <2>2. CASE pm' = "resumed" /\ resume_ev' /\ pm \in {"set", "suspended"}
    <3>1. owner = "up" /\ sus_flag /\ thr = "asleep"
      BY <1>0, <1>11, <2>2 DEF hdd_resume, hdd_suspend_undo, SuspendLink
    <3>2. QED
      BY <1>0, <1>11, <2>2, <3>1 DEF hdd_resume, hdd_suspend_undo, SuspendLink, threadVars, ownerVars
  <2>3. QED
    BY <1>11, <2>1, <2>2 DEF hdd_resume, hdd_suspend_undo
<1>12. ASSUME hdd_wlan_shutdown PROVE SuspendLink'
  <2>1. CASE sus_flag
    <3>1. Sleeps
      BY <1>0, <1>12, <2>1 DEF hdd_wlan_shutdown, Quiet, SuspendLink
    <3>2. QED
      BY <1>0, <1>12, <2>1, <3>1 DEF hdd_wlan_shutdown, Quiet, SuspendLink, threadVars, pmVars, EventTypeOK
  <2>2. CASE ~sus_flag
    BY <1>0, <1>12, <2>2 DEF hdd_wlan_shutdown, Quiet, SuspendLink, threadVars, pmVars, EventTypeOK
  <2>3. QED
    BY <2>1, <2>2
<1>17. ASSUME hdd_resume_reset \/ hdd_wlan_shutdown_reset PROVE SuspendLink'
  <2>1. ~Sleeps /\ pm # "waiting" /\ sus_flag' = FALSE /\ UNCHANGED <<thr, resume_ev, sus_var>>
        /\ (Asked' <=> Asked)
    BY <1>17 DEF hdd_resume_reset, hdd_wlan_shutdown_reset, Quiet, SuspendLink, threadVars, eventVars
  <2>2. (pm' = "awake" /\ owner' = owner /\ owner = "up") \/ (pm' = pm /\ owner' = "down" /\ Quiet)
    BY <1>17 DEF hdd_resume_reset, hdd_wlan_shutdown_reset, SuspendLink, ownerVars
  <2>3. QED
    BY <2>1, <2>2 DEF SuspendLink, Quiet
<1>18. ASSUME hdd_suspend_wlan PROVE SuspendLink'
  BY <1>18 DEF hdd_suspend_wlan, SuspendLink, threadVars, ownerVars, eventVars
<1>13. ASSUME hdd_fw_down PROVE SuspendLink'
  BY <1>1, <1>13 DEF hdd_fw_down, threadVars, pmVars, eventVars
<1>14. ASSUME \/ scheduler_register_module \/ cds_open_done \/ hdd_idle_shutdown \/ scheduler_disable
              \/ scheduler_queues_flush \/ \E k \in Queues : scheduler_deregister_module(k)
       PROVE  SuspendLink'
  <2>1. /\ UNCHANGED <<sus_var, resume_ev, sus_flag, pm, thr>> /\ (Asked' <=> Asked)
        /\ \/ owner' = owner /\ recovering' = recovering
           \/ owner \notin {"up", "resumed"} /\ owner' # "resumed"
           \/ owner = "up" /\ owner' # "resumed" /\ ~recovering /\ pm = "awake"
    BY <1>14 DEF scheduler_register_module, cds_open_done, hdd_idle_shutdown, scheduler_disable,
       scheduler_queues_flush, scheduler_deregister_module, threadVars, pmVars, eventVars
  <2>2. \/ owner' = owner /\ recovering' = recovering
        \/ ~sus_flag /\ pm # "waiting" /\ owner' # "resumed"
    BY <2>1 DEF SuspendLink
  <2>3. QED
    BY <1>1, <2>1, <2>2
<1>15. CASE UNCHANGED vars
  BY <1>1, <1>15 DEF vars, threadVars, pmVars, ownerVars, eventVars
<1>16. QED
  BY <1>2, <1>3, <1>4, <1>5, <1>6, <1>7, <1>8, <1>9, <1>10, <1>11, <1>12, <1>13, <1>14, <1>15,
     <1>17, <1>18
     DEF Next, ThreadStep, SuspendStep, CloseStep, OpenStep

LEMMA SuspendInvariance ==
  ASSUME "timeout" \notin Faults
  PROVE  Spec => []SuspendLink
<1>1. Init => SuspendLink
  BY DEF Init, SuspendLink, Asked, Sleeps
<1>2. IInv /\ SuspendLink /\ [Next]_vars => SuspendLink'
  BY SuspendLinkNext
<1>3. QED
  BY Invariance, <1>1, <1>2, PTL DEF Spec

\* If suspend always gets its answer in time, is_scheduler_suspended is never
\* set while the scheduler thread runs or is about to, recovery and close included.
THEOREM SuspendFlagCorrect ==
  ASSUME "timeout" \notin Faults
  PROVE  Spec => []SuspendFlagTrue
<1>1. SuspendLink => SuspendFlagTrue
  BY DEF SuspendLink, SuspendFlagTrue, Sleeps
<1>2. QED
  BY SuspendInvariance, <1>1, PTL

\* ... and the thread never sleeps without someone who knows it has to be resumed.
THEOREM SleeperIsResumed ==
  ASSUME "timeout" \notin Faults
  PROVE  Spec => []SleeperHasResumer
<1>1. TypeOK /\ SuspendLink => SleeperHasResumer
  BY DEF TypeOK, SuspendLink, SleeperHasResumer, Sleeps
<1>2. QED
  BY TypeCorrect, SuspendInvariance, <1>1, PTL
=============================================================================
