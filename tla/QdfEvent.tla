------------------------------ MODULE QdfEvent ------------------------------
(***************************************************************************)
(* QDF events and the list of the events that are waited for               *)
(* (qdf/linux/src/qdf_event.c).  An event is a kernel completion, a done   *)
(* flag and a force_set flag.  A thread that waits puts a node with its    *)
(* event on qdf_wait_event_list; when the firmware goes down,              *)
(* qdf_complete_wait_events walks the list and completes every event that  *)
(* is not done, so that nobody waits for an answer that cannot come.       *)
(*                                                                         *)
(* The list is changed under qdf_wait_event_lock and walked under it from  *)
(* end to end.  The events are not under any lock: whoever answers sets    *)
(* done and then completes, and the walk does the same at its own pace, so *)
(* the places between those accesses are states here.  The walk may visit  *)
(* the nodes in any order, which includes the order of the list.           *)
(***************************************************************************)
EXTENDS Naturals, FiniteSets

CONSTANTS
  Events,   \* the memory events live in
  Threads,  \* the threads that wait and answer
  NULL      \* no event, no thread

VARIABLES
  done,        \* event->done
  force_set,   \* event->force_set
  completion,  \* the counter behind event->complete
  pevent,      \* the event of a thread's node on qdf_wait_event_list, NULL off it
  walk,        \* where qdf_complete_wait_events is
  left,        \* the threads whose nodes it has still to visit
  node         \* the thread whose node it stands on

eventVars == <<done, force_set, completion>>
walkVars  == <<walk, left, node>>

\* The nodes on qdf_wait_event_list.
wait_event_list == {t \in Threads : pevent[t] # NULL}

\* qdf_wait_event_lock is held for as long as a walk takes.
wait_event_lock_free == walk = "idle"

EventTypeOK ==
  /\ done \in [Events -> BOOLEAN] /\ force_set \in [Events -> BOOLEAN] /\ completion \in [Events -> Nat]
  /\ pevent \in [Threads -> Events \cup {NULL}]
  /\ walk \in {"idle", "next", "mark", "set", "complete"} /\ left \subseteq Threads
  /\ node \in Threads \cup {NULL}

EventInit ==
  /\ done = [e \in Events |-> FALSE]
  /\ force_set = [e \in Events |-> FALSE]
  /\ completion = [e \in Events |-> 0]
  /\ pevent = [t \in Threads |-> NULL]
  /\ walk = "idle"
  /\ left = {}
  /\ node = NULL

-----------------------------------------------------------------------------
\* (mutant) done keeps what the last use of the memory left in it.
qdf_event_create_stale(e) ==
  /\ force_set' = [force_set EXCEPT ![e] = FALSE]
  /\ completion' = [completion EXCEPT ![e] = 0]
  /\ UNCHANGED done

\* Zeroed memory and qdf_event_create; qdf_event_destroy leaves the same.
qdf_event_create(e) ==
  /\ done' = [done EXCEPT ![e] = FALSE]
  /\ force_set' = [force_set EXCEPT ![e] = FALSE]
  /\ completion' = [completion EXCEPT ![e] = 0]

\* qdf_event_set, first half: the flag.
event_set_done(e) ==
  /\ done' = [done EXCEPT ![e] = TRUE]
  /\ UNCHANGED <<force_set, completion>>

\* qdf_event_set, second half: complete().
event_set_complete(e) ==
  /\ completion' = [completion EXCEPT ![e] = completion[e] + 1]
  /\ UNCHANGED <<done, force_set>>

-----------------------------------------------------------------------------
(***************************************************************************)
(* qdf_complete_wait_events.  The test for an empty list before the lock   *)
(* changes nothing: a walk over a list that became empty ends at once.     *)
(***************************************************************************)
walk_begin ==
  /\ walk = "idle"
  /\ wait_event_list # {}
  /\ walk' = "next"
  /\ left' = wait_event_list
  /\ UNCHANGED <<node, eventVars, pevent>>

\* An event that is done has been answered, or is about to be.
walk_next(t) ==
  /\ walk = "next"
  /\ t \in left
  /\ left' = left \ {t}
  /\ IF done[pevent[t]]
     THEN UNCHANGED <<walk, node>>
     ELSE walk' = "mark" /\ node' = t
  /\ UNCHANGED <<eventVars, pevent>>

walk_mark ==
  /\ walk = "mark"
  /\ force_set' = [force_set EXCEPT ![pevent[node]] = TRUE]
  /\ walk' = "set"
  /\ UNCHANGED <<left, node, done, completion, pevent>>

walk_set ==
  /\ walk = "set"
  /\ event_set_done(pevent[node])
  /\ walk' = "complete"
  /\ UNCHANGED <<left, node, pevent>>

\* (mutant) the walk ends with the first event it has completed.
walk_complete_one ==
  /\ walk = "complete"
  /\ event_set_complete(pevent[node])
  /\ walk' = "next"
  /\ node' = NULL
  /\ left' = {}
  /\ UNCHANGED pevent

walk_complete ==
  /\ walk = "complete"
  /\ event_set_complete(pevent[node])
  /\ walk' = "next"
  /\ node' = NULL
  /\ UNCHANGED <<left, pevent>>

walk_end ==
  /\ walk = "next"
  /\ left = {}
  /\ walk' = "idle"
  /\ UNCHANGED <<left, node, eventVars, pevent>>

\* cds_set_recovery_in_progress and the walk, on every firmware-down uevent.
WalkStep ==
  \/ \E t \in Threads : walk_next(t)
  \/ walk_mark \/ walk_set \/ walk_complete \/ walk_end

qdf_complete_wait_events == walk_begin \/ WalkStep

-----------------------------------------------------------------------------
(***************************************************************************)
(* qdf_wait_for_event_completion, in the steps of a thread that waits.     *)
(***************************************************************************)
wait_insert(t, e) ==
  /\ wait_event_lock_free
  /\ pevent' = [pevent EXCEPT ![t] = e]
  /\ UNCHANGED <<eventVars, walkVars>>

\* wait_for_completion_timeout takes one completion ...
wait_completed(t) ==
  /\ completion[pevent[t]] > 0
  /\ completion' = [completion EXCEPT ![pevent[t]] = completion[pevent[t]] - 1]
  /\ UNCHANGED <<done, force_set, pevent, walkVars>>

\* ... and runs out of time only if there is none, however late it looks.
wait_timed_out(t) ==
  /\ completion[pevent[t]] = 0
  /\ UNCHANGED <<eventVars, pevent, walkVars>>

wait_remove(t) ==
  /\ wait_event_lock_free
  /\ pevent' = [pevent EXCEPT ![t] = NULL]
  /\ UNCHANGED <<eventVars, walkVars>>
=============================================================================
