--------------------------- MODULE RequestProofs ---------------------------
(***************************************************************************)
(* Proofs of the safety properties of RequestManager, for any number of    *)
(* requests, threads, cookies and answers.                                 *)
(***************************************************************************)
EXTENDS RequestManager, FiniteSetTheorems, TLAPS

(***************************************************************************)
(* The inductive invariant.  The walk holds the lock of its list, so the   *)
(* nodes it has left stay on it; a thread on the list has its reference,   *)
(* so what the walk touches is live; the memory of a request is owned by   *)
(* the threads that refer to it, and by one thread alone before it is on   *)
(* the manager's list and after.                                           *)
(***************************************************************************)
Waits(t) == pc[t] \in {"wait", "woken", "leave"}

Alone(t) == pc[t] \in {"alloc", "free"}

PcLink ==
  /\ \A t \in Threads : request[t] = NULL <=> pc[t] = "idle"
  /\ \A t \in Threads : pevent[t] = IF Waits(t) THEN request[t] ELSE NULL
  /\ \A t \in Requesters : pc[t] \notin {"got", "written", "setting"}
  /\ \A t \in Responders : pc[t] \in {"idle", "got", "written", "setting", "back", "free"}
  /\ \A t \in Threads : status[t] = "SUCCESS" => pc[t] \in {"leave", "back"}

WalkLink ==
  /\ walk \in {"mark", "set", "complete"} <=> node # NULL
  /\ node # NULL => Waits(node)
  /\ \A t \in left : Waits(t)
  /\ walk = "idle" => left = {}

OwnLink ==
  /\ requests \subseteq live
  /\ \A t \in Threads : pc[t] # "idle" => request[t] \in live
  /\ \A t \in Threads : ActsFor(t) => request[t] \in requests /\ cookieOf[request[t]] = context[t]
  /\ \A t \in Threads : Alone(t) =>
       request[t] \notin requests /\ \A u \in Threads : request[u] = request[t] => u = t
  /\ \A t, u \in Requesters : pc[t] # "idle" /\ request[t] = request[u] => t = u
  /\ \A r \in live \ requests : \E t \in Threads : Alone(t) /\ request[t] = r

CookieLink ==
  /\ \A r \in requests : cookieOf[r] < cookie
  /\ \A r, s \in requests : cookieOf[r] = cookieOf[s] => r = s
  /\ \A c \in Cookies : owed[c] > 0 => c < cookie
  /\ \A t \in Threads : looking[t] # NULL => looking[t] < cookie

CountLink ==
  /\ \A r \in requests : reference_count[r] = Cardinality(Referrers(r)) /\ Referrers(r) # {}
  /\ \A t \in Threads : Alone(t) => reference_count[request[t]] = IF pc[t] = "alloc" THEN 1 ELSE 0

AnswerLink ==
  /\ \A r \in requests : completion[r] > 0 => force_set[r] \/ priv[r] = cookieOf[r]
  /\ \A t \in Threads : pc[t] = "alloc" => completion[request[t]] = 0 /\ ~done[request[t]]
  /\ \A t \in Threads : pc[t] = "woken" => force_set[request[t]] \/ priv[request[t]] = context[t]
  /\ \A t \in Threads : pc[t] \in {"written", "setting"} => priv[request[t]] = context[t]
  /\ \A t \in Threads : status[t] = "SUCCESS" => priv[request[t]] = context[t]
  /\ walk \in {"set", "complete"} => force_set[request[node]]

WakeLink ==
  \A t \in Threads : pc[t] \in {"linked", "sent", "wait"} /\ done[request[t]] =>
    \/ completion[request[t]] > 0
    \/ \E u \in Threads : request[u] = request[t] /\ pc[u] = "setting"
    \/ walk = "complete" /\ request[node] = request[t]

IInv ==
  TypeOK /\ PcLink /\ WalkLink /\ OwnLink /\ CookieLink /\ NoStrayAnswer /\ CountLink /\ AnswerLink /\ WakeLink

\* The actions, one by one.
AnyStep ==
  \/ osif_request_manager_init
  \/ osif_request_manager_deinit
  \/ walk_begin /\ WalkOnly
  \/ \E t \in Threads : walk_next(t) /\ WalkOnly
  \/ walk_mark /\ WalkOnly
  \/ walk_set /\ WalkOnly
  \/ walk_complete /\ WalkOnly
  \/ walk_end /\ WalkOnly
  \/ \E t \in Requesters, r \in Requests : osif_request_alloc(t, r)
  \/ \E t \in Requesters : alloc_link(t)
  \/ \E t \in Requesters : send(t)
  \/ \E t \in Requesters : send_refused(t)
  \/ \E t \in Requesters : wait_enter(t)
  \/ \E t \in Requesters : wait_enter_nomem(t)
  \/ \E t \in Requesters : wait_wake(t)
  \/ \E t \in Requesters : wait_timeout(t)
  \/ \E t \in Requesters : wait_result(t)
  \/ \E t \in Requesters : wait_leave(t)
  \/ \E t \in Responders, c \in Cookies : osif_request_get(t, c)
  \/ \E t \in Responders, r \in Requests : get_found(t, r)
  \/ \E t \in Responders : get_obsolete(t)
  \/ \E t \in Responders : respond(t)
  \/ \E t \in Responders : respond_unusable(t)
  \/ \E t \in Responders : complete_done(t)
  \/ \E t \in Responders : complete(t)
  \/ \E t \in Threads : osif_request_put(t)
  \/ \E t \in Threads : osif_request_put_last(t)
  \/ \E t \in Threads : osif_request_destroy(t)

\* Every step is one of these.
LEMMA NextSteps == Next => AnyStep
BY RequestAssumption DEF RequestAssumption, Next, AnyStep, ManagerStep, qdf_complete_wait_events, WalkStep,
   RequesterStep, ResponderStep, PutStep

\* What the proofs need of the constants.
LEMMA Kinds ==
  /\ Requesters \subseteq Threads /\ Responders \subseteq Threads
  /\ \A t \in Threads : t \in Requesters <=> t \notin Responders
  /\ NULL \notin Threads /\ NULL \notin Requests /\ NULL \notin Cookies
  /\ MaxCookie \in Nat /\ MaxAnswers \in Nat /\ 0 \in Cookies /\ Cookies \subseteq Nat
BY RequestAssumption DEF RequestAssumption, Requests, Cookies

\* The pointers of the threads and of the walk are there when they are used,
\* and whoever gives a reference up has one.
PointersOK ==
  /\ \A t \in Threads : pc[t] # "idle" => request[t] \in Requests
  /\ \A t \in Threads : Waits(t) => pevent[t] = request[t] /\ t \in Requesters
  /\ walk \in {"mark", "set", "complete"} =>
       node \in Threads /\ Waits(node) /\ pevent[node] = request[node] /\ request[node] \in requests
  /\ \A t \in Threads : pc[t] = "back" => reference_count[request[t]] # 0

\* A set of threads has a size, and one more or one less when a thread joins or leaves it.
LEMMA ThreadSets ==
  ASSUME NEW S, S \subseteq Threads
  PROVE  /\ Cardinality(S) \in Nat /\ (Cardinality(S) = 0 <=> S = {})
         /\ \A t \in Threads : Cardinality({t}) = 1
         /\ \A t \in Threads : t \notin S => Cardinality(S \cup {t}) = Cardinality(S) + 1
         /\ \A t \in Threads : t \in S => Cardinality(S \ {t}) = Cardinality(S) - 1
<1>1. IsFiniteSet(S)
  BY RequestAssumption, FS_Subset DEF RequestAssumption
<1>2. QED
  BY <1>1, FS_CardinalityType, FS_EmptySet, FS_Singleton, FS_AddElement, FS_RemoveElement

\* The invariant has those pointers.
LEMMA Pointers == IInv => PointersOK
<1> SUFFICES ASSUME IInv PROVE PointersOK
  OBVIOUS
<1>1. \A t \in Threads : pc[t] # "idle" => request[t] \in Requests
  BY DEF IInv, TypeOK, ThreadTypeOK, PcLink
<1>2. \A t \in Threads : Waits(t) => pevent[t] = request[t] /\ t \in Requesters
  BY Kinds DEF IInv, PcLink, Waits
<1>3. walk \in {"mark", "set", "complete"} =>
        node \in Threads /\ Waits(node) /\ pevent[node] = request[node] /\ request[node] \in requests
  BY <1>2 DEF IInv, WalkLink, OwnLink, TypeOK, EventTypeOK, Waits, ActsFor
<1>4. ASSUME NEW t \in Threads, pc[t] = "back" PROVE reference_count[request[t]] # 0
  <2>1. request[t] \in requests
    BY <1>4 DEF IInv, OwnLink, ActsFor
  <2>2. Referrers(request[t]) # {} /\ Referrers(request[t]) \subseteq Threads
    BY <1>4 DEF Referrers
  <2>3. QED
    BY <2>1, <2>2, ThreadSets DEF IInv, CountLink
<1>5. QED
  BY <1>1, <1>2, <1>3, <1>4 DEF PointersOK

\* Completions are only taken where there are some.
LEMMA EventTypeOKNext == EventTypeOK /\ PointersOK /\ [Next]_vars => EventTypeOK'
<1> SUFFICES ASSUME EventTypeOK, PointersOK, [Next]_vars PROVE EventTypeOK'
  OBVIOUS
<1> USE Kinds DEF EventTypeOK, PointersOK, Waits, Requests
<1>1. ASSUME UNCHANGED <<eventVars, walkVars, pevent>> PROVE EventTypeOK'
  BY <1>1 DEF eventVars, walkVars
<1>2. ASSUME walk_begin /\ WalkOnly PROVE EventTypeOK'
  BY <1>2 DEF walk_begin, wait_event_list, eventVars, walkVars, managerVars, threadVars, WalkOnly
<1>3. ASSUME NEW t \in Threads, walk_next(t) /\ WalkOnly PROVE EventTypeOK'
  BY <1>3 DEF walk_next, eventVars, walkVars, managerVars, threadVars, WalkOnly
<1>4. ASSUME walk_mark /\ WalkOnly PROVE EventTypeOK'
  BY <1>4 DEF walk_mark, eventVars, walkVars, managerVars, threadVars, WalkOnly
<1>5. ASSUME walk_set /\ WalkOnly PROVE EventTypeOK'
  BY <1>5 DEF walk_set, event_set_done, eventVars, walkVars, managerVars, threadVars, WalkOnly
<1>6. ASSUME walk_complete /\ WalkOnly PROVE EventTypeOK'
  BY <1>6 DEF walk_complete, event_set_complete, eventVars, walkVars, managerVars, threadVars, WalkOnly
<1>7. ASSUME walk_end /\ WalkOnly PROVE EventTypeOK'
  BY <1>7 DEF walk_end, eventVars, walkVars, managerVars, threadVars, WalkOnly
<1>8. ASSUME NEW t \in Requesters, NEW r \in Requests, osif_request_alloc(t, r) PROVE EventTypeOK'
  BY <1>8 DEF osif_request_alloc, qdf_event_create, eventVars, walkVars, managerVars, threadVars
<1>9. ASSUME NEW t \in Requesters, wait_enter(t) PROVE EventTypeOK'
  BY <1>9 DEF wait_enter, wait_insert, wait_event_lock_free, eventVars, walkVars, managerVars, threadVars
<1>10. ASSUME NEW t \in Requesters, wait_wake(t) PROVE EventTypeOK'
  BY <1>10 DEF wait_wake, wait_completed, eventVars, walkVars, managerVars, threadVars
<1>11. ASSUME NEW t \in Requesters, wait_leave(t) PROVE EventTypeOK'
  BY <1>11 DEF wait_leave, wait_remove, wait_event_lock_free, eventVars, walkVars, managerVars, threadVars
<1>12. ASSUME NEW t \in Responders, complete_done(t) PROVE EventTypeOK'
  BY <1>12 DEF complete_done, event_set_done, eventVars, walkVars, managerVars, threadVars
<1>13. ASSUME NEW t \in Responders, complete(t) PROVE EventTypeOK'
  BY <1>13 DEF complete, event_set_complete, eventVars, walkVars, managerVars, threadVars
<1>14. ASSUME NEW t \in Threads, osif_request_destroy(t) PROVE EventTypeOK'
  BY <1>14 DEF osif_request_destroy, qdf_event_create, eventVars, walkVars, managerVars, threadVars
<1>15. ASSUME osif_request_manager_init \/ osif_request_manager_deinit \/ UNCHANGED vars PROVE EventTypeOK'
  BY <1>15, <1>1 DEF osif_request_manager_init, osif_request_manager_deinit, vars, eventVars,
     walkVars, managerVars, threadVars, WalkOnly
<1>16. ASSUME NEW t \in Requesters,
              \/ alloc_link(t) \/ send(t) \/ send_refused(t) \/ wait_enter_nomem(t)
              \/ wait_timeout(t) \/ wait_result(t)
       PROVE EventTypeOK'
  BY <1>16, <1>1 DEF alloc_link, send, send_refused, wait_enter_nomem, wait_timeout, wait_timed_out,
     wait_result, vars, eventVars, walkVars, managerVars, threadVars, WalkOnly
<1>17. ASSUME NEW t \in Responders, NEW r \in Requests, get_found(t, r)
       PROVE EventTypeOK'
  BY <1>17, <1>1 DEF get_found, osif_request_find, vars, eventVars, walkVars, managerVars,
     threadVars, WalkOnly
<1>18. ASSUME NEW t \in Responders, get_obsolete(t) \/ \E c \in Cookies : osif_request_get(t, c)
       PROVE  EventTypeOK'
  BY <1>18, <1>1 DEF get_obsolete, osif_request_get, vars, eventVars, walkVars, managerVars, threadVars, WalkOnly
<1>19. ASSUME NEW t \in Responders, respond(t) \/ respond_unusable(t) PROVE EventTypeOK'
  BY <1>19, <1>1 DEF respond, respond_unusable, vars, eventVars, walkVars, managerVars, threadVars, WalkOnly
<1>20. ASSUME NEW t \in Threads, osif_request_put(t) \/ osif_request_put_last(t) PROVE EventTypeOK'
  BY <1>20, <1>1 DEF osif_request_put, osif_request_put_last, vars, eventVars, walkVars, managerVars,
     threadVars, WalkOnly
<1>21. QED
  BY <1>2, <1>3, <1>4, <1>5, <1>6, <1>7, <1>8, <1>9, <1>10, <1>11, <1>12, <1>13, <1>14, <1>15, <1>16,
     <1>17, <1>18, <1>19, <1>20, NextSteps DEF AnyStep

\* References are only given up where there are some.
LEMMA ManagerTypeOKNext == ManagerTypeOK /\ ThreadTypeOK /\ PointersOK /\ [Next]_vars => ManagerTypeOK'
<1> SUFFICES ASSUME ManagerTypeOK, ThreadTypeOK, PointersOK, [Next]_vars PROVE ManagerTypeOK'
  OBVIOUS
<1> USE Kinds DEF ManagerTypeOK, ThreadTypeOK, PointersOK, Cookies
<1>1. ASSUME UNCHANGED <<managerVars, priv, owed, looking>> PROVE ManagerTypeOK'
  BY <1>1 DEF managerVars
<1>2. ASSUME osif_request_manager_init PROVE ManagerTypeOK'
  BY <1>2 DEF osif_request_manager_init, eventVars, walkVars, managerVars, threadVars
<1>3. ASSUME osif_request_manager_deinit PROVE ManagerTypeOK'
  BY <1>3 DEF osif_request_manager_deinit, eventVars, walkVars, managerVars, threadVars
<1>4. ASSUME NEW t \in Requesters, NEW r \in Requests, osif_request_alloc(t, r) PROVE ManagerTypeOK'
  BY <1>4 DEF osif_request_alloc, qdf_event_create, eventVars, walkVars, managerVars, threadVars
<1>5. ASSUME NEW t \in Requesters, alloc_link(t) PROVE ManagerTypeOK'
  BY <1>5 DEF alloc_link, eventVars, walkVars, managerVars, threadVars
<1>6. ASSUME NEW t \in Requesters, send(t) PROVE ManagerTypeOK'
  BY <1>6 DEF send, eventVars, walkVars, managerVars, threadVars
<1>7. ASSUME NEW t \in Responders, NEW r \in Requests, get_found(t, r)
      PROVE ManagerTypeOK'
  BY SMTT(30), <1>7 DEF get_found, osif_request_find, eventVars, walkVars, managerVars, threadVars
<1>8. ASSUME NEW t \in Responders, get_obsolete(t) \/ \E c \in Cookies : osif_request_get(t, c)
       PROVE  ManagerTypeOK'
  <2>1. CASE get_obsolete(t)
    BY <1>8, <2>1 DEF get_obsolete, managerVars
  <2>2. ASSUME NEW c \in Cookies, osif_request_get(t, c) PROVE ManagerTypeOK'
    <3>1. owed' \in [Cookies -> Nat]
      BY <2>2 DEF osif_request_get
    <3>2. looking' \in [Threads -> Cookies \cup {NULL}]
      BY <2>2 DEF osif_request_get
    <3>3. QED
      BY <2>2, <3>1, <3>2 DEF osif_request_get, managerVars
  <2>3. QED
    BY <1>8, <2>1, <2>2
<1>9. ASSUME NEW t \in Responders, respond(t) PROVE ManagerTypeOK'
  BY <1>9 DEF respond, eventVars, walkVars, managerVars, threadVars
<1>10. ASSUME NEW t \in Threads, osif_request_put(t) PROVE ManagerTypeOK'
  BY SMTT(30), <1>10 DEF osif_request_put, eventVars, walkVars, managerVars, threadVars
<1>11. ASSUME NEW t \in Threads, osif_request_put_last(t) PROVE ManagerTypeOK'
  BY <1>11 DEF osif_request_put_last, eventVars, walkVars, managerVars, threadVars
<1>12. ASSUME NEW t \in Threads, osif_request_destroy(t) PROVE ManagerTypeOK'
  BY <1>12 DEF osif_request_destroy, qdf_event_create, eventVars, walkVars, managerVars, threadVars
<1>13. ASSUME \/ (walk_begin /\ WalkOnly) \/ (walk_mark /\ WalkOnly) \/ (walk_set /\ WalkOnly)
              \/ (walk_complete /\ WalkOnly) \/ (walk_end /\ WalkOnly) \/ UNCHANGED vars
       PROVE ManagerTypeOK'
  BY <1>13, <1>1 DEF walk_begin, wait_event_list, walk_mark, walk_set, event_set_done, walk_complete,
     event_set_complete, walk_end, vars, eventVars, walkVars, managerVars, threadVars, WalkOnly
<1>14. ASSUME NEW t \in Threads, (walk_next(t) /\ WalkOnly) PROVE ManagerTypeOK'
  BY <1>14, <1>1 DEF walk_next, vars, eventVars, walkVars, managerVars, threadVars, WalkOnly
<1>15. ASSUME NEW t \in Requesters,
              \/ send_refused(t) \/ wait_enter(t) \/ wait_enter_nomem(t) \/ wait_wake(t)
              \/ wait_timeout(t) \/ wait_result(t) \/ wait_leave(t)
       PROVE ManagerTypeOK'
  BY <1>15, <1>1 DEF send_refused, wait_enter, wait_insert, wait_event_lock_free, wait_enter_nomem,
     wait_wake, wait_completed, wait_timeout, wait_timed_out, wait_result, wait_leave, wait_remove, vars,
     eventVars, walkVars, managerVars, threadVars, WalkOnly
<1>16. ASSUME NEW t \in Responders, respond_unusable(t) \/ complete_done(t) \/ complete(t) PROVE ManagerTypeOK'
  BY <1>16, <1>1 DEF respond_unusable, complete_done, event_set_done, complete, event_set_complete, vars,
     eventVars, walkVars, managerVars, threadVars, WalkOnly
<1>17. QED
  BY <1>2, <1>3, <1>4, <1>5, <1>6, <1>7, <1>8, <1>9, <1>10, <1>11, <1>12, <1>13, <1>14, <1>15, <1>16,
     NextSteps DEF AnyStep

\* The threads' own variables.
LEMMA ThreadTypeOKNext == ThreadTypeOK /\ ManagerTypeOK /\ [Next]_vars => ThreadTypeOK'
<1> SUFFICES ASSUME ThreadTypeOK, ManagerTypeOK, [Next]_vars PROVE ThreadTypeOK'
  OBVIOUS
<1> USE Kinds DEF ThreadTypeOK, ManagerTypeOK
<1>1. ASSUME UNCHANGED threadVars PROVE ThreadTypeOK'
  BY <1>1 DEF threadVars
<1>2. ASSUME NEW t \in Requesters, NEW r \in Requests, osif_request_alloc(t, r) PROVE ThreadTypeOK'
  BY <1>2 DEF osif_request_alloc, qdf_event_create, eventVars, walkVars, managerVars, threadVars
<1>3. ASSUME NEW t \in Requesters, alloc_link(t) PROVE ThreadTypeOK'
  BY <1>3 DEF alloc_link, eventVars, walkVars, managerVars, threadVars
<1>4. ASSUME NEW t \in Requesters, send(t) PROVE ThreadTypeOK'
  BY <1>4 DEF send, eventVars, walkVars, managerVars, threadVars
<1>5. ASSUME NEW t \in Requesters, send_refused(t) PROVE ThreadTypeOK'
  BY <1>5 DEF send_refused, eventVars, walkVars, managerVars, threadVars
<1>6. ASSUME NEW t \in Requesters, wait_enter(t) PROVE ThreadTypeOK'
  BY <1>6 DEF wait_enter, wait_insert, wait_event_lock_free, eventVars, walkVars, managerVars, threadVars
<1>7. ASSUME NEW t \in Requesters, wait_enter_nomem(t) PROVE ThreadTypeOK'
  BY <1>7 DEF wait_enter_nomem, eventVars, walkVars, managerVars, threadVars
<1>8. ASSUME NEW t \in Requesters, wait_wake(t) PROVE ThreadTypeOK'
  BY <1>8 DEF wait_wake, wait_completed, eventVars, walkVars, managerVars, threadVars
<1>9. ASSUME NEW t \in Requesters, wait_timeout(t) PROVE ThreadTypeOK'
  BY <1>9 DEF wait_timeout, wait_timed_out, eventVars, walkVars, managerVars, threadVars
<1>10. ASSUME NEW t \in Requesters, wait_result(t) PROVE ThreadTypeOK'
  BY <1>10 DEF wait_result, eventVars, walkVars, managerVars, threadVars
<1>11. ASSUME NEW t \in Requesters, wait_leave(t) PROVE ThreadTypeOK'
  BY <1>11 DEF wait_leave, wait_remove, wait_event_lock_free, eventVars, walkVars, managerVars, threadVars
<1>12. ASSUME NEW t \in Responders, NEW r \in Requests, get_found(t, r)
       PROVE ThreadTypeOK'
  BY <1>12 DEF get_found, osif_request_find, eventVars, walkVars, managerVars, threadVars
<1>13. ASSUME NEW t \in Responders, respond(t) PROVE ThreadTypeOK'
  BY <1>13 DEF respond, eventVars, walkVars, managerVars, threadVars
<1>14. ASSUME NEW t \in Responders, respond_unusable(t) PROVE ThreadTypeOK'
  BY <1>14 DEF respond_unusable, eventVars, walkVars, managerVars, threadVars
<1>15. ASSUME NEW t \in Responders, complete_done(t) PROVE ThreadTypeOK'
  BY <1>15 DEF complete_done, event_set_done, eventVars, walkVars, managerVars, threadVars
<1>16. ASSUME NEW t \in Responders, complete(t) PROVE ThreadTypeOK'
  BY <1>16 DEF complete, event_set_complete, eventVars, walkVars, managerVars, threadVars
<1>17. ASSUME NEW t \in Threads, osif_request_put(t) PROVE ThreadTypeOK'
  BY <1>17 DEF osif_request_put, eventVars, walkVars, managerVars, threadVars
<1>18. ASSUME NEW t \in Threads, osif_request_put_last(t) PROVE ThreadTypeOK'
  BY <1>18 DEF osif_request_put_last, eventVars, walkVars, managerVars, threadVars
<1>19. ASSUME NEW t \in Threads, osif_request_destroy(t) PROVE ThreadTypeOK'
  BY <1>19 DEF osif_request_destroy, qdf_event_create, eventVars, walkVars, managerVars, threadVars
<1>20. ASSUME \/ osif_request_manager_init \/ osif_request_manager_deinit \/ (walk_begin /\ WalkOnly)
              \/ (walk_mark /\ WalkOnly) \/ (walk_set /\ WalkOnly) \/ (walk_complete /\ WalkOnly)
              \/ (walk_end /\ WalkOnly) \/ UNCHANGED vars
       PROVE ThreadTypeOK'
  BY <1>20, <1>1 DEF osif_request_manager_init, osif_request_manager_deinit, walk_begin, wait_event_list,
     walk_mark, walk_set, event_set_done, walk_complete, event_set_complete, walk_end, vars,
     eventVars, walkVars, managerVars, threadVars, WalkOnly
<1>21. ASSUME NEW t \in Threads, (walk_next(t) /\ WalkOnly) PROVE ThreadTypeOK'
  BY <1>21, <1>1 DEF walk_next, vars, eventVars, walkVars, managerVars, threadVars, WalkOnly
<1>22. ASSUME NEW t \in Responders, get_obsolete(t) \/ \E c \in Cookies : osif_request_get(t, c)
       PROVE  ThreadTypeOK'
  BY <1>22, <1>1 DEF get_obsolete, osif_request_get, vars, eventVars, walkVars, managerVars, threadVars, WalkOnly
<1>23. QED
  BY <1>2, <1>3, <1>4, <1>5, <1>6, <1>7, <1>8, <1>9, <1>10, <1>11, <1>12, <1>13, <1>14, <1>15, <1>16,
     <1>17, <1>18, <1>19, <1>20, <1>21, <1>22, NextSteps DEF AnyStep

\* A thread has a pointer unless it is idle, and a node on the list of waits while it waits.
LEMMA PcLinkNext == TypeOK /\ PcLink /\ PointersOK /\ [Next]_vars => PcLink'
<1> SUFFICES ASSUME TypeOK, PcLink, PointersOK, [Next]_vars PROVE PcLink'
  OBVIOUS
<1> USE Kinds DEF TypeOK, EventTypeOK, ThreadTypeOK, PcLink, PointersOK, Waits
<1>1. ASSUME UNCHANGED <<pevent, threadVars>> PROVE PcLink'
  BY <1>1 DEF threadVars
<1>2. ASSUME NEW t \in Requesters, NEW r \in Requests, osif_request_alloc(t, r) PROVE PcLink'
  BY <1>2 DEF osif_request_alloc, qdf_event_create, eventVars, walkVars, managerVars, threadVars
<1>3. ASSUME NEW t \in Requesters, alloc_link(t) PROVE PcLink'
  BY <1>3 DEF alloc_link, eventVars, walkVars, managerVars, threadVars
<1>4. ASSUME NEW t \in Requesters, send(t) PROVE PcLink'
  BY <1>4 DEF send, eventVars, walkVars, managerVars, threadVars
<1>5. ASSUME NEW t \in Requesters, send_refused(t) PROVE PcLink'
  BY <1>5 DEF send_refused, eventVars, walkVars, managerVars, threadVars
<1>6. ASSUME NEW t \in Requesters, wait_enter(t) PROVE PcLink'
  BY <1>6 DEF wait_enter, wait_insert, wait_event_lock_free, eventVars, walkVars, managerVars, threadVars
<1>7. ASSUME NEW t \in Requesters, wait_enter_nomem(t) PROVE PcLink'
  BY <1>7 DEF wait_enter_nomem, eventVars, walkVars, managerVars, threadVars
<1>8. ASSUME NEW t \in Requesters, wait_wake(t) PROVE PcLink'
  BY <1>8 DEF wait_wake, wait_completed, eventVars, walkVars, managerVars, threadVars
<1>9. ASSUME NEW t \in Requesters, wait_timeout(t) PROVE PcLink'
  BY <1>9 DEF wait_timeout, wait_timed_out, eventVars, walkVars, managerVars, threadVars
<1>10. ASSUME NEW t \in Requesters, wait_result(t) PROVE PcLink'
  BY <1>10 DEF wait_result, eventVars, walkVars, managerVars, threadVars
<1>11. ASSUME NEW t \in Requesters, wait_leave(t) PROVE PcLink'
  BY <1>11 DEF wait_leave, wait_remove, wait_event_lock_free, eventVars, walkVars, managerVars, threadVars
<1>12. ASSUME NEW t \in Responders, NEW r \in Requests, get_found(t, r)
       PROVE PcLink'
  BY <1>12 DEF get_found, osif_request_find, eventVars, walkVars, managerVars, threadVars
<1>13. ASSUME NEW t \in Responders, respond(t) PROVE PcLink'
  BY <1>13 DEF respond, eventVars, walkVars, managerVars, threadVars
<1>14. ASSUME NEW t \in Responders, respond_unusable(t) PROVE PcLink'
  BY <1>14 DEF respond_unusable, eventVars, walkVars, managerVars, threadVars
<1>15. ASSUME NEW t \in Responders, complete_done(t) PROVE PcLink'
  BY <1>15 DEF complete_done, event_set_done, eventVars, walkVars, managerVars, threadVars
<1>16. ASSUME NEW t \in Responders, complete(t) PROVE PcLink'
  BY <1>16 DEF complete, event_set_complete, eventVars, walkVars, managerVars, threadVars
<1>17. ASSUME NEW t \in Threads, osif_request_put(t) PROVE PcLink'
  BY <1>17 DEF osif_request_put, eventVars, walkVars, managerVars, threadVars
<1>18. ASSUME NEW t \in Threads, osif_request_put_last(t) PROVE PcLink'
  BY <1>18 DEF osif_request_put_last, eventVars, walkVars, managerVars, threadVars
<1>19. ASSUME NEW t \in Threads, osif_request_destroy(t) PROVE PcLink'
  BY <1>19 DEF osif_request_destroy, qdf_event_create, eventVars, walkVars, managerVars, threadVars
<1>20. ASSUME \/ osif_request_manager_init \/ osif_request_manager_deinit \/ (walk_begin /\ WalkOnly)
              \/ (walk_mark /\ WalkOnly) \/ (walk_set /\ WalkOnly) \/ (walk_complete /\ WalkOnly)
              \/ (walk_end /\ WalkOnly) \/ UNCHANGED vars
       PROVE PcLink'
  BY <1>20, <1>1 DEF osif_request_manager_init, osif_request_manager_deinit, walk_begin, wait_event_list,
     walk_mark, walk_set, event_set_done, walk_complete, event_set_complete, walk_end, vars,
     eventVars, walkVars, managerVars, threadVars, WalkOnly
<1>21. ASSUME NEW t \in Threads, (walk_next(t) /\ WalkOnly) PROVE PcLink'
  BY <1>21, <1>1 DEF walk_next, vars, eventVars, walkVars, managerVars, threadVars, WalkOnly
<1>22. ASSUME NEW t \in Responders, get_obsolete(t) \/ \E c \in Cookies : osif_request_get(t, c)
       PROVE  PcLink'
  BY <1>22, <1>1 DEF get_obsolete, osif_request_get, vars, eventVars, walkVars, managerVars, threadVars, WalkOnly
<1>23. QED
  BY <1>2, <1>3, <1>4, <1>5, <1>6, <1>7, <1>8, <1>9, <1>10, <1>11, <1>12, <1>13, <1>14, <1>15, <1>16,
     <1>17, <1>18, <1>19, <1>20, <1>21, <1>22, NextSteps DEF AnyStep

\* The lock keeps the nodes the walk has still to visit on the list.
LEMMA WalkLinkNext == TypeOK /\ PcLink /\ WalkLink /\ [Next]_vars => WalkLink'
<1> SUFFICES ASSUME TypeOK, PcLink, WalkLink, [Next]_vars PROVE WalkLink'
  OBVIOUS
<1> USE Kinds DEF TypeOK, EventTypeOK, ThreadTypeOK, PcLink, WalkLink, Waits
<1>1. ASSUME UNCHANGED walkVars, \A u \in Threads : Waits(u) => pc'[u] \in {"wait", "woken", "leave"}
      PROVE WalkLink'
  BY <1>1 DEF walkVars
<1>2. ASSUME walk_begin /\ WalkOnly PROVE WalkLink'
  BY <1>2 DEF walk_begin, wait_event_list, eventVars, walkVars, managerVars, threadVars, WalkOnly
<1>3. ASSUME NEW t \in Threads, walk_next(t) /\ WalkOnly PROVE WalkLink'
  BY <1>3 DEF walk_next, eventVars, walkVars, managerVars, threadVars, WalkOnly
<1>4. ASSUME walk_mark /\ WalkOnly PROVE WalkLink'
  BY <1>4 DEF walk_mark, eventVars, walkVars, managerVars, threadVars, WalkOnly
<1>5. ASSUME walk_set /\ WalkOnly PROVE WalkLink'
  BY <1>5 DEF walk_set, event_set_done, eventVars, walkVars, managerVars, threadVars, WalkOnly
<1>6. ASSUME walk_complete /\ WalkOnly PROVE WalkLink'
  BY <1>6 DEF walk_complete, event_set_complete, eventVars, walkVars, managerVars, threadVars, WalkOnly
<1>7. ASSUME walk_end /\ WalkOnly PROVE WalkLink'
  BY <1>7 DEF walk_end, eventVars, walkVars, managerVars, threadVars, WalkOnly
<1>8. ASSUME NEW t \in Requesters, wait_leave(t) PROVE WalkLink'
  BY <1>8 DEF wait_leave, wait_remove, wait_event_lock_free, eventVars, walkVars, managerVars, threadVars
<1>9. ASSUME osif_request_manager_init \/ osif_request_manager_deinit \/ UNCHANGED vars PROVE WalkLink'
  BY <1>9, <1>1 DEF osif_request_manager_init, osif_request_manager_deinit, vars, eventVars,
     walkVars, managerVars, threadVars, WalkOnly
<1>10. ASSUME NEW t \in Requesters, NEW r \in Requests, osif_request_alloc(t, r) PROVE WalkLink'
  BY <1>10, <1>1 DEF osif_request_alloc, qdf_event_create, vars, eventVars, walkVars, managerVars,
     threadVars, WalkOnly
<1>11. ASSUME NEW t \in Requesters,
              \/ alloc_link(t) \/ send(t) \/ send_refused(t) \/ wait_enter(t) \/ wait_enter_nomem(t)
              \/ wait_wake(t) \/ wait_timeout(t) \/ wait_result(t)
       PROVE WalkLink'
  BY <1>11, <1>1 DEF alloc_link, send, send_refused, wait_enter, wait_insert, wait_event_lock_free,
     wait_enter_nomem, wait_wake, wait_completed, wait_timeout, wait_timed_out, wait_result, vars,
     eventVars, walkVars, managerVars, threadVars, WalkOnly
<1>12. ASSUME NEW t \in Responders, NEW r \in Requests, get_found(t, r)
       PROVE WalkLink'
  BY <1>12, <1>1 DEF get_found, osif_request_find, vars, eventVars, walkVars, managerVars,
     threadVars, WalkOnly
<1>13. ASSUME NEW t \in Responders, get_obsolete(t) \/ \E c \in Cookies : osif_request_get(t, c)
       PROVE  WalkLink'
  BY <1>13, <1>1 DEF get_obsolete, osif_request_get, vars, eventVars, walkVars, managerVars, threadVars, WalkOnly
<1>14. ASSUME NEW t \in Responders,
              \/ respond(t) \/ respond_unusable(t) \/ complete_done(t) \/ complete(t)
       PROVE WalkLink'
  BY <1>14, <1>1 DEF respond, respond_unusable, complete_done, event_set_done, complete,
     event_set_complete, vars, eventVars, walkVars, managerVars, threadVars, WalkOnly
<1>15. ASSUME NEW t \in Threads,
              \/ osif_request_put(t) \/ osif_request_put_last(t) \/ osif_request_destroy(t)
       PROVE WalkLink'
  BY <1>15, <1>1 DEF osif_request_put, osif_request_put_last, osif_request_destroy, qdf_event_create, vars,
     eventVars, walkVars, managerVars, threadVars, WalkOnly
<1>16. QED
  BY <1>2, <1>3, <1>4, <1>5, <1>6, <1>7, <1>8, <1>9, <1>10, <1>11, <1>12, <1>13, <1>14, <1>15,
     NextSteps DEF AnyStep

\* Memory is owned by one thread alone until it is on the list and after, and by its
\* requester and the answers in between.
LEMMA OwnLinkNext ==
  TypeOK /\ PcLink /\ OwnLink /\ PointersOK /\ CookieLink /\ CountLink /\ [Next]_vars => OwnLink'
<1> SUFFICES ASSUME TypeOK, PcLink, OwnLink, PointersOK, CookieLink, CountLink, [Next]_vars PROVE OwnLink'
  OBVIOUS
<1> USE Kinds DEF TypeOK, ManagerTypeOK, ThreadTypeOK, PcLink
<1>1. ASSUME request' = request, context' = context, requests' = requests, live' = live, cookieOf' = cookieOf,
        \A u \in Threads : /\ pc'[u] = "idle" <=> pc[u] = "idle"
                           /\ pc'[u] = "alloc" <=> pc[u] = "alloc"
                           /\ pc'[u] = "free" <=> pc[u] = "free"
       PROVE OwnLink'
  BY <1>1 DEF OwnLink, ActsFor, Alone
<1>2. ASSUME NEW t \in Requesters, NEW r \in Requests, osif_request_alloc(t, r) PROVE OwnLink'
  BY <1>2 DEF osif_request_alloc, qdf_event_create, OwnLink, ActsFor, Alone, PointersOK, eventVars,
     walkVars, managerVars, threadVars
<1>3. ASSUME NEW t \in Requesters, alloc_link(t) PROVE OwnLink'
  BY <1>3 DEF alloc_link, OwnLink, ActsFor, Alone, PointersOK, eventVars, walkVars, managerVars, threadVars
<1>4. ASSUME NEW t \in Responders, NEW r \in Requests, get_found(t, r)
      PROVE OwnLink'
  BY <1>4 DEF get_found, osif_request_find, OwnLink, ActsFor, Alone, PointersOK, eventVars,
     walkVars, managerVars, threadVars
<1>5. ASSUME NEW t \in Threads, osif_request_put(t) PROVE OwnLink'
  BY <1>5 DEF osif_request_put, OwnLink, ActsFor, Alone, PointersOK, eventVars, walkVars, managerVars,
     threadVars
<1>6. ASSUME NEW t \in Threads, osif_request_put_last(t) PROVE OwnLink'
  <2> DEFINE r == request[t]
  <2>1. /\ r \in requests /\ reference_count[r] = 1 /\ requests' = requests \ {r} /\ pc[t] = "back"
        /\ request' = request /\ live' = live /\ cookieOf' = cookieOf
        /\ pc'[t] = "free"
        /\ \A u \in Threads \ {t} : pc'[u] = pc[u] /\ context'[u] = context[u]
    BY <1>6 DEF osif_request_put_last, OwnLink, ActsFor
  <2>2. \A u \in Threads : request[u] = r => u = t
    <3>1. Referrers(r) \subseteq Threads /\ t \in Referrers(r) /\ Cardinality(Referrers(r)) = 1
      BY <2>1 DEF Referrers, CountLink
    <3>2. Cardinality(Referrers(r) \ {t}) = 0
      BY <3>1, ThreadSets
    <3>3. Referrers(r) \ {t} \subseteq Threads
      BY <3>1
    <3>4. Referrers(r) \ {t} = {}
      BY <3>2, <3>3, ThreadSets
    <3>5. \A u \in Threads : request[u] = r => pc[u] # "free"
      BY <2>1 DEF OwnLink, Alone
    <3>6. QED
      BY <3>4, <3>5 DEF Referrers
  <2>3. r \in live /\ r \notin requests'
    BY <2>1 DEF OwnLink
  <2>4. \A u \in Threads \ {t} : ActsFor(u) => request[u] \in requests' /\ cookieOf[request[u]] = context'[u]
    BY <2>1, <2>2 DEF OwnLink
  <2>5. \A u \in Threads \ {t} : Alone(u) => request[u] \notin requests'
    BY <2>1 DEF OwnLink
  <2>6. \A s \in live \ requests' : s = r \/ s \in live \ requests
    BY <2>1
  <2>7. QED
    BY <2>1, <2>2, <2>3, <2>4, <2>5, <2>6 DEF OwnLink, ActsFor, Alone
<1>7. ASSUME NEW t \in Threads, osif_request_destroy(t) PROVE OwnLink'
  BY <1>7 DEF osif_request_destroy, qdf_event_create, OwnLink, ActsFor, Alone, PointersOK, eventVars,
     walkVars, managerVars, threadVars
<1>8. ASSUME \/ osif_request_manager_init \/ osif_request_manager_deinit \/ (walk_begin /\ WalkOnly)
             \/ (walk_mark /\ WalkOnly) \/ (walk_set /\ WalkOnly) \/ (walk_complete /\ WalkOnly)
             \/ (walk_end /\ WalkOnly) \/ UNCHANGED vars
      PROVE OwnLink'
  BY <1>8, <1>1 DEF osif_request_manager_init, osif_request_manager_deinit, walk_begin, wait_event_list,
     walk_mark, walk_set, event_set_done, walk_complete, event_set_complete, walk_end, vars,
     eventVars, walkVars, managerVars, threadVars, WalkOnly
<1>9. ASSUME NEW t \in Threads, (walk_next(t) /\ WalkOnly) PROVE OwnLink'
  BY <1>9, <1>1 DEF walk_next, vars, eventVars, walkVars, managerVars, threadVars, WalkOnly
<1>10. ASSUME NEW t \in Requesters,
              \/ send(t) \/ send_refused(t) \/ wait_enter(t) \/ wait_enter_nomem(t) \/ wait_wake(t)
              \/ wait_timeout(t) \/ wait_result(t) \/ wait_leave(t)
       PROVE OwnLink'
  BY <1>10, <1>1 DEF send, send_refused, wait_enter, wait_insert, wait_event_lock_free, wait_enter_nomem,
     wait_wake, wait_completed, wait_timeout, wait_timed_out, wait_result, wait_leave, wait_remove, vars,
     eventVars, walkVars, managerVars, threadVars, WalkOnly
<1>11. ASSUME NEW t \in Responders, get_obsolete(t) \/ \E c \in Cookies : osif_request_get(t, c)
       PROVE  OwnLink'
  BY <1>11, <1>1 DEF get_obsolete, osif_request_get, vars, eventVars, walkVars, managerVars, threadVars, WalkOnly
<1>12. ASSUME NEW t \in Responders,
              \/ respond(t) \/ respond_unusable(t) \/ complete_done(t) \/ complete(t)
       PROVE OwnLink'
  BY <1>12, <1>1 DEF respond, respond_unusable, complete_done, event_set_done, complete,
     event_set_complete, vars, eventVars, walkVars, managerVars, threadVars, WalkOnly
<1>13. QED
  BY <1>2, <1>3, <1>4, <1>5, <1>6, <1>7, <1>8, <1>9, <1>10, <1>11, <1>12, NextSteps DEF AnyStep

\* A cookie is handed out once.
LEMMA CookieLinkNext == TypeOK /\ OwnLink /\ CookieLink /\ [Next]_vars => CookieLink'
<1> SUFFICES ASSUME TypeOK, OwnLink, CookieLink, [Next]_vars PROVE CookieLink'
  OBVIOUS
<1> USE Kinds DEF TypeOK, ManagerTypeOK, ThreadTypeOK, CookieLink
<1>1. ASSUME UNCHANGED <<requests, cookieOf, cookie, owed, looking>> PROVE CookieLink'
  BY <1>1
<1>2. ASSUME NEW t \in Requesters, NEW r \in Requests, osif_request_alloc(t, r) PROVE CookieLink'
  BY <1>2 DEF osif_request_alloc, qdf_event_create, OwnLink, ActsFor, Alone, Cookies, eventVars, walkVars,
     managerVars, threadVars
<1>3. ASSUME NEW t \in Requesters, alloc_link(t) PROVE CookieLink'
  BY <1>3 DEF alloc_link, OwnLink, ActsFor, Alone, Cookies, eventVars, walkVars, managerVars, threadVars
<1>4. ASSUME NEW t \in Requesters, send(t) PROVE CookieLink'
  <2>1. context[t] < cookie
    BY <1>4 DEF send, OwnLink, ActsFor
  <2>2. QED
    BY <1>4, <2>1 DEF send, managerVars
<1>5. ASSUME NEW t \in Responders, NEW r \in Requests, get_found(t, r)
      PROVE CookieLink'
  BY <1>5 DEF get_found, osif_request_find, OwnLink, ActsFor, Alone, Cookies, eventVars, walkVars,
     managerVars, threadVars
<1>6. ASSUME NEW t \in Responders, get_obsolete(t) \/ \E c \in Cookies : osif_request_get(t, c)
       PROVE  CookieLink'
  <2>1. CASE get_obsolete(t)
    BY <1>6, <2>1 DEF get_obsolete, managerVars
  <2>2. ASSUME NEW c \in Cookies, osif_request_get(t, c) PROVE CookieLink'
    <3>1. c < cookie /\ UNCHANGED <<requests, cookieOf, cookie>>
      BY <2>2 DEF osif_request_get, managerVars
    <3>2. \A d \in Cookies : owed'[d] > 0 => d < cookie
      BY <2>2, <3>1 DEF osif_request_get
    <3>3. \A u \in Threads : looking'[u] # NULL => looking'[u] < cookie
      BY <2>2, <3>1 DEF osif_request_get
    <3>4. QED
      BY <3>1, <3>2, <3>3
  <2>3. QED
    BY <1>6, <2>1, <2>2
<1>7. ASSUME NEW t \in Threads, osif_request_put_last(t) PROVE CookieLink'
  BY <1>7 DEF osif_request_put_last, OwnLink, ActsFor, Alone, Cookies, eventVars, walkVars, managerVars,
     threadVars
<1>8. ASSUME NEW t \in Threads, osif_request_destroy(t) PROVE CookieLink'
  BY SMTT(30), <1>8 DEF osif_request_destroy, qdf_event_create, OwnLink, ActsFor, Alone, Cookies, eventVars,
     walkVars, managerVars, threadVars
<1>9. ASSUME \/ osif_request_manager_init \/ osif_request_manager_deinit \/ (walk_begin /\ WalkOnly)
             \/ (walk_mark /\ WalkOnly) \/ (walk_set /\ WalkOnly) \/ (walk_complete /\ WalkOnly)
             \/ (walk_end /\ WalkOnly) \/ UNCHANGED vars
      PROVE CookieLink'
  BY <1>9, <1>1 DEF osif_request_manager_init, osif_request_manager_deinit, walk_begin, wait_event_list,
     walk_mark, walk_set, event_set_done, walk_complete, event_set_complete, walk_end, vars,
     eventVars, walkVars, managerVars, threadVars, WalkOnly
<1>10. ASSUME NEW t \in Threads, (walk_next(t) /\ WalkOnly) \/ osif_request_put(t) PROVE CookieLink'
  BY <1>10, <1>1 DEF walk_next, osif_request_put, vars, eventVars, walkVars, managerVars, threadVars, WalkOnly
<1>11. ASSUME NEW t \in Requesters,
              \/ send_refused(t) \/ wait_enter(t) \/ wait_enter_nomem(t) \/ wait_wake(t)
              \/ wait_timeout(t) \/ wait_result(t) \/ wait_leave(t)
       PROVE CookieLink'
  BY <1>11, <1>1 DEF send_refused, wait_enter, wait_insert, wait_event_lock_free, wait_enter_nomem,
     wait_wake, wait_completed, wait_timeout, wait_timed_out, wait_result, wait_leave, wait_remove, vars,
     eventVars, walkVars, managerVars, threadVars, WalkOnly
<1>12. ASSUME NEW t \in Responders,
              \/ respond(t) \/ respond_unusable(t) \/ complete_done(t) \/ complete(t)
       PROVE CookieLink'
  BY <1>12, <1>1 DEF respond, respond_unusable, complete_done, event_set_done, complete,
     event_set_complete, vars, eventVars, walkVars, managerVars, threadVars, WalkOnly
<1>13. QED
  BY <1>2, <1>3, <1>4, <1>5, <1>6, <1>7, <1>8, <1>9, <1>10, <1>11, <1>12, NextSteps DEF AnyStep

\* Nobody brings an answer for a cookie that has not gone down yet.
LEMMA NoStrayAnswerNext ==
  TypeOK /\ PcLink /\ OwnLink /\ CookieLink /\ NoStrayAnswer /\ [Next]_vars => NoStrayAnswer'
<1> SUFFICES ASSUME TypeOK, PcLink, OwnLink, CookieLink, NoStrayAnswer, [Next]_vars PROVE NoStrayAnswer'
  OBVIOUS
<1> USE Kinds DEF TypeOK, ManagerTypeOK, ThreadTypeOK
<1>1. ASSUME UNCHANGED <<owed, looking>>,
        \A u \in Threads : /\ pc'[u] = "linked" => pc[u] = "linked"
                           /\ pc'[u] \notin {"idle", "alloc", "free"} => ActsFor(u) /\ context'[u] = context[u]
       PROVE NoStrayAnswer'
  BY <1>1 DEF NoStrayAnswer, ActsFor
<1>2. ASSUME NEW t \in Requesters, alloc_link(t) PROVE NoStrayAnswer'
  BY <1>2 DEF alloc_link, NoStrayAnswer, OwnLink, CookieLink, ActsFor, eventVars, walkVars, managerVars,
     threadVars
<1>3. ASSUME NEW t \in Requesters, send(t) PROVE NoStrayAnswer'
  BY <1>3 DEF send, NoStrayAnswer, OwnLink, CookieLink, ActsFor, eventVars, walkVars, managerVars, threadVars
<1>4. ASSUME NEW t \in Responders, NEW r \in Requests, get_found(t, r)
      PROVE NoStrayAnswer'
  BY <1>4 DEF get_found, osif_request_find, NoStrayAnswer, OwnLink, CookieLink, ActsFor, eventVars,
     walkVars, managerVars, threadVars
<1>5. ASSUME NEW t \in Responders, get_obsolete(t) \/ \E c \in Cookies : osif_request_get(t, c)
       PROVE  NoStrayAnswer'
  <2>1. CASE get_obsolete(t)
    BY <1>5, <2>1, Kinds DEF get_obsolete, NoStrayAnswer, ActsFor, threadVars
  <2>2. ASSUME NEW c \in Cookies, osif_request_get(t, c) PROVE NoStrayAnswer'
    <3>1. UNCHANGED <<pc, context>> /\ owed[c] > 0
      BY <2>2 DEF osif_request_get, threadVars
    <3>2. \A u \in Requesters : pc[u] = "linked" => context[u] # c /\ context[u] \in Cookies
      BY <3>1 DEF NoStrayAnswer
    <3>3. \A d \in Cookies : d # c => owed'[d] = owed[d]
      BY <2>2 DEF osif_request_get
    <3>4. \A u \in Threads : looking'[u] = looking[u] \/ looking'[u] = c
      BY <2>2 DEF osif_request_get
    <3>5. QED
      BY <3>1, <3>2, <3>3, <3>4 DEF NoStrayAnswer, ActsFor
  <2>3. QED
    BY <1>5, <2>1, <2>2
<1>6. ASSUME \/ osif_request_manager_init \/ osif_request_manager_deinit \/ (walk_begin /\ WalkOnly)
             \/ (walk_mark /\ WalkOnly) \/ (walk_set /\ WalkOnly) \/ (walk_complete /\ WalkOnly)
             \/ (walk_end /\ WalkOnly) \/ UNCHANGED vars
      PROVE NoStrayAnswer'
  BY <1>6, <1>1 DEF osif_request_manager_init, osif_request_manager_deinit, walk_begin, wait_event_list,
     walk_mark, walk_set, event_set_done, walk_complete, event_set_complete, walk_end, vars, ActsFor,
     eventVars, walkVars, managerVars, threadVars, WalkOnly
<1>7. ASSUME NEW t \in Threads,
             \/ (walk_next(t) /\ WalkOnly) \/ osif_request_put(t) \/ osif_request_put_last(t)
             \/ osif_request_destroy(t)
      PROVE NoStrayAnswer'
  BY <1>7, <1>1 DEF walk_next, osif_request_put, osif_request_put_last, osif_request_destroy,
     qdf_event_create, vars, ActsFor, eventVars, walkVars, managerVars, threadVars, WalkOnly
<1>8. ASSUME NEW t \in Requesters, NEW r \in Requests, osif_request_alloc(t, r) PROVE NoStrayAnswer'
  BY <1>8, <1>1 DEF osif_request_alloc, qdf_event_create, vars, ActsFor, eventVars, walkVars, managerVars,
     threadVars, WalkOnly
<1>9. ASSUME NEW t \in Requesters,
             \/ send_refused(t) \/ wait_enter(t) \/ wait_enter_nomem(t) \/ wait_wake(t)
             \/ wait_timeout(t) \/ wait_result(t) \/ wait_leave(t)
      PROVE NoStrayAnswer'
  BY <1>9, <1>1 DEF send_refused, wait_enter, wait_insert, wait_event_lock_free, wait_enter_nomem,
     wait_wake, wait_completed, wait_timeout, wait_timed_out, wait_result, wait_leave, wait_remove, vars,
     ActsFor, eventVars, walkVars, managerVars, threadVars, WalkOnly
<1>10. ASSUME NEW t \in Responders,
              \/ respond(t) \/ respond_unusable(t) \/ complete_done(t) \/ complete(t)
       PROVE NoStrayAnswer'
  BY <1>10, <1>1 DEF respond, respond_unusable, complete_done, event_set_done, complete,
     event_set_complete, vars, ActsFor, eventVars, walkVars, managerVars, threadVars, WalkOnly
<1>11. QED
  BY <1>2, <1>3, <1>4, <1>5, <1>6, <1>7, <1>8, <1>9, <1>10, NextSteps DEF AnyStep

\* The count follows the threads that refer to a request.
LEMMA CountLinkNext == TypeOK /\ PcLink /\ OwnLink /\ CountLink /\ PointersOK /\ [Next]_vars => CountLink'
<1> SUFFICES ASSUME TypeOK, PcLink, OwnLink, CountLink, PointersOK, [Next]_vars PROVE CountLink'
  OBVIOUS
<1> USE Kinds DEF TypeOK, ManagerTypeOK, ThreadTypeOK
<1>1. ASSUME request' = request, requests' = requests, reference_count' = reference_count,
        \A u \in Threads : /\ pc'[u] = "alloc" <=> pc[u] = "alloc"
                           /\ pc'[u] = "free" <=> pc[u] = "free"
       PROVE CountLink'
  BY SMTT(30), <1>1 DEF CountLink, Referrers, Alone
<1>2. ASSUME NEW t \in Requesters, NEW r \in Requests, osif_request_alloc(t, r) PROVE CountLink'
  <2>1. /\ r \notin live /\ requests' = requests /\ request'[t] = r /\ pc'[t] = "alloc" /\ pc[t] = "idle"
        /\ \A u \in Threads \ {t} : pc'[u] = pc[u] /\ request'[u] = request[u]
        /\ reference_count'[r] = 1
        /\ \A s \in Requests \ {r} : reference_count'[s] = reference_count[s]
    BY <1>2 DEF osif_request_alloc
  <2>2. request[t] = NULL
    BY <2>1 DEF PcLink
  <2>3. \A s \in requests : s # r /\ s \in Requests /\ s # NULL
    BY <2>1 DEF OwnLink
  <2>4. \A s \in requests : Referrers(s)' = Referrers(s)
    BY <2>1, <2>2, <2>3 DEF Referrers
  <2>5. \A u \in Threads \ {t} : Alone(u) => request[u] # r /\ request[u] \in Requests
    BY <2>1 DEF OwnLink, Alone, PointersOK
  <2>6. QED
    BY <2>1, <2>3, <2>4, <2>5 DEF CountLink, Alone
<1>3. ASSUME NEW t \in Requesters, alloc_link(t) PROVE CountLink'
  <2>0. PICK r : r = request[t]
    OBVIOUS
  <2>1. /\ requests' = requests \cup {r} /\ request' = request /\ pc[t] = "alloc" /\ pc'[t] = "linked"
        /\ reference_count' = reference_count
        /\ \A u \in Threads \ {t} : pc'[u] = pc[u]
    BY <1>3, <2>0 DEF alloc_link
  <2>2. reference_count[r] = 1 /\ r \notin requests /\ \A u \in Threads : request[u] = r => u = t
    BY <2>0, <2>1 DEF CountLink, OwnLink, Alone
  <2>3. Referrers(r)' = {t}
    BY <2>0, <2>1, <2>2 DEF Referrers
  <2>4. \A s \in requests : Referrers(s)' = Referrers(s)
    BY <2>1, <2>2 DEF Referrers
  <2>5. Cardinality({t}) = 1
    BY ThreadSets
  <2>6. \A s \in requests' : reference_count'[s] = Cardinality(Referrers(s)') /\ Referrers(s)' # {}
    <3>1. reference_count'[r] = Cardinality(Referrers(r)') /\ Referrers(r)' # {}
      BY <2>1, <2>2, <2>3, <2>5
    <3>2. \A s \in requests : reference_count'[s] = Cardinality(Referrers(s)') /\ Referrers(s)' # {}
      BY <2>1, <2>4 DEF CountLink
    <3>3. QED
      BY <2>1, <3>1, <3>2
  <2>7. \A u \in Threads : Alone(u)' => Alone(u) /\ pc'[u] = pc[u]
    BY <2>1 DEF Alone
  <2>8. QED
    BY <2>1, <2>6, <2>7 DEF CountLink
<1>4. ASSUME NEW t \in Responders, NEW r \in Requests, get_found(t, r)
      PROVE CountLink'
  <2>1. /\ r \in requests /\ requests' = requests /\ request'[t] = r /\ pc'[t] = "got" /\ pc[t] = "idle"
        /\ \A u \in Threads \ {t} : pc'[u] = pc[u] /\ request'[u] = request[u]
        /\ reference_count' = [reference_count EXCEPT ![r] = reference_count[r] + 1]
    BY <1>4 DEF get_found, osif_request_find
  <2>2. request[t] = NULL
    BY <2>1 DEF PcLink
  <2>3. \A s \in requests \ {r} : Referrers(s)' = Referrers(s)
    BY <2>1, <2>2 DEF Referrers
  <2>4. Referrers(r) \subseteq Threads /\ t \notin Referrers(r) /\ Referrers(r)' = Referrers(r) \cup {t}
    BY <2>1, <2>2 DEF Referrers
  <2>5. Cardinality(Referrers(r)') = reference_count[r] + 1
    BY <2>1, <2>4, ThreadSets DEF CountLink
  <2>6. ASSUME NEW s \in requests PROVE reference_count'[s] = Cardinality(Referrers(s)') /\ Referrers(s)' # {}
    <3>1. s \in Requests /\ r \in Requests
      BY <2>1
    <3>2. CASE s = r
      BY <2>1, <2>4, <2>5, <3>1, <3>2
    <3>3. CASE s # r
      <4>1. reference_count'[s] = reference_count[s]
        BY <2>1, <3>1, <3>3
      <4>2. reference_count[s] = Cardinality(Referrers(s)) /\ Referrers(s) # {}
        BY DEF CountLink
      <4>3. Referrers(s)' = Referrers(s)
        BY <2>3, <3>3
      <4>4. QED
        BY <4>1, <4>2, <4>3
    <3>4. QED
      BY <3>2, <3>3
  <2>7. \A u \in Threads : Alone(u)' => Alone(u) /\ pc'[u] = pc[u] /\ request'[u] = request[u] /\ request[u] # r
    BY <2>1 DEF Alone, OwnLink
  <2>8. QED
    BY <2>1, <2>6, <2>7 DEF CountLink
<1>5. ASSUME NEW t \in Threads, osif_request_put(t) PROVE CountLink'
  <2>0. PICK r : r = request[t]
    OBVIOUS
  <2>1. /\ r \in requests /\ requests' = requests /\ request'[t] = NULL /\ pc'[t] = "idle" /\ pc[t] = "back"
        /\ \A u \in Threads \ {t} : pc'[u] = pc[u] /\ request'[u] = request[u]
        /\ reference_count[r] \in Nat \ {0, 1}
        /\ reference_count' = [reference_count EXCEPT ![r] = reference_count[r] - 1]
    BY <1>5, <2>0 DEF osif_request_put, OwnLink, ActsFor, PointersOK
  <2>2. \A s \in requests \ {r} : Referrers(s)' = Referrers(s)
    BY <2>0, <2>1 DEF Referrers
  <2>3. Referrers(r) \subseteq Threads /\ t \in Referrers(r) /\ Referrers(r)' = Referrers(r) \ {t}
    <3>1. r # NULL
      BY <2>1, Kinds
    <3>2. Referrers(r) \subseteq Threads /\ t \in Referrers(r)
      BY <2>0, <2>1 DEF Referrers
    <3>3. t \notin Referrers(r)'
      BY <2>1, <3>1 DEF Referrers
    <3>4. \A u \in Threads \ {t} : u \in Referrers(r)' <=> u \in Referrers(r)
      BY <2>1 DEF Referrers
    <3>5. Referrers(r)' \subseteq Threads
      BY DEF Referrers
    <3>6. QED
      BY <3>2, <3>3, <3>4, <3>5
  <2>4. Cardinality(Referrers(r)') = reference_count[r] - 1
    BY <2>1, <2>3, ThreadSets DEF CountLink
  <2>5. Referrers(r)' # {}
    BY <2>1, <2>3, <2>4, ThreadSets
  <2>6. ASSUME NEW s \in requests PROVE reference_count'[s] = Cardinality(Referrers(s)') /\ Referrers(s)' # {}
    <3>1. s \in Requests /\ r \in Requests
      BY <2>0, <2>1
    <3>2. CASE s = r
      BY <2>1, <2>4, <2>5, <3>1, <3>2
    <3>3. CASE s # r
      <4>1. reference_count'[s] = reference_count[s]
        BY <2>1, <3>1, <3>3
      <4>2. reference_count[s] = Cardinality(Referrers(s)) /\ Referrers(s) # {}
        BY DEF CountLink
      <4>3. Referrers(s)' = Referrers(s)
        BY <2>2, <3>3
      <4>4. QED
        BY <4>1, <4>2, <4>3
    <3>4. QED
      BY <3>2, <3>3
  <2>7. \A u \in Threads : Alone(u)' => Alone(u) /\ pc'[u] = pc[u] /\ request'[u] = request[u] /\ request[u] # r
    BY <2>1 DEF Alone, OwnLink
  <2>8. QED
    BY <2>1, <2>6, <2>7 DEF CountLink
<1>6. ASSUME NEW t \in Threads, osif_request_put_last(t) PROVE CountLink'
  <2> DEFINE r == request[t]
  <2>1. /\ r \in requests /\ requests' = requests \ {r} /\ request' = request /\ pc'[t] = "free" /\ pc[t] = "back"
        /\ \A u \in Threads \ {t} : pc'[u] = pc[u]
        /\ reference_count' = [reference_count EXCEPT ![r] = 0]
    BY <1>6 DEF osif_request_put_last, OwnLink, ActsFor
  <2>2. \A s \in requests' : Referrers(s)' = Referrers(s) /\ reference_count'[s] = reference_count[s]
    BY <2>1 DEF Referrers
  <2>3. \A u \in Threads \ {t} : Alone(u)' => Alone(u) /\ pc'[u] = pc[u] /\ request[u] # r
    BY <2>1 DEF Alone, OwnLink
  <2>4. reference_count'[r] = 0
    BY <2>1
  <2>5. QED
    BY <2>1, <2>2, <2>3, <2>4 DEF CountLink
<1>7. ASSUME NEW t \in Threads, osif_request_destroy(t) PROVE CountLink'
  <2> DEFINE r == request[t]
  <2>1. /\ requests' = requests /\ request'[t] = NULL /\ pc'[t] = "idle" /\ pc[t] = "free"
        /\ \A u \in Threads \ {t} : pc'[u] = pc[u] /\ request'[u] = request[u]
        /\ reference_count' = reference_count
    BY <1>7 DEF osif_request_destroy
  <2>2. \A s \in requests : s # NULL /\ Referrers(s)' = Referrers(s)
    BY <2>1 DEF Referrers
  <2>3. QED
    BY <2>1, <2>2 DEF CountLink, Alone
<1>8. ASSUME \/ osif_request_manager_init \/ osif_request_manager_deinit \/ (walk_begin /\ WalkOnly)
             \/ (walk_mark /\ WalkOnly) \/ (walk_set /\ WalkOnly) \/ (walk_complete /\ WalkOnly)
             \/ (walk_end /\ WalkOnly) \/ UNCHANGED vars
      PROVE CountLink'
  BY <1>8, <1>1 DEF osif_request_manager_init, osif_request_manager_deinit, walk_begin, wait_event_list,
     walk_mark, walk_set, event_set_done, walk_complete, event_set_complete, walk_end, vars,
     eventVars, walkVars, managerVars, threadVars, WalkOnly
<1>9. ASSUME NEW t \in Threads, (walk_next(t) /\ WalkOnly) PROVE CountLink'
  BY <1>9, <1>1 DEF walk_next, vars, eventVars, walkVars, managerVars, threadVars, WalkOnly
<1>10. ASSUME NEW t \in Requesters,
              \/ send(t) \/ send_refused(t) \/ wait_enter(t) \/ wait_enter_nomem(t) \/ wait_wake(t)
              \/ wait_timeout(t) \/ wait_result(t) \/ wait_leave(t)
       PROVE CountLink'
  BY <1>10, <1>1 DEF send, send_refused, wait_enter, wait_insert, wait_event_lock_free, wait_enter_nomem,
     wait_wake, wait_completed, wait_timeout, wait_timed_out, wait_result, wait_leave, wait_remove, vars,
     eventVars, walkVars, managerVars, threadVars, WalkOnly
<1>11. ASSUME NEW t \in Responders, get_obsolete(t) \/ \E c \in Cookies : osif_request_get(t, c)
       PROVE  CountLink'
  BY <1>11, <1>1 DEF get_obsolete, osif_request_get, vars, eventVars, walkVars, managerVars, threadVars, WalkOnly
<1>12. ASSUME NEW t \in Responders,
              \/ respond(t) \/ respond_unusable(t) \/ complete_done(t) \/ complete(t)
       PROVE CountLink'
  BY <1>12, <1>1 DEF respond, respond_unusable, complete_done, event_set_done, complete,
     event_set_complete, vars, eventVars, walkVars, managerVars, threadVars, WalkOnly
<1>13. QED
  BY <1>2, <1>3, <1>4, <1>5, <1>6, <1>7, <1>8, <1>9, <1>10, <1>11, <1>12, NextSteps DEF AnyStep

\* A completion that nobody forced has its answer in the private area.
LEMMA AnswerLinkNext ==
  TypeOK /\ PcLink /\ WalkLink /\ OwnLink /\ AnswerLink /\ PointersOK /\ [Next]_vars => AnswerLink'
<1> SUFFICES ASSUME TypeOK, PcLink, WalkLink, OwnLink, AnswerLink, PointersOK, [Next]_vars PROVE AnswerLink'
  OBVIOUS
<1> USE Kinds DEF TypeOK, EventTypeOK, ManagerTypeOK, ThreadTypeOK
<1>1. ASSUME UNCHANGED <<eventVars, priv, cookieOf, requests, request, context>>, walk' = walk, node' = node,
        \A u \in Threads : /\ pc'[u] \in {"alloc", "woken", "written", "setting"} => pc'[u] = pc[u]
                           /\ status'[u] = "SUCCESS" => status[u] = "SUCCESS"
       PROVE AnswerLink'
  BY <1>1, Kinds DEF AnswerLink, eventVars, PointersOK
<1>2. ASSUME walk_begin /\ WalkOnly PROVE AnswerLink'
  BY <1>2 DEF walk_begin, wait_event_list, AnswerLink, PcLink, WalkLink, OwnLink, ActsFor, Alone,
     PointersOK, Waits, eventVars, walkVars, managerVars, threadVars, WalkOnly
<1>3. ASSUME NEW t \in Threads, walk_next(t) /\ WalkOnly PROVE AnswerLink'
  BY <1>3 DEF walk_next, AnswerLink, PcLink, WalkLink, OwnLink, ActsFor, Alone, PointersOK, Waits,
     eventVars, walkVars, managerVars, threadVars, WalkOnly
<1>4. ASSUME walk_mark /\ WalkOnly PROVE AnswerLink'
  BY <1>4 DEF walk_mark, AnswerLink, PcLink, WalkLink, OwnLink, ActsFor, Alone, PointersOK, Waits,
     eventVars, walkVars, managerVars, threadVars, WalkOnly
<1>5. ASSUME walk_set /\ WalkOnly PROVE AnswerLink'
  BY <1>5 DEF walk_set, event_set_done, AnswerLink, PcLink, WalkLink, OwnLink, ActsFor, Alone, PointersOK,
     Waits, eventVars, walkVars, managerVars, threadVars, WalkOnly
<1>6. ASSUME walk_complete /\ WalkOnly PROVE AnswerLink'
  BY <1>6 DEF walk_complete, event_set_complete, AnswerLink, PcLink, WalkLink, OwnLink, ActsFor, Alone,
     PointersOK, Waits, eventVars, walkVars, managerVars, threadVars, WalkOnly
<1>7. ASSUME walk_end /\ WalkOnly PROVE AnswerLink'
  BY <1>7 DEF walk_end, AnswerLink, PcLink, WalkLink, OwnLink, ActsFor, Alone, PointersOK, Waits,
     eventVars, walkVars, managerVars, threadVars, WalkOnly
<1>8. ASSUME NEW t \in Requesters, NEW r \in Requests, osif_request_alloc(t, r) PROVE AnswerLink'
  <2>1. /\ r \notin live /\ requests' = requests /\ cookieOf' = cookieOf /\ context' = context /\ status' = status
        /\ walk' = walk /\ node' = node /\ pc[t] = "idle"
        /\ request' = [request EXCEPT ![t] = r] /\ pc' = [pc EXCEPT ![t] = "alloc"]
    BY <1>8 DEF osif_request_alloc, walkVars
  <2>14. request'[t] = r /\ pc'[t] = "alloc" /\ \A u \in Threads \ {t} : pc'[u] = pc[u] /\ request'[u] = request[u]
    BY <2>1
  <2>15. /\ priv' = [priv EXCEPT ![r] = NULL] /\ done' = [done EXCEPT ![r] = FALSE]
         /\ force_set' = [force_set EXCEPT ![r] = FALSE] /\ completion' = [completion EXCEPT ![r] = 0]
    BY <1>8 DEF osif_request_alloc, qdf_event_create
  <2>16. /\ completion'[r] = 0 /\ ~done'[r]
         /\ \A s \in Requests \ {r} : /\ completion'[s] = completion[s] /\ done'[s] = done[s]
                                      /\ force_set'[s] = force_set[s] /\ priv'[s] = priv[s]
    BY <2>15, Kinds DEF Requests
  <2>2. \A u \in Threads : pc[u] # "idle" => request[u] # r /\ request[u] \in Requests
    BY <2>1 DEF OwnLink, PointersOK
  <2>3. \A s \in requests : s # r /\ s \in Requests
    BY <2>1 DEF OwnLink
  <2>4. \A u \in Threads : status[u] = "SUCCESS" => pc[u] # "idle"
    BY DEF PcLink
  <2>5. walk \in {"set", "complete"} => node \in Threads \ {t} /\ request[node] \in requests
    BY <2>1 DEF PointersOK, Waits
  <2>6. \A u \in Threads \ {t} : status'[u] = "SUCCESS" => priv'[request'[u]] = context'[u]
    BY <2>1, <2>14, <2>16, <2>2, <2>4 DEF AnswerLink
  <2>7. status'[t] # "SUCCESS"
    BY <2>1, <2>14, <2>16, <2>4
  <2>8. walk' \in {"set", "complete"} => force_set'[request'[node']]
    BY <2>1, <2>14, <2>16, <2>3, <2>5 DEF AnswerLink
  <2>9. \A u \in Threads : pc'[u] = "alloc" => completion'[request'[u]] = 0 /\ ~done'[request'[u]]
    BY <2>1, <2>14, <2>16, <2>2 DEF AnswerLink
  <2>10. \A u \in Threads : pc'[u] = "woken" => force_set'[request'[u]] \/ priv'[request'[u]] = context'[u]
    BY <2>1, <2>14, <2>16, <2>2 DEF AnswerLink
  <2>11. \A u \in Threads : pc'[u] \in {"written", "setting"} => priv'[request'[u]] = context'[u]
    BY <2>1, <2>14, <2>16, <2>2 DEF AnswerLink
  <2>12. \A s \in requests' : completion'[s] > 0 => force_set'[s] \/ priv'[s] = cookieOf'[s]
    BY <2>1, <2>14, <2>16, <2>3 DEF AnswerLink
  <2>13. QED
    BY <2>6, <2>7, <2>8, <2>9, <2>10, <2>11, <2>12 DEF AnswerLink
<1>9. ASSUME NEW t \in Requesters, alloc_link(t) PROVE AnswerLink'
  BY <1>9 DEF alloc_link, AnswerLink, PcLink, WalkLink, OwnLink, ActsFor, Alone, PointersOK, Waits,
     eventVars, walkVars, managerVars, threadVars
<1>10. ASSUME NEW t \in Requesters, wait_wake(t) PROVE AnswerLink'
  BY <1>10 DEF wait_wake, wait_completed, AnswerLink, PcLink, WalkLink, OwnLink, ActsFor, Alone,
     PointersOK, Waits, eventVars, walkVars, managerVars, threadVars
<1>11. ASSUME NEW t \in Requesters, wait_result(t) PROVE AnswerLink'
  BY <1>11 DEF wait_result, AnswerLink, PcLink, WalkLink, OwnLink, ActsFor, Alone, PointersOK, Waits,
     eventVars, walkVars, managerVars, threadVars
<1>12. ASSUME NEW t \in Responders, NEW r \in Requests, get_found(t, r)
       PROVE AnswerLink'
  BY <1>12 DEF get_found, osif_request_find, AnswerLink, PcLink, WalkLink, OwnLink, ActsFor, Alone,
     PointersOK, Waits, eventVars, walkVars, managerVars, threadVars
<1>13. ASSUME NEW t \in Responders, respond(t) PROVE AnswerLink'
  BY <1>13 DEF respond, AnswerLink, PcLink, WalkLink, OwnLink, ActsFor, Alone, PointersOK, Waits,
     eventVars, walkVars, managerVars, threadVars
<1>14. ASSUME NEW t \in Responders, complete_done(t) PROVE AnswerLink'
  BY <1>14 DEF complete_done, event_set_done, AnswerLink, PcLink, WalkLink, OwnLink, ActsFor, Alone,
     PointersOK, Waits, eventVars, walkVars, managerVars, threadVars
<1>15. ASSUME NEW t \in Responders, complete(t) PROVE AnswerLink'
  BY <1>15 DEF complete, event_set_complete, AnswerLink, PcLink, WalkLink, OwnLink, ActsFor, Alone,
     PointersOK, Waits, eventVars, walkVars, managerVars, threadVars
<1>16. ASSUME NEW t \in Threads, osif_request_put(t) PROVE AnswerLink'
  BY <1>16 DEF osif_request_put, AnswerLink, PcLink, WalkLink, OwnLink, ActsFor, Alone, PointersOK, Waits,
     eventVars, walkVars, managerVars, threadVars
<1>17. ASSUME NEW t \in Threads, osif_request_put_last(t) PROVE AnswerLink'
  BY <1>17 DEF osif_request_put_last, AnswerLink, PcLink, WalkLink, OwnLink, ActsFor, Alone, PointersOK,
     Waits, eventVars, walkVars, managerVars, threadVars
<1>18. ASSUME NEW t \in Threads, osif_request_destroy(t) PROVE AnswerLink'
  BY <1>18 DEF osif_request_destroy, qdf_event_create, AnswerLink, PcLink, WalkLink, OwnLink, ActsFor,
     Alone, PointersOK, Waits, eventVars, walkVars, managerVars, threadVars
<1>19. ASSUME osif_request_manager_init \/ osif_request_manager_deinit \/ UNCHANGED vars PROVE AnswerLink'
  BY <1>19, <1>1 DEF osif_request_manager_init, osif_request_manager_deinit, vars, eventVars,
     walkVars, managerVars, threadVars, WalkOnly
<1>20. ASSUME NEW t \in Requesters,
              \/ send(t) \/ send_refused(t) \/ wait_enter(t) \/ wait_enter_nomem(t)
              \/ wait_timeout(t) \/ wait_leave(t)
       PROVE AnswerLink'
  BY <1>20, <1>1 DEF send, send_refused, wait_enter, wait_insert, wait_event_lock_free, wait_enter_nomem,
     wait_timeout, wait_timed_out, wait_leave, wait_remove, vars, eventVars, walkVars, managerVars,
     threadVars, WalkOnly
<1>21. ASSUME NEW t \in Responders, get_obsolete(t) \/ \E c \in Cookies : osif_request_get(t, c)
       PROVE  AnswerLink'
  BY <1>21, <1>1 DEF get_obsolete, osif_request_get, vars, eventVars, walkVars, managerVars, threadVars, WalkOnly
<1>22. ASSUME NEW t \in Responders, respond_unusable(t) PROVE AnswerLink'
  BY <1>22, <1>1 DEF respond_unusable, vars, eventVars, walkVars, managerVars, threadVars, WalkOnly
<1>23. QED
  BY <1>2, <1>3, <1>4, <1>5, <1>6, <1>7, <1>8, <1>9, <1>10, <1>11, <1>12, <1>13, <1>14, <1>15, <1>16,
     <1>17, <1>18, <1>19, <1>20, <1>21, <1>22, NextSteps DEF AnyStep

\* An event that is done wakes its waiter.
LEMMA WakeLinkNext ==
  TypeOK /\ PcLink /\ WalkLink /\ OwnLink /\ AnswerLink /\ WakeLink /\ PointersOK /\ [Next]_vars => WakeLink'
<1> SUFFICES ASSUME TypeOK, PcLink, WalkLink, OwnLink, AnswerLink, WakeLink, PointersOK, [Next]_vars PROVE WakeLink'
  OBVIOUS
<1> USE Kinds DEF TypeOK, EventTypeOK, ManagerTypeOK, ThreadTypeOK
<1>1. ASSUME UNCHANGED <<done, completion, request>>, walk = "complete" => walk' = walk /\ node' = node,
        \A u \in Threads : /\ pc'[u] \in {"linked", "sent", "wait"} => pc[u] \in {"linked", "sent", "wait"}
                           /\ pc[u] = "setting" => pc'[u] = "setting"
       PROVE WakeLink'
  BY <1>1 DEF WakeLink
<1>2. ASSUME walk_set /\ WalkOnly PROVE WakeLink'
  BY <1>2 DEF walk_set, event_set_done, WakeLink, PcLink, WalkLink, OwnLink, AnswerLink, ActsFor, Alone,
     PointersOK, Waits, eventVars, walkVars, managerVars, threadVars, WalkOnly
<1>3. ASSUME walk_complete /\ WalkOnly PROVE WakeLink'
  BY <1>3 DEF walk_complete, event_set_complete, WakeLink, PcLink, WalkLink, OwnLink, AnswerLink, ActsFor,
     Alone, PointersOK, Waits, eventVars, walkVars, managerVars, threadVars, WalkOnly
<1>4. ASSUME NEW t \in Requesters, NEW r \in Requests, osif_request_alloc(t, r) PROVE WakeLink'
  BY <1>4 DEF osif_request_alloc, qdf_event_create, WakeLink, PcLink, WalkLink, OwnLink, AnswerLink,
     ActsFor, Alone, PointersOK, Waits, eventVars, walkVars, managerVars, threadVars
<1>5. ASSUME NEW t \in Requesters, alloc_link(t) PROVE WakeLink'
  BY <1>5 DEF alloc_link, WakeLink, PcLink, WalkLink, OwnLink, AnswerLink, ActsFor, Alone, PointersOK,
     Waits, eventVars, walkVars, managerVars, threadVars
<1>6. ASSUME NEW t \in Requesters, wait_wake(t) PROVE WakeLink'
  BY <1>6 DEF wait_wake, wait_completed, WakeLink, PcLink, WalkLink, OwnLink, AnswerLink, ActsFor, Alone,
     PointersOK, Waits, eventVars, walkVars, managerVars, threadVars
<1>7. ASSUME NEW t \in Responders, NEW r \in Requests, get_found(t, r)
      PROVE WakeLink'
  BY <1>7 DEF get_found, osif_request_find, WakeLink, PcLink, WalkLink, OwnLink, AnswerLink,
     ActsFor, Alone, PointersOK, Waits, eventVars, walkVars, managerVars, threadVars
<1>8. ASSUME NEW t \in Responders, complete_done(t) PROVE WakeLink'
  BY <1>8 DEF complete_done, event_set_done, WakeLink, PcLink, WalkLink, OwnLink, AnswerLink, ActsFor,
     Alone, PointersOK, Waits, eventVars, walkVars, managerVars, threadVars
<1>9. ASSUME NEW t \in Responders, complete(t) PROVE WakeLink'
  <2>1. completion' = [completion EXCEPT ![request[t]] = completion[request[t]] + 1] /\ request[t] \in Requests
    BY <1>9 DEF complete, event_set_complete, PointersOK
  <2>2. \A r \in Requests : completion[r] > 0 => completion'[r] > 0
    BY <2>1, Kinds DEF Requests
  <2>3. completion'[request[t]] > 0
    BY <2>1, Kinds DEF Requests
  <2> SUFFICES ASSUME NEW u \in Threads, pc'[u] \in {"linked", "sent", "wait"}, done'[request'[u]]
               PROVE  \/ completion'[request'[u]] > 0
                      \/ \E v \in Threads : request'[v] = request'[u] /\ pc'[v] = "setting"
                      \/ walk' = "complete" /\ request'[node'] = request'[u]
    BY DEF WakeLink
  <2>4. pc[u] = pc'[u] /\ request' = request /\ done' = done /\ walk' = walk /\ node' = node /\ request[u] \in Requests
    BY <1>9 DEF complete, event_set_complete, threadVars, walkVars, PointersOK
  <2>5. CASE completion[request[u]] > 0
    BY <2>2, <2>4, <2>5
  <2>6. CASE \E v \in Threads : request[v] = request[u] /\ pc[v] = "setting"
    <3>1. PICK v \in Threads : request[v] = request[u] /\ pc[v] = "setting"
      BY <2>6
    <3>2. v # t => pc'[v] = "setting"
      BY <1>9, <3>1 DEF complete
    <3>3. QED
      BY <2>3, <2>4, <3>1, <3>2
  <2>7. QED
    BY <2>4, <2>5, <2>6 DEF WakeLink
<1>10. ASSUME NEW t \in Threads, osif_request_put(t) PROVE WakeLink'
  BY <1>10 DEF osif_request_put, WakeLink, PcLink, WalkLink, OwnLink, AnswerLink, ActsFor, Alone,
     PointersOK, Waits, eventVars, walkVars, managerVars, threadVars
<1>11. ASSUME NEW t \in Threads, osif_request_put_last(t) PROVE WakeLink'
  BY <1>11 DEF osif_request_put_last, WakeLink, PcLink, WalkLink, OwnLink, AnswerLink, ActsFor, Alone,
     PointersOK, Waits, eventVars, walkVars, managerVars, threadVars
<1>12. ASSUME NEW t \in Threads, osif_request_destroy(t) PROVE WakeLink'
  BY <1>12 DEF osif_request_destroy, qdf_event_create, WakeLink, PcLink, WalkLink, OwnLink, AnswerLink,
     ActsFor, Alone, PointersOK, Waits, eventVars, walkVars, managerVars, threadVars
<1>13. ASSUME \/ osif_request_manager_init \/ osif_request_manager_deinit \/ (walk_begin /\ WalkOnly)
              \/ (walk_mark /\ WalkOnly) \/ (walk_end /\ WalkOnly) \/ UNCHANGED vars
       PROVE WakeLink'
  BY <1>13, <1>1 DEF osif_request_manager_init, osif_request_manager_deinit, walk_begin, wait_event_list,
     walk_mark, walk_end, vars, eventVars, walkVars, managerVars, threadVars, WalkOnly
<1>14. ASSUME NEW t \in Threads, (walk_next(t) /\ WalkOnly) PROVE WakeLink'
  BY <1>14, <1>1 DEF walk_next, vars, eventVars, walkVars, managerVars, threadVars, WalkOnly
<1>15. ASSUME NEW t \in Requesters,
              \/ send(t) \/ send_refused(t) \/ wait_enter(t) \/ wait_enter_nomem(t)
              \/ wait_timeout(t) \/ wait_result(t) \/ wait_leave(t)
       PROVE WakeLink'
  BY <1>15, <1>1 DEF send, send_refused, wait_enter, wait_insert, wait_event_lock_free, wait_enter_nomem,
     wait_timeout, wait_timed_out, wait_result, wait_leave, wait_remove, vars, eventVars, walkVars,
     managerVars, threadVars, WalkOnly
<1>16. ASSUME NEW t \in Responders, get_obsolete(t) \/ \E c \in Cookies : osif_request_get(t, c)
       PROVE  WakeLink'
  BY <1>16, <1>1 DEF get_obsolete, osif_request_get, vars, eventVars, walkVars, managerVars, threadVars, WalkOnly
<1>17. ASSUME NEW t \in Responders, respond(t) \/ respond_unusable(t) PROVE WakeLink'
  BY <1>17, <1>1 DEF respond, respond_unusable, vars, eventVars, walkVars, managerVars, threadVars, WalkOnly
<1>18. QED
  BY <1>2, <1>3, <1>4, <1>5, <1>6, <1>7, <1>8, <1>9, <1>10, <1>11, <1>12, <1>13, <1>14, <1>15, <1>16,
     <1>17, NextSteps DEF AnyStep

\* Every step keeps the invariant.
LEMMA Inductive == IInv /\ [Next]_vars => IInv'
<1> SUFFICES ASSUME IInv, [Next]_vars PROVE IInv'
  OBVIOUS
<1>1. PointersOK
  BY Pointers
<1>2. TypeOK'
  BY <1>1, EventTypeOKNext, ManagerTypeOKNext, ThreadTypeOKNext DEF IInv, TypeOK
<1>3. PcLink' /\ WalkLink' /\ WakeLink'
  BY <1>1, PcLinkNext, WalkLinkNext, WakeLinkNext DEF IInv
<1>4. OwnLink' /\ CookieLink' /\ NoStrayAnswer'
  BY <1>1, OwnLinkNext, CookieLinkNext, NoStrayAnswerNext DEF IInv
<1>5. CountLink' /\ AnswerLink'
  BY <1>1, CountLinkNext, AnswerLinkNext DEF IInv
<1>6. QED
  BY <1>2, <1>3, <1>4, <1>5 DEF IInv

\* It holds before the first request.
LEMMA Initial == Init => IInv
<1> SUFFICES ASSUME Init PROVE IInv
  OBVIOUS
<1> USE Kinds DEF Init, EventInit
<1>1. TypeOK
  BY DEF TypeOK, EventTypeOK, ManagerTypeOK, ThreadTypeOK, Requests
<1>2. PcLink /\ WalkLink /\ WakeLink
  BY DEF PcLink, WalkLink, WakeLink, Waits
<1>3. OwnLink /\ CookieLink
  BY DEF OwnLink, CookieLink, ActsFor, Alone
<1>4. NoStrayAnswer
  BY DEF NoStrayAnswer
<1>5. CountLink /\ AnswerLink
  BY DEF CountLink, AnswerLink, Alone
<1>6. QED
  BY <1>1, <1>2, <1>3, <1>4, <1>5 DEF IInv

\* The invariant says more than each of the properties.
LEMMA Consequences == IInv => NoUseAfterFree /\ RefExact /\ RightAnswer /\ NoLostCompletion
<1> SUFFICES ASSUME IInv PROVE NoUseAfterFree /\ RefExact /\ RightAnswer /\ NoLostCompletion
  OBVIOUS
<1>1. PointersOK
  BY Pointers
<1>2. NoUseAfterFree
  <2>1. \A t \in wait_event_list : Waits(t) /\ pevent[t] = request[t] /\ pc[t] # "idle"
    BY <1>1 DEF IInv, PcLink, PointersOK, Waits, wait_event_list
  <2>2. ASSUME node # NULL PROVE node \in wait_event_list
    <3>1. node \in Threads /\ Waits(node) /\ pevent[node] = request[node] /\ request[node] \in Requests
      BY <1>1, <2>2 DEF IInv, WalkLink, PointersOK, Waits
    <3>2. QED
      BY <3>1, Kinds DEF wait_event_list
  <2>3. QED
    BY <2>1, <2>2 DEF IInv, OwnLink, NoUseAfterFree, wait_event_list
<1>3. RefExact
  <2> SUFFICES ASSUME NEW r \in live
               PROVE reference_count[r] = Cardinality(Referrers(r)) /\ \E t \in Threads : request[t] = r
    BY DEF RefExact
  <2>1. CASE r \in requests
    BY <2>1 DEF IInv, CountLink, Referrers
  <2>2. CASE r \notin requests
    <3>1. PICK t \in Threads : Alone(t) /\ request[t] = r
      BY <2>2 DEF IInv, OwnLink
    <3>2. \A u \in Threads : request[u] = r => u = t
      BY <3>1 DEF IInv, OwnLink
    <3>3. CASE pc[t] = "alloc"
      <4>1. Referrers(r) = {t}
        BY <3>1, <3>2, <3>3 DEF Referrers
      <4>2. reference_count[r] = 1
        BY <3>1, <3>3 DEF IInv, CountLink
      <4>3. QED
        BY <3>1, <4>1, <4>2, ThreadSets
    <3>4. CASE pc[t] = "free"
      <4>1. Referrers(r) = {}
        BY <3>2, <3>4 DEF Referrers
      <4>2. reference_count[r] = 0
        BY <3>1, <3>4 DEF IInv, CountLink
      <4>3. QED
        BY <3>1, <4>1, <4>2, ThreadSets
    <3>5. QED
      BY <3>1, <3>3, <3>4 DEF Alone
  <2>3. QED
    BY <2>1, <2>2
<1>4. RightAnswer
  BY Kinds DEF IInv, AnswerLink, RightAnswer
<1>5. NoLostCompletion
  BY <1>1 DEF IInv, WakeLink, NoLostCompletion, PointersOK, WalkLink
<1>6. QED
  BY <1>2, <1>3, <1>4, <1>5

\* In every behaviour of the manager the invariant holds.
THEOREM Invariance == Spec => []IInv
<1>1. Init => IInv
  BY Initial
<1>2. IInv /\ [Next]_vars => IInv'
  BY Inductive
<1>3. QED
  BY <1>1, <1>2, PTL DEF Spec

\* No reference count and no completion is ever taken below zero.
THEOREM TypeCorrect == Spec => []TypeOK
<1>1. IInv => TypeOK
  BY DEF IInv
<1>2. QED
  BY <1>1, Invariance, PTL

\* Nobody touches a request that is freed, nor one that is another by now:
\* not the answers, not the requester, and not the walk of firmware down.
THEOREM Lifetime == Spec => []NoUseAfterFree
<1>1. IInv => NoUseAfterFree
  BY Consequences
<1>2. QED
  BY <1>1, Invariance, PTL

\* The count of a request is the number of threads that refer to it, and
\* somebody will free it.
THEOREM References == Spec => []RefExact
<1>1. IInv => RefExact
  BY Consequences
<1>2. QED
  BY <1>1, Invariance, PTL

\* A wait that succeeds has its own answer.
THEOREM Answers == Spec => []RightAnswer
<1>1. IInv => RightAnswer
  BY Consequences
<1>2. QED
  BY <1>1, Invariance, PTL

\* A late answer is not taken for the answer to a later request.
THEOREM FreshCookies == Spec => []NoStrayAnswer
<1>1. IInv => NoStrayAnswer
  BY DEF IInv
<1>2. QED
  BY <1>1, Invariance, PTL

\* An event that is done has its completion or is about to get it.
THEOREM Completions == Spec => []NoLostCompletion
<1>1. IInv => NoLostCompletion
  BY Consequences
<1>2. QED
  BY <1>1, Invariance, PTL
=============================================================================
