--------------------------- MODULE RequestManager ---------------------------
(***************************************************************************)
(* The os_if request manager (os_if/linux/wlan_osif_request_manager.c): a  *)
(* thread of the kernel turns an asynchronous call of the driver into a    *)
(* synchronous one.  It allocates a request, passes its cookie down, waits *)
(* on the request's event, and gives its reference up; the answer comes in *)
(* another thread, which must find the request by its cookie first.  An    *)
(* answer may come late, twice or never; the wait may time out; firmware   *)
(* down may complete the wait instead of an answer; and the manager may be *)
(* deinitialized in between.                                               *)
(*                                                                         *)
(* The sections under the manager's spinlock are single actions, and so is *)
(* every access to a request's event outside it (QdfEvent).  Memory that   *)
(* is freed is reused by the next allocation.                              *)
(***************************************************************************)
EXTENDS QdfEvent

CONSTANTS
  Requesters,  \* threads that make requests
  Responders,  \* threads that bring answers
  MaxCookie,   \* bound: cookies handed out
  MaxAnswers   \* bound: answers the lower layers give to one request

Requests == Events
Cookies  == 0 .. MaxCookie

ASSUME RequestAssumption ==
  /\ Requesters \cap Responders = {}
  /\ Threads = Requesters \cup Responders
  /\ IsFiniteSet(Threads)
  /\ NULL \notin Threads \cup Events
  /\ MaxCookie \in Nat /\ MaxAnswers \in Nat
  /\ NULL \notin Cookies

VARIABLES
  is_initialized,   \* the flag of the manager
  cookie,           \* the next cookie
  requests,         \* the list of the manager
  live,             \* memory that is allocated
  cookieOf,         \* request->cookie
  reference_count,  \* request->reference_count
  priv,             \* the request's private area: the cookie whose answer it has
  owed,             \* answers the lower layers may still give to a cookie
  looking,          \* the cookie whose request a thread in osif_request_get looks for
  pc,               \* where a thread is
  request,          \* a thread's pointer to a request
  context,          \* the cookie a thread acts for
  status            \* what qdf_wait_for_event_completion returns

managerVars == <<is_initialized, cookie, requests, live, cookieOf, reference_count>>
threadVars  == <<pc, request, context, status>>
vars == <<eventVars, walkVars, pevent, managerVars, priv, owed, looking, threadVars>>

Init ==
  /\ EventInit
  /\ is_initialized = FALSE
  /\ cookie = 0
  /\ requests = {}
  /\ live = {}
  /\ cookieOf = [r \in Requests |-> 0]
  /\ reference_count = [r \in Requests |-> 0]
  /\ priv = [r \in Requests |-> NULL]
  /\ owed = [c \in Cookies |-> 0]
  /\ looking = [t \in Threads |-> NULL]
  /\ pc = [t \in Threads |-> "idle"]
  /\ request = [t \in Threads |-> NULL]
  /\ context = [t \in Threads |-> 0]
  /\ status = [t \in Threads |-> "none"]

-----------------------------------------------------------------------------
(***************************************************************************)
(* osif_request_manager_init creates the list anew, so its callers owe it  *)
(* an empty one: hdd_wlan_startup and hdd_wlan_exit run in a psoc          *)
(* transition that has waited for the operations in flight (Dsc).          *)
(* Deinit only clears the flag, whoever is still at work.                  *)
(***************************************************************************)
osif_request_manager_init ==
  /\ ~is_initialized
  /\ requests = {}
  /\ is_initialized' = TRUE
  /\ UNCHANGED <<eventVars, walkVars, pevent, cookie, requests, live, cookieOf,
                 reference_count, priv, owed, looking, threadVars>>

osif_request_manager_deinit ==
  /\ is_initialized
  /\ is_initialized' = FALSE
  /\ UNCHANGED <<eventVars, walkVars, pevent, cookie, requests, live, cookieOf,
                 reference_count, priv, owed, looking, threadVars>>

-----------------------------------------------------------------------------
(***************************************************************************)
(* The thread that makes a request.                                        *)
(***************************************************************************)
\* osif_request_alloc up to the lock: zeroed memory, one reference, an event.
osif_request_alloc(t, r) ==
  /\ pc[t] = "idle"
  /\ is_initialized
  /\ r \notin live
  /\ live' = live \cup {r}
  /\ reference_count' = [reference_count EXCEPT ![r] = 1]
  /\ priv' = [priv EXCEPT ![r] = NULL]
  /\ qdf_event_create(r)
  /\ pc' = [pc EXCEPT ![t] = "alloc"]
  /\ request' = [request EXCEPT ![t] = r]
  /\ UNCHANGED <<walkVars, pevent, is_initialized, cookie, requests, cookieOf, owed, looking, context, status>>

\* (mutant) the cookie is not advanced.
alloc_link_same_cookie(t) ==
  /\ pc[t] = "alloc"
  /\ cookie < MaxCookie
  /\ cookieOf' = [cookieOf EXCEPT ![request[t]] = cookie]
  /\ requests' = requests \cup {request[t]}
  /\ context' = [context EXCEPT ![t] = cookie]
  /\ pc' = [pc EXCEPT ![t] = "linked"]
  /\ UNCHANGED <<eventVars, walkVars, pevent, is_initialized, cookie, live, reference_count, priv, owed, looking,
                 request, status>>

\* osif_request_alloc under the lock.
alloc_link(t) ==
  /\ pc[t] = "alloc"
  /\ cookie < MaxCookie
  /\ cookieOf' = [cookieOf EXCEPT ![request[t]] = cookie]
  /\ cookie' = cookie + 1
  /\ requests' = requests \cup {request[t]}
  /\ context' = [context EXCEPT ![t] = cookie]
  /\ pc' = [pc EXCEPT ![t] = "linked"]
  /\ UNCHANGED <<eventVars, walkVars, pevent, is_initialized, live, reference_count, priv, owed, looking,
                 request, status>>

\* The cookie goes down to the lower layers ...
send(t) ==
  /\ pc[t] = "linked"
  /\ owed' = [owed EXCEPT ![context[t]] = MaxAnswers]
  /\ pc' = [pc EXCEPT ![t] = "sent"]
  /\ UNCHANGED <<eventVars, walkVars, pevent, managerVars, priv, looking, request, context, status>>

\* ... which may refuse the call.
send_refused(t) ==
  /\ pc[t] = "linked"
  /\ pc' = [pc EXCEPT ![t] = "back"]
  /\ UNCHANGED <<eventVars, walkVars, pevent, managerVars, priv, owed, looking, request, context, status>>

\* osif_request_wait_for_response; without memory for a node it returns.
wait_enter(t) ==
  /\ pc[t] = "sent"
  /\ wait_insert(t, request[t])
  /\ pc' = [pc EXCEPT ![t] = "wait"]
  /\ UNCHANGED <<managerVars, priv, owed, looking, request, context, status>>

wait_enter_nomem(t) ==
  /\ pc[t] = "sent"
  /\ pc' = [pc EXCEPT ![t] = "back"]
  /\ status' = [status EXCEPT ![t] = "E_NOMEM"]
  /\ UNCHANGED <<eventVars, walkVars, pevent, managerVars, priv, owed, looking, request, context>>

wait_wake(t) ==
  /\ pc[t] = "wait"
  /\ wait_completed(t)
  /\ pc' = [pc EXCEPT ![t] = "woken"]
  /\ UNCHANGED <<managerVars, priv, owed, looking, request, context, status>>

\* (mutant) a wait that has run out of time leaves its node on the list.
wait_timeout_keeps_node(t) ==
  /\ pc[t] = "wait"
  /\ wait_timed_out(t)
  /\ pc' = [pc EXCEPT ![t] = "back"]
  /\ status' = [status EXCEPT ![t] = "E_TIMEOUT"]
  /\ UNCHANGED <<managerVars, priv, owed, looking, request, context>>

wait_timeout(t) ==
  /\ pc[t] = "wait"
  /\ wait_timed_out(t)
  /\ pc' = [pc EXCEPT ![t] = "leave"]
  /\ status' = [status EXCEPT ![t] = "E_TIMEOUT"]
  /\ UNCHANGED <<managerVars, priv, owed, looking, request, context>>

\* (mutant) the waiter does not look at how it was woken.
wait_result_any(t) ==
  /\ pc[t] = "woken"
  /\ status' = [status EXCEPT ![t] = "SUCCESS"]
  /\ pc' = [pc EXCEPT ![t] = "leave"]
  /\ UNCHANGED <<eventVars, walkVars, pevent, managerVars, priv, owed, looking, request, context>>

\* A wait that was completed by force has failed.
wait_result(t) ==
  /\ pc[t] = "woken"
  /\ status' = [status EXCEPT ![t] = IF force_set[request[t]] THEN "E_FAULT" ELSE "SUCCESS"]
  /\ pc' = [pc EXCEPT ![t] = "leave"]
  /\ UNCHANGED <<eventVars, walkVars, pevent, managerVars, priv, owed, looking, request, context>>

wait_leave(t) ==
  /\ pc[t] = "leave"
  /\ wait_remove(t)
  /\ pc' = [pc EXCEPT ![t] = "back"]
  /\ UNCHANGED <<managerVars, priv, owed, looking, request, context, status>>

-----------------------------------------------------------------------------
(***************************************************************************)
(* The thread that brings an answer.                                       *)
(***************************************************************************)
\* osif_request_find under the lock; at most one request has the cookie.
osif_request_find(c) == {r \in requests : cookieOf[r] = c}

\* osif_request_get up to the lock: the manager is initialized, or the answer is
\* dropped.
osif_request_get(t, c) ==
  /\ pc[t] = "idle" /\ looking[t] = NULL
  /\ owed[c] > 0
  /\ owed' = [owed EXCEPT ![c] = owed[c] - 1]
  /\ looking' = IF is_initialized THEN [looking EXCEPT ![t] = c] ELSE looking
  /\ UNCHANGED <<eventVars, walkVars, pevent, managerVars, priv, threadVars>>

\* (mutant) the answer finds the request without keeping it.
get_found_weak(t, r) ==
  /\ pc[t] = "idle" /\ looking[t] # NULL
  /\ r \in osif_request_find(looking[t])
  /\ pc' = [pc EXCEPT ![t] = "got"]
  /\ request' = [request EXCEPT ![t] = r]
  /\ context' = [context EXCEPT ![t] = looking[t]]
  /\ looking' = [looking EXCEPT ![t] = NULL]
  /\ UNCHANGED <<eventVars, walkVars, pevent, managerVars, priv, owed, status>>

\* osif_request_get under the lock, whatever became of the manager meanwhile.
get_found(t, r) ==
  /\ pc[t] = "idle" /\ looking[t] # NULL
  /\ r \in osif_request_find(looking[t])
  /\ reference_count' = [reference_count EXCEPT ![r] = reference_count[r] + 1]
  /\ pc' = [pc EXCEPT ![t] = "got"]
  /\ request' = [request EXCEPT ![t] = r]
  /\ context' = [context EXCEPT ![t] = looking[t]]
  /\ looking' = [looking EXCEPT ![t] = NULL]
  /\ UNCHANGED <<eventVars, walkVars, pevent, is_initialized, cookie, requests, live, cookieOf,
                 priv, owed, status>>

\* An answer to a request that is gone is dropped.
get_obsolete(t) ==
  /\ pc[t] = "idle" /\ looking[t] # NULL
  /\ osif_request_find(looking[t]) = {}
  /\ looking' = [looking EXCEPT ![t] = NULL]
  /\ UNCHANGED <<eventVars, walkVars, pevent, managerVars, priv, owed, threadVars>>

\* The answer goes to the private area ...
respond(t) ==
  /\ pc[t] = "got"
  /\ priv' = [priv EXCEPT ![request[t]] = context[t]]
  /\ pc' = [pc EXCEPT ![t] = "written"]
  /\ UNCHANGED <<eventVars, walkVars, pevent, managerVars, owed, looking, request, context, status>>

\* ... unless the callback finds it unusable and leaves the request to time out.
respond_unusable(t) ==
  /\ pc[t] = "got"
  /\ pc' = [pc EXCEPT ![t] = "back"]
  /\ UNCHANGED <<eventVars, walkVars, pevent, managerVars, priv, owed, looking, request, context, status>>

\* osif_request_complete, in the two steps of qdf_event_set.
complete_done(t) ==
  /\ pc[t] = "written"
  /\ event_set_done(request[t])
  /\ pc' = [pc EXCEPT ![t] = "setting"]
  /\ UNCHANGED <<walkVars, pevent, managerVars, priv, owed, looking, request, context, status>>

complete(t) ==
  /\ pc[t] = "setting"
  /\ event_set_complete(request[t])
  /\ pc' = [pc EXCEPT ![t] = "back"]
  /\ UNCHANGED <<walkVars, pevent, managerVars, priv, owed, looking, request, context, status>>

-----------------------------------------------------------------------------
(***************************************************************************)
(* Both give their reference up; the last one frees the request, outside   *)
(* the lock.  What a thread's local variables and freed memory hold is of  *)
(* no account and set to fixed values.                                     *)
(***************************************************************************)
osif_request_put(t) ==
  /\ pc[t] = "back"
  /\ reference_count[request[t]] # 1
  /\ reference_count' = [reference_count EXCEPT ![request[t]] = reference_count[request[t]] - 1]
  /\ pc' = [pc EXCEPT ![t] = "idle"]
  /\ request' = [request EXCEPT ![t] = NULL]
  /\ context' = [context EXCEPT ![t] = 0]
  /\ status' = [status EXCEPT ![t] = "none"]
  /\ UNCHANGED <<eventVars, walkVars, pevent, is_initialized, cookie, requests, live, cookieOf, priv, owed, looking>>

osif_request_put_last(t) ==
  /\ pc[t] = "back"
  /\ reference_count[request[t]] = 1
  /\ reference_count' = [reference_count EXCEPT ![request[t]] = 0]
  /\ requests' = requests \ {request[t]}
  /\ pc' = [pc EXCEPT ![t] = "free"]
  /\ context' = [context EXCEPT ![t] = 0]
  /\ status' = [status EXCEPT ![t] = "none"]
  /\ UNCHANGED <<eventVars, walkVars, pevent, is_initialized, cookie, live, cookieOf, priv, owed, looking, request>>

osif_request_destroy(t) ==
  /\ pc[t] = "free"
  /\ qdf_event_create(request[t])
  /\ live' = live \ {request[t]}
  /\ cookieOf' = [cookieOf EXCEPT ![request[t]] = 0]
  /\ priv' = [priv EXCEPT ![request[t]] = NULL]
  /\ pc' = [pc EXCEPT ![t] = "idle"]
  /\ request' = [request EXCEPT ![t] = NULL]
  /\ UNCHANGED <<walkVars, pevent, is_initialized, cookie, requests, reference_count, owed, looking, context, status>>

-----------------------------------------------------------------------------
RequesterStep(t) ==
  \/ \E r \in Requests : osif_request_alloc(t, r)
  \/ alloc_link(t) \/ send(t) \/ send_refused(t)
  \/ wait_enter(t) \/ wait_enter_nomem(t) \/ wait_wake(t) \/ wait_timeout(t) \/ wait_result(t) \/ wait_leave(t)

ResponderStep(t) ==
  \/ (\E r \in Requests : get_found(t, r)) \/ get_obsolete(t)
  \/ respond(t) \/ respond_unusable(t) \/ complete_done(t) \/ complete(t)

PutStep(t) == osif_request_put(t) \/ osif_request_put_last(t) \/ osif_request_destroy(t)

ManagerStep == osif_request_manager_init \/ osif_request_manager_deinit

\* The walk leaves the requests and the threads alone.
WalkOnly == UNCHANGED <<managerVars, priv, owed, looking, threadVars>>

Next ==
  \/ ManagerStep
  \/ qdf_complete_wait_events /\ WalkOnly
  \/ \E t \in Requesters : RequesterStep(t)
  \/ \E t \in Responders : ResponderStep(t)
  \/ \E t \in Responders, c \in Cookies : osif_request_get(t, c)
  \/ \E t \in Threads : PutStep(t)

Spec == Init /\ [][Next]_vars

(***************************************************************************)
(* Threads run, and the walk goes on once it has begun.  No answer has to  *)
(* come, and a wait that is completed need not time out first.             *)
(***************************************************************************)
FairSpec ==
  /\ Spec
  /\ WF_vars(WalkStep /\ WalkOnly)
  /\ \A t \in Requesters : WF_vars(wait_wake(t))
  /\ \A t \in Responders : WF_vars(ResponderStep(t))

-----------------------------------------------------------------------------
(***************************************************************************)
(* Properties.                                                             *)
(***************************************************************************)
ManagerTypeOK ==
  /\ is_initialized \in BOOLEAN /\ cookie \in Cookies
  /\ requests \subseteq Requests /\ live \subseteq Requests
  /\ cookieOf \in [Requests -> Cookies] /\ reference_count \in [Requests -> Nat]
  /\ priv \in [Requests -> Cookies \cup {NULL}] /\ owed \in [Cookies -> Nat]
  /\ looking \in [Threads -> Cookies \cup {NULL}]

ThreadTypeOK ==
  /\ pc \in [Threads -> {"idle", "alloc", "linked", "sent", "wait", "woken", "leave", "got", "written",
                         "setting", "back", "free"}]
  /\ request \in [Threads -> Requests \cup {NULL}] /\ context \in [Threads -> Cookies]
  /\ status \in [Threads -> {"none", "SUCCESS", "E_FAULT", "E_TIMEOUT", "E_NOMEM"}]

\* Types: above all, no reference count and no completion is taken below zero.
TypeOK == EventTypeOK /\ ManagerTypeOK /\ ThreadTypeOK

\* A thread owns a reference from osif_request_alloc or _get to osif_request_put.
Referrers(r) == {t \in Threads : request[t] = r /\ pc[t] # "free"}

\* A thread works with a request by its cookie.
ActsFor(t) == pc[t] \notin {"idle", "alloc", "free"}

\* Nobody touches a request that is freed, or that is another one by now: not
\* a thread with a pointer, not osif_request_find on the list, and not
\* qdf_complete_wait_events, which knows nothing of the reference counts and
\* relies on the waiter to leave its list first.
NoUseAfterFree ==
  /\ requests \subseteq live
  /\ \A t \in Threads :
       /\ pc[t] # "idle" => request[t] \in live
       /\ ActsFor(t) => cookieOf[request[t]] = context[t]
  /\ \A t \in wait_event_list : pevent[t] \in live /\ pevent[t] = request[t]
  /\ node # NULL => node \in wait_event_list

\* The count is the number of the threads that refer to a request, and memory
\* is never without somebody who will give it back, whichever of the wait, the
\* answer and the timeout is last.
RefExact ==
  \A r \in live :
    /\ reference_count[r] = Cardinality(Referrers(r))
    /\ \E t \in Threads : request[t] = r

\* A wait that reports success has the answer to its own request in the private
\* area: not the previous answer of that memory, and not the wake-up of a
\* firmware that went down, however the two completions interleave.
RightAnswer ==
  \A t \in Requesters : status[t] = "SUCCESS" => priv[request[t]] = context[t]

\* A request starts with a cookie nobody else brings an answer for: an answer
\* that comes after its request timed out is dropped and not taken for the
\* answer to the next one ("Obsolete request").
NoStrayAnswer ==
  \A t \in Requesters : pc[t] = "linked" =>
    /\ owed[context[t]] = 0
    /\ \A u \in Threads \ {t} : looking[u] # context[t] /\ (ActsFor(u) => context[u] # context[t])

\* An event that says done has its completion, or the thread that brings it is
\* on its way: qdf_complete_wait_events skips such an event, and its waiter
\* has nothing else to wake it.
NoLostCompletion ==
  \A t \in Threads : pc[t] = "wait" /\ done[request[t]] =>
    \/ completion[request[t]] > 0
    \/ \E u \in Threads : request[u] = request[t] /\ pc[u] = "setting"
    \/ walk = "complete" /\ pevent[node] = request[t]

\* Firmware down: a thread whose node the walk has still to visit is woken
\* without its timeout (wlan_hdd_driver_ops.c: "fail early instead of timing
\* out"), though the walk skips it if an answer is on its way.
ForcedReturns ==
  \A t \in Requesters : (pc[t] = "wait" /\ t \in left) ~> (pc[t] # "wait")
=============================================================================
