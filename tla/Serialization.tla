---------------------------- MODULE Serialization ----------------------------
(***************************************************************************)
(* The serialization of non-scan commands on one radio (pdev):             *)
(* qca-wifi-host-cmn/umac/cmn_services/serialization.  A requester asks    *)
(* for a command; it is activated at once or waits in the pending list,    *)
(* and leaves by its completion, a timeout, a failed activation or a       *)
(* cancellation.  A vdev has at most one active command, and a blocking    *)
(* command excludes all others.                                            *)
(*                                                                         *)
(* A section under pdev_queue_lock is one action.  The lock is dropped     *)
(* around every callback, so a call is a stack of frames: activation can   *)
(* fail and dequeue, which moves a pending command, which is activated...  *)
(*                                                                         *)
(* An accepted request gets a fresh entry.  The code reuses the entries of *)
(* a FIFO pool as large as both lists together: the pool is never empty    *)
(* before a list is full, and an entry that was given back reads as zero   *)
(* until all the others have been used.  The vdev lists hold the entries   *)
(* of the pdev lists that are on the vdev, in the same order.              *)
(***************************************************************************)
EXTENDS Naturals, Sequences, FiniteSets, SequencesExt

CONSTANTS
  Cmd,            \* commands: a type, an id and a vdev
  Vdev,
  vdevOf,         \* cmd->vdev
  Families,       \* sets of commands that may be the blocking ones
  Urgent,         \* is_high_priority
  Ctx,            \* contexts that call the API
  Mc,             \* the one that handles timeouts: the scheduler thread
  MaxVdevPending, \* limit of a vdev's pending list
  CounterMod,     \* 2^16, the width of blocking_cmd_waiting
  MaxReq,         \* (bound) accepted requests
  MaxCancel,      \* (bound) calls that cancel or purge
  MaxWaiting,     \* (bound) the counter does not grow past this by refusals
  None

ASSUME SerializationAssumption ==
  /\ vdevOf \in [Cmd -> Vdev]
  /\ Families \subseteq SUBSET Cmd /\ Urgent \subseteq Cmd
  /\ Mc \in Ctx
  /\ {MaxVdevPending, MaxReq, MaxCancel, MaxWaiting} \subseteq Nat
  /\ CounterMod \in Nat /\ CounterMod > MaxReq + MaxWaiting
  /\ None \notin Cmd \cup Vdev \cup (1 .. MaxReq)

Entry == 1 .. MaxReq

VARIABLES
  blocking,      \* the commands with is_blocking
  cmd,           \* the command of an accepted request
  active, pending, \* the pdev's lists
  bits,          \* cmd_in_use
  bitmap,        \* vdev_active_cmd_bitmap
  blocking_cmd_active,
  blocking_cmd_waiting,
  queue_disable, \* vdevs whose queue is disabled
  cancels,       \* how many calls have cancelled or purged
  timer,         \* an entry's timer: off, armed, expired, or lost
  posted,        \* timeout messages on the scheduler's queue
  released,      \* how often RELEASE_MEM was called for an entry
  stack          \* the calls of a context, innermost first

listVars  == <<active, pending, bitmap, blocking_cmd_active, blocking_cmd_waiting>>
timerVars == <<timer, posted>>
adminVars == <<queue_disable, cancels>>
vars == <<blocking, cmd, listVars, bits, adminVars, timerVars, released, stack>>

-----------------------------------------------------------------------------
(***************************************************************************)
(* Lists, and what the code asks of them.                                  *)
(***************************************************************************)
Vd(n)  == vdevOf[cmd[n]]
Blk(n) == cmd[n] \in blocking
Used   == {n \in Entry : cmd[n] # None}

\* The entries of the vdev's list, out of the pdev's.
OfVdev(list, v) == {n \in ToSet(list) : Vd(n) = v}

wlan_serialization_find_cmd(list, c) == {n \in ToSet(list) : cmd[n] = c}

wlan_serialization_any_vdev_cmd_active == bitmap # {}

Insert(list, n, c) == IF c \in Urgent THEN <<n>> \o list ELSE Append(list, n)

Without(list, n) == RemoveAt(list, SelectInSeq(list, LAMBDA m : m = n))

Idle(t) == stack[t] = <<>>
Top(t)  == stack[t][1]
At(t, k) == stack[t] # <<>> /\ Top(t).k = k
Below(t) == Tail(stack[t])
Goto(t, frames) == stack' = [stack EXCEPT ![t] = frames]

\* Frames.
Start(n)      == [k |-> "start", n |-> n]
Called(n)     == [k |-> "called", n |-> n]
Tested(n, ok) == [k |-> "test", n |-> n, ok |-> ok]
Move(v, blk)  == [k |-> "move", v |-> v, blk |-> blk]
Scan          == [k |-> "scan"]
Release(n)    == [k |-> "release", n |-> n]
Timeout(n)    == [k |-> "timeout", n |-> n]
Cancel(set, one, act) == [k |-> "cancel", set |-> set, one |-> one, act |-> act]
Resume(set, one, act, n, prev, left) ==
  [k |-> "resume", set |-> set, one |-> one, act |-> act, n |-> n, prev |-> prev, left |-> left]
After         == [k |-> "after"]

-----------------------------------------------------------------------------
Init ==
  /\ blocking \in Families
  /\ cmd = [n \in Entry |-> None]
  /\ active = <<>> /\ pending = <<>>
  /\ bits = [n \in Entry |-> {}]
  /\ bitmap = {}
  /\ blocking_cmd_active = FALSE
  /\ blocking_cmd_waiting = 0
  /\ queue_disable = {} /\ cancels = 0
  /\ timer = [n \in Entry |-> "off"]
  /\ posted = {}
  /\ released = [n \in Entry |-> 0]
  /\ stack = [t \in Ctx |-> <<>>]

(***************************************************************************)
(* wlan_serialization_request: enqueue_cmd under the lock.                 *)
(***************************************************************************)
\* (mutant) A blocking command looks at its own vdev only.
is_active_non_scan_cmd_allowed_own_vdev(c) == vdevOf[c] \notin bitmap

is_active_non_scan_cmd_allowed(c) ==
  IF c \in blocking
  THEN ~wlan_serialization_any_vdev_cmd_active
  ELSE /\ ~blocking_cmd_active /\ blocking_cmd_waiting = 0
       /\ vdevOf[c] \notin bitmap

\* is_active_non_scan_cmd_allowed counts the blocking command it turns away.
CountWaiting(c) ==
  IF c \in blocking /\ wlan_serialization_any_vdev_cmd_active
  THEN (blocking_cmd_waiting + 1) % CounterMod
  ELSE blocking_cmd_waiting

is_active_cmd_allowed(c) ==
  is_active_non_scan_cmd_allowed(c) /\ OfVdev(pending, vdevOf[c]) = {}

\* A duplicate of the list it would go to, or a full list.
Refused(c, act) ==
  \/ wlan_serialization_find_cmd(IF act THEN active ELSE pending, c) # {}
  \/ ~act /\ Cardinality(OfVdev(pending, vdevOf[c])) = MaxVdevPending
  \/ act /\ OfVdev(active, vdevOf[c]) # {}

wlan_serialization_request(t, c) ==
  LET act == is_active_cmd_allowed(c)
      n   == Cardinality(Used) + 1
  IN  /\ Idle(t) /\ n \in Entry
      /\ vdevOf[c] \notin queue_disable
      /\ ~Refused(c, act)
      /\ cmd' = [cmd EXCEPT ![n] = c]
      /\ blocking_cmd_waiting' = CountWaiting(c)
      /\ IF act
         THEN /\ active' = Insert(active, n, c)
              /\ bitmap' = bitmap \cup {vdevOf[c]}
              /\ blocking_cmd_active' = (blocking_cmd_active \/ c \in blocking)
              /\ bits' = [bits EXCEPT ![n] = {"ACTIVATION"}]
              /\ Goto(t, <<Start(n)>>)
              /\ UNCHANGED pending
         ELSE /\ pending' = Insert(pending, n, c)
              /\ UNCHANGED <<active, bitmap, blocking_cmd_active, bits, stack>>
      /\ UNCHANGED <<blocking, adminVars, timerVars, released>>

\* The count has gone up before the request is refused.
request_refused(t, c) ==
  /\ Idle(t)
  /\ vdevOf[c] \notin queue_disable
  /\ Refused(c, is_active_cmd_allowed(c))
  /\ CountWaiting(c) <= MaxWaiting
  /\ blocking_cmd_waiting' = CountWaiting(c)
  /\ UNCHANGED <<blocking, cmd, active, pending, bitmap, blocking_cmd_active, bits,
                 adminVars, timerVars, released, stack>>

(***************************************************************************)
(* wlan_serialization_dequeue_cmd(c, active), called with below left on    *)
(* the stack: the command is not there, or is being activated and will be  *)
(* removed after that, or is removed.                                      *)
(***************************************************************************)
\* (mutant) A command is removed while it is being activated.
dequeue_cmd_at_once(t, c, below) ==
  /\ \/ /\ wlan_serialization_find_cmd(active, c) = {}
        /\ Goto(t, below)
        /\ UNCHANGED <<active, bits, bitmap, blocking_cmd_active, timer>>
     \/ \E n \in wlan_serialization_find_cmd(active, c) :
          /\ active' = Without(active, n)
          /\ bitmap' = bitmap \ {Vd(n)}
          /\ blocking_cmd_active' = (blocking_cmd_active /\ ~Blk(n))
          /\ bits' = [bits EXCEPT ![n] = {}]
          /\ timer' = [timer EXCEPT ![n] = "off"]
          /\ Goto(t, <<Move(Vd(n), Blk(n)), Release(n)>> \o below)
  /\ UNCHANGED <<blocking, cmd, pending, blocking_cmd_waiting, adminVars, posted>>

dequeue_cmd(t, c, below) ==
  /\ \/ /\ wlan_serialization_find_cmd(active, c) = {}
        /\ Goto(t, below)
        /\ UNCHANGED <<active, bits, bitmap, blocking_cmd_active, timer>>
     \/ \E n \in wlan_serialization_find_cmd(active, c) :
          /\ "ACTIVATION" \in bits[n]
          /\ bits' = [bits EXCEPT ![n] = @ \cup {"REMOVAL"}]
          /\ Goto(t, below)
          /\ UNCHANGED <<active, bitmap, blocking_cmd_active, timer>>
     \/ \E n \in wlan_serialization_find_cmd(active, c) :
          /\ "ACTIVATION" \notin bits[n]
          /\ active' = Without(active, n)
          /\ bitmap' = bitmap \ {Vd(n)}
          /\ blocking_cmd_active' = (blocking_cmd_active /\ ~Blk(n))
          /\ bits' = [bits EXCEPT ![n] = {}]
          /\ timer' = [timer EXCEPT ![n] = "off"]
          /\ Goto(t, <<Move(Vd(n), Blk(n)), Release(n)>> \o below)
  /\ UNCHANGED <<blocking, cmd, pending, blocking_cmd_waiting, adminVars, posted>>

\* The requester's completion.
wlan_serialization_remove_cmd(t, c) ==
  /\ Idle(t)
  /\ wlan_serialization_find_cmd(active, c) # {}
  /\ dequeue_cmd(t, c, <<>>)
  /\ UNCHANGED released

\* The last thing a dequeue does.
release_mem(t) ==
  /\ At(t, "release")
  /\ released' = [released EXCEPT ![Top(t).n] = @ + 1]
  /\ Goto(t, Below(t))
  /\ UNCHANGED <<blocking, cmd, listVars, bits, adminVars, timerVars>>

(***************************************************************************)
(* wlan_serialization_activate_cmd.                                        *)
(***************************************************************************)
find_and_start_timer(t) ==
  /\ At(t, "start")
  /\ timer' = [timer EXCEPT ![Top(t).n] = "armed"]
  /\ Goto(t, <<Called(Top(t).n)>> \o Below(t))
  /\ UNCHANGED <<blocking, cmd, listVars, bits, adminVars, posted, released>>

Activated(n) == bits' = [bits EXCEPT ![n] = @ \ {"ACTIVATION"}]

\* No reference to the vdev: the callback is skipped.
start_timer_failed(t) ==
  /\ At(t, "start")
  /\ Activated(Top(t).n)
  /\ Goto(t, <<Tested(Top(t).n, FALSE)>> \o Below(t))
  /\ UNCHANGED <<blocking, cmd, listVars, adminVars, timerVars, released>>

\* The callback returns, and the mark is taken off under the lock.
activate_cb(t) ==
  /\ At(t, "called")
  /\ Activated(Top(t).n)
  /\ \E ok \in BOOLEAN : Goto(t, <<Tested(Top(t).n, ok)>> \o Below(t))
  /\ UNCHANGED <<blocking, cmd, listVars, adminVars, timerVars, released>>

\* What came in meanwhile, read without the lock; an entry that has left reads as zero.
activate_done(t) ==
  LET n == Top(t).n
  IN  /\ At(t, "test")
      /\ IF n \in ToSet(active) /\ (~Top(t).ok \/ "REMOVAL" \in bits[n])
         THEN dequeue_cmd(t, cmd[n], Below(t))
         ELSE /\ Goto(t, IF n \in ToSet(active) /\ "CANCEL" \in bits[n]
                         THEN <<Cancel({cmd[n]}, TRUE, TRUE)>> \o Below(t)
                         ELSE Below(t))
              /\ UNCHANGED <<blocking, cmd, listVars, bits, adminVars, timerVars>>
      /\ UNCHANGED released

(***************************************************************************)
(* wlan_ser_move_non_scan_pending_to_active.  One locked stretch looks     *)
(* for the next command to activate; after its activation a walk of the    *)
(* pdev's list starts again from the front.                                *)
(***************************************************************************)
\* (mutant) The counter is a signed one, and goes down for every command.
MoveToActive_always_counts(t, n, rest) ==
  /\ pending' = Without(pending, n)
  /\ active' = Insert(active, n, cmd[n])
  /\ bitmap' = bitmap \cup {Vd(n)}
  /\ blocking_cmd_active' = (blocking_cmd_active \/ Blk(n))
  /\ blocking_cmd_waiting' = blocking_cmd_waiting - 1
  /\ Goto(t, <<Start(n)>> \o rest)

MoveToActive(t, n, rest) ==
  /\ pending' = Without(pending, n)
  /\ active' = Insert(active, n, cmd[n])
  /\ bitmap' = bitmap \cup {Vd(n)}
  /\ blocking_cmd_active' = (blocking_cmd_active \/ Blk(n))
  /\ blocking_cmd_waiting' =
       IF Blk(n) THEN (blocking_cmd_waiting + CounterMod - 1) % CounterMod
                 ELSE blocking_cmd_waiting
  /\ Goto(t, <<Start(n)>> \o rest)

\* Only the first pending command of the vdev, unless a walk is about to take it.
\* (An active command's MOVEMENT bit is not read any more and is left out.)
VdevLookup(t, v, rest) ==
  LET i == SelectInSeq(pending, LAMBDA n : Vd(n) = v)
  IN  IF i = 0 \/ v \in bitmap \/ "MOVEMENT" \in bits[pending[i]]
      THEN Goto(t, rest) /\ UNCHANGED <<listVars, bits>>
      ELSE /\ MoveToActive(t, pending[i], rest)
           /\ bits' = [bits EXCEPT ![pending[i]] = {"ACTIVATION"}]

\* The first that can go; a blocking one that cannot go ends the walk.  The
\* command after the one taken is marked, the ones passed over are not any more.
PdevLookup(t, rest) ==
  LET blocked(n) == Blk(n) /\ wlan_serialization_any_vdev_cmd_active
      i   == SelectInSeq(pending, LAMBDA n : blocked(n) \/ Vd(n) \notin bitmap)
      mark == IF i = 0 THEN {}
              ELSE IF blocked(pending[i]) THEN {j \in {i} : i > 1}
              ELSE {i + 1} \cap DOMAIN pending
      passed == IF i = 0 THEN DOMAIN pending ELSE 1 .. (i - 1)
      NewBits(n) ==
        IF \E j \in mark : pending[j] = n THEN bits[n] \cup {"MOVEMENT"}
        ELSE IF \E j \in passed : pending[j] = n THEN bits[n] \ {"MOVEMENT"}
        ELSE bits[n]
  IN  IF i = 0 \/ blocked(pending[i])
      THEN /\ bits' = [n \in Entry |-> NewBits(n)]
           /\ Goto(t, rest)
           /\ UNCHANGED listVars
      ELSE /\ bits' = [n \in Entry |-> IF n = pending[i] THEN {"ACTIVATION"} ELSE NewBits(n)]
           /\ MoveToActive(t, pending[i], <<Scan>> \o rest)

\* (mutant) The vdev of the command that ended is looked at, also if it blocked the others.
move_pending_to_active_own_vdev(t) ==
  /\ At(t, "move")
  /\ IF Top(t).v # None THEN VdevLookup(t, Top(t).v, Below(t)) ELSE PdevLookup(t, Below(t))
  /\ UNCHANGED <<blocking, cmd, adminVars, timerVars, released>>

move_pending_to_active(t) ==
  /\ At(t, "move")
  /\ IF ~Top(t).blk /\ blocking_cmd_waiting = 0 /\ Top(t).v # None
     THEN VdevLookup(t, Top(t).v, Below(t))
     ELSE PdevLookup(t, Below(t))
  /\ UNCHANGED <<blocking, cmd, adminVars, timerVars, released>>

move_next(t) ==
  /\ At(t, "scan")
  /\ IF blocking_cmd_active
     THEN Goto(t, Below(t)) /\ UNCHANGED <<listVars, bits>>
     ELSE PdevLookup(t, Below(t))
  /\ UNCHANGED <<blocking, cmd, adminVars, timerVars, released>>

(***************************************************************************)
(* wlan_ser_cancel_non_scan_cmd: of one list, the commands in set, all of  *)
(* them or the one.  The loop keeps its place (prev, the last command that *)
(* did not match) and what is left of its count over the callbacks, which  *)
(* run without the lock.  If prev has left the list meanwhile, the loop    *)
(* goes on in the list prev is in now, where nothing matches or what does  *)
(* cannot be removed, and it ends.                                         *)
(***************************************************************************)
CancelLoop(t, set, one, act, prev, left, rest) ==
  LET list  == IF act THEN active ELSE pending
      end   == IF act THEN <<After>> \o rest ELSE rest
      p     == SelectInSeq(list, LAMBDA n : n = prev)
      range == {j \in DOMAIN list : (prev # None => p > 0) /\ j > p /\ j <= p + left}
      hit(j) == cmd[list[j]] \in set
      early(j) == act /\ "ACTIVATION" \in bits[list[j]]
      found == {j \in range : hit(j) /\ ~early(j)}
      seen  == IF found = {} THEN range ELSE {j \in range : j < Min(found)}
      missed == {j \in seen : ~hit(j)}
      Mark(b, gone) == [n \in Entry |-> IF n = gone THEN {}
                          ELSE IF \E j \in seen : list[j] = n /\ hit(j)
                          THEN b[n] \cup {"CANCEL"} ELSE b[n]]
  IN  IF found = {} \/ (act /\ timer[list[Min(found)]] = "off")
      THEN /\ bits' = Mark(bits, None)
           /\ Goto(t, end)
           /\ UNCHANGED <<active, pending, timer>>
      ELSE LET n   == list[Min(found)]
               prv == IF missed = {} THEN prev ELSE list[Max(missed)]
           IN  /\ bits' = Mark(bits, n)
               /\ timer' = [timer EXCEPT ![n] = "off"]
               /\ IF act THEN active' = Without(active, n) /\ UNCHANGED pending
                         ELSE pending' = Without(pending, n) /\ UNCHANGED active
               /\ Goto(t, <<Resume(set, one, act, n, prv, left - (Min(found) - p))>> \o rest)

wlan_ser_cancel_non_scan_cmd(t) ==
  LET f == Top(t)
  IN  /\ At(t, "cancel")
      /\ CancelLoop(t, f.set, f.one, f.act, None,
                    Len(IF f.act THEN active ELSE pending), Below(t))
      /\ UNCHANGED <<blocking, cmd, bitmap, blocking_cmd_active, blocking_cmd_waiting,
                     adminVars, posted, released>>

\* (mutant) The vdev stays in the bitmap.
cancel_resume_keeps_bit(t) ==
  LET f == Top(t)
  IN  /\ At(t, "resume")
      /\ released' = [released EXCEPT ![f.n] = @ + 1]
      /\ blocking_cmd_active' = (blocking_cmd_active /\ ~(f.act /\ Blk(f.n)))
      /\ Goto(t, IF f.act THEN <<After>> \o Below(t) ELSE Below(t))
      /\ UNCHANGED <<blocking, cmd, active, pending, bits, timer, bitmap,
                     blocking_cmd_waiting, adminVars, posted>>

\* After the callbacks CANCEL and RELEASE_MEM, under the lock again.
cancel_resume(t) ==
  LET f == Top(t)
  IN  /\ At(t, "resume")
      /\ released' = [released EXCEPT ![f.n] = @ + 1]
      /\ IF f.act
         THEN /\ bitmap' = bitmap \ {Vd(f.n)}
              /\ blocking_cmd_active' = (blocking_cmd_active /\ ~Blk(f.n))
              /\ UNCHANGED blocking_cmd_waiting
         ELSE /\ blocking_cmd_waiting' =
                   IF Blk(f.n) THEN (blocking_cmd_waiting + CounterMod - 1) % CounterMod
                               ELSE blocking_cmd_waiting
              /\ UNCHANGED <<bitmap, blocking_cmd_active>>
      /\ IF f.one
         THEN /\ Goto(t, IF f.act THEN <<After>> \o Below(t) ELSE Below(t))
              /\ UNCHANGED <<active, pending, bits, timer>>
         ELSE CancelLoop(t, f.set, f.one, f.act, f.prev, f.left, Below(t))
      /\ UNCHANGED <<blocking, cmd, adminVars, posted>>

\* (mutant) Nothing is moved after a cancel.
cancel_after_no_move(t) ==
  /\ At(t, "after")
  /\ Goto(t, Below(t))
  /\ UNCHANGED <<blocking, cmd, listVars, bits, adminVars, timerVars, released>>

\* Tested without the lock: nothing is active any more.
cancel_after(t) ==
  /\ At(t, "after")
  /\ Goto(t, IF active = <<>> /\ ~wlan_serialization_any_vdev_cmd_active
             THEN <<Move(None, FALSE)>> \o Below(t)
             ELSE Below(t))
  /\ UNCHANGED <<blocking, cmd, listVars, bits, adminVars, timerVars, released>>

Of(v) == {c \in Cmd : vdevOf[c] = v}

CountCancel == cancels < MaxCancel /\ cancels' = cancels + 1

\* wlan_serialization_cancel_request of one pending command.
cancel_pending(t, c) ==
  /\ Idle(t)
  /\ CountCancel
  /\ wlan_serialization_find_cmd(pending, c) # {}
  /\ Goto(t, <<Cancel({c}, TRUE, FALSE)>>)
  /\ UNCHANGED <<blocking, cmd, listVars, bits, queue_disable, timerVars, released>>

\* wlan_serialization_cancel_request of the pending commands of a vdev.
cancel_pending_vdev(t, v) ==
  /\ Idle(t)
  /\ CountCancel
  /\ OfVdev(pending, v) # {}
  /\ Goto(t, <<Cancel(Of(v), FALSE, FALSE)>>)
  /\ UNCHANGED <<blocking, cmd, listVars, bits, queue_disable, timerVars, released>>

\* csr_prepare_vdev_delete: the queue is disabled and then purged.
prepare_vdev_delete(t, v) ==
  /\ Idle(t)
  /\ CountCancel
  /\ v \notin queue_disable
  /\ queue_disable' = queue_disable \cup {v}
  /\ Goto(t, <<Cancel(Of(v), FALSE, FALSE), Cancel(Of(v), FALSE, TRUE)>>)
  /\ UNCHANGED <<blocking, cmd, listVars, bits, timerVars, released>>

\* wlan_serialization_purge_all_pdev_cmd.
purge_all_pdev_cmd(t) ==
  /\ Idle(t)
  /\ CountCancel
  /\ \E n \in ToSet(active) \cup ToSet(pending) : "CANCEL" \notin bits[n]
  /\ Goto(t, <<Cancel(Cmd, FALSE, FALSE), Cancel(Cmd, FALSE, TRUE)>>)
  /\ UNCHANGED <<blocking, cmd, listVars, bits, queue_disable, timerVars, released>>

(***************************************************************************)
(* Timeouts.  The timer's handler copies the command into a message for    *)
(* the scheduler thread, or fails to (no reference, no memory, no room on  *)
(* the queue); the thread looks the copy's type, id and vdev up.           *)
(***************************************************************************)
timer_handler(n) ==
  /\ timer[n] = "armed"
  /\ timer' = [timer EXCEPT ![n] = "expired"]
  /\ posted' = posted \cup {n}
  /\ UNCHANGED <<blocking, cmd, listVars, bits, adminVars, released, stack>>

timer_handler_failed(n) ==
  /\ timer[n] = "armed"
  /\ timer' = [timer EXCEPT ![n] = "lost"]
  /\ UNCHANGED <<blocking, cmd, listVars, bits, adminVars, posted, released, stack>>

generic_timer_cb(n) ==
  /\ Idle(Mc)
  /\ n \in posted
  /\ posted' = posted \ {n}
  /\ Goto(Mc, IF wlan_serialization_find_cmd(active, cmd[n]) = {} THEN <<>> ELSE <<Timeout(n)>>)
  /\ UNCHANGED <<blocking, cmd, listVars, bits, adminVars, timer, released>>

\* (mutant) The timeout has the command released whether it was dequeued or not.
timeout_dequeue_and_release(t) ==
  /\ At(t, "timeout")
  /\ dequeue_cmd(t, cmd[Top(t).n], <<Release(Top(t).n)>> \o Below(t))
  /\ UNCHANGED released

\* After the callback with ACTIVE_CMD_TIMEOUT.
timeout_dequeue(t) ==
  /\ At(t, "timeout")
  /\ dequeue_cmd(t, cmd[Top(t).n], Below(t))
  /\ UNCHANGED released

-----------------------------------------------------------------------------
\* A context goes on with the call it is in.
Step(t) ==
  \/ find_and_start_timer(t) \/ start_timer_failed(t) \/ activate_cb(t) \/ activate_done(t)
  \/ move_pending_to_active(t) \/ move_next(t) \/ release_mem(t)
  \/ wlan_ser_cancel_non_scan_cmd(t) \/ cancel_resume(t) \/ cancel_after(t)
  \/ timeout_dequeue(t)

\* A context calls the API.
Call(t) ==
  \/ \E c \in Cmd : \/ wlan_serialization_request(t, c) \/ request_refused(t, c)
                     \/ wlan_serialization_remove_cmd(t, c) \/ cancel_pending(t, c)
  \/ \E v \in Vdev : cancel_pending_vdev(t, v) \/ prepare_vdev_delete(t, v)
  \/ purge_all_pdev_cmd(t)

Next ==
  \/ \E t \in Ctx : Step(t) \/ Call(t)
  \/ \E n \in Entry : timer_handler(n) \/ timer_handler_failed(n) \/ generic_timer_cb(n)

(***************************************************************************)
(* A call goes on, an armed timer goes off, and the scheduler thread       *)
(* comes to its messages.  Nobody has to call the API.                     *)
(***************************************************************************)
Fairness ==
  /\ \A t \in Ctx : WF_vars(Step(t))
  /\ \A n \in Entry : /\ WF_vars(timer_handler(n) \/ timer_handler_failed(n))
                       /\ WF_vars(generic_timer_cb(n))

Spec == Init /\ [][Next]_vars /\ Fairness

-----------------------------------------------------------------------------
(***************************************************************************)
(* Properties.                                                             *)
(***************************************************************************)
Frame ==
  [k : {"start", "called", "release", "timeout"}, n : Entry]
    \cup [k : {"test"}, n : Entry, ok : BOOLEAN]
    \cup [k : {"move"}, v : Vdev \cup {None}, blk : BOOLEAN]
    \cup [k : {"scan", "after"}]
    \cup [k : {"cancel"}, set : SUBSET Cmd, one : BOOLEAN, act : BOOLEAN]
    \cup [k : {"resume"}, set : SUBSET Cmd, one : BOOLEAN, act : BOOLEAN, n : Entry,
          prev : Entry \cup {None}, left : 0 .. MaxReq]

\* Where a frame is: in whose stack, and how deep.
Places     == UNION {{t} \X DOMAIN stack[t] : t \in Ctx}
FrameAt(p) == stack[p[1]][p[2]]

Frames(t) == ToSet(stack[t])
AllFrames == UNION {Frames(t) : t \in Ctx}

\* Types: the lists hold accepted entries, none of them twice.
TypeOK ==
  /\ blocking \in Families
  /\ cmd \in [Entry -> Cmd \cup {None}]
  /\ \A list \in {active, pending} :
       list \in Seq(Entry) /\ ToSet(list) \subseteq Used /\ IsInjective(list)
  /\ bits \in [Entry -> SUBSET {"ACTIVATION", "REMOVAL", "CANCEL", "MOVEMENT"}]
  /\ bitmap \subseteq Vdev /\ queue_disable \subseteq Vdev /\ cancels \in 0 .. MaxCancel
  /\ blocking_cmd_active \in BOOLEAN
  /\ blocking_cmd_waiting \in 0 .. CounterMod - 1
  /\ timer \in [Entry -> {"off", "armed", "expired", "lost"}]
  /\ posted \subseteq Used
  /\ released \in [Entry -> Nat]
  /\ stack \in [Ctx -> Seq(Frame)]

\* A vdev has at most one active command, and a blocking command is active
\* alone: "no other commands from any vdev should be active".
BlockingAlone ==
  \A m, n \in ToSet(active) : m # n => Vd(m) # Vd(n) /\ ~Blk(m) /\ ~Blk(n)

\* Whatever completion, timeout, failed activation, cancel and purge do at the
\* same time, an accepted command is in one list, or in the hands of the one
\* call that will release it, or has been released, once.
ReleasedOnce ==
  \A n \in Used :
    LET waits == {p \in Places : FrameAt(p).k \in {"release", "resume"} /\ FrameAt(p).n = n}
        in(list) == IF n \in ToSet(list) THEN 1 ELSE 0
    IN  in(active) + in(pending) + Cardinality(waits) + released[n] = 1

\* While a command is being activated nobody takes it out of the active list:
\* its requester's callback runs on an entry that is its own.
ActivationProtected ==
  \A f \in AllFrames :
    f.k \in {"start", "called"} => f.n \in ToSet(active) /\ "ACTIVATION" \in bits[f.n]

\* The bitmap and the blocking flag, on which all admission rests, say what is
\* in the active list, with the commands whose cancel callback still runs.
ActiveCovered ==
  LET leaving == {f \in AllFrames : f.k = "resume" /\ f.act}
      held    == ToSet(active) \cup {f.n : f \in leaving}
  IN  /\ bitmap = {Vd(n) : n \in held}
      /\ blocking_cmd_active = \E n \in held : Blk(n)

\* Where all commands block: when no call is under way, a command waits only
\* for an active one, whose end looks for it.
NoStranded ==
  blocking = Cmd /\ (\A t \in Ctx : Idle(t)) /\ pending # <<>> => active # <<>>

\* Every accepted command is released in the end, unless a timeout message
\* could not be posted: its timeout, or that of the one it waits for, sees to it.
EveryCommandReleased ==
  \A n \in Entry : n \in Used ~> released[n] = 1 \/ \E m \in Entry : timer[m] = "lost"
=============================================================================
