--------------------------- MODULE InferenceQueue ---------------------------
(***************************************************************************)
(* The portal's single heavy-inference slot and the persistent FIFO in     *)
(* front of it: the inference_lock and inference_queue tables of           *)
(* portal.py and every function that writes them.                          *)
(*                                                                         *)
(* Each table function runs in one BEGIN IMMEDIATE transaction and reads   *)
(* the clock just before it, so a call is one action.  Times are kept as   *)
(* seconds left: expires_at <= now is "0 left".  A request draws at most   *)
(* one token in its life, so a token is named by the request or job that   *)
(* drew it.  The shipped unit runs one uvicorn worker, whose event loop    *)
(* makes the clock read and the insert one step: the order (created_at,    *)
(* id) of the rows is the order of their ids.                              *)
(***************************************************************************)
EXTENDS Naturals

CONSTANTS
  Requests,    \* HTTP requests that queue for the slot (await_inference_turn)
  Jobs,        \* maintenance calls that take it directly (acquire_inference_slot)
  NoOne,       \* no token in the slot
  Owner,       \* the account, or guest network, of each request
  Lease,       \* lease_seconds of each request and job
  WaiterLease, \* INFERENCE_QUEUE_WAITER_LEASE_SECONDS
  Beating,     \* the requests whose handler renews the lease while it works
  Selecting,   \* the engine selections, that release the slot and leave the row
  Punctual,    \* the requests and jobs whose handler polls, renews and ends in time
  Mortal,      \* those whose handler may be cancelled or die with its worker
  Quitters,    \* the requests whose client may leave while they wait
  Cancelling   \* the owners that may press "cancel"

Holders == Requests \cup Jobs
Owners  == {Owner[r] : r \in Requests}

ASSUME HoldersAssumption == NoOne \notin Holders /\ Requests \cap Jobs = {}
ASSUME LeaseAssumption ==
  /\ Lease \in [Holders -> Nat \ {0}]
  /\ WaiterLease \in Nat \ {0}
ASSUME RolesAssumption ==
  /\ Beating \subseteq Requests
  /\ Selecting \subseteq Requests
  /\ Punctual \subseteq Holders

VARIABLES
  lock,        \* row slot=1 of inference_lock: token and seconds left
  row,         \* the inference_queue row of each request: its state, id, seconds
               \* left to its waiter, and whether inference_token is set
  lastId,      \* its AUTOINCREMENT counter
  pc           \* where the handler of each request or job is

vars == <<lock, row, lastId, pc>>

Free  == [token |-> NoOne, left |-> 0]
NoRow == [state |-> "none", id |-> 0, left |-> 0, drawn |-> FALSE]

RowStates == {"none", "waiting", "active", "finished", "cancelled"}
PcStates  == {"idle", "queued", "late", "working", "lost", "refused", "done", "dead"}

TypeOK ==
  /\ lock \in [token : Holders \cup {NoOne}, left : Nat]
  /\ row \in [Requests -> [state : RowStates, id : Nat, left : Nat, drawn : BOOLEAN]]
  /\ lastId \in Nat
  /\ pc \in [Holders -> PcStates]

Init ==
  /\ lock = Free
  /\ row = [r \in Requests |-> NoRow]
  /\ lastId = 0
  /\ pc = [p \in Holders |-> "idle"]

-----------------------------------------------------------------------------
(* The sweeps the transactions begin with.                                 *)

(* Definitions named Bug_... are mutated forms of the definition they come *)
(* before; no action uses them.  PROJECT.json says which property finds    *)
(* each one.                                                               *)

Bug_NeverExpires == lock
Bug_ExpiresEarly == IF lock.left <= 1 THEN Free ELSE lock

(* _clear_expired_inference_lock                                           *)
UnexpiredLock == IF lock.left = 0 THEN Free ELSE lock

(* A closed row keeps its id; its waiter lease means nothing any more.     *)
Closed(entry, state) == [entry EXCEPT !.state = state, !.left = 0]

(* _clear_orphaned_inference_queue: an active row whose token is not in    *)
(* the slot belonged to a worker that lost its lease.                      *)
OrphansCancelled(rows, token) ==
  [r \in Requests |-> IF rows[r].state = "active" /\ token # r
                      THEN Closed(rows[r], "cancelled") ELSE rows[r]]

Bug_WaitersExpiredEarly(rows, spared) ==
  [r \in Requests |-> IF rows[r].state = "waiting" /\ rows[r].left <= 1 /\ r \notin spared
                      THEN Closed(rows[r], "cancelled") ELSE rows[r]]

(* Waiting rows that nobody has polled for a waiter lease are cancelled,   *)
(* except those of the requests in spared.                                 *)
WaitersExpired(rows, spared) ==
  [r \in Requests |-> IF rows[r].state = "waiting" /\ rows[r].left = 0 /\ r \notin spared
                      THEN Closed(rows[r], "cancelled") ELSE rows[r]]

Outstanding(rows, r) == rows[r].state \in {"waiting", "active"}

(* The first waiting row in FIFO order.                                    *)
IsHead(rows, r) ==
  /\ rows[r].state = "waiting"
  /\ \A q \in Requests : rows[q].state = "waiting" => rows[r].id <= rows[q].id

Goes(p, from, to) == pc[p] = from /\ pc' = [pc EXCEPT ![p] = to]

-----------------------------------------------------------------------------
(* enqueue_inference.  The unique index on the owners of outstanding rows  *)
(* refuses a second one; the refusal rolls the sweeps back.                *)
SweptForEnqueue == OrphansCancelled(WaitersExpired(row, {}), UnexpiredLock.token)

OwnerBusy(r) == \E q \in Requests : Owner[q] = Owner[r] /\ Outstanding(SweptForEnqueue, q)

Enqueue(r) ==
  /\ Goes(r, "idle", "queued")
  /\ ~OwnerBusy(r)
  /\ lock' = UnexpiredLock
  /\ lastId' = lastId + 1
  /\ row' = [SweptForEnqueue EXCEPT
               ![r] = [NoRow EXCEPT !.state = "waiting", !.id = lastId + 1,
                                    !.left = WaiterLease]]

EnqueueRefused(r) ==
  /\ Goes(r, "idle", "refused")
  /\ OwnerBusy(r)
  /\ UNCHANGED <<lock, row, lastId>>

Bug_NoOrphanSweepOnPoll(r) == [WaitersExpired(row, {r}) EXCEPT ![r].left = WaiterLease]

(* One turn of the loop of await_inference_turn: the row is refreshed, the *)
(* tables are swept, and the head of a free slot is admitted with a fresh  *)
(* token.  Its branch for a row already active is never taken: the turn    *)
(* that activates the row returns the token.                               *)
SweptForPoll(r) ==
  LET refreshed == [WaitersExpired(row, {r}) EXCEPT ![r].left = WaiterLease]
  IN  OrphansCancelled(refreshed, UnexpiredLock.token)

Bug_NotOnlyTheHead(r) == UnexpiredLock = Free

Admissible(r) == UnexpiredLock = Free /\ IsHead(SweptForPoll(r), r)

Admit(r) ==
  /\ row[r].state = "waiting"
  /\ Goes(r, "queued", "working")
  /\ Admissible(r)
  /\ lock' = [token |-> r, left |-> Lease[r]]
  /\ row' = [SweptForPoll(r) EXCEPT ![r] = [@ EXCEPT !.state = "active", !.left = 0,
                                                          !.drawn = TRUE]]
  /\ UNCHANGED lastId

KeepWaiting(r) ==
  /\ row[r].state = "waiting"
  /\ pc[r] = "queued"
  /\ ~Admissible(r)
  /\ lock' = UnexpiredLock
  /\ row' = SweptForPoll(r)
  /\ UNCHANGED <<lastId, pc>>

(* The row was cancelled meanwhile: 409, and the turn's sweeps roll back.  *)
RemovedFromQueue(r) ==
  /\ row[r].state = "cancelled"
  /\ Goes(r, "queued", "done")
  /\ UNCHANGED <<lock, row, lastId>>

-----------------------------------------------------------------------------
Bug_ReasonWrittenAsState(r, state) ==
  IF Outstanding(row, r)
  THEN /\ lock' = IF row[r].drawn /\ lock.token = r THEN Free ELSE lock
       /\ row' = [row EXCEPT ![r] = Closed(@, "complete")]
  ELSE UNCHANGED <<lock, row>>

(* finish_inference_queue: a closed row is left alone; otherwise the slot  *)
(* is released if the row's token is the one in it, and the row is closed. *)
FinishQueue(r, state) ==
  IF Outstanding(row, r)
  THEN /\ lock' = IF row[r].drawn /\ lock.token = r THEN Free ELSE lock
       /\ row' = [row EXCEPT ![r] = Closed(@, state)]
  ELSE UNCHANGED <<lock, row>>

(* The wait ends before a turn, because the client disconnected.           *)
Abandon(r) ==
  /\ r \in Quitters
  /\ Goes(r, "queued", "done")
  /\ FinishQueue(r, "cancelled")
  /\ UNCHANGED lastId

(* The wait ends at its deadline with a 504.  Every request has it, 900 s  *)
(* after it entered the queue, whatever it waits behind; several leases    *)
(* are longer.  When it comes is left open: at any turn, or never.         *)
TimesOut(r) ==
  /\ Goes(r, "queued", "late")
  /\ FinishQueue(r, "cancelled")
  /\ UNCHANGED lastId

(* The finally block of a chat, vision, OCR, autorouting or model-load     *)
(* handler, or the end of a graphics job (which cancels the row if it      *)
(* failed).                                                                *)
Finish(r) ==
  /\ r \notin Selecting
  /\ \/ Goes(r, "working", "done")
     \/ Goes(r, "lost", "done")
  /\ \E state \in {"finished", "cancelled"} : FinishQueue(r, state)
  /\ UNCHANGED lastId

Bug_ReleaseAnyToken(p) ==
  /\ p \in Selecting \cup Jobs
  /\ Goes(p, "working", "done")
  /\ lock' = Free
  /\ UNCHANGED <<row, lastId>>

(* release_inference_slot in the finally block of an engine selection or   *)
(* of a direct maintenance call: the slot is freed if it still holds this  *)
(* token; no row is closed.                                                *)
Release(p) ==
  /\ p \in Selecting \cup Jobs
  /\ Goes(p, "working", "done")
  /\ lock' = IF lock.token = p THEN Free ELSE lock
  /\ UNCHANGED <<row, lastId>>

(* acquire_inference_slot; the 409 rolls the sweeps back.                  *)
Acquire(j) ==
  /\ Goes(j, "idle", "working")
  /\ UnexpiredLock = Free
  /\ lock' = [token |-> j, left |-> Lease[j]]
  /\ row' = OrphansCancelled(row, NoOne)
  /\ UNCHANGED lastId

AcquireRefused(j) ==
  /\ Goes(j, "idle", "refused")
  /\ UnexpiredLock # Free
  /\ UNCHANGED <<lock, row, lastId>>

(* renew_inference_slot, called by inference_heartbeat, by the chat        *)
(* handler and by the client's polls of a graphics job.                    *)
SweptForRenew == OrphansCancelled(row, UnexpiredLock.token)

Renew(r) ==
  /\ r \in Beating
  /\ pc[r] = "working"
  /\ UnexpiredLock.token = r
  /\ lock' = [UnexpiredLock EXCEPT !.left = Lease[r]]
  /\ row' = SweptForRenew
  /\ UNCHANGED <<lastId, pc>>

(* The heartbeat updates no row and ends; the handler learns of it.        *)
LeaseLost(r) ==
  /\ r \in Beating
  /\ Goes(r, "working", "lost")
  /\ UnexpiredLock.token # r
  /\ lock' = UnexpiredLock
  /\ row' = SweptForRenew
  /\ UNCHANGED lastId

(* inference_status: any page that shows the slot sweeps both tables.      *)
ShowStatus ==
  /\ lock' = UnexpiredLock
  /\ row' = SweptForEnqueue
  /\ UNCHANGED <<lastId, pc>>

(* cancel_inference_queue: the waiting rows of an owner.                   *)
CancelQueue(o) ==
  /\ o \in Cancelling
  /\ row' = [r \in Requests |-> IF Owner[r] = o /\ row[r].state = "waiting"
                                THEN Closed(row[r], "cancelled") ELSE row[r]]
  /\ UNCHANGED <<lock, lastId, pc>>

-----------------------------------------------------------------------------
(* The handler's worker dies, or its task is cancelled where nothing       *)
(* catches it: the tables keep what they hold.                             *)
Die(p) ==
  /\ p \in Mortal
  /\ pc[p] \in {"queued", "working"}
  /\ pc' = [pc EXCEPT ![p] = "dead"]
  /\ UNCHANGED <<lock, row, lastId>>

(* One second passes.  The handlers of Punctual have by then renewed,      *)
(* polled or ended: a heartbeat comes every 10 s for leases of 300 s or    *)
(* more, a poll every 0.2 s for a waiter lease of 20 s.                    *)
Before(n) == IF n = 0 THEN 0 ELSE n - 1

Tick ==
  /\ \A p \in Punctual : pc[p] = "working" /\ lock.token = p => lock.left > 1
  /\ \A r \in Punctual \cap Requests :
       pc[r] = "queued" /\ row[r].state = "waiting" => row[r].left > 1
  /\ lock' = [lock EXCEPT !.left = Before(@)]
  /\ row' = [r \in Requests |-> [row[r] EXCEPT !.left = Before(@)]]
  /\ UNCHANGED <<lastId, pc>>

RequestStep(r) ==
  \/ Enqueue(r) \/ EnqueueRefused(r)
  \/ Admit(r) \/ KeepWaiting(r) \/ RemovedFromQueue(r) \/ Abandon(r) \/ TimesOut(r)
  \/ Renew(r) \/ LeaseLost(r) \/ Finish(r)

JobStep(j) == Acquire(j) \/ AcquireRefused(j)

Next ==
  \/ \E r \in Requests : RequestStep(r)
  \/ \E j \in Jobs : JobStep(j)
  \/ \E p \in Holders : Release(p) \/ Die(p)
  \/ \E o \in Owners : CancelQueue(o)
  \/ ShowStatus
  \/ Tick

Spec == Init /\ [][Next]_vars

(* Live handlers go on polling and end their work (every upstream call has *)
(* a timeout), and time passes.  Nothing makes a client enqueue, quit or   *)
(* look at the status page, and no deadline is counted on to end a wait.   *)
Fairness ==
  /\ \A r \in Requests : WF_vars(Admit(r) \/ KeepWaiting(r))
  /\ \A r \in Requests : WF_vars(Finish(r))
  /\ \A p \in Holders : WF_vars(Release(p))
  /\ WF_vars(Tick)

FairSpec == Spec /\ Fairness

-----------------------------------------------------------------------------
(* Safety.                                                                 *)

(* The token in the slot, when a queued request drew it, is the token of   *)
(* an active row, and no other row is active: however an activation was    *)
(* lost, the next one clears what it left behind.                          *)
SlotMatchesQueue ==
  /\ lock.token \in Requests => row[lock.token].state = "active"
  /\ \A r, q \in Requests : row[r].state = "active" /\ row[q].state = "active" => r = q

(* A handler at work that renews or ends in time still holds the slot, so  *)
(* no two such handlers ever work at once ("atomically reserve the single  *)
(* heavy-inference slot across all workers").                              *)
PunctualHolderKeepsSlot ==
  \A p \in Punctual : pc[p] = "working" => lock.token = p /\ lock.left > 0

(* A request that polls in time stays in the queue until it is admitted,   *)
(* unless its own owner cancels it: no other request's sweep drops it.     *)
LiveWaiterStaysQueued ==
  \A r \in Punctual \cap Requests :
    pc[r] = "queued" /\ Owner[r] \notin Cancelling => row[r].state = "waiting"

(* Admission is first come, first served: a request is admitted only when  *)
(* every request that entered the queue before it has left it, or has      *)
(* not been polled for a whole waiter lease.                               *)
FirstComeFirstServed ==
  [][\A r, q \in Requests :
       /\ row[r].state = "waiting" /\ row'[r].state = "active"
       /\ row[q].state = "waiting" /\ row[q].id < row[r].id
       => row[q].left = 0]_vars

(* An owner is refused only while a request of theirs is really pending: a *)
(* waiting row still within its waiter lease, or one whose token holds the *)
(* slot within its lease.  Rows left by a dead handler or by an engine     *)
(* selection do not lock their owner out.                                  *)
RefusedOnlyWhilePending ==
  [][\A r \in Requests :
       pc[r] = "idle" /\ pc'[r] = "refused" =>
         \E q \in Requests :
           /\ Owner[q] = Owner[r]
           /\ \/ row[q].state = "waiting" /\ row[q].left > 0
              \/ row[q].state = "active" /\ lock.token = q /\ lock.left > 0]_vars

(* The tables implement the abstract lease: while a lease runs only its    *)
(* bearer's end frees the slot, and a bearer that lost it never regains it.*)
Drawn == {r \in Requests : row[r].drawn}
           \cup {j \in Jobs : pc[j] \in {"working", "done", "dead"}}

SlotLease == INSTANCE LeaseLock WITH
  Bearers <- Holders,
  holder  <- lock.token,
  lapsed  <- lock.token # NoOne /\ lock.left = 0,
  drawn   <- Drawn,
  ended   <- {p \in Drawn : pc[p] = "done"}

ImplementsLease == SlotLease!LeaseSpec

(* Liveness: the queue moves on by itself.  A request whose client stays,  *)
(* whose owner does not cancel and whose handler lives is admitted, though *)
(* other holders die with the slot, other waiters stall or leave, and      *)
(* maintenance calls take the slot past the queue; unless its own deadline *)
(* comes first, and then it is refused.  That the deadline is longer than  *)
(* what it waits behind is not claimed.                                    *)
Loyal == {r \in (Punctual \cap Requests) \ (Mortal \cup Quitters) : Owner[r] \notin Cancelling}

OnlyTheDeadlineDenies == \A r \in Loyal : pc[r] = "queued" ~> pc[r] \in {"working", "late"}
=============================================================================
