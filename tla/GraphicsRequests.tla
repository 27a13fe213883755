-------------------------- MODULE GraphicsRequests --------------------------
(***************************************************************************)
(* The portal's graphics requests: the graphics_requests rows, the daily   *)
(* prompt counter they draw on and the inference slot they hold while the  *)
(* core draws.  Three parties settle a request, each in a transaction of   *)
(* its own: the handler that posted it, the client that polls the job, and *)
(* the background pass that reconciles what the other two left behind.     *)
(*                                                                         *)
(* Definitions named Bug_... are mutated forms of the definition they come *)
(* before; no action uses them.                                            *)
(*                                                                         *)
(* The slot is taken as InferenceQueue proves it (see LeaseLock): a holder *)
(* and the time left of its lease.  One metered account; an account        *)
(* without a limit writes no counter.  Time goes by in ticks; the shipped  *)
(* 600 s, 6 h and 6 h 10 min keep their order, and the margin between them *)
(* is what is checked.                                                     *)
(***************************************************************************)
EXTENDS Naturals, FiniteSets

CONSTANTS
  Requests,         \* the graphics requests
  NoOne, Others,    \* a free slot; any holder that is not a graphics request
  DailyLimit,       \* daily_prompt_limit
  Days,             \* the last day of interest, counted from 0
  PostTime,         \* ticks within which the core answers or the POST times out
  PassTime,         \* ticks a pass, with its waits for the core, may be late by
  PendingTimeout,   \* GRAPHICS_PENDING_TIMEOUT_SECONDS
  AcceptedTimeout,  \* GRAPHICS_ACCEPTED_TIMEOUT_SECONDS
  SlotLease         \* GRAPHICS_INFERENCE_LEASE_SECONDS

ASSUME RequestsAssumption ==
  /\ IsFiniteSet(Requests)
  /\ NoOne \notin Requests /\ Others \notin Requests /\ NoOne # Others
ASSUME TimesAssumption ==
  /\ {DailyLimit, PostTime, PassTime, PendingTimeout, AcceptedTimeout} \subseteq Nat
  /\ {Days, SlotLease} \subseteq Nat
  /\ PostTime < PendingTimeout /\ PendingTimeout < AcceptedTimeout
  /\ AcceptedTimeout < SlotLease
(* The shipped lease outlives the shipped timeouts by 600 s; a POST takes  *)
(* 40 s at most, and a pass over the one row that can be open 10, 5 s      *)
(* after the pass before it.                                               *)
ASSUME MarginAssumption ==
  AcceptedTimeout + PostTime + 2 * PassTime < SlotLease

VARIABLES
  slot,      \* inference_lock: its holder and the ticks left of the lease
  used,      \* daily_prompt_usage: used, of each day
  today,     \* quota_day()
  request,   \* the graphics_requests row: state, usage_day, ticks since updated_at
  handler,   \* where create_graphics_job is, for each request
  job,       \* the job of the core that the request was posted for
  seen,      \* what the running pass read of each row, and has yet to act on
  asking,    \* the request whose job the pass awaits the core about, or NoOne
  reply,     \* the core's reply
  polled,    \* the core's reply to a poll of the client, not acted on yet
  late       \* ticks since the pass read the rows

vars == <<slot, used, today, request, handler, job, seen, asking, reply, polled, late>>

FreeSlot == [holder |-> NoOne, left |-> 0]
NoRow    == [state |-> "none", day |-> 0, age |-> 0]

OpenStates   == {"pending", "accepted"}
FailedStates == {"failed", "queue-error", "abandoned"}
RowStates    == {"none", "ready"} \cup OpenStates \cup FailedStates
JobStates    == {"none", "running", "ready", "failed", "lost"}

(* A row older than every timeout ages no further.                         *)
MaxAge == AcceptedTimeout

TypeOK ==
  /\ slot \in [holder : Requests \cup {NoOne, Others}, left : 0 .. SlotLease]
  /\ used \in [0 .. Days -> Nat]
  /\ today \in 0 .. Days
  /\ request \in [Requests -> [state : RowStates, day : 0 .. Days, age : 0 .. MaxAge]]
  /\ handler \in [Requests -> {"idle", "choosing", "posting", "done", "dead"}]
  /\ job \in [Requests -> JobStates]
  /\ seen \in [Requests -> {"out", "expire", "ask", "askLast"}]
  /\ asking \in Requests \cup {NoOne}
  /\ reply \in {"none", "running", "ready", "failed", "error"}
  /\ polled \in [Requests -> {"none", "running", "ready", "failed"}]
  /\ late \in 0 .. PassTime

Init ==
  /\ slot = FreeSlot
  /\ used = [d \in 0 .. Days |-> 0]
  /\ today = 0
  /\ request = [r \in Requests |-> NoRow]
  /\ handler = [r \in Requests |-> "idle"]
  /\ job = [r \in Requests |-> "none"]
  /\ seen = [r \in Requests |-> "out"]
  /\ asking = NoOne
  /\ reply = "none" /\ polled = [r \in Requests |-> "none"]
  /\ late = 0

Goes(r, from, to) == handler[r] = from /\ handler' = [handler EXCEPT ![r] = to]

(* finalized_at IS NULL                                                    *)
Open(r) == request[r].state \in OpenStates

-----------------------------------------------------------------------------
(* The slot.                                                               *)

(* release_inference_slot with the request's token.                        *)
Released(r) == IF slot.holder = r THEN FreeSlot ELSE slot

Bug_RenewalExtends(r) ==
  CASE slot.left = 0   -> FreeSlot
    [] slot.holder = r /\ slot.left > 0 -> [slot EXCEPT !.left = @ + SlotLease]
    [] OTHER           -> slot

(* renew_inference_slot: a lapsed lease is cleared, never renewed.         *)
Renewed(r) ==
  CASE slot.left = 0   -> FreeSlot
    [] slot.holder = r /\ slot.left > 0 -> [slot EXCEPT !.left = SlotLease]
    [] OTHER           -> slot

OthersTake ==
  /\ slot.holder = NoOne \/ slot.left = 0
  /\ slot' = [holder |-> Others, left |-> SlotLease]
  /\ UNCHANGED <<used, today, request, handler, job, seen, asking, reply, polled, late>>

OthersEnd ==
  /\ slot.holder = Others
  /\ slot' = FreeSlot
  /\ UNCHANGED <<used, today, request, handler, job, seen, asking, reply, polled, late>>

-----------------------------------------------------------------------------
(* Settling a request.                                                     *)

Bug_RefundsToday(day) == [used EXCEPT ![today] = IF @ > 0 THEN @ - 1 ELSE 0]

(* _refund_graphics_row: the day the row was reserved on, not the current. *)
Refunded(day) == [used EXCEPT ![day] = IF @ > 0 THEN @ - 1 ELSE 0]

Bug_KeepsToken(r, outcome) ==
  IF Open(r)
  THEN /\ request' = [request EXCEPT ![r].state = outcome, ![r].age = 0]
       /\ used' = IF outcome = "ready" THEN used ELSE Refunded(request[r].day)
       /\ UNCHANGED slot
  ELSE UNCHANGED <<request, used, slot>>

(* fail_graphics_request and finalize_graphics_request: an open row is     *)
(* closed, refunded unless the image is ready, and its token released; a   *)
(* row that is closed already is left alone.                               *)
Settle(r, outcome) ==
  IF Open(r)
  THEN /\ request' = [request EXCEPT ![r].state = outcome, ![r].age = 0]
       /\ used' = IF outcome = "ready" THEN used ELSE Refunded(request[r].day)
       /\ slot' = Released(r)
  ELSE UNCHANGED <<request, used, slot>>

-----------------------------------------------------------------------------
(* create_graphics_job.                                                    *)

(* await_inference_turn returned this request's token; the handler asks    *)
(* the core which engine is selected.                                      *)
Admitted(r) ==
  /\ Goes(r, "idle", "choosing")
  /\ slot.holder = NoOne \/ slot.left = 0
  /\ slot' = [holder |-> r, left |-> SlotLease]
  /\ UNCHANGED <<used, today, request, job, seen, asking, reply, polled, late>>

WithinLimit == used[today] < DailyLimit

(* reserve_graphics_quota: the daily use and the row in one transaction.   *)
Reserve(r) ==
  /\ Goes(r, "choosing", "posting")
  /\ WithinLimit
  /\ used' = [used EXCEPT ![today] = @ + 1]
  /\ request' = [request EXCEPT ![r] = [state |-> "pending", day |-> today, age |-> 0]]
  /\ UNCHANGED <<slot, today, job, seen, asking, reply, polled, late>>

(* The limit is reached, or the core cannot say which engine is selected:  *)
(* finish_inference_queue gives the slot back.                             *)
NotReserved(r) ==
  /\ Goes(r, "choosing", "done")
  /\ slot' = Released(r)
  /\ UNCHANGED <<used, today, request, job, seen, asking, reply, polled, late>>

(* The core answered with the job: accept_graphics_request, which refuses  *)
(* a row settled meanwhile; the handler then finds it settled and only     *)
(* finishes its place in the queue.                                        *)
Posted(r) ==
  /\ Goes(r, "posting", "done")
  /\ job[r] # "none"
  /\ IF Open(r)
     THEN request' = [request EXCEPT ![r].state = "accepted", ![r].age = 0] /\ UNCHANGED slot
     ELSE slot' = Released(r) /\ UNCHANGED request
  /\ UNCHANGED <<used, today, job, seen, asking, reply, polled, late>>

(* The POST failed or timed out, whether or not the core took the job.     *)
PostFailed(r) ==
  /\ Goes(r, "posting", "done")
  /\ IF Open(r) THEN Settle(r, "queue-error")
                ELSE slot' = Released(r) /\ UNCHANGED <<request, used>>
  /\ UNCHANGED <<today, job, seen, asking, reply, polled, late>>

(* The worker stops, or the task is cancelled: except Exception does not   *)
(* catch CancelledError.                                                   *)
HandlerDies(r) ==
  /\ handler[r] \in {"choosing", "posting"}
  /\ handler' = [handler EXCEPT ![r] = "dead"]
  /\ UNCHANGED <<slot, used, today, request, job, seen, asking, reply, polled, late>>

-----------------------------------------------------------------------------
(* The core's graphics manager, as far as a request depends on it: a job   *)
(* is taken while its POST is under way, ends, or is lost with its         *)
(* process; only finished images outlive a restart.                        *)

TakesJob(r) ==
  /\ handler[r] \in {"posting", "dead"} /\ job[r] = "none"
  /\ request[r].state # "none" /\ request[r].age <= PostTime
  /\ job' = [job EXCEPT ![r] = "running"]
  /\ UNCHANGED <<slot, used, today, request, handler, seen, asking, reply, polled, late>>

EndsJob(r) ==
  /\ job[r] = "running"
  /\ \E state \in {"ready", "failed"} : job' = [job EXCEPT ![r] = state]
  /\ UNCHANGED <<slot, used, today, request, handler, seen, asking, reply, polled, late>>

Restarts ==
  /\ \E r \in Requests : job[r] \in {"running", "failed"}
  /\ job' = [r \in Requests |-> IF job[r] \in {"running", "failed"} THEN "lost" ELSE job[r]]
  /\ UNCHANGED <<slot, used, today, request, handler, seen, asking, reply, polled, late>>

(* What the core says of a job: its state, or an error when it has no such *)
(* job or cannot be reached.                                               *)
Says(r) == {"error"} \cup ({job[r]} \cap {"running", "ready", "failed"})

-----------------------------------------------------------------------------
(* What the client or the pass does when it learns the state of a job: the *)
(* row may have been settled during the wait.                              *)
Learns(r, state) ==
  \/ state \in {"ready", "failed"} /\ Settle(r, state)
  \/ /\ state = "running"
     /\ slot' = IF Open(r) THEN Renewed(r) ELSE slot
     /\ UNCHANGED <<request, used>>

(* graphics_job: the client asks about an accepted job, once at a time; an *)
(* error changes nothing.                                                  *)
Poll(r) ==
  /\ request[r].state = "accepted" /\ handler[r] = "done" /\ polled[r] = "none"
  /\ \E state \in Says(r) \ {"error"} : polled' = [polled EXCEPT ![r] = state]
  /\ UNCHANGED <<slot, used, today, request, handler, job, seen, asking, reply, late>>

PollReplied(r) ==
  /\ polled[r] # "none" /\ polled' = [polled EXCEPT ![r] = "none"]
  /\ Learns(r, polled[r])
  /\ UNCHANGED <<today, handler, job, seen, asking, reply, late>>

-----------------------------------------------------------------------------
(* reconcile_graphics_requests_once.                                       *)

Bug_ExpiresPendingAtOnce(r) ==
  CASE request[r].state = "pending"  -> "expire"
    [] request[r].state = "accepted" /\ request[r].age < AcceptedTimeout  -> "ask"
    [] request[r].state = "accepted" /\ request[r].age >= AcceptedTimeout -> "askLast"
    [] OTHER -> "out"

Bug_NeverAsksLast(r) ==
  CASE request[r].state = "pending"  -> IF request[r].age >= PendingTimeout
                                        THEN "expire" ELSE "out"
    [] request[r].state = "accepted" -> "ask"
    [] OTHER -> "out"

(* What a pass will do about a row, by its job_id and age when it is read. *)
Verdict(r) ==
  CASE request[r].state = "pending"  -> IF request[r].age >= PendingTimeout
                                        THEN "expire" ELSE "out"
    [] request[r].state = "accepted" -> IF request[r].age >= AcceptedTimeout
                                        THEN "askLast" ELSE "ask"
    [] OTHER -> "out"

(* The pass reads every open row at once.                                  *)
ReadRows ==
  /\ asking = NoOne
  /\ \A r \in Requests : seen[r] = "out"
  /\ seen' = [r \in Requests |-> Verdict(r)]
  /\ late' = 0
  /\ UNCHANGED <<slot, used, today, request, handler, job, asking, reply, polled>>

(* No job_id when it was read, too long ago.                               *)
Expire(r) ==
  /\ asking = NoOne
  /\ seen[r] = "expire"
  /\ seen' = [seen EXCEPT ![r] = "out"]
  /\ Settle(r, "abandoned")
  /\ UNCHANGED <<today, handler, job, asking, reply, polled, late>>

AskCore(r) ==
  /\ asking = NoOne
  /\ seen[r] \in {"ask", "askLast"}
  /\ asking' = r
  /\ \E state \in Says(r) : reply' = state
  /\ UNCHANGED <<slot, used, today, request, handler, job, seen, polled, late>>

(* The reply is acted on after the wait, when the row may have been        *)
(* settled by the client's poll.                                           *)
CoreReplied(r) ==
  /\ asking = r
  /\ asking' = NoOne /\ reply' = "none"
  /\ seen' = [seen EXCEPT ![r] = "out"]
  /\ \/ Learns(r, reply)
     \/ /\ reply = "error"
        /\ IF seen[r] = "askLast" THEN Settle(r, "abandoned")
                                  ELSE UNCHANGED <<request, used, slot>>
  /\ UNCHANGED <<today, handler, job, polled, late>>

-----------------------------------------------------------------------------
(* Time.  The engine query and the POST time out (in 40 s) and a pass ends *)
(* and starts again before time has gone by further than their constants.  *)

Tick ==
  /\ late < PassTime
  /\ \A r \in Requests :
       /\ handler[r] = "choosing" => slot.left = SlotLease
       /\ handler[r] = "posting" => request[r].age < PostTime
  /\ slot' = [slot EXCEPT !.left = IF @ = 0 THEN 0 ELSE @ - 1]
  /\ request' = [r \in Requests |->
       IF Open(r) /\ request[r].age < MaxAge
       THEN [request[r] EXCEPT !.age = @ + 1] ELSE request[r]]
  /\ late' = late + 1
  /\ UNCHANGED <<used, today, handler, job, seen, asking, reply, polled>>

Midnight ==
  /\ today < Days
  /\ today' = today + 1
  /\ UNCHANGED <<slot, used, request, handler, job, seen, asking, reply, polled, late>>

RequestStep(r) ==
  \/ Admitted(r) \/ Reserve(r) \/ NotReserved(r) \/ Posted(r) \/ PostFailed(r)
  \/ HandlerDies(r) \/ Poll(r) \/ PollReplied(r)

CoreStep(r) == TakesJob(r) \/ EndsJob(r)

PassStep(r) == Expire(r) \/ AskCore(r) \/ CoreReplied(r)

Next ==
  \/ \E r \in Requests : RequestStep(r) \/ CoreStep(r) \/ PassStep(r)
  \/ Restarts \/ OthersTake \/ OthersEnd
  \/ ReadRows \/ Tick \/ Midnight

Spec == Init /\ [][Next]_vars

(* background_maintenance runs for ever, jobs end, and time passes; no     *)
(* client need ever poll, and no handler need live.                        *)
Fairness ==
  /\ WF_vars(ReadRows)
  /\ \A r \in Requests : WF_vars(PassStep(r)) /\ WF_vars(EndsJob(r))
  /\ \A r \in Requests : WF_vars(Posted(r) \/ PostFailed(r))
  /\ WF_vars(Tick)

FairSpec == Spec /\ Fairness

-----------------------------------------------------------------------------
(* Safety.                                                                 *)

(* The counter of each day is the number of that day's requests that are   *)
(* open or have their image: whoever settles a request, and however often  *)
(* the handler, the client and the pass all try, a failed one is refunded  *)
(* exactly once and on the day it was reserved.                            *)
Charged(d) == {r \in Requests : request[r].state \in OpenStates \cup {"ready"}
                                  /\ request[r].day = d}

QuotaMatchesRows == \A d \in 0 .. Days : used[d] = Cardinality(Charged(d))

(* An open request holds the slot within its lease, so the core is never   *)
(* given other work while a job of it may run: the pass renews it, or      *)
(* abandons it before the lease can lapse.  Hence at most one is open.     *)
OpenRequestHoldsSlot == \A r \in Requests : Open(r) => slot.holder = r /\ slot.left > 0

(* A settled request has let go of the slot.                               *)
SettledFreesSlot ==
  \A r \in Requests : request[r].state \notin OpenStates \cup {"none"} => slot.holder # r

(* The slot follows the requests: held within its lease exactly while one  *)
(* of them is open, however many settle it and in whatever order.          *)
SlotFollowsRequest == OpenRequestHoldsSlot /\ SettledFreesSlot

(* No pass settles a request under the feet of the handler that is still   *)
(* posting it: accept_graphics_request never finds its row closed.         *)
InFlightNotAbandoned ==
  \A r \in Requests : handler[r] = "posting" => request[r].state = "pending"

(* Liveness: every request is settled in the end, though its handler dies, *)
(* its client never polls, and the core loses the job or cannot be reached.*)
EveryRequestSettles == \A r \in Requests : Open(r) ~> ~Open(r)
=============================================================================
