-------------------------- MODULE InferenceRequests --------------------------
(***************************************************************************)
(* The requests that work while they hold the portal's inference slot: a   *)
(* chat, a chat under Auto, an analysis of an image, the same under Auto,  *)
(* an OCR, a workflow and the load of a model.  Each waits for the slot,   *)
(* may have the core load the model it wants, draws a prompt of its        *)
(* account's day, has the core generate, under Auto has the orchestrator   *)
(* model loaded again, gives the slot back and settles what it drew.       *)
(*                                                                         *)
(* A call to the core and what the core does for it are apart.  What is    *)
(* posted is on its way, and the lease may be lost before the manager      *)
(* takes it; and the portal may stop waiting (a timeout, a broken          *)
(* connection, a cancelled handler) and the core goes on.                  *)
(*                                                                         *)
(* Definitions named Bug_... are mutated forms of the definition they come *)
(* before; no action uses them.                                            *)
(***************************************************************************)
EXTENDS Naturals, FiniteSets

CONSTANTS
  Requests,       \* the requests, each of an account of its own
  KindsOf,        \* the kinds each request may be of
  DrawnBy,        \* the prompts its account may have drawn earlier in the day
  Troubled,       \* the requests that may be cancelled, or lose calls, lease or heartbeat
  Models,         \* the text models of the core
  Orchestrator,   \* AUTO_ORCHESTRATOR_MODEL
  None,           \* no request; no healthy model
  DailyLimit      \* daily_prompt_limit

Kinds == {"chat", "autochat", "vision", "autovision", "ocr", "routing", "load"}

ASSUME KindsAssumption ==
  KindsOf \in [Requests -> SUBSET Kinds]
ASSUME TroubledAssumption ==
  Troubled \subseteq Requests
ASSUME ModelsAssumption ==
  Orchestrator \in Models /\ None \notin Models \cup Requests
ASSUME LimitAssumption ==
  DailyLimit \in Nat \ {0} /\ DrawnBy \in [Requests -> SUBSET (0 .. DailyLimit)]

VARIABLES
  req,        \* what the handler of each request holds
  holder,     \* the request whose token is in inference_lock, or None
  beating,    \* the requests whose inference_heartbeat runs
  used,       \* daily_prompt_usage: used, of the account of each request
  answered,   \* the requests whose answer was handed on
  active,     \* the healthy text model, or None
  manager,    \* the call for which the model manager is loading a model, or Idle
  engine,     \* the request whose generation holds the core's inference_slot
  flows,      \* the requests whose workflow the core performs
  calls,      \* the calls on their way to the model manager
  disturbed   \* history, which no step reads: the chats under Auto in whose turn the
              \* core began to load what they did not wait for

vars == <<req, holder, beating, used, answered, active, manager, engine, flows, calls, disturbed>>
core == <<active, manager, engine, flows, calls, disturbed>>

Idle == [to |-> None, for |-> None, of |-> "none"]

Chats   == {"chat", "autochat"}
Visions == {"vision", "autovision"}
(* asyncio.shield keeps these calls from a cancelled handler.              *)
Shielded == {"ocr", "routing"}
Beating  == Chats \cup Shielded

Places  == {"idle", "waits", "checks", "reserves", "switching", "generates",
            "generating", "restores", "restoring", "finishes", "stopping", "over"}
Replies == {"none", "waiting", "ok", "empty", "noChart", "status", "failed"}
Errors  == {"none", "error", "cancelled", "late"}  \* "late": cancelled, its work done

(* A call to the manager: the model it asks for, and who waits where.      *)
Calls == [to : Models, for : Requests, of : {"switching", "restoring", "generating"}]

TypeOK ==
  /\ req \in [Requests -> [pc : Places, kind : Kinds \cup {"none"}, prior : 0 .. DailyLimit, want : Models \cup {None},
                           reply : Replies,
                           result : Replies, error : Errors,
                           restore : BOOLEAN, unrestored : BOOLEAN, reserved : BOOLEAN, retried : BOOLEAN]]
  /\ holder \in Requests \cup {None}
  /\ beating \subseteq Requests
  /\ used \in [Requests -> 0 .. DailyLimit]
  /\ answered \subseteq Requests
  /\ active \in Models \cup {None}
  /\ manager \in Calls \cup {Idle}
  /\ engine \in Requests \cup {None}
  /\ flows \subseteq Requests
  /\ calls \subseteq Calls
  /\ disturbed \subseteq Requests

(* A request of kind k at a place, with nothing in hand, of an account     *)
(* that drew n prompts earlier in the day.                                 *)
Fresh(place, k, n) ==
  [pc |-> place, kind |-> k, prior |-> n, want |-> None, reply |-> "none", result |-> "none",
   error |-> "none", restore |-> FALSE, unrestored |-> FALSE,
   reserved |-> FALSE, retried |-> FALSE]

Init ==
  /\ req = [r \in Requests |-> Fresh("idle", "none", 0)]
  /\ holder = None
  /\ beating = {}
  /\ used = [r \in Requests |-> 0]
  /\ answered = {}
  /\ active = Orchestrator
  /\ manager = Idle
  /\ engine = None
  /\ flows = {}
  /\ calls = {}
  /\ disturbed = {}

Is(r, kinds) == req[r].kind \in kinds
At(r, place) == req[r].pc = place

(* The handler of r goes on with what it holds changed to q.               *)
Goes(r, q) == req' = [req EXCEPT ![r] = q]

(* renew_inference_slot of a heartbeat that still runs.                    *)
Live(r) == r \in beating /\ holder = r

-----------------------------------------------------------------------------
(* The prompts of the day.                                                 *)

(* refund_daily_prompt                                                     *)
OneLess(r) == [used EXCEPT ![r] = IF @ > 0 THEN @ - 1 ELSE 0]

(* refund_quota_once: a reservation is cleared before it is given back.    *)
Refunded(r) == IF req[r].reserved THEN OneLess(r) ELSE used

-----------------------------------------------------------------------------
(* The slot.                                                               *)

(* A request of kind k, of an account that drew n prompts today, joins the *)
(* queue, or is refused before and leaves no trace.                        *)
Arrives(r, k, place) ==
  /\ At(r, "idle") /\ k \in KindsOf[r]
  /\ \E n \in DrawnBy[r] :
       Goes(r, Fresh(place, k, n)) /\ used' = [used EXCEPT ![r] = n]
  /\ UNCHANGED <<holder, beating, answered, core>>

(* Session, rate, content, documents and grant are checked first.          *)
ChatArrives(r) == \E k \in Chats, place \in {"waits", "over"} : Arrives(r, k, place)

(* An analysis that is not under Auto needs its model active already.      *)
VisionArrives(r) ==
  \/ \E k \in Visions : Arrives(r, k, "over")
  \/ Arrives(r, "autovision", "waits")
  \/ active # None /\ Arrives(r, "vision", "waits")

OcrArrives(r) == \E place \in {"waits", "over"} : Arrives(r, "ocr", place)

(* Tasks and texts are checked against the account's capabilities.         *)
WorkflowArrives(r) == \E place \in {"waits", "over"} : Arrives(r, "routing", place)

(* A model that is active already, or not granted, is not waited for.      *)
LoadArrives(r) == \E place \in {"waits", "over"} : Arrives(r, "load", place)

(* await_inference_turn gives up: disconnected, late, or off the queue.    *)
GivesUp(r) ==
  /\ At(r, "waits")
  /\ Goes(r, [req[r] EXCEPT !.pc = "over"])
  /\ UNCHANGED <<holder, beating, used, answered, core>>

(* The slot falls to r, as LeaseLock promises, and a heartbeat starts.     *)
TakesTurn(r) ==
  /\ At(r, "waits") /\ holder = None
  /\ holder' = r
  /\ beating' = IF Is(r, Beating) THEN beating \cup {r} ELSE beating
  /\ Goes(r, [req[r] EXCEPT !.pc = IF Is(r, Shielded) THEN "reserves" ELSE "checks",
                            !.restore = Is(r, {"autovision"})])
  /\ UNCHANGED <<used, answered, core>>

(* The lease runs out: the portal stalled, or an analysis under Auto took  *)
(* longer than its six minutes.                                            *)
Lapses(r) ==
  /\ r \in Troubled /\ holder = r
  /\ holder' = None
  /\ UNCHANGED <<req, beating, used, answered, core>>

(* The heartbeat finds the lease lost, or the database fails it.           *)
BeatFails(r) ==
  /\ r \in Troubled \cap beating
  /\ beating' = beating \ {r}
  /\ UNCHANGED <<req, holder, used, answered, core>>

-----------------------------------------------------------------------------
(* The core.                                                               *)

(* A call is posted for a handler that goes on with q.                     *)
Posts(r, m, q) ==
  /\ Goes(r, [q EXCEPT !.reply = "waiting"])
  /\ calls' = calls \cup {[to |-> m, for |-> r, of |-> q.pc]}

CallsSwitch(r, m, q) == Posts(r, m, q) /\ UNCHANGED <<active, manager, engine, flows, disturbed>>

(* Somebody still waits for what a call asked for.                         *)
Awaited(c) == At(c.for, c.of) /\ req[c.for].reply = "waiting"

Answers(c, reply) == req' = IF Awaited(c) THEN [req EXCEPT ![c.for].reply = reply] ELSE req

(* An OCR that is over frees the engine.                                   *)
EngineWithout(c) == IF c.of = "generating" /\ engine = c.for THEN None ELSE engine

(* The chats under Auto whose turn it is and who do not wait for what r    *)
(* has loaded.                                                             *)
Victims(r, awaited) == {h \in Requests : holder = h /\ Is(h, {"autochat"}) /\ ~(h = r /\ awaited)}

(* switch_model and ocr_extract: one transaction at a time, 409 meanwhile; *)
(* a switch leaves a healthy target as it is, otherwise every other model  *)
(* is stopped first.                                                       *)
ManagerTakes(c) ==
  /\ c \in calls /\ calls' = calls \ {c}
  /\ \/ /\ manager # Idle
        /\ Answers(c, "failed") /\ engine' = EngineWithout(c)
        /\ UNCHANGED <<active, manager, disturbed>>
     \/ /\ manager = Idle /\ active = c.to /\ c.of # "generating"
        /\ Answers(c, "ok")
        /\ UNCHANGED <<active, manager, engine, disturbed>>
     \/ /\ manager = Idle /\ (active # c.to \/ c.of = "generating")
        /\ manager' = c /\ active' = None
        /\ disturbed' = disturbed \cup Victims(c.for, Awaited(c))
        /\ UNCHANGED <<req, engine>>
  /\ UNCHANGED <<holder, beating, used, answered, flows>>

(* A call is lost on its way, or the manager refuses the model.            *)
CallLost(c) ==
  /\ c.for \in Troubled /\ c \in calls /\ calls' = calls \ {c}
  /\ Answers(c, "failed") /\ engine' = EngineWithout(c)
  /\ UNCHANGED <<holder, beating, used, answered, active, manager, flows, disturbed>>

(* The manager's transaction ends: its model is healthy, or a rollback     *)
(* leaves another one, or none.                                            *)
ManagerEnds ==
  /\ manager # Idle
  /\ \/ active' = manager.to /\ Answers(manager, "ok")
     \/ active' \in (Models \cup {None}) \ {manager.to} /\ Answers(manager, "failed")
  /\ manager' = Idle
  /\ engine' = EngineWithout(manager)
  /\ UNCHANGED <<holder, beating, used, answered, flows, calls, disturbed>>

(* The reply of a generation reaches the handler, if it still waits.       *)
Generated(r, reply) ==
  req' = IF At(r, "generating") /\ req[r].reply = "waiting" THEN [req EXCEPT ![r].reply = reply] ELSE req

GenerationReplies(r) ==
  IF active # req[r].want THEN {"status"}
  ELSE {"ok", "empty", "status"} \cup {c \in {"noChart"} : Is(r, Chats)}

(* The orchestrator answers a generation.                                  *)
EngineEnds(r) ==
  /\ engine = r /\ Is(r, Chats \cup Visions)
  /\ engine' = None
  /\ \E reply \in GenerationReplies(r) : Generated(r, reply)
  /\ UNCHANGED <<holder, beating, used, answered, active, manager, flows, calls, disturbed>>

(* A workflow under way loads a model; and it ends.                        *)
WorkflowSwitches(r) ==
  /\ r \in flows /\ manager = Idle
  /\ active' \in Models
  /\ disturbed' = disturbed \cup Victims(r, TRUE)
  /\ UNCHANGED <<req, holder, beating, used, answered, manager, engine, flows, calls>>

WorkflowEnds(r) ==
  /\ r \in flows /\ flows' = flows \ {r}
  /\ \E reply \in {"ok", "failed"} : Generated(r, reply)
  /\ UNCHANGED <<holder, beating, used, answered, active, manager, engine, calls, disturbed>>

(* A timeout, a broken connection, or a chat's heartbeat that fails: the   *)
(* portal stops waiting.                                                   *)
CallFails(r) ==
  /\ r \in Troubled /\ req[r].reply = "waiting"
  /\ Goes(r, [req[r] EXCEPT !.reply = "failed"])
  /\ UNCHANGED <<holder, beating, used, answered, core>>

-----------------------------------------------------------------------------
(* The handlers, their turn come.                                          *)

(* Where a handler goes that can do no more: Auto restores first, but for  *)
(* a cancelled chat.                                                       *)
AfterWork(q) ==
  IF q.restore /\ (q.error # "cancelled" \/ q.kind = "autovision") THEN "restores" ELSE "finishes"

Unwinds(r, q) == Goes(r, [q EXCEPT !.pc = AfterWork(q), !.reply = "none", !.want = None])
Fails(r, q)   == Unwinds(r, [q EXCEPT !.error = IF @ = "none" THEN "error" ELSE @])

(* authorized_live_models fails, or grants the wanted model no more.       *)
Denied(r) == Fails(r, req[r]) /\ UNCHANGED core

(* Under Auto a chat wants the orchestrator model or a specialist; it has  *)
(* what it wants loaded, under a live lease, where another chat gives up.  *)
ChecksChat(r) ==
  \E m \in Models :
    LET q == [req[r] EXCEPT !.want = m, !.restore = Is(r, {"autochat"}) /\ m # Orchestrator] IN
    \/ active = m /\ Goes(r, [q EXCEPT !.pc = "reserves"]) /\ UNCHANGED core
    \/ active # m /\ ~(Is(r, {"autochat"}) /\ Live(r)) /\ Fails(r, q) /\ UNCHANGED core
    \/ active # m /\ Is(r, {"autochat"}) /\ Live(r) /\ CallsSwitch(r, m, [q EXCEPT !.pc = "switching"])

(* An analysis under Auto asks for no lease.                               *)
ChecksVision(r) ==
  \E m \in Models :
    LET q == [req[r] EXCEPT !.want = m] IN
    \/ active = m /\ Goes(r, [q EXCEPT !.pc = "reserves"]) /\ UNCHANGED core
    \/ active # m /\ Is(r, {"vision"}) /\ Fails(r, q) /\ UNCHANGED core
    \/ active # m /\ Is(r, {"autovision"}) /\ CallsSwitch(r, m, [q EXCEPT !.pc = "switching"])

LoadsModel(r) ==
  \E m \in Models : CallsSwitch(r, m, [req[r] EXCEPT !.want = m, !.pc = "switching"])

(* Account, grant and the live model are read again after the wait.        *)
Checks(r) ==
  /\ At(r, "checks")
  /\ \/ Denied(r)
     \/ Is(r, Chats) /\ ChecksChat(r)
     \/ Is(r, Visions) /\ ChecksVision(r)
     \/ Is(r, {"load"}) /\ LoadsModel(r)
  /\ UNCHANGED <<holder, beating, used, answered>>

(* The model is loaded, or not; a chat asks for its lease again.           *)
Switched(r) ==
  /\ At(r, "switching") /\ req[r].reply \in {"ok", "failed"}
  /\ IF req[r].reply = "ok" /\ (Is(r, Chats) => Live(r))
       THEN Goes(r, [req[r] EXCEPT !.reply = "none",
                       !.pc = IF Is(r, {"load"}) THEN "finishes" ELSE "reserves"])
       ELSE Fails(r, req[r])
  /\ UNCHANGED <<holder, beating, used, answered, core>>

Bug_LimitOffByOne(r) == used[r] <= DailyLimit

WithinLimit(r) == used[r] < DailyLimit

(* reserve_daily_prompt: a prompt is drawn while the day's limit allows; a *)
(* chat whose heartbeat is over draws none.                                *)
Reserves(r) ==
  /\ At(r, "reserves")
  /\ IF WithinLimit(r) /\ (Is(r, Chats) => r \in beating)
       THEN /\ used' = [used EXCEPT ![r] = @ + 1]
            /\ Goes(r, [req[r] EXCEPT !.pc = "generates", !.reserved = TRUE])
       ELSE Fails(r, req[r]) /\ UNCHANGED used
  /\ UNCHANGED <<holder, beating, answered, core>>

Asks(r, reply) == Goes(r, [req[r] EXCEPT !.pc = "generating", !.reply = reply])

(* The orchestrator refuses a model that is not the active one, and a      *)
(* second generation.                                                      *)
CallsEngine(r) ==
  \/ (active # req[r].want \/ engine # None) /\ Asks(r, "status") /\ UNCHANGED core
  \/ /\ active = req[r].want /\ engine = None
     /\ Asks(r, "waiting") /\ engine' = r
     /\ UNCHANGED <<active, manager, flows, calls, disturbed>>

(* An OCR takes the engine, and calls the manager, which stops the active  *)
(* model and loads its default, here the orchestrator's, when the OCR is   *)
(* done.                                                                   *)
CallsOcr(r) ==
  /\ engine = None /\ engine' = r
  /\ Posts(r, Orchestrator, [req[r] EXCEPT !.pc = "generating"])
  /\ UNCHANGED <<active, manager, flows, disturbed>>

CallsWorkflow(r) ==
  /\ Asks(r, "waiting") /\ flows' = flows \cup {r}
  /\ UNCHANGED <<active, manager, engine, calls, disturbed>>

(* The request goes to the core, or fails on its way.                      *)
Generates(r) ==
  /\ At(r, "generates")
  /\ \/ Asks(r, "failed") /\ UNCHANGED core
     \/ Is(r, Chats \cup Visions) /\ CallsEngine(r)
     \/ Is(r, {"ocr"}) /\ CallsOcr(r)
     \/ Is(r, {"routing"}) /\ CallsWorkflow(r)
  /\ UNCHANGED <<holder, beating, used, answered>>

(* user_autorouting_execute: a workflow that was done stays charged,       *)
(* though its handler was cancelled meanwhile; one that was not is given   *)
(* back.                                                                   *)
WorkflowAnswered(r) ==
  LET q == req[r] IN
  IF q.reply = "failed" \/ r \notin beating
    THEN Fails(r, [q EXCEPT !.reserved = FALSE]) /\ used' = Refunded(r)
    ELSE /\ Unwinds(r, [q EXCEPT !.result = "ok", !.error = IF @ = "cancelled" THEN "late" ELSE @])
         /\ UNCHANGED used

(* extract_with_glm_ocr: what was submitted is charged, read or not.       *)
OcrAnswered(r) ==
  /\ \/ Fails(r, req[r])
     \/ /\ req[r].reply = "ok" /\ r \in beating /\ req[r].error = "none"
        /\ Unwinds(r, [req[r] EXCEPT !.result = "ok"])
  /\ UNCHANGED used

(* analyze_native_image: gives the prompt back, and forgets that it did.   *)
VisionAnswered(r) ==
  IF req[r].reply = "failed"
    THEN Fails(r, req[r]) /\ used' = Refunded(r)
    ELSE Unwinds(r, [req[r] EXCEPT !.result = req[r].reply]) /\ UNCHANGED used

(* chat: a chart that came out wrong is asked for once more.               *)
ChatAnswered(r) ==
  LET q == req[r] IN
  IF q.reply = "failed" \/ (q.reply = "noChart" /\ ~q.retried /\ ~Live(r))
    THEN Fails(r, [q EXCEPT !.reserved = FALSE]) /\ used' = Refunded(r)
    ELSE /\ IF q.reply = "noChart" /\ ~q.retried
              THEN Goes(r, [q EXCEPT !.pc = "generates", !.reply = "none", !.retried = TRUE])
              ELSE Unwinds(r, [q EXCEPT !.result = q.reply])
         /\ UNCHANGED used

Answered(r) ==
  /\ At(r, "generating") /\ req[r].reply \notin {"none", "waiting"}
  /\ \/ Is(r, Chats) /\ ChatAnswered(r)
     \/ Is(r, Visions) /\ VisionAnswered(r)
     \/ Is(r, {"ocr"}) /\ OcrAnswered(r)
     \/ Is(r, {"routing"}) /\ WorkflowAnswered(r)
  /\ UNCHANGED <<holder, beating, answered, core>>

Bug_RestoreWithoutLease(r) == TRUE

(* await_with_live_lease, of a restore: only a chat asks.                  *)
MayRestore(r) == Is(r, Chats) => Live(r)

(* restore_auto_orchestrator is called.                                    *)
Restores(r) ==
  /\ At(r, "restores")
  /\ IF MayRestore(r)
       THEN CallsSwitch(r, Orchestrator, [req[r] EXCEPT !.pc = "restoring"])
       ELSE Goes(r, [req[r] EXCEPT !.pc = "restoring", !.reply = "failed"]) /\ UNCHANGED core
  /\ UNCHANGED <<holder, beating, used, answered>>

(* The core says that the orchestrator model is active and healthy, and a  *)
(* chat asks for its lease again.                                          *)
RestoredWell(r) == req[r].reply = "ok" /\ MayRestore(r)

(* A chat that could not restore gives its prompt back.                    *)
Unrestored(r) ==
  LET q == [req[r] EXCEPT !.pc = "finishes", !.reply = "none", !.unrestored = TRUE] IN
  IF Is(r, Chats) THEN Goes(r, [q EXCEPT !.reserved = FALSE]) /\ used' = Refunded(r)
                  ELSE Goes(r, q) /\ UNCHANGED used

Restored(r) ==
  /\ At(r, "restoring") /\ req[r].reply \in {"ok", "failed"}
  /\ IF RestoredWell(r)
       THEN Goes(r, [req[r] EXCEPT !.pc = "finishes", !.reply = "none"]) /\ UNCHANGED used
       ELSE Unrestored(r)
  /\ UNCHANGED <<holder, beating, answered, core>>

Bug_BeatGoesOn(r) == beating

BeatStopped(r) == beating \ {r}

(* The heartbeat is cancelled, and waited for; a chat whose heartbeat had  *)
(* failed gives its prompt back.                                           *)
StopsBeat(r) ==
  /\ At(r, "finishes") /\ Is(r, Beating)
  /\ beating' = BeatStopped(r)
  /\ LET q == [req[r] EXCEPT !.pc = "stopping"] IN
     IF Is(r, Chats) /\ r \notin beating
       THEN /\ Goes(r, [q EXCEPT !.reserved = FALSE, !.error = IF @ = "none" THEN "error" ELSE @])
            /\ used' = Refunded(r)
       ELSE Goes(r, q) /\ UNCHANGED used
  /\ UNCHANGED <<holder, answered, core>>

(* An answer that can be handed on.                                        *)
Readable(r) == req[r].result \in {"ok", "noChart"} \cup {e \in {"empty"} : Is(r, Visions)}

Bug_EmptyAnswerCharged(r) == req[r].result = "status"

(* A chat that was refused, or has no visible answer, gives back a prompt  *)
(* that is still reserved.                                                 *)
ChatGivesBack(r) == req[r].error = "none" /\ req[r].result \in {"status", "empty"}

(* So does an analysis that could not restore, or was refused.             *)
VisionGivesBack(r) ==
  req[r].unrestored \/ (req[r].error = "none" /\ req[r].result = "status")

GivesBack(r) == \/ Is(r, Chats) /\ ChatGivesBack(r)
                \/ Is(r, Visions) /\ VisionGivesBack(r)

(* finish_inference_queue frees the slot if it is still that of r.         *)
Freed(r) == IF holder = r THEN None ELSE holder

(* The handler is over; it is remembered whether it was cancelled late.    *)
Leaves(r, error) == Goes(r, [Fresh("over", req[r].kind, req[r].prior) EXCEPT !.error = error])

(* The handler ends: the slot is given back, and the answer is handed on.  *)
Finishes(r) ==
  /\ At(r, IF Is(r, Beating) THEN "stopping" ELSE "finishes")
  /\ holder' = Freed(r)
  /\ used' = IF GivesBack(r) THEN Refunded(r) ELSE used
  /\ answered' = IF req[r].error = "none" /\ ~req[r].unrestored /\ Readable(r)
                   THEN answered \cup {r} ELSE answered
  /\ Leaves(r, IF req[r].error = "late" THEN "late" ELSE "none")
  /\ UNCHANGED <<beating, core>>

-----------------------------------------------------------------------------
(* A handler may be cancelled wherever it waits, and more than once.       *)

(* A chat gives its prompt back and does not restore; an analysis restores.*)
WorkCancelled(r) ==
  /\ ~Is(r, Shielded) /\ req[r].pc \in {"checks", "switching", "generates", "generating"}
  /\ LET q == [req[r] EXCEPT !.error = "cancelled"] IN
     IF Is(r, Chats) THEN Unwinds(r, [q EXCEPT !.reserved = FALSE]) /\ used' = Refunded(r)
                     ELSE Unwinds(r, q) /\ UNCHANGED used

(* A shielded call is waited for, until the handler is cancelled again; a  *)
(* workflow is then given back, though the core goes on.                   *)
ShieldCancelled(r) ==
  /\ Is(r, Shielded) /\ At(r, "generating")
  /\ \/ /\ req[r].error = "none"
        /\ Goes(r, [req[r] EXCEPT !.error = "cancelled"]) /\ UNCHANGED used
     \/ /\ req[r].error = "cancelled" /\ req[r].reply = "waiting"
        /\ IF Is(r, {"routing"})
             THEN Unwinds(r, [req[r] EXCEPT !.reserved = FALSE]) /\ used' = Refunded(r)
             ELSE Unwinds(r, req[r]) /\ UNCHANGED used

RestoreCancelled(r) == At(r, "restoring") /\ Unrestored(r)

Cancelled(r) ==
  /\ r \in Troubled
  /\ WorkCancelled(r) \/ ShieldCancelled(r) \/ RestoreCancelled(r)
  /\ UNCHANGED <<holder, beating, answered, core>>

(* Cancelled while it waits for the heartbeat to stop: what follows in the *)
(* finally block, and after it, is skipped.  The slot stays taken until    *)
(* its lease is over, the prompt stays charged, nothing is handed on.      *)
CutShort(r) ==
  /\ r \in Troubled /\ At(r, "stopping")
  /\ Leaves(r, IF req[r].error \in {"none", "late"} THEN "late" ELSE "none")
  /\ UNCHANGED <<holder, beating, used, answered, core>>

-----------------------------------------------------------------------------
Works(r) ==
  \/ TakesTurn(r) \/ Checks(r) \/ Switched(r) \/ Reserves(r) \/ Generates(r)
  \/ Answered(r) \/ Restores(r) \/ Restored(r) \/ StopsBeat(r) \/ Finishes(r)

ManagerWorks == ManagerEnds \/ \E c \in calls : ManagerTakes(c)

Next ==
  \/ ManagerWorks
  \/ \E c \in calls : CallLost(c)
  \/ \E r \in Requests :
       \/ ChatArrives(r) \/ VisionArrives(r) \/ OcrArrives(r) \/ WorkflowArrives(r)
       \/ LoadArrives(r) \/ GivesUp(r) \/ Works(r)
       \/ EngineEnds(r) \/ WorkflowSwitches(r) \/ WorkflowEnds(r)
       \/ CallFails(r) \/ Lapses(r) \/ BeatFails(r) \/ Cancelled(r) \/ CutShort(r)

Spec == Init /\ [][Next]_vars

(* Handlers run on and the core answers; the lease of a handler that is    *)
(* over, and whose heartbeat is too, runs out.  Nothing has to arrive, or  *)
(* to fail.                                                                *)
Fairness ==
  /\ WF_vars(ManagerWorks)
  /\ \A r \in Requests :
       /\ WF_vars(Works(r)) /\ WF_vars(EngineEnds(r)) /\ WF_vars(WorkflowEnds(r))
       /\ WF_vars(At(r, "over") /\ r \notin beating /\ Lapses(r))

FairSpec == Spec /\ Fairness

-----------------------------------------------------------------------------
(* A chat, a workflow or a load that is over has drawn one prompt if its   *)
(* answer was handed on and none if not, whatever failed on the way, in    *)
(* whatever order, and wherever it was cancelled (refund_quota_once), with *)
(* one exception: cancelled when its work was done already, a workflow or  *)
(* a chat may stay charged, for one prompt, with nothing handed on.        *)
ChargedIffAnswered ==
  \A r \in Requests : At(r, "over") /\ Is(r, Chats \cup {"routing", "load"}) =>
    IF r \in answered THEN used[r] = req[r].prior + 1
                      ELSE \/ used[r] = req[r].prior
                           \/ used[r] = req[r].prior + 1 /\ req[r].error = "late"

(* A chat under Auto that is told, its lease being live, that the          *)
(* orchestrator model was loaded again leaves it behind: whatever others   *)
(* posted, lost and left behind, only a load that the core began in the    *)
(* chat's own turn, for somebody else or for a call the chat had given up, *)
(* can have changed it (await_with_live_lease, before and after).          *)
RestoredIn(r) == At(r, "restoring") /\ req'[r].pc = "finishes" /\ ~req'[r].unrestored

AutoLeavesOrchestrator ==
  [][\A r \in Requests :
       Is(r, {"autochat"}) /\ r \notin disturbed /\ RestoredIn(r) =>
         active = Orchestrator /\ manager = Idle]_vars

(* Whoever waits for the slot is answered, refused or gives up in the end: *)
(* no call, failure, cancellation or restore keeps the slot for good, not  *)
(* even a handler that is cut short before it gives the slot back.         *)
EveryRequestEnds == \A r \in Requests : At(r, "waits") ~> At(r, "over")
=============================================================================
