----------------------- MODULE InferenceRequestsProofs -----------------------
(***************************************************************************)
(* Proofs about InferenceRequests for any requests of any kinds, any       *)
(* models and any daily limit.                                             *)
(***************************************************************************)
EXTENDS InferenceRequests, TLAPS

Request ==
  [pc : Places, kind : Kinds \cup {"none"}, prior : 0 .. DailyLimit, want : Models \cup {None},
   reply : Replies, result : Replies, error : Errors,
   restore : BOOLEAN, unrestored : BOOLEAN, reserved : BOOLEAN, retried : BOOLEAN]

RequestTypes == req \in [Requests -> Request]

SlotTypes ==
  /\ holder \in Requests \cup {None} /\ beating \subseteq Requests
  /\ used \in [Requests -> 0 .. DailyLimit] /\ answered \subseteq Requests

CoreTypes ==
  /\ active \in Models \cup {None} /\ manager \in Calls \cup {Idle}
  /\ engine \in Requests \cup {None} /\ flows \subseteq Requests
  /\ calls \subseteq Calls /\ disturbed \subseteq Requests

(* The parts are what TypeOK says.                                         *)
LEMMA TypeParts == TypeOK <=> RequestTypes /\ SlotTypes /\ CoreTypes
BY DEF TypeOK, RequestTypes, SlotTypes, CoreTypes, Request

-----------------------------------------------------------------------------
(* The inductive invariant.                                                *)

Before     == {"idle", "waits", "checks", "switching", "reserves"}
Generating == {"generates", "generating"}
After      == {"restores", "restoring", "finishes", "stopping"}

(* The kinds that give a prompt back once at most, and those that restore. *)
Counted == Chats \cup {"routing", "load"}
Autos   == {"autochat", "autovision"}

(* A prompt is reserved while the core generates, and not before; answers  *)
(* are handed on at the end.                                               *)
ReservedToGenerate(q, done) ==
  /\ q.pc \in Before => ~q.reserved /\ ~q.unrestored
  /\ q.pc \in Generating => q.reserved /\ ~q.unrestored
  /\ q.pc # "over" => ~done

(* The prompt of a chat stays reserved unless it failed, was cancelled or  *)
(* could not restore; then it has an answer, readable or not.              *)
ChatKeepsWhatItDrew(q) ==
  q.kind \in Chats =>
    /\ q.pc \in Before \cup Generating => q.error = "none"
    /\ q.pc \in After =>
         IF q.reserved
           THEN q.error = "none" /\ ~q.unrestored /\ q.result \in {"ok", "empty", "noChart", "status"}
           ELSE q.error # "none" \/ q.unrestored

(* A workflow keeps it only if it was done; a load draws none.             *)
OthersKeepWhatTheyDrew(q, done) ==
  /\ q.kind = "routing" =>
       /\ q.pc \in Before \cup Generating => q.error \in {"none", "cancelled"}
       /\ q.pc \in After =>
            /\ ~q.unrestored
            /\ IF q.reserved THEN q.error \in {"none", "late"} /\ q.result = "ok" ELSE q.error # "none"
  /\ q.kind = "load" =>
       ~q.reserved /\ ~done /\ q.result = "none" /\ q.pc \notin Generating \cup {"reserves"}

(* What the day's count shows of it.                                       *)
Balanced(q, n, done) ==
  q.kind \in Counted =>
    IF q.pc = "over"
      THEN IF done THEN n = q.prior + 1
                   ELSE n = q.prior \/ (n = q.prior + 1 /\ q.error = "late")
      ELSE n = q.prior + IF q.reserved THEN 1 ELSE 0

(* Only what is under Auto has something to restore.                       *)
Shaped(q) ==
  /\ q.pc = "idle" <=> q.kind = "none"
  /\ q.restore \/ q.pc \in {"restores", "restoring"} => q.kind \in Autos

HandlerOf(q, n, done) ==
  /\ ReservedToGenerate(q, done) /\ ChatKeepsWhatItDrew(q) /\ OthersKeepWhatTheyDrew(q, done)
  /\ Balanced(q, n, done) /\ Shaped(q)

Handlers == \A r \in Requests : HandlerOf(req[r], used[r], r \in answered)

(* A call that a restore waits for asks for the orchestrator model, and    *)
(* only workflows have the core perform one.                               *)
CallsSound == \A c \in calls \cup {manager} : c.of = "restoring" => c.to = Orchestrator
FlowsSound == \A r \in flows : Is(r, {"routing"})

(* After a restore under a lease that still is the chat's, nobody changed  *)
(* the model but those of whom disturbed tells.                            *)
RestoreLasts ==
  \A r \in Requests \ disturbed :
    At(r, "restoring") /\ req[r].reply = "ok" /\ Is(r, {"autochat"}) /\ holder = r =>
      manager = Idle /\ active = Orchestrator

Restoration == CallsSound /\ FlowsSound /\ RestoreLasts

IInv == TypeOK /\ Handlers /\ Restoration

-----------------------------------------------------------------------------
(* How a step changes what a handler holds.                                *)

(* One handler goes on, and the others keep what they hold.                *)
LEMMA GoingOn ==
  ASSUME RequestTypes, NEW r \in Requests, NEW q \in Request, Goes(r, q)
  PROVE  RequestTypes' /\ req'[r] = q /\ \A o \in Requests \ {r} : req'[o] = req[o]
BY DEF RequestTypes, Goes

(* A handler that held q can do no more, restores or finishes as u, and    *)
(* keeps the rest.                                                         *)
WorkOver(u, q) ==
  /\ u.pc \in {"restores", "finishes"} /\ (u.pc = "restores" => q.restore)
  /\ u.kind = q.kind /\ u.prior = q.prior /\ u.result = q.result /\ u.restore = q.restore
  /\ u.reserved = q.reserved /\ u.unrestored = q.unrestored

(* So it does when it unwinds.                                             *)
LEMMA Unwinding ==
  ASSUME NEW r \in Requests, NEW q \in Request, Unwinds(r, q)
  PROVE  \E u \in Request : Goes(r, u) /\ WorkOver(u, q) /\ u.error = q.error
<1> DEFINE u == [q EXCEPT !.pc = AfterWork(q), !.reply = "none", !.want = None]
<1>1. AfterWork(q) \in {"restores", "finishes"} /\ (AfterWork(q) = "restores" => q.restore)
  BY DEF AfterWork
<1>2. u \in Request
  BY <1>1 DEF Request, Places, Replies
<1>3. WorkOver(u, q) /\ u.error = q.error
  BY <1>1 DEF Request, WorkOver
<1> HIDE DEF u
<1>4. Goes(r, u)
  BY DEF Unwinds, u
<1>5. QED
  BY <1>2, <1>3, <1>4

(* And when it fails, with an error.                                       *)
LEMMA Failing ==
  ASSUME NEW r \in Requests, NEW q \in Request, Fails(r, q)
  PROVE  \E u \in Request : Goes(r, u) /\ WorkOver(u, q) /\ u.error # "none"
<1> DEFINE e == [q EXCEPT !.error = IF @ = "none" THEN "error" ELSE @]
<1>1. e \in Request
  BY DEF Request, Errors
<1>2. /\ e.pc = q.pc /\ e.kind = q.kind /\ e.prior = q.prior /\ e.result = q.result /\ e.restore = q.restore
      /\ e.reserved = q.reserved /\ e.unrestored = q.unrestored /\ e.error # "none"
  BY DEF Request
<1> HIDE DEF e
<1>3. Unwinds(r, e)
  BY DEF Fails, e
<1>4. PICK u \in Request : Goes(r, u) /\ WorkOver(u, e) /\ u.error = e.error
  BY <1>1, <1>3, Unwinding
<1>5. QED
  BY <1>2, <1>4 DEF WorkOver

(* A handler posts a call, and waits for the answer.                       *)
LEMMA Posting ==
  ASSUME NEW r \in Requests, NEW m \in Models, NEW q \in Request, Posts(r, m, q),
         q.pc \in {"switching", "restoring", "generating"}
  PROVE  /\ \E u \in Request :
              /\ Goes(r, u) /\ u.reply = "waiting"
              /\ u.pc = q.pc /\ u.kind = q.kind /\ u.prior = q.prior /\ u.result = q.result /\ u.restore = q.restore
              /\ u.reserved = q.reserved /\ u.unrestored = q.unrestored /\ u.error = q.error
         /\ \E c \in Calls : c.of = q.pc /\ c.to = m /\ calls' = calls \cup {c}
<1> DEFINE u == [q EXCEPT !.reply = "waiting"]
           c == [to |-> m, for |-> r, of |-> q.pc]
<1>1. /\ u \in Request /\ u.reply = "waiting"
      /\ u.pc = q.pc /\ u.kind = q.kind /\ u.prior = q.prior /\ u.result = q.result /\ u.restore = q.restore
      /\ u.reserved = q.reserved /\ u.unrestored = q.unrestored /\ u.error = q.error
  BY DEF Request, Replies
<1>2. c \in Calls /\ c.of = q.pc /\ c.to = m
  BY DEF Calls
<1> HIDE DEF u, c
<1>3. Goes(r, u) /\ calls' = calls \cup {c}
  BY DEF Posts, u, c
<1>4. QED
  BY <1>1, <1>2, <1>3

-----------------------------------------------------------------------------
(* The prompts of the day.                                                 *)

(* A prompt that is given back was the account's own.                      *)
LEMMA Refunding ==
  ASSUME SlotTypes, NEW r \in Requests
  PROVE  /\ Refunded(r) \in [Requests -> 0 .. DailyLimit]
         /\ \A o \in Requests \ {r} : Refunded(r)[o] = used[o]
         /\ Refunded(r)[r] = IF req[r].reserved /\ used[r] > 0 THEN used[r] - 1 ELSE used[r]
<1>1. used[r] \in 0 .. DailyLimit /\ DailyLimit \in Nat
  BY LimitAssumption DEF SlotTypes
<1>2. (IF used[r] > 0 THEN used[r] - 1 ELSE 0) \in 0 .. DailyLimit
  BY <1>1
<1>3. QED
  BY <1>1, <1>2 DEF Refunded, OneLess, SlotTypes

-----------------------------------------------------------------------------
(* What a step of one handler has to show.                                 *)

(* It takes or leaves the slot, and draws on its own account.              *)
SlotStep(r) ==
  /\ SlotTypes' /\ holder' \in {holder, None, r}
  /\ \A o \in Requests \ {r} : used'[o] = used[o] /\ (o \in answered' <=> o \in answered)

(* It may ask the core for something.                                      *)
CoreStep(r) ==
  /\ UNCHANGED <<active, manager, disturbed>>
  /\ CoreTypes'
  /\ \A o \in flows' \ flows : o = r /\ Is(r, {"routing"})
  /\ \A c \in calls' \ calls : c.of = "restoring" => c.to = Orchestrator

(* Everything a step of a handler starts from.                             *)
LEMMA HandlerOfEach ==
  ASSUME IInv, NEW r \in Requests
  PROVE  /\ RequestTypes /\ SlotTypes /\ CoreTypes /\ req[r] \in Request
         /\ HandlerOf(req[r], used[r], r \in answered)
         /\ req[r].prior \in Nat
<1>1. /\ RequestTypes /\ SlotTypes /\ CoreTypes /\ req[r] \in Request
      /\ HandlerOf(req[r], used[r], r \in answered)
  BY TypeParts DEF IInv, Handlers, RequestTypes
<1>2. QED
  BY <1>1, LimitAssumption DEF Request

(* Then it is enough that its own account is in order, and that it is not  *)
(* its restore that has just been done.                                    *)
LEMMA HandlerStep ==
  ASSUME IInv, NEW r \in Requests, NEW q \in Request, Goes(r, q), SlotStep(r), CoreStep(r),
         q.kind = req[r].kind \/ At(r, "idle"), q.pc = "restoring" => q.reply # "ok",
         HandlerOf(q, used'[r], r \in answered')
  PROVE  IInv'
<1>1. RequestTypes /\ CoreTypes /\ HandlerOf(req[r], used[r], r \in answered)
  BY HandlerOfEach
<1>2. RequestTypes' /\ req'[r] = q /\ \A o \in Requests \ {r} : req'[o] = req[o]
  BY <1>1, GoingOn
<1>3. TypeOK'
  BY <1>2, TypeParts DEF SlotStep, CoreStep, TypeOK, RequestTypes, SlotTypes, CoreTypes, Request
<1>4. Handlers'
  <2>1. ASSUME NEW o \in Requests \ {r}
        PROVE  HandlerOf(req[o], used[o], o \in answered)'
    BY <1>2 DEF IInv, SlotStep, Handlers, HandlerOf, ReservedToGenerate, ChatKeepsWhatItDrew,
       OthersKeepWhatTheyDrew, Balanced, Shaped
  <2>2. HandlerOf(req[r], used[r], r \in answered)'
    BY <1>2
  <2>3. QED
    BY <2>1, <2>2 DEF Handlers
<1>5. CallsSound'
  BY DEF IInv, Restoration, CallsSound, CoreStep
<1>6. FlowsSound'
  <2>1. ASSUME NEW o \in flows' PROVE Is(o, {"routing"})'
    <3>1. CASE o # r
      BY <1>1, <1>2, <2>1, <3>1 DEF IInv, Restoration, FlowsSound, CoreStep, CoreTypes, Is
    <3>2. CASE o = r
      <4>1. Is(r, {"routing"})
        BY <2>1, <3>2 DEF IInv, Restoration, FlowsSound, CoreStep
      <4>2. ~At(r, "idle")
        BY <1>1, <4>1 DEF HandlerOf, Shaped, At, Is
      <4>3. QED
        BY <1>2, <3>2, <4>1, <4>2 DEF Is
    <3>3. QED
      BY <3>1, <3>2
  <2>2. QED
    BY <2>1 DEF FlowsSound
<1>7. RestoreLasts'
  <2>1. ASSUME NEW o \in Requests \ disturbed', At(o, "restoring")', req'[o].reply = "ok", Is(o, {"autochat"})',
               holder' = o
        PROVE  manager' = Idle /\ active' = Orchestrator
    <3>1. o # r
      BY <1>2, <2>1 DEF At
    <3>2. req'[o] = req[o] /\ holder = o /\ o \notin disturbed
      BY <1>2, <2>1, <3>1, ModelsAssumption DEF SlotStep, CoreStep
    <3>3. QED
      BY <2>1, <3>2 DEF IInv, Restoration, RestoreLasts, CoreStep, At, Is
  <2>2. QED
    BY <2>1 DEF RestoreLasts
<1>8. QED
  BY <1>3, <1>4, <1>5, <1>6, <1>7 DEF IInv, Restoration

(* A step that leaves the core, or the slot, alone.                        *)
LEMMA Alone ==
  ASSUME IInv, NEW r \in Requests
  PROVE  /\ UNCHANGED core => CoreStep(r)
         /\ UNCHANGED <<holder, beating, used, answered>> => SlotStep(r)
BY HandlerOfEach DEF core, CoreStep, SlotStep, CoreTypes, SlotTypes

(* One that asks the core for something.                                   *)
LEMMA Asking ==
  ASSUME IInv, NEW r \in Requests, UNCHANGED <<active, manager, disturbed>>,
         engine' \in {engine, r, None}, flows' = flows \/ (flows' = flows \cup {r} /\ Is(r, {"routing"})),
         \/ calls' = calls
         \/ \E c \in Calls : calls' = calls \cup {c} /\ (c.of = "restoring" => c.to = Orchestrator)
  PROVE  CoreStep(r)
<1>1. CoreTypes
  BY HandlerOfEach
<1>2. CoreTypes'
  BY <1>1 DEF CoreTypes
<1>3. QED
  BY <1>2 DEF CoreStep

(* One that gives a prompt back.                                           *)
LEMMA GivingBack ==
  ASSUME IInv, NEW r \in Requests, used' \in {used, Refunded(r)}, holder' \in {holder, None}, UNCHANGED answered,
         beating' \subseteq beating
  PROVE  SlotStep(r)
<1>1. SlotTypes
  BY HandlerOfEach
<1>2. SlotTypes' /\ \A o \in Requests \ {r} : used'[o] = used[o]
  BY <1>1, Refunding DEF SlotTypes
<1>3. QED
  BY <1>2 DEF SlotStep

-----------------------------------------------------------------------------
(* The slot.                                                               *)

(* A request arrives.                                                      *)
LEMMA ArrivalStep ==
  ASSUME IInv, NEW r \in Requests,
         ChatArrives(r) \/ VisionArrives(r) \/ OcrArrives(r) \/ WorkflowArrives(r) \/ LoadArrives(r)
  PROVE  IInv'
<1>1. PICK k \in Kinds, place \in {"waits", "over"} : Arrives(r, k, place)
  BY Zenon DEF ChatArrives, VisionArrives, OcrArrives, WorkflowArrives, LoadArrives, Chats, Visions, Kinds
<1>2. PICK n \in 0 .. DailyLimit : Goes(r, Fresh(place, k, n)) /\ used' = [used EXCEPT ![r] = n]
  BY <1>1, LimitAssumption DEF Arrives
<1> DEFINE q == Fresh(place, k, n)
<1>3. q \in Request /\ q.pc = place /\ q.kind = k /\ q.prior = n
      /\ ~q.reserved /\ ~q.unrestored /\ ~q.restore /\ q.error = "none" /\ q.result = "none"
  BY DEF Fresh, Request, Places, Replies, Errors
<1>4. SlotTypes /\ HandlerOf(req[r], used[r], r \in answered)
  BY HandlerOfEach
<1>5. UNCHANGED <<holder, beating, answered>> /\ UNCHANGED core /\ At(r, "idle")
  BY <1>1 DEF Arrives
<1>6. SlotStep(r) /\ CoreStep(r) /\ used'[r] = n
  BY <1>2, <1>4, <1>5, Alone DEF SlotTypes, SlotStep
<1>7. r \notin answered'
  BY <1>4, <1>5 DEF At, HandlerOf, ReservedToGenerate
<1> HIDE DEF q
<1>8. n \in Nat
  BY LimitAssumption
<1>9. HandlerOf(q, n, r \in answered')
  BY <1>3, <1>7, <1>8 DEF HandlerOf, Shaped, ReservedToGenerate, ChatKeepsWhatItDrew,
     OthersKeepWhatTheyDrew, Balanced, Before, Generating, After, Kinds
<1>10. Goes(r, q)
  BY <1>2 DEF q
<1>11. QED
  BY <1>3, <1>5, <1>6, <1>9, <1>10, HandlerStep

(* It gives up, or its turn comes.                                         *)
LEMMA TurnStep ==
  ASSUME IInv, NEW r \in Requests, GivesUp(r) \/ TakesTurn(r)
  PROVE  IInv'
<1>1. SlotTypes /\ req[r] \in Request /\ HandlerOf(req[r], used[r], r \in answered)
  BY HandlerOfEach
<1>2. PICK place \in {"over", "reserves", "checks"}, q \in Request :
        /\ Goes(r, q) /\ q.pc = place /\ (place = "reserves" => Is(r, Shielded))
        /\ q.kind = req[r].kind /\ q.prior = req[r].prior /\ q.error = req[r].error /\ q.result = req[r].result
        /\ q.reserved = req[r].reserved /\ q.unrestored = req[r].unrestored
        /\ q.restore => req[r].restore \/ Is(r, {"autovision"})
  <2>1. CASE GivesUp(r)
    <3> DEFINE q == [req[r] EXCEPT !.pc = "over"]
    <3>1. /\ q \in Request /\ q.pc = "over" /\ q.kind = req[r].kind /\ q.prior = req[r].prior
          /\ q.error = req[r].error /\ q.reserved = req[r].reserved /\ q.unrestored = req[r].unrestored
          /\ q.restore = req[r].restore /\ q.result = req[r].result
      BY <1>1 DEF Request, Places
    <3>2. QED
      BY <2>1, <3>1 DEF GivesUp
  <2>2. CASE TakesTurn(r)
    <3> DEFINE place == IF Is(r, Shielded) THEN "reserves" ELSE "checks"
               auto  == Is(r, {"autovision"})
               q     == [req[r] EXCEPT !.pc = place, !.restore = auto]
    <3>1. auto \in BOOLEAN
      BY DEF Is
    <3>2. place \in {"reserves", "checks"} /\ (place = "reserves" => Is(r, Shielded))
      OBVIOUS
    <3> HIDE DEF auto, place
    <3>3. /\ q \in Request /\ q.pc = place /\ q.kind = req[r].kind /\ q.prior = req[r].prior
          /\ q.error = req[r].error /\ q.reserved = req[r].reserved /\ q.unrestored = req[r].unrestored
          /\ q.restore = auto /\ q.result = req[r].result
      BY <1>1, <3>1, <3>2 DEF Request, Places
    <3> HIDE DEF q
    <3>4. Goes(r, q)
      BY <2>2 DEF TakesTurn, q, place, auto
    <3>5. q.restore => Is(r, {"autovision"})
      BY <3>3 DEF auto
    <3>6. QED
      BY <3>2, <3>3, <3>4, <3>5
  <2>3. QED
    BY <2>1, <2>2
<1>3. UNCHANGED <<used, answered>> /\ UNCHANGED core /\ At(r, "waits")
  BY DEF GivesUp, TakesTurn
<1>4. SlotStep(r) /\ CoreStep(r)
  BY <1>1, <1>3, Alone DEF GivesUp, TakesTurn, SlotTypes, SlotStep
<1>5. HandlerOf(q, used[r], r \in answered)
  BY <1>1, <1>2, <1>3 DEF HandlerOf, Shaped, ReservedToGenerate, ChatKeepsWhatItDrew,
     OthersKeepWhatTheyDrew, Balanced, Before, Generating, After, At, Is, Chats, Shielded, Request, Autos
<1>6. QED
  BY <1>2, <1>3, <1>4, <1>5, HandlerStep

(* Steps that change nothing a handler holds, but may take its slot.       *)
LEMMA NoHandlerMoves ==
  ASSUME IInv, UNCHANGED <<req, used, answered, active, manager, disturbed>>,
         holder' \in {holder, None}, beating' \subseteq beating,
         engine' \in {engine, None}, flows' \subseteq flows, calls' \subseteq calls
  PROVE  IInv'
<1>1. TypeOK'
  BY DEF IInv, TypeOK
<1>2. Handlers'
  BY DEF IInv, Handlers, HandlerOf, Shaped, ReservedToGenerate, ChatKeepsWhatItDrew,
     OthersKeepWhatTheyDrew, Balanced
<1>3. Restoration'
  BY ModelsAssumption DEF IInv, Restoration, CallsSound, FlowsSound, RestoreLasts, At, Is
<1>4. QED
  BY <1>1, <1>2, <1>3 DEF IInv

(* The lease runs out, or the heartbeat ends; or nothing happens.          *)
LEMMA LapseStep ==
  ASSUME IInv, UNCHANGED vars \/ \E r \in Requests : Lapses(r) \/ BeatFails(r)
  PROVE  IInv'
BY NoHandlerMoves DEF Lapses, BeatFails, vars, core

-----------------------------------------------------------------------------
(* The core.                                                               *)

(* All that an answer changes is a reply.                                  *)
LEMMA Replying ==
  ASSUME IInv, NEW r \in Requests, NEW reply \in Replies, req' = [req EXCEPT ![r].reply = reply]
  PROVE  \E q \in Request :
           /\ Goes(r, q) /\ q.pc = req[r].pc /\ q.kind = req[r].kind /\ q.reply = reply
           /\ \A n, done : HandlerOf(q, n, done) <=> HandlerOf(req[r], n, done)
<1>1. RequestTypes /\ req[r] \in Request
  BY HandlerOfEach
<1> DEFINE q == [req[r] EXCEPT !.reply = reply]
<1>2. /\ q \in Request /\ q.pc = req[r].pc /\ q.kind = req[r].kind /\ q.reply = reply /\ q.prior = req[r].prior
      /\ q.result = req[r].result /\ q.error = req[r].error /\ q.restore = req[r].restore
      /\ q.reserved = req[r].reserved /\ q.unrestored = req[r].unrestored
  BY <1>1 DEF Request
<1>3. Goes(r, q)
  BY <1>1 DEF Goes, RequestTypes
<1> HIDE DEF q
<1>4. \A n, done : HandlerOf(q, n, done) <=> HandlerOf(req[r], n, done)
  BY <1>2 DEF HandlerOf, Shaped, ReservedToGenerate, ChatKeepsWhatItDrew, OthersKeepWhatTheyDrew, Balanced
<1>5. QED
  BY <1>2, <1>3, <1>4

(* The portal hears of a generation or a workflow, or of nothing any more. *)
LEMMA CallEnds ==
  ASSUME IInv, NEW r \in Requests, EngineEnds(r) \/ WorkflowEnds(r) \/ CallFails(r)
  PROVE  IInv'
<1>1. /\ UNCHANGED <<holder, beating, used, answered, active, manager, disturbed, calls>>
      /\ engine' \in {engine, None} /\ flows' \subseteq flows
  BY DEF EngineEnds, WorkflowEnds, CallFails, core
<1>2. SlotStep(r) /\ CoreStep(r)
  BY <1>1, HandlerOfEach DEF SlotStep, CoreStep, SlotTypes, CoreTypes
<1>3. UNCHANGED req \/ \E reply \in Replies :
                         /\ req' = [req EXCEPT ![r].reply = reply]
                         /\ At(r, "restoring") => reply = "failed"
  <2>1. CASE EngineEnds(r)
    <3>1. PICK reply \in Replies : Generated(r, reply)
      BY <2>1 DEF EngineEnds, GenerationReplies, Replies
    <3>2. QED
      BY <3>1 DEF Generated, At
  <2>2. CASE WorkflowEnds(r)
    <3>1. PICK reply \in Replies : Generated(r, reply)
      BY <2>2 DEF WorkflowEnds, Replies
    <3>2. QED
      BY <3>1 DEF Generated, At
  <2>3. CASE CallFails(r)
    <3>1. RequestTypes
      BY HandlerOfEach
    <3>2. req' = [req EXCEPT ![r].reply = "failed"]
      BY <2>3, <3>1 DEF CallFails, Goes, RequestTypes
    <3>3. QED
      BY <3>2 DEF Replies
  <2>4. QED
    BY <2>1, <2>2, <2>3
<1>4. CASE UNCHANGED req
  BY <1>1, <1>4, NoHandlerMoves
<1>5. ASSUME NEW reply \in Replies, req' = [req EXCEPT ![r].reply = reply], At(r, "restoring") => reply = "failed"
      PROVE  IInv'
  <2>1. PICK q \in Request :
          /\ Goes(r, q) /\ q.pc = req[r].pc /\ q.kind = req[r].kind /\ q.reply = reply
          /\ \A n, done : HandlerOf(q, n, done) <=> HandlerOf(req[r], n, done)
    BY <1>5, Replying
  <2>2. HandlerOf(req[r], used'[r], r \in answered')
    BY <1>1, HandlerOfEach
  <2>3. HandlerOf(q, used'[r], r \in answered')
    BY <2>1, <2>2
  <2>4. QED
    BY <1>2, <1>5, <2>1, <2>3, HandlerStep DEF At
<1>6. QED
  BY <1>3, <1>4, <1>5

(* What an answer of the manager to a call changes of what handlers hold.  *)
AnsweredOnly(c, reply) ==
  \A o \in Requests :
    /\ req'[o].pc = req[o].pc /\ req'[o].kind = req[o].kind /\ req'[o].prior = req[o].prior
    /\ req'[o].error = req[o].error /\ req'[o].restore = req[o].restore /\ req'[o].result = req[o].result
    /\ req'[o].reserved = req[o].reserved /\ req'[o].unrestored = req[o].unrestored
    /\ req'[o].reply = IF o = c.for /\ Awaited(c) THEN reply ELSE req[o].reply

(* It changes a reply, and only that of a handler that waits for it.       *)
LEMMA AnswerChangesReplies ==
  ASSUME RequestTypes, NEW c \in Calls, NEW reply \in Replies, Answers(c, reply)
  PROVE  RequestTypes' /\ AnsweredOnly(c, reply)
<1> DEFINE f == c.for
<1>1. f \in Requests
  BY DEF Calls
<1>2. CASE Awaited(c)
  <2> DEFINE q == [req[f] EXCEPT !.reply = reply]
  <2>1. /\ q \in Request /\ q.pc = req[f].pc /\ q.kind = req[f].kind /\ q.reply = reply /\ q.prior = req[f].prior
        /\ q.result = req[f].result /\ q.error = req[f].error /\ q.restore = req[f].restore
        /\ q.reserved = req[f].reserved /\ q.unrestored = req[f].unrestored
    BY <1>1 DEF Request, RequestTypes
  <2>2. Goes(f, q)
    BY <1>1, <1>2 DEF Answers, Goes, RequestTypes
  <2> HIDE DEF q
  <2>3. RequestTypes' /\ req'[f] = q /\ \A o \in Requests \ {f} : req'[o] = req[o]
    BY <1>1, <2>1, <2>2, GoingOn
  <2>4. QED
    BY <1>2, <2>1, <2>3 DEF AnsweredOnly
<1>3. CASE ~Awaited(c)
  BY <1>3 DEF Answers, RequestTypes, AnsweredOnly
<1>4. QED
  BY <1>2, <1>3

(* So what is said of prompts and answers is kept.                         *)
LEMMA AnswerKeepsHandlers ==
  ASSUME IInv, NEW c, NEW reply, AnsweredOnly(c, reply), UNCHANGED <<used, answered, flows>>
  PROVE  Handlers' /\ FlowsSound'
<1>1. Handlers'
  BY DEF IInv, AnsweredOnly, Handlers, HandlerOf, Shaped, ReservedToGenerate, ChatKeepsWhatItDrew,
     OthersKeepWhatTheyDrew, Balanced
<1>2. FlowsSound'
  BY TypeParts DEF IInv, CoreTypes, AnsweredOnly, Restoration, FlowsSound, Is
<1>3. QED
  BY <1>1, <1>2

(* The manager answers c: that it loaded the model only if it is there.    *)
LEMMA ManagerAnswers ==
  ASSUME IInv, NEW c \in Calls, NEW reply \in {"ok", "failed"}, Answers(c, reply),
         c.of = "restoring" => c.to = Orchestrator,
         reply = "ok" => manager' = Idle /\ active' = c.to,
         manager' \in {manager, Idle}, manager = Idle => active' = active,
         active' \in Models \cup {None}, engine' \in {engine, None}, calls' \subseteq calls,
         UNCHANGED <<holder, beating, used, answered, flows, disturbed>>
  PROVE  IInv'
<1>1. RequestTypes /\ SlotTypes /\ CoreTypes
  BY TypeParts DEF IInv
<1>2. RequestTypes' /\ AnsweredOnly(c, reply)
  BY <1>1, AnswerChangesReplies DEF Replies
<1>3. SlotTypes' /\ CoreTypes'
  BY <1>1 DEF SlotTypes, CoreTypes
<1>4. TypeOK'
  BY <1>2, <1>3, TypeParts DEF TypeOK, RequestTypes, SlotTypes, CoreTypes, Request
<1>5. Handlers' /\ FlowsSound'
  BY <1>2, AnswerKeepsHandlers
<1>6. CallsSound'
  <2>1. Idle.of # "restoring"
    BY DEF Idle
  <2>2. QED
    BY <2>1 DEF IInv, Restoration, CallsSound
<1>7. RestoreLasts'
  <2>1. ASSUME NEW o \in Requests \ disturbed', At(o, "restoring")', req'[o].reply = "ok", Is(o, {"autochat"})',
               holder' = o
        PROVE  manager' = Idle /\ active' = Orchestrator
    <3>1. At(o, "restoring") /\ Is(o, {"autochat"}) /\ holder = o /\ o \notin disturbed
      BY <1>2, <2>1 DEF AnsweredOnly, At, Is
    <3>2. CASE req[o].reply = "ok"
      BY <2>1, <3>1, <3>2 DEF IInv, Restoration, RestoreLasts
    <3>3. CASE req[o].reply # "ok"
      <4>1. o = c.for /\ Awaited(c) /\ reply = "ok"
        BY <1>2, <2>1, <3>3 DEF AnsweredOnly
      <4>2. c.of = "restoring"
        BY <3>1, <4>1 DEF Awaited, At
      <4>3. QED
        BY <4>1, <4>2
    <3>4. QED
      BY <3>2, <3>3
  <2>2. QED
    BY <2>1 DEF RestoreLasts
<1>8. QED
  BY <1>4, <1>5, <1>6, <1>7 DEF IInv, Restoration

(* Something begins to load a model, for r who waits for it or not: the    *)
(* chats whose turn it is and who do not wait for it are remembered.       *)
LEMMA LoadBegins ==
  ASSUME IInv, NEW r \in Requests, NEW awaited \in BOOLEAN,
         awaited => ~(Is(r, {"autochat"}) /\ At(r, "restoring") /\ req[r].reply = "ok"),
         disturbed' = disturbed \cup Victims(r, awaited),
         CoreTypes', CallsSound', UNCHANGED <<req, holder, beating, used, answered, flows>>
  PROVE  IInv'
<1>1. RequestTypes' /\ SlotTypes'
  BY HandlerOfEach DEF RequestTypes, SlotTypes
<1>2. TypeOK'
  BY <1>1, TypeParts DEF TypeOK, RequestTypes, SlotTypes, CoreTypes, Request
<1>3. Handlers' /\ FlowsSound'
  BY DEF IInv, Handlers, HandlerOf, Shaped, ReservedToGenerate, ChatKeepsWhatItDrew,
     OthersKeepWhatTheyDrew, Balanced, Restoration, FlowsSound, Is
<1>4. ASSUME NEW o \in Requests \ disturbed', At(o, "restoring")', req'[o].reply = "ok", Is(o, {"autochat"})',
             holder' = o
      PROVE  FALSE
  <2>1. o = r /\ awaited
    BY <1>4 DEF Victims, Is
  <2>2. QED
    BY <1>4, <2>1 DEF At, Is
<1>5. QED
  BY <1>2, <1>3, <1>4 DEF IInv, Restoration, RestoreLasts

(* A workflow under way loads a model.                                     *)
LEMMA WorkflowStep ==
  ASSUME IInv, NEW r \in Requests, WorkflowSwitches(r)
  PROVE  IInv'
<1>1. CoreTypes /\ Is(r, {"routing"})
  BY HandlerOfEach DEF WorkflowSwitches, IInv, Restoration, FlowsSound
<1>2. Victims(r, TRUE) \subseteq Requests
  BY DEF Victims
<1>3. CoreTypes' /\ CallsSound'
  BY <1>1, <1>2 DEF WorkflowSwitches, CoreTypes, IInv, Restoration, CallsSound
<1>4. ~Is(r, {"autochat"})
  BY <1>1 DEF Is
<1>5. QED
  BY <1>3, <1>4, LoadBegins DEF WorkflowSwitches

(* The manager takes a call, or it is lost; and its transaction ends.      *)
LEMMA ManagerStep ==
  ASSUME IInv, ManagerWorks \/ \E c \in calls : CallLost(c)
  PROVE  IInv'
<1>1. CoreTypes
  BY TypeParts DEF IInv
<1>2. ASSUME NEW c \in Calls PROVE EngineWithout(c) \in {engine, None} /\ c # Idle
  BY ModelsAssumption DEF EngineWithout, Calls, Idle
<1>3. CASE ManagerEnds
  <2>1. manager \in Calls /\ manager # Idle
    BY <1>1, <1>3 DEF ManagerEnds, CoreTypes
  <2>2. manager.of = "restoring" => manager.to = Orchestrator
    BY DEF IInv, Restoration, CallsSound
  <2>3. PICK reply \in {"ok", "failed"} :
          /\ Answers(manager, reply) /\ active' \in Models \cup {None} /\ (reply = "ok" => active' = manager.to)
    BY <1>3, <2>1 DEF ManagerEnds, Calls
  <2>4. manager' = Idle /\ engine' \in {engine, None} /\ UNCHANGED <<holder, beating, used, answered, flows, calls, disturbed>>
    BY <1>2, <1>3, <2>1 DEF ManagerEnds
  <2>5. QED
    BY <2>1, <2>2, <2>3, <2>4, ManagerAnswers
<1>4. ASSUME NEW c \in calls, ManagerTakes(c) \/ CallLost(c)
      PROVE  IInv'
  <2>1. c \in Calls /\ (c.of = "restoring" => c.to = Orchestrator)
    BY <1>1 DEF CoreTypes, IInv, Restoration, CallsSound
  <2>2. /\ calls' = calls \ {c} /\ UNCHANGED <<holder, beating, used, answered, flows>>
        /\ engine' \in {engine, None}
    BY <1>2, <1>4, <2>1 DEF ManagerTakes, CallLost
  <2>3. CASE Answers(c, "failed") /\ UNCHANGED <<active, manager, disturbed>>
    BY <1>1, <2>1, <2>2, <2>3, ManagerAnswers DEF CoreTypes
  <2>4. CASE Answers(c, "ok") /\ UNCHANGED <<active, manager, disturbed>> /\ manager = Idle /\ active = c.to
    BY <1>1, <2>1, <2>2, <2>4, ManagerAnswers DEF CoreTypes
  <2>5. CASE /\ manager' = c /\ active' = None /\ disturbed' = disturbed \cup Victims(c.for, Awaited(c))
             /\ UNCHANGED <<req, engine>>
    <3> DEFINE awaited == Awaited(c)
    <3>1. c.for \in Requests /\ awaited \in BOOLEAN
      BY <2>1 DEF Calls, Awaited, At
    <3>2. awaited => req[c.for].reply # "ok"
      BY DEF Awaited
    <3>3. Victims(c.for, awaited) \subseteq Requests
      BY DEF Victims
    <3> HIDE DEF awaited
    <3>4. CoreTypes'
      BY <1>1, <2>1, <2>2, <2>5, <3>3 DEF CoreTypes, awaited
    <3>5. CallsSound'
      BY <2>1, <2>2, <2>5 DEF IInv, Restoration, CallsSound
    <3>6. disturbed' = disturbed \cup Victims(c.for, awaited)
      BY <2>5 DEF awaited
    <3>7. QED
      BY <2>2, <2>5, <3>1, <3>2, <3>4, <3>5, <3>6, LoadBegins
  <2>6. QED
    BY <1>4, <2>3, <2>4, <2>5 DEF ManagerTakes, CallLost
<1>5. QED
  BY <1>3, <1>4 DEF ManagerWorks

-----------------------------------------------------------------------------
(* The handlers, before they generate.                                     *)

(* What a handler goes on with is the same request of the same account.    *)
SameRequest(r, q) ==
  /\ q \in Request /\ q.kind = req[r].kind /\ q.prior = req[r].prior /\ q.result = req[r].result
  /\ q.unrestored = req[r].unrestored /\ q.reserved = req[r].reserved /\ q.error = req[r].error
  /\ q.restore => Is(r, Autos)

(* A request as it is.                                                     *)
LEMMA AsItIs ==
  ASSUME IInv, NEW r \in Requests
  PROVE  SameRequest(r, req[r])
BY HandlerOfEach DEF SameRequest, HandlerOf, Shaped, Is

(* A handler that can do no more leaves its account as it has to be.       *)
LEMMA WorkEnds ==
  ASSUME IInv, NEW r \in Requests,
         req[r].pc \in {"checks", "switching", "reserves", "generates", "generating"},
         NEW q \in Request, NEW u \in Request, Goes(r, u), WorkOver(u, q),
         q.kind = req[r].kind, q.prior = req[r].prior, q.unrestored = req[r].unrestored, q.restore => Is(r, Autos),
         SlotStep(r), UNCHANGED answered, UNCHANGED core,
         Is(r, Chats) => IF q.reserved
                           THEN u.error = "none" /\ q.result \in {"ok", "empty", "noChart", "status"}
                           ELSE u.error # "none",
         Is(r, {"routing"}) => IF q.reserved THEN u.error \in {"none", "late"} /\ q.result = "ok" ELSE u.error # "none",
         Is(r, {"load"}) => ~q.reserved /\ q.result = "none",
         Is(r, Counted) => used'[r] = q.prior + IF q.reserved THEN 1 ELSE 0
  PROVE  IInv'
<1>1. HandlerOf(req[r], used[r], r \in answered) /\ CoreStep(r)
  BY HandlerOfEach, Alone
<1>2. ~q.unrestored /\ r \notin answered' /\ req[r].kind # "none"
  BY <1>1 DEF HandlerOf, ReservedToGenerate, Shaped, Before, Generating
<1>3. HandlerOf(u, used'[r], r \in answered')
  BY <1>2 DEF HandlerOf, Shaped, ReservedToGenerate, ChatKeepsWhatItDrew, OthersKeepWhatTheyDrew,
     Balanced, WorkOver, Before, Generating, After, Is, Counted, Chats
<1>4. u.kind = req[r].kind /\ u.pc # "restoring"
  BY DEF WorkOver
<1>5. QED
  BY <1>1, <1>3, <1>4, HandlerStep

(* One that fails before it drew a prompt.                                 *)
LEMMA EarlyFailure ==
  ASSUME IInv, NEW r \in Requests, req[r].pc \in {"checks", "switching", "reserves"},
         NEW q, SameRequest(r, q), Fails(r, q), UNCHANGED <<holder, beating, used, answered>>, UNCHANGED core
  PROVE  IInv'
<1>1. HandlerOf(req[r], used[r], r \in answered) /\ SlotStep(r) /\ req[r].prior \in Nat
  BY HandlerOfEach, Alone
<1>2. PICK u \in Request : Goes(r, u) /\ WorkOver(u, q) /\ u.error # "none"
  BY Failing DEF SameRequest
<1>3. ~req[r].reserved /\ (Is(r, Counted) => used[r] = req[r].prior) /\ (Is(r, {"load"}) => req[r].result = "none")
  BY <1>1 DEF HandlerOf, ReservedToGenerate, Before, Balanced, OthersKeepWhatTheyDrew, Is
<1>4. QED
  BY <1>1, <1>2, <1>3, WorkEnds DEF SameRequest

(* One that goes on before it draws one.                                   *)
LEMMA EarlyGo ==
  ASSUME IInv, NEW r \in Requests, req[r].pc \in {"checks", "switching"}, NEW q, SameRequest(r, q), Goes(r, q),
         q.pc = "switching" \/ (q.pc = "reserves" /\ ~Is(r, {"load"})),
         UNCHANGED <<holder, beating, used, answered>>, CoreStep(r)
  PROVE  IInv'
<1>1. HandlerOf(req[r], used[r], r \in answered) /\ SlotStep(r)
  BY HandlerOfEach, Alone
<1>2. HandlerOf(q, used'[r], r \in answered')
  BY <1>1 DEF SameRequest, HandlerOf, Shaped, ReservedToGenerate, ChatKeepsWhatItDrew, OthersKeepWhatTheyDrew,
     Balanced, Before, Generating, After, Is
<1>3. QED
  BY <1>1, <1>2, HandlerStep DEF SameRequest

(* One that has its model loaded.                                          *)
LEMMA EarlySwitch ==
  ASSUME IInv, NEW r \in Requests, At(r, "checks"), NEW m \in Models, NEW q, SameRequest(r, q),
         q.pc = "switching", CallsSwitch(r, m, q), UNCHANGED <<holder, beating, used, answered>>
  PROVE  IInv'
<1>1. PICK u \in Request :
        /\ Goes(r, u) /\ u.pc = q.pc /\ u.kind = q.kind /\ u.prior = q.prior /\ u.result = q.result
        /\ u.restore = q.restore /\ u.reserved = q.reserved /\ u.unrestored = q.unrestored /\ u.error = q.error
  BY Posting DEF CallsSwitch, SameRequest
<1>2. PICK c \in Calls : c.of = q.pc /\ calls' = calls \cup {c}
  BY Posting DEF CallsSwitch, SameRequest
<1>3. CoreStep(r)
  BY <1>2, Asking DEF CallsSwitch
<1>4. SameRequest(r, u)
  BY <1>1 DEF SameRequest
<1>5. QED
  BY <1>1, <1>3, <1>4, EarlyGo DEF At

(* Account, grant and live model are read again.                           *)
LEMMA CheckStep ==
  ASSUME IInv, NEW r \in Requests, Checks(r)
  PROVE  IInv'
<1>1. At(r, "checks") /\ UNCHANGED <<holder, beating, used, answered>>
  BY DEF Checks
<1>2. CASE Denied(r)
  BY <1>1, <1>2, AsItIs, EarlyFailure DEF Denied, At
<1>3. ASSUME NEW m \in Models, NEW restore \in BOOLEAN, restore => Is(r, Autos),
             LET q == [req[r] EXCEPT !.want = m, !.restore = restore] IN
             \/ ~Is(r, {"load"}) /\ Goes(r, [q EXCEPT !.pc = "reserves"]) /\ UNCHANGED core
             \/ Fails(r, q) /\ UNCHANGED core
             \/ CallsSwitch(r, m, [q EXCEPT !.pc = "switching"])
      PROVE  IInv'
  <2> DEFINE q == [req[r] EXCEPT !.want = m, !.restore = restore]
             g == [q EXCEPT !.pc = "reserves"]
             s == [q EXCEPT !.pc = "switching"]
  <2>1. SameRequest(r, q) /\ SameRequest(r, g) /\ g.pc = "reserves" /\ SameRequest(r, s) /\ s.pc = "switching"
    BY <1>3, HandlerOfEach DEF SameRequest, Request, Places
  <2>2. \/ ~Is(r, {"load"}) /\ Goes(r, g) /\ UNCHANGED core
        \/ Fails(r, q) /\ UNCHANGED core
        \/ CallsSwitch(r, m, s)
    BY <1>3
  <2> HIDE DEF q, g, s
  <2>3. UNCHANGED core => CoreStep(r)
    BY Alone
  <2>4. QED
    BY <1>1, <2>1, <2>2, <2>3, EarlyGo, EarlyFailure, EarlySwitch DEF At
<1>4. CASE Is(r, Chats) /\ ChecksChat(r)
  <2>1. PICK m \in Models :
          LET q == [req[r] EXCEPT !.want = m, !.restore = Is(r, {"autochat"}) /\ m # Orchestrator] IN
          \/ active = m /\ Goes(r, [q EXCEPT !.pc = "reserves"]) /\ UNCHANGED core
          \/ active # m /\ ~(Is(r, {"autochat"}) /\ Live(r)) /\ Fails(r, q) /\ UNCHANGED core
          \/ active # m /\ Is(r, {"autochat"}) /\ Live(r) /\ CallsSwitch(r, m, [q EXCEPT !.pc = "switching"])
    BY <1>4, Zenon DEF ChecksChat
  <2> DEFINE restore == Is(r, {"autochat"}) /\ m # Orchestrator
  <2>2. restore \in BOOLEAN /\ ~Is(r, {"load"}) /\ (restore => Is(r, Autos))
    BY <1>4 DEF Is, Chats, Autos
  <2>3. LET q == [req[r] EXCEPT !.want = m, !.restore = restore] IN
        \/ ~Is(r, {"load"}) /\ Goes(r, [q EXCEPT !.pc = "reserves"]) /\ UNCHANGED core
        \/ Fails(r, q) /\ UNCHANGED core
        \/ CallsSwitch(r, m, [q EXCEPT !.pc = "switching"])
    BY <2>1, <2>2, Zenon
  <2> HIDE DEF restore
  <2>4. QED
    BY <1>3, <2>2, <2>3
<1>5. ASSUME NEW m \in Models,
             LET q == [req[r] EXCEPT !.want = m] IN
             \/ ~Is(r, {"load"}) /\ Goes(r, [q EXCEPT !.pc = "reserves"]) /\ UNCHANGED core
             \/ Fails(r, q) /\ UNCHANGED core
             \/ CallsSwitch(r, m, [q EXCEPT !.pc = "switching"])
      PROVE  IInv'
  <2>1. req[r].restore \in BOOLEAN /\ (req[r].restore => Is(r, Autos))
    BY HandlerOfEach DEF HandlerOf, Shaped, Is, Request
  <2>2. [req[r] EXCEPT !.want = m] = [req[r] EXCEPT !.want = m, !.restore = req[r].restore]
    BY HandlerOfEach DEF Request
  <2>3. QED
    BY <1>3, <1>5, <2>1, <2>2
<1>6. CASE Is(r, Visions) /\ ChecksVision(r)
  <2>1. ~Is(r, {"load"})
    BY <1>6 DEF Is, Visions
  <2>2. PICK m \in Models :
             LET q == [req[r] EXCEPT !.want = m] IN
             \/ Goes(r, [q EXCEPT !.pc = "reserves"]) /\ UNCHANGED core
             \/ Fails(r, q) /\ UNCHANGED core
             \/ CallsSwitch(r, m, [q EXCEPT !.pc = "switching"])
    BY <1>6, Zenon DEF ChecksVision
  <2>3. QED
    BY <1>5, <2>1, <2>2
<1>7. CASE Is(r, {"load"}) /\ LoadsModel(r)
  <2>1. PICK m \in Models : CallsSwitch(r, m, [req[r] EXCEPT !.want = m, !.pc = "switching"])
    BY <1>7 DEF LoadsModel
  <2>2. [req[r] EXCEPT !.want = m, !.pc = "switching"] = [[req[r] EXCEPT !.want = m] EXCEPT !.pc = "switching"]
    BY HandlerOfEach DEF Request
  <2>3. QED
    BY <1>5, <2>1, <2>2
<1>8. QED
  BY <1>2, <1>4, <1>6, <1>7 DEF Checks

(* The model is loaded, or not.                                            *)
LEMMA SwitchedStep ==
  ASSUME IInv, NEW r \in Requests, Switched(r)
  PROVE  IInv'
<1>1. At(r, "switching") /\ UNCHANGED <<holder, beating, used, answered>> /\ UNCHANGED core
  BY DEF Switched
<1>2. CASE Fails(r, req[r])
  BY <1>1, <1>2, AsItIs, EarlyFailure DEF At
<1>3. ASSUME NEW place \in {"finishes", "reserves"}, place = "finishes" <=> Is(r, {"load"}),
             Goes(r, [req[r] EXCEPT !.reply = "none", !.pc = place])
      PROVE  IInv'
  <2> DEFINE q == [req[r] EXCEPT !.reply = "none", !.pc = place]
  <2>1. SameRequest(r, q) /\ q.pc = place
    BY HandlerOfEach, AsItIs DEF SameRequest, Request, Places, Replies
  <2>2. Goes(r, q)
    BY <1>3
  <2> HIDE DEF q
  <2>3. HandlerOf(req[r], used[r], r \in answered) /\ SlotStep(r) /\ CoreStep(r)
    BY <1>1, HandlerOfEach, Alone
  <2>4. CASE place = "reserves"
    BY <1>1, <1>3, <2>1, <2>2, <2>3, <2>4, EarlyGo DEF At
  <2>5. CASE place = "finishes"
    <3>1. HandlerOf(q, used'[r], r \in answered')
      BY <1>1, <1>3, <2>1, <2>3, <2>5 DEF SameRequest, HandlerOf, Shaped, ReservedToGenerate, ChatKeepsWhatItDrew,
         OthersKeepWhatTheyDrew, Balanced, Before, Generating, After, Is, Chats, At, Autos
    <3>2. QED
      BY <2>1, <2>2, <2>3, <2>5, <3>1, HandlerStep DEF SameRequest
  <2>6. QED
    BY <2>4, <2>5
<1>4. CASE Goes(r, [req[r] EXCEPT !.reply = "none", !.pc = IF Is(r, {"load"}) THEN "finishes" ELSE "reserves"])
  <2> DEFINE place == IF Is(r, {"load"}) THEN "finishes" ELSE "reserves"
  <2>1. place \in {"finishes", "reserves"} /\ (place = "finishes" <=> Is(r, {"load"}))
    OBVIOUS
  <2>2. Goes(r, [req[r] EXCEPT !.reply = "none", !.pc = place])
    BY <1>4
  <2> HIDE DEF place
  <2>3. QED
    BY <1>3, <2>1, <2>2
<1>5. QED
  BY <1>2, <1>4 DEF Switched

(* A prompt is drawn, within the day's limit.                              *)
LEMMA ReservationStep ==
  ASSUME IInv, NEW r \in Requests, Reserves(r)
  PROVE  IInv'
<1>1. /\ SlotTypes /\ req[r] \in Request /\ req[r].prior \in Nat
      /\ HandlerOf(req[r], used[r], r \in answered)
  BY HandlerOfEach
<1>2. At(r, "reserves") /\ UNCHANGED <<holder, beating, answered>> /\ UNCHANGED core
  BY DEF Reserves
<1>3. CASE Fails(r, req[r]) /\ UNCHANGED used
  BY <1>2, <1>3, AsItIs, EarlyFailure DEF At
<1>4. CASE /\ WithinLimit(r) /\ used' = [used EXCEPT ![r] = @ + 1]
           /\ Goes(r, [req[r] EXCEPT !.pc = "generates", !.reserved = TRUE])
  <2> DEFINE q == [req[r] EXCEPT !.pc = "generates", !.reserved = TRUE]
  <2>1. /\ q \in Request /\ q.kind = req[r].kind /\ q.prior = req[r].prior /\ q.error = req[r].error
        /\ q.pc = "generates" /\ q.reserved /\ q.unrestored = req[r].unrestored /\ q.restore = req[r].restore
    BY <1>1 DEF Request, Places
  <2>2. Goes(r, q)
    BY <1>4
  <2> HIDE DEF q
  <2>3. used[r] \in Nat /\ used[r] + 1 \in 0 .. DailyLimit
    BY <1>1, <1>4, LimitAssumption DEF SlotTypes, WithinLimit
  <2>4. SlotTypes' /\ used'[r] = used[r] + 1 /\ \A o \in Requests \ {r} : used'[o] = used[o]
    BY <1>1, <1>2, <1>4, <2>3 DEF SlotTypes
  <2>5. SlotStep(r) /\ CoreStep(r)
    BY <1>2, <2>4, Alone DEF SlotStep
  <2>6. HandlerOf(q, used'[r], r \in answered')
    BY <1>1, <1>2, <2>1, <2>3, <2>4 DEF HandlerOf, Shaped, ReservedToGenerate, ChatKeepsWhatItDrew,
       OthersKeepWhatTheyDrew, Balanced, Before, Generating, After, At
  <2>7. QED
    BY <2>1, <2>2, <2>5, <2>6, HandlerStep
<1>5. QED
  BY <1>3, <1>4 DEF Reserves

-----------------------------------------------------------------------------
(* The handlers, while the core generates.                                 *)

(* A prompt that is still drawn stays so.                                  *)
LEMMA GeneratingStep ==
  ASSUME IInv, NEW r \in Requests, req[r].pc \in Generating, NEW q \in Request, Goes(r, q),
         q.pc \in Generating, q.kind = req[r].kind, q.prior = req[r].prior, q.restore = req[r].restore,
         q.error = req[r].error \/ (q.error = "cancelled" /\ ~Is(r, Chats)),
         q.reserved = req[r].reserved, q.unrestored = req[r].unrestored,
         UNCHANGED <<holder, beating, used, answered>>, CoreStep(r)
  PROVE  IInv'
<1>1. HandlerOf(req[r], used[r], r \in answered) /\ SlotStep(r)
  BY HandlerOfEach, Alone
<1>2. HandlerOf(q, used'[r], r \in answered')
  BY <1>1 DEF HandlerOf, Shaped, ReservedToGenerate, ChatKeepsWhatItDrew, OthersKeepWhatTheyDrew,
     Balanced, Before, Generating, After, Is
<1>3. QED
  BY <1>1, <1>2, HandlerStep DEF Generating

(* What a handler that draws on its prompt has to do with it.              *)
LEMMA DrawnPrompt ==
  ASSUME IInv, NEW r \in Requests, req[r].pc \in Generating
  PROVE  /\ req[r].reserved /\ ~req[r].unrestored /\ r \notin answered /\ ~Is(r, {"load"})
         /\ Is(r, Chats) => req[r].error = "none"
         /\ Is(r, {"routing"}) => req[r].error \in {"none", "cancelled"}
         /\ req[r].restore => Is(r, Autos)
         /\ req[r].prior \in Nat
         /\ Is(r, Counted) => used[r] = req[r].prior + 1 /\ Refunded(r)[r] = req[r].prior
<1>1. SlotTypes /\ HandlerOf(req[r], used[r], r \in answered) /\ req[r].prior \in Nat
  BY HandlerOfEach
<1>2. /\ req[r].reserved /\ ~req[r].unrestored /\ r \notin answered /\ ~Is(r, {"load"})
      /\ Is(r, Chats) => req[r].error = "none"
      /\ Is(r, {"routing"}) => req[r].error \in {"none", "cancelled"}
      /\ req[r].restore => Is(r, Autos)
  BY <1>1 DEF HandlerOf, Shaped, ReservedToGenerate, ChatKeepsWhatItDrew, OthersKeepWhatTheyDrew, Is, Generating
<1>3. Is(r, Counted) => used[r] = req[r].prior + 1
  BY <1>1, <1>2 DEF HandlerOf, Balanced, Is, Generating
<1>4. QED
  BY <1>1, <1>2, <1>3, Refunding

(* The request goes to the core.                                           *)
LEMMA GenerationStep ==
  ASSUME IInv, NEW r \in Requests, Generates(r)
  PROVE  IInv'
<1>1. req[r] \in Request
  BY HandlerOfEach
<1>2. At(r, "generates") /\ UNCHANGED <<holder, beating, used, answered>>
  BY DEF Generates
<1>3. ASSUME NEW reply \in Replies, Asks(r, reply), CoreStep(r)
      PROVE  IInv'
  <2> DEFINE q == [req[r] EXCEPT !.pc = "generating", !.reply = reply]
  <2>1. /\ q \in Request /\ q.pc = "generating" /\ q.kind = req[r].kind /\ q.prior = req[r].prior
        /\ q.error = req[r].error /\ q.reserved = req[r].reserved /\ q.unrestored = req[r].unrestored
        /\ q.restore = req[r].restore
    BY <1>1 DEF Request, Places
  <2>2. Goes(r, q)
    BY <1>3 DEF Asks
  <2> HIDE DEF q
  <2>3. QED
    BY <1>2, <1>3, <2>1, <2>2, GeneratingStep DEF At, Generating
<1>4. CASE Is(r, {"ocr"}) /\ CallsOcr(r)
  <2> DEFINE q == [req[r] EXCEPT !.pc = "generating"]
  <2>1. /\ q \in Request /\ q.pc = "generating" /\ q.kind = req[r].kind /\ q.prior = req[r].prior
        /\ q.error = req[r].error /\ q.reserved = req[r].reserved /\ q.unrestored = req[r].unrestored
        /\ q.restore = req[r].restore
    BY <1>1 DEF Request, Places
  <2>2. Posts(r, Orchestrator, q)
    BY <1>4 DEF CallsOcr
  <2> HIDE DEF q
  <2>3. PICK u \in Request :
          /\ Goes(r, u) /\ u.pc = q.pc /\ u.kind = q.kind /\ u.prior = q.prior /\ u.restore = q.restore
          /\ u.reserved = q.reserved /\ u.unrestored = q.unrestored /\ u.error = q.error
    BY <2>1, <2>2, Posting, ModelsAssumption
  <2>4. PICK c \in Calls : c.to = Orchestrator /\ calls' = calls \cup {c}
    BY <2>1, <2>2, Posting, ModelsAssumption
  <2>5. CoreStep(r)
    BY <1>4, <2>4, Asking DEF CallsOcr
  <2>6. QED
    BY <1>2, <2>1, <2>3, <2>5, GeneratingStep DEF At, Generating
<1>5. CASE Asks(r, "failed") /\ UNCHANGED core
  BY <1>3, <1>5, Alone DEF Replies
<1>6. CASE CallsEngine(r)
  <2>1. PICK reply \in Replies : Asks(r, reply)
    BY <1>6 DEF CallsEngine, Replies
  <2>2. CoreStep(r)
    BY <1>6, Asking DEF CallsEngine, core
  <2>3. QED
    BY <1>3, <2>1, <2>2
<1>7. CASE Is(r, {"routing"}) /\ CallsWorkflow(r)
  BY <1>3, <1>7, Asking DEF CallsWorkflow, Replies
<1>8. QED
  BY <1>4, <1>5, <1>6, <1>7 DEF Generates

(* A handler that gives its prompt back, and fails or is cancelled.        *)
LEMMA GivesPromptBack ==
  ASSUME IInv, NEW r \in Requests, req[r].pc \in Generating,
         NEW q \in Request, NEW u \in Request, Goes(r, u), WorkOver(u, q), u.error # "none",
         q.kind = req[r].kind, q.prior = req[r].prior, q.unrestored = req[r].unrestored,
         q.restore = req[r].restore, Is(r, Counted) => ~q.reserved,
         used' = Refunded(r), UNCHANGED <<holder, beating, answered>>, UNCHANGED core
  PROVE  IInv'
<1>1. SlotStep(r)
  BY GivingBack
<1>2. /\ ~Is(r, {"load"}) /\ (q.restore => Is(r, Autos)) /\ req[r].prior \in Nat
      /\ (Is(r, Counted) => used'[r] = req[r].prior)
  BY DrawnPrompt
<1>3. Is(r, Chats) \/ Is(r, {"routing"}) => Is(r, Counted)
  BY DEF Is, Chats, Counted
<1>4. QED
  BY <1>1, <1>2, <1>3, WorkEnds DEF Generating

(* A request without its reservation.                                      *)
LEMMA Cleared ==
  ASSUME NEW p \in Request, NEW error \in Errors
  PROVE  LET q == [p EXCEPT !.reserved = FALSE]
             e == [p EXCEPT !.error = error]
             b == [e EXCEPT !.reserved = FALSE]
         IN
         /\ q \in Request /\ q.kind = p.kind /\ q.prior = p.prior /\ ~q.reserved /\ q.error = p.error
         /\ q.unrestored = p.unrestored /\ q.restore = p.restore /\ q.pc = p.pc /\ q.result = p.result
         /\ e \in Request /\ e.kind = p.kind /\ e.prior = p.prior /\ e.reserved = p.reserved /\ e.error = error
         /\ e.unrestored = p.unrestored /\ e.restore = p.restore /\ e.pc = p.pc /\ e.result = p.result
         /\ b \in Request /\ b.kind = p.kind /\ b.prior = p.prior /\ ~b.reserved /\ b.error = error
         /\ b.unrestored = p.unrestored /\ b.restore = p.restore /\ b.pc = p.pc /\ b.result = p.result
BY DEF Request

(* A chat or a workflow that fails gives its prompt back.                  *)
LEMMA FailsAndGivesBack ==
  ASSUME IInv, NEW r \in Requests, req[r].pc \in Generating,
         Fails(r, [req[r] EXCEPT !.reserved = FALSE]), used' = Refunded(r),
         UNCHANGED <<holder, beating, answered>>, UNCHANGED core
  PROVE  IInv'
<1> DEFINE q == [req[r] EXCEPT !.reserved = FALSE]
<1>1. /\ q \in Request /\ q.kind = req[r].kind /\ q.prior = req[r].prior /\ ~q.reserved
      /\ q.unrestored = req[r].unrestored /\ q.restore = req[r].restore
  BY HandlerOfEach, Cleared DEF Errors
<1> HIDE DEF q
<1>2. PICK u \in Request : Goes(r, u) /\ WorkOver(u, q) /\ u.error # "none"
  BY <1>1, Failing DEF q
<1>3. QED
  BY <1>1, <1>2, GivesPromptBack

(* A workflow ends, and is charged if it was done.                         *)
LEMMA WorkflowAnswerStep ==
  ASSUME IInv, NEW r \in Requests, At(r, "generating"), Is(r, {"routing"}), WorkflowAnswered(r),
         UNCHANGED <<holder, beating, answered>>, UNCHANGED core
  PROVE  IInv'
<1>1. req[r] \in Request /\ req[r].pc \in Generating
  BY HandlerOfEach DEF At, Generating
<1>2. CASE Fails(r, [req[r] EXCEPT !.reserved = FALSE]) /\ used' = Refunded(r)
  BY <1>1, <1>2, FailsAndGivesBack
<1>3. CASE /\ Unwinds(r, [req[r] EXCEPT !.result = "ok", !.error = IF @ = "cancelled" THEN "late" ELSE @])
           /\ UNCHANGED used
  <2> DEFINE q == [req[r] EXCEPT !.result = "ok", !.error = IF @ = "cancelled" THEN "late" ELSE @]
  <2>1. /\ q \in Request /\ q.kind = req[r].kind /\ q.prior = req[r].prior /\ q.reserved = req[r].reserved
        /\ q.unrestored = req[r].unrestored /\ q.restore = req[r].restore /\ q.result = "ok"
        /\ q.error = IF req[r].error = "cancelled" THEN "late" ELSE req[r].error
    BY <1>1 DEF Request, Replies, Errors
  <2>2. Unwinds(r, q)
    BY <1>3
  <2> HIDE DEF q
  <2>3. PICK u \in Request : Goes(r, u) /\ WorkOver(u, q) /\ u.error = q.error
    BY <2>1, <2>2, Unwinding
  <2>4. ~Is(r, Chats) /\ ~Is(r, {"load"}) /\ Is(r, Counted)
    BY DEF Is, Chats, Counted
  <2>5. /\ req[r].reserved /\ used[r] = req[r].prior + 1 /\ (req[r].restore => Is(r, Autos))
        /\ u.error \in {"none", "late"}
    BY <1>1, <2>1, <2>3, <2>4, DrawnPrompt
  <2>6. SlotStep(r)
    BY <1>3, Alone
  <2>7. QED
    BY <1>1, <1>3, <2>1, <2>3, <2>4, <2>5, <2>6, WorkEnds DEF Generating
<1>4. QED
  BY <1>2, <1>3 DEF WorkflowAnswered

(* A chat is answered, asks once more, or fails.                           *)
LEMMA ChatAnswerStep ==
  ASSUME IInv, NEW r \in Requests, At(r, "generating"), Is(r, Chats), ChatAnswered(r),
         req[r].reply \notin {"none", "waiting"}, UNCHANGED <<holder, beating, answered>>, UNCHANGED core
  PROVE  IInv'
<1>1. req[r] \in Request /\ req[r].pc \in Generating
  BY HandlerOfEach DEF At, Generating
<1>2. CASE Fails(r, [req[r] EXCEPT !.reserved = FALSE]) /\ used' = Refunded(r)
  BY <1>1, <1>2, FailsAndGivesBack
<1>3. CASE Goes(r, [req[r] EXCEPT !.pc = "generates", !.reply = "none", !.retried = TRUE]) /\ UNCHANGED used
  <2> DEFINE q == [req[r] EXCEPT !.pc = "generates", !.reply = "none", !.retried = TRUE]
  <2>1. /\ q \in Request /\ q.pc = "generates" /\ q.kind = req[r].kind /\ q.prior = req[r].prior
        /\ q.error = req[r].error /\ q.reserved = req[r].reserved /\ q.unrestored = req[r].unrestored
        /\ q.restore = req[r].restore
    BY <1>1 DEF Request, Places, Replies
  <2>2. Goes(r, q)
    BY <1>3
  <2> HIDE DEF q
  <2>3. QED
    BY <1>1, <1>3, <2>1, <2>2, GeneratingStep, Alone DEF Generating
<1>4. CASE Unwinds(r, [req[r] EXCEPT !.result = req[r].reply]) /\ UNCHANGED used /\ req[r].reply # "failed"
  <2> DEFINE q == [req[r] EXCEPT !.result = req[r].reply]
  <2>1. /\ q \in Request /\ q.kind = req[r].kind /\ q.prior = req[r].prior /\ q.error = req[r].error
        /\ q.reserved = req[r].reserved /\ q.unrestored = req[r].unrestored /\ q.restore = req[r].restore
        /\ q.result \in {"ok", "empty", "noChart", "status"}
    BY <1>1, <1>4 DEF Request, Replies
  <2>2. Unwinds(r, q)
    BY <1>4
  <2> HIDE DEF q
  <2>3. PICK u \in Request : Goes(r, u) /\ WorkOver(u, q) /\ u.error = q.error
    BY <2>1, <2>2, Unwinding
  <2>4. ~Is(r, {"routing"}) /\ ~Is(r, {"load"}) /\ Is(r, Counted)
    BY DEF Is, Chats, Counted
  <2>5. /\ req[r].reserved /\ used[r] = req[r].prior + 1 /\ (req[r].restore => Is(r, Autos))
        /\ u.error = "none"
    BY <1>1, <2>1, <2>3, <2>4, DrawnPrompt
  <2>6. SlotStep(r)
    BY <1>4, Alone
  <2>7. QED
    BY <1>1, <1>4, <2>1, <2>3, <2>4, <2>5, <2>6, WorkEnds DEF Generating
<1>5. QED
  BY <1>2, <1>3, <1>4 DEF ChatAnswered

(* An analysis or an OCR whose work is over, however: its count is not     *)
(* that of its answers.                                                    *)
LEMMA UncountedEnds ==
  ASSUME IInv, NEW r \in Requests,
         req[r].pc \in {"checks", "switching", "reserves", "generates", "generating"}, ~Is(r, Counted),
         NEW q \in Request, Fails(r, q) \/ Unwinds(r, q),
         q.kind = req[r].kind, q.prior = req[r].prior, q.unrestored = req[r].unrestored, q.restore = req[r].restore,
         SlotStep(r), UNCHANGED answered, UNCHANGED core
  PROVE  IInv'
<1>1. PICK u \in Request : Goes(r, u) /\ WorkOver(u, q)
  BY Failing, Unwinding
<1>2. ~Is(r, Chats) /\ ~Is(r, {"routing"}) /\ ~Is(r, {"load"})
  BY DEF Is, Chats, Counted
<1>3. q.restore => Is(r, Autos)
  BY AsItIs DEF SameRequest
<1>4. QED
  BY <1>1, <1>2, <1>3, WorkEnds

(* An analysis or an OCR is answered, or fails.                            *)
LEMMA OtherAnswerStep ==
  ASSUME IInv, NEW r \in Requests, At(r, "generating"), UNCHANGED <<holder, beating, answered>>, UNCHANGED core,
         (Is(r, Visions) /\ VisionAnswered(r)) \/ (Is(r, {"ocr"}) /\ OcrAnswered(r))
  PROVE  IInv'
<1>1. req[r] \in Request
  BY HandlerOfEach
<1>2. ~Is(r, Counted)
  BY DEF Is, Visions, Chats, Counted
<1>3. SlotStep(r)
  BY GivingBack DEF VisionAnswered, OcrAnswered
<1>4. ASSUME NEW reply \in Replies
      PROVE  LET q == [req[r] EXCEPT !.result = reply] IN
             /\ q \in Request /\ q.kind = req[r].kind /\ q.prior = req[r].prior
             /\ q.unrestored = req[r].unrestored /\ q.restore = req[r].restore
  BY <1>1 DEF Request
<1>5. "ok" \in Replies /\ req[r].reply \in Replies
  BY <1>1 DEF Request, Replies
<1>6. PICK q \in Request : /\ Fails(r, q) \/ Unwinds(r, q)
                           /\ q.kind = req[r].kind /\ q.prior = req[r].prior
                           /\ q.unrestored = req[r].unrestored /\ q.restore = req[r].restore
  <2>1. CASE Fails(r, req[r])
    BY <1>1, <2>1
  <2>2. ASSUME NEW reply \in Replies, Unwinds(r, [req[r] EXCEPT !.result = reply])
        PROVE  \E q \in Request : /\ Fails(r, q) \/ Unwinds(r, q)
                                  /\ q.kind = req[r].kind /\ q.prior = req[r].prior
                                  /\ q.unrestored = req[r].unrestored /\ q.restore = req[r].restore
    BY <1>4, <2>2
  <2>3. QED
    BY <1>5, <2>1, <2>2 DEF VisionAnswered, OcrAnswered
<1>7. QED
  BY <1>2, <1>3, <1>6, UncountedEnds DEF At

-----------------------------------------------------------------------------
(* The handlers, after the work.                                           *)

(* What holds of the account of a handler on its way out.                  *)
LEMMA LeavingAccount ==
  ASSUME IInv, NEW r \in Requests, req[r].pc \in After
  PROVE  /\ r \notin answered /\ req[r].kind \in Kinds
         /\ req[r].restore \/ req[r].pc \in {"restores", "restoring"} => Is(r, Autos)
         /\ Is(r, Chats) /\ req[r].reserved =>
              ~req[r].unrestored /\ req[r].error = "none" /\ req[r].result \in {"ok", "empty", "noChart", "status"}
         /\ Is(r, Chats) /\ ~req[r].reserved => req[r].error # "none" \/ req[r].unrestored
         /\ Is(r, Counted) => used[r] = req[r].prior + IF req[r].reserved THEN 1 ELSE 0
         /\ Is(r, Counted) => Refunded(r)[r] = req[r].prior
<1>1. /\ SlotTypes /\ req[r] \in Request /\ req[r].prior \in Nat
      /\ HandlerOf(req[r], used[r], r \in answered)
  BY HandlerOfEach
<1>2. /\ r \notin answered /\ req[r].kind \in Kinds
      /\ req[r].restore \/ req[r].pc \in {"restores", "restoring"} => Is(r, Autos)
  BY <1>1 DEF HandlerOf, Shaped, ReservedToGenerate, After, Is, Request
<1>3. /\ Is(r, Chats) /\ req[r].reserved =>
           ~req[r].unrestored /\ req[r].error = "none" /\ req[r].result \in {"ok", "empty", "noChart", "status"}
      /\ Is(r, Chats) /\ ~req[r].reserved => req[r].error # "none" \/ req[r].unrestored
  BY <1>1 DEF HandlerOf, ChatKeepsWhatItDrew, Is
<1>4. Is(r, Counted) => used[r] = req[r].prior + IF req[r].reserved THEN 1 ELSE 0
  BY <1>1 DEF HandlerOf, Balanced, After, Is
<1>5. QED
  BY <1>1, <1>2, <1>3, <1>4, Refunding

(* A handler on its way out, which keeps its account as it is, or a chat   *)
(* that gives its prompt back.                                             *)
LEMMA LeavingStep ==
  ASSUME IInv, NEW r \in Requests, req[r].pc \in After, NEW q \in Request, Goes(r, q),
         q.pc \in {"restoring", "finishes", "stopping"}, q.kind = req[r].kind, q.prior = req[r].prior,
         q.result = req[r].result, q.restore = req[r].restore,
         q.pc = "restoring" => Is(r, Autos) /\ q.reply # "ok",
         q.unrestored => req[r].unrestored \/ Is(r, Autos),
         \/ /\ q.reserved = req[r].reserved /\ q.error = req[r].error /\ UNCHANGED used
            /\ q.unrestored = req[r].unrestored \/ ~Is(r, Chats)
         \/ Is(r, Chats) /\ ~q.reserved /\ (q.error # "none" \/ q.unrestored) /\ used' = Refunded(r),
         SlotStep(r), UNCHANGED answered, CoreStep(r)
  PROVE  IInv'
<1>1. HandlerOf(req[r], used[r], r \in answered) /\ req[r].prior \in Nat
  BY HandlerOfEach
<1>2. Is(r, Counted) => used'[r] = q.prior + IF q.reserved THEN 1 ELSE 0
  BY <1>1, LeavingAccount DEF Is, Counted
<1>3. ~Is(r, {"routing"}) \/ ~Is(r, Autos)
  BY DEF Is, Autos
<1>4. HandlerOf(q, used'[r], r \in answered')
  BY <1>1, <1>2, <1>3, LeavingAccount DEF HandlerOf, Shaped, ReservedToGenerate, ChatKeepsWhatItDrew,
     OthersKeepWhatTheyDrew, Balanced, Before, Generating, After, Is, Chats, Counted
<1>5. QED
  BY <1>4, HandlerStep

(* The orchestrator model is loaded again.                                 *)
LEMMA RestoreStep ==
  ASSUME IInv, NEW r \in Requests, Restores(r)
  PROVE  IInv'
<1>1. req[r] \in Request
  BY HandlerOfEach
<1>2. At(r, "restores") /\ UNCHANGED <<holder, beating, used, answered>>
  BY DEF Restores
<1>3. SlotStep(r) /\ Is(r, Autos) /\ req[r].pc \in After
  BY <1>2, LeavingAccount, Alone DEF At, After
<1>4. CASE CallsSwitch(r, Orchestrator, [req[r] EXCEPT !.pc = "restoring"])
  <2> DEFINE q == [req[r] EXCEPT !.pc = "restoring"]
  <2>1. /\ q \in Request /\ q.pc = "restoring" /\ q.kind = req[r].kind /\ q.prior = req[r].prior
        /\ q.error = req[r].error /\ q.reserved = req[r].reserved /\ q.unrestored = req[r].unrestored
        /\ q.restore = req[r].restore /\ q.result = req[r].result
    BY <1>1 DEF Request, Places
  <2>2. CallsSwitch(r, Orchestrator, q)
    BY <1>4
  <2> HIDE DEF q
  <2>3. PICK u \in Request :
          /\ Goes(r, u) /\ u.reply = "waiting" /\ u.pc = q.pc /\ u.kind = q.kind /\ u.prior = q.prior
          /\ u.result = q.result /\ u.restore = q.restore /\ u.reserved = q.reserved
          /\ u.unrestored = q.unrestored /\ u.error = q.error
    BY <2>1, <2>2, Posting, ModelsAssumption DEF CallsSwitch
  <2>4. PICK c \in Calls : c.to = Orchestrator /\ calls' = calls \cup {c}
    BY <2>1, <2>2, Posting, ModelsAssumption DEF CallsSwitch
  <2>5. CoreStep(r)
    BY <2>2, <2>4, Asking DEF CallsSwitch
  <2>6. QED
    BY <1>2, <1>3, <2>1, <2>3, <2>5, LeavingStep
<1>5. CASE Goes(r, [req[r] EXCEPT !.pc = "restoring", !.reply = "failed"]) /\ UNCHANGED core
  <2> DEFINE q == [req[r] EXCEPT !.pc = "restoring", !.reply = "failed"]
  <2>1. /\ q \in Request /\ q.pc = "restoring" /\ q.kind = req[r].kind /\ q.prior = req[r].prior
        /\ q.error = req[r].error /\ q.reserved = req[r].reserved /\ q.unrestored = req[r].unrestored
        /\ q.restore = req[r].restore /\ q.result = req[r].result /\ q.reply = "failed"
    BY <1>1 DEF Request, Places, Replies
  <2>2. Goes(r, q) /\ CoreStep(r)
    BY <1>5, Alone
  <2> HIDE DEF q
  <2>3. QED
    BY <1>2, <1>3, <2>1, <2>2, LeavingStep
<1>6. QED
  BY <1>4, <1>5 DEF Restores

(* What a handler that could not restore goes on with.                     *)
LEMMA Unrestoring ==
  ASSUME NEW r \in Requests, req[r] \in Request, Unrestored(r)
  PROVE  \E q \in Request :
           /\ Goes(r, q) /\ q.pc = "finishes" /\ q.unrestored /\ q.kind = req[r].kind /\ q.prior = req[r].prior
           /\ q.result = req[r].result /\ q.restore = req[r].restore /\ q.error = req[r].error
           /\ IF Is(r, Chats) THEN ~q.reserved /\ used' = Refunded(r)
                              ELSE q.reserved = req[r].reserved /\ UNCHANGED used
<1> DEFINE q == [req[r] EXCEPT !.pc = "finishes", !.reply = "none", !.unrestored = TRUE]
           b == [q EXCEPT !.reserved = FALSE]
<1>1. /\ q \in Request /\ q.pc = "finishes" /\ q.unrestored /\ q.kind = req[r].kind /\ q.prior = req[r].prior
      /\ q.result = req[r].result /\ q.restore = req[r].restore /\ q.error = req[r].error
      /\ q.reserved = req[r].reserved
      /\ b \in Request /\ b.pc = "finishes" /\ b.unrestored /\ b.kind = req[r].kind /\ b.prior = req[r].prior
      /\ b.result = req[r].result /\ b.restore = req[r].restore /\ b.error = req[r].error /\ ~b.reserved
  BY DEF Request, Places, Replies
<1>2. IF Is(r, Chats) THEN Goes(r, b) /\ used' = Refunded(r) ELSE Goes(r, q) /\ UNCHANGED used
  BY DEF Unrestored
<1> HIDE DEF q, b
<1>3. QED
  BY <1>1, <1>2

(* A restore fails, or is cancelled.                                       *)
LEMMA UnrestoredStep ==
  ASSUME IInv, NEW r \in Requests, At(r, "restoring"), Unrestored(r),
         UNCHANGED <<holder, beating, answered>>, UNCHANGED core
  PROVE  IInv'
<1>1. PICK q \in Request :
           /\ Goes(r, q) /\ q.pc = "finishes" /\ q.unrestored /\ q.kind = req[r].kind /\ q.prior = req[r].prior
           /\ q.result = req[r].result /\ q.restore = req[r].restore /\ q.error = req[r].error
           /\ IF Is(r, Chats) THEN ~q.reserved /\ used' = Refunded(r)
                              ELSE q.reserved = req[r].reserved /\ UNCHANGED used
  BY HandlerOfEach, Unrestoring
<1>2. req[r].pc \in After /\ Is(r, Autos)
  BY LeavingAccount DEF At, After
<1>3. SlotStep(r) /\ CoreStep(r)
  BY <1>1, GivingBack, Alone
<1>4. QED
  BY <1>1, <1>2, <1>3, LeavingStep

(* The orchestrator model is loaded again, or the chat gives its prompt    *)
(* back.                                                                   *)
LEMMA RestoredStep ==
  ASSUME IInv, NEW r \in Requests, Restored(r)
  PROVE  IInv'
<1>1. req[r] \in Request
  BY HandlerOfEach
<1>2. At(r, "restoring") /\ req[r].pc \in After /\ UNCHANGED <<holder, beating, answered>> /\ UNCHANGED core
  BY DEF Restored, At, After
<1>3. CASE Unrestored(r)
  BY <1>2, <1>3, UnrestoredStep
<1>4. CASE Goes(r, [req[r] EXCEPT !.pc = "finishes", !.reply = "none"]) /\ UNCHANGED used
  <2> DEFINE q == [req[r] EXCEPT !.pc = "finishes", !.reply = "none"]
  <2>1. /\ q \in Request /\ q.pc = "finishes" /\ q.kind = req[r].kind /\ q.prior = req[r].prior
        /\ q.error = req[r].error /\ q.reserved = req[r].reserved /\ q.unrestored = req[r].unrestored
        /\ q.restore = req[r].restore /\ q.result = req[r].result
    BY <1>1 DEF Request, Places, Replies
  <2>2. Goes(r, q) /\ SlotStep(r) /\ CoreStep(r)
    BY <1>2, <1>4, Alone
  <2> HIDE DEF q
  <2>3. QED
    BY <1>2, <1>4, <2>1, <2>2, LeavingStep
<1>5. QED
  BY <1>3, <1>4 DEF Restored

(* The heartbeat is stopped, and a chat whose heartbeat had failed gives   *)
(* its prompt back.                                                        *)
LEMMA StopsBeatStep ==
  ASSUME IInv, NEW r \in Requests, StopsBeat(r)
  PROVE  IInv'
<1>1. req[r] \in Request
  BY HandlerOfEach
<1>2. req[r].pc \in After /\ UNCHANGED <<holder, answered>> /\ UNCHANGED core /\ beating' \subseteq beating
  BY DEF StopsBeat, BeatStopped, At, After
<1>3. CASE Goes(r, [req[r] EXCEPT !.pc = "stopping"]) /\ UNCHANGED used
  <2> DEFINE q == [req[r] EXCEPT !.pc = "stopping"]
  <2>1. /\ q \in Request /\ q.pc = "stopping" /\ q.kind = req[r].kind /\ q.prior = req[r].prior
        /\ q.error = req[r].error /\ q.reserved = req[r].reserved /\ q.unrestored = req[r].unrestored
        /\ q.restore = req[r].restore /\ q.result = req[r].result
    BY <1>1 DEF Request, Places
  <2>2. Goes(r, q) /\ SlotStep(r) /\ CoreStep(r)
    BY <1>2, <1>3, GivingBack, Alone
  <2> HIDE DEF q
  <2>3. QED
    BY <1>2, <1>3, <2>1, <2>2, LeavingStep
<1>4. CASE /\ Is(r, Chats) /\ used' = Refunded(r)
           /\ Goes(r, [[req[r] EXCEPT !.pc = "stopping"]
                         EXCEPT !.reserved = FALSE, !.error = IF @ = "none" THEN "error" ELSE @])
  <2> DEFINE q == [[req[r] EXCEPT !.pc = "stopping"]
                     EXCEPT !.reserved = FALSE, !.error = IF @ = "none" THEN "error" ELSE @]
  <2>1. /\ q \in Request /\ q.pc = "stopping" /\ q.kind = req[r].kind /\ q.prior = req[r].prior
        /\ q.error # "none" /\ ~q.reserved /\ q.unrestored = req[r].unrestored
        /\ q.restore = req[r].restore /\ q.result = req[r].result
    BY <1>1 DEF Request, Places, Errors
  <2>2. Goes(r, q) /\ SlotStep(r) /\ CoreStep(r)
    BY <1>2, <1>4, GivingBack, Alone
  <2> HIDE DEF q
  <2>3. QED
    BY <1>2, <1>4, <2>1, <2>2, LeavingStep
<1>5. QED
  BY <1>3, <1>4 DEF StopsBeat

(* A handler that is over, with its account settled.                       *)
LEMMA OverStep ==
  ASSUME IInv, NEW r \in Requests, req[r].pc \in After, NEW error \in Errors, Leaves(r, error),
         SlotStep(r), CoreStep(r),
         Is(r, {"load"}) => r \notin answered',
         Is(r, Counted) =>
           IF r \in answered' THEN used'[r] = req[r].prior + 1
                              ELSE used'[r] = req[r].prior \/ (used'[r] = req[r].prior + 1 /\ error = "late")
  PROVE  IInv'
<1>1. req[r] \in Request /\ req[r].kind # "none"
  BY HandlerOfEach, LeavingAccount DEF Kinds
<1> DEFINE q == [Fresh("over", req[r].kind, req[r].prior) EXCEPT !.error = error]
<1>2. /\ q \in Request /\ q.pc = "over" /\ q.kind = req[r].kind /\ q.prior = req[r].prior /\ q.error = error
      /\ ~q.reserved /\ ~q.restore /\ q.result = "none"
  BY <1>1 DEF Fresh, Request, Places, Replies, Errors
<1>3. Goes(r, q)
  BY DEF Leaves
<1> HIDE DEF q
<1>4. HandlerOf(q, used'[r], r \in answered')
  BY <1>1, <1>2 DEF HandlerOf, Shaped, ReservedToGenerate, ChatKeepsWhatItDrew,
     OthersKeepWhatTheyDrew, Balanced, Before, Generating, After, Is
<1>5. QED
  BY <1>2, <1>3, <1>4, HandlerStep

(* The handler ends.                                                       *)
LEMMA FinishStep ==
  ASSUME IInv, NEW r \in Requests, Finishes(r)
  PROVE  IInv'
<1>1. SlotTypes /\ HandlerOf(req[r], used[r], r \in answered) /\ req[r].prior \in Nat
  BY HandlerOfEach
<1>2. req[r].pc \in After /\ UNCHANGED core
  BY DEF Finishes, At, After
<1>3. SlotStep(r) /\ CoreStep(r)
  <2>1. SlotTypes'
    BY <1>1, Refunding DEF Finishes, Freed, SlotTypes
  <2>2. QED
    BY <1>1, <1>2, <2>1, Refunding, Alone DEF Finishes, Freed, SlotStep
<1>4. PICK error \in Errors : Leaves(r, error)
  BY DEF Finishes, Errors
<1>5. r \notin answered
  BY <1>2, LeavingAccount
<1>6. CASE Is(r, Chats)
  <2>1. Is(r, Counted) /\ ~Is(r, Visions) /\ ~Is(r, {"load"})
    BY <1>6 DEF Is, Chats, Visions, Counted
  <2>2. Refunded(r)[r] = req[r].prior /\ used[r] = req[r].prior + IF req[r].reserved THEN 1 ELSE 0
    BY <1>2, <2>1, LeavingAccount
  <2>3. CASE req[r].reserved
    <3>1. /\ req[r].error = "none" /\ ~req[r].unrestored /\ req[r].result \in {"ok", "empty", "noChart", "status"}
      BY <1>2, <1>6, <2>3, LeavingAccount
    <3>2. GivesBack(r) <=> r \notin answered'
      BY <1>5, <1>6, <2>1, <3>1 DEF Finishes, GivesBack, ChatGivesBack, Readable
    <3>3. used'[r] = req[r].prior + IF r \in answered' THEN 1 ELSE 0
      BY <1>1, <2>2, <2>3, <3>2 DEF Finishes
    <3>4. QED
      BY <1>1, <1>2, <1>3, <1>4, <2>1, <3>3, OverStep
  <2>4. CASE ~req[r].reserved
    <3>1. req[r].error # "none" \/ req[r].unrestored
      BY <1>2, <1>6, <2>4, LeavingAccount
    <3>2. r \notin answered' /\ used'[r] = req[r].prior
      BY <1>1, <1>5, <2>2, <2>4, <3>1 DEF Finishes
    <3>3. QED
      BY <1>2, <1>3, <1>4, <2>1, <3>2, OverStep
  <2>5. QED
    BY <2>3, <2>4
<1>7. CASE Is(r, {"routing"})
  <2>1. Is(r, Counted) /\ ~Is(r, Visions) /\ ~Is(r, {"load"}) /\ ~Is(r, Chats)
    BY <1>7 DEF Is, Chats, Visions, Counted
  <2>2. used' = used /\ used[r] = req[r].prior + IF req[r].reserved THEN 1 ELSE 0
    BY <1>2, <2>1, LeavingAccount DEF Finishes, GivesBack
  <2>3. /\ ~req[r].unrestored
        /\ IF req[r].reserved THEN req[r].error \in {"none", "late"} /\ req[r].result = "ok" ELSE req[r].error # "none"
    BY <1>1, <1>2, <1>7 DEF HandlerOf, OthersKeepWhatTheyDrew, Is
  <2>4. CASE req[r].error = "late"
    <3>1. Leaves(r, "late") /\ r \notin answered'
      BY <1>5, <2>4 DEF Finishes
    <3>2. QED
      BY <1>1, <1>2, <1>3, <2>1, <2>2, <3>1, OverStep DEF Errors
  <2>5. CASE req[r].error # "late"
    <3>1. r \in answered' <=> req[r].reserved
      BY <1>5, <2>3, <2>5 DEF Finishes, Readable
    <3>2. QED
      BY <1>1, <1>2, <1>3, <1>4, <2>1, <2>2, <3>1, OverStep
  <2>6. QED
    BY <2>4, <2>5
<1>8. CASE Is(r, {"load"})
  <2>1. Is(r, Counted) /\ ~Is(r, Visions) /\ ~Is(r, Chats)
    BY <1>8 DEF Is, Chats, Visions, Counted
  <2>2. ~req[r].reserved /\ req[r].result = "none"
    BY <1>1, <1>8 DEF HandlerOf, OthersKeepWhatTheyDrew, Is
  <2>3. used'[r] = req[r].prior /\ r \notin answered'
    BY <1>1, <1>2, <1>5, <2>1, <2>2, LeavingAccount DEF Finishes, GivesBack, Readable
  <2>4. QED
    BY <1>2, <1>3, <1>4, <2>1, <2>3, OverStep
<1>9. CASE ~Is(r, Counted)
  BY <1>2, <1>3, <1>4, <1>9, OverStep DEF Is, Counted
<1>10. QED
  BY <1>6, <1>7, <1>8, <1>9 DEF Is, Counted

(* It is cancelled before it gives the slot back: what it drew stays       *)
(* drawn, and it is remembered that its work was done.                     *)
LEMMA CutShortStep ==
  ASSUME IInv, NEW r \in Requests, CutShort(r)
  PROVE  IInv'
<1>1. HandlerOf(req[r], used[r], r \in answered) /\ req[r].prior \in Nat
  BY HandlerOfEach
<1>2. req[r].pc \in After /\ UNCHANGED <<holder, beating, used, answered>> /\ UNCHANGED core
  BY DEF CutShort, At, After
<1>3. SlotStep(r) /\ CoreStep(r)
  BY <1>2, Alone
<1>4. PICK error \in Errors : Leaves(r, error) /\ (req[r].error \in {"none", "late"} => error = "late")
  BY DEF CutShort, Errors
<1>5. r \notin answered' /\ (Is(r, Counted) => used'[r] = req[r].prior + IF req[r].reserved THEN 1 ELSE 0)
  BY <1>2, LeavingAccount
<1>6. Is(r, Counted) /\ req[r].reserved => req[r].error \in {"none", "late"}
  BY <1>1, <1>2, LeavingAccount DEF HandlerOf, OthersKeepWhatTheyDrew, Is, Counted
<1>7. QED
  BY <1>1, <1>2, <1>3, <1>4, <1>5, <1>6, OverStep

(* The handler is cancelled before that.                                   *)
LEMMA CancellationStep ==
  ASSUME IInv, NEW r \in Requests, Cancelled(r)
  PROVE  IInv'
<1>1. req[r] \in Request
  BY HandlerOfEach
<1>2. UNCHANGED <<holder, beating, answered>> /\ UNCHANGED core
  BY DEF Cancelled
<1> DEFINE c == [req[r] EXCEPT !.error = "cancelled"]
           b == [c EXCEPT !.reserved = FALSE]
           f == [req[r] EXCEPT !.reserved = FALSE]
<1>3. /\ c \in Request /\ c.kind = req[r].kind /\ c.prior = req[r].prior /\ c.error = "cancelled" /\ c.result = req[r].result
      /\ c.unrestored = req[r].unrestored /\ c.reserved = req[r].reserved /\ c.restore = req[r].restore /\ c.pc = req[r].pc
      /\ b \in Request /\ b.kind = req[r].kind /\ b.prior = req[r].prior /\ b.error = "cancelled"
      /\ b.unrestored = req[r].unrestored /\ ~b.reserved /\ b.restore = req[r].restore
      /\ f \in Request /\ f.kind = req[r].kind /\ f.prior = req[r].prior /\ f.error = req[r].error
      /\ f.unrestored = req[r].unrestored /\ ~f.reserved /\ f.restore = req[r].restore
  BY <1>1, Cleared DEF Errors
<1>4. CASE WorkCancelled(r)
  <2>1. req[r].pc \in {"checks", "switching", "generates", "generating"} /\ ~Is(r, {"routing"})
    BY <1>4 DEF WorkCancelled, Is, Shielded
  <2>2. \/ Is(r, Chats) /\ Unwinds(r, b) /\ used' = Refunded(r)
        \/ ~Is(r, Chats) /\ Unwinds(r, c) /\ UNCHANGED used
    BY <1>4 DEF WorkCancelled
  <2> HIDE DEF c, b, f
  <2>3. /\ SlotTypes /\ HandlerOf(req[r], used[r], r \in answered) /\ SlotStep(r) /\ req[r].prior \in Nat
        /\ req[r].restore => Is(r, Autos)
    BY <1>2, <2>2, HandlerOfEach, GivingBack, AsItIs DEF SameRequest
  <2>4. CASE Is(r, Chats) /\ Unwinds(r, b) /\ used' = Refunded(r)
    <3>1. PICK u \in Request : Goes(r, u) /\ WorkOver(u, b) /\ u.error = "cancelled"
      BY <1>3, <2>4, Unwinding
    <3>2. Is(r, Counted) /\ ~Is(r, {"load"})
      BY <2>4 DEF Is, Chats, Counted
    <3>3. used[r] = req[r].prior + IF req[r].reserved THEN 1 ELSE 0
      BY <2>1, <2>3, <3>2 DEF HandlerOf, Balanced, Is
    <3>4. used'[r] = req[r].prior
      BY <2>3, <2>4, <3>3, Refunding
    <3>5. QED
      BY <1>2, <1>3, <2>1, <2>3, <3>1, <3>2, <3>4, WorkEnds
  <2>5. CASE ~Is(r, Chats) /\ Unwinds(r, c) /\ UNCHANGED used
    <3>1. PICK u \in Request : Goes(r, u) /\ WorkOver(u, c)
      BY <1>3, <2>5, Unwinding
    <3>2. CASE Is(r, {"load"})
      <4>1. ~req[r].reserved /\ req[r].result = "none" /\ used[r] = req[r].prior
        BY <2>1, <2>3, <3>2 DEF HandlerOf, OthersKeepWhatTheyDrew, Balanced, Is, Counted
      <4>2. QED
        BY <1>2, <1>3, <2>1, <2>3, <2>5, <3>1, <4>1, WorkEnds
    <3>3. CASE ~Is(r, {"load"})
      <4>1. ~Is(r, Counted)
        BY <2>1, <2>5, <3>3 DEF Is, Counted
      <4>2. QED
        BY <1>2, <1>3, <2>1, <2>3, <2>5, <4>1, UncountedEnds
    <3>4. QED
      BY <3>2, <3>3
  <2>6. QED
    BY <2>2, <2>4, <2>5
<1>5. CASE ShieldCancelled(r)
  <2>1. /\ req[r].pc \in Generating /\ ~Is(r, Chats) /\ ~Is(r, {"load"})
        /\ At(r, "generating") /\ (Is(r, Counted) => Is(r, {"routing"}))
    BY <1>5 DEF ShieldCancelled, Is, Shielded, Chats, Counted, At, Generating
  <2>2. \/ Goes(r, c) /\ UNCHANGED used
        \/ req[r].error = "cancelled" /\ Is(r, {"routing"}) /\ Unwinds(r, f) /\ used' = Refunded(r)
        \/ ~Is(r, {"routing"}) /\ Unwinds(r, req[r]) /\ UNCHANGED used
    BY <1>5 DEF ShieldCancelled
  <2> HIDE DEF c, b, f
  <2>3. CASE Goes(r, c) /\ UNCHANGED used
    BY <1>2, <1>3, <2>1, <2>3, GeneratingStep, Alone
  <2>4. CASE req[r].error = "cancelled" /\ Unwinds(r, f) /\ used' = Refunded(r)
    <3>1. PICK u \in Request : Goes(r, u) /\ WorkOver(u, f) /\ u.error = "cancelled"
      BY <1>3, <2>4, Unwinding
    <3>2. QED
      BY <1>2, <1>3, <2>1, <2>4, <3>1, GivesPromptBack
  <2>5. CASE ~Is(r, {"routing"}) /\ Unwinds(r, req[r]) /\ UNCHANGED used
    BY <1>1, <1>2, <2>1, <2>5, UncountedEnds, Alone DEF At
  <2>6. QED
    BY <2>2, <2>3, <2>4, <2>5
<1>6. CASE RestoreCancelled(r)
  BY <1>2, <1>6, UnrestoredStep DEF RestoreCancelled
<1>7. QED
  BY <1>4, <1>5, <1>6 DEF Cancelled

-----------------------------------------------------------------------------
(* The invariant holds at first.                                           *)
LEMMA InvariantInit == Init => IInv
<1> SUFFICES ASSUME Init PROVE IInv
  OBVIOUS
<1>1. Fresh("idle", "none", 0) \in Request
  BY LimitAssumption DEF Fresh, Request, Places, Replies, Errors
<1>2. RequestTypes /\ \A r \in Requests : req[r] = Fresh("idle", "none", 0)
  BY <1>1 DEF Init, RequestTypes
<1>3. SlotTypes
  BY LimitAssumption DEF Init, SlotTypes
<1>4. CoreTypes
  BY ModelsAssumption DEF Init, CoreTypes
<1>5. Handlers
  BY <1>2 DEF Init, Handlers, HandlerOf, Shaped, ReservedToGenerate, ChatKeepsWhatItDrew,
     OthersKeepWhatTheyDrew, Balanced, Before, Generating, After, Counted, Chats, Fresh
<1>6. Restoration
  BY <1>2 DEF Init, Restoration, CallsSound, FlowsSound, RestoreLasts, At, Fresh, Idle
<1>7. QED
  BY <1>2, <1>3, <1>4, <1>5, <1>6, TypeParts DEF IInv

(* Every step keeps it.                                                    *)
LEMMA InvariantStep == IInv /\ [Next]_vars => IInv'
<1> SUFFICES ASSUME IInv, [Next]_vars PROVE IInv'
  OBVIOUS
<1>1. ASSUME NEW r \in Requests, Works(r)
      PROVE  IInv'
  <2>1. ASSUME Answered(r) PROVE IInv'
    BY <2>1, ChatAnswerStep, OtherAnswerStep, WorkflowAnswerStep DEF Answered
  <2>2. QED
    BY <1>1, <2>1, TurnStep, CheckStep, SwitchedStep, ReservationStep, GenerationStep, RestoreStep,
       RestoredStep, StopsBeatStep, FinishStep DEF Works
<1>2. ASSUME NEW r \in Requests,
             \/ ChatArrives(r) \/ VisionArrives(r) \/ OcrArrives(r) \/ WorkflowArrives(r)
             \/ LoadArrives(r) \/ GivesUp(r) \/ EngineEnds(r) \/ WorkflowSwitches(r) \/ WorkflowEnds(r)
             \/ CallFails(r) \/ Lapses(r) \/ BeatFails(r) \/ Cancelled(r) \/ CutShort(r)
      PROVE  IInv'
  BY <1>2, ArrivalStep, TurnStep, CallEnds, WorkflowStep, LapseStep, CancellationStep, CutShortStep
<1>3. CASE UNCHANGED vars
  BY <1>3, LapseStep
<1>4. QED
  BY <1>1, <1>2, <1>3, ManagerStep DEF Next

(* So it always holds: every handler's account, at every place, through    *)
(* every failure and cancellation; and the orchestrator model lasts after  *)
(* a restore.                                                              *)
THEOREM Invariance == Spec => []IInv
BY InvariantInit, InvariantStep, PTL DEF Spec

(* The variables have their types; the day's count stays within its limit. *)
THEOREM TypeCorrect == Spec => []TypeOK
<1>1. IInv => TypeOK
  BY DEF IInv
<1>2. QED
  BY Invariance, <1>1, PTL

(* However a chat, a workflow or a load of a model fails, is cancelled or  *)
(* loses its lease: when it is over its account has drawn one prompt if it *)
(* was answered and none if not, or one if it was cancelled when its work  *)
(* was done already, be it in the finally block.                           *)
THEOREM ChargedWhenAnswered == Spec => []ChargedIffAnswered
<1>1. IInv => ChargedIffAnswered
  <2>1. ASSUME IInv, NEW r \in Requests, At(r, "over"), Is(r, Chats \cup {"routing", "load"})
        PROVE  IF r \in answered THEN used[r] = req[r].prior + 1
                                 ELSE used[r] = req[r].prior \/ (used[r] = req[r].prior + 1 /\ req[r].error = "late")
    BY <2>1, HandlerOfEach DEF HandlerOf, Balanced, Counted, At, Is
  <2>2. QED
    BY <2>1 DEF ChargedIffAnswered
<1>2. QED
  BY Invariance, <1>1, PTL

-----------------------------------------------------------------------------
(* What a chat under Auto leaves behind.                                   *)

(* Who is over a restore that is not marked as failed was told that the    *)
(* orchestrator model is healthy.                                          *)
LEMMA WhoIsRestored ==
  ASSUME IInv, Next, NEW r \in Requests, At(r, "restoring"), req'[r].pc = "finishes", ~req'[r].unrestored
  PROVE  RestoredWell(r)
<1>1. RequestTypes /\ CoreTypes /\ req[r] \in Request /\ req[r].pc = "restoring"
  BY HandlerOfEach DEF At
<1>2. \A x \in Requests : \A q : Goes(x, q) => x = r \/ req'[r] = req[r]
  BY <1>1 DEF Goes, RequestTypes
<1>3. \A x \in Requests : \A q : Unwinds(x, q) \/ Fails(x, q) => x = r \/ req'[r] = req[r]
  BY <1>2 DEF Unwinds, Fails
<1>4. \A x \in Requests : \A m, q : Posts(x, m, q) => x = r \/ req'[r] = req[r]
  BY <1>2 DEF Posts
<1>5. ~ManagerWorks /\ ~\E c \in calls : CallLost(c)
  <2>1. ASSUME NEW c \in Calls, NEW reply \in {"ok", "failed"}, Answers(c, reply) PROVE FALSE
    BY <1>1, <2>1, AnswerChangesReplies DEF AnsweredOnly, Replies
  <2>2. ~ManagerEnds
    BY <1>1, <2>1 DEF ManagerEnds, CoreTypes
  <2>3. ASSUME NEW c \in calls, ManagerTakes(c) \/ CallLost(c) PROVE FALSE
    BY <1>1, <2>1, <2>3 DEF ManagerTakes, CallLost, CoreTypes
  <2>4. QED
    BY <2>2, <2>3 DEF ManagerWorks
<1>6. ASSUME NEW x \in Requests,
             \/ ChatArrives(x) \/ VisionArrives(x) \/ OcrArrives(x) \/ WorkflowArrives(x) \/ LoadArrives(x)
             \/ GivesUp(x) \/ TakesTurn(x) \/ Lapses(x) \/ BeatFails(x)
      PROVE  FALSE
  BY <1>1, <1>2, <1>6 DEF ChatArrives, VisionArrives, OcrArrives, WorkflowArrives, LoadArrives, Arrives,
     GivesUp, TakesTurn, Lapses, BeatFails, At
<1>7. ASSUME NEW x \in Requests, EngineEnds(x) \/ WorkflowSwitches(x) \/ WorkflowEnds(x) \/ CallFails(x)
      PROVE  FALSE
  <2>1. \A reply : Generated(x, reply) => req'[r].pc = "restoring"
    BY <1>1 DEF Generated, RequestTypes, Request
  <2>2. CASE CallFails(x)
    BY <1>1, <2>2 DEF CallFails, Goes, RequestTypes, Request
  <2>3. QED
    BY <1>1, <1>7, <2>1, <2>2 DEF EngineEnds, WorkflowSwitches, WorkflowEnds
<1>8. ASSUME NEW x \in Requests,
             \/ Checks(x) \/ Switched(x) \/ Reserves(x) \/ Generates(x) \/ Restores(x)
             \/ StopsBeat(x) \/ Finishes(x) \/ CutShort(x)
      PROVE  FALSE
  <2>1. x # r
    BY <1>1, <1>8 DEF Checks, Switched, Reserves, Generates, Restores, StopsBeat, Finishes, CutShort, At
  <2>2. CASE Checks(x)
    BY <1>1, <1>2, <1>3, <1>4, <2>1, <2>2 DEF Checks, Denied, ChecksChat, ChecksVision, LoadsModel, CallsSwitch
  <2>3. CASE Generates(x)
    BY <1>1, <1>2, <1>4, <2>1, <2>3 DEF Generates, CallsEngine, CallsOcr, CallsWorkflow, Asks
  <2>4. CASE Switched(x) \/ Reserves(x) \/ Restores(x)
    BY <1>1, <1>2, <1>3, <1>4, <2>1, <2>4 DEF Switched, Reserves, Restores, CallsSwitch
  <2>5. CASE StopsBeat(x) \/ Finishes(x) \/ CutShort(x)
    BY <1>1, <1>2, <2>1, <2>5 DEF StopsBeat, Finishes, CutShort, Leaves
  <2>6. QED
    BY <1>8, <2>2, <2>3, <2>4, <2>5
<1>9. ASSUME NEW x \in Requests, Answered(x)
      PROVE  FALSE
  BY <1>1, <1>2, <1>3, <1>9 DEF Answered, ChatAnswered, VisionAnswered, OcrAnswered, WorkflowAnswered, At
<1>10. ASSUME Unrestored(r) PROVE FALSE
  <2>1. PICK u \in Request : Goes(r, u) /\ u.unrestored
    BY <1>1, <1>10, Unrestoring
  <2>2. QED
    BY <1>1, <2>1, GoingOn
<1>11. ASSUME NEW x \in Requests, Cancelled(x)
       PROVE  FALSE
  <2>1. CASE x # r
    BY <1>1, <1>2, <1>3, <1>11, <2>1 DEF Cancelled, WorkCancelled, ShieldCancelled, RestoreCancelled, Unrestored
  <2>2. CASE x = r
    BY <1>1, <1>10, <1>11, <2>2 DEF Cancelled, WorkCancelled, ShieldCancelled, RestoreCancelled, At
  <2>3. QED
    BY <2>1, <2>2
<1>12. PICK x \in Requests : Restored(x)
  BY <1>1, <1>5, <1>6, <1>7, <1>8, <1>9, <1>11, Zenon DEF Next, Works
<1>13. x = r
  BY <1>1, <1>2, <1>12 DEF Restored, Unrestored
<1>14. QED
  BY <1>10, <1>12, <1>13 DEF Restored

(* A chat under Auto that restored under a live lease leaves the           *)
(* orchestrator model behind, unless the core began in its turn to load    *)
(* something that it did not wait for.                                     *)
THEOREM AutoRestoresOrchestrator == Spec => AutoLeavesOrchestrator
<1>1. ASSUME IInv, Next, NEW r \in Requests, Is(r, {"autochat"}), r \notin disturbed, RestoredIn(r)
      PROVE  active = Orchestrator /\ manager = Idle
  <2>1. At(r, "restoring") /\ RestoredWell(r)
    BY <1>1, WhoIsRestored DEF RestoredIn
  <2>2. req[r].reply = "ok" /\ holder = r
    BY <1>1, <2>1 DEF RestoredWell, MayRestore, Live, Is, Chats
  <2>3. QED
    BY <1>1, <2>1, <2>2 DEF IInv, Restoration, RestoreLasts
<1>2. IInv /\ [Next]_vars =>
        [\A r \in Requests :
           Is(r, {"autochat"}) /\ r \notin disturbed /\ RestoredIn(r) => active = Orchestrator /\ manager = Idle]_vars
  BY <1>1
<1>3. QED
  BY Invariance, <1>2, PTL DEF Spec, AutoLeavesOrchestrator
=============================================================================
