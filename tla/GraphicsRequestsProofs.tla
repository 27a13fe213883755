------------------------ MODULE GraphicsRequestsProofs ------------------------
(***************************************************************************)
(* Proofs about GraphicsRequests for any finite set of requests and any    *)
(* limit, days and times that keep the margin.                             *)
(***************************************************************************)
EXTENDS GraphicsRequests, FiniteSetTheorems, TLAPS

Row == [state : RowStates, day : 0 .. Days, age : 0 .. MaxAge]

RowTypes ==
  /\ request \in [Requests -> Row]
  /\ used \in [0 .. Days -> Nat]

SlotTypes == slot \in [holder : Requests \cup {NoOne, Others}, left : 0 .. SlotLease]

PartyTypes ==
  /\ today \in 0 .. Days
  /\ handler \in [Requests -> {"idle", "choosing", "posting", "done", "dead"}]
  /\ job \in [Requests -> JobStates]
  /\ seen \in [Requests -> {"out", "expire", "ask", "askLast"}]
  /\ asking \in Requests \cup {NoOne}
  /\ reply \in {"none", "running", "ready", "failed", "error"}
  /\ polled \in [Requests -> {"none", "running", "ready", "failed"}]
  /\ late \in 0 .. PassTime

Types == RowTypes /\ SlotTypes /\ PartyTypes

(* The parts are what TypeOK says.                                         *)
LEMMA TypeParts == TypeOK <=> Types
BY DEF TypeOK, Types, RowTypes, SlotTypes, PartyTypes, Row

-----------------------------------------------------------------------------
(* The inductive invariant.                                                *)

(* A handler has no row until it reserves, and posts before the row is old.*)
Handled ==
  \A r \in Requests :
    /\ handler[r] \in {"idle", "choosing"} => request[r].state = "none"
    /\ handler[r] = "posting" => request[r].state = "pending" /\ request[r].age <= PostTime

(* What a pass is to do about a row was due when it read the row, and the  *)
(* client polls a row that was accepted.                                   *)
PassInv ==
  /\ \A r \in Requests :
       /\ seen[r] = "expire" =>
            request[r].state \notin {"none", "accepted"} /\ (request[r].state = "pending" => request[r].age >= PendingTimeout)
       /\ seen[r] \in {"ask", "askLast"} \/ polled[r] # "none" =>
            request[r].state \notin {"none", "pending"}
  /\ asking # NoOne => seen[asking] \in {"ask", "askLast"}

(* The least a lease may have left that was n ticks old, at most, when the *)
(* running pass, or the one before it, read its row.                       *)
LeftOf(n, overdue) == SlotLease - (n + late + IF overdue THEN PassTime ELSE 0)

(* A lease is at most a tick older than the pending row, and the POST took *)
(* no longer than PostTime when the row was accepted.                      *)
LeaseOutlivesRow(r) ==
  /\ request[r].state = "pending" =>
       /\ request[r].age < MaxAge => slot.left >= SlotLease - (1 + request[r].age)
       /\ slot.left >= LeftOf(PendingTimeout, seen[r] = "expire")
  /\ request[r].state = "accepted" =>
       /\ request[r].age < MaxAge => slot.left >= SlotLease - (1 + PostTime + request[r].age)
       /\ slot.left >= LeftOf(AcceptedTimeout + PostTime, seen[r] = "askLast")

LeaseInv ==
  \A r \in Requests :
    /\ handler[r] = "choosing" => slot.holder = r /\ slot.left >= SlotLease - 1
    /\ LeaseOutlivesRow(r)

IInv == TypeOK /\ Handled /\ PassInv /\ LeaseInv /\ SlotFollowsRequest /\ QuotaMatchesRows

-----------------------------------------------------------------------------
(* The times are numbers, in this order and with this margin.              *)
LEMMA Times ==
  /\ DailyLimit \in Nat /\ PostTime \in Nat /\ PassTime \in Nat /\ PendingTimeout \in Nat
  /\ AcceptedTimeout \in Nat /\ Days \in Nat /\ SlotLease \in Nat
  /\ PostTime < PendingTimeout /\ PendingTimeout < AcceptedTimeout /\ AcceptedTimeout < SlotLease
BY TimesAssumption

(* Settling.                                                               *)

(* The parts of the invariant, to cite one by one.                         *)
LEMMA Parts ==
  ASSUME IInv
  PROVE  /\ RowTypes /\ SlotTypes /\ PartyTypes
         /\ Handled /\ PassInv /\ LeaseInv /\ OpenRequestHoldsSlot /\ SettledFreesSlot /\ QuotaMatchesRows
BY TypeParts DEF IInv, Types, SlotFollowsRequest

Outcomes == {"ready"} \cup FailedStates

(* An open row is closed, its lease ended; a closed one is left alone.     *)
LEMMA Settling ==
  ASSUME RowTypes, SlotTypes, NEW r \in Requests, NEW outcome \in Outcomes, Settle(r, outcome)
  PROVE  /\ RowTypes' /\ SlotTypes'
         /\ \A o \in Requests \ {r} : request'[o] = request[o]
         /\ request'[r].day = request[r].day
         /\ IF Open(r) THEN request'[r].state = outcome /\ slot' = Released(r)
                       ELSE request'[r] = request[r] /\ slot' = slot
<1>1. request[r] \in Row /\ DOMAIN request = Requests /\ request[r].day \in 0 .. Days
  BY DEF RowTypes, Row
<1>2. CASE Open(r)
  <2> DEFINE q == [request[r] EXCEPT !.state = outcome, !.age = 0]
  <2>1. q \in Row /\ q.state = outcome /\ q.day = request[r].day
    <3>1. 0 \in 0 .. MaxAge
      BY Times DEF MaxAge
    <3>2. outcome \in RowStates
      BY DEF Outcomes, FailedStates, RowStates
    <3>3. QED
      BY <1>1, <3>1, <3>2 DEF Row
  <2>2. request' = [request EXCEPT ![r] = q]
    BY <1>1, <1>2 DEF Settle
  <2> HIDE DEF q
  <2>3. request' \in [Requests -> Row] /\ request'[r] = q /\ \A o \in Requests \ {r} : request'[o] = request[o]
    BY <2>1, <2>2 DEF RowTypes
  <2>4. used' \in [0 .. Days -> Nat]
    BY <1>1, <1>2 DEF Settle, Refunded, RowTypes
  <2>5. slot' = Released(r)
    BY <1>2 DEF Settle
  <2>6. SlotTypes'
    BY <2>5, Times DEF SlotTypes, Released, FreeSlot
  <2>7. QED
    BY <1>2, <2>1, <2>3, <2>4, <2>5, <2>6 DEF RowTypes
<1>3. CASE ~Open(r)
  BY <1>1, <1>3 DEF Settle, RowTypes, SlotTypes
<1>4. QED
  BY <1>2, <1>3

(* The counters of the days follow the rows that are charged.              *)
ChargedStates == OpenStates \cup {"ready"}

(* They still do when the same rows are charged and no counter moves.      *)
LEMMA QuotaKept ==
  ASSUME QuotaMatchesRows, UNCHANGED used,
         \A r \in Requests : /\ request'[r].state \in ChargedStates <=> request[r].state \in ChargedStates
                             /\ request'[r].day = request[r].day
  PROVE  QuotaMatchesRows'
<1>1. \A d : Charged(d)' = Charged(d)
  BY DEF Charged, ChargedStates
<1>2. QED
  BY <1>1 DEF QuotaMatchesRows

(* Those of a day are finitely many.                                       *)
LEMMA ChargedFinite ==
  ASSUME NEW d
  PROVE  IsFiniteSet(Charged(d)) /\ Cardinality(Charged(d)) \in Nat
BY RequestsAssumption, FS_Subset, FS_CardinalityType DEF Charged

(* A settled request is refunded once, on its day, if it has no image.     *)
LEMMA QuotaSettles ==
  ASSUME RowTypes, SlotTypes, QuotaMatchesRows, NEW r \in Requests, NEW outcome \in Outcomes, Settle(r, outcome)
  PROVE  QuotaMatchesRows'
<1>1. /\ \A o \in Requests \ {r} : request'[o] = request[o]
      /\ request'[r].day = request[r].day
      /\ IF Open(r) THEN request'[r].state = outcome ELSE request'[r] = request[r]
  BY Settling
<1>2. CASE ~Open(r) \/ outcome = "ready"
  <2>1. used' = used
    BY <1>2 DEF Settle
  <2>2. QED
    BY <1>1, <1>2, <2>1, QuotaKept DEF Open, ChargedStates
<1>3. CASE Open(r) /\ outcome # "ready"
  <2> DEFINE day == request[r].day
  <2>1. day \in 0 .. Days /\ used' = Refunded(day)
    BY <1>3 DEF Settle, RowTypes, Row
  <2>2. r \in Charged(day) /\ \A d : Charged(d)' = Charged(d) \ {r}
    BY <1>1, <1>3 DEF Charged, Open, Outcomes, FailedStates, OpenStates
  <2>3. Cardinality(Charged(day) \ {r}) = Cardinality(Charged(day)) - 1
    BY <2>2, ChargedFinite, FS_RemoveElement
  <2>4. Cardinality(Charged(day)) > 0
    BY <2>2, ChargedFinite, FS_EmptySet
  <2>5. ASSUME NEW d \in 0 .. Days, d # day
        PROVE  used'[d] = used[d] /\ Charged(d)' = Charged(d)
    <3>1. r \notin Charged(d)
      BY <2>5 DEF Charged
    <3>2. QED
      BY <2>1, <2>2, <2>5, <3>1 DEF Refunded, RowTypes
  <2>6. used'[day] = used[day] - 1
    BY <2>1, <2>4 DEF Refunded, RowTypes, QuotaMatchesRows
  <2>7. QED
    BY <2>1, <2>2, <2>3, <2>5, <2>6 DEF QuotaMatchesRows
<1>4. QED
  BY <1>2, <1>3

(* A request that is reserved is charged to the day.                       *)
LEMMA QuotaReserves ==
  ASSUME RowTypes, PartyTypes, QuotaMatchesRows, NEW r \in Requests, Reserve(r), request[r].state = "none"
  PROVE  QuotaMatchesRows'
<1>1. PICK day \in 0 .. Days : day = today
  BY DEF PartyTypes
<1>2. request' = [request EXCEPT ![r] = [state |-> "pending", day |-> day, age |-> 0]]
      /\ used' = [used EXCEPT ![day] = @ + 1]
  BY <1>1 DEF Reserve
<1>3. /\ request'[r].state = "pending" /\ request'[r].day = day
      /\ \A o \in Requests \ {r} : request'[o] = request[o]
  BY <1>2 DEF RowTypes
<1>4. r \notin Charged(day) /\ Charged(day)' = Charged(day) \cup {r}
  BY <1>3 DEF Charged, OpenStates
<1>5. Cardinality(Charged(day) \cup {r}) = Cardinality(Charged(day)) + 1
  BY <1>4, ChargedFinite, FS_AddElement
<1>6. ASSUME NEW d \in 0 .. Days, d # day
      PROVE  used'[d] = used[d] /\ Charged(d)' = Charged(d)
  BY <1>2, <1>3, <1>6 DEF Charged, OpenStates, RowTypes
<1>7. used'[day] = used[day] + 1
  BY <1>2 DEF RowTypes
<1>8. QED
  BY <1>4, <1>5, <1>6, <1>7 DEF QuotaMatchesRows

-----------------------------------------------------------------------------
(* Steps that leave the rows alone.                                        *)

(* An open request has not finished with the slot, nor another got it.     *)
LEMMA OpenHolds ==
  ASSUME IInv, NEW r \in Requests, Open(r) \/ handler[r] = "choosing"
  PROVE  slot.holder = r /\ slot.left > 0 /\ slot.left \in Nat /\ r # NoOne /\ r # Others
<1>1. slot.left \in Nat
  BY Parts, Times DEF SlotTypes
<1>2. CASE Open(r)
  BY <1>1, <1>2, Parts, RequestsAssumption DEF OpenRequestHoldsSlot
<1>3. CASE handler[r] = "choosing"
  BY <1>1, <1>3, Parts, Times, RequestsAssumption DEF LeaseInv
<1>4. QED
  BY <1>2, <1>3

(* It is enough that open requests and those that choose hold the slot no  *)
(* shorter than before, and that no settled request gets it.               *)
LEMMA QuietStep ==
  ASSUME IInv, UNCHANGED <<request, used, late>>, SlotTypes', PartyTypes', PassInv',
         \A r \in Requests : \/ handler'[r] \in {handler[r], "done", "dead"}
                             \/ handler[r] = "idle" /\ handler'[r] = "choosing",
         \A r \in Requests : Open(r) =>
           /\ slot'.holder = r /\ slot'.left >= slot.left
           /\ seen'[r] = seen[r] \/ (seen[r] = "ask" /\ seen'[r] = "out") \/ slot'.left = SlotLease,
         \A r \in Requests : handler'[r] = "choosing" => slot'.holder = r /\ slot'.left >= SlotLease - 1,
         \A r \in Requests : slot'.holder = r => slot.holder = r \/ handler[r] = "idle"
  PROVE  IInv'
<1>1. /\ RowTypes /\ SlotTypes /\ PartyTypes /\ Handled /\ LeaseInv
      /\ OpenRequestHoldsSlot /\ SettledFreesSlot /\ QuotaMatchesRows
  BY Parts
<1>2. TypeOK'
  BY <1>1 DEF TypeOK, RowTypes, SlotTypes, PartyTypes, Row
<1>3. Handled'
  BY <1>1 DEF Handled
<1>4. slot.left \in Nat /\ slot'.left \in Nat /\ late \in Nat /\ SlotLease \in Nat
  BY <1>1, Times DEF SlotTypes, PartyTypes
<1>5. ASSUME NEW r \in Requests
      PROVE  LeaseOutlivesRow(r)'
  <2>1. request[r].age \in Nat
    BY <1>1, Times DEF RowTypes, Row, MaxAge
  <2>2. CASE ~Open(r)
    BY <2>2 DEF LeaseOutlivesRow, Open, OpenStates
  <2>3. CASE Open(r) /\ slot'.left = SlotLease
    BY <1>4, <2>1, <2>3, Times DEF LeaseOutlivesRow, LeftOf
  <2>4. CASE Open(r) /\ (seen'[r] = seen[r] \/ (seen[r] = "ask" /\ seen'[r] = "out"))
    <3>1. slot'.left >= slot.left /\ LeaseOutlivesRow(r)
      BY <1>1, <2>4 DEF LeaseInv
    <3>2. (seen'[r] = "expire" <=> seen[r] = "expire") /\ (seen'[r] = "askLast" <=> seen[r] = "askLast")
      BY <2>4
    <3>3. QED
      BY <1>4, <2>1, <3>1, <3>2, Times DEF LeaseOutlivesRow, LeftOf
  <2>5. QED
    BY <2>2, <2>3, <2>4
<1>6. LeaseInv'
  BY <1>5 DEF LeaseInv
<1>7. OpenRequestHoldsSlot'
  BY <1>1, <1>4 DEF OpenRequestHoldsSlot, Open
<1>8. SettledFreesSlot'
  BY <1>1 DEF SettledFreesSlot, Handled
<1>9. QuotaMatchesRows'
  BY <1>1, QuotaKept
<1>10. QED
  BY <1>2, <1>3, <1>6, <1>7, <1>8, <1>9 DEF IInv, SlotFollowsRequest

(* Somebody gets a slot that is free or whose lease has lapsed.            *)
LEMMA SlotTaken ==
  ASSUME IInv, (\E r \in Requests : Admitted(r)) \/ OthersTake \/ OthersEnd
  PROVE  IInv'
<1>1. SlotTypes /\ PartyTypes /\ PassInv
  BY Parts
<1>2. \A r \in Requests : ~Open(r) /\ handler[r] # "choosing"
  BY OpenHolds DEF Admitted, OthersTake, OthersEnd
<1>3. UNCHANGED <<request, used, late, today, job, seen, asking, reply, polled>>
  BY DEF Admitted, OthersTake, OthersEnd
<1>4. PassInv'
  BY <1>1, <1>3 DEF PassInv
<1>5. ASSUME NEW r \in Requests, Admitted(r)
      PROVE  IInv'
  <2>1. SlotTypes' /\ slot'.holder = r /\ slot'.left = SlotLease
    BY <1>5, Times DEF Admitted, SlotTypes
  <2>2. PartyTypes' /\ handler[r] = "idle" /\ handler'[r] = "choosing" /\ \A o \in Requests \ {r} : handler'[o] = handler[o]
    BY <1>1, <1>3, <1>5 DEF Admitted, Goes, PartyTypes
  <2>3. QED
    BY <1>2, <1>3, <1>4, <2>1, <2>2, Times, QuietStep
<1>6. CASE OthersTake \/ OthersEnd
  <2>1. SlotTypes' /\ slot'.holder \in {NoOne, Others} /\ handler' = handler
    BY <1>6, Times DEF OthersTake, OthersEnd, SlotTypes, FreeSlot
  <2>2. PartyTypes'
    BY <1>1, <1>3, <2>1 DEF PartyTypes
  <2>3. QED
    BY <1>2, <1>3, <1>4, <2>1, <2>2, RequestsAssumption, QuietStep
<1>7. QED
  BY <1>5, <1>6

(* A handler ends without a row.                                           *)
LEMMA Abstained ==
  ASSUME IInv, NEW r \in Requests, NotReserved(r) \/ HandlerDies(r)
  PROVE  IInv'
<1>1. SlotTypes /\ PartyTypes /\ PassInv /\ Handled /\ LeaseInv /\ OpenRequestHoldsSlot
  BY Parts
<1>2. UNCHANGED <<request, used, late, today, job, seen, asking, reply, polled>>
  BY DEF NotReserved, HandlerDies
<1>3. PassInv'
  BY <1>1, <1>2 DEF PassInv
<1>4. PartyTypes' /\ handler'[r] \in {"done", "dead"} /\ \A o \in Requests \ {r} : handler'[o] = handler[o]
  BY <1>1, <1>2 DEF NotReserved, HandlerDies, Goes, PartyTypes
<1>5. SlotTypes' /\ slot' \in {slot, FreeSlot} /\ (slot' # slot => NotReserved(r) /\ slot.holder = r)
  BY <1>1, Times DEF NotReserved, HandlerDies, Released, SlotTypes, FreeSlot
<1>6. slot' # slot => ~Open(r)
  BY <1>1, <1>5 DEF NotReserved, Goes, Handled, Open, OpenStates
<1>7. \A o \in Requests \ {r} : Open(o) \/ handler[o] = "choosing" => slot' = slot
  BY <1>5, OpenHolds
<1>8. \A o \in Requests : slot'.holder = o => slot' = slot
  BY <1>5, RequestsAssumption DEF FreeSlot
<1>9. slot.left \in Nat
  BY <1>1, Times DEF SlotTypes
<1>10. QED
  BY <1>1, <1>2, <1>3, <1>4, <1>5, <1>6, <1>7, <1>8, <1>9, QuietStep DEF OpenRequestHoldsSlot, LeaseInv

(* The slot is left alone, or renewed for an open request.                 *)
LEMMA SlotKept ==
  ASSUME IInv, UNCHANGED <<request, used, late, handler>>, PartyTypes', PassInv', NEW x,
         slot' = slot \/ (x \in Requests /\ Open(x) /\ slot' = Renewed(x)),
         \A r \in Requests : \/ seen'[r] = seen[r]
                             \/ seen[r] = "ask" /\ seen'[r] = "out"
                             \/ ~Open(r)
                             \/ r = x /\ slot' = Renewed(x)
  PROVE  IInv'
<1>1. SlotTypes /\ LeaseInv
  BY Parts
<1>2. slot.left \in 0 .. SlotLease
  BY <1>1 DEF SlotTypes
<1>3. x \in Requests /\ Open(x) /\ slot' = Renewed(x) => slot' = [slot EXCEPT !.left = SlotLease] /\ slot.holder = x
  BY OpenHolds DEF Renewed
<1>4. SlotTypes' /\ slot'.holder = slot.holder /\ slot'.left >= slot.left
      /\ (x \in Requests /\ Open(x) /\ slot' = Renewed(x) => slot'.left = SlotLease)
  BY <1>1, <1>2, <1>3, Times DEF SlotTypes
<1>5. \A r \in Requests : Open(r) => slot'.holder = r
  BY <1>4, OpenHolds
<1>6. \A r \in Requests : handler[r] = "choosing" => slot'.holder = r /\ slot'.left >= SlotLease - 1
  BY <1>1, <1>2, <1>4, Times DEF LeaseInv, SlotTypes
<1>7. QED
  BY <1>4, <1>5, <1>6, QuietStep

(* The core, the date and whoever asks the core leave the slot alone.      *)
LEMMA CoreStepKept ==
  ASSUME IInv, (\E r \in Requests : CoreStep(r) \/ AskCore(r) \/ Poll(r)) \/ Restarts \/ Midnight
  PROVE  IInv'
<1>1. PartyTypes /\ PassInv
  BY Parts
<1>2. UNCHANGED <<slot, request, used, late, handler, seen>>
  BY DEF CoreStep, TakesJob, EndsJob, AskCore, Poll, Restarts, Midnight
<1>3. PassInv' /\ PartyTypes'
  <2>1. CASE \E r \in Requests : AskCore(r)
    <3>1. PICK r \in Requests : AskCore(r)
      BY <2>1
    <3>2. reply' \in {"error", "running", "ready", "failed"}
      BY <3>1 DEF AskCore, Says
    <3>3. QED
      BY <1>1, <1>2, <3>1, <3>2 DEF AskCore, PassInv, PartyTypes
  <2>2. CASE (\E r \in Requests : CoreStep(r)) \/ Restarts \/ Midnight
    <3>1. UNCHANGED <<asking, reply, polled>>
      BY <2>2 DEF CoreStep, TakesJob, EndsJob, Restarts, Midnight
    <3>2. job' \in [Requests -> JobStates]
      BY <1>1, <2>2 DEF CoreStep, TakesJob, EndsJob, Restarts, Midnight, PartyTypes, JobStates
    <3>3. today' \in 0 .. Days
      BY <1>1, <2>2, Times DEF CoreStep, TakesJob, EndsJob, Restarts, Midnight, PartyTypes
    <3>4. QED
      BY <1>1, <1>2, <3>1, <3>2, <3>3 DEF PassInv, PartyTypes
  <2>3. CASE \E r \in Requests : Poll(r)
    <3>1. PICK r \in Requests : Poll(r)
      BY <2>3
    <3>2. PICK state \in {"running", "ready", "failed"} : polled' = [polled EXCEPT ![r] = state]
      BY <3>1 DEF Poll, Says
    <3>3. UNCHANGED <<today, handler, job, seen, asking, reply, late>> /\ request[r].state = "accepted"
      BY <3>1 DEF Poll
    <3>4. QED
      BY <1>1, <1>2, <3>2, <3>3 DEF PassInv, PartyTypes
  <2>4. QED
    BY <2>1, <2>2, <2>3
<1>4. QED
  BY <1>2, <1>3, SlotKept

(* The client or the pass learns that the job goes on, or the pass that    *)
(* the core is silent for now.                                             *)
LEMMA RenewalStep ==
  ASSUME IInv, NEW r \in Requests,
         \/ PollReplied(r) /\ UNCHANGED <<request, used>> /\ (slot' = IF Open(r) THEN Renewed(r) ELSE slot)
         \/ CoreReplied(r) /\ UNCHANGED <<request, used>> /\ (slot' = IF Open(r) THEN Renewed(r) ELSE slot)
         \/ CoreReplied(r) /\ seen[r] # "askLast" /\ UNCHANGED <<request, used, slot>>
  PROVE  IInv'
<1>1. PartyTypes /\ PassInv
  BY Parts
<1>2. UNCHANGED <<late, handler, today, job>>
  BY DEF PollReplied, CoreReplied
<1>3. CASE PollReplied(r) /\ UNCHANGED <<request, used>> /\ (slot' = IF Open(r) THEN Renewed(r) ELSE slot)
  <2>1. /\ UNCHANGED <<seen, asking, reply>> /\ PartyTypes'
        /\ polled'[r] = "none" /\ \A o \in Requests \ {r} : polled'[o] = polled[o]
    BY <1>1, <1>2, <1>3 DEF PollReplied, PartyTypes
  <2>2. PassInv'
    BY <1>1, <1>3, <2>1 DEF PassInv
  <2>3. QED
    BY <1>2, <1>3, <2>1, <2>2, SlotKept
<1>4. CASE /\ CoreReplied(r) /\ UNCHANGED <<request, used>>
           /\ \/ slot' = IF Open(r) THEN Renewed(r) ELSE slot
              \/ seen[r] # "askLast" /\ slot' = slot
  <2>1. asking = r /\ seen[r] \in {"ask", "askLast"} /\ asking' = NoOne
    BY <1>1, <1>4, RequestsAssumption DEF CoreReplied, PassInv
  <2>2. seen' = [seen EXCEPT ![r] = "out"] /\ reply' = "none" /\ polled' = polled
    BY <1>4 DEF CoreReplied
  <2>3. PartyTypes' /\ seen'[r] = "out" /\ \A o \in Requests \ {r} : seen'[o] = seen[o]
    BY <1>1, <1>2, <2>1, <2>2 DEF PartyTypes
  <2>4. PassInv'
    BY <1>1, <1>4, <2>1, <2>2, <2>3 DEF PassInv
  <2>5. QED
    BY <1>2, <1>4, <2>1, <2>3, <2>4, SlotKept
<1>5. QED
  BY <1>3, <1>4

-----------------------------------------------------------------------------
(* Steps that change a row.                                                *)

(* Whoever settles a request keeps the invariant, but while it is posted.  *)
LEMMA SettleStep ==
  ASSUME IInv, NEW r \in Requests, NEW outcome \in Outcomes, Settle(r, outcome),
         PartyTypes', UNCHANGED late, handler'[r] = handler[r] \/ handler'[r] = "done", handler'[r] # "posting",
         seen'[r] \in {seen[r], "out"}, polled'[r] \in {polled[r], "none"},
         \A o \in Requests \ {r} : handler'[o] = handler[o] /\ seen'[o] = seen[o] /\ polled'[o] = polled[o],
         asking' = NoOne \/ (asking' = asking /\ seen' = seen)
  PROVE  IInv'
<1>1. /\ RowTypes /\ SlotTypes /\ PartyTypes /\ Handled /\ PassInv /\ LeaseInv
      /\ OpenRequestHoldsSlot /\ SettledFreesSlot /\ QuotaMatchesRows
  BY Parts
<1>2. /\ RowTypes' /\ SlotTypes'
      /\ \A o \in Requests \ {r} : request'[o] = request[o]
      /\ IF Open(r) THEN request'[r].state = outcome /\ slot' = Released(r)
                    ELSE request'[r] = request[r] /\ slot' = slot
  BY <1>1, Settling
<1>3. TypeOK'
  BY <1>2 DEF TypeOK, RowTypes, SlotTypes, PartyTypes, Row
<1>4. ~Open(r)' /\ request'[r].state \notin OpenStates
  BY <1>2 DEF Open, OpenStates, Outcomes, FailedStates
<1>5. Open(r) => request'[r].state # "none" /\ handler[r] \notin {"idle", "choosing"}
  BY <1>1, <1>2 DEF Handled, Open, OpenStates, Outcomes, FailedStates
<1>6. Handled'
  BY <1>1, <1>2, <1>4, <1>5 DEF Handled
<1>7. PassInv'
  BY <1>1, <1>2, <1>4, <1>5 DEF PassInv, OpenStates
<1>8. \A o \in Requests \ {r} : Open(o) \/ handler[o] = "choosing" => slot' = slot
  BY <1>2, OpenHolds DEF Released
<1>9. handler[r] = "choosing" => slot' = slot
  BY <1>2, <1>5
<1>10. \A o \in Requests \ {r} : LeaseOutlivesRow(o)'
  BY <1>1, <1>2, <1>8 DEF LeaseInv, LeaseOutlivesRow, LeftOf, Open, OpenStates
<1>11. LeaseOutlivesRow(r)'
  BY <1>4 DEF LeaseOutlivesRow, OpenStates
<1>12. \A o \in Requests : handler'[o] = "choosing" => slot' = slot /\ handler[o] = "choosing"
  BY <1>8, <1>9
<1>13. LeaseInv'
  BY <1>1, <1>10, <1>11, <1>12 DEF LeaseInv
<1>14. OpenRequestHoldsSlot'
  BY <1>1, <1>2, <1>4, <1>8 DEF OpenRequestHoldsSlot, Open
<1>15. SettledFreesSlot'
  BY <1>1, <1>2, <1>5, RequestsAssumption DEF SettledFreesSlot, Released, FreeSlot
<1>16. QuotaMatchesRows'
  BY <1>1, QuotaSettles
<1>17. QED
  BY <1>3, <1>6, <1>7, <1>13, <1>14, <1>15, <1>16 DEF IInv, SlotFollowsRequest

(* The handler, the client and the pass settle.                            *)
LEMMA SettlingSteps ==
  ASSUME IInv, NEW r \in Requests,
         \/ PostFailed(r) \/ Expire(r)
         \/ PollReplied(r) /\ \E state \in {"ready", "failed"} : Settle(r, state)
         \/ CoreReplied(r) /\ \E state \in {"ready", "failed", "abandoned"} : Settle(r, state)
  PROVE  IInv'
<1>1. RowTypes /\ PartyTypes /\ PassInv /\ Handled
  BY Parts
<1>2. {"queue-error", "abandoned", "ready", "failed"} \subseteq Outcomes
  BY DEF Outcomes, FailedStates
<1>3. CASE PostFailed(r)
  <2>1. Open(r)
    BY <1>1, <1>3 DEF PostFailed, Goes, Handled, Open, OpenStates
  <2>2. PartyTypes' /\ handler'[r] = "done" /\ \A o \in Requests \ {r} : handler'[o] = handler[o]
    BY <1>1, <1>3 DEF PostFailed, Goes, PartyTypes
  <2>3. Settle(r, "queue-error") /\ UNCHANGED <<late, seen, asking, polled>>
    BY <1>3, <2>1 DEF PostFailed
  <2>4. QED
    BY <1>2, <2>2, <2>3, SettleStep
<1>4. CASE Expire(r)
  <2>1. handler[r] # "posting"
    <3>1. request[r].age \in Nat
      BY <1>1, Times DEF RowTypes, Row, MaxAge
    <3>2. QED
      BY <1>1, <1>4, <3>1, Times DEF Expire, PassInv, Handled
  <2>2. PartyTypes' /\ seen'[r] = "out" /\ \A o \in Requests \ {r} : seen'[o] = seen[o]
    BY <1>1, <1>4 DEF Expire, PartyTypes
  <2>3. Settle(r, "abandoned") /\ UNCHANGED <<late, handler, polled>> /\ asking' = NoOne
    BY <1>4 DEF Expire
  <2>4. QED
    BY <1>2, <2>1, <2>2, <2>3, SettleStep
<1>5. CASE PollReplied(r) /\ \E state \in {"ready", "failed"} : Settle(r, state)
  <2>1. handler[r] # "posting" /\ UNCHANGED <<late, handler, seen, asking>>
    BY <1>1, <1>5 DEF PollReplied, PassInv, Handled
  <2>2. PartyTypes' /\ polled'[r] = "none" /\ \A o \in Requests \ {r} : polled'[o] = polled[o]
    BY <1>1, <1>5 DEF PollReplied, PartyTypes
  <2>3. QED
    BY <1>2, <1>5, <2>1, <2>2, SettleStep
<1>6. CASE CoreReplied(r) /\ \E state \in {"ready", "failed", "abandoned"} : Settle(r, state)
  <2>1. seen[r] \in {"ask", "askLast"} /\ handler[r] # "posting"
    BY <1>1, <1>6, RequestsAssumption DEF CoreReplied, PassInv, Handled
  <2>2. PartyTypes' /\ seen'[r] = "out" /\ \A o \in Requests \ {r} : seen'[o] = seen[o]
    BY <1>1, <1>6 DEF CoreReplied, PartyTypes
  <2>3. UNCHANGED <<late, handler, polled>> /\ asking' = NoOne
    BY <1>6 DEF CoreReplied
  <2>4. QED
    BY <1>2, <1>6, <2>1, <2>2, <2>3, SettleStep
<1>7. QED
  BY <1>3, <1>4, <1>5, <1>6

(* Polls and replies either settle or renew.                               *)
LEMMA PollStep ==
  ASSUME IInv, NEW r \in Requests, PollReplied(r) \/ CoreReplied(r)
  PROVE  IInv'
<1>1. CASE PollReplied(r)
  <2>1. \/ \E state \in {"ready", "failed"} : Settle(r, state)
        \/ UNCHANGED <<request, used>> /\ (slot' = IF Open(r) THEN Renewed(r) ELSE slot)
    BY <1>1 DEF PollReplied, Learns
  <2>2. QED
    BY <1>1, <2>1, SettlingSteps, RenewalStep
<1>2. CASE CoreReplied(r)
  <2>1. \/ \E state \in {"ready", "failed", "abandoned"} : Settle(r, state)
        \/ UNCHANGED <<request, used>> /\ (slot' = IF Open(r) THEN Renewed(r) ELSE slot)
        \/ seen[r] # "askLast" /\ UNCHANGED <<request, used, slot>>
    BY <1>2 DEF CoreReplied, Learns
  <2>2. QED
    BY <1>2, <2>1, SettlingSteps, RenewalStep
<1>3. QED
  BY <1>1, <1>2

(* One row is opened or accepted by the handler, which holds the slot.     *)
LEMMA RowOpens ==
  ASSUME IInv, NEW r \in Requests, NEW q \in Row, request' = [request EXCEPT ![r] = q],
         PartyTypes', UNCHANGED <<slot, late, seen, asking, polled>>, QuotaMatchesRows', used' \in [0 .. Days -> Nat],
         slot.holder = r, slot.left > 0, q.state \in OpenStates, q.age = 0,
         \A o \in Requests \ {r} : handler'[o] = handler[o],
         q.state = "pending" => seen[r] = "out" /\ polled[r] = "none" /\ handler'[r] = "posting" /\ slot.left >= SlotLease - 1,
         q.state = "accepted" => seen[r] # "expire" /\ handler'[r] = "done" /\ slot.left >= SlotLease - (1 + PostTime)
  PROVE  IInv'
<1>1. /\ RowTypes /\ SlotTypes /\ PartyTypes /\ Handled /\ PassInv /\ LeaseInv
      /\ OpenRequestHoldsSlot /\ SettledFreesSlot
  BY Parts
<1>2. RowTypes' /\ request'[r] = q /\ \A o \in Requests \ {r} : request'[o] = request[o]
  BY <1>1 DEF RowTypes
<1>3. TypeOK'
  BY <1>1, <1>2 DEF TypeOK, RowTypes, SlotTypes, PartyTypes, Row
<1>4. q.state \in {"pending", "accepted"}
  BY DEF OpenStates
<1>5. Handled'
  BY <1>1, <1>2, <1>4, Times DEF Handled
<1>6. PassInv'
  <2>1. q.state = "accepted" => seen[r] # "expire"
    OBVIOUS
  <2>2. seen[r] \in {"ask", "askLast"} \/ polled[r] # "none" => q.state = "accepted"
    BY <1>4
  <2>3. QED
    BY <1>1, <1>2, <1>4, <2>1, <2>2 DEF PassInv
<1>7. LeaseOutlivesRow(r)'
  <2>1. late \in Nat /\ slot.left \in Nat /\ PassTime \in Nat
    BY <1>1, Times DEF PartyTypes, SlotTypes
  <2>2. CASE q.state = "pending"
    BY <1>2, <2>1, <2>2, Times DEF LeaseOutlivesRow, LeftOf
  <2>3. CASE q.state = "accepted"
    BY <1>2, <2>1, <2>3, Times DEF LeaseOutlivesRow, LeftOf
  <2>4. QED
    BY <1>4, <2>2, <2>3
<1>8. \A o \in Requests \ {r} : LeaseOutlivesRow(o)'
  BY <1>1, <1>2 DEF LeaseInv, LeaseOutlivesRow, LeftOf
<1>9. LeaseInv'
  BY <1>1, <1>4, <1>7, <1>8 DEF LeaseInv
<1>10. OpenRequestHoldsSlot' /\ SettledFreesSlot'
  BY <1>1, <1>2 DEF OpenRequestHoldsSlot, SettledFreesSlot, Open
<1>11. QED
  BY <1>3, <1>5, <1>6, <1>9, <1>10 DEF IInv, SlotFollowsRequest

(* A prompt and a row are reserved.                                        *)
LEMMA ReserveStep ==
  ASSUME IInv, NEW r \in Requests, Reserve(r)
  PROVE  IInv'
<1>1. RowTypes /\ SlotTypes /\ PartyTypes /\ Handled /\ PassInv /\ LeaseInv /\ QuotaMatchesRows
  BY Parts
<1>2. handler[r] = "choosing" /\ request[r].state = "none"
  BY <1>1 DEF Reserve, Goes, Handled
<1> DEFINE q == [state |-> "pending", day |-> today, age |-> 0]
<1>3. q \in Row /\ q.state = "pending" /\ q.age = 0
  BY <1>1, Times DEF PartyTypes, Row, RowStates, OpenStates, MaxAge
<1>4. request' = [request EXCEPT ![r] = q]
  BY DEF Reserve
<1> HIDE DEF q
<1>5. QuotaMatchesRows' /\ used' \in [0 .. Days -> Nat]
  <2>1. used' \in [0 .. Days -> Nat]
    BY <1>1 DEF Reserve, RowTypes, PartyTypes
  <2>2. QED
    BY <1>1, <1>2, <2>1, QuotaReserves
<1>6. seen[r] = "out" /\ polled[r] = "none"
  BY <1>1, <1>2 DEF PassInv, PartyTypes
<1>7. slot.holder = r /\ slot.left > 0 /\ slot.left >= SlotLease - 1
  BY <1>1, <1>2, OpenHolds DEF LeaseInv
<1>8. PartyTypes' /\ handler'[r] = "posting" /\ \A o \in Requests \ {r} : handler'[o] = handler[o]
  BY <1>1 DEF Reserve, Goes, PartyTypes
<1>9. UNCHANGED <<slot, late, seen, asking, polled>>
  BY DEF Reserve
<1>10. QED
  BY <1>3, <1>4, <1>5, <1>6, <1>7, <1>8, <1>9, RowOpens DEF OpenStates

(* The core has the job.                                                   *)
LEMMA PostedStep ==
  ASSUME IInv, NEW r \in Requests, Posted(r)
  PROVE  IInv'
<1>1. RowTypes /\ SlotTypes /\ PartyTypes /\ Handled /\ PassInv /\ LeaseInv /\ QuotaMatchesRows
  BY Parts
<1>2. handler[r] = "posting" /\ request[r].state = "pending" /\ request[r].age <= PostTime /\ Open(r)
  BY <1>1 DEF Posted, Goes, Handled, Open, OpenStates
<1> DEFINE q == [request[r] EXCEPT !.state = "accepted", !.age = 0]
<1>3. q \in Row /\ q.state = "accepted" /\ q.age = 0 /\ q.day = request[r].day /\ request[r].age \in Nat
  <2>1. request[r] \in Row /\ 0 \in 0 .. MaxAge /\ "accepted" \in RowStates
    BY <1>1, Times DEF RowTypes, MaxAge, RowStates, OpenStates
  <2>2. request[r].age \in Nat
    BY <2>1, Times DEF Row, MaxAge
  <2>3. QED
    BY <2>1, <2>2 DEF Row
<1>4. request' = [request EXCEPT ![r] = q]
  BY <1>1, <1>2 DEF Posted, RowTypes
<1> HIDE DEF q
<1>5. UNCHANGED <<slot, late, seen, asking, polled, used>>
  BY <1>2 DEF Posted
<1>6. QuotaMatchesRows' /\ used' \in [0 .. Days -> Nat]
  BY <1>1, <1>2, <1>3, <1>4, <1>5, QuotaKept DEF RowTypes, ChargedStates, OpenStates
<1>7. seen[r] # "expire"
  BY <1>1, <1>2, <1>3, Times DEF PassInv
<1>8. slot.holder = r /\ slot.left > 0
  BY <1>2, OpenHolds
<1>9. slot.left >= SlotLease - (1 + PostTime)
  <2>1. slot.left >= SlotLease - (1 + request[r].age) /\ slot.left \in Nat
    BY <1>1, <1>2, <1>3, Times DEF LeaseInv, LeaseOutlivesRow, MaxAge, SlotTypes
  <2>2. QED
    BY <1>2, <1>3, <2>1, Times
<1>10. PartyTypes' /\ handler'[r] = "done" /\ \A o \in Requests \ {r} : handler'[o] = handler[o]
  BY <1>1 DEF Posted, Goes, PartyTypes
<1>11. QED
  BY <1>3, <1>4, <1>5, <1>6, <1>7, <1>8, <1>9, <1>10, RowOpens DEF OpenStates

-----------------------------------------------------------------------------
(* Time.                                                                   *)

(* What a pass will do about a row when it has just read it.               *)
LEMMA VerdictOf ==
  ASSUME NEW r \in Requests
  PROVE  /\ Verdict(r) \in {"out", "expire", "ask", "askLast"}
         /\ Verdict(r) = "expire" <=> request[r].state = "pending" /\ request[r].age >= PendingTimeout
         /\ Verdict(r) = "askLast" <=> request[r].state = "accepted" /\ request[r].age >= AcceptedTimeout
         /\ Verdict(r) = "ask" => request[r].state = "accepted"
BY DEF Verdict

(* The pass reads the rows.                                                *)
LEMMA ReadStep ==
  ASSUME IInv, ReadRows
  PROVE  IInv'
<1>1. /\ RowTypes /\ SlotTypes /\ PartyTypes /\ Handled /\ PassInv /\ LeaseInv
      /\ OpenRequestHoldsSlot /\ SettledFreesSlot /\ QuotaMatchesRows
  BY Parts
<1>2. /\ UNCHANGED <<slot, used, today, request, handler, job, asking, reply, polled>> /\ late' = 0
      /\ asking = NoOne /\ \A r \in Requests : seen[r] = "out" /\ seen'[r] = Verdict(r)
  BY DEF ReadRows
<1>3. TypeOK'
  <2>1. seen' \in [Requests -> {"out", "expire", "ask", "askLast"}]
    BY VerdictOf DEF ReadRows
  <2>2. 0 \in 0 .. PassTime
    BY Times
  <2>3. QED
    BY <1>1, <1>2, <2>1, <2>2 DEF TypeOK, RowTypes, SlotTypes, PartyTypes, Row
<1>4. PassInv'
  BY <1>1, <1>2, VerdictOf DEF PassInv
<1>5. ASSUME NEW r \in Requests
      PROVE  LeaseOutlivesRow(r)'
  <2>1. late \in 0 .. PassTime /\ slot.left \in Nat /\ request[r].age \in Nat
    BY <1>1, Times DEF PartyTypes, SlotTypes, RowTypes, Row, MaxAge
  <2>2. LeaseOutlivesRow(r) /\ seen[r] = "out"
    BY <1>1, <1>2 DEF LeaseInv
  <2>3. CASE request[r].state = "pending"
    <3>1. seen'[r] = "expire" \/ request[r].age < PendingTimeout
      BY <1>2, <2>1, <2>3, Times, VerdictOf
    <3>2. slot.left >= SlotLease - (PendingTimeout + late)
      BY <2>1, <2>2, <2>3, Times DEF LeaseOutlivesRow, LeftOf
    <3>3. request[r].age < MaxAge => slot.left >= SlotLease - (1 + request[r].age)
      BY <2>2, <2>3 DEF LeaseOutlivesRow
    <3>4. slot.left >= LeftOf(PendingTimeout, seen[r] = "expire")'
      <4>1. CASE seen'[r] = "expire"
        BY <1>2, <2>1, <3>2, <4>1, Times DEF LeftOf
      <4>2. CASE seen'[r] # "expire"
        BY <1>2, <2>1, <3>1, <3>3, <4>2, Times DEF LeftOf, MaxAge
      <4>3. QED
        BY <4>1, <4>2
    <3>5. QED
      BY <1>2, <2>3, <3>3, <3>4 DEF LeaseOutlivesRow
  <2>4. CASE request[r].state = "accepted"
    <3>1. seen'[r] = "askLast" \/ request[r].age < AcceptedTimeout
      BY <1>2, <2>1, <2>4, Times, VerdictOf
    <3>2. slot.left >= SlotLease - (AcceptedTimeout + PostTime + late)
      BY <2>1, <2>2, <2>4, Times DEF LeaseOutlivesRow, LeftOf
    <3>3. request[r].age < MaxAge => slot.left >= SlotLease - (1 + PostTime + request[r].age)
      BY <2>2, <2>4 DEF LeaseOutlivesRow
    <3>4. slot.left >= LeftOf(AcceptedTimeout + PostTime, seen[r] = "askLast")'
      <4>1. CASE seen'[r] = "askLast"
        BY <1>2, <2>1, <3>2, <4>1, Times DEF LeftOf
      <4>2. CASE seen'[r] # "askLast"
        BY <1>2, <2>1, <3>1, <3>3, <4>2, Times DEF LeftOf, MaxAge
      <4>3. QED
        BY <4>1, <4>2
    <3>5. QED
      BY <1>2, <2>4, <3>3, <3>4 DEF LeaseOutlivesRow
  <2>5. QED
    BY <1>2, <2>3, <2>4 DEF LeaseOutlivesRow
<1>6. LeaseInv' /\ Handled' /\ OpenRequestHoldsSlot' /\ SettledFreesSlot' /\ QuotaMatchesRows'
  BY <1>1, <1>2, <1>5, QuotaKept DEF LeaseInv, Handled, OpenRequestHoldsSlot, SettledFreesSlot, Open
<1>7. QED
  BY <1>3, <1>4, <1>6 DEF IInv, SlotFollowsRequest

(* Time goes by; the margin outlasts it.                                   *)
LEMMA TickStep ==
  ASSUME IInv, Tick
  PROVE  IInv'
<1>1. /\ RowTypes /\ SlotTypes /\ PartyTypes /\ Handled /\ PassInv /\ LeaseInv
      /\ OpenRequestHoldsSlot /\ SettledFreesSlot /\ QuotaMatchesRows
  BY Parts
<1>2. UNCHANGED <<used, today, handler, job, seen, asking, reply, polled>> /\ late' = late + 1 /\ late \in Nat /\ late' \in 0 .. PassTime
  BY <1>1, Times DEF Tick, PartyTypes
<1>3. /\ slot.left \in Nat /\ slot'.holder = slot.holder /\ SlotTypes'
      /\ slot.left > 0 => slot'.left = slot.left - 1
  BY <1>1, Times DEF Tick, SlotTypes
<1>4. ASSUME NEW r \in Requests
      PROVE  /\ request'[r].state = request[r].state /\ request'[r].day = request[r].day /\ request'[r] \in Row
             /\ request[r].age \in Nat
             /\ IF Open(r) /\ request[r].age < MaxAge THEN request'[r].age = request[r].age + 1
                                                      ELSE request'[r].age = request[r].age
  <2>1. request[r] \in Row /\ request[r].age \in 0 .. MaxAge /\ MaxAge \in Nat
    BY <1>1, Times DEF RowTypes, Row, MaxAge
  <2>2. request'[r] = IF Open(r) /\ request[r].age < MaxAge
                        THEN [request[r] EXCEPT !.age = @ + 1] ELSE request[r]
    BY DEF Tick
  <2>3. request[r].age < MaxAge => request[r].age + 1 \in 0 .. MaxAge
    BY <2>1
  <2>4. QED
    BY <2>1, <2>2, <2>3 DEF Row
<1>5. RowTypes'
  <2> DEFINE older(r) == IF Open(r) /\ request[r].age < MaxAge
                           THEN [request[r] EXCEPT !.age = @ + 1] ELSE request[r]
  <2>1. request' = [r \in Requests |-> older(r)]
    BY DEF Tick
  <2> HIDE DEF older
  <2>2. ASSUME NEW r \in Requests
        PROVE  older(r) \in Row
    <3>1. request'[r] = older(r)
      BY <2>1
    <3>2. QED
      BY <1>4, <3>1
  <2>3. QED
    BY <1>1, <1>2, <2>1, <2>2 DEF RowTypes
<1>6. TypeOK'
  BY <1>1, <1>2, <1>3, <1>5 DEF TypeOK, RowTypes, SlotTypes, PartyTypes, Row
<1>7. Handled'
  <2>1. ASSUME NEW r \in Requests, handler[r] = "posting"
        PROVE  request'[r].age <= PostTime
    <3>1. request[r].age < PostTime
      BY <2>1 DEF Tick
    <3>2. request'[r].age \in {request[r].age, request[r].age + 1} /\ request[r].age \in Nat
      BY <1>4
    <3>3. QED
      BY <3>1, <3>2, Times
  <2>2. QED
    BY <1>1, <1>2, <1>4, <2>1 DEF Handled
<1>8. PassInv'
  <2>1. \A r \in Requests : request[r].age >= PendingTimeout => request'[r].age >= PendingTimeout
    BY <1>4, Times
  <2>2. QED
    BY <1>1, <1>2, <1>4, <2>1 DEF PassInv
<1>9. \A r \in Requests : Open(r) => slot'.left = slot.left - 1
  BY <1>3, OpenHolds
<1>10. ASSUME NEW r \in Requests
       PROVE  LeaseOutlivesRow(r)'
  <2>1. request'[r].state = request[r].state /\ request[r].age \in Nat /\ MaxAge \in Nat
    BY <1>4, Times DEF MaxAge
  <2>2. CASE ~Open(r)
    BY <2>1, <2>2 DEF LeaseOutlivesRow, Open, OpenStates
  <2>3. CASE Open(r)
    <3>1. LeaseOutlivesRow(r) /\ slot'.left = slot.left - 1
      BY <1>1, <1>9, <2>3 DEF LeaseInv
    <3>2. request'[r].age < MaxAge => request[r].age < MaxAge /\ request'[r].age = request[r].age + 1
      BY <1>4, <2>1, <2>3
    <3>3. request[r].state = "pending" =>
            /\ request'[r].age < MaxAge => slot'.left >= SlotLease - (1 + request'[r].age)
            /\ slot'.left >= LeftOf(PendingTimeout, seen[r] = "expire")'
      BY <1>2, <1>3, <2>1, <3>1, <3>2, Times DEF LeaseOutlivesRow, LeftOf
    <3>4. request[r].state = "accepted" =>
            /\ request'[r].age < MaxAge => slot'.left >= SlotLease - (1 + PostTime + request'[r].age)
            /\ slot'.left >= LeftOf(AcceptedTimeout + PostTime, seen[r] = "askLast")'
      BY <1>2, <1>3, <2>1, <3>1, <3>2, Times DEF LeaseOutlivesRow, LeftOf
    <3>5. QED
      BY <2>1, <3>3, <3>4 DEF LeaseOutlivesRow
  <2>4. QED
    BY <2>2, <2>3
<1>11. LeaseInv'
  <2>1. ASSUME NEW r \in Requests, handler[r] = "choosing"
        PROVE  slot'.left >= SlotLease - 1
    BY <1>3, <2>1, Times, OpenHolds DEF Tick
  <2>2. QED
    BY <1>1, <1>2, <1>3, <1>10, <2>1 DEF LeaseInv
<1>12. OpenRequestHoldsSlot'
  <2>1. ASSUME NEW r \in Requests, Open(r)
        PROVE  slot'.left > 0
    <3>1. LeaseOutlivesRow(r)'
      BY <1>10
    <3>2. request'[r].state \in {"pending", "accepted"}
      BY <1>4, <2>1 DEF Open, OpenStates
    <3>3. slot'.left \in Nat
      BY <1>3, Times DEF SlotTypes
    <3>4. CASE request'[r].state = "pending"
      BY <1>2, <3>1, <3>3, <3>4, Times, MarginAssumption DEF LeaseOutlivesRow, LeftOf
    <3>5. CASE request'[r].state = "accepted"
      BY <1>2, <3>1, <3>3, <3>5, Times, MarginAssumption DEF LeaseOutlivesRow, LeftOf
    <3>6. QED
      BY <3>2, <3>4, <3>5
  <2>2. QED
    BY <1>1, <1>3, <1>4, <2>1 DEF OpenRequestHoldsSlot, Open
<1>13. SettledFreesSlot' /\ QuotaMatchesRows'
  BY <1>1, <1>2, <1>3, <1>4, QuotaKept DEF SettledFreesSlot
<1>14. QED
  BY <1>6, <1>7, <1>8, <1>11, <1>12, <1>13 DEF IInv, SlotFollowsRequest

-----------------------------------------------------------------------------
(* The invariant holds at first.                                           *)
LEMMA InvariantInit == Init => IInv
<1> SUFFICES ASSUME Init PROVE IInv
  OBVIOUS
<1>1. \A r \in Requests : request[r] = NoRow /\ handler[r] = "idle" /\ seen[r] = "out" /\ polled[r] = "none"
  BY DEF Init
<1>2. NoRow \in Row /\ NoRow.state = "none"
  BY Times DEF NoRow, Row, RowStates, MaxAge
<1>3. RowTypes
  BY <1>2, Times DEF Init, RowTypes
<1>4. SlotTypes /\ PartyTypes
  BY Times DEF Init, SlotTypes, PartyTypes, FreeSlot, JobStates
<1>5. Handled /\ PassInv
  BY <1>1, <1>2, RequestsAssumption DEF Init, Handled, PassInv
<1>6. LeaseInv /\ SlotFollowsRequest
  BY <1>1, <1>2 DEF LeaseInv, LeaseOutlivesRow, SlotFollowsRequest, OpenRequestHoldsSlot, SettledFreesSlot, Open, OpenStates
<1>7. QuotaMatchesRows
  <2>1. \A d : Charged(d) = {}
    BY <1>1, <1>2 DEF Charged, OpenStates
  <2>2. QED
    BY <2>1, FS_EmptySet DEF Init, QuotaMatchesRows
<1>8. QED
  BY <1>3, <1>4, <1>5, <1>6, <1>7, TypeParts DEF IInv, Types

(* Every step keeps it.                                                    *)
LEMMA InvariantStep == IInv /\ [Next]_vars => IInv'
<1> SUFFICES ASSUME IInv, [Next]_vars PROVE IInv'
  OBVIOUS
<1>1. ASSUME NEW r \in Requests, RequestStep(r) \/ PassStep(r)
      PROVE  IInv'
  <2>1. CASE Admitted(r)
    BY <2>1, SlotTaken
  <2>2. CASE NotReserved(r) \/ HandlerDies(r)
    BY <2>2, Abstained
  <2>3. CASE Reserve(r) \/ Posted(r)
    BY <2>3, ReserveStep, PostedStep
  <2>4. CASE PostFailed(r) \/ Expire(r)
    BY <2>4, SettlingSteps
  <2>5. CASE PollReplied(r) \/ CoreReplied(r)
    BY <2>5, PollStep
  <2>6. CASE AskCore(r) \/ Poll(r)
    BY <2>6, CoreStepKept
  <2>7. QED
    BY <1>1, <2>1, <2>2, <2>3, <2>4, <2>5, <2>6 DEF RequestStep, PassStep
<1>2. CASE UNCHANGED vars
  BY <1>2 DEF vars, IInv, TypeOK, Handled, PassInv, LeaseInv, LeaseOutlivesRow, LeftOf, SlotFollowsRequest,
     OpenRequestHoldsSlot, SettledFreesSlot, Open, QuotaMatchesRows, Charged
<1>3. QED
  BY <1>1, <1>2, SlotTaken, CoreStepKept, ReadStep, TickStep DEF Next

(* So it always holds.                                                     *)
THEOREM Invariance == Spec => []IInv
BY InvariantInit, InvariantStep, PTL DEF Spec

(* The variables have their types.                                         *)
THEOREM TypeCorrect == Spec => []TypeOK
<1>1. IInv => TypeOK
  BY DEF IInv
<1>2. QED
  BY Invariance, <1>1, PTL

(* Whoever settles a request, and however often, the counter of a day is   *)
(* the number of its requests that are open or have their image.           *)
THEOREM EachRefundedOnce == Spec => []QuotaMatchesRows
<1>1. IInv => QuotaMatchesRows
  BY DEF IInv
<1>2. QED
  BY Invariance, <1>1, PTL

(* With the margin of the shipped times an open request holds the slot     *)
(* within its lease, and a settled one has let go of it.                   *)
THEOREM LeaseOutlivesRequest == Spec => []SlotFollowsRequest
<1>1. IInv => SlotFollowsRequest
  BY DEF IInv
<1>2. QED
  BY Invariance, <1>1, PTL

(* No pass settles a request that its handler is posting.                  *)
THEOREM PostedInPeace == Spec => []InFlightNotAbandoned
<1>1. IInv => InFlightNotAbandoned
  BY DEF IInv, Handled, InFlightNotAbandoned
<1>2. QED
  BY Invariance, <1>1, PTL
=============================================================================
