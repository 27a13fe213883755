------------------------ MODULE InferenceQueueProofs ------------------------
(***************************************************************************)
(* Proofs about InferenceQueue for any number of requests, owners and      *)
(* jobs, any leases and any assignment of roles to them.                   *)
(***************************************************************************)
EXTENDS InferenceQueue, TLAPS

Entry == [state : RowStates, id : Nat, left : Nat, drawn : BOOLEAN]
Slot  == [token : Holders \cup {NoOne}, left : Nat]

-----------------------------------------------------------------------------
(* What the sweeps return.                                                 *)

(* A closed row keeps its type, its id and its token.                      *)
LEMMA ClosedEntry ==
  ASSUME NEW e \in Entry, NEW state \in RowStates
  PROVE  /\ Closed(e, state) \in Entry
         /\ Closed(e, state).state = state
         /\ Closed(e, state).id = e.id
         /\ Closed(e, state).left = 0
         /\ Closed(e, state).drawn = e.drawn
BY DEF Closed, Entry

(* Clearing an expired lock leaves the lock or frees the slot, and frees   *)
(* it only when no second is left.                                         *)
LEMMA UnexpiredLockFacts ==
  ASSUME TypeOK
  PROVE  /\ UnexpiredLock \in Slot
         /\ \/ UnexpiredLock = lock /\ lock.left # 0
            \/ UnexpiredLock = Free /\ lock.left = 0
BY DEF TypeOK, UnexpiredLock, Free, Slot

(* The orphan sweep cancels exactly the active rows without the token.     *)
LEMMA OrphanFacts ==
  ASSUME NEW rows \in [Requests -> Entry], NEW token
  PROVE  /\ OrphansCancelled(rows, token) \in [Requests -> Entry]
         /\ \A r \in Requests :
              /\ OrphansCancelled(rows, token)[r].drawn = rows[r].drawn
              /\ OrphansCancelled(rows, token)[r].id = rows[r].id
              /\ IF rows[r].state = "active" /\ token # r
                 THEN OrphansCancelled(rows, token)[r].state = "cancelled"
                 ELSE OrphansCancelled(rows, token)[r] = rows[r]
<1>1. "cancelled" \in RowStates
  BY DEF RowStates
<1>2. QED
  BY <1>1, ClosedEntry DEF OrphansCancelled

(* The waiter sweep cancels exactly the waiting rows with no second left   *)
(* that it does not spare.                                                 *)
LEMMA WaiterFacts ==
  ASSUME NEW rows \in [Requests -> Entry], NEW spared
  PROVE  /\ WaitersExpired(rows, spared) \in [Requests -> Entry]
         /\ \A r \in Requests :
              /\ WaitersExpired(rows, spared)[r].drawn = rows[r].drawn
              /\ WaitersExpired(rows, spared)[r].id = rows[r].id
              /\ IF rows[r].state = "waiting" /\ rows[r].left = 0 /\ r \notin spared
                 THEN WaitersExpired(rows, spared)[r].state = "cancelled"
                 ELSE WaitersExpired(rows, spared)[r] = rows[r]
<1>1. "cancelled" \in RowStates
  BY DEF RowStates
<1>2. QED
  BY <1>1, ClosedEntry DEF WaitersExpired

(* What a sweep of the tables does to a row: nothing, or it cancels a      *)
(* waiting row left unpolled or an active row that lost the slot.          *)
SweptTo(old, new, token, r) ==
  /\ new.drawn = old.drawn
  /\ new.id = old.id
  /\ \/ new.state = old.state /\ new.left = old.left /\ (old.state = "active" => token = r)
     \/ old.state = "waiting" /\ old.left = 0 /\ new.state = "cancelled"
     \/ old.state = "active" /\ token # r /\ new.state = "cancelled"

(* So do the sweeps of enqueue_inference and of the status page.           *)
LEMMA EnqueueSweep ==
  ASSUME TypeOK
  PROVE  /\ SweptForEnqueue \in [Requests -> Entry]
         /\ \A r \in Requests : SweptTo(row[r], SweptForEnqueue[r], UnexpiredLock.token, r)
<1>1. row \in [Requests -> Entry]
  BY DEF TypeOK, Entry
<1>2. WaitersExpired(row, {}) \in [Requests -> Entry]
  BY <1>1, WaiterFacts
<1>3. QED
  BY <1>1, <1>2, WaiterFacts, OrphanFacts DEF SweptForEnqueue, SweptTo

(* So does the sweep of renew_inference_slot, which spares waiting rows.   *)
LEMMA RenewSweep ==
  ASSUME TypeOK
  PROVE  /\ SweptForRenew \in [Requests -> Entry]
         /\ \A r \in Requests : SweptTo(row[r], SweptForRenew[r], UnexpiredLock.token, r)
<1>1. row \in [Requests -> Entry]
  BY DEF TypeOK, Entry
<1>2. QED
  BY <1>1, OrphanFacts DEF SweptForRenew, SweptTo

(* A polling request's own waiting row is refreshed, the others are swept. *)
LEMMA PollSweep ==
  ASSUME TypeOK, NEW r \in Requests, row[r].state = "waiting"
  PROVE  /\ SweptForPoll(r) \in [Requests -> Entry]
         /\ SweptForPoll(r)[r] = [row[r] EXCEPT !.left = WaiterLease]
         /\ \A q \in Requests \ {r} :
              SweptTo(row[q], SweptForPoll(r)[q], UnexpiredLock.token, q)
<1> DEFINE swept == WaitersExpired(row, {r})
           fresh == [swept EXCEPT ![r].left = WaiterLease]
<1>1. row \in [Requests -> Entry]
  BY DEF TypeOK, Entry
<1>2. swept \in [Requests -> Entry] /\ swept[r] = row[r]
  BY <1>1, WaiterFacts
<1>3. fresh \in [Requests -> Entry] /\ fresh[r] = [row[r] EXCEPT !.left = WaiterLease]
  BY <1>2, LeaseAssumption DEF Entry
<1>4. \A q \in Requests \ {r} : fresh[q] = swept[q]
  BY <1>2
<1>5. SweptForPoll(r) = OrphansCancelled(fresh, UnexpiredLock.token)
  BY DEF SweptForPoll
<1>6. fresh[r].state = "waiting"
  BY <1>1, <1>3 DEF Entry
<1> HIDE DEF fresh
<1>7. SweptForPoll(r) \in [Requests -> Entry] /\ SweptForPoll(r)[r] = fresh[r]
  <2>1. fresh \in [Requests -> Entry]
    BY <1>3
  <2>2. /\ OrphansCancelled(fresh, UnexpiredLock.token) \in [Requests -> Entry]
        /\ IF fresh[r].state = "active" /\ UnexpiredLock.token # r
           THEN OrphansCancelled(fresh, UnexpiredLock.token)[r].state = "cancelled"
           ELSE OrphansCancelled(fresh, UnexpiredLock.token)[r] = fresh[r]
    BY <2>1, OrphanFacts
  <2>3. QED
    BY <1>5, <1>6, <2>2
<1>8. ASSUME NEW q \in Requests \ {r}
      PROVE  SweptTo(row[q], SweptForPoll(r)[q], UnexpiredLock.token, q)
  <2>1. OrphansCancelled(fresh, UnexpiredLock.token)[q].drawn = fresh[q].drawn
        /\ OrphansCancelled(fresh, UnexpiredLock.token)[q].id = fresh[q].id
        /\ IF fresh[q].state = "active" /\ UnexpiredLock.token # q
           THEN OrphansCancelled(fresh, UnexpiredLock.token)[q].state = "cancelled"
           ELSE OrphansCancelled(fresh, UnexpiredLock.token)[q] = fresh[q]
    BY <1>3, OrphanFacts
  <2>2. /\ swept[q].drawn = row[q].drawn
        /\ swept[q].id = row[q].id
        /\ IF row[q].state = "waiting" /\ row[q].left = 0
           THEN swept[q].state = "cancelled" ELSE swept[q] = row[q]
    BY <1>1, WaiterFacts
  <2>3. QED
    BY <1>4, <1>5, <2>1, <2>2 DEF SweptTo
<1>9. QED
  BY <1>3, <1>7, <1>8

-----------------------------------------------------------------------------
(* Type correctness.                                                       *)

(* Every step of every handler keeps the types.                           *)
LEMMA TypeInduction == TypeOK /\ [Next]_vars => TypeOK'
<1> SUFFICES ASSUME TypeOK, [Next]_vars
             PROVE  TypeOK'
  OBVIOUS
<1>a. UnexpiredLock \in Slot /\ Free \in Slot
  BY UnexpiredLockFacts DEF Free, Slot
<1>b. row \in [Requests -> Entry] /\ lock \in Slot /\ lastId \in Nat /\ pc \in [Holders -> PcStates]
  BY DEF TypeOK, Entry, Slot
<1>d. ASSUME NEW r \in Requests PROVE r \in Holders /\ Lease[r] \in Nat
  BY LeaseAssumption DEF Holders
<1>e. ASSUME NEW r \in Requests, NEW state \in RowStates, FinishQueue(r, state)
      PROVE  row' \in [Requests -> Entry] /\ lock' \in Slot
  <2>1. Closed(row[r], state) \in Entry
    BY <1>b, ClosedEntry
  <2>2. QED
    BY <1>a, <1>b, <1>e, <2>1 DEF FinishQueue
<1>f. ASSUME NEW r \in Requests, Goes(r, "idle", "queued"), Enqueue(r)
      PROVE  row' \in [Requests -> Entry]
  <2>1. lastId + 1 \in Nat /\ WaiterLease \in Nat
    BY <1>b, LeaseAssumption
  <2>2. [NoRow EXCEPT !.state = "waiting", !.id = lastId + 1, !.left = WaiterLease] \in Entry
    BY <2>1 DEF NoRow, Entry, RowStates
  <2>3. QED
    BY <1>f, <2>2, EnqueueSweep DEF Enqueue
<1>1. ASSUME NEW r \in Requests, RequestStep(r)
      PROVE  TypeOK'
  <2>1. CASE Enqueue(r)
    <3>1. row' \in [Requests -> Entry]
      BY <1>f, <2>1 DEF Enqueue
    <3>2. QED
      BY <1>a, <1>b, <1>d, <2>1, <3>1 DEF Enqueue, Goes, PcStates, TypeOK, Entry, Slot
  <2>2. CASE EnqueueRefused(r)
    BY <1>b, <1>d, <2>2 DEF EnqueueRefused, Goes, PcStates, TypeOK, Entry, Slot
  <2>3. CASE Admit(r)
    <3>0. SweptForPoll(r)[r] \in Entry
      BY <2>3, PollSweep DEF Admit
    <3>1. [SweptForPoll(r)[r] EXCEPT !.state = "active", !.left = 0, !.drawn = TRUE] \in Entry
      BY <3>0 DEF Entry, RowStates
    <3>2. row' \in [Requests -> Entry]
      BY <2>3, <3>1, PollSweep DEF Admit
    <3>3. lock' \in Slot
      BY <1>d, <2>3 DEF Admit, Slot
    <3>4. QED
      BY <1>b, <1>d, <2>3, <3>2, <3>3 DEF Admit, Goes, PcStates, TypeOK, Entry, Slot
  <2>4. CASE KeepWaiting(r)
    BY <1>a, <1>b, <2>4, PollSweep DEF KeepWaiting, TypeOK, Entry, Slot
  <2>5. CASE RemovedFromQueue(r)
    BY <1>b, <1>d, <2>5 DEF RemovedFromQueue, Goes, PcStates, TypeOK, Entry, Slot
  <2>6. CASE Abandon(r)
    <3>1. "cancelled" \in RowStates
      BY DEF RowStates
    <3>2. QED
      BY <1>b, <1>d, <1>e, <2>6, <3>1 DEF Abandon, Goes, PcStates, TypeOK, Entry, Slot
  <2>15. CASE TimesOut(r)
    <3>1. "cancelled" \in RowStates
      BY DEF RowStates
    <3>2. QED
      BY <1>b, <1>d, <1>e, <2>15, <3>1 DEF TimesOut, Goes, PcStates, TypeOK, Entry, Slot
  <2>7. CASE Renew(r)
    <3>1. [UnexpiredLock EXCEPT !.left = Lease[r]] \in Slot
      BY <1>a, <1>d DEF Slot
    <3>2. QED
      BY <1>b, <2>7, <3>1, RenewSweep DEF Renew, TypeOK, Entry, Slot
  <2>8. CASE LeaseLost(r)
    BY <1>a, <1>b, <1>d, <2>8, RenewSweep DEF LeaseLost, Goes, PcStates, TypeOK, Entry, Slot
  <2>9. CASE Finish(r)
    <3>1. "cancelled" \in RowStates /\ "finished" \in RowStates
      BY DEF RowStates
    <3>2. row' \in [Requests -> Entry] /\ lock' \in Slot
      BY <1>e, <2>9, <3>1 DEF Finish
    <3>3. QED
      BY <1>b, <1>d, <2>9, <3>2 DEF Finish, Goes, PcStates, TypeOK, Entry, Slot
  <2>10. QED
    BY <1>1, <2>1, <2>2, <2>3, <2>4, <2>5, <2>6, <2>7, <2>8, <2>9, <2>15 DEF RequestStep
<1>2. ASSUME NEW j \in Jobs, JobStep(j)
      PROVE  TypeOK'
  <2>1. j \in Holders /\ Lease[j] \in Nat
    BY LeaseAssumption DEF Holders
  <2>2. CASE Acquire(j)
    <3>1. row' \in [Requests -> Entry]
      BY <1>b, <2>2, OrphanFacts DEF Acquire
    <3>2. QED
      BY <1>b, <2>1, <2>2, <3>1 DEF Acquire, Goes, PcStates, TypeOK, Entry, Slot
  <2>3. CASE AcquireRefused(j)
    BY <1>b, <2>1, <2>3 DEF AcquireRefused, Goes, PcStates, TypeOK, Entry, Slot
  <2>4. QED
    BY <1>2, <2>2, <2>3 DEF JobStep
<1>3. ASSUME NEW p \in Holders, Release(p)
      PROVE  TypeOK'
  BY <1>a, <1>b, <1>3 DEF Release, Goes, PcStates, TypeOK, Entry, Slot
<1>4. ASSUME NEW p \in Holders, Die(p)
      PROVE  TypeOK'
  BY <1>b, <1>4 DEF Die, PcStates, TypeOK, Entry, Slot
<1>5. ASSUME NEW o \in Owners, CancelQueue(o)
      PROVE  TypeOK'
  <2>1. \A r \in Requests : Closed(row[r], "cancelled") \in Entry
    BY <1>b, ClosedEntry DEF RowStates
  <2>2. QED
    BY <1>b, <1>5, <2>1 DEF CancelQueue, TypeOK, Entry, Slot
<1>6. CASE ShowStatus
  BY <1>a, <1>b, <1>6, EnqueueSweep DEF ShowStatus, TypeOK, Entry, Slot
<1>7. CASE Tick
  <2>1. \A n \in Nat : Before(n) \in Nat
    BY DEF Before
  <2>2. \A r \in Requests : [row[r] EXCEPT !.left = Before(@)] \in Entry
    BY <1>b, <2>1 DEF Entry
  <2>3. [lock EXCEPT !.left = Before(@)] \in Slot
    BY <1>b, <2>1 DEF Slot
  <2>4. QED
    BY <1>b, <1>7, <2>2, <2>3 DEF Tick, TypeOK, Entry, Slot
<1>8. CASE UNCHANGED vars
  BY <1>b, <1>8 DEF vars, TypeOK, Entry, Slot
<1>9. QED
  BY <1>1, <1>2, <1>3, <1>4, <1>5, <1>6, <1>7, <1>8 DEF Next

(* The tables and the handlers always have the types TypeOK gives them.    *)
THEOREM TypeCorrect == Spec => []TypeOK
<1>1. Init => TypeOK
  BY DEF Init, TypeOK, Free, NoRow, RowStates, PcStates
<1>2. QED
  BY <1>1, TypeInduction, PTL DEF Spec

-----------------------------------------------------------------------------
(* The inductive invariant.  The safety properties need to know how far a  *)
(* handler must have come for its row to be in a given state, that a free  *)
(* slot keeps no lease, and that a punctual waiter has time left.          *)

HandlersMatchRows ==
  \A r \in Requests :
    /\ pc[r] \in {"idle", "refused"} => row[r].state = "none" /\ ~row[r].drawn
    /\ pc[r] = "queued" => row[r].state \in {"waiting", "cancelled"} /\ ~row[r].drawn
    /\ row[r].state = "active" =>
         row[r].drawn /\ pc[r] \in {"working", "lost", "done", "dead"}
    /\ pc[r] \in {"working", "lost"} => row[r].drawn

FreeSlotHasNoLease == lock.token = NoOne => lock.left = 0

PunctualWaiterHasTime ==
  \A r \in Punctual \cap Requests :
    pc[r] = "queued" /\ Owner[r] \notin Cancelling =>
      row[r].state = "waiting" /\ row[r].left > 0

JobsNeverQueue == \A j \in Jobs : pc[j] \notin {"queued", "lost"}

IInv == /\ TypeOK
        /\ JobsNeverQueue
        /\ HandlersMatchRows
        /\ SlotMatchesQueue
        /\ FreeSlotHasNoLease
        /\ PunctualHolderKeepsSlot
        /\ PunctualWaiterHasTime
-----------------------------------------------------------------------------

(* Every step keeps the inductive invariant.                               *)
LEMMA InvariantInduction == IInv /\ [Next]_vars => IInv'
<1> SUFFICES ASSUME IInv, [Next]_vars
             PROVE  IInv'
  OBVIOUS
<1>t. TypeOK'
  BY TypeInduction DEF IInv
<1>b. TypeOK /\ row \in [Requests -> Entry] /\ lock \in Slot /\ lastId \in Nat /\ pc \in [Holders -> PcStates]
  BY DEF IInv, TypeOK, Entry, Slot
<1>c. NoOne \notin Holders /\ Requests \cap Jobs = {} /\ Requests \subseteq Holders /\ Jobs \subseteq Holders
      /\ Punctual \subseteq Holders /\ Selecting \subseteq Requests
  BY HoldersAssumption, RolesAssumption DEF Holders
<1>d. JobsNeverQueue /\ HandlersMatchRows /\ SlotMatchesQueue /\ FreeSlotHasNoLease /\ PunctualHolderKeepsSlot
      /\ PunctualWaiterHasTime
  BY DEF IInv
<1>u. /\ UnexpiredLock \in Slot
      /\ \/ UnexpiredLock = lock /\ lock.left # 0
         \/ UnexpiredLock = Free /\ lock.left = 0
  BY <1>b, UnexpiredLockFacts
<1>e. \A p \in Punctual : pc[p] = "working" => UnexpiredLock = lock
  BY <1>d, <1>u DEF PunctualHolderKeepsSlot
<1>1. ASSUME NEW r \in Requests, Enqueue(r)
      PROVE  IInv'
  <2>0. /\ pc[r] = "idle" /\ pc' = [pc EXCEPT ![r] = "queued"]
        /\ lock' = UnexpiredLock
        /\ row'[r].state = "waiting" /\ row'[r].left > 0 /\ row'[r].drawn = FALSE
        /\ \A q \in Requests \ {r} : SweptTo(row[q], row'[q], UnexpiredLock.token, q)
    BY <1>1, <1>b, EnqueueSweep, LeaseAssumption DEF Enqueue, Goes, NoRow
  <2>1. HandlersMatchRows'
    BY <2>0, <1>b, <1>c, <1>d, <1>u, <1>e DEF SweptTo, PcStates, Free, HandlersMatchRows
  <2>2. SlotMatchesQueue'
    <3>1. lock'.token \in Requests => row'[lock'.token].state = "active"
      BY <2>0, <1>b, <1>c, <1>d, <1>u, <1>e DEF SweptTo, PcStates, Free, SlotMatchesQueue, HandlersMatchRows
    <3>2. ASSUME NEW q \in Requests, row'[q].state = "active"
          PROVE  q = UnexpiredLock.token
      BY <2>0, <3>2 DEF SweptTo
    <3>3. QED
      BY <3>1, <3>2 DEF SlotMatchesQueue
  <2>3. FreeSlotHasNoLease'
    BY <2>0, <1>b, <1>c, <1>d, <1>u, <1>e DEF SweptTo, PcStates, Free, FreeSlotHasNoLease
  <2>4. PunctualHolderKeepsSlot'
    BY <2>0, <1>b, <1>c, <1>d, <1>u, <1>e DEF SweptTo, PcStates, Free, PunctualHolderKeepsSlot
  <2>5. PunctualWaiterHasTime'
    BY <2>0, <1>b, <1>c, <1>d, <1>u, <1>e DEF SweptTo, PcStates, Free, PunctualWaiterHasTime
  <2>6. JobsNeverQueue'
    BY <2>0, <1>b, <1>c, <1>d, <1>u, <1>e DEF SweptTo, PcStates, Free, JobsNeverQueue
  <2>7. QED
    BY <1>t, <2>1, <2>2, <2>3, <2>4, <2>5, <2>6 DEF IInv
<1>2. ASSUME NEW r \in Requests, EnqueueRefused(r)
      PROVE  IInv'
  <2>1. HandlersMatchRows'
    BY <1>2, <1>b, <1>c, <1>d DEF EnqueueRefused, Goes, PcStates, HandlersMatchRows
  <2>2. SlotMatchesQueue'
    BY <1>2, <1>b, <1>c, <1>d DEF EnqueueRefused, Goes, PcStates, SlotMatchesQueue
  <2>3. FreeSlotHasNoLease'
    BY <1>2, <1>b, <1>c, <1>d DEF EnqueueRefused, Goes, PcStates, FreeSlotHasNoLease
  <2>4. PunctualHolderKeepsSlot'
    BY <1>2, <1>b, <1>c, <1>d DEF EnqueueRefused, Goes, PcStates, PunctualHolderKeepsSlot
  <2>5. PunctualWaiterHasTime'
    BY <1>2, <1>b, <1>c, <1>d DEF EnqueueRefused, Goes, PcStates, PunctualWaiterHasTime
  <2>6. JobsNeverQueue'
    BY <1>2, <1>b, <1>c, <1>d DEF EnqueueRefused, Goes, PcStates, JobsNeverQueue
  <2>7. QED
    BY <1>t, <2>1, <2>2, <2>3, <2>4, <2>5, <2>6 DEF IInv
<1>3. ASSUME NEW r \in Requests, Admit(r)
      PROVE  IInv'
  <2>0. /\ pc[r] = "queued" /\ pc' = [pc EXCEPT ![r] = "working"]
        /\ UnexpiredLock = Free
        /\ lock'.token = r /\ lock'.left > 0
        /\ row'[r].state = "active" /\ row'[r].drawn
        /\ \A q \in Requests \ {r} : SweptTo(row[q], row'[q], NoOne, q)
    <3>1. row[r].state = "waiting" /\ UnexpiredLock = Free /\ Free.token = NoOne
      BY <1>3 DEF Admit, Admissible, Free
    <3>2. /\ SweptForPoll(r)[r] \in Entry
          /\ SweptForPoll(r) \in [Requests -> Entry]
          /\ \A q \in Requests \ {r} : SweptTo(row[q], SweptForPoll(r)[q], NoOne, q)
      BY <1>b, <3>1, PollSweep
    <3>3. row' = [SweptForPoll(r) EXCEPT ![r] = [@ EXCEPT !.state = "active", !.left = 0,
                                                          !.drawn = TRUE]]
      BY <1>3 DEF Admit
    <3>4. row'[r].state = "active" /\ row'[r].drawn
      BY <3>2, <3>3 DEF Entry
    <3>5. Lease[r] > 0
      BY <1>c, LeaseAssumption
    <3>6. QED
      BY <1>3, <3>1, <3>2, <3>3, <3>4, <3>5 DEF Admit, Goes
  <2>1. HandlersMatchRows'
    BY <2>0, <1>b, <1>c, <1>d, <1>u, <1>e DEF SweptTo, PcStates, Free, HandlersMatchRows
  <2>2. SlotMatchesQueue'
    BY <2>0, <1>b, <1>c, <1>d, <1>u, <1>e DEF SweptTo, PcStates, Free, SlotMatchesQueue
  <2>3. FreeSlotHasNoLease'
    BY <2>0, <1>b, <1>c, <1>d, <1>u, <1>e DEF SweptTo, PcStates, Free, FreeSlotHasNoLease
  <2>4. PunctualHolderKeepsSlot'
    BY <2>0, <1>b, <1>c, <1>d, <1>u, <1>e DEF SweptTo, PcStates, Free, PunctualHolderKeepsSlot
  <2>5. PunctualWaiterHasTime'
    BY <2>0, <1>b, <1>c, <1>d, <1>u, <1>e DEF SweptTo, PcStates, Free, PunctualWaiterHasTime
  <2>6. JobsNeverQueue'
    BY <2>0, <1>b, <1>c, <1>d, <1>u, <1>e DEF SweptTo, PcStates, Free, JobsNeverQueue
  <2>7. QED
    BY <1>t, <2>1, <2>2, <2>3, <2>4, <2>5, <2>6 DEF IInv
<1>4. ASSUME NEW r \in Requests, KeepWaiting(r)
      PROVE  IInv'
  <2>0. /\ pc[r] = "queued" /\ pc' = pc /\ lock' = UnexpiredLock
        /\ row'[r].state = "waiting" /\ row'[r].left > 0 /\ row'[r].drawn = row[r].drawn
        /\ \A q \in Requests \ {r} : SweptTo(row[q], row'[q], UnexpiredLock.token, q)
    <3>1. row[r].state = "waiting" /\ row' = SweptForPoll(r)
      BY <1>4 DEF KeepWaiting
    <3>2. row'[r] = [row[r] EXCEPT !.left = WaiterLease]
      BY <1>b, <3>1, PollSweep
    <3>3. row[r] \in Entry /\ WaiterLease > 0
      BY <1>b, LeaseAssumption
    <3>4. row'[r].state = "waiting" /\ row'[r].left > 0 /\ row'[r].drawn = row[r].drawn
      BY <3>1, <3>2, <3>3 DEF Entry
    <3>5. QED
      BY <1>4, <1>b, <3>1, <3>4, PollSweep DEF KeepWaiting
  <2>1. HandlersMatchRows'
    BY <2>0, <1>b, <1>c, <1>d, <1>u, <1>e DEF SweptTo, PcStates, Free, HandlersMatchRows
  <2>2. SlotMatchesQueue'
    <3>1. lock'.token \in Requests => row'[lock'.token].state = "active"
      BY <2>0, <1>b, <1>c, <1>d, <1>u, <1>e DEF SweptTo, PcStates, Free, SlotMatchesQueue, HandlersMatchRows
    <3>2. ASSUME NEW q \in Requests, row'[q].state = "active"
          PROVE  q = UnexpiredLock.token
      BY <2>0, <3>2 DEF SweptTo
    <3>3. QED
      BY <3>1, <3>2 DEF SlotMatchesQueue
  <2>3. FreeSlotHasNoLease'
    BY <2>0, <1>b, <1>c, <1>d, <1>u, <1>e DEF SweptTo, PcStates, Free, FreeSlotHasNoLease
  <2>4. PunctualHolderKeepsSlot'
    BY <2>0, <1>b, <1>c, <1>d, <1>u, <1>e DEF SweptTo, PcStates, Free, PunctualHolderKeepsSlot
  <2>5. PunctualWaiterHasTime'
    BY <2>0, <1>b, <1>c, <1>d, <1>u, <1>e DEF SweptTo, PcStates, Free, PunctualWaiterHasTime
  <2>6. JobsNeverQueue'
    BY <2>0, <1>b, <1>c, <1>d, <1>u, <1>e DEF SweptTo, PcStates, Free, JobsNeverQueue
  <2>7. QED
    BY <1>t, <2>1, <2>2, <2>3, <2>4, <2>5, <2>6 DEF IInv
<1>5. ASSUME NEW r \in Requests, RemovedFromQueue(r)
      PROVE  IInv'
  <2>1. HandlersMatchRows'
    BY <1>5, <1>b, <1>c, <1>d DEF RemovedFromQueue, Goes, PcStates, HandlersMatchRows
  <2>2. SlotMatchesQueue'
    BY <1>5, <1>b, <1>c, <1>d DEF RemovedFromQueue, Goes, PcStates, SlotMatchesQueue
  <2>3. FreeSlotHasNoLease'
    BY <1>5, <1>b, <1>c, <1>d DEF RemovedFromQueue, Goes, PcStates, FreeSlotHasNoLease
  <2>4. PunctualHolderKeepsSlot'
    BY <1>5, <1>b, <1>c, <1>d DEF RemovedFromQueue, Goes, PcStates, PunctualHolderKeepsSlot
  <2>5. PunctualWaiterHasTime'
    BY <1>5, <1>b, <1>c, <1>d DEF RemovedFromQueue, Goes, PcStates, PunctualWaiterHasTime
  <2>6. JobsNeverQueue'
    BY <1>5, <1>b, <1>c, <1>d DEF RemovedFromQueue, Goes, PcStates, JobsNeverQueue
  <2>7. QED
    BY <1>t, <2>1, <2>2, <2>3, <2>4, <2>5, <2>6 DEF IInv
<1>f. ASSUME NEW r \in Requests, NEW state \in {"finished", "cancelled"}, FinishQueue(r, state)
      PROVE  /\ \/ lock' = lock /\ lock.token # r
                \/ lock' = Free /\ lock.token = r
             /\ \A q \in Requests \ {r} : row'[q] = row[q]
             /\ row'[r].state # "active" /\ row'[r].drawn = row[r].drawn
  <2>1. lock.token = r => row[r].state = "active" /\ row[r].drawn
    BY <1>d DEF SlotMatchesQueue, HandlersMatchRows
  <2>2. CASE Outstanding(row, r)
    <3>1. Closed(row[r], state).state = state /\ Closed(row[r], state).drawn = row[r].drawn
      BY <1>b, ClosedEntry DEF RowStates
    <3>2. QED
      BY <1>b, <1>f, <2>1, <2>2, <3>1 DEF FinishQueue
  <2>3. CASE ~Outstanding(row, r)
    BY <1>f, <2>1, <2>3 DEF FinishQueue, Outstanding
  <2>4. QED
    BY <2>2, <2>3
<1>g. ASSUME NEW r \in Requests, pc[r] \in {"queued", "working", "lost"},
             NEW end \in {"done", "late"}, pc' = [pc EXCEPT ![r] = end],
             NEW state \in {"finished", "cancelled"}, FinishQueue(r, state)
      PROVE  IInv'
  <2>1. HandlersMatchRows'
    BY <1>f, <1>g, <1>b, <1>c, <1>d DEF PcStates, Free, HandlersMatchRows
  <2>2. SlotMatchesQueue'
    BY <1>f, <1>g, <1>b, <1>c, <1>d DEF PcStates, Free, SlotMatchesQueue
  <2>3. FreeSlotHasNoLease'
    BY <1>f, <1>g, <1>b, <1>c, <1>d DEF PcStates, Free, FreeSlotHasNoLease
  <2>4. PunctualHolderKeepsSlot'
    BY <1>f, <1>g, <1>b, <1>c, <1>d DEF PcStates, Free, PunctualHolderKeepsSlot
  <2>5. PunctualWaiterHasTime'
    BY <1>f, <1>g, <1>b, <1>c, <1>d DEF PcStates, Free, PunctualWaiterHasTime
  <2>6. JobsNeverQueue'
    BY <1>f, <1>g, <1>b, <1>c, <1>d DEF PcStates, Free, JobsNeverQueue
  <2>7. QED
    BY <1>t, <2>1, <2>2, <2>3, <2>4, <2>5, <2>6 DEF IInv
<1>6. ASSUME NEW r \in Requests, Abandon(r)
      PROVE  IInv'
  BY <1>6, <1>g DEF Abandon, Goes
<1>21. ASSUME NEW r \in Requests, TimesOut(r)
       PROVE  IInv'
  BY <1>21, <1>g DEF TimesOut, Goes
<1>7. ASSUME NEW r \in Requests, Finish(r)
      PROVE  IInv'
  BY <1>7, <1>g DEF Finish, Goes
<1>8. ASSUME NEW r \in Requests, Renew(r)
      PROVE  IInv'
  <2>0. /\ pc' = pc /\ UnexpiredLock.token = r
        /\ lock'.token = r /\ lock'.left > 0
        /\ \A q \in Requests : SweptTo(row[q], row'[q], UnexpiredLock.token, q)
    <3>1. UnexpiredLock \in Slot /\ Lease[r] > 0
      BY <1>c, <1>u, LeaseAssumption
    <3>2. QED
      BY <1>8, <1>b, <3>1, RenewSweep DEF Renew, Slot
  <2>1. HandlersMatchRows'
    BY <2>0, <1>b, <1>c, <1>d, <1>u, <1>e DEF SweptTo, PcStates, Free, HandlersMatchRows
  <2>2. SlotMatchesQueue'
    <3>1. lock'.token \in Requests => row'[lock'.token].state = "active"
      BY <2>0, <1>b, <1>c, <1>d, <1>u, <1>e DEF SweptTo, PcStates, Free, SlotMatchesQueue, HandlersMatchRows
    <3>2. ASSUME NEW q \in Requests, row'[q].state = "active"
          PROVE  q = UnexpiredLock.token
      BY <2>0, <3>2 DEF SweptTo
    <3>3. QED
      BY <3>1, <3>2 DEF SlotMatchesQueue
  <2>3. FreeSlotHasNoLease'
    BY <2>0, <1>b, <1>c, <1>d, <1>u, <1>e DEF SweptTo, PcStates, Free, FreeSlotHasNoLease
  <2>4. PunctualHolderKeepsSlot'
    BY <2>0, <1>b, <1>c, <1>d, <1>u, <1>e DEF SweptTo, PcStates, Free, PunctualHolderKeepsSlot
  <2>5. PunctualWaiterHasTime'
    BY <2>0, <1>b, <1>c, <1>d, <1>u, <1>e DEF SweptTo, PcStates, Free, PunctualWaiterHasTime
  <2>6. JobsNeverQueue'
    BY <2>0, <1>b, <1>c, <1>d, <1>u, <1>e DEF SweptTo, PcStates, Free, JobsNeverQueue
  <2>7. QED
    BY <1>t, <2>1, <2>2, <2>3, <2>4, <2>5, <2>6 DEF IInv
<1>9. ASSUME NEW r \in Requests, LeaseLost(r)
      PROVE  IInv'
  <2>0. /\ pc[r] = "working" /\ pc' = [pc EXCEPT ![r] = "lost"]
        /\ lock' = UnexpiredLock
        /\ \A q \in Requests : SweptTo(row[q], row'[q], UnexpiredLock.token, q)
    BY <1>9, <1>b, RenewSweep DEF LeaseLost, Goes
  <2>1. HandlersMatchRows'
    BY <2>0, <1>b, <1>c, <1>d, <1>u, <1>e DEF SweptTo, PcStates, Free, HandlersMatchRows
  <2>2. SlotMatchesQueue'
    <3>1. lock'.token \in Requests => row'[lock'.token].state = "active"
      BY <2>0, <1>b, <1>c, <1>d, <1>u, <1>e DEF SweptTo, PcStates, Free, SlotMatchesQueue, HandlersMatchRows
    <3>2. ASSUME NEW q \in Requests, row'[q].state = "active"
          PROVE  q = UnexpiredLock.token
      BY <2>0, <3>2 DEF SweptTo
    <3>3. QED
      BY <3>1, <3>2 DEF SlotMatchesQueue
  <2>3. FreeSlotHasNoLease'
    BY <2>0, <1>b, <1>c, <1>d, <1>u, <1>e DEF SweptTo, PcStates, Free, FreeSlotHasNoLease
  <2>4. PunctualHolderKeepsSlot'
    BY <2>0, <1>b, <1>c, <1>d, <1>u, <1>e DEF SweptTo, PcStates, Free, PunctualHolderKeepsSlot
  <2>5. PunctualWaiterHasTime'
    BY <2>0, <1>b, <1>c, <1>d, <1>u, <1>e DEF SweptTo, PcStates, Free, PunctualWaiterHasTime
  <2>6. JobsNeverQueue'
    BY <2>0, <1>b, <1>c, <1>d, <1>u, <1>e DEF SweptTo, PcStates, Free, JobsNeverQueue
  <2>7. QED
    BY <1>t, <2>1, <2>2, <2>3, <2>4, <2>5, <2>6 DEF IInv
<1>10. ASSUME NEW j \in Jobs, Acquire(j)
      PROVE  IInv'
  <2>0. /\ pc[j] = "idle" /\ pc' = [pc EXCEPT ![j] = "working"]
        /\ UnexpiredLock = Free
        /\ lock'.token = j /\ lock'.left > 0
        /\ \A q \in Requests : SweptTo(row[q], row'[q], NoOne, q) /\ row'[q].state # "active"
    <3>1. Lease[j] > 0
      BY <1>c, LeaseAssumption
    <3>2. \A q \in Requests : SweptTo(row[q], row'[q], NoOne, q) /\ row'[q].state # "active"
      BY <1>10, <1>b, <1>c, OrphanFacts DEF Acquire, SweptTo
    <3>3. QED
      BY <1>10, <3>1, <3>2 DEF Acquire, Goes
  <2>1. HandlersMatchRows'
    BY <2>0, <1>b, <1>c, <1>d, <1>u, <1>e DEF SweptTo, PcStates, Free, HandlersMatchRows
  <2>2. SlotMatchesQueue'
    <3>1. lock'.token \in Requests => row'[lock'.token].state = "active"
      BY <2>0, <1>b, <1>c, <1>d, <1>u, <1>e DEF SweptTo, PcStates, Free, SlotMatchesQueue, HandlersMatchRows
    <3>2. ASSUME NEW q \in Requests, row'[q].state = "active"
          PROVE  q = NoOne
      BY <2>0, <3>2 DEF SweptTo
    <3>3. QED
      BY <3>1, <3>2 DEF SlotMatchesQueue
  <2>3. FreeSlotHasNoLease'
    BY <2>0, <1>b, <1>c, <1>d, <1>u, <1>e DEF SweptTo, PcStates, Free, FreeSlotHasNoLease
  <2>4. PunctualHolderKeepsSlot'
    BY <2>0, <1>b, <1>c, <1>d, <1>u, <1>e DEF SweptTo, PcStates, Free, PunctualHolderKeepsSlot
  <2>5. PunctualWaiterHasTime'
    BY <2>0, <1>b, <1>c, <1>d, <1>u, <1>e DEF SweptTo, PcStates, Free, PunctualWaiterHasTime
  <2>6. JobsNeverQueue'
    BY <2>0, <1>b, <1>c, <1>d, <1>u, <1>e DEF SweptTo, PcStates, Free, JobsNeverQueue
  <2>7. QED
    BY <1>t, <2>1, <2>2, <2>3, <2>4, <2>5, <2>6 DEF IInv
<1>11. ASSUME NEW j \in Jobs, AcquireRefused(j)
      PROVE  IInv'
  <2>1. HandlersMatchRows'
    BY <1>11, <1>b, <1>c, <1>d DEF AcquireRefused, Goes, PcStates, HandlersMatchRows
  <2>2. SlotMatchesQueue'
    BY <1>11, <1>b, <1>c, <1>d DEF AcquireRefused, Goes, PcStates, SlotMatchesQueue
  <2>3. FreeSlotHasNoLease'
    BY <1>11, <1>b, <1>c, <1>d DEF AcquireRefused, Goes, PcStates, FreeSlotHasNoLease
  <2>4. PunctualHolderKeepsSlot'
    BY <1>11, <1>b, <1>c, <1>d DEF AcquireRefused, Goes, PcStates, PunctualHolderKeepsSlot
  <2>5. PunctualWaiterHasTime'
    BY <1>11, <1>b, <1>c, <1>d DEF AcquireRefused, Goes, PcStates, PunctualWaiterHasTime
  <2>6. JobsNeverQueue'
    BY <1>11, <1>b, <1>c, <1>d DEF AcquireRefused, Goes, PcStates, JobsNeverQueue
  <2>7. QED
    BY <1>t, <2>1, <2>2, <2>3, <2>4, <2>5, <2>6 DEF IInv
<1>12. ASSUME NEW p \in Holders, Release(p)
      PROVE  IInv'
  <2>1. HandlersMatchRows'
    BY <1>12, <1>b, <1>c, <1>d DEF Release, Goes, PcStates, Free, HandlersMatchRows
  <2>2. SlotMatchesQueue'
    BY <1>12, <1>b, <1>c, <1>d DEF Release, Goes, PcStates, Free, SlotMatchesQueue
  <2>3. FreeSlotHasNoLease'
    BY <1>12, <1>b, <1>c, <1>d DEF Release, Goes, PcStates, Free, FreeSlotHasNoLease
  <2>4. PunctualHolderKeepsSlot'
    BY <1>12, <1>b, <1>c, <1>d DEF Release, Goes, PcStates, Free, PunctualHolderKeepsSlot
  <2>5. PunctualWaiterHasTime'
    BY <1>12, <1>b, <1>c, <1>d DEF Release, Goes, PcStates, Free, PunctualWaiterHasTime
  <2>6. JobsNeverQueue'
    BY <1>12, <1>b, <1>c, <1>d DEF Release, Goes, PcStates, Free, JobsNeverQueue
  <2>7. QED
    BY <1>t, <2>1, <2>2, <2>3, <2>4, <2>5, <2>6 DEF IInv
<1>13. ASSUME NEW p \in Holders, Die(p)
      PROVE  IInv'
  <2>1. HandlersMatchRows'
    BY <1>13, <1>b, <1>c, <1>d DEF Die, PcStates, HandlersMatchRows
  <2>2. SlotMatchesQueue'
    BY <1>13, <1>b, <1>c, <1>d DEF Die, PcStates, SlotMatchesQueue
  <2>3. FreeSlotHasNoLease'
    BY <1>13, <1>b, <1>c, <1>d DEF Die, PcStates, FreeSlotHasNoLease
  <2>4. PunctualHolderKeepsSlot'
    BY <1>13, <1>b, <1>c, <1>d DEF Die, PcStates, PunctualHolderKeepsSlot
  <2>5. PunctualWaiterHasTime'
    BY <1>13, <1>b, <1>c, <1>d DEF Die, PcStates, PunctualWaiterHasTime
  <2>6. JobsNeverQueue'
    BY <1>13, <1>b, <1>c, <1>d DEF Die, PcStates, JobsNeverQueue
  <2>7. QED
    BY <1>t, <2>1, <2>2, <2>3, <2>4, <2>5, <2>6 DEF IInv
<1>14. CASE ShowStatus
  <2>0. /\ pc' = pc /\ lock' = UnexpiredLock
        /\ \A q \in Requests : SweptTo(row[q], row'[q], UnexpiredLock.token, q)
    BY <1>14, <1>b, EnqueueSweep DEF ShowStatus
  <2>1. HandlersMatchRows'
    BY <2>0, <1>b, <1>c, <1>d, <1>u, <1>e DEF SweptTo, PcStates, Free, HandlersMatchRows
  <2>2. SlotMatchesQueue'
    <3>1. lock'.token \in Requests => row'[lock'.token].state = "active"
      BY <2>0, <1>b, <1>c, <1>d, <1>u, <1>e DEF SweptTo, PcStates, Free, SlotMatchesQueue, HandlersMatchRows
    <3>2. ASSUME NEW q \in Requests, row'[q].state = "active"
          PROVE  q = UnexpiredLock.token
      BY <2>0, <3>2 DEF SweptTo
    <3>3. QED
      BY <3>1, <3>2 DEF SlotMatchesQueue
  <2>3. FreeSlotHasNoLease'
    BY <2>0, <1>b, <1>c, <1>d, <1>u, <1>e DEF SweptTo, PcStates, Free, FreeSlotHasNoLease
  <2>4. PunctualHolderKeepsSlot'
    BY <2>0, <1>b, <1>c, <1>d, <1>u, <1>e DEF SweptTo, PcStates, Free, PunctualHolderKeepsSlot
  <2>5. PunctualWaiterHasTime'
    BY <2>0, <1>b, <1>c, <1>d, <1>u, <1>e DEF SweptTo, PcStates, Free, PunctualWaiterHasTime
  <2>6. JobsNeverQueue'
    BY <2>0, <1>b, <1>c, <1>d, <1>u, <1>e DEF SweptTo, PcStates, Free, JobsNeverQueue
  <2>7. QED
    BY <1>t, <2>1, <2>2, <2>3, <2>4, <2>5, <2>6 DEF IInv
<1>15. ASSUME NEW o \in Owners, CancelQueue(o)
      PROVE  IInv'
  <2>0. /\ pc' = pc /\ lock' = lock /\ o \in Cancelling
        /\ \A q \in Requests :
             \/ row'[q] = row[q]
             \/ /\ Owner[q] = o /\ row[q].state = "waiting"
                /\ row'[q].state = "cancelled" /\ row'[q].drawn = row[q].drawn
    <3>1. \A q \in Requests : Closed(row[q], "cancelled").state = "cancelled"
                              /\ Closed(row[q], "cancelled").drawn = row[q].drawn
      BY <1>b, ClosedEntry DEF RowStates
    <3>2. QED
      BY <1>15, <1>b, <3>1 DEF CancelQueue
  <2>1. HandlersMatchRows'
    BY <2>0, <1>b, <1>c, <1>d DEF PcStates, HandlersMatchRows
  <2>2. SlotMatchesQueue'
    BY <2>0, <1>b, <1>c, <1>d DEF PcStates, SlotMatchesQueue
  <2>3. FreeSlotHasNoLease'
    BY <2>0, <1>b, <1>c, <1>d DEF PcStates, FreeSlotHasNoLease
  <2>4. PunctualHolderKeepsSlot'
    BY <2>0, <1>b, <1>c, <1>d DEF PcStates, PunctualHolderKeepsSlot
  <2>5. PunctualWaiterHasTime'
    BY <2>0, <1>b, <1>c, <1>d DEF PcStates, PunctualWaiterHasTime
  <2>6. JobsNeverQueue'
    BY <2>0, <1>b, <1>c, <1>d DEF PcStates, JobsNeverQueue
  <2>7. QED
    BY <1>t, <2>1, <2>2, <2>3, <2>4, <2>5, <2>6 DEF IInv
<1>16. CASE Tick
  <2>0. /\ pc' = pc /\ lock'.token = lock.token
        /\ lock.left \in Nat /\ lock'.left = Before(lock.left)
        /\ \A q \in Requests : /\ row'[q].state = row[q].state /\ row'[q].drawn = row[q].drawn
                               /\ row[q].left \in Nat /\ row'[q].left = Before(row[q].left)
        /\ \A p \in Punctual : pc[p] = "working" /\ lock.token = p => lock.left > 1
        /\ \A q \in Punctual \cap Requests :
             pc[q] = "queued" /\ row[q].state = "waiting" => row[q].left > 1
    BY <1>16, <1>b DEF Tick, Entry, Slot
  <2>1. HandlersMatchRows'
    BY <2>0, <1>b, <1>c, <1>d DEF Before, HandlersMatchRows
  <2>2. SlotMatchesQueue'
    BY <2>0, <1>b, <1>c, <1>d DEF Before, SlotMatchesQueue
  <2>3. FreeSlotHasNoLease'
    BY <2>0, <1>b, <1>c, <1>d DEF Before, FreeSlotHasNoLease
  <2>4. PunctualHolderKeepsSlot'
    BY <2>0, <1>b, <1>c, <1>d DEF Before, PunctualHolderKeepsSlot
  <2>5. PunctualWaiterHasTime'
    BY <2>0, <1>b, <1>c, <1>d DEF Before, PunctualWaiterHasTime
  <2>6. JobsNeverQueue'
    BY <2>0, <1>b, <1>c, <1>d DEF Before, JobsNeverQueue
  <2>7. QED
    BY <1>t, <2>1, <2>2, <2>3, <2>4, <2>5, <2>6 DEF IInv
<1>17. CASE UNCHANGED vars
  BY <1>17, <1>d, <1>t DEF vars, IInv, JobsNeverQueue, HandlersMatchRows, SlotMatchesQueue, FreeSlotHasNoLease,
     PunctualHolderKeepsSlot, PunctualWaiterHasTime
<1>18. QED
  BY <1>1, <1>2, <1>3, <1>4, <1>5, <1>6, <1>7, <1>8, <1>9, <1>10, <1>11, <1>12, <1>13, <1>14,
     <1>15, <1>16, <1>17, <1>21 DEF Next, RequestStep, JobStep

(* The inductive invariant holds of every reachable state.                 *)
THEOREM InvariantHolds == Spec => []IInv
<1>1. Init => IInv
  BY HoldersAssumption, RolesAssumption
     DEF Init, IInv, TypeOK, JobsNeverQueue, HandlersMatchRows, SlotMatchesQueue,
         FreeSlotHasNoLease, PunctualHolderKeepsSlot, PunctualWaiterHasTime,
         Free, NoRow, RowStates, PcStates, Holders
<1>2. QED
  BY <1>1, InvariantInduction, PTL DEF Spec

(* The slot and the queue agree, whatever dies, lapses or is swept.        *)
THEOREM SlotAgreesWithQueue == Spec => []SlotMatchesQueue
<1>1. IInv => SlotMatchesQueue
  BY DEF IInv
<1>2. QED
  BY <1>1, InvariantHolds, PTL

(* A handler that renews or ends in time never loses the slot.             *)
THEOREM PunctualHolderSafe == Spec => []PunctualHolderKeepsSlot
<1>1. IInv => PunctualHolderKeepsSlot
  BY DEF IInv
<1>2. QED
  BY <1>1, InvariantHolds, PTL

(* A request that polls in time is never dropped by another's sweep.       *)
THEOREM LiveWaiterSafe == Spec => []LiveWaiterStaysQueued
<1>1. IInv => LiveWaiterStaysQueued
  BY DEF IInv, PunctualWaiterHasTime, LiveWaiterStaysQueued
<1>2. QED
  BY <1>1, InvariantHolds, PTL

-----------------------------------------------------------------------------
(* Action properties.                                                      *)

(* Only its own admission activates a row.                                 *)
LEMMA OnlyAdmissionActivates ==
  ASSUME TypeOK, Next, NEW r \in Requests, row[r].state = "waiting", row'[r].state = "active"
  PROVE  Admit(r)
<1>b. row \in [Requests -> Entry]
  BY DEF TypeOK, Entry
<1>1. ASSUME NEW q \in Requests, RequestStep(q), ~Admit(r)
      PROVE  FALSE
  <2>1. CASE Enqueue(q)
    BY <1>b, <2>1, EnqueueSweep DEF Enqueue, SweptTo, NoRow
  <2>2. CASE Admit(q)
    <3>1. q # r /\ row[q].state = "waiting"
      BY <1>1, <2>2 DEF Admit
    <3>2. row'[r] = SweptForPoll(q)[r]
      BY <1>b, <2>2, <3>1, PollSweep DEF Admit
    <3>3. SweptTo(row[r], SweptForPoll(q)[r], UnexpiredLock.token, r)
      BY <3>1, PollSweep
    <3>4. QED
      BY <3>2, <3>3 DEF SweptTo
  <2>3. CASE KeepWaiting(q)
    <3>1. row[q].state = "waiting" /\ row' = SweptForPoll(q)
      BY <2>3 DEF KeepWaiting
    <3>2. CASE q = r
      BY <1>b, <3>1, <3>2, PollSweep DEF Entry
    <3>3. CASE q # r
      BY <3>1, <3>3, PollSweep DEF SweptTo
    <3>4. QED
      BY <3>2, <3>3
  <2>4. ASSUME NEW state \in {"finished", "cancelled"}, FinishQueue(q, state)
        PROVE  FALSE
    <3>1. Closed(row[q], state).state = state
      BY <1>b, ClosedEntry DEF RowStates
    <3>2. QED
      BY <1>b, <2>4, <3>1 DEF FinishQueue
  <2>5. CASE Abandon(q) \/ TimesOut(q) \/ Finish(q)
    BY <2>4, <2>5 DEF Abandon, TimesOut, Finish
  <2>6. CASE Renew(q) \/ LeaseLost(q)
    BY <2>6, RenewSweep DEF Renew, LeaseLost, SweptTo
  <2>7. CASE EnqueueRefused(q) \/ RemovedFromQueue(q)
    BY <2>7 DEF EnqueueRefused, RemovedFromQueue
  <2>8. QED
    BY <1>1, <2>1, <2>2, <2>3, <2>5, <2>6, <2>7 DEF RequestStep
<1>2. ASSUME NEW j \in Jobs, JobStep(j)
      PROVE  FALSE
  BY <1>b, <1>2, OrphanFacts DEF JobStep, Acquire, AcquireRefused
<1>3. ASSUME NEW p \in Holders, Release(p) \/ Die(p)
      PROVE  FALSE
  BY <1>3 DEF Release, Die
<1>4. ASSUME NEW o \in Owners, CancelQueue(o)
      PROVE  FALSE
  BY <1>b, <1>4, ClosedEntry DEF CancelQueue, RowStates
<1>5. CASE ShowStatus
  BY <1>5, EnqueueSweep DEF ShowStatus, SweptTo
<1>6. CASE Tick
  BY <1>b, <1>6 DEF Tick, Entry
<1>7. QED
  BY <1>1, <1>2, <1>3, <1>4, <1>5, <1>6 DEF Next

(* Admission is first come, first served among the live waiters.           *)
THEOREM FirstComeFirstServedHolds == Spec => FirstComeFirstServed
<1>1. ASSUME TypeOK, [Next]_vars, NEW r \in Requests, NEW q \in Requests,
             row[r].state = "waiting", row'[r].state = "active",
             row[q].state = "waiting", row[q].id < row[r].id
      PROVE  row[q].left = 0
  <2>1. Next
    BY <1>1 DEF vars
  <2>2. Admit(r)
    BY <1>1, <2>1, OnlyAdmissionActivates
  <2>3. row \in [Requests -> Entry]
    BY <1>1 DEF TypeOK, Entry
  <2>4. IsHead(SweptForPoll(r), r)
    BY <2>2 DEF Admit, Admissible
  <2>5. row[q].id \in Nat /\ row[r].id \in Nat /\ row[r] \in Entry
    BY <2>3 DEF Entry
  <2>6. SweptForPoll(r)[r] = [row[r] EXCEPT !.left = WaiterLease]
    BY <1>1, PollSweep
  <2>7. SweptForPoll(r)[r].id = row[r].id
    BY <2>5, <2>6 DEF Entry
  <2>8. q # r
    BY <1>1, <2>5
  <2>9. SweptTo(row[q], SweptForPoll(r)[q], UnexpiredLock.token, q)
    BY <1>1, <2>8, PollSweep
  <2>10. SweptForPoll(r)[q].id = row[q].id
        /\ (SweptForPoll(r)[q].state = "waiting" \/ row[q].left = 0)
    BY <1>1, <2>9 DEF SweptTo
  <2>11. QED
    BY <1>1, <2>4, <2>5, <2>7, <2>10 DEF IsHead
<1>2. TypeOK /\ [Next]_vars =>
        [\A r, q \in Requests :
           /\ row[r].state = "waiting" /\ row'[r].state = "active"
           /\ row[q].state = "waiting" /\ row[q].id < row[r].id
           => row[q].left = 0]_vars
  BY <1>1
<1>3. QED
  BY <1>2, TypeCorrect, PTL DEF Spec, FirstComeFirstServed

(* Nothing but a pending request of their own refuses an owner.            *)
THEOREM RefusalIsJustified == Spec => RefusedOnlyWhilePending
<1>1. ASSUME TypeOK, [Next]_vars, NEW r \in Requests, pc[r] = "idle", pc'[r] = "refused"
      PROVE  \E q \in Requests :
               /\ Owner[q] = Owner[r]
               /\ \/ row[q].state = "waiting" /\ row[q].left > 0
                  \/ row[q].state = "active" /\ lock.token = q /\ lock.left > 0
  <2>1. pc \in [Holders -> PcStates] /\ row \in [Requests -> Entry] /\ lock \in Slot
        /\ r \in Holders /\ r \notin Jobs /\ NoOne \notin Requests
    BY <1>1, HoldersAssumption DEF TypeOK, Entry, Slot, Holders
  <2>2. EnqueueRefused(r)
    BY <1>1, <2>1 DEF Next, RequestStep, JobStep, Enqueue, EnqueueRefused, Admit, KeepWaiting,
       RemovedFromQueue, Abandon, TimesOut, Renew, LeaseLost, Finish, Acquire, AcquireRefused, Release,
       Die, CancelQueue, ShowStatus, Tick, Goes, vars
  <2>3. PICK q \in Requests : Owner[q] = Owner[r] /\ Outstanding(SweptForEnqueue, q)
    BY <2>2 DEF EnqueueRefused, OwnerBusy
  <2> DEFINE kept == WaitersExpired(row, {})
  <2>4. kept \in [Requests -> Entry]
        /\ IF row[q].state = "waiting" /\ row[q].left = 0
           THEN kept[q].state = "cancelled" ELSE kept[q] = row[q]
    BY <2>1, WaiterFacts
  <2>5. SweptForEnqueue = OrphansCancelled(kept, UnexpiredLock.token)
    BY DEF SweptForEnqueue
  <2> HIDE DEF kept
  <2>6. IF kept[q].state = "active" /\ UnexpiredLock.token # q
        THEN SweptForEnqueue[q].state = "cancelled" ELSE SweptForEnqueue[q] = kept[q]
    BY <2>4, <2>5, OrphanFacts
  <2>7. \/ row[q].state = "waiting" /\ row[q].left # 0
        \/ row[q].state = "active" /\ UnexpiredLock.token = q
    BY <2>3, <2>4, <2>6 DEF Outstanding
  <2>8. UnexpiredLock.token = q => lock.token = q /\ lock.left # 0
    BY <1>1, <2>1, UnexpiredLockFacts DEF Free
  <2>9. row[q].left \in Nat /\ lock.left \in Nat
    BY <2>1 DEF Entry, Slot
  <2>10. QED
    BY <2>3, <2>7, <2>8, <2>9
<1>2. TypeOK /\ [Next]_vars =>
        [\A r \in Requests :
           pc[r] = "idle" /\ pc'[r] = "refused" =>
             \E q \in Requests :
               /\ Owner[q] = Owner[r]
               /\ \/ row[q].state = "waiting" /\ row[q].left > 0
                  \/ row[q].state = "active" /\ lock.token = q /\ lock.left > 0]_vars
  BY <1>1
<1>3. QED
  BY <1>2, TypeCorrect, PTL DEF Spec, RefusedOnlyWhilePending

-----------------------------------------------------------------------------
(* Refinement.                                                             *)

(* What the abstract lease sees of a state.                                *)
Lapsed == lock.token # NoOne /\ lock.left = 0
Ended  == {p \in Drawn : pc[p] = "done"}

Seen == <<lock.token, Lapsed, Drawn, Ended>>

(* Sweeping the lock is no step, or reclaims a lapsed lease.               *)
LEMMA SweepStep ==
  ASSUME IInv, lock' = UnexpiredLock, Drawn' = Drawn, Ended' = Ended
  PROVE  SlotLease!LeaseNext \/ UNCHANGED Seen
<1>1. lock \in Slot /\ (lock.token = NoOne => lock.left = 0)
  BY DEF IInv, TypeOK, Slot, FreeSlotHasNoLease
<1>2. CASE lock' = lock
  BY <1>2 DEF Seen, Lapsed
<1>3. CASE lock' = Free /\ lock.left = 0
  <2>1. lock'.token = NoOne /\ lock'.left = 0
    BY <1>3 DEF Free
  <2>2. CASE lock.token = NoOne
    BY <1>1, <2>1, <2>2 DEF Seen, Lapsed
  <2>3. CASE lock.token # NoOne
    BY <1>1, <1>3, <2>1, <2>3 DEF SlotLease!LeaseNext, SlotLease!Reclaim, Lapsed, Ended
  <2>4. QED
    BY <2>2, <2>3
<1>4. QED
  BY <1>2, <1>3 DEF UnexpiredLock

(* Nobody draws a token or ends.                                           *)
LEMMA SameBearers ==
  ASSUME \A q \in Requests : row'[q].drawn = row[q].drawn,
         \A j \in Jobs : pc'[j] \in {"working", "done", "dead"}
                        <=> pc[j] \in {"working", "done", "dead"},
         \A p \in Drawn : pc'[p] = "done" <=> pc[p] = "done"
  PROVE  Drawn' = Drawn /\ Ended' = Ended
<1>1. Drawn' = Drawn
  BY DEF Drawn
<1>2. QED
  BY <1>1 DEF Ended

(* A fresh bearer takes a slot that is free or lapsed.                     *)
LEMMA TakeStep ==
  ASSUME IInv, NEW b \in Holders, UnexpiredLock = Free,
         lock'.token = b, lock'.left > 0,
         b \notin Drawn, Drawn' = Drawn \cup {b}, Ended' = Ended
  PROVE  SlotLease!LeaseNext
<1>1. lock.token = NoOne \/ Lapsed
  BY DEF UnexpiredLock, Free, Lapsed
<1>2. ~Lapsed'
  BY DEF Lapsed
<1>3. SlotLease!Take(b)
  BY <1>1, <1>2 DEF SlotLease!Take, Lapsed, Ended
<1>4. QED
  BY <1>3 DEF SlotLease!LeaseNext

(* A bearer ends, and takes its token out of the slot if it is still there.*)
LEMMA EndStep ==
  ASSUME IInv, NEW b \in Holders, b \in Drawn, b \notin Ended,
         \/ lock' = lock /\ lock.token # b
         \/ lock' = Free /\ lock.token = b,
         Drawn' = Drawn, Ended' = Ended \cup {b}
  PROVE  SlotLease!LeaseNext
<1>1. lock' = Free => lock'.token = NoOne /\ lock'.left = 0
  BY DEF Free
<1>2. SlotLease!End(b)
  BY <1>1 DEF SlotLease!End, Lapsed, Ended
<1>3. QED
  BY <1>2 DEF SlotLease!LeaseNext

(* Every step of the tables is a step of the abstract lease or a stutter.  *)
LEMMA StepRefines == IInv /\ [Next]_vars => SlotLease!LeaseNext \/ UNCHANGED Seen
<1> SUFFICES ASSUME IInv, [Next]_vars
             PROVE  SlotLease!LeaseNext \/ UNCHANGED Seen
  OBVIOUS
<1>b. TypeOK /\ row \in [Requests -> Entry] /\ lock \in Slot /\ pc \in [Holders -> PcStates]
      /\ JobsNeverQueue /\ HandlersMatchRows /\ SlotMatchesQueue /\ FreeSlotHasNoLease
  BY DEF IInv, TypeOK, Entry, Slot
<1>c. NoOne \notin Holders /\ Requests \cap Jobs = {} /\ Requests \subseteq Holders /\ Jobs \subseteq Holders
      /\ Selecting \subseteq Requests
  BY HoldersAssumption, RolesAssumption DEF Holders
<1>u. /\ UnexpiredLock \in Slot
      /\ \/ UnexpiredLock = lock /\ lock.left # 0
         \/ UnexpiredLock = Free /\ lock.left = 0
  BY <1>b, UnexpiredLockFacts
<1>s. lock' = lock /\ Drawn' = Drawn /\ Ended' = Ended => UNCHANGED Seen
  BY DEF Seen, Lapsed
<1>d. \A p \in Drawn : p \in Holders
  BY <1>c DEF Drawn
<1>1. ASSUME NEW r \in Requests, Enqueue(r)
      PROVE  SlotLease!LeaseNext \/ UNCHANGED Seen
  <2>1. pc[r] = "idle" /\ pc' = [pc EXCEPT ![r] = "queued"] /\ lock' = UnexpiredLock
    BY <1>1 DEF Enqueue, Goes
  <2>2. row[r].drawn = FALSE /\ r \notin Drawn
    BY <1>b, <1>c, <2>1 DEF HandlersMatchRows, Drawn, Entry
  <2>3. row'[r].drawn = FALSE /\ \A q \in Requests \ {r} : row'[q] = SweptForEnqueue[q]
    BY <1>1, <1>b, EnqueueSweep DEF Enqueue, NoRow
  <2>4. \A q \in Requests : row'[q].drawn = row[q].drawn
    BY <1>b, <2>2, <2>3, EnqueueSweep DEF SweptTo
  <2>5. Drawn' = Drawn /\ Ended' = Ended
    BY <1>b, <1>c, <1>d, <2>1, <2>2, <2>4, SameBearers
  <2>6. QED
    BY <2>1, <2>5, SweepStep
<1>2. ASSUME NEW r \in Requests, EnqueueRefused(r)
      PROVE  SlotLease!LeaseNext \/ UNCHANGED Seen
  <2>1. pc[r] = "idle" /\ pc' = [pc EXCEPT ![r] = "refused"] /\ lock' = lock /\ row' = row
    BY <1>2 DEF EnqueueRefused, Goes
  <2>2. Drawn' = Drawn /\ Ended' = Ended
    BY <1>b, <1>c, <1>d, <2>1, SameBearers
  <2>3. QED
    BY <1>s, <2>1, <2>2
<1>3. ASSUME NEW r \in Requests, Admit(r)
      PROVE  SlotLease!LeaseNext \/ UNCHANGED Seen
  <2>1. /\ pc[r] = "queued" /\ pc' = [pc EXCEPT ![r] = "working"]
        /\ UnexpiredLock = Free /\ lock' = [token |-> r, left |-> Lease[r]]
        /\ row[r].state = "waiting"
    BY <1>3 DEF Admit, Admissible, Goes
  <2>2. SweptForPoll(r) \in [Requests -> Entry]
        /\ \A q \in Requests \ {r} : SweptTo(row[q], SweptForPoll(r)[q], UnexpiredLock.token, q)
    BY <1>b, <2>1, PollSweep
  <2>3. row'[r].drawn = TRUE /\ \A q \in Requests \ {r} : row'[q].drawn = row[q].drawn
    BY <1>3, <2>2 DEF Admit, SweptTo, Entry
  <2>4. r \notin Drawn
    BY <1>b, <1>c, <2>1 DEF HandlersMatchRows, Drawn
  <2>5. Drawn' = Drawn \cup {r}
    BY <1>b, <1>c, <2>1, <2>3 DEF Drawn
  <2>6. Ended' = Ended
    BY <1>b, <1>c, <1>d, <2>1, <2>4, <2>5 DEF Ended
  <2>7. lock'.token = r /\ lock'.left > 0
    BY <1>c, <2>1, LeaseAssumption
  <2>8. QED
    BY <1>c, <2>1, <2>4, <2>5, <2>6, <2>7, TakeStep
<1>4. ASSUME NEW r \in Requests, KeepWaiting(r)
      PROVE  SlotLease!LeaseNext \/ UNCHANGED Seen
  <2>1. row[r].state = "waiting" /\ row' = SweptForPoll(r) /\ pc' = pc /\ lock' = UnexpiredLock
    BY <1>4 DEF KeepWaiting
  <2>2. SweptForPoll(r)[r] = [row[r] EXCEPT !.left = WaiterLease]
        /\ \A q \in Requests \ {r} : SweptTo(row[q], SweptForPoll(r)[q], UnexpiredLock.token, q)
    BY <1>b, <2>1, PollSweep
  <2>3. \A q \in Requests : row'[q].drawn = row[q].drawn
    BY <1>b, <2>1, <2>2 DEF SweptTo, Entry
  <2>4. Drawn' = Drawn /\ Ended' = Ended
    BY <2>1, <2>3, SameBearers
  <2>5. QED
    BY <2>1, <2>4, SweepStep
<1>5. ASSUME NEW r \in Requests, RemovedFromQueue(r)
      PROVE  SlotLease!LeaseNext \/ UNCHANGED Seen
  <2>1. pc[r] = "queued" /\ pc' = [pc EXCEPT ![r] = "done"] /\ lock' = lock /\ row' = row
    BY <1>5 DEF RemovedFromQueue, Goes
  <2>2. r \notin Drawn
    BY <1>b, <1>c, <2>1 DEF HandlersMatchRows, Drawn
  <2>3. Drawn' = Drawn /\ Ended' = Ended
    BY <1>b, <1>c, <1>d, <2>1, <2>2, SameBearers
  <2>4. QED
    BY <1>s, <2>1, <2>3
<1>f. ASSUME NEW r \in Requests, NEW state \in {"finished", "cancelled"}, FinishQueue(r, state)
      PROVE  /\ \/ lock' = lock /\ lock.token # r
                \/ lock' = Free /\ lock.token = r
             /\ \A q \in Requests : row'[q].drawn = row[q].drawn
  <2>1. lock.token = r => row[r].state = "active" /\ row[r].drawn
    BY <1>b DEF SlotMatchesQueue, HandlersMatchRows
  <2>2. CASE Outstanding(row, r)
    <3>1. Closed(row[r], state).drawn = row[r].drawn
      BY <1>b, ClosedEntry DEF RowStates
    <3>2. QED
      BY <1>b, <1>f, <2>1, <2>2, <3>1 DEF FinishQueue
  <2>3. CASE ~Outstanding(row, r)
    BY <1>f, <2>1, <2>3 DEF FinishQueue, Outstanding
  <2>4. QED
    BY <2>2, <2>3
<1>21. ASSUME NEW r \in Requests, Abandon(r) \/ TimesOut(r)
       PROVE  SlotLease!LeaseNext \/ UNCHANGED Seen
  <2>1. /\ pc[r] = "queued"
        /\ pc' = [pc EXCEPT ![r] = "done"] \/ pc' = [pc EXCEPT ![r] = "late"]
    BY <1>21 DEF Abandon, TimesOut, Goes
  <2>2. lock.token # r /\ r \notin Drawn
    BY <1>b, <1>c, <2>1 DEF HandlersMatchRows, SlotMatchesQueue, Drawn
  <2>3. lock' = lock /\ \A q \in Requests : row'[q].drawn = row[q].drawn
    BY <1>21, <1>f, <2>2 DEF Abandon, TimesOut
  <2>4. Drawn' = Drawn /\ Ended' = Ended
    BY <1>b, <1>c, <1>d, <2>1, <2>2, <2>3, SameBearers
  <2>5. QED
    BY <1>s, <2>3, <2>4
<1>7. ASSUME NEW r \in Requests, Finish(r)
      PROVE  SlotLease!LeaseNext \/ UNCHANGED Seen
  <2>1. pc[r] \in {"working", "lost"} /\ pc' = [pc EXCEPT ![r] = "done"]
    BY <1>7 DEF Finish, Goes
  <2>2. r \in Drawn /\ r \notin Ended
    BY <1>b, <2>1 DEF HandlersMatchRows, Drawn, Ended
  <2>3. /\ \/ lock' = lock /\ lock.token # r
           \/ lock' = Free /\ lock.token = r
        /\ \A q \in Requests : row'[q].drawn = row[q].drawn
    BY <1>7, <1>f DEF Finish
  <2>4. Drawn' = Drawn
    BY <1>b, <1>c, <2>1, <2>3 DEF Drawn
  <2>5. Ended' = Ended \cup {r}
    BY <1>b, <1>c, <1>d, <2>1, <2>2, <2>4 DEF Ended
  <2>6. QED
    BY <1>c, <2>2, <2>3, <2>4, <2>5, EndStep
<1>8. ASSUME NEW r \in Requests, Renew(r)
      PROVE  SlotLease!LeaseNext \/ UNCHANGED Seen
  <2>1. /\ pc' = pc /\ UnexpiredLock.token = r /\ row' = SweptForRenew
        /\ lock' = [UnexpiredLock EXCEPT !.left = Lease[r]]
    BY <1>8 DEF Renew
  <2>2. lock.token = r /\ lock.left # 0
    BY <1>c, <1>u, <2>1 DEF Free
  <2>3. lock'.token = r /\ lock'.left > 0
    BY <1>c, <1>u, <2>1, LeaseAssumption DEF Slot
  <2>4. \A q \in Requests : row'[q].drawn = row[q].drawn
    BY <1>b, <2>1, RenewSweep DEF SweptTo
  <2>5. Drawn' = Drawn /\ Ended' = Ended
    BY <2>1, <2>4, SameBearers
  <2>6. QED
    BY <2>2, <2>3, <2>5 DEF Seen, Lapsed
<1>9. ASSUME NEW r \in Requests, LeaseLost(r)
      PROVE  SlotLease!LeaseNext \/ UNCHANGED Seen
  <2>1. /\ pc[r] = "working" /\ pc' = [pc EXCEPT ![r] = "lost"]
        /\ row' = SweptForRenew /\ lock' = UnexpiredLock
    BY <1>9 DEF LeaseLost, Goes
  <2>2. \A q \in Requests : row'[q].drawn = row[q].drawn
    BY <1>b, <2>1, RenewSweep DEF SweptTo
  <2>3. Drawn' = Drawn /\ Ended' = Ended
    BY <1>b, <1>c, <1>d, <2>1, <2>2, SameBearers
  <2>4. QED
    BY <2>1, <2>3, SweepStep
<1>10. ASSUME NEW j \in Jobs, Acquire(j)
       PROVE  SlotLease!LeaseNext \/ UNCHANGED Seen
  <2>1. /\ pc[j] = "idle" /\ pc' = [pc EXCEPT ![j] = "working"]
        /\ UnexpiredLock = Free /\ lock' = [token |-> j, left |-> Lease[j]]
        /\ row' = OrphansCancelled(row, NoOne)
    BY <1>10 DEF Acquire, Goes
  <2>2. \A q \in Requests : row'[q].drawn = row[q].drawn
    BY <1>b, <2>1, OrphanFacts
  <2>3. j \notin Drawn
    BY <1>c, <2>1 DEF Drawn
  <2>4. Drawn' = Drawn \cup {j}
    BY <1>b, <1>c, <2>1, <2>2 DEF Drawn
  <2>5. Ended' = Ended
    BY <1>b, <1>c, <1>d, <2>1, <2>3, <2>4 DEF Ended
  <2>6. lock'.token = j /\ lock'.left > 0
    BY <1>c, <2>1, LeaseAssumption
  <2>7. QED
    BY <1>c, <2>1, <2>3, <2>4, <2>5, <2>6, TakeStep
<1>11. ASSUME NEW j \in Jobs, AcquireRefused(j)
       PROVE  SlotLease!LeaseNext \/ UNCHANGED Seen
  <2>1. pc[j] = "idle" /\ pc' = [pc EXCEPT ![j] = "refused"] /\ lock' = lock /\ row' = row
    BY <1>11 DEF AcquireRefused, Goes
  <2>2. Drawn' = Drawn /\ Ended' = Ended
    BY <1>b, <1>c, <1>d, <2>1, SameBearers
  <2>3. QED
    BY <1>s, <2>1, <2>2
<1>12. ASSUME NEW p \in Holders, Release(p)
       PROVE  SlotLease!LeaseNext \/ UNCHANGED Seen
  <2>1. /\ pc[p] = "working" /\ pc' = [pc EXCEPT ![p] = "done"] /\ row' = row
        /\ \/ lock' = lock /\ lock.token # p
           \/ lock' = Free /\ lock.token = p
    BY <1>12 DEF Release, Goes
  <2>2. p \in Drawn /\ p \notin Ended
    BY <1>b, <1>c, <1>12, <2>1 DEF Release, HandlersMatchRows, Drawn, Ended
  <2>3. Drawn' = Drawn
    BY <1>b, <1>c, <2>1, <2>2 DEF Drawn
  <2>4. Ended' = Ended \cup {p}
    BY <1>b, <1>c, <1>d, <2>1, <2>2, <2>3 DEF Ended
  <2>5. QED
    BY <2>1, <2>2, <2>3, <2>4, EndStep
<1>13. ASSUME NEW p \in Holders, Die(p)
       PROVE  SlotLease!LeaseNext \/ UNCHANGED Seen
  <2>1. pc[p] \in {"queued", "working"} /\ pc' = [pc EXCEPT ![p] = "dead"] /\ lock' = lock /\ row' = row
    BY <1>13 DEF Die
  <2>2. Drawn' = Drawn /\ Ended' = Ended
    BY <1>b, <1>c, <1>d, <2>1, SameBearers DEF JobsNeverQueue
  <2>3. QED
    BY <1>s, <2>1, <2>2
<1>14. CASE ShowStatus
  <2>1. pc' = pc /\ lock' = UnexpiredLock /\ row' = SweptForEnqueue
    BY <1>14 DEF ShowStatus
  <2>2. \A q \in Requests : row'[q].drawn = row[q].drawn
    BY <1>b, <2>1, EnqueueSweep DEF SweptTo
  <2>3. Drawn' = Drawn /\ Ended' = Ended
    BY <2>1, <2>2, SameBearers
  <2>4. QED
    BY <2>1, <2>3, SweepStep
<1>15. ASSUME NEW o \in Owners, CancelQueue(o)
       PROVE  SlotLease!LeaseNext \/ UNCHANGED Seen
  <2>1. \A q \in Requests : Closed(row[q], "cancelled").drawn = row[q].drawn
    BY <1>b, ClosedEntry DEF RowStates
  <2>2. lock' = lock /\ pc' = pc /\ \A q \in Requests : row'[q].drawn = row[q].drawn
    BY <1>15, <1>b, <2>1 DEF CancelQueue
  <2>3. Drawn' = Drawn /\ Ended' = Ended
    BY <2>2, SameBearers
  <2>4. QED
    BY <1>s, <2>2, <2>3
<1>16. CASE Tick
  <2>1. /\ pc' = pc /\ lock'.token = lock.token
        /\ lock.left \in Nat /\ lock'.left = Before(lock.left)
        /\ \A q \in Requests : row'[q].drawn = row[q].drawn
    BY <1>16, <1>b DEF Tick, Entry, Slot
  <2>2. Drawn' = Drawn /\ Ended' = Ended
    BY <2>1, SameBearers
  <2>3. CASE lock.token # NoOne /\ lock'.left = 0
    BY <2>1, <2>2, <2>3 DEF SlotLease!LeaseNext, SlotLease!Lapse, Lapsed, Ended
  <2>4. CASE ~(lock.token # NoOne /\ lock'.left = 0)
    BY <2>1, <2>2, <2>4 DEF Seen, Lapsed, Before
  <2>5. QED
    BY <2>3, <2>4
<1>17. CASE UNCHANGED vars
  BY <1>17 DEF vars, Seen, Lapsed, Drawn, Ended
<1>18. QED
  BY <1>1, <1>2, <1>3, <1>4, <1>5, <1>7, <1>8, <1>9, <1>10, <1>11, <1>12, <1>13, <1>14,
     <1>15, <1>16, <1>17, <1>21 DEF Next, RequestStep, JobStep

(* The slot and queue tables implement the abstract lease.                 *)
THEOREM TablesImplementLease == Spec => ImplementsLease
<1>1. Init => SlotLease!LeaseInit
  BY HoldersAssumption DEF Init, SlotLease!LeaseInit, Drawn, Free, NoRow, Holders
<1>2. SlotLease!LeaseNext \/ UNCHANGED Seen => [SlotLease!LeaseNext]_(SlotLease!leaseVars)
  BY DEF Seen, Lapsed, Ended, SlotLease!leaseVars
<1>3. QED
  BY <1>1, <1>2, StepRefines, InvariantHolds, PTL DEF Spec, ImplementsLease, SlotLease!LeaseSpec
=============================================================================
