------------------------------ MODULE LeaseLock ------------------------------
(***************************************************************************)
(* What the portal's inference slot promises its callers, whatever tables  *)
(* implement it: one slot, held under a lease by the bearer of a token.    *)
(* While the lease runs, only the bearer's own end frees the slot; a slot  *)
(* whose lease has lapsed may be taken by anyone; and a bearer that has    *)
(* lost the slot never gets it back.                                       *)
(***************************************************************************)
CONSTANTS Bearers,   \* the requests and jobs that may draw a token
          NoOne      \* the slot is free

VARIABLES holder,    \* the bearer whose token is in the slot, or NoOne
          lapsed,    \* the holder's lease has run out
          drawn,     \* the bearers that have drawn their token
          ended      \* the bearers that have ended their work

leaseVars == <<holder, lapsed, drawn, ended>>

LeaseInit == /\ holder = NoOne
             /\ lapsed = FALSE
             /\ drawn = {}
             /\ ended = {}

(* A slot that is free, or whose lease has lapsed, goes to a fresh token.  *)
Take(b) == /\ holder = NoOne \/ lapsed
           /\ b \notin drawn
           /\ holder' = b
           /\ lapsed' = FALSE
           /\ drawn' = drawn \cup {b}
           /\ UNCHANGED ended

(* Time passes and an unrenewed lease runs out.                            *)
Lapse == /\ holder # NoOne
         /\ lapsed' = TRUE
         /\ UNCHANGED <<holder, drawn, ended>>

(* A lapsed lease is swept away.                                           *)
Reclaim == /\ lapsed
           /\ holder' = NoOne
           /\ lapsed' = FALSE
           /\ UNCHANGED <<drawn, ended>>

(* Bearer b ends; the slot is freed if, and only if, it is still b's.      *)
End(b) == /\ b \in drawn \ ended
          /\ ended' = ended \cup {b}
          /\ IF holder = b THEN holder' = NoOne /\ lapsed' = FALSE
                           ELSE UNCHANGED <<holder, lapsed>>
          /\ UNCHANGED drawn

LeaseNext == \/ \E b \in Bearers : Take(b) \/ End(b)
             \/ Lapse
             \/ Reclaim

LeaseSpec == LeaseInit /\ [][LeaseNext]_leaseVars
=============================================================================
