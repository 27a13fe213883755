------------------------------- MODULE Accounts -------------------------------
(***************************************************************************)
(* Accounts, from their creation to their deletion: their sessions, the    *)
(* requests that were authorised and go on for a while, the inference slot *)
(* some of them take, and the space each account has in the sandbox, which *)
(* another service keeps (services/sandbox).                               *)
(*                                                                         *)
(* A deletion first deactivates the account, then asks the sandbox to      *)
(* remove the space, and then deletes the rows.  It may be deferred after  *)
(* the first step, and an admin then asks again.                           *)
(*                                                                         *)
(* Definitions named Bug_... are mutated forms of the definition they come *)
(* before; no action uses them.                                            *)
(***************************************************************************)
EXTENDS Naturals, FiniteSets, Functions

CONSTANTS
  Users,        \* the accounts there may be; an id is never given out again
  Requests,     \* the requests of users under way at a time
  NoOne,        \* no request; nobody's
  Capacity,     \* the projects of the sandbox, PROJECT_MIN .. PROJECT_MAX
  MaxChanges,   \* how often accounts are changed in all
  MaxFaults     \* how often something fails in the sandbox, or it restarts

ASSUME BoundsAssumption ==
  Capacity \in Nat \ {0} /\ MaxChanges \in Nat /\ MaxFaults \in Nat
ASSUME NoOneAssumption == NoOne \notin Requests \cup Users

VARIABLES
  row,          \* the account's row in users
  guest,        \* the account named guest, which many share and no sandbox is for
  active,       \* its column active, and a role other than pending
  temporary,    \* must_change
  epoch,        \* how often its password, role or activation was changed
  sessions,     \* the sessions, each with the epoch it was issued in
  deleting,     \* where admin_delete_user is
  wanted,       \* deletions that deactivated the account, which nobody changed since
  at,           \* where each request is
  by,           \* whose request it is
  lock,         \* the request whose inference_lock row there is
  space,        \* the space of each account: see HasSpace
  project,      \* the project its directory belongs to
  late,         \* accounts whose space was made for a request that was late: see MakesSpace
  job,          \* the request that has the sandbox's job_lock
  faults        \* how much has gone wrong in the sandbox

account  == <<row, guest, active, temporary, epoch, sessions>>
deletion == <<deleting, wanted>>
sandbox  == <<space, project, late, job, faults>>
vars     == <<account, deletion, at, by, lock, sandbox>>

Projects == 1 .. Capacity

TypeOK ==
  /\ row \in [Users -> {"new", "there", "deleted"}] /\ guest \in Users \cup {NoOne}
  /\ active \in [Users -> BOOLEAN] /\ temporary \in [Users -> BOOLEAN]
  /\ epoch \in [Users -> Nat]
  /\ sessions \subseteq [user : Users, epoch : Nat]
  /\ deleting \in [Users -> {"idle", "sandbox", "rows"}] /\ wanted \subseteq Users
  /\ at \in [Requests -> {"none", "password", "chat", "waiting", "working", "drawing",
                          "script", "run", "making", "running"}]
  /\ by \in [Requests -> Users \cup {NoOne}] /\ \A r \in Requests : by[r] = NoOne <=> at[r] = "none"
  /\ lock \in Requests \cup {NoOne} /\ (lock # NoOne => at[lock] \in {"working", "drawing"})
  /\ space \in [Users -> {"none", "making", "whole", "broken", "stray"}]
  /\ project \in [Users -> 0 .. Capacity] /\ late \subseteq Users
  /\ \A u, v \in Users : u # v /\ {space[u], space[v]} \subseteq {"whole", "broken"} => project[u] # project[v]
  /\ job \in Requests \cup {NoOne} /\ (job # NoOne <=> \E r \in Requests : at[r] = "running")
  /\ faults \in 0 .. MaxFaults

Init ==
  /\ row = [u \in Users |-> "new"] /\ guest = NoOne
  /\ active = [u \in Users |-> FALSE] /\ temporary = [u \in Users |-> FALSE]
  /\ epoch = [u \in Users |-> 0] /\ sessions = {}
  /\ deleting = [u \in Users |-> "idle"] /\ wanted = {}
  /\ at = [r \in Requests |-> "none"] /\ by = [r \in Requests |-> NoOne]
  /\ lock = NoOne
  /\ space = [u \in Users |-> "none"] /\ project = [u \in Users |-> 0] /\ late = {}
  /\ job = NoOne /\ faults = 0

At(r, place)   == at[r] = place
Goes(r, place) == at' = [at EXCEPT ![r] = place] /\ UNCHANGED by
Ends(r)        == at' = [at EXCEPT ![r] = "none"] /\ by' = [by EXCEPT ![r] = NoOne]

(* A bound: accounts are changed a few times only.                         *)
MayChange == FoldFunction(+, 0, epoch) < MaxChanges

Bug_KeepsSessions(u) == sessions

Without(u) == {s \in sessions : s.user # u}

-----------------------------------------------------------------------------
(* The admin's other changes, each of which ends the account's sessions.   *)

Creates(u) ==
  /\ row[u] = "new"
  /\ row' = [row EXCEPT ![u] = "there"] /\ active' = [active EXCEPT ![u] = TRUE]
  /\ UNCHANGED guest \/ (guest = NoOne /\ guest' = u)
  /\ temporary' = [temporary EXCEPT ![u] = guest' # u]
  /\ UNCHANGED <<epoch, sessions, deletion, at, by, lock, sandbox>>

Changes(u) ==
  /\ row[u] = "there" /\ MayChange
  /\ epoch' = [epoch EXCEPT ![u] = @ + 1]
  /\ sessions' = Without(u)

(* Role and activation; an account whose deletion began may come back.     *)
Updates(u) ==
  /\ Changes(u)
  /\ \E a \in BOOLEAN : active' = [active EXCEPT ![u] = a]
  /\ wanted' = wanted \ {u}
  /\ UNCHANGED <<row, guest, temporary, deleting, at, by, lock, sandbox>>

ResetsPassword(u) ==
  /\ Changes(u)
  /\ temporary' = [temporary EXCEPT ![u] = u # guest]
  /\ UNCHANGED <<row, guest, active, deletion, at, by, lock, sandbox>>

-----------------------------------------------------------------------------
(* Sessions and requests.                                                  *)

Issued(u) == [user |-> u, epoch |-> epoch[u]]

LogsIn(u) ==
  /\ row[u] = "there" /\ active[u]
  /\ sessions' = sessions \cup {Issued(u)}
  /\ UNCHANGED <<row, guest, active, temporary, epoch, deletion, at, by, lock, sandbox>>

LogsOut(s) ==
  /\ sessions' = sessions \ {s}
  /\ UNCHANGED <<row, guest, active, temporary, epoch, deletion, at, by, lock, sandbox>>

(* What an account may ask for.                                            *)
Allowed(u) ==
  {p \in {"password", "chat", "script", "run"} :
     (temporary[u] => p = "password") /\ (u = guest => p \notin {"script", "run"})}

(* require_cap: the account is looked up through its session, once; the    *)
(* body of the request comes later.                                        *)
Authorises(r, s) ==
  /\ At(r, "none") /\ active[s.user]
  /\ by' = [by EXCEPT ![r] = s.user]
  /\ \E p \in Allowed(s.user) : at' = [at EXCEPT ![r] = p]
  /\ UNCHANGED <<account, deletion, lock, sandbox>>

(* The old password is compared with the row that was read before.         *)
ChangesPassword(r) ==
  /\ At(r, "password") /\ Ends(r)
  /\ LET u == by[r]
     IN IF row[u] = "there" /\ MayChange
          THEN /\ temporary' = [temporary EXCEPT ![u] = FALSE]
               /\ epoch' = [epoch EXCEPT ![u] = @ + 1] /\ sessions' = Without(u)
          ELSE UNCHANGED <<temporary, epoch, sessions>>
  /\ UNCHANGED <<row, guest, active, deletion, lock, sandbox>>

-----------------------------------------------------------------------------
(* A request for the inference slot, a chat or an image, reduced to its    *)
(* rows, each of which refers to the account's.                            *)

(* At work under the slot; an image that is drawn has a row of its own.    *)
AtWork(r) == at[r] \in {"working", "drawing"}

Alone(u) == \A r \in Requests : by[r] = u => at[r] # "waiting" /\ ~AtWork(r)

(* One request per account, but for a guest, who has one per network.      *)
Enqueues(r) ==
  /\ At(r, "chat")
  /\ \/ row[by[r]] = "there" /\ (Alone(by[r]) \/ by[r] = guest) /\ Goes(r, "waiting")
     \/ ~(row[by[r]] = "there" /\ Alone(by[r])) /\ Ends(r)
  /\ UNCHANGED <<account, deletion, lock, sandbox>>

(* The poll finds the slot free, or its own row deleted.                   *)
Polls(r) ==
  /\ At(r, "waiting")
  /\ IF row[by[r]] = "there"
       THEN lock = NoOne /\ lock' = r /\ Goes(r, "working")
       ELSE Ends(r) /\ UNCHANGED lock
  /\ UNCHANGED <<account, deletion, sandbox>>

Bug_AnyToken(r) == NoOne

(* The slot is given back by its token.                                    *)
Released(r) == IF lock = r THEN NoOne ELSE lock

(* reserve_graphics_quota; the row is open until the request is settled.   *)
Reserves(r) ==
  /\ At(r, "working") /\ row[by[r]] = "there" /\ Goes(r, "drawing")
  /\ UNCHANGED <<account, deletion, lock, sandbox>>

(* A chat ends or is refused, an image is settled by anybody.              *)
EndsWork(r) ==
  /\ AtWork(r)
  /\ Ends(r) /\ lock' = Released(r)
  /\ UNCHANGED <<account, deletion, sandbox>>

-----------------------------------------------------------------------------
(* The sandbox.  A space is a directory with a quota, and a row: "making"  *)
(* while there is a directory without a row, "stray" when it stays so, and *)
(* "broken" when a row lost its directory.                                 *)

HasSpace(u) == space[u] \in {"whole", "broken"}

Fault == faults < MaxFaults /\ faults' = faults + 1

Free == Projects \ {project[u] : u \in {v \in Users : HasSpace(v)}}

(* ensure_user, to the directory: the lowest project that has no row.      *)
BeginsSpace(r) ==
  LET u == by[r]
  IN IF space[u] = "none" /\ Free # {}
       THEN /\ space' = [space EXCEPT ![u] = "making"]
            /\ project' = [project EXCEPT ![u] = CHOOSE p \in Free : \A q \in Free : p <= q]
            /\ Goes(r, "making")
       ELSE Ends(r) /\ UNCHANGED <<space, project>>

(* Scripts are listed, saved or deleted.                                   *)
UsesScripts(r) ==
  /\ At(r, "script") /\ BeginsSpace(r)
  /\ UNCHANGED <<account, deletion, lock, late, job, faults>>

Bug_TakenTwice(u) == FALSE

(* UNIQUE: the project was given to another account meanwhile.             *)
Taken(u) == \E v \in Users \ {u} : HasSpace(v) /\ project[v] = project[u]

(* chattr and setquota may fail; then the row.  The request is late when   *)
(* its account was deactivated, or is being deleted.                       *)
MakesSpace(r) ==
  /\ At(r, "making") /\ Ends(r)
  /\ LET u == by[r]
     IN \/ /\ ~Taken(u) /\ space' = [space EXCEPT ![u] = "whole"]
           /\ late' = IF active[u] /\ deleting[u] = "idle" THEN late ELSE late \cup {u}
           /\ UNCHANGED faults
        \/ /\ IF Taken(u) THEN UNCHANGED faults ELSE Fault
           /\ space' = [space EXCEPT ![u] = "stray"] /\ UNCHANGED late
  /\ UNCHANGED <<account, deletion, lock, project, job>>

(* One script runs at a time; one that was never saved makes a space only. *)
RunsScript(r) ==
  /\ At(r, "run")
  /\ IF space[by[r]] = "whole" /\ job = NoOne
       THEN job' = r /\ Goes(r, "running") /\ UNCHANGED <<space, project>>
       ELSE BeginsSpace(r) /\ UNCHANGED job
  /\ UNCHANGED <<account, deletion, lock, late, faults>>

(* It ends, or is killed after a minute.                                   *)
EndsRun(r) ==
  /\ At(r, "running") /\ Ends(r) /\ job' = NoOne
  /\ UNCHANGED <<account, deletion, lock, space, project, late, faults>>

SandboxRestarts ==
  /\ Fault /\ job' = NoOne
  /\ at' = [r \in Requests |-> IF at[r] \in {"making", "running"} THEN "none" ELSE at[r]]
  /\ space' = [u \in Users |-> IF space[u] = "making" THEN "stray" ELSE space[u]]
  /\ by' = [r \in Requests |-> IF at[r] \in {"making", "running"} THEN NoOne ELSE by[r]]
  /\ UNCHANGED <<account, deletion, lock, project, late>>

-----------------------------------------------------------------------------
(* admin_delete_user.                                                      *)

(* Whoever holds the slot is busy; a request that waits for it is not.     *)
Busy(u) == lock # NoOne /\ by[lock] = u

(* Images of the account that are not settled.                             *)
Pending(u) == \E r \in Requests : by[r] = u /\ At(r, "drawing")

Bug_ActiveOnly(u) == row[u] = "there" /\ active[u] /\ ~Busy(u) /\ ~Pending(u)

(* One that was deactivated before may be deleted as well.                 *)
Deletable(u) == row[u] = "there" /\ ~Busy(u) /\ ~Pending(u)

Deactivates(u) ==
  /\ Deletable(u) /\ deleting[u] = "idle"
  /\ active' = [active EXCEPT ![u] = FALSE] /\ sessions' = Without(u)
  /\ deleting' = [deleting EXCEPT ![u] = "sandbox"] /\ wanted' = wanted \cup {u}
  /\ UNCHANGED <<row, guest, temporary, epoch, at, by, lock, sandbox>>

Bug_FailureIgnored(u) == deleting' = [deleting EXCEPT ![u] = "rows"]

(* "account disattivato ma spazio sandbox non cancellato: riprovare".      *)
Defers(u) == deleting' = [deleting EXCEPT ![u] = "idle"]

(* sandbox_actor refuses a guest, its deletion by an admin included.       *)
RefusesGuest(u) ==
  /\ deleting[u] = "sandbox" /\ u = guest
  /\ Defers(u)
  /\ UNCHANGED <<account, wanted, at, by, lock, sandbox>>

(* A script runs, whoever's it is.                                         *)
FindsSandboxBusy(u) ==
  /\ deleting[u] = "sandbox" /\ u # guest /\ job # NoOne
  /\ Defers(u)
  /\ UNCHANGED <<account, wanted, at, by, lock, sandbox>>

(* remove_user: the row is found, the directory removed if there is one,   *)
(* the quota lifted, and the row deleted; or one of these fails, or the    *)
(* answer is lost.                                                         *)
RemovesSpace(u) ==
  /\ deleting[u] = "sandbox" /\ u # guest /\ job = NoOne
  /\ \/ /\ space' = [space EXCEPT ![u] = IF HasSpace(u) THEN "none" ELSE @]
        /\ project' = [project EXCEPT ![u] = IF HasSpace(u) THEN 0 ELSE @]
        /\ \/ deleting' = [deleting EXCEPT ![u] = "rows"] /\ UNCHANGED faults
           \/ Fault /\ Defers(u)
     \/ /\ HasSpace(u) /\ Fault /\ Defers(u) /\ UNCHANGED project
        /\ \E s \in {"broken", space[u]} : space' = [space EXCEPT ![u] = s]
  /\ UNCHANGED <<account, wanted, at, by, lock, late, job>>

(* Whatever refers to the account is deleted with it, the slot included.   *)
DeletesRows(u) ==
  /\ deleting[u] = "rows"
  /\ deleting' = [deleting EXCEPT ![u] = "idle"]
  /\ row' = [row EXCEPT ![u] = "deleted"] /\ sessions' = Without(u)
  /\ active' = [active EXCEPT ![u] = FALSE]
  /\ lock' = IF Busy(u) THEN NoOne ELSE lock
  /\ UNCHANGED <<guest, temporary, epoch, wanted, at, by, sandbox>>

-----------------------------------------------------------------------------
Proceeds(r) ==
  \/ ChangesPassword(r) \/ Enqueues(r) \/ Polls(r) \/ Reserves(r) \/ EndsWork(r)
  \/ UsesScripts(r) \/ RunsScript(r) \/ MakesSpace(r) \/ EndsRun(r)

Deletes(u) ==
  Deactivates(u) \/ RefusesGuest(u) \/ FindsSandboxBusy(u) \/ RemovesSpace(u) \/ DeletesRows(u)

Next ==
  \/ \E u \in Users : Creates(u) \/ Updates(u) \/ ResetsPassword(u) \/ LogsIn(u) \/ Deletes(u)
  \/ \E s \in sessions : LogsOut(s) \/ \E r \in Requests : Authorises(r, s)
  \/ \E r \in Requests : Proceeds(r)
  \/ SandboxRestarts

Spec == Init /\ [][Next]_vars

(* Handlers run on and scripts are killed in time; an admin whose deletion *)
(* was deferred asks again.                                                *)
Fairness ==
  /\ \A r \in Requests : WF_vars(EndsWork(r)) /\ WF_vars(EndsRun(r)) /\ WF_vars(MakesSpace(r))
  /\ \A u \in Users : /\ WF_vars(u \in wanted /\ Deactivates(u))
                      /\ WF_vars(RefusesGuest(u) \/ FindsSandboxBusy(u) \/ RemovesSpace(u))
                      /\ WF_vars(DeletesRows(u))

FairSpec == Spec /\ Fairness

-----------------------------------------------------------------------------
(* A session is that of an active account, and was issued after the last   *)
(* change of its password, role or activation.                             *)
SessionsAreCurrent ==
  \A s \in sessions : row[s.user] = "there" /\ active[s.user] /\ s.epoch = epoch[s.user]

(* Who works under the slot has it, though accounts are deleted: only a    *)
(* request whose own account was deleted meanwhile goes on without.        *)
WorkersHoldSlot ==
  \A r \in Requests : AtWork(r) => lock = r \/ row[by[r]] = "deleted"

(* A deleted account leaves no space in the sandbox, unless it was made    *)
(* for a request of its own that came late.                                *)
NoSpaceLeftBehind ==
  \A u \in Users : row[u] = "deleted" /\ HasSpace(u) => u \in late

(* A deletion that deactivated the account deletes it in the end, though   *)
(* the sandbox failed and the deletion was deferred, if the sandbox does   *)
(* not stay busy and nobody brings the account back.  Not so a guest's: it *)
(* is deferred every time (RefusesGuest).                                  *)
DeletionEnds ==
  <>[](job = NoOne) =>
    \A u \in Users : u \in wanted /\ u # guest ~> u \notin wanted \/ row[u] = "deleted"
=============================================================================
