---------------------------- MODULE AccountsProofs ----------------------------
(***************************************************************************)
(* Proofs about Accounts for any accounts, any requests, and any number of *)
(* projects, changes and faults.                                           *)
(***************************************************************************)
EXTENDS Accounts, WellFoundedInduction, TLAPS

Places ==
  {"none", "password", "chat", "waiting", "working", "drawing", "script", "run", "making", "running"}

-----------------------------------------------------------------------------
(* TypeOK, part by part, each about the variables of one of the tables.    *)

AccountTypes ==
  /\ row \in [Users -> {"new", "there", "deleted"}] /\ guest \in Users \cup {NoOne}
  /\ active \in [Users -> BOOLEAN] /\ temporary \in [Users -> BOOLEAN]
  /\ epoch \in [Users -> Nat]
  /\ sessions \subseteq [user : Users, epoch : Nat]

DeletionTypes == deleting \in [Users -> {"idle", "sandbox", "rows"}] /\ wanted \subseteq Users

RequestTypes ==
  /\ at \in [Requests -> Places]
  /\ by \in [Requests -> Users \cup {NoOne}]
  /\ \A r \in Requests : by[r] = NoOne <=> at[r] = "none"
  /\ lock \in Requests \cup {NoOne} /\ (lock # NoOne => AtWork(lock))

SandboxTypes ==
  /\ space \in [Users -> {"none", "making", "whole", "broken", "stray"}]
  /\ project \in [Users -> 0 .. Capacity] /\ late \subseteq Users
  /\ job \in Requests \cup {NoOne} /\ faults \in 0 .. MaxFaults

(* No two accounts with a row in the sandbox have the same project.        *)
ProjectsDiffer ==
  \A u, v \in Users : u # v /\ HasSpace(u) /\ HasSpace(v) => project[u] # project[v]

(* The run whose request has the sandbox's lock is the only one.           *)
JobRuns == \A r \in Requests : At(r, "running") <=> job = r

Types ==
  AccountTypes /\ DeletionTypes /\ RequestTypes /\ SandboxTypes /\ ProjectsDiffer /\ JobRuns

-----------------------------------------------------------------------------
(* The inductive invariant.                                                *)

(* What a deletion removed from the sandbox, before it deletes the rows,   *)
(* comes back only for a request that is late.                             *)
RemovedOrLate == \A u \in Users : deleting[u] = "rows" /\ HasSpace(u) => u \in late

(* Nobody activates an account that is deleted.                            *)
DeletedInactive == \A u \in Users : row[u] = "deleted" => ~active[u]

SpaceGoes == RemovedOrLate /\ DeletedInactive /\ NoSpaceLeftBehind

IInv == Types /\ SpaceGoes /\ SessionsAreCurrent /\ WorkersHoldSlot

(* The parts are what TypeOK says.                                         *)
LEMMA TypeParts ==
  ASSUME IInv
  PROVE  TypeOK
BY NoOneAssumption
   DEF IInv, Types, TypeOK, AccountTypes, DeletionTypes, RequestTypes, SandboxTypes, ProjectsDiffer,
       JobRuns, Places, HasSpace, At, AtWork

(* Whose request one is that goes on.                                      *)
LEMMA Owner ==
  ASSUME Types, NEW r \in Requests, ~At(r, "none")
  PROVE  by[r] \in Users
BY DEF Types, RequestTypes, At, AtWork

(* An account without its sessions, its epoch moved on or not.             *)
LEMMA ChangedAccount ==
  ASSUME AccountTypes, NEW u \in Users, sessions' = Without(u),
         epoch' \in {epoch, [epoch EXCEPT ![u] = @ + 1]}
  PROVE  /\ epoch' \in [Users -> Nat]
         /\ sessions' \subseteq [user : Users, epoch : Nat]
         /\ \A s \in sessions' : s \in sessions /\ s.user # u /\ epoch'[s.user] = epoch[s.user]
<1>1. epoch' \in [Users -> Nat] /\ \A v \in Users \ {u} : epoch'[v] = epoch[v]
  BY DEF AccountTypes
<1>2. \A s \in sessions' : s \in sessions /\ s.user # u
  BY DEF Without
<1>3. QED
  BY <1>1, <1>2 DEF AccountTypes

-----------------------------------------------------------------------------
(* The rows of accounts.                                                   *)

(* An account is created.                                                  *)
LEMMA CreationStep ==
  ASSUME IInv, NEW u \in Users, Creates(u)
  PROVE  IInv'
<1> USE DEF IInv, Types, SpaceGoes
<1>1. AccountTypes'
  BY DEF Creates, AccountTypes
<1>2. DeletionTypes' /\ RequestTypes' /\ SandboxTypes' /\ ProjectsDiffer' /\ JobRuns'
  BY DEF Creates, DeletionTypes, RequestTypes, SandboxTypes, ProjectsDiffer, JobRuns, HasSpace, At, AtWork,
         deletion, sandbox
<1>3. SpaceGoes' /\ WorkersHoldSlot'
  BY DEF Creates, AccountTypes, RemovedOrLate, DeletedInactive, NoSpaceLeftBehind, WorkersHoldSlot,
         At, AtWork, HasSpace, deletion, sandbox
<1>4. SessionsAreCurrent'
  BY DEF Creates, AccountTypes, SessionsAreCurrent
<1>5. QED
  BY <1>1, <1>2, <1>3, <1>4

(* An admin changes role, activation or password.                          *)
LEMMA ChangeStep ==
  ASSUME IInv, NEW u \in Users, Updates(u) \/ ResetsPassword(u)
  PROVE  IInv'
<1> USE DEF IInv, Types, SpaceGoes
<1>1. AccountTypes'
  BY ChangedAccount DEF Updates, ResetsPassword, Changes, AccountTypes
<1>2. DeletionTypes' /\ RequestTypes' /\ SandboxTypes' /\ ProjectsDiffer' /\ JobRuns'
  BY DEF Updates, ResetsPassword, DeletionTypes, RequestTypes, SandboxTypes, ProjectsDiffer, JobRuns,
         HasSpace, At, AtWork, deletion, sandbox
<1>3. SpaceGoes' /\ WorkersHoldSlot'
  BY DEF Updates, ResetsPassword, Changes, AccountTypes, RemovedOrLate, DeletedInactive,
         NoSpaceLeftBehind, WorkersHoldSlot, At, AtWork, HasSpace, deletion, sandbox
<1>4. SessionsAreCurrent'
  BY ChangedAccount DEF Updates, ResetsPassword, Changes, AccountTypes, SessionsAreCurrent
<1>5. QED
  BY <1>1, <1>2, <1>3, <1>4

(* Sessions come and go.                                                   *)
LEMMA SessionStep ==
  ASSUME IInv, (\E u \in Users : LogsIn(u)) \/ (\E s \in sessions : LogsOut(s))
  PROVE  IInv'
<1> USE DEF IInv, Types, SpaceGoes
<1>1. AccountTypes'
  BY DEF LogsIn, LogsOut, Issued, AccountTypes
<1>2. DeletionTypes' /\ RequestTypes' /\ SandboxTypes' /\ ProjectsDiffer' /\ JobRuns'
  BY DEF LogsIn, LogsOut, DeletionTypes, RequestTypes, SandboxTypes, ProjectsDiffer, JobRuns,
         HasSpace, At, AtWork, deletion, sandbox
<1>3. SpaceGoes' /\ WorkersHoldSlot'
  BY DEF LogsIn, LogsOut, RemovedOrLate, DeletedInactive, NoSpaceLeftBehind, WorkersHoldSlot, At, AtWork,
         HasSpace, deletion, sandbox
<1>4. SessionsAreCurrent'
  BY DEF LogsIn, LogsOut, Issued, AccountTypes, SessionsAreCurrent
<1>5. QED
  BY <1>1, <1>2, <1>3, <1>4

-----------------------------------------------------------------------------
(* Requests, and the inference slot.                                       *)

(* A request that changes neither its account nor the sandbox leaves what  *)
(* is said of them.                                                        *)
LEMMA RequestFrame ==
  ASSUME IInv, UNCHANGED <<account, deletion, sandbox>>
  PROVE  AccountTypes' /\ DeletionTypes' /\ SandboxTypes' /\ ProjectsDiffer' /\ SpaceGoes' /\ SessionsAreCurrent'
BY DEF IInv, Types, AccountTypes, DeletionTypes, SandboxTypes, ProjectsDiffer, SpaceGoes, RemovedOrLate,
       DeletedInactive, NoSpaceLeftBehind, SessionsAreCurrent, HasSpace, account, deletion, sandbox

(* A request is authorised by one of the sessions.                         *)
LEMMA AuthorisationStep ==
  ASSUME IInv, NEW r \in Requests, NEW s \in sessions, Authorises(r, s)
  PROVE  IInv'
<1> USE DEF IInv, Types
<1>1. PICK p \in {"password", "chat", "script", "run"} : at' = [at EXCEPT ![r] = p]
  BY DEF Authorises, Allowed
<1>2. s.user \in Users /\ s.user # NoOne /\ by' = [by EXCEPT ![r] = s.user] /\ at[r] = "none"
  BY NoOneAssumption DEF Authorises, AccountTypes, At
<1>3. UNCHANGED <<account, deletion, lock, sandbox>>
  BY DEF Authorises
<1>4. RequestTypes'
  BY <1>1, <1>2, <1>3 DEF RequestTypes, AtWork, Places
<1>5. JobRuns' /\ WorkersHoldSlot'
  BY <1>1, <1>2, <1>3 DEF RequestTypes, JobRuns, WorkersHoldSlot, At, AtWork, account, sandbox
<1>6. QED
  BY <1>3, <1>4, <1>5, RequestFrame

(* A request changes its user's password.                                  *)
LEMMA PasswordStep ==
  ASSUME IInv, NEW r \in Requests, ChangesPassword(r)
  PROVE  IInv'
<1> USE DEF IInv, Types, SpaceGoes
<1>1. by[r] \in Users
  BY Owner DEF ChangesPassword, At
<1>2. AccountTypes' /\ SessionsAreCurrent'
  BY <1>1, ChangedAccount DEF ChangesPassword, AccountTypes, SessionsAreCurrent
<1>3. DeletionTypes' /\ SandboxTypes' /\ ProjectsDiffer' /\ SpaceGoes'
  BY DEF ChangesPassword, DeletionTypes, SandboxTypes, ProjectsDiffer, RemovedOrLate, DeletedInactive,
         NoSpaceLeftBehind, HasSpace, deletion, sandbox
<1>4. RequestTypes'
  BY NoOneAssumption DEF ChangesPassword, Ends, At, AtWork, RequestTypes, Places
<1>5. JobRuns' /\ WorkersHoldSlot'
  BY DEF ChangesPassword, Ends, RequestTypes, JobRuns, WorkersHoldSlot, At, AtWork, sandbox
<1>6. QED
  BY <1>2, <1>3, <1>4, <1>5

(* A request waits for the slot, works under it, and gives it back.        *)
LEMMA SlotStep ==
  ASSUME IInv, NEW r \in Requests, Enqueues(r) \/ Polls(r) \/ Reserves(r) \/ EndsWork(r)
  PROVE  IInv'
<1> USE DEF IInv, Types
<1>1. UNCHANGED <<account, deletion, sandbox>>
  BY DEF Enqueues, Polls, Reserves, EndsWork
<1>2. RequestTypes'
  <2>1. CASE Enqueues(r)
    BY <2>1, NoOneAssumption DEF Enqueues, Goes, Ends, At, AtWork, RequestTypes, Places
  <2>2. CASE Polls(r)
    BY <2>2, NoOneAssumption DEF Polls, Goes, Ends, At, AtWork, RequestTypes, Places
  <2>3. CASE Reserves(r)
    BY <2>3, NoOneAssumption DEF Reserves, Goes, At, AtWork, RequestTypes, Places
  <2>4. CASE EndsWork(r)
    BY <2>4, NoOneAssumption DEF EndsWork, Released, Ends, RequestTypes, AtWork, Places
  <2>5. QED
    BY <2>1, <2>2, <2>3, <2>4
<1>3. JobRuns'
  BY <1>1 DEF Enqueues, Polls, Reserves, EndsWork, Goes, Ends, At, AtWork, RequestTypes, JobRuns, sandbox
<1>4. WorkersHoldSlot'
  <2> USE <1>1, NoOneAssumption DEF At, AtWork, RequestTypes, WorkersHoldSlot, account
  <2>1. CASE Enqueues(r)
    BY <2>1 DEF Enqueues, Goes, Ends
  <2>2. CASE Polls(r) /\ row[by[r]] = "there"
    BY <2>2 DEF Polls, Goes
  <2>3. CASE Polls(r) /\ row[by[r]] # "there"
    BY <2>3 DEF Polls, Ends
  <2>4. CASE Reserves(r)
    BY <2>4 DEF Reserves, Goes
  <2>5. CASE EndsWork(r)
    BY <2>5 DEF EndsWork, Released, Ends
  <2>6. QED
    BY <2>1, <2>2, <2>3, <2>4, <2>5
<1>5. QED
  BY <1>1, <1>2, <1>3, <1>4, RequestFrame

-----------------------------------------------------------------------------
(* The sandbox.                                                            *)

(* There is a lowest among projects that are free.                         *)
LEMMA LowestProject ==
  ASSUME NEW ps \in SUBSET Projects, ps # {}
  PROVE  (CHOOSE p \in ps : \A q \in ps : p <= q) \in ps
<1>1. ps \subseteq Nat
  BY BoundsAssumption DEF Projects
<1>2. PICK p \in ps : \A q \in ps : ~(<<q, p>> \in OpToRel(<, Nat))
  BY <1>1, WFMin, NatLessThanWellFounded
<1>3. \A q \in ps : ~(q < p)
  BY <1>1, <1>2, Zenon DEF OpToRel
<1>4. \A q \in ps : p <= q
  BY <1>1, <1>3
<1>5. QED
  BY <1>4

(* A space is begun under a project that has none, or the request ends.    *)
LEMMA BeginsSpaceTyped ==
  ASSUME Types, NEW r \in Requests, by[r] \in Users, BeginsSpace(r)
  PROVE  /\ space' \in [Users -> {"none", "making", "whole", "broken", "stray"}]
         /\ project' \in [Users -> 0 .. Capacity]
         /\ \A u \in Users : HasSpace(u)' <=> HasSpace(u)
         /\ \A u \in Users : HasSpace(u) => project'[u] = project[u]
         /\ Goes(r, "making") \/ Ends(r)
<1> DEFINE lowest == CHOOSE p \in Free : \A q \in Free : p <= q
<1>1. Free # {} => lowest \in 0 .. Capacity
  <2>1. Free \in SUBSET Projects
    BY DEF Free
  <2>2. Free # {} => lowest \in Projects
    BY <2>1, LowestProject
  <2>3. QED
    BY <2>2, BoundsAssumption DEF Projects
<1> HIDE DEF lowest
<1>2. CASE /\ space[by[r]] = "none" /\ Free # {}
           /\ space' = [space EXCEPT ![by[r]] = "making"]
           /\ project' = [project EXCEPT ![by[r]] = lowest]
           /\ Goes(r, "making")
  BY <1>1, <1>2 DEF Types, SandboxTypes, HasSpace
<1>3. CASE Ends(r) /\ UNCHANGED <<space, project>>
  BY <1>3 DEF Types, SandboxTypes, HasSpace
<1>4. QED
  BY <1>2, <1>3 DEF BeginsSpace, lowest

(* Scripts are listed, saved, deleted or run, and a run ends.              *)
LEMMA ScriptStep ==
  ASSUME IInv, NEW r \in Requests, UsesScripts(r) \/ RunsScript(r) \/ EndsRun(r)
  PROVE  IInv'
<1> USE DEF IInv, Types
<1>1. by[r] \in Users
  BY Owner DEF UsesScripts, RunsScript, EndsRun, At
<1>2. UNCHANGED <<account, deletion, lock, late, faults>>
  BY DEF UsesScripts, RunsScript, EndsRun
<1>3. /\ space' \in [Users -> {"none", "making", "whole", "broken", "stray"}]
      /\ project' \in [Users -> 0 .. Capacity]
      /\ \A u \in Users : HasSpace(u)' <=> HasSpace(u)
      /\ \A u \in Users : HasSpace(u) => project'[u] = project[u]
  <2>1. CASE BeginsSpace(r)
    BY <1>1, <2>1, BeginsSpaceTyped
  <2>2. CASE UNCHANGED <<space, project>>
    BY <2>2 DEF SandboxTypes, HasSpace
  <2>3. QED
    BY <2>1, <2>2 DEF UsesScripts, RunsScript, EndsRun
<1>4. /\ at[r] \in {"script", "run", "running"}
      /\ \/ Goes(r, "making") /\ UNCHANGED job /\ at[r] # "running"
         \/ Ends(r) /\ UNCHANGED job /\ at[r] # "running"
         \/ Goes(r, "running") /\ job = NoOne /\ job' = r
         \/ Ends(r) /\ job' = NoOne /\ at[r] = "running"
  BY <1>1, BeginsSpaceTyped DEF UsesScripts, RunsScript, EndsRun, At
<1>5. RequestTypes'
  BY <1>2, <1>4, NoOneAssumption DEF Goes, Ends, RequestTypes, AtWork, Places
<1>6. JobRuns' /\ job' \in Requests \cup {NoOne}
  BY <1>4, NoOneAssumption DEF Goes, Ends, RequestTypes, SandboxTypes, JobRuns, At, AtWork
<1>7. WorkersHoldSlot'
  BY <1>2, <1>4 DEF Goes, Ends, RequestTypes, WorkersHoldSlot, At, AtWork, account
<1>8. AccountTypes' /\ DeletionTypes' /\ SessionsAreCurrent'
  BY <1>2 DEF AccountTypes, DeletionTypes, SessionsAreCurrent, account, deletion
<1>9. SandboxTypes' /\ ProjectsDiffer'
  BY <1>2, <1>3, <1>6 DEF SandboxTypes, ProjectsDiffer
<1>10. SpaceGoes'
  BY <1>2, <1>3 DEF SpaceGoes, RemovedOrLate, DeletedInactive, NoSpaceLeftBehind, account, deletion
<1>11. QED
  BY <1>5, <1>6, <1>7, <1>8, <1>9, <1>10

(* A space is made; it is late if the deletion of its account has begun.   *)
LEMMA MakingStep ==
  ASSUME IInv, NEW r \in Requests, MakesSpace(r)
  PROVE  IInv'
<1> USE DEF IInv, Types
<1>1. by[r] \in Users
  BY Owner DEF MakesSpace, At
<1>2. UNCHANGED <<account, deletion, lock, project, job>>
  BY DEF MakesSpace
<1>3. RequestTypes' /\ JobRuns' /\ WorkersHoldSlot'
  BY <1>2, NoOneAssumption
     DEF MakesSpace, Ends, At, AtWork, RequestTypes, Places, JobRuns, WorkersHoldSlot, account
<1>4. AccountTypes' /\ DeletionTypes' /\ SessionsAreCurrent'
  BY <1>2 DEF AccountTypes, DeletionTypes, SessionsAreCurrent, account, deletion
<1>5. CASE /\ ~Taken(by[r]) /\ space' = [space EXCEPT ![by[r]] = "whole"]
           /\ late' = IF active[by[r]] /\ deleting[by[r]] = "idle" THEN late ELSE late \cup {by[r]}
           /\ UNCHANGED faults
  <2>1. SandboxTypes'
    BY <1>1, <1>2, <1>5 DEF SandboxTypes
  <2>2. ProjectsDiffer'
    BY <1>1, <1>2, <1>5 DEF SandboxTypes, ProjectsDiffer, HasSpace, Taken
  <2>3. SpaceGoes'
    BY <1>1, <1>2, <1>5 DEF SpaceGoes, RemovedOrLate, DeletedInactive, NoSpaceLeftBehind, HasSpace,
       SandboxTypes, account, deletion
  <2>4. QED
    BY <1>3, <1>4, <2>1, <2>2, <2>3
<1>6. CASE space' = [space EXCEPT ![by[r]] = "stray"] /\ UNCHANGED late
  <2>1. faults' \in 0 .. MaxFaults
    BY BoundsAssumption DEF MakesSpace, Fault, SandboxTypes
  <2>2. SandboxTypes' /\ ProjectsDiffer'
    BY <1>1, <1>2, <1>6, <2>1 DEF SandboxTypes, ProjectsDiffer, HasSpace
  <2>3. SpaceGoes'
    BY <1>1, <1>2, <1>6 DEF SpaceGoes, RemovedOrLate, DeletedInactive, NoSpaceLeftBehind, HasSpace,
       SandboxTypes, account, deletion
  <2>4. QED
    BY <1>3, <1>4, <2>2, <2>3
<1>7. QED
  BY <1>5, <1>6 DEF MakesSpace

(* The sandbox restarts: what ran there is gone.                           *)
LEMMA RestartStep ==
  ASSUME IInv, SandboxRestarts
  PROVE  IInv'
<1> USE DEF IInv, Types
<1>1. UNCHANGED <<account, deletion, lock, project, late>>
  BY DEF SandboxRestarts
<1>2. AccountTypes' /\ DeletionTypes' /\ SessionsAreCurrent'
  BY <1>1 DEF AccountTypes, DeletionTypes, SessionsAreCurrent, account, deletion
<1>3. RequestTypes' /\ JobRuns' /\ WorkersHoldSlot'
  BY <1>1, NoOneAssumption
     DEF SandboxRestarts, At, AtWork, RequestTypes, Places, JobRuns, WorkersHoldSlot, account
<1>4. SandboxTypes' /\ ProjectsDiffer'
  BY <1>1, BoundsAssumption DEF SandboxRestarts, Fault, SandboxTypes, ProjectsDiffer, HasSpace
<1>5. SpaceGoes'
  BY <1>1 DEF SandboxRestarts, SpaceGoes, RemovedOrLate, DeletedInactive, NoSpaceLeftBehind, HasSpace,
     SandboxTypes, account, deletion
<1>6. QED
  BY <1>2, <1>3, <1>4, <1>5

-----------------------------------------------------------------------------
(* Deletion.                                                               *)

(* An account is deactivated.                                              *)
LEMMA DeactivationStep ==
  ASSUME IInv, NEW u \in Users, Deactivates(u)
  PROVE  IInv'
<1> USE DEF IInv, Types
<1>1. UNCHANGED <<row, guest, temporary, epoch, at, by, lock, sandbox>>
  BY DEF Deactivates
<1>2. AccountTypes' /\ SessionsAreCurrent'
  BY ChangedAccount DEF Deactivates, AccountTypes, SessionsAreCurrent
<1>3. DeletionTypes'
  BY DEF Deactivates, DeletionTypes
<1>4. RequestTypes' /\ SandboxTypes' /\ ProjectsDiffer' /\ JobRuns' /\ WorkersHoldSlot'
  BY <1>1 DEF RequestTypes, SandboxTypes, ProjectsDiffer, JobRuns, WorkersHoldSlot, At, AtWork, HasSpace,
     sandbox
<1>5. SpaceGoes'
  BY <1>1 DEF Deactivates, SpaceGoes, AccountTypes, DeletionTypes, RemovedOrLate, DeletedInactive,
     NoSpaceLeftBehind, HasSpace, sandbox
<1>6. QED
  BY <1>2, <1>3, <1>4, <1>5

(* The space is removed, or not: it is a guest's, the sandbox is busy, or  *)
(* something fails.                                                        *)
LEMMA RemovalStep ==
  ASSUME IInv, NEW u \in Users, RefusesGuest(u) \/ FindsSandboxBusy(u) \/ RemovesSpace(u)
  PROVE  IInv'
<1> USE DEF IInv, Types
<1>1. UNCHANGED <<account, wanted, at, by, lock, late, job>>
  BY DEF RefusesGuest, FindsSandboxBusy, RemovesSpace, sandbox
<1>2. AccountTypes' /\ RequestTypes' /\ JobRuns' /\ WorkersHoldSlot' /\ SessionsAreCurrent'
  BY <1>1 DEF AccountTypes, RequestTypes, JobRuns, WorkersHoldSlot, SessionsAreCurrent, At, AtWork, account
<1>3. DeletionTypes'
  BY <1>1 DEF RefusesGuest, FindsSandboxBusy, RemovesSpace, Defers, DeletionTypes
<1>4. faults' \in 0 .. MaxFaults
  BY BoundsAssumption DEF RefusesGuest, FindsSandboxBusy, RemovesSpace, Fault, SandboxTypes, sandbox
<1>5. CASE RefusesGuest(u) \/ FindsSandboxBusy(u)
  BY <1>1, <1>2, <1>3, <1>5
     DEF RefusesGuest, FindsSandboxBusy, Defers, SandboxTypes, ProjectsDiffer, DeletionTypes, SpaceGoes,
     RemovedOrLate, DeletedInactive, NoSpaceLeftBehind, HasSpace, account, sandbox
<1>6. CASE /\ space' = [space EXCEPT ![u] = IF HasSpace(u) THEN "none" ELSE @]
           /\ project' = [project EXCEPT ![u] = IF HasSpace(u) THEN 0 ELSE @]
           /\ \E place \in {"rows", "idle"} : deleting' = [deleting EXCEPT ![u] = place]
  <2>1. SandboxTypes' /\ ProjectsDiffer'
    BY <1>1, <1>4, <1>6, BoundsAssumption DEF SandboxTypes, ProjectsDiffer, HasSpace
  <2>2. SpaceGoes'
    BY <1>1, <1>6 DEF SpaceGoes, SandboxTypes, DeletionTypes, RemovedOrLate, DeletedInactive,
       NoSpaceLeftBehind, HasSpace, account
  <2>3. QED
    BY <1>2, <1>3, <2>1, <2>2
<1>7. CASE /\ HasSpace(u) /\ Defers(u) /\ UNCHANGED project
           /\ \E s \in {"broken", space[u]} : space' = [space EXCEPT ![u] = s]
  <2>1. SandboxTypes' /\ ProjectsDiffer'
    BY <1>1, <1>4, <1>7 DEF SandboxTypes, ProjectsDiffer, HasSpace
  <2>2. SpaceGoes'
    BY <1>1, <1>7 DEF Defers, SpaceGoes, SandboxTypes, DeletionTypes, RemovedOrLate, DeletedInactive,
       NoSpaceLeftBehind, HasSpace, account
  <2>3. QED
    BY <1>2, <1>3, <2>1, <2>2
<1>8. QED
  BY <1>5, <1>6, <1>7 DEF RemovesSpace, Defers

(* The rows are deleted, the row of the slot among them.                   *)
LEMMA DeletionStep ==
  ASSUME IInv, NEW u \in Users, DeletesRows(u)
  PROVE  IInv'
<1> USE DEF IInv, Types
<1>1. UNCHANGED <<guest, temporary, epoch, wanted, at, by, sandbox>>
  BY DEF DeletesRows
<1>2. AccountTypes' /\ SessionsAreCurrent'
  BY ChangedAccount DEF DeletesRows, AccountTypes, SessionsAreCurrent
<1>3. DeletionTypes'
  BY DEF DeletesRows, DeletionTypes
<1>4. SandboxTypes' /\ ProjectsDiffer' /\ JobRuns'
  BY <1>1 DEF SandboxTypes, ProjectsDiffer, JobRuns, At, HasSpace, sandbox
<1>5. RequestTypes' /\ WorkersHoldSlot'
  BY <1>1 DEF DeletesRows, Busy, AccountTypes, RequestTypes, WorkersHoldSlot, At, AtWork
<1>6. SpaceGoes'
  BY <1>1 DEF DeletesRows, SpaceGoes, AccountTypes, DeletionTypes, RemovedOrLate, DeletedInactive,
     NoSpaceLeftBehind, HasSpace, sandbox
<1>7. QED
  BY <1>2, <1>3, <1>4, <1>5, <1>6

-----------------------------------------------------------------------------
(* The invariant holds at first.                                           *)
LEMMA InvariantInit == Init => IInv
BY NoOneAssumption, BoundsAssumption
   DEF Init, IInv, Types, AccountTypes, DeletionTypes, RequestTypes, SandboxTypes, ProjectsDiffer,
       JobRuns, Places, SpaceGoes, RemovedOrLate, DeletedInactive, NoSpaceLeftBehind,
       SessionsAreCurrent, WorkersHoldSlot, HasSpace, At, AtWork

(* Every step keeps it.                                                    *)
LEMMA InvariantStep == IInv /\ [Next]_vars => IInv'
<1> SUFFICES ASSUME IInv, [Next]_vars PROVE IInv'
  OBVIOUS
<1>1. ASSUME NEW u \in Users,
             Creates(u) \/ Updates(u) \/ ResetsPassword(u) \/ LogsIn(u) \/ Deletes(u)
      PROVE  IInv'
  BY <1>1, CreationStep, ChangeStep, SessionStep, DeactivationStep, RemovalStep, DeletionStep DEF Deletes
<1>2. ASSUME NEW s \in sessions, LogsOut(s) \/ \E r \in Requests : Authorises(r, s)
      PROVE  IInv'
  BY <1>2, SessionStep, AuthorisationStep
<1>3. ASSUME NEW r \in Requests, Proceeds(r)
      PROVE  IInv'
  BY <1>3, PasswordStep, SlotStep, ScriptStep, MakingStep DEF Proceeds
<1>4. CASE SandboxRestarts
  BY <1>4, RestartStep
<1>5. CASE UNCHANGED vars
  BY <1>5 DEF vars, IInv, Types, AccountTypes, DeletionTypes, RequestTypes, SandboxTypes,
       ProjectsDiffer, JobRuns, SpaceGoes, RemovedOrLate, DeletedInactive, NoSpaceLeftBehind,
       SessionsAreCurrent, WorkersHoldSlot, HasSpace, At, AtWork, account, deletion, sandbox
<1>6. QED
  BY <1>1, <1>2, <1>3, <1>4, <1>5 DEF Next

(* So it always holds.                                                     *)
THEOREM Invariance == Spec => []IInv
BY InvariantInit, InvariantStep, PTL DEF Spec

(* The variables have their types, no two accounts share a project, and    *)
(* the sandbox's lock is that of the one script that runs.                 *)
THEOREM TypeCorrect == Spec => []TypeOK
BY Invariance, TypeParts, PTL

(* No session outlives a change of its account's password, role or         *)
(* activation, nor the account.                                            *)
THEOREM SessionsStayCurrent == Spec => []SessionsAreCurrent
<1>1. IInv => SessionsAreCurrent
  BY DEF IInv
<1>2. QED
  BY Invariance, <1>1, PTL

(* Nobody works under the inference slot without having it, but for the    *)
(* requests of accounts that were deleted meanwhile.                       *)
THEOREM WorkersKeepTheirSlot == Spec => []WorkersHoldSlot
<1>1. IInv => WorkersHoldSlot
  BY DEF IInv
<1>2. QED
  BY Invariance, <1>1, PTL

(* A deleted account leaves a space in the sandbox only if a request of    *)
(* its own made it after the deletion began.                               *)
THEOREM DeletedLeaveNoSpace == Spec => []NoSpaceLeftBehind
<1>1. IInv => NoSpaceLeftBehind
  BY DEF IInv, SpaceGoes
<1>2. QED
  BY Invariance, <1>1, PTL
=============================================================================
