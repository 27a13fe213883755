-------------------------- MODULE GraphicsJobsProofs --------------------------
(***************************************************************************)
(* Proofs about GraphicsJobs for any jobs, owners, engines and limits.     *)
(***************************************************************************)
EXTENDS GraphicsJobs, TLAPS

JobTypes ==
  /\ job \in [Jobs -> {"new", "checked", "ready", "failed", "lost"} \cup Unfinished]
  /\ engine \in [Jobs -> Engines \cup {None}]

PendingTypes == pending \in Seq(Jobs) /\ Len(pending) <= MaxQueue

SessionTypes ==
  /\ activeJob \in Jobs \cup {None}
  /\ pipeline \in Engines \cup {None} /\ selected \in Engines
  /\ state \in {"cold", "queued", "waiting", "loading", "generating", "warm", "releasing", "error"}
  /\ flock \in {"free", "graphics", "manager"}
  /\ overtaken \in BOOLEAN

WorkerPlaces ==
  {"idle", "taken", "flock", "inference", "construct", "generate", "abort", "handler", "cleanup"}

ThreadTypes ==
  /\ worker \in [at : WorkerPlaces, job : Jobs \cup {None}]
  /\ release \in [Releasers -> {"none", "asked", "restore", "unlock", "close"}]

Types == JobTypes /\ PendingTypes /\ SessionTypes /\ ThreadTypes

(* The parts are what TypeOK says.                                         *)
LEMMA TypeParts == TypeOK <=> Types
BY DEF TypeOK, Types, JobTypes, PendingTypes, SessionTypes, ThreadTypes, WorkerPlaces

-----------------------------------------------------------------------------
(* The inductive invariant.                                                *)

(* Between two jobs none is active; then it is the worker's.               *)
BetweenJobs == worker.at \in {"idle", "taken", "cleanup"}

ActiveIsTheWorkers ==
  /\ worker.at # "idle" => worker.job \in Jobs
  /\ activeJob = IF BetweenJobs THEN None ELSE worker.job

(* A job that was accepted keeps its engine.                               *)
Accepted(j) == job[j] \notin {"new", "checked"}

JobsHaveEngines ==
  /\ \A j \in Jobs : job[j] # "new" => engine[j] \in Engines
  /\ \A i \in DOMAIN pending : Accepted(pending[i])
  /\ worker.at # "idle" => Accepted(worker.job)

(* A release that has begun holds release_lock.                            *)
Releases(t) == release[t] \in {"restore", "unlock", "close"}

OneReleases == \A s, t \in Releasers : Releases(s) /\ Releases(t) => s = t

(* Unless a load has overtaken a release, what releases has taken the      *)
(* pipeline out, and gives the flock back before a job asks for it again;  *)
(* it restores the text model under the flock.                             *)
ReleasesAlone ==
  \A t \in Releasers :
    /\ Releases(t) => pipeline = None
    /\ release[t] \in {"restore", "unlock"} => worker.at \notin {"inference", "construct", "generate"}
    /\ release[t] = "restore" => flock = "graphics"

(* A job loads its pipeline under the flock.                               *)
LoadsUnderFlock == worker.at \in {"inference", "construct"} => flock = "graphics"

(* The state tells the truth between two jobs, whoever rests.              *)
TruthBetweenJobs == BetweenJobs => (state = "warm" <=> pipeline # None)

Accounts == PipelineUnderFlock /\ ReleasesAlone /\ LoadsUnderFlock /\ TruthBetweenJobs

IInv ==
  /\ TypeOK /\ ActiveIsTheWorkers /\ JobsHaveEngines /\ GeneratesWithItsEngine
  /\ OneReleases /\ (~overtaken => Accounts)

-----------------------------------------------------------------------------
(* Types.                                                                  *)

(* Every step keeps the types of the jobs and of the session.              *)
LEMMA TypesStep ==
  ASSUME IInv, Next
  PROVE  TypeOK'
<1> USE DEF IInv, Unfinished, Types, JobTypes, SessionTypes, ThreadTypes
<1> SUFFICES Types'
  BY DEF TypeOK, Types, JobTypes, PendingTypes, SessionTypes, ThreadTypes, WorkerPlaces
<1>1. Types
  BY TypeParts
<1>2. worker.at # "idle" => worker.job \in Jobs
  BY DEF ActiveIsTheWorkers
<1>3. ASSUME NEW j \in Jobs, ChecksEngine(j) \/ Submits(j) \/ SubmitRefused(j)
      PROVE  Types'
  <2>1. CASE ChecksEngine(j) \/ SubmitRefused(j)
    BY <1>1, <2>1 DEF ChecksEngine, SubmitRefused, PendingTypes
  <2>2. CASE Submits(j)
    <3>1. Append(pending, j) \in Seq(Jobs) /\ Len(Append(pending, j)) = Len(pending) + 1
      BY <1>1 DEF PendingTypes
    <3>2. Len(pending) \in Nat /\ Len(pending) < MaxQueue
      BY <1>1, <2>2 DEF PendingTypes, Submits, HasRoom
    <3>3. PendingTypes'
      BY <2>2, <3>1, <3>2, JobsAssumption DEF Submits, PendingTypes
    <3>4. QED
      BY <1>1, <2>2, <3>3 DEF Submits
  <2>3. QED
    BY <1>3, <2>1, <2>2
<1>4. CASE TakesJob
  <2>1. Head(pending) \in Jobs /\ Tail(pending) \in Seq(Jobs) /\ Len(Tail(pending)) = Len(pending) - 1
    BY <1>1, <1>4 DEF PendingTypes, TakesJob
  <2>2. PendingTypes'
    BY <1>1, <1>4, <2>1, JobsAssumption DEF TakesJob, PendingTypes
  <2>3. QED
    BY <1>1, <1>4, <2>1, <2>2 DEF TakesJob, WorkerPlaces
<1>5. CASE Restarts
  <2>1. PendingTypes'
    BY <1>5, JobsAssumption DEF Restarts, PendingTypes
  <2>2. JobTypes' /\ SessionTypes' /\ ThreadTypes'
    BY <1>1, <1>5 DEF Restarts, IdleWorker, WorkerPlaces, Releasers
  <2>3. QED
    BY <2>1, <2>2
<1>6. CASE \/ \E e \in Engines : SelectsEngine(e)
           \/ AsksRelease \/ WatchdogDecides \/ ManagerLocks \/ ManagerUnlocks
  BY <1>1, <1>6 DEF SelectsEngine, AsksRelease, WatchdogDecides, ManagerLocks, ManagerUnlocks, Asks, PendingTypes
<1>7. CASE \E t \in Releasers : ReleaseStep(t)
  BY <1>1, <1>7 DEF ReleaseStep, ReleaseBegins, RestoreEnds, Unlocks, ReleaseEnds, Goes, LeftAlone, PendingTypes
<1>8. CASE WorkerStep /\ ~TakesJob
  <2>1. PendingTypes' /\ UNCHANGED <<pending, engine, selected>>
    BY <1>1, <1>8 DEF WorkerStep, Activates, LocksGpu, InferenceIdle, Constructs, LoadFails, LoadAborted,
       Generates, GenerationFails, JobFails, CleansUp, PendingTypes
  <2>2. CASE Activates
    BY <1>1, <1>2, <2>1, <2>2 DEF Activates, Works, NeededFor, WorkerPlaces
  <2>3. CASE LocksGpu \/ InferenceIdle \/ LoadFails \/ LoadAborted
    BY <1>1, <1>2, <2>1, <2>3 DEF LocksGpu, InferenceIdle, LoadFails, LoadAborted, Works, Asks, WorkerPlaces
  <2>4. CASE Constructs \/ Generates
    BY <1>1, <1>2, <2>1, <2>4 DEF Constructs, Generates, Works, IdleWorker, WorkerPlaces
  <2>5. CASE GenerationFails \/ JobFails \/ CleansUp
    BY <1>1, <1>2, <2>1, <2>5 DEF GenerationFails, JobFails, CleansUp, ActiveAfterFailure, Works, Asks, IdleWorker, WorkerPlaces
  <2>6. QED
    BY <1>8, <2>2, <2>3, <2>4, <2>5 DEF WorkerStep
<1>9. QED
  BY <1>3, <1>4, <1>5, <1>6, <1>7, <1>8 DEF Next

-----------------------------------------------------------------------------
(* The jobs.                                                               *)

(* What the other proofs use of the types.                                 *)
LEMMA JobFacts ==
  ASSUME IInv
  PROVE  /\ JobTypes /\ PendingTypes /\ SessionTypes /\ ThreadTypes
         /\ ActiveIsTheWorkers /\ JobsHaveEngines /\ GeneratesWithItsEngine
BY TypeParts DEF IInv, Types

(* Every step leaves the job that is active to the worker.                 *)
LEMMA ActiveStep ==
  ASSUME IInv, Next
  PROVE  ActiveIsTheWorkers'
<1>1. JobTypes /\ PendingTypes /\ SessionTypes /\ ThreadTypes /\ ActiveIsTheWorkers
  BY JobFacts
<1>2. CASE WorkerStep
  <2>1. CASE TakesJob
    <3>1. Head(pending) \in Jobs
      BY <1>1, <2>1 DEF PendingTypes, TakesJob
    <3>2. QED
      BY <1>1, <2>1, <3>1 DEF TakesJob, ActiveIsTheWorkers, BetweenJobs
  <2>2. CASE Activates
    BY <1>1, <2>2 DEF Activates, Works, NeededFor, ActiveIsTheWorkers, BetweenJobs, ThreadTypes
  <2>3. CASE LocksGpu \/ InferenceIdle \/ Constructs \/ LoadFails \/ LoadAborted \/ GenerationFails
    BY <1>1, <2>3 DEF LocksGpu, InferenceIdle, Constructs, LoadFails, LoadAborted, GenerationFails, Works,
       ActiveIsTheWorkers, BetweenJobs, ThreadTypes
  <2>4. CASE Generates \/ JobFails \/ CleansUp
    BY <1>1, <2>4 DEF Generates, JobFails, CleansUp, ActiveAfterFailure, Works, IdleWorker,
       ActiveIsTheWorkers, BetweenJobs, ThreadTypes
  <2>5. QED
    BY <1>2, <2>1, <2>2, <2>3, <2>4 DEF WorkerStep
<1>3. CASE Restarts
  BY <1>3 DEF Restarts, ActiveIsTheWorkers, BetweenJobs, IdleWorker
<1>4. CASE ~WorkerStep /\ ~Restarts
  <2>1. UNCHANGED <<worker, activeJob>>
    BY <1>4 DEF Next, ChecksEngine, Submits, SubmitRefused, SelectsEngine, AsksRelease, WatchdogDecides,
       ReleaseStep, ReleaseBegins, RestoreEnds, Unlocks, ReleaseEnds, ManagerLocks, ManagerUnlocks
  <2>2. QED
    BY <1>1, <2>1 DEF ActiveIsTheWorkers, BetweenJobs
<1>5. QED
  BY <1>2, <1>3, <1>4

(* Every step leaves the jobs that were accepted their engines.            *)
LEMMA EnginesStep ==
  ASSUME IInv, Next
  PROVE  JobsHaveEngines'
<1>1. JobTypes /\ PendingTypes /\ SessionTypes /\ ThreadTypes /\ ActiveIsTheWorkers /\ JobsHaveEngines
  BY JobFacts
<1>2. \A i \in DOMAIN pending : pending[i] \in Jobs
  BY <1>1 DEF PendingTypes
<1>3. worker.at # "idle" => worker.job \in Jobs
  BY <1>1 DEF ActiveIsTheWorkers
<1>4. ASSUME NEW j \in Jobs, ChecksEngine(j) \/ SubmitRefused(j)
      PROVE  JobsHaveEngines'
  BY <1>1, <1>2, <1>3, <1>4 DEF ChecksEngine, SubmitRefused, JobsHaveEngines, Accepted, JobTypes, SessionTypes
<1>5. ASSUME NEW j \in Jobs, Submits(j)
      PROVE  JobsHaveEngines'
  <2>1. \A i \in DOMAIN pending' : pending'[i] = j \/ (i \in DOMAIN pending /\ pending'[i] = pending[i])
    <3>1. pending \in Seq(Jobs) /\ pending' = Append(pending, j)
      BY <1>1, <1>5 DEF PendingTypes, Submits
    <3>2. /\ pending' \in Seq(Jobs) /\ Len(pending') = Len(pending) + 1 /\ Len(pending) \in Nat
          /\ \A i \in 1 .. Len(pending) + 1 : pending'[i] = IF i <= Len(pending) THEN pending[i] ELSE j
      BY <3>1
    <3>3. DOMAIN pending = 1 .. Len(pending) /\ DOMAIN pending' = 1 .. Len(pending')
      BY <3>1, <3>2
    <3>4. QED
      BY <3>2, <3>3
  <2>2. job' = [job EXCEPT ![j] = "queued"] /\ job[j] = "checked" /\ UNCHANGED <<engine, worker>>
    BY <1>5 DEF Submits
  <2>3. \A k \in Jobs : (Accepted(k) => Accepted(k)') /\ (job'[k] # "new" => job[k] # "new")
    BY <1>1, <2>2 DEF Accepted, JobTypes
  <2>4. Accepted(j)'
    BY <1>1, <2>2 DEF Accepted, JobTypes
  <2>5. QED
    BY <1>1, <1>2, <1>3, <2>1, <2>2, <2>3, <2>4 DEF JobsHaveEngines, Accepted
<1>6. CASE TakesJob
  <2>1. Accepted(Head(pending)) /\ \A i \in DOMAIN Tail(pending) : Accepted(Tail(pending)[i])
    BY <1>1, <1>6 DEF PendingTypes, TakesJob, JobsHaveEngines
  <2>2. QED
    BY <1>1, <1>6, <2>1 DEF TakesJob, JobsHaveEngines, Accepted
<1>7. CASE WorkerStep /\ ~TakesJob
  <2>1. UNCHANGED <<engine, pending>>
    BY <1>7 DEF WorkerStep, Activates, LocksGpu, InferenceIdle, Constructs, LoadFails, LoadAborted,
       Generates, GenerationFails, JobFails, CleansUp
  <2>2. worker.at # "idle" /\ worker'.job \in {worker.job, None} /\ (worker'.at # "idle" => worker'.job = worker.job)
    BY <1>1, <1>7 DEF WorkerStep, Activates, LocksGpu, InferenceIdle, Constructs, LoadFails, LoadAborted,
       Generates, GenerationFails, JobFails, CleansUp, Works, IdleWorker, NeededFor, ThreadTypes
  <2>3. job' = job \/ \E to \in {"ready", "failed"} \cup Unfinished : job' = [job EXCEPT ![worker.job] = to]
    BY <1>7 DEF WorkerStep, Activates, LocksGpu, InferenceIdle, Constructs, LoadFails, LoadAborted,
       Generates, GenerationFails, JobFails, CleansUp, NeededFor, Unfinished
  <2>4. \A j \in Jobs : (Accepted(j) => Accepted(j)') /\ (job'[j] # "new" => job[j] # "new")
    BY <1>1, <2>2, <2>3 DEF JobsHaveEngines, Accepted, JobTypes, Unfinished
  <2>5. QED
    BY <1>1, <1>2, <1>3, <2>1, <2>2, <2>4 DEF JobsHaveEngines, Accepted
<1>8. CASE Restarts
  <2>1. \A j \in Jobs : job'[j] # "new" => job[j] # "new"
    <3>1. ASSUME NEW j \in Jobs, job[j] = "new" PROVE job'[j] = "new"
      BY <1>8, <3>1 DEF Restarts, Unfinished
    <3>2. QED
      BY <3>1
  <2>2. engine' = engine /\ DOMAIN pending' = {} /\ worker'.at = "idle"
    BY <1>8 DEF Restarts, IdleWorker
  <2>3. QED
    BY <1>1, <2>1, <2>2 DEF JobsHaveEngines
<1>9. CASE \/ \E e \in Engines : SelectsEngine(e)
           \/ AsksRelease \/ WatchdogDecides \/ ManagerLocks \/ ManagerUnlocks
           \/ \E t \in Releasers : ReleaseStep(t)
  <2>1. UNCHANGED <<job, engine, pending, worker>>
    BY <1>9 DEF SelectsEngine, AsksRelease, WatchdogDecides,
       ReleaseStep, ReleaseBegins, RestoreEnds, Unlocks, ReleaseEnds, ManagerLocks, ManagerUnlocks
  <2>2. QED
    BY <1>1, <2>1 DEF JobsHaveEngines, Accepted
<1>10. QED
  BY <1>4, <1>5, <1>6, <1>7, <1>8, <1>9 DEF Next

-----------------------------------------------------------------------------
(* The pipeline.                                                           *)

(* A step of the worker that is not named leaves it where it is.           *)
LEMMA WorkerStays ==
  ASSUME Next, ~WorkerStep, ~Restarts
  PROVE  UNCHANGED <<worker, activeJob, overtaken>>
BY DEF Next, ChecksEngine, Submits, SubmitRefused, SelectsEngine, AsksRelease, WatchdogDecides,
   ReleaseStep, ReleaseBegins, RestoreEnds, Unlocks, ReleaseEnds, ManagerLocks, ManagerUnlocks

(* A release takes no pipeline from a job that generates.                  *)
LEMMA GeneratesStep ==
  ASSUME IInv, Next
  PROVE  GeneratesWithItsEngine'
<1>1. JobTypes /\ SessionTypes /\ ThreadTypes /\ ActiveIsTheWorkers /\ JobsHaveEngines /\ GeneratesWithItsEngine
  BY JobFacts
<1>2. SUFFICES ASSUME worker'.at = "generate" PROVE pipeline' = engine'[worker'.job]
  BY DEF GeneratesWithItsEngine
<1>3. CASE WorkerStep
  <2>1. Activates \/ Constructs
    BY <1>1, <1>2, <1>3 DEF WorkerStep, TakesJob, LocksGpu, InferenceIdle, LoadFails, LoadAborted,
       Generates, GenerationFails, JobFails, CleansUp, Works, IdleWorker, ThreadTypes
  <2>2. CASE Activates
    BY <1>1, <1>2, <2>2 DEF Activates, NeededFor, Works, ThreadTypes
  <2>3. CASE Constructs
    BY <1>1, <2>3 DEF Constructs, Works, ThreadTypes
  <2>4. QED
    BY <2>1, <2>2, <2>3
<1>4. CASE ~WorkerStep
  <2>1. ~Restarts
    BY <1>2 DEF Restarts, IdleWorker
  <2>2. UNCHANGED <<worker, activeJob>>
    BY <1>4, <2>1, WorkerStays
  <2>3. worker.job \in Jobs /\ activeJob # None /\ Accepted(worker.job)
    BY <1>1, <1>2, <2>2, JobsAssumption DEF ActiveIsTheWorkers, BetweenJobs, JobsHaveEngines
  <2>4. engine'[worker.job] = engine[worker.job]
    BY <1>1, <1>4, <2>1, <2>3 DEF Next, Accepted, JobTypes, ChecksEngine, Submits, SubmitRefused, SelectsEngine, AsksRelease,
       WatchdogDecides, ReleaseStep, ReleaseBegins, RestoreEnds, Unlocks, ReleaseEnds, ManagerLocks, ManagerUnlocks
  <2>5. UNCHANGED pipeline
    BY <1>2, <1>4, <2>1, <2>2, <2>3 DEF Next, ChecksEngine, Submits, SubmitRefused, SelectsEngine, AsksRelease,
       WatchdogDecides, ReleaseStep, ReleaseBegins, RestoreEnds, Unlocks, ReleaseEnds, ManagerLocks, ManagerUnlocks,
       MayRelease
  <2>6. QED
    BY <1>1, <1>2, <2>2, <2>4, <2>5 DEF GeneratesWithItsEngine
<1>5. QED
  BY <1>3, <1>4

(* One release at a time.                                                  *)
LEMMA OneReleaseStep ==
  ASSUME IInv, Next
  PROVE  OneReleases'
<1>1. ThreadTypes /\ OneReleases
  BY JobFacts DEF IInv
<1>2. ASSUME NEW t \in Releasers, ReleaseStep(t)
      PROVE  OneReleases'
  BY <1>1, <1>2 DEF ReleaseStep, ReleaseBegins, RestoreEnds, Unlocks, ReleaseEnds, Goes, LeftAlone, ReleaseLockFree,
     OneReleases, Releases, ThreadTypes
<1>3. CASE Restarts
  BY <1>3 DEF Restarts, OneReleases, Releases
<1>4. CASE ~Restarts /\ ~\E t \in Releasers : ReleaseStep(t)
  <2>1. \A t \in Releasers : release'[t] \in {release[t], "asked"}
    BY <1>1, <1>4 DEF Next, WorkerStep, ChecksEngine, Submits, SubmitRefused, SelectsEngine, AsksRelease, WatchdogDecides,
       TakesJob, Activates, LocksGpu, InferenceIdle, Constructs, LoadFails, LoadAborted, Generates, GenerationFails,
       JobFails, CleansUp, ManagerLocks, ManagerUnlocks, Asks, ThreadTypes
  <2>2. QED
    BY <1>1, <2>1 DEF OneReleases, Releases
<1>5. QED
  BY <1>2, <1>3, <1>4

(* A step that leaves the pipeline, the flock and the releases that have   *)
(* begun alone, and the worker where it is, keeps the accounts.            *)
LEMMA AccountsKept ==
  ASSUME Accounts, UNCHANGED <<pipeline, flock, worker>>,
         \A t \in Releasers : release'[t] \in {release[t], "asked"},
         state' = state \/ (state' = "warm" <=> pipeline # None)
  PROVE  Accounts'
BY DEF Accounts, PipelineUnderFlock, ReleasesAlone, LoadsUnderFlock, TruthBetweenJobs, BetweenJobs, Releases

(* Requests, the watchdog and the model manager keep the accounts.         *)
LEMMA OthersAccount ==
  ASSUME IInv, Accounts,
         \/ \E j \in Jobs : ChecksEngine(j) \/ Submits(j) \/ SubmitRefused(j)
         \/ \E e \in Engines : SelectsEngine(e)
         \/ AsksRelease \/ WatchdogDecides \/ ManagerLocks \/ ManagerUnlocks
  PROVE  Accounts'
<1>1. ThreadTypes
  BY JobFacts
<1>2. CASE \/ \E j \in Jobs : ChecksEngine(j) \/ Submits(j) \/ SubmitRefused(j)
           \/ \E e \in Engines : SelectsEngine(e)
           \/ AsksRelease \/ WatchdogDecides
  <2>1. \A t \in Releasers : release'[t] \in {release[t], "asked"}
    BY <1>1, <1>2 DEF ChecksEngine, Submits, SubmitRefused, SelectsEngine, AsksRelease, WatchdogDecides, Asks, ThreadTypes
  <2>2. UNCHANGED <<pipeline, flock, worker>> /\ (state' = state \/ (state' = "warm" <=> pipeline # None))
    BY <1>2 DEF ChecksEngine, Submits, SubmitRefused, SelectsEngine, AsksRelease, WatchdogDecides
  <2>3. QED
    BY <2>1, <2>2, AccountsKept
<1>3. CASE ManagerLocks \/ ManagerUnlocks
  BY <1>3 DEF ManagerLocks, ManagerUnlocks, Accounts, PipelineUnderFlock, ReleasesAlone, LoadsUnderFlock,
     TruthBetweenJobs, BetweenJobs, Releases
<1>4. QED
  BY <1>2, <1>3

(* A release keeps the accounts, step by step.                             *)
LEMMA ReleaseAccounts ==
  ASSUME IInv, Accounts, NEW t \in Releasers, ReleaseStep(t)
  PROVE  Accounts'
<1>1. ThreadTypes /\ SessionTypes /\ OneReleases /\ ActiveIsTheWorkers
  BY JobFacts DEF IInv
<1>2. worker' = worker /\ (BetweenJobs' <=> BetweenJobs)
  BY DEF ReleaseStep, ReleaseBegins, RestoreEnds, Unlocks, ReleaseEnds, BetweenJobs
<1>3. \A s \in Releasers \ {t} : release'[s] = release[s]
  BY <1>1 DEF ReleaseStep, ReleaseBegins, RestoreEnds, Unlocks, ReleaseEnds, Goes, ThreadTypes
<1>4. CASE ReleaseBegins(t) /\ MayRelease(t)
  <2>1. worker.at \notin {"inference", "construct", "generate"}
    BY <1>1, <1>4, JobsAssumption DEF MayRelease, ActiveIsTheWorkers, BetweenJobs
  <2>2. pipeline' = None /\ flock' = flock /\ state' # "warm"
    BY <1>4 DEF ReleaseBegins
  <2>3. release'[t] = "restore" => flock = "graphics"
    BY <1>1, <1>4 DEF ReleaseBegins, Goes, ThreadTypes, Accounts, PipelineUnderFlock
  <2>4. \A s \in Releasers : Releases(s)' => s = t
    BY <1>3, <1>4 DEF ReleaseBegins, ReleaseLockFree, Releases
  <2>5. QED
    BY <1>2, <2>1, <2>2, <2>3, <2>4 DEF Accounts, PipelineUnderFlock, ReleasesAlone, LoadsUnderFlock, TruthBetweenJobs,
       Releases
<1>5. CASE ReleaseBegins(t) /\ ~MayRelease(t)
  <2>1. UNCHANGED <<pipeline, flock, state>> /\ release'[t] = "none"
    BY <1>1, <1>5 DEF ReleaseBegins, Goes, LeftAlone, ThreadTypes
  <2>2. QED
    BY <1>2, <1>3, <2>1 DEF Accounts, PipelineUnderFlock, ReleasesAlone, LoadsUnderFlock, TruthBetweenJobs, Releases
<1>6. CASE RestoreEnds(t)
  <2>1. UNCHANGED <<pipeline, flock, state>> /\ release[t] = "restore" /\ release'[t] = "unlock"
    BY <1>1, <1>6 DEF RestoreEnds, Goes, ThreadTypes
  <2>2. QED
    BY <1>2, <1>3, <2>1 DEF Accounts, PipelineUnderFlock, ReleasesAlone, LoadsUnderFlock, TruthBetweenJobs, Releases
<1>7. CASE Unlocks(t)
  <2>1. UNCHANGED <<pipeline, state>> /\ release[t] = "unlock" /\ release'[t] = "close"
    BY <1>1, <1>7 DEF Unlocks, Goes, ThreadTypes
  <2>2. pipeline = None /\ worker.at \notin {"inference", "construct", "generate"}
    BY <2>1 DEF Accounts, ReleasesAlone, Releases
  <2>3. \A s \in Releasers \ {t} : ~Releases(s)
    BY <1>1, <2>1 DEF OneReleases, Releases
  <2>4. QED
    BY <1>2, <1>3, <2>1, <2>2, <2>3 DEF Accounts, PipelineUnderFlock, ReleasesAlone, LoadsUnderFlock, TruthBetweenJobs, Releases
<1>8. CASE ReleaseEnds(t)
  <2>1. UNCHANGED <<pipeline, flock>> /\ release[t] = "close" /\ release'[t] = "none" /\ state' = "cold"
    BY <1>1, <1>8 DEF ReleaseEnds, Goes, ThreadTypes
  <2>2. pipeline = None
    BY <2>1 DEF Accounts, ReleasesAlone, Releases
  <2>3. QED
    BY <1>2, <1>3, <2>1, <2>2 DEF Accounts, PipelineUnderFlock, ReleasesAlone, LoadsUnderFlock, TruthBetweenJobs, Releases
<1>9. QED
  BY <1>4, <1>5, <1>6, <1>7, <1>8 DEF ReleaseStep

(* The worker keeps the accounts, unless it overtakes a release.           *)
LEMMA WorkerAccounts ==
  ASSUME IInv, Accounts, WorkerStep, ~overtaken'
  PROVE  Accounts'
<1>1. JobTypes /\ ThreadTypes /\ SessionTypes /\ ActiveIsTheWorkers /\ JobsHaveEngines /\ GeneratesWithItsEngine
  BY JobFacts
<1> USE DEF Accounts, PipelineUnderFlock, ReleasesAlone, LoadsUnderFlock, TruthBetweenJobs, BetweenJobs, Releases
<1>2. CASE TakesJob
  BY <1>2 DEF TakesJob
<1>3. CASE Activates
  <2>1. engine[worker.job] # None
    BY <1>1, <1>3, JobsAssumption DEF Activates, Works, ActiveIsTheWorkers, JobsHaveEngines, Accepted
  <2>2. NeededFor(worker.job) \in {"flock", "construct", "generate"}
        /\ (NeededFor(worker.job) # "flock" => pipeline # None)
    BY <2>1 DEF NeededFor
  <2>3. worker'.at = NeededFor(worker.job) /\ pipeline' \in {pipeline, None} /\ UNCHANGED <<flock, release>>
    BY <1>1, <1>3 DEF Activates, Works, ThreadTypes
  <2>4. QED
    BY <2>2, <2>3
<1>4. CASE LocksGpu
  <2>1. \A t \in Releasers : release[t] \notin {"restore", "unlock"} \/ worker'.at = "handler"
    BY <1>1, <1>4 DEF LocksGpu, Works, ThreadTypes, SessionTypes
  <2>2. worker'.at \in {"inference", "handler"} /\ (worker'.at = "inference" => flock' = "graphics")
    BY <1>1, <1>4 DEF LocksGpu, Works, ThreadTypes
  <2>3. pipeline' = pipeline /\ release' = release /\ (flock = "graphics" => flock' = flock)
    BY <1>4 DEF LocksGpu
  <2>4. QED
    BY <2>1, <2>2, <2>3
<1>5. CASE InferenceIdle
  BY <1>1, <1>5 DEF InferenceIdle, Works, ThreadTypes
<1>6. CASE Constructs
  <2>1. \A t \in Releasers : ~Releases(t)
    BY <1>1, <1>6 DEF Constructs, OthersPrompt, Works
  <2>2. worker'.at = "generate" /\ flock = "graphics" /\ UNCHANGED <<flock, release>>
    BY <1>1, <1>6 DEF Constructs, Works, ThreadTypes
  <2>3. QED
    BY <2>1, <2>2
<1>7. CASE LoadFails
  <2>1. worker'.at = "abort" /\ UNCHANGED <<pipeline, flock, state>> /\ \A t \in Releasers : release'[t] \in {release[t], "asked"}
    BY <1>1, <1>7 DEF LoadFails, Asks, ThreadTypes
  <2>2. QED
    BY <2>1
<1>8. CASE LoadAborted \/ GenerationFails
  BY <1>1, <1>8 DEF LoadAborted, GenerationFails, Works, ThreadTypes
<1>9. CASE Generates
  <2>1. worker'.at = "idle" /\ UNCHANGED <<pipeline, flock, release>> /\ state' = "warm"
    BY <1>9 DEF Generates, IdleWorker
  <2>2. pipeline # None
    BY <1>1, <1>9, JobsAssumption DEF Generates, GeneratesWithItsEngine, ActiveIsTheWorkers, JobsHaveEngines, Accepted
  <2>3. QED
    BY <2>1, <2>2
<1>10. CASE JobFails
  <2>1. worker'.at = "cleanup" /\ UNCHANGED <<pipeline, flock, release>> /\ state' = IF pipeline # None THEN "warm" ELSE "error"
    BY <1>1, <1>10 DEF JobFails, Works, ThreadTypes
  <2>2. QED
    BY <2>1
<1>11. CASE CleansUp
  <2>1. worker.at = "cleanup" /\ worker'.at = "idle" /\ UNCHANGED <<pipeline, flock, state>>
        /\ \A t \in Releasers : release'[t] \in {release[t], "asked"}
    BY <1>1, <1>11 DEF CleansUp, IdleWorker, Asks, ThreadTypes
  <2>2. QED
    BY <2>1
<1>12. QED
  BY <1>2, <1>3, <1>4, <1>5, <1>6, <1>7, <1>8, <1>9, <1>10, <1>11 DEF WorkerStep

(* Every step keeps the accounts until a load overtakes a release.         *)
LEMMA AccountsStep ==
  ASSUME IInv, Next, ~overtaken'
  PROVE  Accounts'
<1>1. ~overtaken
  <2>1. CASE WorkerStep
    BY <2>1 DEF WorkerStep, TakesJob, Activates, LocksGpu, InferenceIdle, Constructs, LoadFails, LoadAborted, Generates,
       GenerationFails, JobFails, CleansUp
  <2>2. CASE ~WorkerStep
    BY <2>2, WorkerStays DEF Restarts
  <2>3. QED
    BY <2>1, <2>2
<1>2. Accounts
  BY <1>1 DEF IInv
<1>3. CASE Restarts
  BY <1>3 DEF Restarts, IdleWorker, Accounts, PipelineUnderFlock, ReleasesAlone, LoadsUnderFlock, TruthBetweenJobs,
     BetweenJobs, Releases
<1>4. QED
  BY <1>2, <1>3, WorkerAccounts, ReleaseAccounts, OthersAccount DEF Next

-----------------------------------------------------------------------------
(* The invariant holds at first.                                           *)
LEMMA InvariantInit == Init => IInv
<1> SUFFICES ASSUME Init PROVE IInv
  OBVIOUS
<1>1. TypeOK
  <2>1. PendingTypes
    BY JobsAssumption DEF Init, PendingTypes
  <2>2. JobTypes /\ SessionTypes /\ ThreadTypes
    BY JobsAssumption DEF Init, JobTypes, SessionTypes, ThreadTypes, IdleWorker, WorkerPlaces, Unfinished
  <2>3. QED
    BY <2>1, <2>2, TypeParts DEF Types
<1>2. ActiveIsTheWorkers /\ JobsHaveEngines /\ GeneratesWithItsEngine /\ OneReleases
  BY DEF Init, ActiveIsTheWorkers, BetweenJobs, JobsHaveEngines, GeneratesWithItsEngine, OneReleases, Releases, IdleWorker
<1>3. Accounts
  BY DEF Init, Accounts, PipelineUnderFlock, ReleasesAlone, LoadsUnderFlock, TruthBetweenJobs, BetweenJobs, Releases,
     IdleWorker
<1>4. QED
  BY <1>1, <1>2, <1>3 DEF IInv

(* Every step keeps it.                                                    *)
LEMMA InvariantStep == IInv /\ [Next]_vars => IInv'
<1> SUFFICES ASSUME IInv, [Next]_vars PROVE IInv'
  OBVIOUS
<1>1. CASE Next
  BY <1>1, TypesStep, ActiveStep, EnginesStep, GeneratesStep, OneReleaseStep, AccountsStep DEF IInv
<1>2. CASE UNCHANGED vars
  BY <1>2 DEF vars, IInv, TypeOK, ActiveIsTheWorkers, BetweenJobs, JobsHaveEngines, Accepted, GeneratesWithItsEngine,
     OneReleases, Releases, Accounts, PipelineUnderFlock, ReleasesAlone, LoadsUnderFlock, TruthBetweenJobs
<1>3. QED
  BY <1>1, <1>2

(* So it always holds.                                                     *)
THEOREM Invariance == Spec => []IInv
BY InvariantInit, InvariantStep, PTL DEF Spec

(* The variables have their types; the queue stays within its limit.       *)
THEOREM TypeCorrect == Spec => []TypeOK
<1>1. IInv => TypeOK
  BY DEF IInv
<1>2. QED
  BY Invariance, <1>1, PTL

(* No watchdog and no request takes the pipeline from a job that           *)
(* generates, nor is it another engine's.                                  *)
THEOREM PipelineOfTheJob == Spec => []GeneratesWithItsEngine
<1>1. IInv => GeneratesWithItsEngine
  BY DEF IInv
<1>2. QED
  BY Invariance, <1>1, PTL

(* Until a load overtakes a release that found nothing to release, the     *)
(* pipeline is in the GPU under the flock only, and the state of a session *)
(* that rests tells whether it is.                                         *)
THEOREM AccountsTellTheTruth == Spec => []PipelineAccounted
<1>1. IInv => PipelineAccounted
  BY DEF IInv, Accounts, PipelineAccounted, StateTellsTruth, TruthBetweenJobs, BetweenJobs, Resting
<1>2. QED
  BY Invariance, <1>1, PTL
=============================================================================
