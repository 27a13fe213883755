---------------------------- MODULE GraphicsJobs ----------------------------
(***************************************************************************)
(* The threads of the graphics manager.  Requests submit jobs and may ask  *)
(* for a release, one worker runs the jobs, a watchdog releases a pipeline *)
(* nobody used for a while.  They share one lock for their bookkeeping     *)
(* (each critical section is a step), a second one that a release holds    *)
(* throughout, and the flock on the GPU, for which they compete with the   *)
(* model manager.                                                          *)
(*                                                                         *)
(* Definitions named Bug_... are mutated forms of the definition they come *)
(* before; no action uses them.                                            *)
(***************************************************************************)
EXTENDS Naturals, Sequences, FiniteSets

CONSTANTS
  Jobs, Engines,
  Owner,            \* the owner of each job
  None,             \* no job, no pipeline
  MaxQueue,         \* MAX_QUEUE
  MaxOwnerPending,  \* MAX_OWNER_PENDING
  Sdxl              \* SDXL_ENGINE, selected at first

ASSUME JobsAssumption ==
  /\ None \notin Jobs \cup Engines
  /\ Sdxl \in Engines
  /\ DOMAIN Owner = Jobs
  /\ MaxQueue \in Nat \ {0} /\ MaxOwnerPending \in Nat \ {0}

VARIABLES
  job,         \* the state of each job; "checked" is one whose engine was looked at
  engine,      \* the engine of each job
  pending,     \* the queue of the worker
  activeJob,   \* active_job
  pipeline,    \* the engine in the GPU: pipeline and loaded_engine
  selected,    \* selected_engine
  state,       \* the word status_payload shows
  flock,       \* the holder of the flock; by graphics: gpu_lock_handle
  worker,      \* where the worker is, and with which job
  release,     \* where each thread is in _release_pipeline
  overtaken    \* whether the worker has locked the GPU between two statements of
               \* a release that found nothing to release (a history variable)

vars == <<job, engine, pending, activeJob, pipeline, selected, state, flock, worker, release,
          overtaken>>

Releasers == {"worker", "watchdog", "request"}

Unfinished == {"queued", "waiting", "loading", "generating"}

TypeOK ==
  /\ job \in [Jobs -> {"new", "checked", "ready", "failed", "lost"} \cup Unfinished]
  /\ engine \in [Jobs -> Engines \cup {None}]
  /\ pending \in Seq(Jobs) /\ Len(pending) <= MaxQueue
  /\ activeJob \in Jobs \cup {None}
  /\ pipeline \in Engines \cup {None}
  /\ selected \in Engines
  /\ state \in {"cold", "queued", "waiting", "loading", "generating", "warm", "releasing", "error"}
  /\ flock \in {"free", "graphics", "manager"}
  /\ worker \in [at : {"idle", "taken", "flock", "inference", "construct", "generate",
                       "abort", "handler", "cleanup"}, job : Jobs \cup {None}]
  /\ release \in [Releasers -> {"none", "asked", "restore", "unlock", "close"}]
  /\ overtaken \in BOOLEAN

IdleWorker == [at |-> "idle", job |-> None]

Init ==
  /\ job = [j \in Jobs |-> "new"]
  /\ engine = [j \in Jobs |-> None]
  /\ pending = <<>>
  /\ activeJob = None /\ pipeline = None
  /\ selected = Sdxl
  /\ state = "cold"
  /\ flock = "free"
  /\ worker = IdleWorker
  /\ release = [t \in Releasers |-> "none"]
  /\ overtaken = FALSE

-----------------------------------------------------------------------------
(* Requests.                                                               *)

(* submit, up to the disk-space check: the engine was the selected one.    *)
ChecksEngine(j) ==
  /\ job[j] = "new"
  /\ engine' = [engine EXCEPT ![j] = selected]
  /\ job' = [job EXCEPT ![j] = "checked"]
  /\ UNCHANGED <<pending, activeJob, pipeline, selected, state, flock, worker, release, overtaken>>

OwnerPending(o) == Cardinality({k \in Jobs : Owner[k] = o /\ job[k] \in Unfinished})

Bug_NoQueueLimit(j) == OwnerPending(Owner[j]) < MaxOwnerPending

HasRoom(j) == OwnerPending(Owner[j]) < MaxOwnerPending /\ Len(pending) < MaxQueue

(* The rest of submit.                                                     *)
Submits(j) ==
  /\ job[j] = "checked"
  /\ HasRoom(j)
  /\ job' = [job EXCEPT ![j] = "queued"]
  /\ pending' = Append(pending, j)
  /\ state' = IF pipeline = None THEN "queued" ELSE "warm"
  /\ UNCHANGED <<engine, activeJob, pipeline, selected, flock, worker, release, overtaken>>

(* No space on the disk, too many jobs of this owner, or a full queue.     *)
SubmitRefused(j) ==
  /\ job[j] = "checked"
  /\ job' = [job EXCEPT ![j] = "new"]
  /\ engine' = [engine EXCEPT ![j] = None]
  /\ UNCHANGED <<pending, activeJob, pipeline, selected, state, flock, worker, release, overtaken>>

SelectsEngine(e) ==
  /\ activeJob = None /\ pending = <<>> /\ pipeline = None
  /\ selected' = e
  /\ UNCHANGED <<job, engine, pending, activeJob, pipeline, state, flock, worker, release, overtaken>>

Asks(t) == release[t] = "none" /\ release' = [release EXCEPT ![t] = "asked"]

(* release_now: asked whatever is loaded, also in a cold session.          *)
AsksRelease ==
  /\ activeJob = None /\ pending = <<>>
  /\ Asks("request")
  /\ UNCHANGED <<job, engine, pending, activeJob, pipeline, selected, state, flock, worker, overtaken>>

-----------------------------------------------------------------------------
(* _release_pipeline, step by step.                                        *)

Bug_NoSecondLook(t) == TRUE

(* The second look: a job that became active since is left alone, unless   *)
(* it is the worker that gives up its own load.                            *)
MayRelease(t) == activeJob = None \/ (t = "worker" /\ worker.at = "abort")

ReleaseLockFree == \A t \in Releasers : release[t] \in {"none", "asked"}

Goes(t, to) == release' = [release EXCEPT ![t] = to]

Bug_EarlyReturnKeepsLock == "stuck"

(* The release that leaves a job alone gives release_lock back.            *)
LeftAlone == "none"

ReleaseBegins(t) ==
  /\ release[t] = "asked" /\ ReleaseLockFree
  /\ IF MayRelease(t)
     THEN LET had == pipeline # None \/ flock = "graphics" IN
          /\ Goes(t, IF had THEN "restore" ELSE "unlock")
          /\ state' = IF had THEN "releasing" ELSE "cold"
          /\ pipeline' = None
     ELSE Goes(t, LeftAlone) /\ UNCHANGED <<state, pipeline, overtaken>>
  /\ UNCHANGED <<job, engine, pending, activeJob, selected, flock, worker, overtaken>>

(* _restore_text_model, as GpuResidency has it in full.                    *)
RestoreEnds(t) ==
  /\ release[t] = "restore"
  /\ Goes(t, "unlock")
  /\ UNCHANGED <<job, engine, pending, activeJob, pipeline, selected, state, flock, worker, overtaken>>

(* _release_gpu_lock: whatever handle is there by now.                     *)
Unlocks(t) ==
  /\ release[t] = "unlock"
  /\ Goes(t, "close")
  /\ flock' = IF flock = "graphics" THEN "free" ELSE flock
  /\ UNCHANGED <<job, engine, pending, activeJob, pipeline, selected, state, worker, overtaken>>

ReleaseEnds(t) ==
  /\ release[t] = "close"
  /\ Goes(t, "none")
  /\ state' = "cold"
  /\ UNCHANGED <<job, engine, pending, activeJob, pipeline, selected, flock, worker, overtaken>>

(* _watchdog_loop, once warm_until has passed.                             *)
WatchdogDecides ==
  /\ pipeline # None /\ activeJob = None /\ pending = <<>>
  /\ Asks("watchdog")
  /\ UNCHANGED <<job, engine, pending, activeJob, pipeline, selected, state, flock, worker, overtaken>>

-----------------------------------------------------------------------------
(* The worker.                                                             *)

Works(from, to) == worker.at = from /\ worker' = [worker EXCEPT !.at = to]

TakesJob ==
  /\ worker.at = "idle" /\ pending # <<>> /\ release["worker"] = "none"
  /\ worker' = [at |-> "taken", job |-> Head(pending)]
  /\ pending' = Tail(pending)
  /\ UNCHANGED <<job, engine, activeJob, pipeline, selected, state, flock, release, overtaken>>

Bug_AnyEngineWillDo(j) == IF pipeline = None THEN "flock" ELSE "generate"

NeededFor(j) ==
  CASE pipeline = None      -> "flock"
    [] pipeline = engine[j] -> "generate"
    [] OTHER                -> "construct"

(* _run_job becomes active, and looks at the pipeline, which then only it  *)
(* can change; _switch_pipeline drops the pipeline of the other engine.    *)
Activates ==
  LET j == worker.job
      next == NeededFor(j) IN
  /\ Works("taken", next)
  /\ activeJob' = j
  /\ pipeline' = IF next = "construct" THEN None ELSE pipeline
  /\ state' = CASE next = "flock" -> "waiting"
                [] next = "generate" -> "generating"
                [] OTHER -> "loading"
  /\ job' = [job EXCEPT ![j] = state']
  /\ UNCHANGED <<engine, pending, selected, flock, release, overtaken>>

(* _acquire_gpu_lock; nothing keeps a release that found nothing from      *)
(* going on to unlock what is locked here.                                 *)
LocksGpu ==
  /\ IF flock = "free"
       THEN /\ Works("flock", "inference") /\ flock' = "graphics"
            /\ overtaken' = (overtaken \/ \E t \in Releasers : release[t] = "unlock")
       ELSE Works("flock", "handler") /\ UNCHANGED <<flock, overtaken>>
  /\ UNCHANGED <<job, engine, pending, activeJob, pipeline, selected, state, release>>

(* _wait_for_text_inference saw the orchestrator idle.                     *)
InferenceIdle ==
  /\ Works("inference", "construct")
  /\ state' = "loading"
  /\ job' = [job EXCEPT ![worker.job] = "loading"]
  /\ UNCHANGED <<engine, pending, activeJob, pipeline, selected, flock, release, overtaken>>

(* A load, a switch of engine and a generation take seconds, the last two  *)
(* statements of a release do not: whoever is in them gets out before.     *)
OthersPrompt == \A t \in Releasers : release[t] \notin {"unlock", "close"}

Constructs ==
  /\ OthersPrompt
  /\ Works("construct", "generate")
  /\ pipeline' = engine[worker.job]
  /\ state' = "generating"
  /\ job' = [job EXCEPT ![worker.job] = "generating"]
  /\ UNCHANGED <<engine, pending, activeJob, selected, flock, release, overtaken>>

(* The orchestrator stays busy, a text model does not stop, or the         *)
(* pipeline does not load: the worker releases, by force.                  *)
LoadFails ==
  /\ worker.at \in {"inference", "construct"}
  /\ worker' = [worker EXCEPT !.at = "abort"]
  /\ Asks("worker")
  /\ UNCHANGED <<job, engine, pending, activeJob, pipeline, selected, state, flock, overtaken>>

LoadAborted ==
  /\ release["worker"] = "none"
  /\ Works("abort", "handler")
  /\ UNCHANGED <<job, engine, pending, activeJob, pipeline, selected, state, flock, release, overtaken>>

Generates ==
  /\ worker.at = "generate"
  /\ worker' = IdleWorker
  /\ job' = [job EXCEPT ![worker.job] = "ready"]
  /\ activeJob' = None
  /\ state' = "warm"
  /\ UNCHANGED <<engine, pending, pipeline, selected, flock, release, overtaken>>

GenerationFails ==
  /\ Works("generate", "handler")
  /\ UNCHANGED <<job, engine, pending, activeJob, pipeline, selected, state, flock, release, overtaken>>

Bug_StaysActive == activeJob

ActiveAfterFailure == None

(* The handler of _worker_loop.                                            *)
JobFails ==
  /\ Works("handler", "cleanup")
  /\ job' = [job EXCEPT ![worker.job] = "failed"]
  /\ activeJob' = ActiveAfterFailure
  /\ state' = IF pipeline # None THEN "warm" ELSE "error"
  /\ UNCHANGED <<engine, pending, pipeline, selected, flock, release, overtaken>>

CleansUp ==
  /\ worker.at = "cleanup"
  /\ worker' = IdleWorker
  /\ IF flock = "graphics" THEN Asks("worker") ELSE UNCHANGED release
  /\ UNCHANGED <<job, engine, pending, activeJob, pipeline, selected, state, flock, overtaken>>

-----------------------------------------------------------------------------
(* The model manager takes the flock for an operation and gives it back.   *)
ManagerLocks ==
  /\ flock = "free" /\ flock' = "manager"
  /\ UNCHANGED <<job, engine, pending, activeJob, pipeline, selected, state, worker, release, overtaken>>

ManagerUnlocks ==
  /\ flock = "manager" /\ flock' = "free"
  /\ UNCHANGED <<job, engine, pending, activeJob, pipeline, selected, state, worker, release, overtaken>>

(* The process dies and starts again: _load_persisted keeps the jobs that  *)
(* have an image and the selected engine.                                  *)
Restarts ==
  /\ job' = [j \in Jobs |-> CASE job[j] = "checked"     -> "new"
                             [] job[j] \in Unfinished  -> "lost"
                             [] OTHER                  -> job[j]]
  /\ pending' = <<>>
  /\ activeJob' = None /\ pipeline' = None
  /\ state' = "cold"
  /\ flock' = IF flock = "graphics" THEN "free" ELSE flock
  /\ worker' = IdleWorker
  /\ release' = [t \in Releasers |-> "none"]
  /\ UNCHANGED <<engine, selected, overtaken>>

WorkerStep ==
  \/ TakesJob \/ Activates \/ LocksGpu \/ InferenceIdle \/ Constructs
  \/ LoadFails \/ LoadAborted \/ Generates \/ GenerationFails \/ JobFails \/ CleansUp

ReleaseStep(t) == ReleaseBegins(t) \/ RestoreEnds(t) \/ Unlocks(t) \/ ReleaseEnds(t)

Next ==
  \/ \E j \in Jobs : ChecksEngine(j) \/ Submits(j) \/ SubmitRefused(j)
  \/ \E e \in Engines : SelectsEngine(e)
  \/ AsksRelease \/ WatchdogDecides
  \/ WorkerStep
  \/ \E t \in Releasers : ReleaseStep(t)
  \/ ManagerLocks \/ ManagerUnlocks \/ Restarts

Spec == Init /\ [][Next]_vars

(* The two threads go on; all they wait for has a timeout.                 *)
FairSpec ==
  /\ Spec
  /\ WF_vars(WorkerStep) /\ WF_vars(WatchdogDecides)
  /\ \A t \in Releasers : WF_vars(ReleaseStep(t))

-----------------------------------------------------------------------------
(* Properties.                                                             *)

(* While an image is generated the pipeline of its own engine is in the    *)
(* GPU: no watchdog and no request releases it under the job, though both  *)
(* look before the worker has said which job it took.                      *)
GeneratesWithItsEngine == worker.at = "generate" => pipeline = engine[worker.job]

(* When all threads rest, status_payload says "warm" if and only if a      *)
(* pipeline is loaded; releases and jobs write the word over each other.   *)
Resting ==
  /\ worker.at = "idle" /\ pending = <<>>
  /\ \A t \in Releasers : release[t] = "none"

StateTellsTruth == Resting => (state = "warm" <=> pipeline # None)

(* Every job that was accepted ends, with an image, an error or a restart. *)
EveryJobEnds == \A j \in Jobs : job[j] \in Unfinished ~> job[j] \notin Unfinished

(* Every session of graphics gives the GPU back in the end.                   *)
SessionEnds == flock = "graphics" ~> flock # "graphics"

(* "One GPU lock": the pipeline is in the GPU only under the flock.        *)
PipelineUnderFlock == pipeline # None => flock = "graphics"

(* The pipeline is accounted for, to the model manager by the flock and to *)
(* everybody else by the state, though four threads write both; until a    *)
(* release overtaken by a load gives the flock of that load back.          *)
PipelineAccounted == ~overtaken => PipelineUnderFlock /\ StateTellsTruth
=============================================================================
