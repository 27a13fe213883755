---------------------------- MODULE GpuResidency ----------------------------
(***************************************************************************)
(* Who is resident in the one GPU: the model units that systemd runs, and  *)
(* the diffusion pipeline inside the graphics manager.  Two processes move *)
(* them, the model manager (switch, restore, OCR, boot) and the graphics   *)
(* manager (load, release, boot), and keep clear of each other with a      *)
(* flock that the kernel frees when its holder dies.  model_state.json     *)
(* says which text model is active; the orchestrator sends chats to it.    *)
(*                                                                         *)
(* systemctl stop waits until the unit is gone, and always succeeds        *)
(* (TimeoutStopSec is below the callers' timeouts), so a run of stops is   *)
(* one step; systemctl start does not wait for the units it displaces.     *)
(* Definitions named Bug_... are mutated forms of the definition they come *)
(* before; no action uses them.                                            *)
(***************************************************************************)
EXTENDS Naturals, Sequences

CONSTANTS
  Texts,      \* the text models: CATALOG, TEXT_MODELS
  Ocr,        \* GLM-OCR, which only the model manager runs
  Shipped,    \* QUALIFIED_DEFAULT_MODEL
  Fallback,   \* SAFETY_FALLBACK_MODEL
  Flaky,      \* the units whose start may fail, or that may never be healthy
  Slow,       \* the units whose start may outlast its caller's timeout
  Crashing,   \* the units that may crash when they are up
  Faults      \* what may go wrong besides

AllFaults == {"manager restart", "graphics restart", "inference never idle"}

Units == Texts \cup {Ocr}

ASSUME UnitsAssumption ==
  /\ Ocr \notin Texts
  /\ {Shipped, Fallback} \subseteq Texts
  /\ Flaky \subseteq Units /\ Slow \subseteq Units /\ Crashing \subseteq Units
  /\ Faults \subseteq AllFaults

VARIABLES
  unit,      \* each model unit: off, loading, ready (its health URL answers),
             \* stopping because another was started, or waiting for systemd to
             \* start it again
  pipeline,  \* the diffusion pipeline is in the GPU
  gpuLock,   \* the holder of the flock on GPU_LOCK_PATH
  file,      \* model_state.json: the active and the default model
  mgr,       \* what the model manager is doing, under LOCK unless it boots
  gfx,       \* what the graphics manager is doing, and the models it would start
  previous   \* GraphicsManager.previous_model

vars == <<unit, pipeline, gpuLock, file, mgr, gfx, previous>>

MgrSteps == {"down", "idle", "stop", "start", "wait",
             "ocrStop", "ocrStart", "ocrWait", "ocrRead"}
GfxSteps == {"boot", "cold", "inference", "stop", "construct", "warm", "start", "wait"}

(* An operation of the model manager brings up a target; when that fails   *)
(* it rolls back to the fallback, and a switch whose rollback raises rolls *)
(* back again.                                                             *)
Idle == [at |-> "idle", op |-> "none", plan |-> "serve", target |-> Fallback,
         default |-> Fallback]

TypeOK ==
  /\ unit \in [Units -> {"off", "loading", "ready", "stopping", "retrying"}]
  /\ pipeline \in BOOLEAN
  /\ gpuLock \in {"free", "manager", "graphics"}
  /\ file \in [active : Texts, default : Texts]
  /\ mgr \in [at : MgrSteps, op : {"none", "switch", "restore", "ocr", "boot"},
              plan : {"serve", "bootFallback", "rollback", "again"},
              target : Texts, default : Texts]
  /\ gfx \in [at : GfxSteps, tries : Seq(Texts)]
  /\ previous \in Texts

(* The host has booted: the default is up and both managers are idle.      *)
Init ==
  /\ unit = [u \in Units |-> IF u = Shipped THEN "ready" ELSE "off"]
  /\ pipeline = FALSE
  /\ gpuLock = "free"
  /\ file = [active |-> Shipped, default |-> Shipped]
  /\ mgr = Idle
  /\ gfx = [at |-> "cold", tries |-> <<>>]
  /\ previous = Shipped

-----------------------------------------------------------------------------
(* systemd.                                                                *)

(* systemctl stop, one unit after the other.                               *)
Stopped(us) == [u \in Units |-> IF u \in us THEN "off" ELSE unit[u]]

Up(u) == unit[u] \in {"loading", "ready"}

(* How systemctl start ends: for a unit that is up already it does nothing;*)
(* "late" is the caller's timeout, with the unit still starting.  A model  *)
(* that is not available, and that some callers then do not start, is one  *)
(* whose start is refused.                                                 *)
Outcomes(u) ==
  {"ok"} \cup {o \in {"refused"} : ~Up(u) /\ u \in Flaky}
         \cup {o \in {"late"}    : ~Up(u) /\ u \in Slow}

(* Conflicts= names every other model unit, without After= or Before=: a   *)
(* start does not wait for those it stops, it only ends their retries.     *)
Displaced(v) == IF Up(v) \/ unit[v] = "stopping" THEN "stopping" ELSE "off"

Bug_UnknownState(u, outcome) ==
  [v \in Units |-> CASE v # u           -> Displaced(v)
                     [] v = u /\ Up(u)  -> unit[u]
                     [] v = u /\ ~Up(u) -> IF outcome = "refused" THEN "failed" ELSE "loading"]

(* systemctl start.  Restart=on-failure retries a start that failed; a     *)
(* unit that was stopping stays, or comes back once it has stopped.        *)
AfterStart(u, outcome) ==
  [v \in Units |-> CASE v # u           -> Displaced(v)
                     [] v = u /\ Up(u)  -> unit[u]
                     [] v = u /\ ~Up(u) -> IF outcome = "refused" THEN "retrying" ELSE "loading"]

(* A displaced unit has stopped, within TimeoutStopSec.                    *)
Stops(u) ==
  /\ unit[u] = "stopping"
  /\ unit' = [unit EXCEPT ![u] = "off"]
  /\ UNCHANGED <<pipeline, gpuLock, file, mgr, gfx, previous>>

Loads(u) ==
  /\ unit[u] = "loading"
  /\ unit' = [unit EXCEPT ![u] = "ready"]
  /\ UNCHANGED <<pipeline, gpuLock, file, mgr, gfx, previous>>

Retries(u) ==
  /\ unit[u] = "retrying"
  /\ unit' = AfterStart(u, "ok")
  /\ UNCHANGED <<pipeline, gpuLock, file, mgr, gfx, previous>>

Crashes(u) ==
  /\ u \in Crashing
  /\ unit[u] = "ready"
  /\ unit' = [unit EXCEPT ![u] = "retrying"]
  /\ UNCHANGED <<pipeline, gpuLock, file, mgr, gfx, previous>>

(* A wait for health ends badly only when the unit is stopped or is one    *)
(* that may never be healthy: the timeouts are those each model needs.     *)
NeverHealthy(u) == unit[u] \in {"off", "stopping"} \/ (unit[u] # "ready" /\ u \in Flaky)

-----------------------------------------------------------------------------
(* The model manager.                                                      *)

MgrGoes(from, to) == mgr.at = from /\ mgr' = [mgr EXCEPT !.at = to]

(* LOCK and the flock, both without waiting: otherwise 409.                *)
Begin(at, op, target, default) ==
  /\ mgr.at = "idle"
  /\ gpuLock = "free"
  /\ gpuLock' = "manager"
  /\ mgr' = [at |-> at, op |-> op, plan |-> "serve", target |-> target,
             default |-> default]
  /\ UNCHANGED <<unit, pipeline, file, gfx, previous>>

Chosen(target, makeDefault) == IF makeDefault THEN target ELSE file.default

(* switch_model; its fast path can only change the default.                *)
Switches(target, makeDefault) ==
  \/ /\ ~(file.active = target /\ unit[target] = "ready")
     /\ Begin("stop", "switch", target, Chosen(target, makeDefault))
  \/ /\ file.active = target /\ unit[target] = "ready"
     /\ mgr.at = "idle" /\ gpuLock = "free"
     /\ file' = [file EXCEPT !.default = Chosen(target, makeDefault)]
     /\ UNCHANGED <<unit, pipeline, gpuLock, mgr, gfx, previous>>

(* admin_model_switch of the orchestrator: only the model_id goes on.      *)
Forwarded(makeDefault) == FALSE

AdminSwitches(target, makeDefault) == Switches(target, Forwarded(makeDefault))

(* autorouting_restore_default.                                            *)
RestoreBegins == Begin("stop", "restore", file.default, file.default)

(* ocr_extract.                                                            *)
OcrBegins == Begin("ocrStop", "ocr", file.default, file.default)

(* The operation ends, with its answer or an error; a boot that fails      *)
(* takes the process down.                                                 *)
Ends(served) ==
  /\ mgr' = IF mgr.op = "boot" /\ ~served THEN [Idle EXCEPT !.at = "down"] ELSE Idle
  /\ gpuLock' = IF mgr.op = "boot" THEN gpuLock ELSE "free"

(* The next thing to try when the target is not served.                    *)
NextCandidate ==
  IF mgr.plan = "serve" /\ mgr.target # Fallback
  THEN [mgr EXCEPT !.at = "start", !.plan = "bootFallback", !.target = Fallback]
  ELSE [mgr EXCEPT !.at = "stop", !.plan = "rollback", !.target = Fallback]

RollsBack(plan) ==
  /\ mgr' = [mgr EXCEPT !.at = "stop", !.plan = plan, !.target = Fallback]
  /\ UNCHANGED gpuLock

(* switch_model and rollback stop the other text models, restore_default   *)
(* stops OCR too.                                                          *)
StoppedFirst ==
  IF mgr.plan = "serve" /\ mgr.op # "switch" THEN Units \ {mgr.target}
                                             ELSE Texts \ {mgr.target}

StopOthers ==
  /\ MgrGoes("stop", "start")
  /\ unit' = Stopped(StoppedFirst)
  /\ UNCHANGED <<pipeline, gpuLock, file, gfx, previous>>

(* Of the callers, switch_model and rollback check the outcome; the others *)
(* are stopped by the timeout only, and restore_default has no handler for *)
(* it: its own rollback is skipped.                                        *)
Raises(outcome) ==
  \/ outcome = "late"
  \/ outcome = "refused" /\ (mgr.op = "switch" \/ mgr.plan \in {"rollback", "again"})

StartTarget ==
  /\ mgr.at = "start"
  /\ \E outcome \in Outcomes(mgr.target) :
       /\ unit' = AfterStart(mgr.target, outcome)
       /\ IF ~Raises(outcome)
          THEN mgr' = [mgr EXCEPT !.at = "wait"] /\ UNCHANGED gpuLock
          ELSE IF mgr.op = "switch" /\ mgr.plan # "again" THEN RollsBack("again")
                                                         ELSE Ends(FALSE)
  /\ UNCHANGED <<pipeline, file, gfx, previous>>

(* wait_healthy and write_state.                                           *)
Served ==
  /\ mgr.at = "wait"
  /\ unit[mgr.target] = "ready"
  /\ file' = [active |-> mgr.target,
              default |-> IF mgr.op = "switch" /\ mgr.plan = "serve" THEN mgr.default
                                                                      ELSE file.default]
  /\ Ends(TRUE)
  /\ UNCHANGED <<unit, pipeline, gfx, previous>>

Bug_NoRollback == Ends(FALSE)

NotServedNext ==
  CASE mgr.plan = "serve" /\ mgr.op # "boot" -> RollsBack("rollback")
    [] mgr.plan \in {"serve", "bootFallback"} /\ mgr.op = "boot" ->
         mgr' = NextCandidate /\ UNCHANGED gpuLock
    [] OTHER -> Ends(FALSE)

NotServed ==
  /\ mgr.at = "wait"
  /\ NeverHealthy(mgr.target)
  /\ NotServedNext
  /\ UNCHANGED <<unit, pipeline, file, gfx, previous>>

(* ocr_extract, which ends with restore_default whatever happens.          *)
OcrStops ==
  /\ MgrGoes("ocrStop", "ocrStart")
  /\ unit' = Stopped(Texts)
  /\ UNCHANGED <<pipeline, gpuLock, file, gfx, previous>>

OcrStarts ==
  /\ mgr.at = "ocrStart"
  /\ \E outcome \in Outcomes(Ocr) :
       /\ unit' = AfterStart(Ocr, outcome)
       /\ mgr' = [mgr EXCEPT !.at = IF outcome = "ok" THEN "ocrWait" ELSE "stop",
                             !.target = file.default]
  /\ UNCHANGED <<pipeline, gpuLock, file, gfx, previous>>

OcrReady ==
  /\ unit[Ocr] = "ready"
  /\ MgrGoes("ocrWait", "ocrRead")
  /\ UNCHANGED <<unit, pipeline, gpuLock, file, gfx, previous>>

(* The page is read or not; either way, and when OCR never was ready, the  *)
(* default comes back.                                                     *)
OcrOver ==
  /\ \/ mgr.at = "ocrRead"
     \/ mgr.at = "ocrWait" /\ NeverHealthy(Ocr)
  /\ mgr' = [mgr EXCEPT !.at = "stop", !.target = file.default]
  /\ UNCHANGED <<unit, pipeline, gpuLock, file, gfx, previous>>

(* The process dies, and the kernel frees its flock.                       *)
ManagerDies ==
  /\ "manager restart" \in Faults
  /\ mgr.at # "down"
  /\ mgr' = [Idle EXCEPT !.at = "down"]
  /\ gpuLock' = IF gpuLock = "manager" THEN "free" ELSE gpuLock
  /\ UNCHANGED <<unit, pipeline, file, gfx, previous>>

Bug_BootLeavesOcr ==
  /\ mgr.at = "down"
  /\ mgr' = [at |-> "start", op |-> "boot", plan |-> "serve", target |-> file.default,
             default |-> file.default]
  /\ UNCHANGED <<unit, pipeline, gpuLock, file, gfx, previous>>

(* reconcile_boot_baseline, which takes no lock: OCR is stopped first.     *)
ManagerBoots ==
  /\ mgr.at = "down"
  /\ unit' = Stopped({Ocr})
  /\ mgr' = [at |-> "start", op |-> "boot", plan |-> "serve", target |-> file.default,
             default |-> file.default]
  /\ UNCHANGED <<pipeline, gpuLock, file, gfx, previous>>

-----------------------------------------------------------------------------
(* The graphics manager.                                                   *)

GfxGoes(from, to) == gfx.at = from /\ gfx' = [gfx EXCEPT !.at = to]

Bug_NoFlock == gfx.at = "cold"

(* _acquire_gpu_lock: without the flock the job fails.                     *)
MayLoad == gfx.at = "cold" /\ gpuLock = "free"

LoadBegins ==
  /\ MayLoad
  /\ gpuLock' = "graphics"
  /\ gfx' = [gfx EXCEPT !.at = "inference"]
  /\ UNCHANGED <<unit, pipeline, file, mgr, previous>>

Bug_PreviousNotRead == previous

(* _read_active_model.                                                     *)
PreviousRead == file.active

(* _wait_for_text_inference found the orchestrator idle.                   *)
InferenceIdle ==
  /\ GfxGoes("inference", "stop")
  /\ previous' = PreviousRead
  /\ UNCHANGED <<unit, pipeline, gpuLock, file, mgr>>

StopTexts ==
  /\ GfxGoes("stop", "construct")
  /\ unit' = Stopped(Texts)
  /\ UNCHANGED <<pipeline, gpuLock, file, mgr, previous>>

Constructs ==
  /\ GfxGoes("construct", "warm")
  /\ pipeline' = TRUE
  /\ UNCHANGED <<unit, gpuLock, file, mgr, previous>>

(* _switch_pipeline: a job for the other engine.                           *)
SwitchesEngine ==
  /\ GfxGoes("warm", "construct")
  /\ pipeline' = FALSE
  /\ UNCHANGED <<unit, gpuLock, file, mgr, previous>>

(* What _restore_text_model tries to start, in this order.                 *)
RestoreOrder == <<previous, Shipped, Fallback>>

(* _release_pipeline: the warm time is over, a user or an OCR call asked,  *)
(* a job failed, or its load did, because it could not construct or the    *)
(* orchestrator was not idle for three minutes.                            *)
Releases ==
  /\ \/ gfx.at \in {"construct", "warm"}
     \/ gfx.at = "inference" /\ "inference never idle" \in Faults
  /\ pipeline' = FALSE
  /\ gfx' = [at |-> "start", tries |-> RestoreOrder]
  /\ UNCHANGED <<unit, gpuLock, file, mgr, previous>>

(* GraphicsManager.start, which takes no lock either: it starts the active *)
(* model only when it saw no text model up.  A unit whose start is not yet *)
(* complete is not "active" for systemd.                                   *)
GraphicsBoots ==
  /\ gfx.at = "boot"
  /\ \/ /\ \E t \in Texts : Up(t)
        /\ gfx' = [at |-> "cold", tries |-> <<>>]
     \/ /\ \A t \in Texts : Up(t) => unit[t] = "loading" /\ t \in Slow
        /\ gfx' = [at |-> "start", tries |-> <<file.active, Fallback>>]
  /\ UNCHANGED <<unit, pipeline, gpuLock, file, mgr, previous>>

(* The restore, or the boot, is over; only a restore holds the flock.      *)
GfxEnds ==
  /\ gfx' = [at |-> "cold", tries |-> <<>>]
  /\ gpuLock' = IF gpuLock = "graphics" THEN "free" ELSE gpuLock

TriesNext ==
  IF Len(gfx.tries) > 1
  THEN gfx' = [at |-> "start", tries |-> Tail(gfx.tries)] /\ UNCHANGED gpuLock
  ELSE GfxEnds

(* _start_and_wait.                                                        *)
StartsText ==
  /\ gfx.at = "start"
  /\ \E outcome \in Outcomes(Head(gfx.tries)) :
       /\ unit' = AfterStart(Head(gfx.tries), outcome)
       /\ IF outcome = "ok" THEN gfx' = [gfx EXCEPT !.at = "wait"] /\ UNCHANGED gpuLock
                            ELSE TriesNext
  /\ UNCHANGED <<pipeline, file, mgr, previous>>

(* _write_model_state: only when the first choice of a restore failed.     *)
TextStarted ==
  /\ gfx.at = "wait"
  /\ unit[Head(gfx.tries)] = "ready"
  /\ file' = IF gpuLock = "graphics" /\ Len(gfx.tries) < Len(RestoreOrder)
             THEN [file EXCEPT !.active = Head(gfx.tries)] ELSE file
  /\ GfxEnds
  /\ UNCHANGED <<unit, pipeline, mgr, previous>>

TextNotStarted ==
  /\ gfx.at = "wait"
  /\ NeverHealthy(Head(gfx.tries))
  /\ TriesNext
  /\ UNCHANGED <<unit, pipeline, file, mgr, previous>>

(* The process dies, with its pipeline and its flock, and systemd restarts *)
(* it.                                                                     *)
GraphicsDies ==
  /\ "graphics restart" \in Faults
  /\ gfx' = [at |-> "boot", tries |-> <<>>]
  /\ pipeline' = FALSE
  /\ gpuLock' = IF gpuLock = "graphics" THEN "free" ELSE gpuLock
  /\ previous' = Shipped
  /\ UNCHANGED <<unit, file, mgr>>

-----------------------------------------------------------------------------
MgrWork ==
  \/ StopOthers \/ StartTarget \/ Served \/ NotServed
  \/ OcrStops \/ OcrStarts \/ OcrReady \/ OcrOver \/ ManagerBoots

GfxWork ==
  \/ InferenceIdle \/ StopTexts \/ Constructs \/ StartsText \/ TextStarted
  \/ TextNotStarted \/ GraphicsBoots

Next ==
  \/ \E u \in Units : Loads(u) \/ Stops(u) \/ Retries(u) \/ Crashes(u)
  \/ \E target \in Texts, choice \in BOOLEAN :
       AdminSwitches(target, choice) \/ Switches(target, choice)
  \/ RestoreBegins \/ OcrBegins \/ LoadBegins \/ SwitchesEngine \/ Releases
  \/ MgrWork \/ GfxWork
  \/ ManagerDies \/ GraphicsDies

Spec == Init /\ [][Next]_vars

(* Units that are not flaky become healthy, a unit told to stop does, or   *)
(* is killed after TimeoutStopSec, every wait has a timeout, a dead        *)
(* process is restarted, and a warm pipeline is released in the end.       *)
(* Nobody need ask for a switch, for OCR or for an image.                  *)
Fairness ==
  /\ \A u \in Units : WF_vars(Stops(u))
  /\ \A u \in Units \ Flaky : WF_vars(Loads(u)) /\ WF_vars(Retries(u))
  /\ WF_vars(MgrWork)
  /\ WF_vars(GfxWork)
  /\ WF_vars(Releases)

FairSpec == Spec /\ Fairness

-----------------------------------------------------------------------------
(* Properties.                                                             *)

(* A unit that systemd will start again counts as there, and so does one   *)
(* that is still stopping; the units that stay are those nobody has told   *)
(* to go.                                                                  *)
Resident == {u \in Units : unit[u] # "off"}

Stays(u) == unit[u] \notin {"off", "stopping"}

(* At most one heavy model is meant for the GPU, pipeline included ("the   *)
(* current safety policy permits one heavy GPU model at a time"): whatever *)
(* starts, fails, hangs or is late, and though booting graphics takes no   *)
(* lock, all units but one are off or on their way out, and no pipeline is *)
(* built or kept beside any unit, not even one on its way out.  Of two     *)
(* units, the one that goes may overlap with the one that comes.           *)
OneHeavy ==
  /\ \A u, v \in Units : Stays(u) /\ Stays(v) => u = v
  /\ pipeline \/ gfx.at \in {"construct", "warm"} => Resident = {}

(* The strict reading of the same sentence: no two units are in the GPU,   *)
(* not even one that stops and one that starts.  It takes text models that *)
(* start when they are told: the callers stop what is up before they start *)
(* another, and only what they try when that fails displaces a unit.       *)
NoOverlap == \A u, v \in Resident : u = v

(* The private OCR helper runs only in the manager's own OCR transaction,  *)
(* or between the manager's death and its boot: no text model ever finds   *)
(* it there once the manager answers.                                      *)
OcrConfined == Ocr \in Resident => mgr.op = "ocr" \/ mgr.at = "down"

(* Between operations, the model that answers is the one model_state.json  *)
(* names: chats are sent to a model that is there.                         *)
Quiet == mgr.at = "idle" /\ gfx.at = "cold"

ActiveIsResident == Quiet => \A t \in Texts : unit[t] = "ready" => file.active = t

(* Liveness: the GPU always goes back to a text model that answers, unless *)
(* the two managers die for ever.                                          *)
TextReady == \E t \in Texts : unit[t] = "ready"

TextComesBack == []<>TextReady \/ []<><<ManagerDies \/ GraphicsDies>>_vars
=============================================================================
