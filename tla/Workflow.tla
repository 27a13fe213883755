------------------------------- MODULE Workflow -------------------------------
(***************************************************************************)
(* One automatic workflow, from its tasks to its outcome: the plan, the    *)
(* switches, tasks and restores of execute_plan (autorouting.py), and the  *)
(* calls its adapters make to the model manager and the graphics manager.  *)
(* Every call may fail, some after they had their effect, and others may   *)
(* load a model in between.                                                *)
(*                                                                         *)
(* Definitions named Bug_... are mutated forms of the definition they come *)
(* before; no action uses them.                                            *)
(***************************************************************************)
EXTENDS WorkflowPlan

CONSTANTS
  Image,       \* the model of image_generation
  None,        \* no model
  MaxFailures  \* how many calls may fail, a refusal of the first switch included

ASSUME WorkflowAssumption ==
  /\ Image \in Transactional /\ None \notin Models
  /\ MaxFailures \in Nat \ {0}

VARIABLES
  deps, model,  \* what each task depends on, and the model it is routed to
  pc,           \* where the executor is
  goal,         \* what the status it reads next is to confirm
  left,         \* the groups still to run
  doing,        \* the tasks of the group still to run
  current,      \* the model the executor takes to be loaded
  done,         \* the tasks that have a result
  outcome,      \* what is reported
  default,      \* the model manager's default_model
  active,       \* its active_model
  up,           \* the text models whose service runs
  graphics,     \* the graphics manager: cold, warm, or busy with a job
  failures,     \* the calls that failed
  disturbed,    \* someone else loaded a model, or one broke down
  gaveUp        \* _release_graphics gave up

input == <<deps, model, default>>
world == <<active, up, graphics>>
book  == <<failures, disturbed, gaveUp>>
vars  == <<input, pc, goal, left, doing, current, done, outcome, world, book>>

TextModels == Models \ Transactional

TypeOK ==
  /\ deps \in [Tasks -> SUBSET Tasks] /\ model \in [Tasks -> Models]
  /\ pc \in {"plan", "slot", "start", "repair", "group", "switch", "status", "task", "polling",
             "release", "releaseFailed", "settle", "restore", "abort", "over"}
  /\ goal \in {"none", "start", "switch", "settle", "end", "abort"}
  /\ \A i \in DOMAIN left : left[i].model \in Models
  /\ Elements(doing) \subseteq Tasks
  /\ current \in TextModels \cup {None} /\ done \subseteq Tasks
  /\ outcome \in {"none", "refused", "busy", "ok", "restored", "unavailable", "rollbackFailed"}
  /\ default \in TextModels /\ active \in TextModels /\ up \subseteq TextModels
  /\ graphics \in {"cold", "warm", "busy"}
  /\ failures \in 0 .. MaxFailures /\ disturbed \in BOOLEAN /\ gaveUp \in BOOLEAN

(* A workflow that was just planned, for the model that is active: the     *)
(* default, or one that an earlier request has left loaded.                *)
(* Graphics that are still warm will refuse its first switch, which counts *)
(* as a failed call.                                                       *)
Init ==
  /\ deps \in CleanTasks /\ model \in Routes
  /\ default \in TextModels
  /\ active \in TextModels
  /\ graphics \in {"cold", "warm"}
  /\ up = IF graphics = "cold" THEN {active} ELSE {}
  /\ pc = "plan" /\ goal = "none" /\ doing = <<>>
  /\ left = Plan(deps, model, active)
  /\ current = None /\ done = {} /\ outcome = "none"
  /\ failures = (IF graphics = "cold" THEN 0 ELSE 1) /\ disturbed = FALSE /\ gaveUp = FALSE

(* _single_healthy_model                                                   *)
SingleHealthy(m) == active = m /\ up = {m} /\ graphics = "cold"

Ends(how) == pc' = "over" /\ outcome' = how
Goes(to)  == pc' = to /\ UNCHANGED outcome

(* One more call fails.                                                    *)
Fails == failures < MaxFailures /\ failures' = failures + 1 /\ UNCHANGED <<disturbed, gaveUp>>

-----------------------------------------------------------------------------
(* The calls.                                                              *)

(* A text model is active, and its service runs or not.                    *)
AnyModel == active' \in TextModels /\ up' \in {{active'}, {}}

(* The manager loads m and answers; or what it has loaded in the end is    *)
(* another model, or none, or its answer is lost.                          *)
Loads(m, onAnswer, onFailure) ==
  \/ active' = m /\ up' = {m} /\ UNCHANGED book /\ onAnswer
  \/ Fails /\ AnyModel /\ onFailure

(* ModelControllerAdapter.switch: refused while graphics hold the GPU.     *)
Switch(m, onAnswer, onFailure) ==
  \/ graphics = "cold" /\ Loads(m, onAnswer, onFailure) /\ UNCHANGED graphics
  \/ graphics # "cold" /\ onFailure /\ UNCHANGED <<world, book>>

(* ModelControllerAdapter.restore_default: graphics are released first;    *)
(* what is loaded is the manager's default, whatever that is, or after a   *)
(* rollback another model, of which the answer tells.                      *)
RestoreDefault(onAnswer, onOther, onFailure) ==
  \/ /\ graphics # "busy"
     /\ graphics' = "cold"
     /\ Loads(default, IF default = Default THEN onAnswer ELSE onOther, onOther \/ onFailure)
  \/ Fails /\ onFailure /\ UNCHANGED world
  \/ graphics = "busy" /\ onFailure /\ UNCHANGED <<world, book>>

(* A call that reads only, or whose failure changes nothing, may fail.     *)
CallFails(from, onFailure) ==
  pc = from /\ Fails /\ onFailure
  /\ UNCHANGED <<input, goal, left, doing, current, done, world>>

-----------------------------------------------------------------------------
(* The executor.                                                           *)

(* A plan that does not hold every task is refused; so are tasks of a form *)
(* or kind, a profile or a registry that are not as they should be.        *)
Plans ==
  /\ pc = "plan"
  /\ (~Refused(left) /\ Goes("slot")) \/ Ends("refused")
  /\ UNCHANGED <<input, goal, left, doing, current, done, world, book>>

(* exclusive_slot: another process may hold the workflow lock; then        *)
(* nothing is restored, for nothing was touched.                           *)
TakesSlot ==
  /\ pc = "slot"
  /\ Goes("start") \/ Ends("busy")
  /\ UNCHANGED <<input, goal, left, doing, current, done, world, book>>

(* The model that is active is loaded again unless it is alone and healthy.*)
Starts ==
  /\ pc = "start"
  /\ current' = active
  /\ Goes(IF SingleHealthy(active) THEN "group" ELSE "repair")
  /\ UNCHANGED <<input, goal, left, doing, done, world, book>>

Repairs ==
  /\ pc = "repair"
  /\ Switch(current, Goes("status") /\ goal' = "start", Goes("abort") /\ UNCHANGED goal)
  /\ UNCHANGED <<input, left, doing, current, done>>

Bug_SwitchAssumed(m) == TRUE

(* What a status has to show once m was loaded.                            *)
Confirms(m) == SingleHealthy(m)

(* The next group: a switch first, unless its model is loaded or loads     *)
(* itself; after the last group the default model is restored.             *)
TakesGroup ==
  /\ pc = "group"
  /\ IF left = <<>>
       THEN IF current # Default THEN Goes("restore") /\ goal' = "end" ELSE Ends("ok") /\ UNCHANGED goal
       ELSE Goes(IF left[1].model \in Transactional \/ left[1].model = current THEN "task" ELSE "switch")
            /\ UNCHANGED goal
  /\ doing' = IF left = <<>> THEN <<>> ELSE left[1].tasks
  /\ UNCHANGED <<input, left, current, done, world, book>>

ChangesModel ==
  /\ pc = "switch"
  /\ Switch(left[1].model, Goes("status") /\ goal' = "switch", Goes("abort") /\ UNCHANGED goal)
  /\ UNCHANGED <<input, left, doing, current, done>>

(* The status after a load: only what it confirms is taken for granted.    *)
ReadsStatus ==
  /\ pc = "status"
  /\ LET m == CASE goal = "start"  -> current
               [] goal = "switch" -> left[1].model
               [] OTHER           -> Default
     IN /\ CASE goal = "abort"                   -> Ends(IF Confirms(m) THEN "restored" ELSE "unavailable")
             [] goal # "abort" /\ ~Confirms(m) -> Goes("abort")
             [] goal = "end" /\ Confirms(m)    -> Ends("ok")
             [] OTHER                          -> Goes(IF goal = "switch" THEN "task" ELSE "group")
        /\ current' = IF Confirms(m) THEN m ELSE current
  /\ goal' = "none"
  /\ UNCHANGED <<input, left, doing, done, world, book>>

(* The tasks of a group run one by one; a transaction is then looked over, *)
(* and leaves the default model, or the workflow ends.                     *)
GroupEnds ==
  /\ pc = "task" /\ doing = <<>>
  /\ left' = Tail(left)
  /\ current' = HotAfter(left[1].model)
  /\ Goes(IF left[1].model \in Transactional THEN "settle" ELSE "group")
  /\ UNCHANGED <<input, goal, doing, done, world, book>>

Done == /\ doing' = Tail(doing) /\ done' = done \cup {doing[1]}

Dropped == UNCHANGED <<doing, done>>

AtTask(m) == pc = "task" /\ doing # <<>> /\ model[doing[1]] = m

(* A completion goes to the model's own endpoint.                          *)
RunsText ==
  /\ \E m \in TextModels :
       /\ AtTask(m)
       /\ IF m \in up THEN Goes("task") /\ Done ELSE Goes("abort") /\ Dropped
  /\ UNCHANGED <<input, goal, left, current, world, book>>

(* An OCR is the manager's transaction, which ends with its default model, *)
(* or another one if that does not start.                                  *)
RunsOcr ==
  /\ \E m \in Transactional \ {Image} : AtTask(m)
  /\ Switch(default, Goes("task") /\ Done,
            \/ Goes("abort") /\ Dropped
            \/ graphics = "cold" /\ up' # {} /\ Goes("task") /\ Done)
  /\ UNCHANGED <<input, goal, left, current>>

Bug_CleanupAfterAnswer == "abort"

(* Where an image goes whose POST failed: the manager may have taken the   *)
(* job all the same, and so the GPU is released.                           *)
AfterLostPost == "releaseFailed"

(* The job is posted, and taken or not, whatever the answer.               *)
PostsJob ==
  /\ AtTask(Image)
  /\ \/ Goes("polling") /\ graphics' = "busy" /\ up' = {} /\ UNCHANGED book
     \/ Fails /\ Goes(AfterLostPost) /\ graphics' = "busy" /\ up' = {}
     \/ Fails /\ Goes(AfterLostPost) /\ UNCHANGED <<graphics, up>>
  /\ UNCHANGED <<input, goal, left, doing, current, done, active>>

(* It is asked for until it is ready, failed, or late, which counts as a   *)
(* failed call.                                                            *)
PollsJob ==
  /\ pc = "polling"
  /\ \/ graphics = "warm" /\ Goes("release") /\ UNCHANGED book
     \/ graphics = "cold" /\ Goes("releaseFailed") /\ UNCHANGED book
     \/ /\ graphics = "busy" /\ Goes("releaseFailed")
        /\ failures' = (IF failures < MaxFailures THEN failures + 1 ELSE failures)
        /\ UNCHANGED <<disturbed, gaveUp>>
     \/ Fails /\ Goes("releaseFailed")
  /\ UNCHANGED <<input, goal, left, doing, current, done, world>>

(* _restore_text_model: the model of before is started again, or another.  *)
TextReturns == (up' = {active} /\ UNCHANGED <<active, book>>) \/ (AnyModel /\ Fails)

(* _release_graphics: the manager is asked until it is cold; its release   *)
(* starts a text model, or none comes up.                                  *)
ReleasesGraphics ==
  /\ pc \in {"release", "releaseFailed"} /\ graphics # "busy"
  /\ graphics' = "cold"
  /\ IF graphics = "cold" THEN UNCHANGED <<active, up, book>> ELSE TextReturns
  /\ IF pc = "release" THEN Goes("task") /\ Done ELSE Goes("abort") /\ Dropped
  /\ UNCHANGED <<input, goal, left, current>>

Bug_NoAttemptLimit == FALSE

(* range(360): a job may outlast the attempts.                             *)
OutOfAttempts == graphics = "busy"

GivesUpRelease ==
  /\ pc \in {"release", "releaseFailed"} /\ OutOfAttempts
  /\ gaveUp' = TRUE
  /\ Goes("abort")
  /\ UNCHANGED <<input, goal, left, doing, current, done, world, failures, disturbed>>

(* After a transaction the default model is loaded, or is restored.        *)
Settles ==
  /\ pc = "settle"
  /\ IF SingleHealthy(Default)
       THEN Goes("group") /\ UNCHANGED goal
       ELSE Goes("restore") /\ goal' = "settle"
  /\ UNCHANGED <<input, left, doing, current, done, world, book>>

(* _verified_restore                                                       *)
Restores ==
  /\ pc = "restore"
  /\ RestoreDefault(Goes("status"), Goes("abort"), Goes("abort"))
  /\ UNCHANGED <<input, goal, left, doing, current, done>>

(* The first failure ends the workflow: the default model is restored, and *)
(* what is reported says whether it was.                                   *)
Aborts ==
  /\ pc = "abort"
  /\ RestoreDefault(Goes("status") /\ goal' = "abort",
                    Ends("unavailable") /\ UNCHANGED goal,
                    Ends("rollbackFailed") /\ UNCHANGED goal)
  /\ UNCHANGED <<input, left, doing, current, done>>

(* A status, or a completion, cannot be had.                               *)
ReadFails ==
  \/ \E from \in {"start", "settle"} : CallFails(from, Goes("abort"))
  \/ goal # "abort" /\ CallFails("status", Goes("abort"))
  \/ goal = "abort" /\ CallFails("status", Ends("unavailable"))
  \/ \E m \in TextModels : AtTask(m) /\ CallFails("task", Goes("abort"))

-----------------------------------------------------------------------------
(* The others.                                                             *)

(* A job that fails has the GPU given back.                                *)
JobEnds ==
  /\ graphics = "busy"
  /\ \/ graphics' = "warm" /\ UNCHANGED <<active, up, book>>
     \/ graphics' = "cold" /\ AnyModel /\ Fails
  /\ UNCHANGED <<input, pc, goal, left, doing, current, done, outcome>>

(* A boot, an admin or a late request loads a model; or a model breaks.    *)
Disturbs ==
  /\ pc # "over" /\ ~disturbed /\ graphics = "cold"
  /\ disturbed' = TRUE
  /\ \/ \E m \in TextModels : active' = m /\ up' = {m}
     \/ up' = {} /\ UNCHANGED active
  /\ UNCHANGED <<input, pc, goal, left, doing, current, done, outcome, graphics, failures, gaveUp>>

Executes ==
  \/ Plans \/ TakesSlot \/ Starts \/ Repairs \/ TakesGroup \/ ChangesModel \/ ReadsStatus
  \/ GroupEnds \/ RunsText \/ RunsOcr \/ PostsJob \/ PollsJob \/ ReleasesGraphics
  \/ GivesUpRelease \/ Settles \/ Restores \/ Aborts

Next == Executes \/ ReadFails \/ JobEnds \/ Disturbs

Spec == Init /\ [][Next]_vars

(* The executor runs on, for every call has a timeout; a job may hang.     *)
FairSpec == Spec /\ WF_vars(Executes)

-----------------------------------------------------------------------------
(* Both planners, of any tasks: a plan is refused exactly if tasks wait    *)
(* for each other; otherwise it runs each once, after all it depends on,   *)
(* in a group of its model, and counts the switches this takes.            *)
PlansAreSound ==
  pc = "plan" /\ ~disturbed =>
    LET plan    == left
        preview == Preview(deps, model, active)
    IN /\ Refused(plan) <=> ~Acyclic(deps)
       /\ Refused(preview) <=> ~Acyclic(deps)
       /\ Acyclic(deps) => /\ Runs(deps, model, plan) /\ Runs(deps, model, preview)
                           /\ CountsSwitches(plan, active)

(* A task has a result only when all it depends on have, and a workflow is *)
(* reported complete only with a result of every task.                     *)
ResultsInOrder ==
  /\ \A t \in done : deps[t] \subseteq done
  /\ outcome = "ok" => done = Tasks

(* What is reported of the GPU is so: the default model alone, graphics    *)
(* cold; after an abort always, after a success if no one disturbed it.    *)
GpuAsReported ==
  outcome = "restored" \/ (outcome = "ok" /\ ~disturbed) => SingleHealthy(Default)

(* What a workflow reports is true, of its tasks and of the GPU.           *)
OutcomeIsTrue == ResultsInOrder /\ GpuAsReported

(* No image job is left behind on the GPU, though its POST was not         *)
(* answered, unless it outlasts the six minutes of the release.            *)
NoJobLeftBehind == pc = "over" /\ ~gaveUp => graphics # "busy"

(* One failed call, wherever it is and whether it had its effect or not,   *)
(* costs the workflow, never the default model.                            *)
OneFailureRecovered ==
  failures <= 1 /\ ~disturbed /\ ~gaveUp /\ default = Default =>
    outcome \notin {"unavailable", "rollbackFailed"}

(* Every workflow ends, even where an image job never does: no poll, retry *)
(* or restore goes on for ever.                                            *)
WorkflowEnds == <>(pc = "over")
=============================================================================
