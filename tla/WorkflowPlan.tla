----------------------------- MODULE WorkflowPlan -----------------------------
(***************************************************************************)
(* The two planners of workflows: the one whose plans are executed         *)
(* (autorouting.py) and the one that shows an admin a preview              *)
(* (routing_planner.py).  Both group the tasks by model, in an order that  *)
(* respects their dependencies; they choose the next model differently.    *)
(*                                                                         *)
(* Tasks are numbered in the order of their ids, models in that of theirs. *)
(***************************************************************************)
EXTENDS Naturals, Sequences, FiniteSets

CONSTANTS
  Tasks,          \* the tasks of a workflow, numbered in the order of their ids
  Models,         \* the models tasks are routed to, numbered in the order of theirs
  Transactional,  \* those that load and unload themselves: OCR and images
  Default         \* DEFAULT_MODEL

ASSUME TasksAssumption == Tasks \subseteq Nat /\ IsFiniteSet(Tasks)
ASSUME PlanModelsAssumption ==
  /\ Models \subseteq Nat /\ IsFiniteSet(Models)
  /\ Transactional \subseteq Models /\ Default \in Models \ Transactional

(* _clean_tasks: a task depends on others of the workflow.                 *)
CleanTasks == {deps \in [Tasks -> SUBSET Tasks] : \A t \in Tasks : t \notin deps[t]}

(* _choose_model: which model a task of a kind is routed to is the         *)
(* registry's and the profile's affair.                                    *)
Routes == [Tasks -> Models]

Least(S) == CHOOSE x \in S : \A y \in S : x <= y

Bug_ReadyTooSoon(deps, remaining) ==
  {t \in remaining : deps[t] = {} \/ deps[t] \ remaining # {}}

(* The tasks whose dependencies are all done.                              *)
Ready(deps, remaining) == {t \in remaining : deps[t] \cap remaining = {}}

ReadyModels(deps, model, remaining) == {model[t] : t \in Ready(deps, remaining)}

(* The tasks that one residency of m can run, one after another: always    *)
(* the least that is ready (the group's loop, and _affinity_closure, which *)
(* counts them).                                                           *)
Residency(deps, model, m, remaining) ==
  LET run[rest \in SUBSET Tasks] ==
        LET now == {t \in Ready(deps, rest) : model[t] = m}
        IN IF now = {} THEN <<>> ELSE <<Least(now)>> \o run[rest \ {Least(now)}]
  IN run[remaining]

(* The model that is hot, if a ready task wants it; otherwise the one that *)
(* can run most tasks, and of those the least.                             *)
NextModel(deps, model, hot, remaining) ==
  LET ready    == ReadyModels(deps, model, remaining)
      score(m) == Len(Residency(deps, model, m, remaining))
  IN IF hot \in ready THEN hot
     ELSE Least({m \in ready : \A n \in ready : score(m) >= score(n)})

Bug_StaysHot(m) == m

(* What is hot after a group: a transaction leaves the default model.      *)
HotAfter(m) == IF m \in Transactional THEN Default ELSE m

Elements(s) == {s[i] : i \in DOMAIN s}

(* plan_workflow of autorouting.py; it ends early where no task is ready.  *)
Plan(deps, model, active) ==
  LET from[at \in (SUBSET Tasks) \X Models] ==
        LET remaining == at[1]
            hot       == at[2]
            m == NextModel(deps, model, hot, remaining)
            s == Residency(deps, model, m, remaining)
        IN IF Ready(deps, remaining) = {} THEN <<>>
           ELSE <<[model |-> m, tasks |-> s, switch |-> m # hot]>>
                  \o from[<<remaining \ Elements(s), HotAfter(m)>>]
  IN from[<<Tasks, IF active \in Models THEN active ELSE Default>>]

(* Everything that is ready for m, in the order of the ids.                *)
Batch(deps, model, m, remaining) ==
  LET take[rest \in SUBSET Tasks] ==
        IF rest = {} THEN <<>> ELSE <<Least(rest)>> \o take[rest \ {Least(rest)}]
  IN take[{t \in Ready(deps, remaining) : model[t] = m}]

(* plan_workflow of routing_planner.py: the hot model, or the least.       *)
Preview(deps, model, active) ==
  LET from[at \in (SUBSET Tasks) \X Models] ==
        LET remaining == at[1]
            hot       == at[2]
            ready == ReadyModels(deps, model, remaining)
            m     == IF hot \in ready THEN hot ELSE Least(ready)
            s     == Batch(deps, model, m, remaining)
        IN IF Ready(deps, remaining) = {} THEN <<>>
           ELSE <<[model |-> m, tasks |-> s, switch |-> m # hot]>>
                  \o from[<<remaining \ Elements(s), m>>]
  IN from[<<Tasks, active>>]

(* The tasks of a plan, in the order it runs them.                         *)
Order(plan) ==
  LET upTo[n \in 0 .. Len(plan)] == IF n = 0 THEN <<>> ELSE upTo[n - 1] \o plan[n].tasks
  IN upTo[Len(plan)]

(* "cyclic dependencies"                                                   *)
Refused(plan) == Elements(Order(plan)) # Tasks

-----------------------------------------------------------------------------
(* What a plan has to be, without regard to how it is found.               *)

(* No set of tasks all wait for each other.                                *)
Acyclic(deps) == ~\E S \in (SUBSET Tasks) \ {{}} : \A t \in S : deps[t] \cap S # {}

(* Every task once, after all it depends on, in a group of its model.      *)
Runs(deps, model, plan) ==
  LET order == Order(plan)
      at(t) == CHOOSE i \in DOMAIN order : order[i] = t
  IN /\ Len(order) = Cardinality(Tasks) /\ Elements(order) = Tasks
     /\ \A t \in Tasks : \A d \in deps[t] : at(d) < at(t)
     /\ \A i \in DOMAIN plan : plan[i].tasks # <<>> /\ \A t \in Elements(plan[i].tasks) : model[t] = plan[i].model

(* What is loaded when group i of a plan begins.                           *)
LoadedBefore(plan, active, i) == IF i = 1 THEN active ELSE HotAfter(plan[i - 1].model)

(* A group needs a switch exactly if its model is not what is loaded.      *)
CountsSwitches(plan, active) ==
  \A i \in DOMAIN plan : plan[i].switch <=> plan[i].model # LoadedBefore(plan, active, i)
=============================================================================
