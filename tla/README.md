# A verification of the R740 AI factory

TLA+ modules, TLC runs and TLAPS proofs for the code of this repository. The
system is a self-hosted AI service on one server with **one GPU**: a web portal
with accounts and quotas, a core that moves models in and out of the GPU, and a
few services beside them. Nearly everything that is hard about it follows from
one rule, "one heavy GPU model at a time" (`components/core/NONPORTABLE.md:12`):
many users, several long operations of minutes, five processes, and a single
resource that only one of them may have.

Paths below are relative to the repository; `portal.py` is
`components/portal/src/r740_portal/portal.py`, and the core's files are in
`components/core/src/r740_core/`.

## 1. Inventory

### Portal (`portal.py`)

A FastAPI application on SQLite, one uvicorn worker
(`systemd/r740-ai-portal.service.in:14`). Its state is the database; what is in
memory is the event loop's tasks and the sockets of Local MCP.

| Part | State | Operations | What makes it correct |
|---|---|---|---|
| Inference slot and queue | `inference_lock` (one row: token, lease), `inference_queue` (rows waiting, active, finished, cancelled) | acquire, renew, release; enqueue, poll and admit, finish, cancel; sweeps of expired leases, lost activations and silent waiters | one holder; the two tables agree; first come first served; a live holder or waiter is never swept; a dead one always is |
| Graphics requests | `graphics_requests` rows, the day's counter | admit, reserve, POST to the core, accept, fail, client's poll, reconciling pass | each request settled once, by one of three parties, and in the end; refund once, on its own day; the slot held while a job may run |
| Inference requests | daily counter, one handler per request | chat, vision, automatic routing, OCR, model load: reserve, wait for the slot, switch the model, call the core, restore, refund | a prompt is charged if and only if answered; the model changes only under the slot |
| Deletion of users | rows by cascade, sandbox directory | check idle, deactivate, remove sandbox, delete | no cascade under a running job; a failed step can be retried |
| Sessions, accounts | `users`, `sessions` | setup, login, logout, password, caps per account | no session outlives its account's password or activation |
| Local MCP hub | devices, pairing codes, one socket and pending calls per device | pair, authenticate, call, revoke | a pairing code used once; a revoked device not called; each call answered once |
| Conversations, documents, retention | rows and files | upload, parse, delete, clean up | limits per owner; files and rows agree |

### Core

Four processes under systemd.

| Part | State | Operations | What makes it correct |
|---|---|---|---|
| Model manager (`model_manager.py`) | the model units of systemd, `model_state.json`, a thread lock, a flock on the GPU | switch, restore default, OCR transaction, roll back, boot | one heavy model; OCR only in its transaction; the state file names the model that is up; a text model in the end |
| Graphics manager (`graphics_manager.py`) | a diffusion pipeline, the flock while it is loaded, a queue of jobs, worker and watchdog threads | submit, run, switch engine, release (idle, asked, failed), boot | the pipeline never beside a text model; a job's pipeline not released under it; text comes back |
| Orchestrator (`orchestrator.py`) | a semaphore of one | chat (plain and streamed), admin switch, OCR, status | a chat reaches the model it asked for; `inference_busy` is true while one runs |
| Autorouting (`autorouting.py`, `routing_planner.py`, `adapters.py`, `auto_service.py`) | a service lock | plan, execute, verified restore | few switches, order kept; the default restored and graphics released however a step ends |
| Gateway (`gateway.py`) | none | proxies | timeouts longer than those below |

### Beside them

Sandbox (directories with project quotas, one job at a time), tools (rate limits
and a cache in SQLite), parser (two at a time), the Local MCP client (one
socket, reconnecting), the single-node factory page, systemd units, and the
installation scripts. PROJECT.json lists all with their status.

### How they interact

A request takes the portal's **slot** for as long as it uses the GPU. Under it
the portal calls the core over HTTP, through the gateway. Chats go to the
orchestrator, which reads `model_state.json` and forwards them; switches go to
the model manager, images to the graphics manager. The two managers keep clear
of each other with a **flock** that neither waits for; a manager that boots
takes none. Graphics asks the orchestrator whether a chat runs before it stops
the text models. Both managers write `model_state.json`.

### What is hard here

PROJECT.json lists the hazards at their lines with the properties that
cover them. The main kinds: handlers that die or are cancelled between two
transactions; sweeps run by everybody on behalf of everybody; snapshots acted
on after an await; a lost reply to a POST that was accepted; leases and
timeouts that must keep an order; processes that restart in the middle of an
operation on the GPU; and every step of a switch failing.

## 2. Modules

| Module | Models | Role |
|---|---|---|
| `LeaseLock` | - | abstract: what a leased slot promises |
| `InferenceQueue` | slot and queue of the portal | detailed; implements `LeaseLock` |
| `InferenceQueueProofs` | | theorems of `InferenceQueue` |
| `GraphicsRequests` | graphics requests, quota, reconciler | uses the slot as `LeaseLock` promises it |
| `GraphicsRequestsProofs` | | theorems of `GraphicsRequests` |
| `GpuResidency` | model manager, graphics manager and systemd, as far as the GPU goes | |
| `GpuResidencyProofs` | | theorems of `GpuResidency` |
| `GraphicsJobs` | the threads of the graphics manager | the detail of what `GpuResidency` takes as one graphics session |
| `GraphicsJobsProofs` | | theorems of `GraphicsJobs` |
| `InferenceRequests` | chat, vision, OCR, workflow, model load, under the slot | uses the slot as `LeaseLock` promises it, and the core as one transaction at a time |
| `InferenceRequestsProofs` | | theorems of `InferenceRequests` |
| `WorkflowPlan` | the two planners | pure; used by `Workflow` |
| `Workflow` | `execute_plan` and the adapters | runs what `WorkflowPlan` plans |
| `WorkflowProofs` | | theorems of `WorkflowPlan` and `Workflow` |
| `LocalMcp` | the portal's hub and the connector | the two ends of a connection together |
| `LocalMcpProofs` | | theorems of `LocalMcp` |
| `Accounts` | accounts, sessions, deletion, and the sandbox's spaces | portal and sandbox together |
| `AccountsProofs` | | theorems of `Accounts` |
| `MC...` | | the constants of the runs |

In every module one action is one transaction or one step between two awaits
(portal), or one blocking call with the state it changes (core).

### InferenceQueue

`lock` is the row of `inference_lock`, `row[r]` the `inference_queue` row of
request `r`, `pc[r]` the place its handler has come to. A time is kept as the
seconds left of it: `expires_at <= now` reads `left = 0`, and `Tick` is a
second. Each function that writes the tables starts `BEGIN IMMEDIATE`, so it is
one action with the sweeps it begins with; a refusal rolls its sweeps back. The
clock is read just before the transaction; with one worker nothing comes
between the two, and so the order `created_at, id` of the rows is the order of
their ids. The branch of the poll for a row that is active already (`portal.py:3063`)
is not taken: the turn that activates a row returns. A request draws one
token at most, so the token is named by the request.

Handlers differ in what they do once admitted, and the constants say which is
which: `Beating` renew, `Selecting` (engine selection) release the slot and
leave the row, `Jobs` take the slot without the queue. `Punctual` handlers act
in time and others need not; `Mortal` ones may die anywhere.

Every waiter has a deadline of 900 s (`portal.py:90`, `3036`), after which it is
refused with 504 (`TimesOut`). That is shorter than the leases of OCR (1200 s), routing
(2100 s) and graphics (22200 s), so behind a handler that died with one of these a client that
stays is refused, not admitted. What the code does promise, and `OnlyTheDeadlineDenies`
states, is that nothing else denies it: the queue moves on by itself, and a loyal
waiter is admitted unless its own deadline ends its wait first. The deadline may come at any time in the
model and the fairness does not count on it, so the property fails if the queue
stands still.

`ImplementsLease` maps the tables on `LeaseLock`: the holder is the token, it
has lapsed when no time is left, and the bearers that ended are those whose
handler is done. An end by a bearer whose lease was swept long ago then has to
leave the slot alone, and no bearer gets the slot twice.

### GraphicsRequests

Three parties settle a request: the handler that posts it, the client that
polls it, the pass of `reconcile_graphics_requests_once`. The pass reads all
rows (`ReadRows`), then waits for the core row by row (`AskCore`,
`CoreReplied`); `seen` is the snapshot it acts on and `late` the time it has
taken. A client's poll waits for the core as well (`Poll`, then `PollReplied` with the
answer in `polled`), so either may act on an answer when the other has settled the row. `job` is what
the core has, translated from `graphics_manager.py` (submission, the worker's end of a job, the public
state of a job, what a restart makes of the jobs on disk): it may take a job whose POST times out, lose
its jobs with a restart, or be out of reach. `used` is the counter of each day,
`Midnight` a step at any time.

The slot here is a holder and the time left, as `LeaseLock` allows it to be,
with `Others` for everybody else. `SlotFollowsRequest` is about requests: a job the core
took though the answer to its POST was lost still runs when its request is
failed and the slot is free (a hazard in PROJECT.json).

### GpuResidency

`unit[u]` is what systemd knows of a model unit: off, loading (up but not yet
healthy), ready, stopping (displaced by another that was started), or retrying (it crashed, or its
start was refused, and `Restart=on-failure` starts it again after five seconds). `pipeline`, `gpuLock`,
`file` are the pipeline, the flock and `model_state.json`. `mgr` and `gfx` are where the two managers
are: an operation (`switch`, `restore`, `ocr`, `boot`), its step, the model it brings
up, and how far its roll-back has come.

systemd is external and modelled from the unit template. A `systemctl stop` waits until the unit
is gone, and always succeeds, since the unit's stop timeout of 45 s is below the
callers' 60 and 90 s; so a run of stops is a step. A `systemctl start` is different: the
template has `Conflicts=` with every other model unit (`r740-model.service.in:6`) and neither
`After=` nor `Before=`, so the stops it causes run beside the start. In the model the
displaced units are `stopping` from then on, until `Stops` some time later, while the new one loads and
may answer. A start may succeed, fail
(`Flaky`) or outlast its caller (`Slow`, the `late` outcome: the caller gets an
exception and the unit goes on starting). A unit that is `Flaky` may also never
become healthy, and a `Crashing` one may crash whenever it is ready; a unit that
is sound and crashes while somebody waits for its health is taken to be back
before the wait, of minutes, is over. `Faults` switches on the deaths of the managers and an
orchestrator that stays busy for the three minutes graphics is willing to wait.

So `OneHeavy` says two things. Of the units all but one are off *or on their way out*: two may
overlap while one stops, and after a boot without the flock, a roll-back or a retry by systemd they
do. And the pipeline, which no `Conflicts=` knows of, is never built or kept beside any unit, not even one
that is stopping. The strict reading, `NoOverlap`, holds where no process restarts and the text models
start when they are told; this is proved (`OverlapTakesAFailure`), whatever crashes.

Each caller treats a failed start in its own way (`Raises`, `NotServedNext`):
`switch_model` and `rollback` check the exit status, `restore_default` and the
boot do not, and only `switch_model` catches the exception of a timeout.

Not in the model: the graceful stop of a manager (an operator's `systemctl
stop`), on which graphics releases its pipeline; a death is the harder case.

### GraphicsJobs

Who does what between two critical sections of `self.lock`: requests submit a
job in two of them (`ChecksEngine` looks at the engine, `Submits` queues), the
worker takes a job, becomes active, locks the GPU, waits for the orchestrator,
loads and draws; a release is asked for by a request, by the watchdog or by the
worker itself after a failure, and goes through `release_lock` in four steps
(`release[t]`). `ManagerLocks` is the model manager, which has the flock
whenever graphics has not. `pipeline` is the engine in the GPU, so that the
change of engine and the release are told apart.

One assumption on speed, `OthersPrompt`: a load or a drawing takes seconds, and
the last two statements of a release do not. What the code does not order
otherwise, any step may come between. `overtaken` is a history variable: once the
worker has locked the GPU between two statements of a release that found
neither pipeline nor lock, that release gives back the flock of the load
(`graphics_manager.py:586`), and the pipeline is in the GPU without it.
`PipelineAccounted` is about everything until then; that a job draws with the
pipeline of its engine, and that jobs and sessions end, holds after it too.

### InferenceRequests

`req[r]` is what a handler holds: its place, the model it wants, the reply it
waits for, what it will give back, and whether it has to restore. A call and
what the core does for it are two things. A call that is posted is in `calls`, on its way
through the gateway and a thread to the manager's locks, until the manager takes it (`ManagerTakes`),
finds itself busy, or it is lost; meanwhile the lease may pass to another request. `CallFails` stops the waiting,
`Cancelled` the handler, and what was posted goes on (`ManagerEnds`,
`EngineEnds`). A lease may lapse and a heartbeat fail at any time; only a
chat asks, before it posts a switch and after its answer, whether its lease still lives
(`await_with_live_lease`).

What a chat can rely on is therefore less than "whoever has the slot has the core":
a load posted under a live lease, or left behind by a cancelled handler, may begin in the
next holder's turn. `disturbed` is a history variable that names the chats under Auto to whom this
happened: in their turn the core began to load something that they did not
wait for. `AutoLeavesOrchestrator` is about all others: when the restore is reported under a live lease, the
orchestrator's model is active and the manager idle.

A handler may be cancelled wherever it awaits, and more than once: at its work, at a restore with an
error set or not, at a shielded call (first remembered, then given up), and
in the `finally` block while it waits for its heartbeat to stop
(`portal.py:2332`, `3932`, `4143`; `CutShort`). The last skips all that follows: the slot stays taken
until its lease is over, and a chat whose answer was generated stays charged with nothing handed on. `ChargedIffAnswered`
says so: one prompt if and only if answered, except for a request that was cancelled when its work was done
(`error` is `"late"`), which may stay charged for one prompt. `EveryRequestEnds` holds
nevertheless, since a lease that nobody renews runs out.

What the model brought to light and the properties state as it is: a cancelled
chat does not restore (it leaves its specialist loaded), but its call to switch
models, once made, goes on in the core, whatever the comment at `portal.py:3805`
hopes; an analysis of an image that is cancelled while it generates is charged,
one whose answer fails and whose restore then fails too is refunded twice
(`portal.py:4280`, `4297`); an OCR is charged once it was submitted.
`ChargedIffAnswered` is about chats, workflows and loads.

### WorkflowPlan and Workflow

`Plan` is `plan_workflow`, `Preview` the planner of `routing_planner.py`, both
as recursive functions over the tasks that remain. `Workflow` starts from any
graph of tasks, any models they are routed to, any default and any active model (the default, or a
specialist that an earlier request left loaded), with the plan
computed, and runs it call by call: each may fail, some after they had their
effect (`failures`), someone else may load or break a model once (`disturbed`),
and an image job may hang for ever. `goal` is what the next status has to
confirm. `PlansAreSound` compares the planners with a definition that
knows nothing of groups: every task once, after what it depends on, in a group
of its model; refused if and only if the graph has a cycle.

A POST whose answer is lost was taken before or never: that the graphics manager accepts it only after
the release that follows (`adapters.py:249`) is not modelled. `NoJobLeftBehind` says
nothing of such a job.

### LocalMcp

A connection has two ends: `handler[s]`, the portal's, and `held`, the
connector's. The connector reconnects as soon as it holds none, so the portal may
have handlers at work for several. Pairing apart, a handshake is three awaits: the greeting (`Authenticates`), the
signed challenge (`Proves`) and the manifest (`Accepts`). `asked` and `replies` are the messages under
way, `pending` and `call` the portal's futures. A call that timed out
and is answered later closes the connection ("call id inatteso"), since its
future is gone. A call sent over a websocket that the portal has closed raises past the
handler's `except` and is answered 500 (`"failed"`), not 504.

`Registers` follows the code in looking at its predecessor once: while it waits
for that one to be closed (`portal.py:1479`) a third connection may register,
and is then replaced without being closed. It stays open and is not called:
`orphans` are these, and `HubConsistent` and `ComesOnline` except them.

The rates that delay authentication, the audit and the texts of calls are left
out; consent is a choice.

### Accounts

A request is authorised once, from its session, and then goes on, however the
account changes (`at`, `by`): into the queue and on to a chat or an image, to a script or a run in the
sandbox, or to a change of password whose row was read before. `epoch` counts the
changes that have to end the sessions. `admin_delete_user` is three steps
(`Deactivates`, `RemovesSpace` or a deferral, `DeletesRows`). It looks at the lock and at
images that are not settled (`Pending`), and not
at the queue: a request that waits may be admitted during the second step, or reserve an image,
and the cascade of the third takes its lock and its row; it goes on without the slot, and
its release, which names its token, must leave the next holder alone
(`WorkersHoldSlot`, which excepts the requests of deleted accounts: an image of such an account may still
be drawn while the slot is free).

`guest` is the account named guest, if there is one. Many people share it, so it may have several
requests, no temporary password and nothing in the sandbox; and `sandbox_actor` refuses it with 403
also when an administrator deletes it (`portal.py:1983`, called at `5088`, inside the `try`).
Where a sandbox is configured, as here, its deletion is answered 503 each time
(`RefusesGuest`) and never ends. `DeletionEnds` is about the other accounts.

`space[u]` is the directory of an account with its row in the sandbox's
database: whole, `broken` when a step after it failed, or `stray`, a directory
without a row. A stray one keeps its account from ever having a space
(`mkdir` refuses), and nothing removes it. `late` are accounts whose space was made
again by a request that came after the removal; `NoSpaceLeftBehind` is about
spaces with a row, and excepts these. Leases do not lapse here: that is `InferenceQueue`'s.
`remove_user` is one step here: that two removals overlap (the portal gives up
after 20 s and asks again) or a run starts inside one is not modelled.

## 3. Runs

### That pass

| Run | States | Shows |
|---|---|---|
| `queue` | 989 thousand | slot and queue agree; no punctual holder displaced, no live waiter dropped; FIFO; implements `LeaseLock`; a loyal waiter is denied by its own deadline only |
| `graphics_requests` | 597 thousand | quota equals rows; the slot follows the requests; nothing abandoned in flight; every request settled |
| `gpu_safety` | 100 thousand | one heavy model but for units on their way out, and none of either beside the pipeline |
| `gpu_active` | 4 thousand | the state file names the model that is up |
| `gpu_liveness` | 37 thousand | a text model always comes back; OCR never left beside a booted manager |
| `graphics_jobs` | 88 thousand | a job draws with its pipeline; the pipeline is accounted for; jobs and sessions end |
| `inference_requests` | 343 thousand | charged if and only if answered, late cancellations excepted; Auto leaves the orchestrator's model; every request ends |
| `workflow` | 2.6 million | plans sound; the outcome true; no job left; one failure recovered; it ends |
| `local_mcp` | 905 thousand | hub and connector agree; a computer comes online |
| `accounts` | 1.0 million | sessions current; workers hold the slot; no space left behind; a deletion ends, but for Guest's |

Safety and liveness share a run where its size allows. `RefusedOnlyWhilePending` is proved and no longer run.

**Bounds.** *Queue*: four requests of three owners and a direct job, one of each
kind of handler. Two rows of one owner are needed for a refusal, three waiting
rows for a sweep between two others; every sweep and guard compares at most two
rows and the slot. Leases are 1 or 2 s: a lease matters when it is renewed,
running or lapsed, and 2 lets it be renewed half-way. The proofs hold
for every number and length. *Graphics requests*: two requests, a limit of one
a day, one midnight: enough for the second to meet the limit or the slot of the
first, and for a refund on the other day. The timeouts are the smallest with
the order of the shipped ones. `OpenRequestHoldsSlot` needs a margin,
`SlotLease > AcceptedTimeout + PostTime + 2 * PassTime`, `MarginAssumption`, and the run
has the least such value, 7; the code has 600 s of it, and a pass over the one row that can be
open takes ten seconds and a sleep of five. *GPU*: the shipped default, the
fallback and a third model besides OCR; all code that treats models differently
tells these apart. *Jobs*: two jobs of two owners and two engines, one place in
the queue: one job under way and one that waits or is refused, for the same engine
or the other; three releasing threads are all there are. *Requests*: a chat
under Auto beside a request of any kind, a second such chat included, which meets every
trouble (`Troubled`: cancellations, lost calls, lease and heartbeat) and whose account may be at its limit
(`DrawnBy`); two models, two prompts
a day: interference needs one disturber and one disturbed. The proofs are for any requests, all
of them troubled. *Workflow*: three tasks, which give every shape of chain, fork, join
and cycle; two text models and two transactional ones; two failures, one more than is to be
recovered; a release of 360 attempts is a choice between "ends" and "gives up". *LocalMcp*:
one computer (computers share nothing but the table they are in), three
connections at a time, as many as an overtaking needs, two calls, two versions
of the tools, one loss of the connector's end that the portal does not notice. *Accounts*: two
accounts, one of which may be Guest, and two requests, so that one deletion meets the other account's work
and its own; two projects; two changes and one fault in all.

**Faults of the GPU runs.** Each property is run under the largest set of
faults under which it holds. `gpu_safety` has everything but the restart of the
model manager; `gpu_active` has no restart (`Dependable` of the proofs), but units
that fail, except the fallback, and units that crash, the fallback too;
`gpu_liveness` lets all units but the fallback fail, the fallback crash, OCR be
late, the model manager die at any time. The rest is a violation or one of the
disagreements below, or a hazard noted in PROJECT.json: a restart of
the graphics manager does not bring back a unit that is active and never healthy.

**Fairness.** *Queue*: a live handler goes on polling (0.2 s) and ends its work,
since every upstream call has a timeout; time passes. Weak fairness on each;
nobody is obliged to enqueue, leave or look at a page, and no deadline is counted on. The direct jobs are
finitely many: an endless stream of them would starve the queue, and nothing in the code
stops one but the waiters' deadline, which refuses them. No property covers this (the hazard says so). *Graphics requests*: `background_maintenance` is an endless
loop, jobs end, the handler's POST has a timeout, time passes; clients need not
poll. *GPU*: a unit that is not flaky becomes healthy, one that was displaced stops, every wait of a
manager has a timeout, systemd restarts a dead process or unit (`Restart=on-failure`), and
a graphics session ends (fifteen idle minutes, or somebody releases it).
No fairness makes anyone ask for a switch. *Jobs*: the worker and each release
go on (all they wait for has a timeout) and the watchdog looks every two
seconds. *Requests*: handlers go on, the manager takes what reaches it and the core ends what it has, as its own
timeouts make it; calls need not fail; the lease of a handler that is over runs out. *Workflow*: the executor goes on; jobs
need not end. *LocalMcp*: handlers go on, the connector reconnects and notices a
closed connection, a call ends with its timeout; nobody need consent. `ComesOnline`
supposes that account, device and tools stay as they have to be from some time on.
*Accounts*: requests and the steps of a deletion go on, and an administrator who was told
"retry" does; `DeletionEnds` supposes that the account is not Guest, that nobody activates it again
and that scripts stop running at some time, since an attempt that finds the
sandbox busy is deferred, and each may.

### That find a violation

Each checks one sentence of the documentation or of a page.

| Run | The sentence | What happens |
|---|---|---|
| `gpu_unlocked_boot` | "one heavy GPU model at a time" | the model manager restarts during a graphics session and starts the default, without the flock, beside the pipeline |
| `local_mcp_revoked` | "the connection will be closed at once" | a computer revoked while its new connection waits for the old one to close stays connected, until a call is attempted |

### Other disagreements, seen while modelling

They were found with the same models, and have no run of their own.

| Where | The sentence | What the code does |
|---|---|---|
| `graphics_manager.py:514` | "active = the model now in the P40" | graphics gives up waiting for a chat to end and restores a model of an earlier session; the state file keeps naming the one it displaced (`ActiveIsResident` with the fault "inference never idle") |
| `model_manager.py:457` | "use Qwen3-8B only as safety fallback" | a start of the default that outlasts 60 s raises past the fallback (`TextComesBack` with the default in `Slow`) |
| `graphics_manager.py:662` | "default = the model restored after ... graphics" | graphics restores the model that was active before it |
| `orchestrator.py:405` | "make this model the persistent default" | `set_default` is dropped on the way to the manager (`Forwarded`) |
| `graphics_manager.py:586` | "one GPU lock [is] retained" | a release overtaken by a load gives its flock back (`PipelineUnderFlock` without `~overtaken`) |
| `portal.py:4280` | "can never apply the same reservation twice" (of chats) | vision refunds twice when answer and restore both fail |
| `portal.py:5095` | "account deactivated but sandbox space not deleted: retry" | with a sandbox configured, deleting Guest is answered so each time, for ever (`DeletionEnds` without `u # guest`) |

## 4. Proofs

Every safety invariant and every action property a passing run checks is a
theorem here, and so is the refinement: for every value of the constants that satisfies the named
assumptions. In each module `Invariance` (`InvariantHolds`,
`ResidencyInvariant`) is the inductive invariant `IInv`, found with TLC and then
proved action by action; the listed properties follow from it.

### InferenceQueueProofs

For every number of requests, owners and jobs, every
length of lease and every assignment of roles. From
`HoldersAssumption` (jobs, requests and the empty token are distinct),
`LeaseAssumption` (leases are positive) and `RolesAssumption`.

* `TypeCorrect`: types.
* `InvariantHolds`: the inductive invariant. `SlotMatchesQueue` is not inductive
  alone: that a poll may admit only a row that is not active elsewhere needs the
  link between `pc` and rows (a row is active only if its handler has been
  admitted; a token was drawn only if so), and the punctual ones need
  "time is left" between ticks. `IInv` is these conjuncts with the type
  invariant, each proved action by action.
* `SlotAgreesWithQueue`, `PunctualHolderSafe`, `LiveWaiterSafe`: the invariants.
* `FirstComeFirstServedHolds`, `RefusalIsJustified`: the action properties.
* `TablesImplementLease`: the refinement: initial states map to initial ones
  and each step to a step of `LeaseLock` or a stutter.

The lemmas before them say once what each sweep does to a row, and are cited by
the step of every action that begins with that sweep.

### GraphicsRequestsProofs

For any finite set of requests, any limit, days and times in the order of the
shipped ones, with the margin; from `RequestsAssumption`, `TimesAssumption` and
`MarginAssumption`.

* `EachRefundedOnce` is about a cardinality: each step that settles a row takes
  exactly one request out of the set `Charged` of its day, and gives back on that day. It needs
  that the handler has no row before it reserves (`Handled`).
* `LeaseOutlivesRequest` needs the most. Only a client that
  polls and a pass that finds the job running renew a lease, and the core may never
  answer them, so the proof has to bound the lease from below at all times: `LeaseOutlivesRow` says that what is left of it is at least the
  full lease less the age of the row (and less the POST, once it is accepted),
  and, since a row's age is counted up to `MaxAge` only, less the time-out and
  the time the running pass has taken since it read the row (`LeftOf`).
  The margin is what makes this positive: a row is too old at most one pass before
  a pass reads it, and given up within that pass. `PassInv` says that what the pass is
  going to do was due when it read the row.
* `PostedInPeace`: a POST ends before its row is old enough to be expired.

### GpuResidencyProofs

For any set of text models, any units that fail, hang,
crash or are late; from `UnitsAssumption` (OCR is not a text model, the shipped
default and the fallback are).

* `TypesHold`: types.
* `ResidencyInvariant`: the inductive invariant `IInv`, for **any** faults; that all
  units but one are off or on their way out (`AtMostOne`) is part of it, since a start leaves no other in a
  state from which it would stay. That
  OCR is confined cannot be shown by itself: OCR must not even be stopping, and the step that starts a text model
  has to know that OCR was stopped before, which only its place in the operation
  says (`OcrWhere`); that the stop did it needs `AtMostOne`, since a switch stops
  text models only; and that graphics does not start a unit in the middle of an
  OCR transaction, or the reverse, needs `LockHeld`.
* `OcrConfinedHolds`: the invariant of `gpu_liveness`, under any faults.
* `OneHeavyHolds`: the invariant of `gpu_safety`, when the model manager is not
  restarted (`NoRestart`; `gpu_unlocked_boot` shows the assumption is needed).
  `RInv` adds that the manager never boots and that nothing is up from the
  moment graphics has stopped the text models until it releases
  (`GraphicsAlone`): OCR is not among the units it stops, and is off because
  graphics holds the flock; the text models are gone, and not only going, because it stops them
  and does not rely on `Conflicts=`.
* `ActiveIsResidentHolds`: the invariant of `gpu_active`, under `Dependable`: no
  death and no orchestrator that stays busy, no text model that outlasts the
  time-out of its start, a fallback that can be relied on. Other units may fail, and any
  may crash. Each of the three conditions excludes one of the disagreements of
  section 3. `AInv` adds to `RInv` who is at work while the
  flock is held (`OneAtWork`), that a rollback brings up the fallback
  (`FallbackLast`), that what graphics will restore is still what the file names
  (`RestoresActive`), and that between operations no other text model is there,
  retrying ones included (`ActiveOnly`).

* `OverlapTakesAFailure`: strictly one unit (`NoOverlap`), under `TextsAreSound`: no death, no busy
  orchestrator, and text models that start when told; OCR may fail or be late, and all may crash. `OneByOne` adds to
  `AInv` that whoever is about to start a unit finds the others off. So it takes a failure or a
  boot for two units to meet at all, and then `OneHeavyHolds` bounds it to one that goes and one that comes.

One step of the invariance proof for each action, grouped by who takes it
(manager, graphics, systemd, deaths), rests on what `Starting` and `Stopping`
say of the units.

### GraphicsJobsProofs

For any jobs, owners, engines and limits; from `JobsAssumption`.

* `PipelineOfTheJob`, without any condition on what overtakes what. It is
  inductive with `ActiveIsTheWorkers` (a release looks at the active job, which
  is the worker's from the critical section in which it was taken to the one in
  which it ended) and `JobsHaveEngines`.
* `AccountsTellTheTruth`: until `overtaken`. A release and a job are apart then
  because a release has taken the pipeline out when it goes on, and no job is
  loading (`ReleasesAlone`), because a job loads under the flock
  (`LoadsUnderFlock`), and because `release_lock` lets in one thread at a time
  (`OneReleases`). The step that makes `overtaken` true is the one that breaks
  `ReleasesAlone`.

### InferenceRequestsProofs

For any requests of any kinds, any models and any daily limit; from
`KindsAssumption`, `ModelsAssumption` and `LimitAssumption`.

* `ChargedWhenAnswered`: the invariant is about one handler at a time
  (`HandlerOf`): at each place, whether its prompt is reserved and whether it has answered.
  The paths that end a request meet in a few places, and there the invariant
  tells them apart: a chat that gave its prompt back has an
  error or could not restore, one that did not has an answer. `CutShort` may take a handler out
  of the last place, with the prompt drawn once at most.
* `AutoRestoresOrchestrator`: the restore a chat waits for is a call to load the orchestrator's model
  (`CallsSound`), and once it is answered, the chat holding the slot and not `disturbed`, the model is
  active and the manager idle (`RestoreLasts`): whatever was posted before and begins now is what
  `disturbed` records.

### WorkflowProofs

For any finite set of tasks, any models, dependencies and routes, and any number
of failures from one; from `TasksAssumption`, `PlanModelsAssumption` and
`WorkflowAssumption`.

* `PlannersAreSound`: what both planners compute, for every number of tasks. The
  planners are recursive functions on sets of tasks, and the theorems of
  the library that would give their value by induction take an operator as a
  parameter. The proof goes by descent instead: a set of numbers
  in which each has a smaller one is empty (`NatDescent`, from `WFMin`), hence so
  is a set whose elements have sizes that can always be made smaller
  (`Descent`); applied to the sets of tasks on which a recursion might fail to have a
  value, it shows that a function as these are defined satisfies its equation
  (`Unrolls`); applied to those on which a planner might be wrong, that there are none. A planner is
  stuck exactly when every task that remains waits for another, and a finite
  set of such has a cycle.
* `PlansStaySound` follows, since the plan of a state is what `Plan` computes (`PlanAsMade`).
* `OutcomeStaysTrue`: `WorkRemains` says that what is done and what is still ahead
  is in order and together everything; `GpuKnown` what the executor may
  believe of the GPU at each place.
* `JobsAreReleased`: graphics is busy only where the executor polls or
  releases (`JobReleased`).
* `OneFailureCostsNoModel`: `NoFailureYet` gives the state of the GPU as long as
  nothing failed, `OneFailure` that the restore after the first failure is confirmed.

The proof found a fault of the model: two guards of a CASE in
`ReadsStatus` overlapped, where TLC takes the first and TLA+ leaves the choice open.

### LocalMcpProofs

For any connections, calls and schemas; from `DropsAssumption`,
`NoneAssumption` and `SchemasAssumption` (there is some version of the tools).

* `HubStaysConsistent`: that what is registered has a handler
  (`RegisteredIsHandled`) and that an accepted connection has the pinned schema
  already while it waits for its predecessor (`AcceptedMeetThePin`) are what the
  step that makes it live needs. `TypeOK` bounds the calls under way by their
  number; in the proof they are none or one (`OneCall`).

### AccountsProofs

For any accounts and requests and any number of projects, changes and faults;
from `BoundsAssumption` and `NoOneAssumption`.

* `SessionsStayCurrent` and `WorkersKeepTheirSlot` are kept by each step with
  little beside the types; `TypeCorrect` includes that no two accounts have the same
  project (`ProjectsDiffer`) and that the sandbox's lock is that of the one run (`JobRuns`).
* `DeletedLeaveNoSpace` needs what holds between the removal of a space
  and that of the rows (`RemovedOrLate`), and that nobody activates a
  deleted account (`DeletedInactive`).

### Only model-checked

Liveness: TLAPS has no fairness or `ENABLED`. These are `OnlyTheDeadlineDenies`,
`EveryRequestSettles`, `TextComesBack`, `EveryJobEnds`, `SessionEnds`,
`EveryRequestEnds`, `WorkflowEnds`, `ComesOnline` and `DeletionEnds`. And the two
violations, which are counterexamples.

## 5. Not modelled, and the plan

Proofs still to do: that every step of `GraphicsRequests` and `InferenceRequests`
on the slot is one `LeaseLock` allows, which so far is by construction.

Modelled in part (PROJECT.json says what is missing): the orchestrator's
semaphore for callers that bypass the slot; the parts of `remove_user`;
qualification of models; first setup, login throttling and expiry of sessions.

Not modelled:

* conversations, documents and their retention, the artifact policy: storage
  and validation, each operation one transaction and a file;
* the tools service (a daily count besides fetching; it gives a use back on the
  day of the refund, a hazard in PROJECT.json), the parser;
* the factory page, configuration, browser pages, installation and
  registration scripts, SBOM: no state of the running system.

## 6. Conventions

Definitions keep the names of the code where they have one; PROJECT.json's `map`
gives the lines each stands for. `Bug_...` definitions are mutated forms of the
definition they precede: no action uses them, and they
show that the property would notice. Runs: `tlc -config X.cfg MCX`;
proofs: `tlapm X.tla` for each of the eight `...Proofs` modules; the longest, `WorkflowProofs`,
takes several minutes.
