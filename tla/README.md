# A TLA+ development of the Local GPT-Image Agent

The program is a Python HTTP bridge between local agents and ComfyUI
(`local_image_bridge_v03.py` and the `bridge_*.py` modules), together with a
deterministic agent that edits ComfyUI workflow graphs (`workflow_*.py`,
`reasoning/`, `planner/`, `capability/`, `memory/`).  This directory holds TLA+
modules of its parts, the TLC configurations that check them on small instances,
and proofs for every instance that TLAPS checks.  `PROJECT.json` maps each
definition to the lines it models.

## Inventory

| Part | State | Operations | What is hard | Module |
|---|---|---|---|---|
| Task store (`bridge_task_store.py`) | task records in a dict, `tasks.jsonl` | `new_task`, `get`, `update` | fields are assigned before the append that may raise; `get` hands out the live record | `BridgeTasks`, `TaskPoll` |
| Queue and workers (`bridge_worker.py`, `bridge_executor.py`, `bridge_retry.py`) | `queue.Queue(maxsize)`, thread locals, stop events, one child process per attempt | the loop of a worker: take, two cancellation checks, RUNNING, retry loop, SUCCEEDED or FAILED, `task_done` | interleaving with the cancel endpoint, time-outs, retries, exceptions at every store update, shutdown | `BridgeTasks` |
| Submit and cancel handlers (`local_image_bridge_v03.py`, `bridge_cancel.py`) | a thread per request, the registry of cancelled ids | `POST /submit`, `POST /task/{id}/cancel` | unlocked reads of `task.status`, a blocking put | `BridgeTasks`, `Generation` |
| Counters and histograms (`bridge_metrics.py`, `bridge_observability.py`) | two dicts under locks | `inc`, `observe`, `GET /metrics` | agreement with the task table | `BridgeTasks` |
| Rate limiter and API key (`bridge_security.py`) | a token bucket per key | `allow`, `check` | stale clock readings, a wall clock that is set back | `RateLimiter` |
| Task queries and clients (`GET /task/{id}`, `bridge_client.py`, `qwenpaw_flux_image_mcp.py`, `load_test.py`) | a client's deadline and what it has been told | submit, poll until a terminal status | torn reads, a status the client does not know, a restart that loses the task | `TaskPoll` |
| Request path (`parse_request_body`, `normalize_request`, `bridge_policy.py`, `bridge_workflow_router.py`, `bridge_job.py`) | none | defaults, routing, patching of node inputs | precedence of request, policy and profile; two patch tables | `RequestPath` |
| Generation (`generate_image`, `bridge_job.py`, `run_comfy_once.py`) | workflow files, ComfyUI's history and numbering, the folders of images | read, patch, submit, wait, download | files edited between two reads; images of one name; a prompt that fails half way | `Generation` |
| Agent service (`workflow_agent_service.py`, `/agent/apply`) | the workflow file | dry run, apply | the file that was checked is read again | `Generation` |
| Experience memory (`workflow_memory.py`, `memory/`) | JSONL files | `remember_experience`, `append`, `load`, `search` | check-then-append, lines torn by a crash | `ExperienceMemory` |
| Agent pipeline (`workflow_agent_pipeline.py`) | none between requests; in a run, the results of the stages and the gates | `run`: reason, decide, plan, dry run | which ops pass which gate, what a stage that raises leaves behind | `AgentPipeline` |
| Reasoner and decision engine (`reasoning/`) | none | observe, hypotheses, scores, strategy; candidates, guardrails | thresholds, two rankings of one strategy | `Reasoner`, `Decision` |
| Planner (`planner/`) | none | plans from intent, text and strategy; validate, cost, rank, select | limits, a cut that hides a usable plan | `Planner` |
| Workflow editing (`workflow_ops.py`, `workflow_validator.py`, `workflow_diff.py`, `workflow_self_check.py`) | a workflow graph | `add_node`, `remove_node`, `set_input`, `connect`, ... | dangling links, fresh node ids | `WorkflowEdit` |
| Capability manifests (`capability/`, `workflow_capability.py`) | a cache file per content of a workflow | `get`, `put`, detection | a file read or written while it is written | `Capability`, `CapabilityCache` |
| Target resolution, graph walks, rule planner, matcher, knowledge engine, logging, node registry | none | look-ups, text and output | see "Not modelled" | |

The parts meet in six places.  The handlers, the workers and the cancel
endpoint share task records; each `TaskStore` call is atomic, reads of a
record's fields are not.  Handlers and workers share the bounded queue.  A
worker and its child process share one `mp.Queue` and the join time-out.  Every
POST passes the rate limiter first.  Handlers, workers and the people who edit
workflows share the workflow files, and all ways to an image share ComfyUI and
the folders the images go to.  The handlers of capability queries share the
cache directory.

## Modules

`TaskLifecycle` is the abstract specification of one task's life, free of
threads: PENDING, RUNNING, then SUCCEEDED or FAILED, each arrow once, and only a
cancellation request lets a status be written over.  The phases
absent, waiting, claimed, running and closed say who is responsible for the task.
What departs from that is a slip: a task that is stored and never queued, one that
stays RUNNING with nobody at work on it, a SUCCEEDED that turns into FAILED.  Each
slip costs an append to the task log that raises.  `Restart` empties the store.
Two modules implement it: `BridgeTasks` with its `faults` as the slips and no
restart, `TaskPoll` with restarts and no slip.

`BridgeTasks` is the detailed model.  A step is a stretch of Python between two
points at which another thread can look: one `TaskStore`, queue, registry or
counter call, or one unlocked read of `task.status`.

| State | Code |
|---|---|
| `status`, `retryLimit`, `attempt`, `result`, `error` | the fields of `Task`; `attempt` is `normalized_request["__attempt"]` |
| `submit` | where the `/submit` handler of the task is: `new_task` done, `put` done, or 500 answered |
| `queue`, `unfinished` | the items of `queue.Queue` and its count of unfinished tasks |
| `cancelled` | `bridge_cancel._cancelled` |
| `pc`, `cur`, `held` | a worker's place in `_loop`, its `task_id`, and its local `result`, which survives from one task to the next as the Python local does |
| `child` | the process `run_with_timeout` waits for |
| `prompts` | prompts ComfyUI has accepted for the task |
| `cpc`, `ctask` | the cancel handlers |
| `succeeded`, `failed` | `bridge_metrics` |
| `stop`, `down` | stop events; the end of the process |
| `faults`, `early` | appends that have raised; history of cancellations registered in time |

Results are the task whose generation they came from; requests are reduced to
their retry limit, which may be `Malformed` (a value `int()` rejects, or a
malformed back-off).  A malformed time-out raises inside the attempt and behaves
like an attempt whose child raises at once.  A join that times out is
`AttemptFails` with any child that has been started: no clock is modelled, so
every relation between the time-out and the generation's length is covered.  An
append that raises is a choice at each `update`, up to `MaxLogFaults` times, and
goes where the exception goes: into the `except` that swallows it, into the one
that writes FAILED, or out of the thread.  The latency samples, the log lines
and the texts of errors are left out.

`TaskPoll` opens the one step of `BridgeTasks` that its clients can see into.
`TaskStore.update` assigns the fields of a task one after another with the lock
held; GET finds the task with the lock and then reads the live object field by
field without it.

| State | Code |
|---|---|
| `task` | per client the record its `/submit` has made, times reduced to whether they are set, a result to whether it is there |
| `lock` | `TaskStore._lock`: the task that is updated, the fields still to be assigned, the record as it will be |
| `work`, `cancel` | the places of the task's worker and of the handler of its cancellation |
| `registry` | `bridge_cancel._cancelled` |
| `client` | `submit_and_wait` or the load test's `run_one`: its place, the fields of the answer read so far, whether its deadline has passed, its verdict |

`generate_flux_image` on top of `submit_and_wait` turns a success without a
result into an empty one, the verdict `EMPTY`.  The worker takes the task from the
queue before it looks at its status, without the lock (`work` is "taken" in
between).  Retries and appends that raise are left to `BridgeTasks`.  `Restart` empties the store and ends
every thread: `tasks.jsonl` is written and never read, so a client of a task
from before gets 404.  A poll that fails may also end the load client, whose
`http_json` lets some exceptions through.

`RequestPath` has the pure part of a request's way: `normalize_request`, the
policy of `/submit`, the router, the two patches of a workflow's inputs, the
merge of `/agent/apply`.  A value is reduced to its origin (`top` level, `nested`
second place, `default`, `policy`, `random`, `op`, `file`), and to `null`, `bad`,
`negative` or `zero` where the code treats these differently.  A graph is its
nodes, who is linked to, whether a link has lost its source, whether the nodes
are under a "prompt" key, which of the inputs a patch may write the classes of its
nodes take, and the origin of the value of each.  ComfyUI overlooks an input that
the class of a node does not take, so a patch of one changes nothing.

`Merged` lays the keys of `generation` over those of the request, an explicit null
included, which turns a prompt that is there into a missing one.  Objects nested
in `generation` itself (a prompt object, an output object) are left out.

`Generation` runs requests through it, along four ways.  A step ends at a read
of a workflow file, a call of ComfyUI or an image written.

| State | Code |
|---|---|
| `job` | a request: its place, the normalised `values`, the `path`, the `limits` and the `audit` of a task, the `plan` of a dry run, what was `read`, the `graph` to be submitted, the images still to be saved and those saved |
| `file` | the workflow files; the version is history, raised by each edit |
| `entry` | what ComfyUI's `/history` has of the job's prompt |
| `numbered` | how many images ComfyUI has numbered in a folder of a server |
| `saved` | the folders of images: which image a file name has |

`SyncReceive`, `SyncPrepare` and what follows are `generate_image`; `OnceStart`
is `run_comfy_once.py` with its own defaults; `ApplyCheck` the dry run of
`/agent/apply`, from where `generate_image` takes over with another read of the
file; `Checked` refuses a dangling link only to a request that asks for a safe plan
(`require_safe`, the default) without `force`.  `AsyncAccept` and `AsyncPrepare`
are `/submit` and one attempt of a worker.  A negative `max_retries` leaves no
attempt (`AsyncUnattempted`; what the worker stores then is `BridgeTasks`'
subject).  With a time-out of 0 or less the child is killed at once, but it is
already running: how far it gets is left open.  With a negative one it may at most
submit the prompt, since its own deadline is past before it looks (`NoTimeToLook`);
a 0 is read as 900 seconds there (`bridge_job.py:160`).
The ops of a request are one representative: it sets an input, removes a node
without pruning, or raises; `WorkflowEdit` has the ops one by one.  ComfyUI is
external and does what the code relies on: it refuses a graph with a link
without source or without nodes, and numbers the images of each folder.  A
prompt may fail after its first image, an image may have no name, a node may put
out something else.

`RateLimiter` models `RateLimiter.allow`: reading the clock and deciding under
the lock are two steps, and the clock moves anywhere between them.

`ExperienceMemory` models `remember_experience` on one JSONL file.  The handlers
share it without a lock: loading the file and looking for the id is one step,
the append at its end a later one.  A record is reduced to its id, a line to
what can be read from it: a record, text that is not JSON (`Bad`), or bytes that
are not UTF-8 (`Garbled`).  An append is one write; a full disk may cut it
before the newline, inside the text or inside a character, and the request then
fails.  `Restart` forgets the threads and keeps the file.  `rewrite` has no
caller and search only reads, so neither is modelled.

`Capability` is the detector of what a workflow can do: the registry's 21
capabilities with their keywords and dependencies, the score of a keyword
match, inference, status and confidence in hundredths.  A node is the set of the
registry's keywords that occur in its class or inputs.

`CapabilityCache` puts it behind the cache.  A handler reads and hashes the
workflow once, looks for the file of that hash, and if there is none or a
refresh is asked for builds the manifest and writes it.

| State | Code |
|---|---|
| `content` | the workflow files |
| `cached` | the file of each content's manifest: absent, or the pieces it holds, each known by its manifest and number |
| `version` | the registry's, which may differ after a restart |
| `handler` | a handler's place, the content it has read and the name it was asked for, how far its `put` has come, the pieces its `get` has read (`seen`), whether it had the file for itself, its answer |
| `spoiled` | history: what a put has left in pieces, and none has repaired since |

`put` truncates and writes at its own offset, so two overlapping puts mix.  `get`
opens the file and reads it piece by piece, and so may see a part of a put, or
pieces of two.  How many pieces a manifest has is a constant, `Pieces`, any number
for each: manifests of two names or of two times may be of the same length, and
then pieces of several may make a text that can be read.  The model leaves open
whether it can (`Pieced`); an answer read that way is "pieced" and known as such.
What a piece holds is otherwise left out: two puts of one manifest differ in the
time they note, which here they do not.  Opening the file for writing may fail and
leave it as it is, writing may fail after any piece.

`WorkflowEdit` models one call of `apply_ops` and the self check of its result.

| State | Code |
|---|---|
| `before`, `prompt` | the workflow that was passed in; the deep copy `WorkflowEditor.prompt` |
| `pc` | in the loop over the ops, returned, checked, or left by an exception |
| `ops` | ops carried out, the length of `planned_ops` once the call returns |
| `report` | `safe_to_submit` and the kinds of the risk hints |
| `careful`, `removed`, `dangled` | history for the properties; the code has nothing like it |

A node has a class and its inputs, an input is absent, a value, or a link to a
node id.  Ids are numbers and labels such as `11:742`.  The ops of a call are
not given in advance: after each op any other may follow, which covers every
list of ops up to the bound.  Which node a target is resolved to is left to the
resolver; here it is any node, and an op whose target is not resolved raises.
`validate_workflow` and `diff_workflows` are the operators `Valid`, `Warned`,
`Changed` and `LinkChanges`.

`AgentPipeline` models one call of `AgentPipeline.run`, an action for each way a
stage can end.

| State | Code |
|---|---|
| `pc`, `gates`, `answer` | the next stage; `gates` of `run`, as stage and `passed`; `status`, `selected_ops` and `apply_request` of the result |
| `policy` | `PipelinePolicy`, the four flags that control the run |
| `workflow`, `reasoning` | what there is to observe in the workflow; goal, observations, strategy, warnings and `safe_to_auto_plan` of the reasoner |
| `decision` | status and `selected_ops`; the policy is history for a property |
| `plan` | `success`, `ops` and the source of the plan that was selected |

The stages are pure, and so are the modules they come from: `Reasoner`
(observation, hypotheses, scores, strategy, suggested ops), `Decision`
(candidates, guardrails, overall status) and `Planner` (candidate plans,
validation, costs, scores, selection), on top of `Ranking`, which has the
order of Python's tuple keys.  Their numbers are exact: hundredths and
products of them, where Python computes in floating point; thresholds are
whole hundredths or NaN.  A list in the order of its scores is a set with a
rank.  The parts of a request are chosen when they are first read: the goal and
the semantics (the workflow's own or the client's) by the reasoner, the
thresholds by the decision engine, the rest by the planner.  What the regular
expressions find in a text is an input, and so is what `or` makes of the names a
field may have: a 0 passes only under the last one (`IntentActions`).  A stage may raise at any time; the
comments say what makes it.  Whether a dry run of ops that set values is safe is
left open, `WorkflowEdit` being about that.

Each `MC` module gives the constants of its module values, and each `Proofs`
module holds the theorems about it.  The faulty variants in the modules are
slips the code might have made; each breaks one of the properties, which shows
that the property looks at the code.

## Runs

| Run | Instance | Shows |
|---|---|---|
| `tasks_cancel` | 2 tasks, 2 workers, 1 cancel handler, queue of 1, limits malformed, 0 and 1 | `OneOwner`, `AttemptBudget`, `CancelBeforeStart`, `QueueBalance` |
| `tasks_drain` | 3 tasks, 2 workers, queue of 1, limit 1, fairness | every accepted task is settled (`Progress`) |
| `tasks_degraded` | 2 tasks, 1 worker, 1 cancel handler, unbounded queue, limits -1 and 0, two failing appends, shutdown, fairness | `NoTaskLost`, `FaultsArePaid`, `ResultIsOwn`, `ResultOrError`, `MetricsAgree`, `StopExits`, and that the threads implement `TaskLifecycle` (`ImplementsLifecycle`) |
| `tasks_cancel_race` | 1 task, 1 worker, 1 cancel handler | violated: a task set CANCELLED is run (CHANGELOG_P2.md:73 says it reliably stays cancelled) |
| `task_poll` | 1 client of either kind, 1 failing poll, 1 restart, fairness | `RecordIsWhole`, `VerdictStands`, `TornOnlyWhileWriting`; a client learns of the end of its task (`LearnsTheEnd`); a task's life as its clients see it is that of `TaskLifecycle` (`ImplementsLifecycle`) |
| `generation` | 2 requests, one of 19 for every way through the code beside one that shares its files, server or folder; 4 file names, 1 edit, 3 outcomes of a prompt, fairness | `ReportedIsSubmitted`, `AuditNamesWhatRan`, `AppliedAsChecked`, `SavedImagesStay`, `AnswersAreComplete`; every request ends (`EveryRequestIsAnswered`) |
| `generation_profile` | the same | violated: a request's `profile` never selects a workflow, because `normalize_request` has named one before (README.md:45) |
| `memory` | 3 handlers, 2 records, 2 appends cut short, restarts | `DuplicatesBounded`, `LossBounded` |
| `capability_cache` | 2 handlers, 2 names, 2 contents, manifests of 1 or 2 pieces, 1 edit, 1 failing put, 1 restart | `AnswersFitTheWorkflow`, `BrokenIsExplained`, `AnswersGrow` |
| `workflow_edit` | 3 workflows of 2 to 5 nodes, 2 classes, 1 input, ids to 5 and a label, 3 ops | `CarefulEditsKeepSources`, `NextIdIsFree`, `ReadyKeepsTheGraph`, `OverEditNeedsRemoval` |
| `agent_pipeline` | 1 workflow, 6 semantics of a client, all goals, 5 decision policies, all 16 pipeline policies, 36 plan requests | `ReasonedOpsWereAccepted`, `ReadyValuesInRange`, `NothingAcceptedByDefault`, `OnlyRangeBlocksAnAcceptedOp`, `UsablePlanIsTaken`, `ObservedStepsFollowTheGoal` |
| `rate_limiter` | 2 threads, 2 keys, capacity 3, cost 2, clock readings 0..5 | `RateBound` under every order of stale readings |

Two tasks and two workers make every race between owners happen, and the cancel
handler may run again and again, before and after every step of the worker, so
one of it is enough for the races of one cancellation with one worker; two
cancel handlers would race with each other only in writes of the same values.
A queue of one slot makes put block with two tasks waiting.  Three
tasks are needed for one to wait in the queue and one in `put` while both
workers are busy.  The
limit 1 gives two attempts: a first one that is retried and a last one that is
not.  The limit -1 gives none, and the worker may then have a result left from the
other task.  Two appends that raise are enough for harm of two kinds, or for two
at one task: the SUCCEEDED of a task and then the FAILED written over it.  The clock
has six readings, more than the refill a full bucket has room for
above one request's cost, so a bucket is emptied, refilled in part and capped.

The clients of `task_poll` meet at the lock of the store only, where one waits
for the other; one client with its worker and its cancel handler has every
reading of a record in the middle of an update.  One failing poll makes the two
kinds of client differ, one restart loses the task at every place of all four.

The requests of `generation` cover the places a field can come from, malformed,
negative and zero values, keys laid over by `generation` and nulls, the three kinds
of workflow names, both templates and the wrapped one, every kind of op, `force`
and `require_safe`, and limits that leave a task without an attempt or a look at
`/history`; two of them share a folder, an
image number or a file.  One edit may fall before, between and after the reads
of a request.  The proofs are for any number of requests, edits and outcomes.

Two handlers overlap in `put`, or in `put` and `get`.  The small workflow's
manifests are of one piece under one name and of two under the other: the shorter
one leaves the tail of the longer, the longer one a hole.  The large workflow's
are of two pieces under both, so a mixture of them has the right length.  The
instance reaches a file, and a read, of pieces of two manifests, a read of a file
that has been truncated since it was opened, and a hit under the other name.  Longer
manifests, in which a put may overtake a get, are covered by the proofs.  The large
workflow of `capability_cache` has ready, missing and inferred capabilities, and
all nodes of the small one.  One restart between two puts gives a hit from an
older registry.

Three handlers make two of them append what a third has just stored; two cut
appends make a cut line glued to another cut line.  The file needs no bound of
its own: every record a handler looks up is found once it is there, so a file
without cuts holds a record three times at most, and each cut adds a few lines.

Three ops are enough to remove a node, add another under its id and link it, and
to change the graph and change it back.  The hub with four nodes linked to it is
the smallest workflow in which one removal changes more than three nodes, where
the over-edit hint begins; the pair with a label shows that links to ids that
are not numbers are pruned too; the third has a link without a source from the
start, which the next free id takes over.

The semantics of `agent_pipeline` have few, many and too many steps (298 + 6 is
out of range), none at all, several samplers, unknown nodes and flux; the
policies are the default, one that accepts the leading op of most goals, one
that asks for `safe_to_auto_plan`, one whose thresholds are NaN, and one that
admits ops that cannot be executed.  The requests give none to three plans, some
of them unsafe, every priority, and fewer candidates than plans.  Goals and
pipeline policies are complete; what the other inputs may be is proved without
bounds.

`Symmetry` permutes tasks and workers (handlers and records in `memory`,
handlers in `capability_cache`) and is used with invariants only, never with
liveness or a refinement.  Deadlock is checked in `tasks_cancel`,
`tasks_drain`, `memory` and `rate_limiter`: an idle worker always wakes from
`get` after half a second, and an idle handler takes the next request.  In
`tasks_degraded` the process may end, in `task_poll` and `generation` every
request comes to its end, in `workflow_edit` and `agent_pipeline` the call
returns, and in `capability_cache` a handler may have nobody to ask it, so it is
not checked there.

Fairness: each worker thread is scheduled while the process is up, `p.join`
returns by its time-out at the latest, and a waiting `put` is woken when there
is room (a waiting put may lose a freed slot to another put, but with finitely
many tasks not for ever, and weak fairness asks no more).  Nothing is assumed of
the child process, of clients, of cancellation or of Ctrl+C.  In `TaskPoll` the
calls that need the store's lock get it in the end (strong fairness, since
others take it in between), and threads and clients that need no lock go on;
nobody has to cancel and no deadline has to come, so `LearnsTheEnd` holds
without a time-out's help.  In `Generation` the thread of a request goes on: a
wait ends by its time-out, a call of ComfyUI by its own.  ComfyUI itself need
not do anything.

`CancelBeforeStart` is the true core of the documented cancellation: a request
registered before the worker has made its two checks is honoured.  It needs the
task log to be writable, because `bridge_worker.py:84` swallows the exception of
the update and goes on to run the task.  `NoTaskLost` counts
the tasks shown PENDING or RUNNING that nobody will work on, those whose worker
has died with them in hand included: they are no more than the appends that have
raised.  A task in the queue of workers that have been stopped is not among them.
`FaultsArePaid` is what is left of the other promises when the log cannot be written: an append that raises costs one thing at most, an orphaned task, a worker
thread, a cancellation in time or a result shown as FAILED, and nothing of the
kind happens without one.  `ResultOrError` and `MetricsAgree` hold with
cancellation and faults: the endpoint may lay CANCELLED over a finished task it
was asked to cancel, and the counters miss one end per append that raised.
`ResultIsOwn` excepts requests that allow less than one attempt, where the worker
stores the result it has left from an earlier task.

`TornOnlyWhileWriting` and `VerdictStands` say how far a client may rely on an
answer read without the lock.  A torn answer is possible, a task with status
SUCCEEDED and no result, but only within the update; asked again, the bridge
gives the rest.  `LearnsTheEnd` excepts CANCELLED for `submit_and_wait`: its loop
ends for SUCCEEDED and FAILED only (`bridge_client.py:70`), a cancelled task is
polled until the client's own deadline.

`ReportedIsSubmitted` compares what an answer reports with what the nodes of the
file are given, for the inputs for numbers their classes take (`Taken`).  Where the
patch of the route knows the input, the sampler has the number that is reported;
where it does not, the file's own stays, whatever is reported.  For the worker and
the Flux template in the repository all of them are of the second kind: there node 3
loads the VAE and the sampler is node 9, as the synchronous patch has it.
`WorkerMissesTheTemplate` states that.  `AppliedAsChecked` lists the ways
in which the graph of an apply is not that of its dry run: an edit in between,
another file named for the generation (`require_safe` and `force` let a dangling
link pass), a name that is not one of a `.json` file
(replaced in the generation, read as it is in the dry run), and the inputs
`generate_image` patches, with the defaults if need be.

`BrokenIsExplained` is about files and about reads: a file that is not one whole
manifest is being put, or has been left so by a put that failed or was overlapped;
and what a `get` reads of a file that was in order is one manifest, whole, unless
a put begins while it reads.  A put during the read can make a hit fail, or answer
with pieces of two manifests of the same workflow; nothing in the code prevents it.

`AnswersGrow` is about the detector: a workflow with more nodes never loses a
capability or its readiness (pieced answers excepted), and the cap of the confidence at 55 for a missing
dependency stays below every ready one's.

`DuplicatesBounded` and `LossBounded` are what the check-then-append of the
memory does give where its comments promise more: as many copies as handlers,
two experiences lost for an append cut short.  Both are about the lines of the
file; after a cut inside a character `load` does not get to see them.

`ReasonedOpsWereAccepted` is about plans made from the strategy and about the
fallback.  A plan from the request's own fields or text may displace the op that
was accepted; the decision engine sees neither, and the code shows no intention
that it should.  `NothingAcceptedByDefault` says that with the default
thresholds no run gets past the decision: `workflow_knowledge` has no
`get_goal_advice`, the one thing that could raise the confidence of a step with
an op above a half.

`ReadyKeepsTheGraph` says what the pipeline's gate is worth: without a hint the
ids and the links are those of the original.  Classes are not covered, because
`diff_workflows` gives a changed class no hint of its own: a node removed and
added again under its id may come back with another class in an answer that is
ready to apply.

## Proofs

`BridgeTasksProofs` proves for all tasks, finite worker pools, cancel handlers,
capacities, limits and numbers of faults:

- `TypeCorrect`: `TypeOK`, by `Typed`, which adds where a worker has a task in
  hand, that a child exists exactly while its worker is in `p.join`, and that a
  cancel handler past its first step knows its task.
- `TaskHasOneOwner`: only `Submit`, `Put`, `Take` and `TaskDone` move a task
  between owners; every other step is `OwnersKept`.
- `RetriesKeepTheBudget`: `AttemptBudget` is not inductive.  `RetryShape` adds
  that a task without a handler has no attempts, that a worker in the retry loop
  has a well-formed limit, and that a child which has not submitted its prompt
  still has one to its attempt; one ownership is needed so that no other worker
  spends it.
- `TaskDoneBalances`: the unfinished count is the length of the queue plus the
  number of busy workers, by the cardinality of `Busy` under adding and
  removing one worker.
- `ResultsAreOwn`: `OwnResults`, who has got past the retry loop holds its own
  task's outcome, unless the request has no attempt at all; what a worker holds
  from before is still the result of a prompt ComfyUI has had.
- `TasksAreKept`: `Unlost` says that an accepted task without an end has an owner,
  dead or alive, by what has been written when a worker is about to count or to
  release its task.  So an abandoned task is an orphan of `/submit` or in the hands
  of a dead worker, and `Scapegoat` maps the abandoned tasks one to one into the
  harms that `HarmIsPaidFor` has bounded by the failed appends.
- `EndsAreTold`: `Story` says what the fields of a task are at each place of its
  worker, up to what cancellation may have laid over them (`Is`, `Says`), so that
  the ends the property lists are the only ones.
- `CountersAgree`: `Tallies` bounds the counters, with the workers about to count,
  from both sides, by the tasks that show an end less the faults and by those whose
  worker is past the end or gone (`Gone`).  `Writes` is all a step may do to these
  sets: write one end and count it or pay for it.
- `HarmIsPaidFor`: `Harm` is not inductive, since a harm may be certain before it
  can be seen.  `Toll` counts a cancellation from the moment its task is no longer
  `Spared`, and a mixed outcome from the moment its worker is on the way to write
  FAILED; `Fresh` says that until RUNNING is written nothing has happened to a task.
  A step adds one element to `Toll` at most, and then an append has raised.
- `EarlyCancelIsReliable`: a corollary of it for a log that can always be written
  (`MaxLogFaults = 0`), where no harm at all is paid for.
- `LifecycleImplemented`: each action is one step of the lifecycle for one task, or
  a stutter, at any number of failing appends.  `Shown` gives the phase of a task in
  terms of its owner, and the invariant (`Mapped`) is `Typed`, `OneOwner` and `Story`.
- `StatusFollowsTheArrows`: what a client may conclude, got from the refinement
  and not from the threads: a step of the lifecycle moves the status of a task
  nobody has asked to cancel along a documented arrow or not at all, a SUCCEEDED
  whose append has raised excepted.
- `WorkShrinks`: three steps for each attempt left, and those from a worker's place
  to the end of its pass, make a number (`Rank`) that every step of the worker lowers
  and no other step raises.

`RateLimiterProofs` proves `TypeCorrect` and `RateBounded` for every capacity,
rate, cost, number of threads and keys and every behaviour of the clock;
`BudgetInv` counts the tokens still in a bucket against the same budget.
`NoIntervalOverspent` is the same bound for every interval and not only the one
from the first request: whatever a key has spent at some moment, from then on it
spends a burst and the refill since at most (`Since`).

`ExperienceMemoryProofs` proves for all finite sets of handlers, all ids and all
numbers of cut appends:

- `TypeCorrect`.
- `StoredOncePerHandler`: `DuplicatesBounded` is nearly inductive.  What a handler
  writes it was about to write, so a write moves one from `Appending` to
  `Copies`; while no line holds the record the number of handlers bounds the
  first set, and afterwards no handler joins it.
- `CutsCostAtMostTwo`: `LossBounded` is strengthened by `Debt`, what a last line
  without its newline may still cost: two if a record can be read from it (its
  own and the next), one otherwise (the next).  A cut pays for two at once.
- `FileOnlyGrows`: a line that has its newline stays at its place for ever, and
  a line that is not UTF-8 is never repaired, so that once a `load` has raised
  for one every later `load` raises.

`WorkflowEditProofs` proves every property of `workflow_edit` for all workflows,
ids, classes, inputs and lengths of calls.  `WriteEffect`, `AddEffect` and
`RemoveEffect` say what an op does to the copy, and the rest uses only them:

- `TypeCorrect`, with what the history means.
- `CarefulEditsAreClosed`: a careful op makes no link without a source
  (`CarefulWrite`, `CarefulAdd`, `CarefulRemove`).
- `ReadyMeansSameGraph`: `ReportIsCurrent`, no step changes what has been
  checked; the rest is what the absence of two hints says of the diff.
- `HintsAreExact`: these two hints are absent exactly if ids, links and sources are
  the original's, so a hint is no false alarm and its absence no oversight.
- `OverEditsComeFromRemovals`: `FewChanged` counts the changed nodes against the
  ops; an op adds one at most, or removes a node.
- `AllocatedIdIsFree`: the numbers above all ids that are taken have a least one,
  by the well-foundedness of < on the naturals.

`AgentPipelineProofs` proves every property of `agent_pipeline` for all
workflows, semantics, thresholds and requests.  The pipeline's own steps are
simple; what is in the results of the stages is not.  `IInv` is `TypeOK` with

- `GatesInOrder`: which gates there are when a stage is next, so that none is
  noted twice;
- `StagesRelyOnEarlierOnes`: a reasoning that is there is a good one
  (`GoodReasoning`), a decision comes from a policy and that reasoning
  (`Decided`), a plan from a request or from the decision's ops (`Planned`), and
  a run past a gate has met what the policy requires there;
- `AnswerRests`: the same of an answer that is ready or blocked, and that the ops
  of a ready one are the plan's or, if it has none, the decision's.

The lemmas under it are about the stages.  `HypothesesShape` and
`StrategyIsGood` say that a strategy has at most three steps, with one target
each, and at most one of them a value (`Speaks`): hence the planner and the
decision engine, which rank with different keys, cannot take different ops.
`LeaderExists` (a ranking of at most three has a leader) makes every choice of a
first candidate one of a member.  `AcceptedIsAdmitted` and `AcceptedNeedsHalf`
say what acceptance means for the op and for the threshold, `KeptPlans` and
`SelectedPlan` that three kept candidates are all there are and the selected one
is usable if any is, `PlanResultShape` what a plan's ops are.
`StricterAcceptsLess` compares two policies on one reasoning: tightening any
limit, NaN being the loosest, never yields an op or an acceptance that the looser
policy refuses (`StricterAdmitsLess` for one op).

`TaskPollProofs` proves for any clients, failing polls and restarts:

- `RecordsAreWhole`, by an invariant about the settled record, which is what the
  record will be once the update in progress is done: `UpdateOK` says that all
  but the fields still to be assigned are as they will be, `Story` what a settled
  record is at each place of the worker and of the cancel handler.
- `VerdictsStand`: `HeardOK` relates a status a client has read to the settled
  one; without a cancellation a terminal status is the last.
- `TornAnswersAreTransient`: a field read while the task is not locked is that of
  a whole record, hence a torn answer has the lock.
- `PollLifecycleImplemented`: with the status of a task taken as what the update in
  progress makes of it, taking the lock is the step of the lifecycle, and the
  assignments, the unlocked looks and the clients are stutters.

`CapabilityCacheProofs` proves for any handlers, names, contents, numbers of pieces
of a manifest (equal ones included), edits, failing puts and restarts:

- `AnswersFit`: every piece of a file, and every piece a `get` has read of it, is of
  a manifest of that content (`Pure`).
- `BrokenFilesAreExplained`: a handler that puts alone has exactly its own pieces
  in the file, as many as it has written (`Puts`), one that has been overlapped
  has the file among the spoiled ones; a handler that reads alone has a beginning
  of the one manifest that is in the file (`Reads`).
- `LonePutsPublish`: from the same invariant, a put that had the file for itself
  leaves in it, whole, the manifest it answers with, whatever file was there before
  and however long.
- `AnswersAgree`: whatever keywords nodes may have, the scores of a capability
  are finitely many numbers up to 100 (`KeywordsCountable`, `GreatestScore`,
  `ScoreRange`), what is detected grows with the nodes (`DetectedGrows`), and a
  best score is 78 at least, so above the cap of 55 (`BestRange`,
  `ReadyIsSurer`).

`GenerationProofs` proves for any requests, files, servers, folders, edits and
outcomes:

- `AuditsNameWhatRan`: `Audited` relates versions; a file whose version is that of
  the audit has not changed.
- `SavedStay`: `Entries` says that images of one server, folder and number are one
  image, because ComfyUI numbers no more images of a folder than prompts have
  ended (`Numbers`); `Stored` that a file has an image of its number.
- `AnswersComplete`: `Complete` splits a prompt's images into those saved and
  those to be saved.
- `ReportsAreSubmitted` and `AppliesAsChecked`: `Submitted` says how the graph has
  been made from what was read, `Planned` the same of a dry run and which of the
  two reads is newer, and
  `PatchedGraph` and `AppliedGraph` what a patch and an op leave alone.
- `WorkerMissesTheTemplate`: on a file whose nodes take what those of the
  repository's Flux template take, the worker's patch reaches no input for a number.
- `MalformedLimitsNeverRun`: a queued task goes on towards ComfyUI only if no limit
  its client has sent is malformed and `max_retries` is not negative, it is left
  without an attempt only by a negative `max_retries`, and other limits, or none,
  never stop one (`LimitsStopBadOnes` is the conversion of `/submit` and the
  worker's together).  What a time-out does is not part of it.
- `RequestsAdvance`: four times the stage of a request and the images still to be
  saved, three at most (`FewImages`), make a number every step of the request lowers.

Model-checked only: the liveness properties `Progress`, `StopExits`,
`EveryRequestIsAnswered` and `LearnsTheEnd`, which are out of the prover's reach:
`WorkShrinks` and `RequestsAdvance` are the half of the first and the third that
needs no fairness.  Every other property of a passing run is a theorem; the type
invariants of `ExperienceMemory`, `RateLimiter`, `WorkflowEdit` and `AgentPipeline`
are theorems and checked by no run.  The assumption `MaxLogFaults = 0` of
`EarlyCancelIsReliable` is that of the property; the other theorems assume no more
of the constants than the modules declare.  The properties of the two runs that
expect a violation do not hold.

## Not modelled

- Target resolution (`workflow_resolver.py`, `workflow_semantics.py`,
  `workflow_semantic_resolver.py`) and the graph walks (`workflow_graph.py`):
  look-ups in one graph, with no state and no second actor, that turn a
  description into a node.  `WorkflowEdit` allows any node as a target, which
  covers whatever they find; which node a word should mean is a question of
  wording.
- The rule planner of the agent service (`workflow_rule_planner.py`,
  `workflow_agent_planner.py`): regular expressions from a text to ops.  The ops
  are an input of `Generation` and `WorkflowEdit`.
- The capability matcher and the names of pipelines and providers: scores of
  texts over a manifest that does not change.
- The knowledge engine and its YAML files: read-only look-ups and text scores.
- Structured logging, the histograms and the text of `/metrics`, the node
  registry: output, a sum under one lock, a constant table.
- The scoring of `/agent/memory/search`, which only reads, and the `memory`
  package, which no entry point uses.
- The MCP server's own way to ComfyUI, which nothing calls, its health check, the
  load test's report, and the scripts that send one request.
- Of modelled parts: how JSON is found in a request's text, the API key, request
  ids, the debug copy of the submitted workflow (a file that concurrent handlers
  overwrite and nothing reads), the sharing of an `add_node` op's inputs with the
  node it makes, the wording of errors, warnings and traces.

Some places where the code does not do what it says are known and have no run:

- A negative `max_retries` leaves the retry loop empty: the worker stores the
  result it has left from an earlier task, or fails on an unbound name
  (`bridge_worker.py:121`).  `ResultIsOwn` excepts such requests.
- Two requests may both find a record missing and both append it, where
  `workflow_memory.py:575` says a record is stored once; `DuplicatesBounded` has
  the number.
- An append cut inside a multi-byte character makes every later `load` raise,
  where `workflow_memory.py:357` says a bad line does not destroy the file.
- The observer looks for the steps under keys the workflow's semantics do not
  have (`observer.py:46`), so a goal like "sharper" is planned from a default,
  where `planner/strategy_adapter.py:23` says the semantics usually have them.
- The worker's patch does not fit the Flux template: seed, steps and size of a task
  are reported and not used, where `bridge_job.py:64` says the workflow must match
  the "Flux Kontext API template".
  `ReportedIsSubmitted` has what does hold, `WorkerMissesTheTemplate` this.
- `controlnet` depends on `conditioning`, which is no capability of the
  registry: it is never ready.
