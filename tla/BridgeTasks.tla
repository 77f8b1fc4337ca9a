---------------------------- MODULE BridgeTasks ----------------------------
(***************************************************************************)
(* The asynchronous half of the HTTP bridge: the task store, the bounded   *)
(* task queue, the worker threads with the child process that runs one     *)
(* generation attempt, and the handler threads of POST /submit and         *)
(* POST /task/{id}/cancel.  A step of this module is a stretch of Python   *)
(* between two points where another thread can be seen: every TaskStore,   *)
(* queue and registry call holds its own lock and is one step, and every   *)
(* unlocked read of task.status is one step of its own.                    *)
(*                                                                         *)
(* TaskStore.update assigns the fields first and appends to tasks.jsonl    *)
(* afterwards, so an append that raises leaves the new fields in memory    *)
(* and an exception for the caller.  Up to MaxLogFaults appends raise.     *)
(***************************************************************************)
EXTENDS Integers, Sequences, FiniteSets

CONSTANTS
  Task,          \* task ids; each is created by one POST /submit
  Worker,        \* worker threads
  Canceller,     \* threads that serve POST /task/{id}/cancel
  MaxQueue,      \* --max-queue; queue.Queue is unbounded when it is <= 0
  RetryLimits,   \* the max_retries values requests carry, or Malformed
  Malformed,     \* a policy value that int() or float() rejects
  None,          \* Python's None
  MaxLogFaults,  \* bound on the appends to tasks.jsonl that raise
  MayShutdown    \* whether Ctrl+C may stop the workers and end the process

ASSUME WorkerAssumption == IsFiniteSet(Worker)
ASSUME RetryLimitsAssumption == RetryLimits \subseteq Int \cup {Malformed}
ASSUME MalformedAssumption == Malformed \notin Int
ASSUME NoneAssumption == None \notin Task
ASSUME MaxQueueAssumption == MaxQueue \in Int
ASSUME MaxLogFaultsAssumption == MaxLogFaults \in Nat
ASSUME MayShutdownAssumption == MayShutdown \in BOOLEAN

VARIABLES
  status, retryLimit, attempt, result, error,  \* Task records, by task id
  submit,              \* where the POST /submit handler of a task is
  queue, unfinished,   \* queue.Queue: its items and its task_done() balance
  cancelled,           \* the bridge_cancel registry
  pc, cur, held,       \* worker: place, task_id, local variable `result`
  child,               \* the attempt process the worker waits for
  prompts,             \* how many ComfyUI prompts a task has caused
  cpc, ctask,          \* cancel handler: place and task
  succeeded, failed,   \* bridge_metrics counters
  stop,                \* workers whose stop event is set
  down,                \* the process has ended, and all of the above with it
  faults,              \* appends that have raised so far
  early                \* history: tasks cancelled before a worker decided

store == <<status, retryLimit, attempt, result, error>>
queued == <<queue, unfinished>>
generation == <<child, prompts>>
metrics == <<succeeded, failed>>
workers == <<queued, pc, cur, held, generation, metrics>>
outside == <<submit, cancelled, cpc, ctask, early, stop>>
vars == <<store, workers, outside, faults, down>>

-----------------------------------------------------------------------------
Status == {"ABSENT", "PENDING", "RUNNING", "SUCCEEDED", "FAILED", "CANCELLED"}
Terminal == {"SUCCEEDED", "FAILED", "CANCELLED"}
Errors == {"None", "Cancelled", "CancelRequested", "Failure"}

(* Places of a worker in Worker._loop.  It holds a task_id at all of them   *)
(* but those in Idle, and when its thread has died writing FAILED.         *)
Deciding == {"check", "registry"}
Working == {"attempt", "join", "backoff", "succeed", "fail"}
Releasing == {"countSucceeded", "countFailed"}
Idle == {"loop", "get", "exited"}
Place == Idle \cup Deciding \cup {"start", "dead"} \cup Working \cup Releasing

InQueue(t) == \E i \in 1..Len(queue) : queue[i] = t
Holder(t) == {w \in Worker : cur[w] = t}
Waiting(t) ==
  \/ submit[t] = "put"
  \/ InQueue(t)
  \/ \E w \in Worker : cur[w] = t /\ pc[w] \in Deciding

Init ==
  /\ status = [t \in Task |-> "ABSENT"]
  /\ retryLimit = [t \in Task |-> Malformed]
  /\ attempt = [t \in Task |-> 0]
  /\ result = [t \in Task |-> None]
  /\ error = [t \in Task |-> "None"]
  /\ submit = [t \in Task |-> "idle"]
  /\ queue = <<>> /\ unfinished = 0
  /\ cancelled = {} /\ early = {}
  /\ pc = [w \in Worker |-> "loop"]
  /\ cur = [w \in Worker |-> None]
  /\ held = [w \in Worker |-> None]
  /\ child = [w \in Worker |-> "none"]
  /\ prompts = [t \in Task |-> 0]
  /\ cpc = [c \in Canceller |-> "idle"]
  /\ ctask = [c \in Canceller |-> None]
  /\ succeeded = 0 /\ failed = 0
  /\ stop = {} /\ faults = 0 /\ down = FALSE

-----------------------------------------------------------------------------
(* Every thread and child process ends with the bridge's process: the       *)
(* threads are daemons, and multiprocessing terminates daemon children.    *)
Up == ~down /\ UNCHANGED down

(* TaskStore._append_event, called with the new fields already assigned.   *)
AppendOk == UNCHANGED faults
AppendRaises == faults < MaxLogFaults /\ faults' = faults + 1

SetStatus(t, s) == status' = [status EXCEPT ![t] = s]
SetError(t, e) == error' = [error EXCEPT ![t] = e]
Goto(w, place) == Up /\ pc' = [pc EXCEPT ![w] = place]

(* A step that only moves worker w from one place to another.              *)
Moves(w, from, to) ==
  /\ pc[w] = from
  /\ Goto(w, to)
  /\ UNCHANGED <<store, queued, cur, held, generation, metrics, outside, faults>>

-----------------------------------------------------------------------------
(* Faulty variants.  Each is a slip the code could have made in place of   *)
(* the definition its comment names; some property below tells it apart.   *)

(* TaskDone without q.task_done().                                         *)
ForgetTaskDone(w) == cur' = [cur EXCEPT ![w] = None] /\ UNCHANGED queued

(* HasRoom off by one.                                                     *)
RoomForOneMore == MaxQueue <= 0 \/ Len(queue) <= MaxQueue

(* EnterGet without the look at the stop event.                            *)
EnterGetAnyway(w) == Moves(w, "loop", "get")

(* Take that reads the head of the queue and leaves it there.              *)
Peek(w) ==
  /\ pc[w] = "get" /\ queue # <<>>
  /\ cur' = [cur EXCEPT ![w] = Head(queue)]
  /\ Goto(w, "check")
  /\ UNCHANGED <<store, outside, queued, held, generation, metrics, faults>>

(* IsCancelled without the registry.                                       *)
NeverCancelled(t) == FALSE

(* DropCancelled that skips the task and leaves it PENDING.                *)
DropSilently(w) ==
  /\ pc[w] = "registry" /\ cur[w] \in cancelled
  /\ unfinished' = unfinished - 1
  /\ cur' = [cur EXCEPT ![w] = None]
  /\ Goto(w, "loop")
  /\ UNCHANGED <<store, outside, queue, held, generation, metrics, faults>>

(* AttemptsLeft off by one.                                                *)
OneAttemptMore(t) == attempt[t] <= retryLimit[t] + 1

(* AttemptFails without a timeout on p.join.                               *)
JoinForever(w) ==
  /\ pc[w] = "join" /\ child[w] = "raised"
  /\ child' = [child EXCEPT ![w] = "none"]
  /\ Goto(w, IF attempt[cur[w]] <= retryLimit[cur[w]] THEN "backoff" ELSE "fail")
  /\ UNCHANGED <<store, outside, queued, cur, held, prompts, metrics, faults>>

(* AttemptFails that breaks out of the loop where it should raise.         *)
BreakAfterLast(w) ==
  /\ pc[w] = "join" /\ child[w] # "none"
  /\ child' = [child EXCEPT ![w] = "none"]
  /\ Goto(w, IF attempt[cur[w]] <= retryLimit[cur[w]] THEN "backoff" ELSE "succeed")
  /\ UNCHANGED <<store, outside, queued, cur, held, prompts, metrics, faults>>

(* Succeed that forgets result=result.                                     *)
SucceedWithoutResult(w) ==
  /\ pc[w] = "succeed"
  /\ SetStatus(cur[w], "SUCCEEDED")
  /\ SetError(cur[w], "None")
  /\ Goto(w, "countSucceeded")
  /\ UNCHANGED <<retryLimit, attempt, result, outside, queued, cur, held,
                 generation, metrics, faults>>

(* ReleaseFailed that counts the task as succeeded.                        *)
CountAsSucceeded(w) ==
  /\ pc[w] = "countFailed"
  /\ succeeded' = succeeded + 1
  /\ unfinished' = unfinished - 1
  /\ cur' = [cur EXCEPT ![w] = None]
  /\ Goto(w, "loop")
  /\ UNCHANGED <<store, outside, queue, held, generation, failed, faults>>

-----------------------------------------------------------------------------
(* q.task_done() and the end of the worker's business with its task.       *)
TaskDone(w) ==
  /\ unfinished' = unfinished - 1
  /\ cur' = [cur EXCEPT ![w] = None]
  /\ UNCHANGED queue

-----------------------------------------------------------------------------
(* POST /submit: TASK_STORE.new_task, then the blocking TASK_QUEUE.put.  A *)
(* failed append answers 500 with the task already in the store.           *)
Submit(t) ==
  /\ Up /\ submit[t] = "idle"
  /\ SetStatus(t, "PENDING")
  /\ \E r \in RetryLimits : retryLimit' = [retryLimit EXCEPT ![t] = r]
  /\ \/ AppendOk /\ submit' = [submit EXCEPT ![t] = "put"]
     \/ AppendRaises /\ submit' = [submit EXCEPT ![t] = "error"]
  /\ UNCHANGED <<attempt, result, error, workers, cancelled, cpc, ctask,
                 early, stop>>

HasRoom == MaxQueue <= 0 \/ Len(queue) < MaxQueue

Put(t) ==
  /\ Up /\ submit[t] = "put"
  /\ HasRoom
  /\ queue' = Append(queue, t)
  /\ unfinished' = unfinished + 1
  /\ submit' = [submit EXCEPT ![t] = "queued"]
  /\ UNCHANGED <<store, pc, cur, held, generation, cancelled, cpc, ctask,
                 early, metrics, stop, faults>>

-----------------------------------------------------------------------------
(* Worker._loop.  q.get raises queue.Empty after 0.5 s without an item.    *)
EnterGet(w) == w \notin stop /\ Moves(w, "loop", "get")

LeaveLoop(w) == w \in stop /\ Moves(w, "loop", "exited")

GetEmpty(w) == queue = <<>> /\ Moves(w, "get", "loop")

Take(w) ==
  /\ pc[w] = "get" /\ queue # <<>>
  /\ cur' = [cur EXCEPT ![w] = Head(queue)]
  /\ queue' = Tail(queue)
  /\ Goto(w, "check")
  /\ UNCHANGED <<store, outside, unfinished, held, generation, metrics,
                 faults>>

SkipCancelled(w) ==
  /\ pc[w] = "check" /\ status[cur[w]] = "CANCELLED"
  /\ TaskDone(w)
  /\ Goto(w, "loop")
  /\ UNCHANGED <<store, outside, held, generation, metrics, faults>>

PassStatusCheck(w) ==
  Moves(w, "check", "registry") /\ status[cur[w]] # "CANCELLED"

IsCancelled(t) == t \in cancelled

(* An append that raises here is swallowed and the task runs after all.    *)
DropCancelled(w) ==
  /\ pc[w] = "registry" /\ IsCancelled(cur[w])
  /\ SetStatus(cur[w], "CANCELLED")
  /\ SetError(cur[w], "Cancelled")
  /\ \/ AppendOk /\ TaskDone(w) /\ Goto(w, "loop")
     \/ AppendRaises /\ Goto(w, "start") /\ UNCHANGED <<queued, cur>>
  /\ UNCHANGED <<retryLimit, attempt, result, outside, held, generation,
                 metrics>>

PassRegistry(w) == Moves(w, "registry", "start") /\ ~IsCancelled(cur[w])

(* Outside any try: an append that raises ends the thread, the task stays  *)
(* RUNNING and task_done is never called.  Otherwise int(max_retries) and  *)
(* float(retry_backoff_seconds) decide whether there is a first attempt.   *)
Start(w) ==
  /\ pc[w] = "start"
  /\ SetStatus(cur[w], "RUNNING")
  /\ \/ AppendOk
        /\ Goto(w, IF retryLimit[cur[w]] = Malformed THEN "fail" ELSE "attempt")
     \/ AppendRaises /\ Goto(w, "dead")
  /\ UNCHANGED <<retryLimit, attempt, result, error, outside, queued, cur,
                 held, generation, metrics>>

AttemptsLeft(t) == attempt[t] <= retryLimit[t]

(* One turn of `for attempt in range(1, max_retries + 2)`: __attempt is     *)
(* recorded (a failed append is swallowed) and the child process started.  *)
BeginAttempt(w) ==
  /\ pc[w] = "attempt" /\ AttemptsLeft(cur[w])
  /\ attempt' = [attempt EXCEPT ![cur[w]] = @ + 1]
  /\ AppendOk \/ AppendRaises
  /\ child' = [child EXCEPT ![w] = "spawned"]
  /\ Goto(w, "join")
  /\ UNCHANGED <<status, retryLimit, result, error, outside, queued, cur,
                 held, prompts, metrics>>

(* A negative max_retries leaves the loop empty.  The code goes on to use  *)
(* `result`, a local of the thread: unbound, which raises, unless an       *)
(* earlier task of this worker has bound it.                               *)
NoAttempt(w) ==
  /\ Moves(w, "attempt", IF held[w] = None THEN "fail" ELSE "succeed")
  /\ ~AttemptsLeft(cur[w])

-----------------------------------------------------------------------------
(* bridge_job.run_generation in the child process: POST /prompt, wait for  *)
(* the history and download, or raise at any of these points.              *)
ChildSubmits(w) ==
  /\ Up /\ child[w] = "spawned"
  /\ child' = [child EXCEPT ![w] = "submitted"]
  /\ prompts' = [prompts EXCEPT ![cur[w]] = @ + 1]
  /\ UNCHANGED <<store, outside, queued, pc, cur, held, metrics, faults>>

ChildReturns(w) ==
  /\ Up /\ child[w] = "submitted"
  /\ child' = [child EXCEPT ![w] = "returned"]
  /\ UNCHANGED <<store, outside, queued, pc, cur, held, prompts, metrics,
                 faults>>

ChildRaises(w) ==
  /\ Up /\ child[w] \in {"spawned", "submitted"}
  /\ child' = [child EXCEPT ![w] = "raised"]
  /\ UNCHANGED <<store, outside, queued, pc, cur, held, prompts, metrics,
                 faults>>

(* run_with_timeout when the child has ended in time.                      *)
Collect(w) ==
  /\ pc[w] = "join" /\ child[w] = "returned"
  /\ held' = [held EXCEPT ![w] = cur[w]]
  /\ child' = [child EXCEPT ![w] = "none"]
  /\ Goto(w, "succeed")
  /\ UNCHANGED <<store, outside, queued, cur, prompts, metrics, faults>>

(* The attempt raised, or p.join timed out on a live child: also one that  *)
(* has put its result and is still exiting, whose result is then lost.     *)
AttemptFails(w) ==
  /\ pc[w] = "join" /\ child[w] # "none"
  /\ child' = [child EXCEPT ![w] = "none"]
  /\ Goto(w, IF AttemptsLeft(cur[w]) THEN "backoff" ELSE "fail")
  /\ UNCHANGED <<store, outside, queued, cur, held, prompts, metrics, faults>>

(* backoff_sleep returns, or raises for a negative retry_backoff_seconds.  *)
Backoff(w) == \E place \in {"attempt", "fail"} : Moves(w, "backoff", place)

(* The append of SUCCEEDED is inside the try: if it raises, the handler     *)
(* goes on to write FAILED over it.                                        *)
Succeed(w) ==
  /\ pc[w] = "succeed"
  /\ SetStatus(cur[w], "SUCCEEDED")
  /\ SetError(cur[w], "None")
  /\ result' = [result EXCEPT ![cur[w]] = held[w]]
  /\ \/ AppendOk /\ Goto(w, "countSucceeded")
     \/ AppendRaises /\ Goto(w, "fail")
  /\ UNCHANGED <<retryLimit, attempt, outside, queued, cur, held, generation,
                 metrics>>

(* The append of FAILED is inside the except clause: if it raises, finally *)
(* still calls task_done and the thread ends.                              *)
Fail(w) ==
  /\ pc[w] = "fail"
  /\ SetStatus(cur[w], "FAILED")
  /\ SetError(cur[w], "Failure")
  /\ \/ AppendOk /\ Goto(w, "countFailed") /\ UNCHANGED <<queued, cur>>
     \/ AppendRaises /\ Goto(w, "dead") /\ TaskDone(w)
  /\ UNCHANGED <<retryLimit, attempt, result, outside, held, generation,
                 metrics>>

(* The metrics counter, then `finally: q.task_done()`.                     *)
ReleaseSucceeded(w) ==
  /\ pc[w] = "countSucceeded"
  /\ succeeded' = succeeded + 1
  /\ TaskDone(w)
  /\ Goto(w, "loop")
  /\ UNCHANGED <<store, outside, held, generation, failed, faults>>

ReleaseFailed(w) ==
  /\ pc[w] = "countFailed"
  /\ failed' = failed + 1
  /\ TaskDone(w)
  /\ Goto(w, "loop")
  /\ UNCHANGED <<store, outside, held, generation, succeeded, faults>>

-----------------------------------------------------------------------------
(* POST /task/{id}/cancel.  The status is read twice, without the store's  *)
(* lock, and the update that follows does not look at it again.            *)
RequestCancel(c, t) ==
  /\ Up /\ cpc[c] = "idle" /\ status[t] # "ABSENT"
  /\ cancelled' = cancelled \cup {t}
  /\ early' = IF Waiting(t) THEN early \cup {t} ELSE early
  /\ ctask' = [ctask EXCEPT ![c] = t]
  /\ cpc' = [cpc EXCEPT ![c] = "pending?"]
  /\ UNCHANGED <<store, submit, workers, stop, faults>>

ReadPending(c) ==
  /\ Up /\ cpc[c] = "pending?"
  /\ cpc' = [cpc EXCEPT ![c] =
               IF status[ctask[c]] = "PENDING" THEN "mark" ELSE "running?"]
  /\ UNCHANGED <<store, submit, workers, cancelled, ctask, early, stop,
                 faults>>

ReadRunning(c) ==
  /\ Up /\ cpc[c] = "running?"
  /\ cpc' = [cpc EXCEPT ![c] =
               IF status[ctask[c]] = "RUNNING" THEN "note" ELSE "idle"]
  /\ UNCHANGED <<store, submit, workers, cancelled, ctask, early, stop,
                 faults>>

(* An append that raises drops the connection: the handler is done too.    *)
MarkCancelled(c) ==
  /\ Up /\ cpc[c] = "mark"
  /\ SetStatus(ctask[c], "CANCELLED")
  /\ SetError(ctask[c], "Cancelled")
  /\ AppendOk \/ AppendRaises
  /\ cpc' = [cpc EXCEPT ![c] = "idle"]
  /\ UNCHANGED <<retryLimit, attempt, result, submit, workers, cancelled,
                 ctask, early, stop>>

NoteRequested(c) ==
  /\ Up /\ cpc[c] = "note"
  /\ SetError(ctask[c], "CancelRequested")
  /\ AppendOk \/ AppendRaises
  /\ cpc' = [cpc EXCEPT ![c] = "idle"]
  /\ UNCHANGED <<status, retryLimit, attempt, result, submit, workers,
                 cancelled, ctask, early, stop>>

-----------------------------------------------------------------------------
(* Ctrl+C: main() sets the stop events one worker after the other and      *)
(* waits at most 2 s for each, so it may go on before a worker has left.   *)
(* The process ends when main() does, or earlier when it is killed; the     *)
(* tasks it had are not read back from tasks.jsonl when it is started again. *)
StopWorker(w) ==
  /\ MayShutdown /\ Up /\ w \notin stop
  /\ stop' = stop \cup {w}
  /\ UNCHANGED <<store, submit, workers, cancelled, cpc, ctask, early,
                 faults>>

ProcessEnds ==
  /\ MayShutdown /\ ~down
  /\ down' = TRUE
  /\ UNCHANGED <<store, workers, outside, faults>>

WorkerStep(w) ==
  \/ EnterGet(w) \/ LeaveLoop(w) \/ GetEmpty(w) \/ Take(w)
  \/ SkipCancelled(w) \/ PassStatusCheck(w)
  \/ DropCancelled(w) \/ PassRegistry(w)
  \/ Start(w) \/ BeginAttempt(w) \/ NoAttempt(w)
  \/ Collect(w) \/ AttemptFails(w) \/ Backoff(w)
  \/ Succeed(w) \/ Fail(w) \/ ReleaseSucceeded(w) \/ ReleaseFailed(w)

ChildStep(w) == ChildSubmits(w) \/ ChildReturns(w) \/ ChildRaises(w)

CancelStep(c) ==
  \/ \E t \in Task : RequestCancel(c, t)
  \/ ReadPending(c) \/ ReadRunning(c) \/ MarkCancelled(c) \/ NoteRequested(c)

Next ==
  \/ \E t \in Task : Submit(t) \/ Put(t)
  \/ \E w \in Worker : WorkerStep(w) \/ ChildStep(w) \/ StopWorker(w)
  \/ \E c \in Canceller : CancelStep(c)
  \/ ProcessEnds

Spec == Init /\ [][Next]_vars

(* While the process is up the operating system schedules every worker     *)
(* thread, p.join returns after its timeout at the latest (so a child owes  *)
(* nothing), and a put waiting for room is woken.  Requests, Ctrl+C and the *)
(* end of the process need never come.                                     *)
Fairness ==
  /\ \A w \in Worker : WF_vars(WorkerStep(w))
  /\ \A t \in Task : WF_vars(Put(t))

FairSpec == Spec /\ Fairness

-----------------------------------------------------------------------------
(* Every variable keeps its type, and the queue its --max-queue capacity.  *)
TypeOK ==
  /\ status \in [Task -> Status]
  /\ retryLimit \in [Task -> Int \cup {Malformed}]
  /\ attempt \in [Task -> Nat]
  /\ result \in [Task -> Task \cup {None}]
  /\ error \in [Task -> Errors]
  /\ submit \in [Task -> {"idle", "put", "queued", "error"}]
  /\ queue \in Seq(Task) /\ unfinished \in Int
  /\ MaxQueue > 0 => Len(queue) <= MaxQueue
  /\ cancelled \subseteq Task /\ early \subseteq cancelled
  /\ pc \in [Worker -> Place]
  /\ cur \in [Worker -> Task \cup {None}]
  /\ held \in [Worker -> Task \cup {None}]
  /\ child \in [Worker -> {"none", "spawned", "submitted", "returned", "raised"}]
  /\ prompts \in [Task -> Nat]
  /\ cpc \in [Canceller -> {"idle", "pending?", "running?", "mark", "note"}]
  /\ ctask \in [Canceller -> Task \cup {None}]
  /\ succeeded \in Nat /\ failed \in Nat
  /\ stop \subseteq Worker
  /\ faults \in 0..MaxLogFaults /\ down \in BOOLEAN

(* A task has one owner: it is in the queue at most once, with at most one *)
(* worker, never both, and in neither unless its handler has put it there. *)
(* The workers' unguarded writes to a task rely on it.                     *)
QueueHasNoDuplicates ==
  \A i, j \in 1..Len(queue) : queue[i] = queue[j] => i = j
HeldByOne ==
  \A v, w \in Worker : cur[v] # None /\ cur[v] = cur[w] => v = w
HeldNotQueued ==
  \A w \in Worker, i \in 1..Len(queue) : queue[i] # cur[w]
OwnedOnlyOncePut ==
  /\ \A i \in 1..Len(queue) : submit[queue[i]] = "queued"
  /\ \A w \in Worker : cur[w] # None => submit[cur[w]] = "queued"

OneOwner ==
  QueueHasNoDuplicates /\ HeldByOne /\ HeldNotQueued /\ OwnedOnlyOncePut

(* Retries keep to the budget max_retries + 1 of the request, whatever     *)
(* races or faults happen, and ComfyUI never sees more prompts for a task  *)
(* than it has had attempts.                                               *)
Budget(r) == IF r = Malformed \/ r < 0 THEN 0 ELSE r + 1

AttemptBudget ==
  \A t \in Task : prompts[t] <= attempt[t] /\ attempt[t] <= Budget(retryLimit[t])

(* Where cancellation is reliable: a request registered before a worker    *)
(* has made its checks for the task means no attempt, no prompt and no     *)
(* result, and the task ends CANCELLED.  Holds while no append raises.     *)
Prevented(t) ==
  /\ attempt[t] = 0 /\ prompts[t] = 0 /\ result[t] = None
  /\ status[t] = "CANCELLED" \/ (status[t] = "PENDING" /\ Waiting(t))

CancelBeforeStart == \A t \in early : Prevented(t)

(* What appends that raise may cost, one thing each: a task in the store    *)
(* that is never queued, a worker thread, a cancellation in time that does *)
(* not prevent the task's run, or a result shown under status FAILED.      *)
Harm ==
  LET orphans == {t \in Task : submit[t] = "error"}
      dead == {w \in Worker : pc[w] = "dead"}
      overruled == {t \in early : ~Prevented(t)}
      mixed == {t \in Task : status[t] = "FAILED" /\ result[t] # None}
  IN  ({"orphan"} \X orphans) \cup ({"dead"} \X dead)
        \cup ({"overruled"} \X overruled) \cup ({"mixed"} \X mixed)

(* However many appends fail and wherever: no harm is done without one.    *)
FaultsArePaid == IsFiniteSet(Harm) /\ Cardinality(Harm) <= faults

(* task_done() is called exactly once for each item taken, on every path   *)
(* through the loop but a thread's death: q.join() would not hang.         *)
QueueBalance ==
  unfinished = Len(queue) + Cardinality({w \in Worker : cur[w] # None})

(* A result is the outcome of a generation that did reach ComfyUI, and of   *)
(* this very task unless its request asked for less than one attempt.      *)
ResultIsOwn ==
  \A t \in Task : result[t] # None =>
    /\ prompts[result[t]] > 0
    /\ result[t] = t \/ Budget(retryLimit[t]) = 0

(* A task is settled once its last owner has let go of it.                 *)
Settled(t) ==
  /\ submit[t] = "queued" /\ ~InQueue(t) /\ Holder(t) = {}
  /\ status[t] \in Terminal

(* A finished task carries a result or an error, not both and not neither, *)
(* and the status says which.  Cancellation may put CANCELLED and its own  *)
(* error over that, for the tasks it was requested for and no others, and  *)
(* only an append that raised leaves a FAILED task with a result.          *)
ResultOrError ==
  LET shows(t, e) == error[t] = e \/ t \in cancelled
  IN  \A t \in Task : Settled(t) =>
        \/ status[t] = "SUCCEEDED" /\ result[t] # None /\ shows(t, "None")
        \/ /\ status[t] = "FAILED" /\ shows(t, "Failure")
           /\ result[t] = None \/ faults > 0
        \/ status[t] = "CANCELLED" /\ t \in cancelled

(* The SUCCEEDED and FAILED counters of GET /metrics against the tasks of  *)
(* these states: no ended task goes uncounted but for an append that has    *)
(* raised, and none is counted twice, or counted and shown as something    *)
(* else, but for those the cancel endpoint shows as CANCELLED.             *)
Ends == {"SUCCEEDED", "FAILED"}
With(ends) == {t \in Task : status[t] \in ends}
At(place) == {w \in Worker : pc[w] = place}
Counted(ends) ==
  LET of(s, n, place) == IF s \in ends THEN n + Cardinality(At(place)) ELSE 0
  IN  of("SUCCEEDED", succeeded, "countSucceeded") + of("FAILED", failed, "countFailed")

MetricsAgree ==
  \A ends \in SUBSET Ends :
    /\ Cardinality(With(ends)) <= Counted(ends) + faults
    /\ Counted(ends) <= Cardinality(With(ends \cup {"CANCELLED"}))

(* Tasks shown PENDING or RUNNING that nobody will ever work on: their      *)
(* submit handler is done with them, and they are neither in the queue nor *)
(* with a worker that lives.  A worker that dies at Start leaves its task  *)
(* so, and a submit handler whose first append has raised.                 *)
Abandoned ==
  {t \in Task : /\ status[t] \in {"PENDING", "RUNNING"}
                /\ submit[t] # "put" /\ ~InQueue(t)
                /\ \A w \in Holder(t) : pc[w] = "dead"}

(* A task is stranded that way by a failed append of its own and by nothing *)
(* else: no path of the loop, no cancel request and no stop drops a task.  *)
NoTaskLost == IsFiniteSet(Abandoned) /\ Cardinality(Abandoned) <= faults

(* Every accepted task is settled in the end, however often attempts fail  *)
(* or hang, when no worker dies or is stopped.                             *)
Progress ==
  \A t \in Task : submit[t] = "put" ~> Settled(t)

(* A stopped worker ends its current task and leaves its loop or dies, if  *)
(* the process does not end before.                                        *)
StopExits ==
  \A w \in Worker : w \in stop ~> pc[w] \in {"exited", "dead"} \/ down

(* What CHANGELOG_P2.md:73 says of the cancel endpoint: a task it has found *)
(* PENDING and set CANCELLED is reliably cancelled.  The code violates it. *)
CancelledStaysCancelled ==
  [][\A t \in Task : status[t] = "CANCELLED" => status'[t] = "CANCELLED"]_vars

(* The abstract life of a task: see TaskLifecycle.                         *)
Phase(t) ==
  CASE submit[t] = "idle" -> "absent"
    [] submit[t] = "put" \/ InQueue(t) -> "waiting"
    [] \E w \in Worker : cur[w] = t /\ pc[w] \in Deciding \cup {"start"} -> "claimed"
    [] \E w \in Worker : cur[w] = t /\ pc[w] \in Working -> "running"
    [] OTHER -> "closed"

Lifecycle == INSTANCE TaskLifecycle WITH
  phase <- [t \in Task |-> Phase(t)], requested <- cancelled, slips <- faults

(* The threads, queue, retries and child processes implement that life,    *)
(* and leave it at one append that has raised for every departure.         *)
ImplementsLifecycle == Lifecycle!Spec
=============================================================================
