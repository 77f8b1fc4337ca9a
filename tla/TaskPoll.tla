----------------------------- MODULE TaskPoll -----------------------------
(***************************************************************************)
(* What the clients of the asynchronous bridge get to see.  A client       *)
(* submits a task and polls GET /task/{id}: submit_and_wait, which the MCP *)
(* tool calls, and run_one of the load test.  TaskStore.update assigns the *)
(* fields of a task one by one with the store's lock held; TaskStore.get   *)
(* holds the lock only to find the task, and the handler of GET then reads *)
(* the fields of the live object one by one without it.                    *)
(*                                                                         *)
(* The worker and the cancel handler of a task are here what they are to   *)
(* the fields: BridgeTasks has the queue, the retries and the appends to   *)
(* tasks.jsonl that raise.  A restart of the bridge loses every task.      *)
(***************************************************************************)
EXTENDS Naturals, Sequences

CONSTANTS
  Client,       \* a call of submit_and_wait or of the load test's run_one
  None,
  MaxFaults,    \* bound on the polls that fail though the task is there
  MaxRestarts   \* bound on the restarts of the bridge

ASSUME BoundAssumption == MaxFaults \in Nat /\ MaxRestarts \in Nat

VARIABLES
  task,         \* per client, the task its /submit has made
  lock,         \* TaskStore._lock: the update in progress
  work,         \* where the worker of the task is
  cancel,       \* where the handler of POST /task/{id}/cancel is
  registry,     \* bridge_cancel: the tasks to be cancelled
  client,       \* per client, its place, the answer so far, its verdict
  faults, restarts

server == <<task, lock, work, cancel, registry>>
vars == <<server, client, faults, restarts>>

Terminal == {"SUCCEEDED", "FAILED", "CANCELLED"}
Record == [status : Terminal \cup {"PENDING", "RUNNING"}, started : BOOLEAN, finished : BOOLEAN,
           result : BOOLEAN, error : {"None", "Failure", "Cancelled", "CancelRequested"}]

ASSUME NoneAssumption == None \notin Client \cup Record

(* The fields in the order the answer of GET is put together.              *)
Answered == <<"status", "started", "finished", "result", "error">>

New == [status |-> "PENDING", started |-> FALSE, finished |-> FALSE,
        result |-> FALSE, error |-> "None"]

Free == [task |-> None, todo |-> <<>>, to |-> None]

Fresh(kind) == [kind |-> kind, pc |-> "new", answer |-> <<>>, late |-> FALSE, verdict |-> "none"]

Init ==
  /\ task = [c \in Client |-> None]
  /\ lock = Free
  /\ work = [c \in Client |-> "none"]
  /\ cancel = [c \in Client |-> "none"]
  /\ registry = {}
  /\ client \in [Client -> {Fresh("wait"), Fresh("load")}]
  /\ faults = 0 /\ restarts = 0

-----------------------------------------------------------------------------
(* TaskStore.update: the lock, the fields in the order of the call, each   *)
(* to what the call makes of it, and, with the append to tasks.jsonl, the  *)
(* lock again.                                                             *)
Locked == lock.task # None

Updates(c, fields, to) ==
  ~Locked /\ task[c] # None /\ lock' = [task |-> c, todo |-> fields, to |-> to]

Assign ==
  /\ Locked /\ lock.todo # <<>>
  /\ task' = [task EXCEPT ![lock.task][Head(lock.todo)] = lock.to[Head(lock.todo)]]
  /\ lock' = [lock EXCEPT !.todo = Tail(@)]
  /\ UNCHANGED <<work, cancel, registry, client, faults, restarts>>

Release ==
  /\ Locked /\ lock.todo = <<>>
  /\ lock' = Free
  /\ UNCHANGED <<task, work, cancel, registry, client, faults, restarts>>

(* Worker._loop: q.get, the unlocked look at the status, the one at the     *)
(* registry, and the updates that start and end the task.                  *)
Works(c, from, to) ==
  /\ work[c] = from
  /\ work' = [work EXCEPT ![c] = to]
  /\ UNCHANGED <<task, cancel, registry, client, faults, restarts>>

Take(c) == Works(c, "queued", "taken") /\ UNCHANGED lock

LookFirst(c) ==
  /\ Works(c, "taken", IF task[c].status = "CANCELLED" THEN "done" ELSE "check")
  /\ UNCHANGED lock

Drop(c) ==
  /\ Works(c, "check", "done")
  /\ c \in registry
  /\ Updates(c, <<"status", "started", "finished", "error">>,
             [task[c] EXCEPT !.status = "CANCELLED", !.started = FALSE, !.finished = TRUE,
                             !.error = "Cancelled"])

PassRegistry(c) == Works(c, "check", "pass") /\ c \notin registry /\ UNCHANGED lock

Start(c) ==
  /\ Works(c, "pass", "running")
  /\ Updates(c, <<"status", "started">>, [task[c] EXCEPT !.status = "RUNNING", !.started = TRUE])

(* Faulty variant: two calls of update, the status first.                  *)
SucceedInTwo(c) ==
  \/ /\ Works(c, "running", "succeeding")
     /\ Updates(c, <<"status", "finished">>,
                [task[c] EXCEPT !.status = "SUCCEEDED", !.finished = TRUE])
  \/ /\ Works(c, "succeeding", "done")
     /\ Updates(c, <<"result", "error">>, [task[c] EXCEPT !.result = TRUE, !.error = "None"])

Succeed(c) ==
  /\ Works(c, "running", "done")
  /\ Updates(c, <<"status", "finished", "result", "error">>,
             [task[c] EXCEPT !.status = "SUCCEEDED", !.finished = TRUE, !.result = TRUE,
                             !.error = "None"])

(* Faulty variant: the error is left to the log.                           *)
FailSilently(c) ==
  /\ Works(c, "running", "done")
  /\ Updates(c, <<"status", "finished">>, [task[c] EXCEPT !.status = "FAILED", !.finished = TRUE])

Fail(c) ==
  /\ Works(c, "running", "done")
  /\ Updates(c, <<"status", "finished", "error">>,
             [task[c] EXCEPT !.status = "FAILED", !.finished = TRUE, !.error = "Failure"])

(* POST /task/{id}/cancel: the registry, then the status without the lock, *)
(* then what the status that has been read calls for.                      *)
Cancels(c, from, to) ==
  /\ cancel[c] = from
  /\ cancel' = [cancel EXCEPT ![c] = to]
  /\ UNCHANGED <<task, work, client, faults, restarts>>

(* Faulty variant: the registry is not told.                               *)
AskInStoreOnly(c) ==
  /\ Cancels(c, "none", "asked") /\ task[c] # None
  /\ UNCHANGED <<registry, lock>>

AskToCancel(c) ==
  /\ Cancels(c, "none", "asked") /\ task[c] # None
  /\ registry' = registry \cup {c} /\ UNCHANGED lock

LookAtStatus(c) ==
  /\ Cancels(c, "asked", IF task[c].status \in {"PENDING", "RUNNING"}
                         THEN task[c].status ELSE "answered")
  /\ UNCHANGED <<registry, lock>>

MarkCancelled(c) ==
  /\ Cancels(c, "PENDING", "answered")
  /\ Updates(c, <<"status", "finished", "error">>,
             [task[c] EXCEPT !.status = "CANCELLED", !.finished = TRUE, !.error = "Cancelled"])
  /\ UNCHANGED registry

(* Faulty variant: the status that was looked at is written back.          *)
NoteWithStatus(c) ==
  /\ Cancels(c, "RUNNING", "answered")
  /\ Updates(c, <<"status", "error">>,
             [task[c] EXCEPT !.status = "RUNNING", !.error = "CancelRequested"])
  /\ UNCHANGED registry

NoteRequest(c) ==
  /\ Cancels(c, "RUNNING", "answered")
  /\ Updates(c, <<"error">>, [task[c] EXCEPT !.error = "CancelRequested"])
  /\ UNCHANGED registry

Worker(c) ==
  \/ Take(c) \/ LookFirst(c) \/ Drop(c) \/ PassRegistry(c)
  \/ Start(c) \/ Succeed(c) \/ Fail(c)
Canceller(c) == AskToCancel(c) \/ LookAtStatus(c) \/ MarkCancelled(c) \/ NoteRequest(c)

-----------------------------------------------------------------------------
Waits(c) == client[c].kind = "wait"

Goes(c, from, to) ==
  /\ client[c].pc = from
  /\ client' = [client EXCEPT ![c].pc = to]

Ends(c, from, verdict) ==
  /\ client[c].pc = from
  /\ client' = [client EXCEPT ![c].pc = "ended", ![c].verdict = verdict]

(* POST /submit.  new_task takes the lock; the put on the queue follows.   *)
Accepted(c) ==
  /\ ~Locked
  /\ task' = [task EXCEPT ![c] = New]
  /\ work' = [work EXCEPT ![c] = "queued"]
  /\ UNCHANGED <<lock, cancel, registry, faults, restarts>>

Submit(c) == Goes(c, "new", "poll") /\ Accepted(c)

(* The answer to an accepted task is lost: the client knows of no task.    *)
SubmitLost(c) == Ends(c, "new", "refused") /\ Accepted(c)

(* No connection, an answer that is no success, or an HTTP error.          *)
SubmitRefused(c) == Ends(c, "new", "refused") /\ UNCHANGED <<server, faults, restarts>>

(* The client's own deadline; it is looked at between two polls.           *)
Deadline(c) ==
  /\ client[c].pc \in {"poll", "read"} /\ ~client[c].late
  /\ client' = [client EXCEPT ![c].late = TRUE]
  /\ UNCHANGED <<server, faults, restarts>>

TimeOut(c) ==
  /\ client[c].late
  /\ Ends(c, "poll", "timeout")
  /\ UNCHANGED <<server, faults, restarts>>

(* A poll that fails raises in submit_and_wait.  run_one polls on after an *)
(* HTTPError or URLError; http_json lets a broken answer or a time-out     *)
(* while reading through, and that ends run_one too.                       *)
PollFailed(c) == Ends(c, "poll", "raised") \/ (~Waits(c) /\ UNCHANGED client)

PollFails(c) ==
  /\ client[c].pc = "poll" /\ ~client[c].late
  /\ IF task[c] = None THEN UNCHANGED faults
                       ELSE faults < MaxFaults /\ faults' = faults + 1
  /\ PollFailed(c)
  /\ UNCHANGED <<server, restarts>>

(* TASK_STORE.get in the handler.                                          *)
Get(c) ==
  /\ ~client[c].late
  /\ ~Locked /\ task[c] # None
  /\ Goes(c, "poll", "read")
  /\ UNCHANGED <<server, faults, restarts>>

(* The next field of the answer, read from the live task.                  *)
NextField(c) == Answered[Len(client[c].answer) + 1]

Read(c) ==
  /\ client[c].pc = "read" /\ Len(client[c].answer) < Len(Answered)
  /\ client' = [client EXCEPT ![c].answer = Append(@, task[c][NextField(c)])]
  /\ UNCHANGED <<server, faults, restarts>>

Answer(c) == [f \in {"status", "started", "finished", "result", "error"} |->
                client[c].answer[CHOOSE i \in 1..Len(Answered) : Answered[i] = f]]

(* Faulty variant: a failed task is waited for.                            *)
SucceededOnly(c) == {"SUCCEEDED"}

(* The statuses that end the polling of a client.                          *)
EndsPolling(c) == IF Waits(c) THEN {"SUCCEEDED", "FAILED"} ELSE Terminal

(* What is made of an answer that ends the polling: for generate_flux_image *)
(* a success without a result is one with nothing in it.                   *)
Verdict(c) ==
  IF Waits(c) /\ Answer(c).status = "SUCCEEDED" /\ ~Answer(c).result
  THEN "EMPTY" ELSE Answer(c).status

(* The answer is in: the end, or a pause and the next poll.                *)
Judge(c) ==
  /\ client[c].pc = "read" /\ Len(client[c].answer) = Len(Answered)
  /\ IF Answer(c).status \in EndsPolling(c)
     THEN client' = [client EXCEPT ![c].pc = "ended", ![c].verdict = Verdict(c)]
     ELSE client' = [client EXCEPT ![c].pc = "poll", ![c].answer = <<>>]
  /\ UNCHANGED <<server, faults, restarts>>

ClientStep(c) ==
  \/ Submit(c) \/ SubmitLost(c) \/ SubmitRefused(c)
  \/ TimeOut(c) \/ PollFails(c) \/ Get(c) \/ Read(c) \/ Judge(c)

-----------------------------------------------------------------------------
(* The bridge ends and is started again: the store is empty, every thread  *)
(* is gone, and the connections of the polls in progress break, with one   *)
(* exception or another.                                                   *)
Restart ==
  /\ restarts < MaxRestarts
  /\ restarts' = restarts + 1
  /\ task' = [c \in Client |-> None]
  /\ lock' = Free
  /\ work' = [c \in Client |-> "none"]
  /\ cancel' = [c \in Client |-> "none"]
  /\ registry' = {}
  /\ \E raised \in SUBSET Client :
       /\ \A c \in Client : Waits(c) => c \in raised
       /\ client' = [c \in Client |->
            IF client[c].pc # "read" THEN client[c]
            ELSE IF c \in raised THEN [client[c] EXCEPT !.pc = "ended", !.verdict = "raised"]
            ELSE [client[c] EXCEPT !.pc = "poll", !.answer = <<>>]]
  /\ UNCHANGED faults

Next ==
  \/ Assign \/ Release \/ Restart
  \/ \E c \in Client : Worker(c) \/ Canceller(c) \/ ClientStep(c) \/ Deadline(c)

Spec == Init /\ [][Next]_vars

(* Threads that can go on do, and a call of the store gets its lock in the *)
(* end.  Nothing makes anybody cancel, and no deadline comes.              *)
FairSpec ==
  /\ Spec /\ WF_vars(Assign) /\ WF_vars(Release)
  /\ \A c \in Client :
       /\ SF_vars(Worker(c)) /\ SF_vars(MarkCancelled(c)) /\ SF_vars(NoteRequest(c))
       /\ WF_vars(LookAtStatus(c)) /\ SF_vars(Get(c)) /\ WF_vars(ClientStep(c))
-----------------------------------------------------------------------------
(* An answer without the result of a task that has succeeded, or without   *)
(* the error of one that has failed, is possible, but only to a GET that   *)
(* reads the field in the middle of the update: asked again, the bridge    *)
(* gives it.  generate_flux_image makes an empty success of the first.     *)
TornOnlyWhileWriting ==
  [][\A c \in Client :
       LET before == client[c].answer
           after == client'[c].answer
           torn == \/ Len(after) = 4 /\ after[1] = "SUCCEEDED" /\ ~after[4]
                   \/ Len(after) = 5 /\ after[1] = "FAILED" /\ after[5] = "None"
       IN before # after /\ torn => lock.task = c]_vars

(* Between two updates a record tells one story, whoever has written what  *)
(* part of it: a status comes with its times, its result and its error,    *)
(* and a mixture of two endings needs a cancellation.                      *)
RecordIsWhole ==
  ~Locked =>
    \A c \in {c \in Client : task[c] # None} :
      LET t == task[c]
      IN /\ t.status = "PENDING" => t = New
         /\ t.status = "RUNNING" => t.started /\ ~t.result
         /\ t.status = "SUCCEEDED" => t.started /\ t.finished /\ t.result
         /\ t.status = "FAILED" => t.started /\ t.finished /\ t.error # "None" /\ ~t.result
         /\ t.status = "CANCELLED" => t.finished /\ t.error # "None"
         /\ c \notin registry =>
              /\ t.finished <=> t.status \in Terminal
              /\ t.error = IF t.status = "FAILED" THEN "Failure" ELSE "None"

(* What a client has been told in the end stays true: nothing writes over  *)
(* an ending but a cancellation, and a success told as an empty one is a   *)
(* success, with a result once the update has been made.                   *)
VerdictStands ==
  \A c \in Client :
    client[c].verdict \in Terminal \cup {"EMPTY"} /\ task[c] # None /\ c \notin registry =>
      /\ task[c].status = IF client[c].verdict = "EMPTY" THEN "SUCCEEDED" ELSE client[c].verdict
      /\ client[c].verdict = "EMPTY" => task[c].result \/ Locked

(* Who polls a task that has ended hears of it without the help of a       *)
(* deadline: run_one of every ending, submit_and_wait of all but CANCELLED,*)
(* bridge_client.py:70.                                                    *)
LearnsTheEnd ==
  \A c \in Client :
    <>[](/\ task[c] # None
         /\ task[c].status \in Terminal \ (IF Waits(c) THEN {"CANCELLED"} ELSE {}))
      => <>(client[c].pc = "ended")

(* The abstract life of a task, see TaskLifecycle.  The store's lock makes  *)
(* an update one step to whoever takes it next: the status of a task is    *)
(* what the update in progress makes of it.                                *)
StatusOf(c) ==
  CASE task[c] = None -> "ABSENT"
    [] task[c] # None /\ lock.task = c -> lock.to.status
    [] OTHER -> task[c].status

Phase(c) ==
  CASE work[c] = "none" -> "absent"
    [] work[c] = "queued" -> "waiting"
    [] work[c] \in {"taken", "check", "pass"} -> "claimed"
    [] work[c] = "running" -> "running"
    [] OTHER -> "closed"

Lifecycle == INSTANCE TaskLifecycle WITH
  Task <- Client, status <- [c \in Client |-> StatusOf(c)],
  phase <- [c \in Client |-> Phase(c)], requested <- registry, slips <- 0

(* The updates, field by field, and the unlocked looks in between make up  *)
(* that life, which a restart of the bridge ends for every task at once.   *)
ImplementsLifecycle == Lifecycle!SpecWithRestarts
=============================================================================
