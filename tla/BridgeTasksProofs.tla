-------------------------- MODULE BridgeTasksProofs --------------------------
(* Proofs about BridgeTasks, for every set of tasks, workers and cancel     *)
(* handlers, every queue capacity, every set of retry limits and any number *)
(* of failing appends.                                                     *)
EXTENDS BridgeTasks, SequenceTheorems, FiniteSetTheorems, TLAPS

-----------------------------------------------------------------------------
(* Type correctness.  What makes it inductive: a worker has a task exactly *)
(* where Worker._loop has one in hand, a child process only while it waits *)
(* in p.join, and a cancel handler past its first step knows its task.     *)
Shape ==
  /\ \A w \in Worker :
       /\ pc[w] \in Idle => cur[w] = None
       /\ pc[w] \notin Idle \cup {"dead"} => cur[w] \in Task
       /\ child[w] # "none" <=> pc[w] = "join"
  /\ \A c \in Canceller : cpc[c] # "idle" => ctask[c] \in Task

Typed == TypeOK /\ Shape

LEMMA TypedInit == Init => Typed
<1> SUFFICES ASSUME Init
             PROVE  TypeOK /\ Shape
  BY DEF Typed
<1>1. queue \in Seq(Task) /\ (MaxQueue > 0 => Len(queue) <= MaxQueue)
  BY MaxQueueAssumption DEF Init
<1>2. faults \in 0..MaxLogFaults
  BY MaxLogFaultsAssumption DEF Init
<1>3. TypeOK
  <2>1. /\ status \in [Task -> Status]
        /\ retryLimit \in [Task -> Int \cup {Malformed}]
        /\ attempt \in [Task -> Nat]
        /\ result \in [Task -> Task \cup {None}]
        /\ error \in [Task -> Errors]
        /\ submit \in [Task -> {"idle", "put", "queued", "error"}]
        /\ prompts \in [Task -> Nat]
    BY DEF Init, Status, Errors
  <2>2. /\ pc \in [Worker -> Place]
        /\ cur \in [Worker -> Task \cup {None}]
        /\ held \in [Worker -> Task \cup {None}]
        /\ child \in [Worker -> {"none", "spawned", "submitted", "returned", "raised"}]
    BY DEF Init, Place, Idle
  <2>3. /\ cpc \in [Canceller -> {"idle", "pending?", "running?", "mark", "note"}]
        /\ ctask \in [Canceller -> Task \cup {None}]
        /\ unfinished \in Int /\ succeeded \in Nat /\ failed \in Nat
        /\ cancelled \subseteq Task /\ early \subseteq cancelled
        /\ stop \subseteq Worker
    BY DEF Init
  <2>4. down \in BOOLEAN
    BY DEF Init
  <2>5. QED
    BY <1>1, <1>2, <2>1, <2>2, <2>3, <2>4 DEF TypeOK
<1>4. Shape
  BY DEF Init, Shape, Idle
<1>5. QED
  BY <1>3, <1>4

(* An append counts as a fault or does not, and never past the bound.      *)
LEMMA AppendTyped ==
  ASSUME faults \in 0..MaxLogFaults, AppendOk \/ AppendRaises
  PROVE  faults' \in 0..MaxLogFaults
BY MaxLogFaultsAssumption DEF AppendOk, AppendRaises

(* The queue as a sequence of tasks under put and get.                     *)
LEMMA QueueFacts ==
  ASSUME NEW t \in Task, queue \in Seq(Task)
  PROVE  /\ Append(queue, t) \in Seq(Task)
         /\ Len(Append(queue, t)) = Len(queue) + 1
         /\ \A i \in 1..Len(queue) : Append(queue, t)[i] = queue[i]
         /\ Append(queue, t)[Len(queue) + 1] = t
         /\ queue # <<>> => /\ Head(queue) = queue[1] /\ Head(queue) \in Task
                            /\ Len(queue) \in Nat \ {0}
                            /\ Tail(queue) \in Seq(Task)
                            /\ Len(Tail(queue)) = Len(queue) - 1
                            /\ \A i \in 1..(Len(queue) - 1) :
                                 Tail(queue)[i] = queue[i + 1]
BY HeadTailProperties, AppendProperties

LEMMA WorkerTyped ==
  ASSUME Typed, NEW w \in Worker, WorkerStep(w)
  PROVE  Typed'
<1> USE NoneAssumption, MaxLogFaultsAssumption, MaxQueueAssumption
    DEF Typed, TypeOK, Shape, Place, Idle, Deciding, Working, Releasing, Goto,
        Up, store, queued, generation, metrics, workers, outside
<1>1. CASE EnterGet(w)
  BY <1>1 DEF EnterGet, Moves
<1>2. CASE LeaveLoop(w)
  BY <1>2 DEF LeaveLoop, Moves
<1>3. CASE GetEmpty(w)
  BY <1>3 DEF GetEmpty, Moves
<1>4. CASE Take(w)
  BY <1>4, HeadTailProperties DEF Take
<1>5. CASE SkipCancelled(w)
  BY <1>5 DEF SkipCancelled, TaskDone
<1>6. CASE PassStatusCheck(w)
  BY <1>6 DEF PassStatusCheck, Moves
<1>7. CASE DropCancelled(w)
  <2>1. cur[w] \in Task
    BY <1>7 DEF DropCancelled
  <2>2. status' \in [Task -> Status] /\ error' \in [Task -> Errors]
    BY <1>7, <2>1 DEF DropCancelled, SetStatus, SetError, Status, Errors
  <2>3. faults' \in 0..MaxLogFaults
    BY <1>7, AppendTyped DEF DropCancelled
  <2>4. \E place \in {"loop", "start"} : pc' = [pc EXCEPT ![w] = place]
    BY <1>7 DEF DropCancelled, TaskDone
  <2>5. /\ queue' = queue
       /\ unfinished' \in {unfinished, unfinished - 1}
       /\ cur' \in {cur, [cur EXCEPT ![w] = None]}
    BY <1>7 DEF DropCancelled, TaskDone
  <2>6. TypeOK'
    BY <1>7, <2>2, <2>3, <2>4, <2>5 DEF DropCancelled
  <2>7. Shape'
    BY <1>7, <2>4 DEF DropCancelled, TaskDone
  <2>8. QED
    BY <2>6, <2>7
<1>8. CASE PassRegistry(w)
  BY <1>8 DEF PassRegistry, Moves
<1>9. CASE Start(w)
  <2>1. cur[w] \in Task
    BY <1>9 DEF Start
  <2>2. status' \in [Task -> Status]
    BY <1>9, <2>1 DEF Start, SetStatus, SetError, Status, Errors
  <2>3. faults' \in 0..MaxLogFaults
    BY <1>9, AppendTyped DEF Start
  <2>4. \E place \in {"fail", "attempt", "dead"} : pc' = [pc EXCEPT ![w] = place]
    BY <1>9 DEF Start, TaskDone
  <2>5. TypeOK'
    BY <1>9, <2>2, <2>3, <2>4 DEF Start, TaskDone
  <2>6. Shape'
    BY <1>9, <2>4 DEF Start, TaskDone
  <2>7. QED
    BY <2>5, <2>6
<1>10. CASE BeginAttempt(w)
  <2>1. cur[w] \in Task
    BY <1>10 DEF BeginAttempt
  <2>2. attempt' \in [Task -> Nat]
    BY <1>10, <2>1 DEF BeginAttempt, SetStatus, SetError, Status, Errors
  <2>3. faults' \in 0..MaxLogFaults
    BY <1>10, AppendTyped DEF BeginAttempt
  <2>4. \E place \in {"join"} : pc' = [pc EXCEPT ![w] = place]
    BY <1>10 DEF BeginAttempt, TaskDone
  <2>5. TypeOK'
    BY <1>10, <2>2, <2>3, <2>4 DEF BeginAttempt, TaskDone
  <2>6. Shape'
    BY <1>10, <2>4 DEF BeginAttempt, TaskDone
  <2>7. QED
    BY <2>5, <2>6
<1>11. CASE NoAttempt(w)
  BY <1>11 DEF NoAttempt, Moves
<1>12. CASE Collect(w)
  BY <1>12 DEF Collect
<1>13. CASE AttemptFails(w)
  BY <1>13 DEF AttemptFails
<1>14. CASE Backoff(w)
  BY <1>14 DEF Backoff, Moves
<1>15. CASE Succeed(w)
  <2>1. cur[w] \in Task
    BY <1>15 DEF Succeed
  <2>2. /\ status' \in [Task -> Status]
       /\ error' \in [Task -> Errors]
       /\ result' \in [Task -> Task \cup {None}]
    BY <1>15, <2>1 DEF Succeed, SetStatus, SetError, Status, Errors
  <2>3. faults' \in 0..MaxLogFaults
    BY <1>15, AppendTyped DEF Succeed
  <2>4. \E place \in {"countSucceeded", "fail"} : pc' = [pc EXCEPT ![w] = place]
    BY <1>15 DEF Succeed, TaskDone
  <2>5. TypeOK'
    BY <1>15, <2>2, <2>3, <2>4 DEF Succeed, TaskDone
  <2>6. Shape'
    BY <1>15, <2>4 DEF Succeed, TaskDone
  <2>7. QED
    BY <2>5, <2>6
<1>16. CASE Fail(w)
  <2>1. cur[w] \in Task
    BY <1>16 DEF Fail
  <2>2. status' \in [Task -> Status] /\ error' \in [Task -> Errors]
    BY <1>16, <2>1 DEF Fail, SetStatus, SetError, Status, Errors
  <2>3. faults' \in 0..MaxLogFaults
    BY <1>16, AppendTyped DEF Fail
  <2>4. \E place \in {"countFailed", "dead"} : pc' = [pc EXCEPT ![w] = place]
    BY <1>16 DEF Fail, TaskDone
  <2>5. /\ queue' = queue
       /\ unfinished' \in {unfinished, unfinished - 1}
       /\ cur' \in {cur, [cur EXCEPT ![w] = None]}
    BY <1>16 DEF Fail, TaskDone
  <2>6. TypeOK'
    BY <1>16, <2>2, <2>3, <2>4, <2>5 DEF Fail
  <2>7. Shape'
    BY <1>16, <2>4 DEF Fail, TaskDone
  <2>8. QED
    BY <2>6, <2>7
<1>17. CASE ReleaseSucceeded(w)
  BY <1>17 DEF ReleaseSucceeded, TaskDone
<1>18. CASE ReleaseFailed(w)
  BY <1>18 DEF ReleaseFailed, TaskDone
<1>19. QED
  BY <1>1, <1>2, <1>3, <1>4, <1>5, <1>6, <1>7, <1>8, <1>9, <1>10, <1>11, <1>12,
     <1>13, <1>14, <1>15, <1>16, <1>17, <1>18 DEF WorkerStep

LEMMA HandlerTyped ==
  ASSUME Typed, NEW t \in Task, Submit(t) \/ Put(t)
  PROVE  Typed'
<1> USE MaxQueueAssumption
    DEF Typed, TypeOK, Up, store, queued, generation, metrics, workers, outside
<1>1. CASE Submit(t)
  <2>1. faults' \in 0..MaxLogFaults
    BY <1>1, AppendTyped DEF Submit
  <2>2. /\ status' \in [Task -> Status]
       /\ retryLimit' \in [Task -> Int \cup {Malformed}]
       /\ submit' \in [Task -> {"idle", "put", "queued", "error"}]
    BY <1>1, RetryLimitsAssumption DEF Submit, SetStatus, Status
  <2>3. TypeOK'
    BY <1>1, <2>1, <2>2 DEF Submit
  <2>4. Shape'
    BY <1>1 DEF Submit, Shape
  <2>5. QED
    BY <2>3, <2>4
<1>2. CASE Put(t)
  <2>1. /\ queue' \in Seq(Task)
       /\ MaxQueue > 0 => Len(queue') <= MaxQueue
    BY <1>2, QueueFacts DEF Put, HasRoom
  <2>2. TypeOK'
    BY <1>2, <2>1 DEF Put
  <2>3. Shape'
    BY <1>2 DEF Put, Shape
  <2>4. QED
    BY <2>2, <2>3
<1>3. QED
  BY <1>1, <1>2

LEMMA ChildTyped ==
  ASSUME Typed, NEW w \in Worker, ChildStep(w)
  PROVE  Typed'
<1> USE DEF Typed, TypeOK, Shape, Idle, Up, store, queued, metrics, outside
<1>1. CASE ChildSubmits(w)
  <2>1. cur[w] \in Task
    BY <1>1 DEF ChildSubmits
  <2>2. prompts' \in [Task -> Nat]
    BY <1>1, <2>1 DEF ChildSubmits
  <2>3. QED
    BY <1>1, <2>2 DEF ChildSubmits
<1>2. CASE ChildReturns(w)
  BY <1>2 DEF ChildReturns
<1>3. CASE ChildRaises(w)
  BY <1>3 DEF ChildRaises
<1>4. QED
  BY <1>1, <1>2, <1>3 DEF ChildStep

LEMMA CancelTyped ==
  ASSUME Typed, NEW c \in Canceller, CancelStep(c)
  PROVE  Typed'
<1> USE DEF Typed, TypeOK, Shape, Idle, Up, store, queued, generation,
            metrics, workers
<1>1. CASE \E t \in Task : RequestCancel(c, t)
  BY <1>1 DEF RequestCancel
<1>2. CASE ReadPending(c)
  BY <1>2 DEF ReadPending
<1>3. CASE ReadRunning(c)
  BY <1>3 DEF ReadRunning
<1>4. CASE MarkCancelled(c)
  <2>1. faults' \in 0..MaxLogFaults
    BY <1>4, AppendTyped DEF MarkCancelled
  <2>2. QED
    BY <1>4, <2>1 DEF MarkCancelled, SetStatus, SetError, Status, Errors
<1>5. CASE NoteRequested(c)
  <2>1. faults' \in 0..MaxLogFaults
    BY <1>5, AppendTyped DEF NoteRequested
  <2>2. QED
    BY <1>5, <2>1 DEF NoteRequested, SetError, Errors
<1>6. QED
  BY <1>1, <1>2, <1>3, <1>4, <1>5 DEF CancelStep

LEMMA TypedStep == Typed /\ [Next]_vars => Typed'
<1> SUFFICES ASSUME Typed, [Next]_vars
             PROVE  Typed'
  OBVIOUS
<1>1. ASSUME NEW w \in Worker, StopWorker(w)
      PROVE  Typed'
  BY <1>1 DEF StopWorker, Up, Typed, TypeOK, Shape, store, workers, queued,
     generation, metrics
<1>2. CASE ProcessEnds \/ UNCHANGED vars
  BY <1>2 DEF ProcessEnds, vars, Typed, TypeOK, Shape, store, workers,
     queued, generation, metrics, outside
<1>3. QED
  BY <1>1, <1>2, HandlerTyped, WorkerTyped, ChildTyped, CancelTyped DEF Next

(* Every field, counter, queue and registry of the bridge keeps its type,  *)
(* and the queue never grows past --max-queue, whatever the interleaving   *)
(* of handlers and workers and however many appends fail.                  *)
THEOREM TypeCorrect == Spec => []TypeOK
<1>1. Typed => TypeOK
  BY DEF Typed
<1>2. QED
  BY <1>1, TypedInit, TypedStep, PTL DEF Spec

-----------------------------------------------------------------------------
(* One owner.  Only put, get and task_done move a task between its handler, *)
(* the queue and a worker; every other step leaves the owners alone.        *)
LEMMA OwnersKept ==
  ASSUME OneOwner, UNCHANGED <<queue, cur, submit>>
  PROVE  OneOwner'
BY DEF OneOwner, QueueHasNoDuplicates, HeldByOne, HeldNotQueued,
   OwnedOnlyOncePut

LEMMA OwnerReleases ==
  ASSUME Typed, OneOwner, NEW w \in Worker, TaskDone(w), UNCHANGED submit
  PROVE  OneOwner'
<1>1. /\ cur \in [Worker -> Task \cup {None}] /\ queue \in Seq(Task)
      /\ cur' = [cur EXCEPT ![w] = None]
      /\ UNCHANGED <<queue, submit>>
  BY DEF TaskDone, Typed, TypeOK
<1>2. QueueHasNoDuplicates' /\ HeldByOne'
  BY <1>1 DEF OneOwner, QueueHasNoDuplicates, HeldByOne
<1>3. HeldNotQueued'
  <2>1. \A i \in 1..Len(queue) : queue[i] # None
    BY <1>1, NoneAssumption
  <2>2. QED
    BY <1>1, <2>1 DEF OneOwner, HeldNotQueued
<1>4. OwnedOnlyOncePut'
  BY <1>1 DEF OneOwner, OwnedOnlyOncePut
<1>5. QED
  BY <1>2, <1>3, <1>4 DEF OneOwner

LEMMA OwnerSubmits ==
  ASSUME Typed, OneOwner, NEW t \in Task, Submit(t)
  PROVE  OneOwner'
BY DEF Submit, workers, queued, Typed, TypeOK, OneOwner, QueueHasNoDuplicates,
   HeldByOne, HeldNotQueued, OwnedOnlyOncePut

LEMMA OwnerPuts ==
  ASSUME Typed, OneOwner, NEW t \in Task, Put(t)
  PROVE  OneOwner'
<1>1. queue \in Seq(Task) /\ submit \in [Task -> {"idle", "put", "queued", "error"}]
  BY DEF Typed, TypeOK
<1>2. /\ \A i \in 1..Len(queue) : queue[i] # t
      /\ \A w \in Worker : cur[w] # t
  BY NoneAssumption DEF Put, OneOwner, OwnedOnlyOncePut
<1>3. /\ queue' = Append(queue, t) /\ UNCHANGED cur
      /\ submit' = [submit EXCEPT ![t] = "queued"]
  BY DEF Put
<1>4. /\ Len(queue') = Len(queue) + 1 /\ Len(queue) \in Nat
      /\ \A i \in 1..Len(queue) : queue'[i] = queue[i]
      /\ queue'[Len(queue) + 1] = t
  BY <1>1, <1>3, QueueFacts
<1>5. QueueHasNoDuplicates'
  BY <1>2, <1>4 DEF OneOwner, QueueHasNoDuplicates
<1>6. HeldByOne' /\ HeldNotQueued'
  BY <1>2, <1>3, <1>4 DEF OneOwner, HeldByOne, HeldNotQueued
<1>7. OwnedOnlyOncePut'
  BY <1>1, <1>3, <1>4 DEF OneOwner, OwnedOnlyOncePut, Typed, TypeOK
<1>8. QED
  BY <1>5, <1>6, <1>7 DEF OneOwner

LEMMA OwnerTakes ==
  ASSUME Typed, OneOwner, NEW w \in Worker, Take(w)
  PROVE  OneOwner'
<1>1. queue \in Seq(Task) /\ cur \in [Worker -> Task \cup {None}]
  BY DEF Typed, TypeOK
<1>2. /\ cur' = [cur EXCEPT ![w] = queue[1]]
      /\ UNCHANGED submit
      /\ Len(queue) \in Nat \ {0}
      /\ Len(queue') = Len(queue) - 1
      /\ \A i \in 1..(Len(queue) - 1) : queue'[i] = queue[i + 1]
  <2>1. \E t \in Task : TRUE
    BY <1>1, HeadTailProperties DEF Take
  <2>2. QED
    BY <1>1, <2>1, QueueFacts DEF Take, outside
<1>3. QueueHasNoDuplicates'
  BY <1>2 DEF OneOwner, QueueHasNoDuplicates
<1>4. HeldByOne'
  BY <1>1, <1>2 DEF OneOwner, HeldByOne, HeldNotQueued
<1>5. HeldNotQueued'
  BY <1>1, <1>2 DEF OneOwner, QueueHasNoDuplicates, HeldNotQueued
<1>6. OwnedOnlyOncePut'
  BY <1>1, <1>2 DEF OneOwner, OwnedOnlyOncePut
<1>7. QED
  BY <1>3, <1>4, <1>5, <1>6 DEF OneOwner

LEMMA OwnerWorks ==
  ASSUME Typed, OneOwner, NEW w \in Worker, WorkerStep(w)
  PROVE  OneOwner'
<1> USE OwnersKept, OwnerReleases
    DEF Moves, store, queued, generation, metrics, workers, outside
<1>1. CASE EnterGet(w) \/ LeaveLoop(w) \/ GetEmpty(w)
  BY <1>1 DEF EnterGet, LeaveLoop, GetEmpty
<1>2. CASE Take(w)
  BY <1>2, OwnerTakes
<1>3. CASE SkipCancelled(w)
  BY <1>3 DEF SkipCancelled
<1>4. CASE DropCancelled(w)
  BY <1>4 DEF DropCancelled
<1>5. CASE PassStatusCheck(w) \/ PassRegistry(w)
  BY <1>5 DEF PassStatusCheck, PassRegistry
<1>6. CASE Start(w) \/ BeginAttempt(w) \/ NoAttempt(w)
  BY <1>6 DEF Start, BeginAttempt, NoAttempt
<1>7. CASE Collect(w) \/ AttemptFails(w) \/ Backoff(w)
  BY <1>7 DEF Collect, AttemptFails, Backoff
<1>8. CASE Succeed(w)
  BY <1>8 DEF Succeed
<1>9. CASE Fail(w)
  BY <1>9 DEF Fail
<1>10. CASE ReleaseSucceeded(w) \/ ReleaseFailed(w)
  BY <1>10 DEF ReleaseSucceeded, ReleaseFailed
<1>11. QED
  BY <1>1, <1>2, <1>3, <1>4, <1>5, <1>6, <1>7, <1>8, <1>9, <1>10 DEF WorkerStep

LEMMA OwnerStep == Typed /\ OneOwner /\ [Next]_vars => OneOwner'
<1> SUFFICES ASSUME Typed, OneOwner, [Next]_vars
             PROVE  OneOwner'
  OBVIOUS
<1>1. ASSUME NEW w \in Worker, ChildStep(w) \/ StopWorker(w)
      PROVE  OneOwner'
  BY <1>1, OwnersKept
     DEF ChildStep, ChildSubmits, ChildReturns, ChildRaises, StopWorker,
         workers, queued, outside
<1>2. ASSUME NEW c \in Canceller, CancelStep(c)
      PROVE  OneOwner'
  BY <1>2, OwnersKept
     DEF CancelStep, RequestCancel, ReadPending, ReadRunning, MarkCancelled,
         NoteRequested, workers, queued
<1>3. CASE ProcessEnds \/ UNCHANGED vars
  BY <1>3, OwnersKept DEF ProcessEnds, vars, workers, queued, outside
<1>4. QED
  BY <1>1, <1>2, <1>3, OwnerSubmits, OwnerPuts, OwnerWorks DEF Next

LEMMA OwnerInit == Init => OneOwner
BY DEF Init, OneOwner, QueueHasNoDuplicates, HeldByOne, HeldNotQueued,
   OwnedOnlyOncePut

(* No task is ever in two hands: not twice in the queue, not with two      *)
(* workers, not queued and held.  The unlocked writes of Worker._loop to   *)
(* its task rely on it.                                                    *)
THEOREM TaskHasOneOwner == Spec => []OneOwner
<1> DEFINE Inv == Typed /\ OneOwner
<1>1. Init => Inv
  BY TypedInit, OwnerInit
<1>2. Inv /\ [Next]_vars => Inv'
  BY TypedStep, OwnerStep
<1>3. Inv => OneOwner
  OBVIOUS
<1>4. QED
  BY <1>1, <1>2, <1>3, PTL DEF Spec

-----------------------------------------------------------------------------
(* The retry budget.  A task is worked on only under a well-formed limit, a *)
(* child that has not submitted its prompt still has one to its attempt,   *)
(* and a task without a handler has had neither attempts nor prompts.      *)
RetryShape ==
  /\ \A t \in Task : submit[t] = "idle" => attempt[t] = 0 /\ prompts[t] = 0
  /\ \A w \in Worker :
       /\ pc[w] \in {"attempt", "join", "backoff"} => retryLimit[cur[w]] \in Int
       /\ child[w] = "spawned" => prompts[cur[w]] < attempt[cur[w]]

Retries == AttemptBudget /\ RetryShape

LEMMA BudgetFacts ==
  ASSUME NEW r \in Int \cup {Malformed}
  PROVE  /\ Budget(r) \in Nat
         /\ r \in Int => \A n \in Nat : n <= r => n + 1 <= Budget(r)
BY MalformedAssumption DEF Budget

(* Every step but Submit, Start, BeginAttempt and ChildSubmits leaves the  *)
(* counts, the limits and the retry places of the workers as they are, or  *)
(* takes a worker out of them.                                             *)
LEMMA RetriesKept ==
  ASSUME Typed, Retries, UNCHANGED <<retryLimit, attempt, prompts>>,
         \A t \in Task : submit'[t] = "idle" => submit[t] = "idle",
         \A w \in Worker :
           /\ pc'[w] \in {"attempt", "join", "backoff"} =>
                pc[w] \in {"attempt", "join", "backoff"} /\ cur'[w] = cur[w]
           /\ child'[w] = "spawned" => child[w] = "spawned" /\ cur'[w] = cur[w]
  PROVE  Retries'
BY DEF Retries, AttemptBudget, RetryShape

LEMMA RetriesSubmit ==
  ASSUME Typed, OneOwner, Retries, NEW t \in Task, Submit(t)
  PROVE  Retries'
<1>1. /\ submit[t] = "idle" /\ UNCHANGED <<attempt, prompts, pc, cur, child>>
      /\ submit' \in [Task -> {"idle", "put", "queued", "error"}]
      /\ \A u \in Task : submit'[u] = "idle" => submit[u] = "idle"
  BY DEF Submit, Typed, TypeOK, workers, generation
<1>2. PICK r \in RetryLimits : retryLimit' = [retryLimit EXCEPT ![t] = r]
  BY DEF Submit
<1>3. Budget(r) \in Nat
  BY RetryLimitsAssumption, BudgetFacts
<1>4. AttemptBudget'
  BY <1>1, <1>2, <1>3 DEF Retries, RetryShape, AttemptBudget, Typed, TypeOK
<1>5. \A w \in Worker : pc[w] \in {"attempt", "join", "backoff"} => cur[w] # t
  BY <1>1, NoneAssumption DEF OneOwner, OwnedOnlyOncePut
<1>6. RetryShape'
  <2>1. \A w \in Worker :
          pc[w] \in {"attempt", "join", "backoff"} => cur[w] \in Task \ {t}
    BY <1>5 DEF Typed, Shape, Idle
  <2>2. QED
    BY <1>1, <1>2, <2>1 DEF Retries, RetryShape, Typed, TypeOK
<1>7. QED
  BY <1>4, <1>6 DEF Retries

LEMMA RetriesStart ==
  ASSUME Typed, Retries, NEW w \in Worker, Start(w)
  PROVE  Retries'
<1>1. cur[w] \in Task /\ child[w] = "none"
  BY DEF Start, Typed, Shape, Idle
<1>2. pc'[w] = "attempt" => retryLimit[cur[w]] \in Int
  BY <1>1 DEF Start, Goto, Typed, TypeOK
<1>3. /\ pc' = [pc EXCEPT ![w] = pc'[w]]
      /\ pc'[w] \in {"attempt", "fail", "dead"}
      /\ UNCHANGED <<retryLimit, attempt, prompts, submit, cur, child>>
  BY DEF Start, Goto, Typed, TypeOK, outside, generation
<1>4. QED
  BY <1>1, <1>2, <1>3 DEF Retries, AttemptBudget, RetryShape, Typed, TypeOK

LEMMA RetriesBegin ==
  ASSUME Typed, OneOwner, Retries, NEW w \in Worker, BeginAttempt(w)
  PROVE  Retries'
<1> DEFINE t == cur[w]
<1>1. /\ t \in Task /\ retryLimit[t] \in Int /\ submit[t] = "queued"
      /\ attempt[t] \in Nat /\ attempt[t] <= retryLimit[t]
      /\ prompts[t] \in Nat /\ prompts[t] <= attempt[t]
  BY NoneAssumption
     DEF BeginAttempt, AttemptsLeft, Typed, TypeOK, Shape, Idle, Retries,
         RetryShape, AttemptBudget, OneOwner, OwnedOnlyOncePut
<1>2. /\ attempt' = [attempt EXCEPT ![t] = attempt[t] + 1]
      /\ pc[w] = "attempt"
      /\ pc' = [pc EXCEPT ![w] = "join"]
      /\ child' = [child EXCEPT ![w] = "spawned"]
      /\ UNCHANGED <<retryLimit, prompts, submit, cur>>
  BY DEF BeginAttempt, Goto, outside
<1> HIDE DEF t
<1>3. attempt[t] + 1 <= Budget(retryLimit[t])
  BY <1>1, BudgetFacts
<1>4. AttemptBudget'
  BY <1>1, <1>2, <1>3 DEF Retries, AttemptBudget, Typed, TypeOK
<1>5. \A v \in Worker : child'[v] = "spawned" => prompts'[cur'[v]] < attempt'[cur'[v]]
  <2> SUFFICES ASSUME NEW v \in Worker, child'[v] = "spawned"
               PROVE  prompts[cur[v]] < attempt'[cur[v]]
    BY <1>2
  <2>1. CASE v = w
    BY <2>1, <1>1, <1>2 DEF t, Typed, TypeOK
  <2>2. CASE v # w
    <3>1. child[v] = "spawned" /\ cur[v] \in Task
      BY <2>2, <1>2 DEF Typed, TypeOK, Shape, Idle
    <3>2. cur[v] # t
      BY <2>2, <3>1, <1>1, NoneAssumption DEF t, OneOwner, HeldByOne
    <3>3. QED
      BY <3>1, <3>2, <1>2 DEF Retries, RetryShape, Typed, TypeOK
  <2>3. QED
    BY <2>1, <2>2
<1>6. RetryShape'
  BY <1>1, <1>2, <1>5 DEF t, Retries, RetryShape, Typed, TypeOK
<1>7. QED
  BY <1>4, <1>6 DEF Retries

LEMMA RetriesPrompt ==
  ASSUME Typed, OneOwner, Retries, NEW w \in Worker, ChildSubmits(w)
  PROVE  Retries'
<1> DEFINE t == cur[w]
<1>1. /\ t \in Task /\ submit[t] = "queued" /\ pc[w] = "join"
      /\ prompts[t] \in Nat /\ attempt[t] \in Nat /\ prompts[t] < attempt[t]
  BY NoneAssumption
     DEF ChildSubmits, Typed, TypeOK, Shape, Idle, Retries, RetryShape,
         OneOwner, OwnedOnlyOncePut
<1>2. /\ prompts' = [prompts EXCEPT ![t] = prompts[t] + 1]
      /\ child' = [child EXCEPT ![w] = "submitted"]
      /\ UNCHANGED <<retryLimit, attempt, submit, pc, cur>>
  BY DEF ChildSubmits, store, outside
<1> HIDE DEF t
<1>3. AttemptBudget'
  BY <1>1, <1>2 DEF Retries, AttemptBudget, Typed, TypeOK
<1>4. ASSUME NEW v \in Worker, child'[v] = "spawned"
      PROVE  prompts'[cur[v]] < attempt[cur[v]]
  <2>1. v # w /\ child[v] = "spawned" /\ cur[v] \in Task
    BY <1>2, <1>4 DEF Typed, TypeOK, Shape, Idle
  <2>2. cur[v] # t
    BY <2>1, <1>1, NoneAssumption DEF t, OneOwner, HeldByOne
  <2>3. QED
    BY <2>1, <2>2, <1>2 DEF Retries, RetryShape, Typed, TypeOK
<1>5. RetryShape'
  BY <1>1, <1>2, <1>4 DEF Retries, RetryShape, Typed, TypeOK
<1>6. QED
  BY <1>3, <1>5 DEF Retries

LEMMA RetriesWork ==
  ASSUME Typed, OneOwner, Retries, NEW w \in Worker, WorkerStep(w)
  PROVE  Retries'
<1> USE DEF Moves, Goto, TaskDone, Typed, TypeOK, store, queued, generation,
            metrics, workers, outside
<1>1. CASE EnterGet(w) \/ LeaveLoop(w) \/ GetEmpty(w)
  BY <1>1, RetriesKept DEF EnterGet, LeaveLoop, GetEmpty
<1>2. CASE Take(w)
  BY <1>2, RetriesKept DEF Take, Shape
<1>3. CASE SkipCancelled(w)
  BY <1>3, RetriesKept DEF SkipCancelled, Shape
<1>4. CASE DropCancelled(w)
  BY <1>4, RetriesKept DEF DropCancelled, Shape
<1>5. CASE PassStatusCheck(w) \/ PassRegistry(w)
  BY <1>5, RetriesKept DEF PassStatusCheck, PassRegistry
<1>6. CASE Start(w)
  BY <1>6, RetriesStart
<1>7. CASE BeginAttempt(w)
  BY <1>7, RetriesBegin
<1>8. CASE NoAttempt(w)
  BY <1>8, RetriesKept DEF NoAttempt
<1>9. CASE Collect(w) \/ AttemptFails(w)
  BY <1>9, RetriesKept DEF Collect, AttemptFails
<1>10. CASE Backoff(w)
  BY <1>10, RetriesKept DEF Backoff
<1>11. CASE Succeed(w)
  BY <1>11, RetriesKept DEF Succeed
<1>12. CASE Fail(w)
  BY <1>12, RetriesKept DEF Fail, Shape
<1>13. CASE ReleaseSucceeded(w) \/ ReleaseFailed(w)
  BY <1>13, RetriesKept DEF ReleaseSucceeded, ReleaseFailed, Shape
<1>14. QED
  BY <1>1, <1>2, <1>3, <1>4, <1>5, <1>6, <1>7, <1>8, <1>9, <1>10, <1>11,
     <1>12, <1>13 DEF WorkerStep

LEMMA RetriesStep == Typed /\ OneOwner /\ Retries /\ [Next]_vars => Retries'
<1> SUFFICES ASSUME Typed, OneOwner, Retries, [Next]_vars
             PROVE  Retries'
  OBVIOUS
<1>1. ASSUME NEW t \in Task, Put(t)
      PROVE  Retries'
  BY <1>1, RetriesKept DEF Put, Typed, TypeOK, store, generation
<1>2. ASSUME NEW w \in Worker, ChildReturns(w) \/ ChildRaises(w) \/ StopWorker(w)
      PROVE  Retries'
  BY <1>2, RetriesKept
     DEF ChildReturns, ChildRaises, StopWorker, Typed, TypeOK, workers, queued,
         generation, outside, store
<1>3. ASSUME NEW c \in Canceller, CancelStep(c)
      PROVE  Retries'
  BY <1>3, RetriesKept
     DEF CancelStep, RequestCancel, ReadPending, ReadRunning, MarkCancelled,
         NoteRequested, workers, queued, generation, store
<1>4. CASE ProcessEnds \/ UNCHANGED vars
  BY <1>4, RetriesKept DEF ProcessEnds, vars, workers, queued, outside, store, generation
<1>5. QED
  BY <1>1, <1>2, <1>3, <1>4, RetriesSubmit, RetriesWork, RetriesPrompt
     DEF Next, ChildStep

LEMMA RetriesInit == Init => Retries
BY DEF Init, Retries, AttemptBudget, RetryShape, Budget

(* However attempts fail, hang or race with cancellation and however many  *)
(* appends fail, no task gets more than max_retries + 1 attempts, and      *)
(* ComfyUI no more prompts for it than that.                               *)
THEOREM RetriesKeepTheBudget == Spec => []AttemptBudget
<1> DEFINE Inv == Typed /\ OneOwner /\ Retries
<1>1. Init => Inv
  BY TypedInit, OwnerInit, RetriesInit
<1>2. Inv /\ [Next]_vars => Inv'
  BY TypedStep, OwnerStep, RetriesStep
<1>3. Inv => AttemptBudget
  BY DEF Retries
<1>4. QED
  BY <1>1, <1>2, <1>3, PTL DEF Spec

-----------------------------------------------------------------------------
(* The balance of the queue: the items taken and not yet reported done are *)
(* the tasks in the workers' hands.                                        *)
Busy == {w \in Worker : cur[w] # None}

LEMMA BusyFacts ==
  ASSUME cur \in [Worker -> Task \cup {None}], NEW w \in Worker
  PROVE  /\ Cardinality(Busy) \in Nat
         /\ \A t \in Task : cur[w] = None /\ cur' = [cur EXCEPT ![w] = t] =>
              Cardinality(Busy') = Cardinality(Busy) + 1
         /\ cur[w] \in Task /\ cur' = [cur EXCEPT ![w] = None] =>
              Cardinality(Busy') = Cardinality(Busy) - 1
<1>1. IsFiniteSet(Busy)
  BY WorkerAssumption, FS_Subset DEF Busy
<1>2. Cardinality(Busy) \in Nat
  BY <1>1, FS_CardinalityType
<1>3. ASSUME NEW t \in Task, cur[w] = None, cur' = [cur EXCEPT ![w] = t]
      PROVE  Cardinality(Busy') = Cardinality(Busy) + 1
  <2>1. Busy' = Busy \cup {w} /\ w \notin Busy
    BY <1>3, NoneAssumption DEF Busy
  <2>2. QED
    BY <1>1, <2>1, FS_AddElement
<1>4. ASSUME cur[w] \in Task, cur' = [cur EXCEPT ![w] = None]
      PROVE  Cardinality(Busy') = Cardinality(Busy) - 1
  <2>1. Busy' = Busy \ {w} /\ w \in Busy
    BY <1>4, NoneAssumption DEF Busy
  <2>2. QED
    BY <1>1, <2>1, FS_RemoveElement
<1>5. QED
  BY <1>2, <1>3, <1>4

LEMMA BalanceKept ==
  ASSUME QueueBalance, UNCHANGED <<queue, unfinished, cur>>
  PROVE  QueueBalance'
BY DEF QueueBalance

LEMMA BalanceReleases ==
  ASSUME Typed, QueueBalance, NEW w \in Worker, cur[w] \in Task, TaskDone(w)
  PROVE  QueueBalance'
<1>1. /\ Cardinality(Busy) \in Nat
      /\ Cardinality(Busy') = Cardinality(Busy) - 1
  BY BusyFacts DEF TaskDone, Typed, TypeOK
<1>2. QED
  BY <1>1 DEF QueueBalance, Busy, TaskDone, Typed, TypeOK

LEMMA BalanceMoves ==
  ASSUME Typed, QueueBalance,
         \/ \E t \in Task : Put(t)
         \/ \E w \in Worker : Take(w)
  PROVE  QueueBalance'
<1>1. queue \in Seq(Task) /\ unfinished \in Int
  BY DEF Typed, TypeOK
<1>2. ASSUME NEW t \in Task, Put(t)
      PROVE  QueueBalance'
  <2>1. Len(queue') = Len(queue) + 1 /\ Len(queue) \in Nat
    BY <1>1, <1>2, QueueFacts DEF Put
  <2>2. UNCHANGED cur /\ unfinished' = unfinished + 1
    BY <1>2 DEF Put
  <2>3. Cardinality(Busy) \in Nat /\ Busy' = Busy
    <3>1. IsFiniteSet(Busy)
      BY WorkerAssumption, FS_Subset DEF Busy
    <3>2. QED
      BY <3>1, <2>2, FS_CardinalityType DEF Busy
  <2>4. QED
    BY <1>1, <2>1, <2>2, <2>3 DEF QueueBalance, Busy
<1>3. ASSUME NEW w \in Worker, Take(w)
      PROVE  QueueBalance'
  <2>1. /\ Len(queue') = Len(queue) - 1 /\ Len(queue) \in Nat
        /\ Head(queue) \in Task /\ UNCHANGED unfinished
        /\ cur[w] = None /\ cur' = [cur EXCEPT ![w] = Head(queue)]
    BY <1>1, <1>3, HeadTailProperties DEF Take, Typed, Shape, Idle
  <2>2. Cardinality(Busy) \in Nat /\ Cardinality(Busy') = Cardinality(Busy) + 1
    BY <2>1, BusyFacts DEF Typed, TypeOK
  <2>3. QED
    BY <1>1, <2>1, <2>2 DEF QueueBalance, Busy
<1>4. QED
  BY <1>2, <1>3

LEMMA BalanceWorks ==
  ASSUME Typed, QueueBalance, NEW w \in Worker, WorkerStep(w)
  PROVE  QueueBalance'
<1> USE BalanceKept, BalanceReleases
    DEF Moves, Typed, Shape, Idle, queued
<1>1. CASE EnterGet(w) \/ LeaveLoop(w) \/ GetEmpty(w)
  BY <1>1 DEF EnterGet, LeaveLoop, GetEmpty
<1>2. CASE Take(w)
  BY <1>2, BalanceMoves
<1>3. CASE SkipCancelled(w)
  BY <1>3 DEF SkipCancelled
<1>4. CASE DropCancelled(w)
  BY <1>4 DEF DropCancelled
<1>5. CASE PassStatusCheck(w) \/ PassRegistry(w)
  BY <1>5 DEF PassStatusCheck, PassRegistry
<1>6. CASE Start(w) \/ BeginAttempt(w) \/ NoAttempt(w)
  BY <1>6 DEF Start, BeginAttempt, NoAttempt
<1>7. CASE Collect(w) \/ AttemptFails(w) \/ Backoff(w)
  BY <1>7 DEF Collect, AttemptFails, Backoff
<1>8. CASE Succeed(w)
  BY <1>8 DEF Succeed
<1>9. CASE Fail(w)
  BY <1>9 DEF Fail
<1>10. CASE ReleaseSucceeded(w) \/ ReleaseFailed(w)
  BY <1>10 DEF ReleaseSucceeded, ReleaseFailed
<1>11. QED
  BY <1>1, <1>2, <1>3, <1>4, <1>5, <1>6, <1>7, <1>8, <1>9, <1>10 DEF WorkerStep

LEMMA BalanceStep == Typed /\ QueueBalance /\ [Next]_vars => QueueBalance'
<1> SUFFICES ASSUME Typed, QueueBalance, [Next]_vars
             PROVE  QueueBalance'
  OBVIOUS
<1> USE BalanceKept DEF workers, queued
<1>1. ASSUME NEW t \in Task, Submit(t)
      PROVE  QueueBalance'
  BY <1>1 DEF Submit
<1>2. ASSUME NEW w \in Worker, ChildStep(w) \/ StopWorker(w)
      PROVE  QueueBalance'
  BY <1>2 DEF ChildStep, ChildSubmits, ChildReturns, ChildRaises, StopWorker
<1>3. ASSUME NEW c \in Canceller, CancelStep(c)
      PROVE  QueueBalance'
  BY <1>3
     DEF CancelStep, RequestCancel, ReadPending, ReadRunning, MarkCancelled,
         NoteRequested
<1>4. CASE ProcessEnds \/ UNCHANGED vars
  BY <1>4 DEF ProcessEnds, vars
<1>5. QED
  BY <1>1, <1>2, <1>3, <1>4, BalanceMoves, BalanceWorks DEF Next

LEMMA BalanceInit == Init => QueueBalance
<1> SUFFICES ASSUME Init
             PROVE  QueueBalance
  OBVIOUS
<1>1. Busy = {}
  BY DEF Init, Busy
<1>2. Cardinality(Busy) = 0
  BY <1>1, FS_EmptySet
<1>3. QED
  BY <1>2 DEF Init, QueueBalance, Busy

(* q.task_done() is called exactly once for every item a worker has taken  *)
(* and is done with, on every path through Worker._loop, also those of     *)
(* retries, cancellation, failing appends and dying threads.               *)
THEOREM TaskDoneBalances == Spec => []QueueBalance
<1> DEFINE Inv == Typed /\ QueueBalance
<1>1. Init => Inv
  BY TypedInit, BalanceInit
<1>2. Inv /\ [Next]_vars => Inv'
  BY TypedStep, BalanceStep
<1>3. Inv => QueueBalance
  OBVIOUS
<1>4. QED
  BY <1>1, <1>2, <1>3, PTL DEF Spec

-----------------------------------------------------------------------------
(* A task is untouched until the worker that has taken it writes RUNNING:  *)
(* no attempt, prompt or result, and no status but PENDING or CANCELLED.    *)
Deliberating == Deciding \cup {"start"}
Before(t) ==
  \/ submit[t] \in {"idle", "put", "error"}
  \/ InQueue(t)
  \/ \E w \in Worker : cur[w] = t /\ pc[w] \in Deliberating

Untouched(t) ==
  /\ attempt[t] = 0 /\ prompts[t] = 0 /\ result[t] = None
  /\ status[t] \in {"ABSENT", "PENDING", "CANCELLED"}

Fresh == \A t \in Task : Before(t) => Untouched(t)

(* Once its worker works on it, a task is no longer Before.                *)
LEMMA WorkedOn ==
  ASSUME Typed, OneOwner, NEW w \in Worker, cur[w] \in Task,
         pc[w] \notin Deliberating
  PROVE  ~Before(cur[w])
BY NoneAssumption
   DEF Before, InQueue, OneOwner, HeldByOne, HeldNotQueued, OwnedOnlyOncePut

(* Fresh survives a step after which no further task is Before, and which  *)
(* does not write to a task that is, but for CANCELLED.                    *)
LEMMA FreshKept ==
  ASSUME Fresh,
         \A t \in Task : Before(t)' =>
           /\ Before(t)
           /\ attempt'[t] = attempt[t] /\ prompts'[t] = prompts[t]
           /\ result'[t] = result[t]
           /\ status'[t] \in {status[t], "PENDING", "CANCELLED"}
  PROVE  Fresh'
BY DEF Fresh, Untouched

LEMMA FreshHandler ==
  ASSUME Typed, Fresh, NEW t \in Task, Submit(t) \/ Put(t)
  PROVE  Fresh'
<1> USE DEF Typed, TypeOK
<1>1. CASE Submit(t)
  <2>1. /\ UNCHANGED <<queue, cur, pc, attempt, prompts, result>>
        /\ submit[t] = "idle"
        /\ \A u \in Task : u # t => submit'[u] = submit[u] /\ status'[u] = status[u]
        /\ status'[t] = "PENDING"
    BY <1>1 DEF Submit, SetStatus, workers, queued, generation
  <2>2. QED
    BY <2>1, FreshKept DEF Before, InQueue
<1>2. CASE Put(t)
  <2>1. /\ UNCHANGED <<status, cur, pc, attempt, prompts, result>>
        /\ submit[t] = "put"
        /\ \A u \in Task : u # t => submit'[u] = submit[u]
    BY <1>2 DEF Put, store, generation
  <2>2. ASSUME NEW u \in Task, u # t, InQueue(u)'
        PROVE  InQueue(u)
    BY <1>2, <2>2, QueueFacts DEF Put, InQueue
  <2>3. QED
    BY <2>1, <2>2, FreshKept DEF Before
<1>3. QED
  BY <1>1, <1>2

LEMMA FreshTake ==
  ASSUME Typed, Fresh, NEW w \in Worker, Take(w)
  PROVE  Fresh'
<1>1. /\ UNCHANGED <<status, submit, attempt, prompts, result>>
      /\ cur' = [cur EXCEPT ![w] = Head(queue)]
      /\ \A v \in Worker : v # w => pc'[v] = pc[v]
  BY DEF Take, Goto, Typed, TypeOK, store, outside, generation
<1>2. /\ Head(queue) = queue[1] /\ Len(queue) \in Nat \ {0}
      /\ Len(queue') = Len(queue) - 1
      /\ \A i \in 1..(Len(queue) - 1) : queue'[i] = queue[i + 1]
  BY HeadTailProperties DEF Take, Typed, TypeOK
<1>3. InQueue(Head(queue))
  BY <1>2 DEF InQueue
<1>4. ASSUME NEW u \in Task, InQueue(u)'
      PROVE  InQueue(u)
  BY <1>2, <1>4 DEF InQueue
<1>5. \A u \in Task : Before(u)' => Before(u)
  BY <1>1, <1>3, <1>4 DEF Before, Typed, TypeOK
<1>6. QED
  BY <1>1, <1>5, FreshKept

LEMMA FreshWorks ==
  ASSUME Typed, OneOwner, Fresh, NEW w \in Worker, WorkerStep(w) \/ ChildStep(w)
  PROVE  Fresh'
<1> USE DEF Moves, Goto, TaskDone, SetStatus, store, queued, generation,
            metrics, workers, outside, Deciding, Deliberating
<1>1. CASE Take(w)
  BY <1>1, FreshTake
<1>2. CASE EnterGet(w) \/ LeaveLoop(w) \/ GetEmpty(w)
  BY <1>2, FreshKept
     DEF EnterGet, LeaveLoop, GetEmpty, Before, InQueue, Typed, TypeOK
<1>3. CASE SkipCancelled(w)
  BY <1>3, FreshKept, NoneAssumption
     DEF SkipCancelled, Before, InQueue, Typed, TypeOK
<1>4. CASE DropCancelled(w)
  BY <1>4, FreshKept, NoneAssumption
     DEF DropCancelled, Before, InQueue, Typed, TypeOK
<1>5. CASE PassStatusCheck(w) \/ PassRegistry(w)
  BY <1>5, FreshKept
     DEF PassStatusCheck, PassRegistry, Before, InQueue, Typed, TypeOK
<1>6. CASE Start(w)
  <2>1. cur[w] \in Task
    BY <1>6 DEF Start, Typed, Shape, Idle
  <2>2. /\ UNCHANGED <<queue, cur, submit, attempt, prompts, result>>
        /\ \A v \in Worker : v # w => pc'[v] = pc[v]
        /\ pc'[w] \notin Deliberating
        /\ \A t \in Task : t # cur[w] => status'[t] = status[t]
    BY <1>6, <2>1 DEF Start, Typed, TypeOK
  <2>3. ~Before(cur[w])'
    BY <2>1, <2>2, NoneAssumption
       DEF Before, InQueue, OneOwner, HeldByOne, HeldNotQueued, OwnedOnlyOncePut
  <2>4. QED
    BY <2>2, <2>3, FreshKept DEF Before, InQueue
<1>7. CASE \/ BeginAttempt(w) \/ Succeed(w) \/ Fail(w) \/ ChildSubmits(w)
           \/ NoAttempt(w) \/ Collect(w) \/ AttemptFails(w) \/ Backoff(w)
           \/ ReleaseSucceeded(w) \/ ReleaseFailed(w)
           \/ ChildReturns(w) \/ ChildRaises(w)
  <2>1. cur[w] \in Task /\ pc[w] \notin Deliberating
    BY <1>7
       DEF BeginAttempt, Succeed, Fail, ChildSubmits, NoAttempt, Collect,
           AttemptFails, Backoff, ReleaseSucceeded, ReleaseFailed,
           ChildReturns, ChildRaises, Typed, Shape, Idle
  <2>2. ~Before(cur[w])
    BY <2>1, WorkedOn
  <2>3. /\ UNCHANGED <<queue, submit>>
        /\ \A v \in Worker : v # w => pc'[v] = pc[v] /\ cur'[v] = cur[v]
        /\ pc'[w] \notin Deliberating
    BY <1>7, <2>1
       DEF BeginAttempt, Succeed, Fail, ChildSubmits, NoAttempt, Collect,
           AttemptFails, Backoff, ReleaseSucceeded, ReleaseFailed,
           ChildReturns, ChildRaises, Typed, TypeOK
  <2>4. \A t \in Task : t # cur[w] =>
          /\ attempt'[t] = attempt[t] /\ prompts'[t] = prompts[t]
          /\ result'[t] = result[t] /\ status'[t] = status[t]
    BY <1>7, <2>1
       DEF BeginAttempt, Succeed, Fail, ChildSubmits, NoAttempt, Collect,
           AttemptFails, Backoff, ReleaseSucceeded, ReleaseFailed,
           ChildReturns, ChildRaises, Typed, TypeOK
  <2>5. \A t \in Task : Before(t)' => Before(t)
    BY <2>3 DEF Before, InQueue
  <2>6. QED
    BY <2>2, <2>4, <2>5, FreshKept
<1>8. QED
  BY <1>1, <1>2, <1>3, <1>4, <1>5, <1>6, <1>7 DEF WorkerStep, ChildStep

LEMMA FreshStep == Typed /\ OneOwner /\ Fresh /\ [Next]_vars => Fresh'
<1> SUFFICES ASSUME Typed, OneOwner, Fresh, [Next]_vars
             PROVE  Fresh'
  OBVIOUS
<1> USE FreshKept
    DEF Before, InQueue, store, workers, queued, generation, outside
<1>1. ASSUME NEW w \in Worker, StopWorker(w)
      PROVE  Fresh'
  BY <1>1 DEF StopWorker
<1>2. ASSUME NEW c \in Canceller, CancelStep(c)
      PROVE  Fresh'
  BY <1>2
     DEF CancelStep, RequestCancel, ReadPending, ReadRunning, MarkCancelled,
         NoteRequested, SetStatus, Typed, TypeOK
<1>3. CASE ProcessEnds \/ UNCHANGED vars
  BY <1>3 DEF ProcessEnds, vars
<1>4. QED
  BY <1>1, <1>2, <1>3, FreshHandler, FreshWorks DEF Next

LEMMA FreshInit == Init => Fresh
BY DEF Init, Fresh, Untouched

-----------------------------------------------------------------------------
(* Whose result it is.  A worker that looks for another attempt has one     *)
(* left, unless its request asked for none; one that has got past the loop *)
(* holds the outcome of a generation, its own task's unless the request    *)
(* asked for none; and what a worker holds has been generated.             *)
Granted(w) == AttemptsLeft(cur[w]) \/ Budget(retryLimit[cur[w]]) = 0

OwnResults ==
  /\ \A w \in Worker :
       /\ pc[w] \in {"attempt", "backoff"} => Granted(w)
       /\ child[w] \in {"submitted", "returned"} => prompts[cur[w]] > 0
       /\ held[w] # None => prompts[held[w]] > 0
       /\ pc[w] = "succeed" =>
            /\ held[w] # None
            /\ held[w] = cur[w] \/ Budget(retryLimit[cur[w]]) = 0
  /\ ResultIsOwn

LEMMA OwnKept ==
  ASSUME Typed, OwnResults, UNCHANGED <<retryLimit, attempt, prompts, result, held>>,
         \A w \in Worker :
           /\ pc'[w] \in {"attempt", "backoff"} =>
                pc[w] \in {"attempt", "backoff"} /\ cur'[w] = cur[w]
           /\ child'[w] \in {"submitted", "returned"} =>
                child[w] \in {"submitted", "returned"} /\ cur'[w] = cur[w]
           /\ pc'[w] = "succeed" => pc[w] = "succeed" /\ cur'[w] = cur[w]
  PROVE  OwnResults'
BY DEF OwnResults, Granted, AttemptsLeft, ResultIsOwn

LEMMA OwnSubmit ==
  ASSUME Typed, OneOwner, Fresh, OwnResults, NEW t \in Task, Submit(t)
  PROVE  OwnResults'
<1>1. /\ submit[t] = "idle"
      /\ UNCHANGED <<attempt, prompts, result, pc, cur, held, child>>
      /\ \A u \in Task : u # t => retryLimit'[u] = retryLimit[u]
  BY DEF Submit, Typed, TypeOK, workers, generation
<1>2. \A w \in Worker :
        pc[w] \in {"attempt", "backoff", "succeed"} => cur[w] \in Task \ {t}
  BY <1>1, NoneAssumption DEF OneOwner, OwnedOnlyOncePut, Typed, Shape, Idle
<1>3. result[t] = None
  BY <1>1 DEF Fresh, Before, Untouched
<1>4. ResultIsOwn'
  BY <1>1, <1>3 DEF OwnResults, ResultIsOwn
<1>5. QED
  BY <1>1, <1>2, <1>4 DEF OwnResults, Granted, AttemptsLeft

LEMMA OwnStart ==
  ASSUME Typed, Fresh, OwnResults, NEW w \in Worker, Start(w)
  PROVE  OwnResults'
<1>1. /\ cur[w] \in Task /\ child[w] = "none" /\ attempt[cur[w]] = 0
      /\ retryLimit[cur[w]] \in Int \cup {Malformed}
  BY DEF Start, Typed, TypeOK, Shape, Idle, Fresh, Untouched, Before, Deliberating
<1>2. pc'[w] = "attempt" => Granted(w)
  BY <1>1 DEF Start, Goto, Typed, TypeOK, Granted, AttemptsLeft, Budget
<1>3. /\ pc' = [pc EXCEPT ![w] = pc'[w]]
      /\ pc'[w] \in {"attempt", "fail", "dead"}
      /\ UNCHANGED <<retryLimit, attempt, prompts, result, cur, held, child>>
  BY DEF Start, Goto, Typed, TypeOK, generation
<1>4. QED
  BY <1>1, <1>2, <1>3 DEF OwnResults, Granted, AttemptsLeft, ResultIsOwn, Typed, TypeOK

LEMMA OwnBegin ==
  ASSUME Typed, OneOwner, OwnResults, NEW w \in Worker, BeginAttempt(w)
  PROVE  OwnResults'
<1>1. /\ cur[w] \in Task /\ pc[w] = "attempt"
      /\ attempt' = [attempt EXCEPT ![cur[w]] = @ + 1]
      /\ pc' = [pc EXCEPT ![w] = "join"]
      /\ child' = [child EXCEPT ![w] = "spawned"]
      /\ UNCHANGED <<retryLimit, prompts, result, cur, held>>
  BY DEF BeginAttempt, Goto, Typed, Shape, Idle
<1>2. ASSUME NEW v \in Worker, pc'[v] \in {"attempt", "backoff"}
      PROVE  Granted(v)'
  <2>1. v # w /\ pc[v] = pc'[v] /\ cur[v] \in Task
    BY <1>1, <1>2 DEF Typed, TypeOK, Shape, Idle
  <2>2. cur[v] # cur[w]
    BY <1>1, <2>1, NoneAssumption DEF OneOwner, HeldByOne
  <2>3. QED
    BY <1>1, <1>2, <2>1, <2>2 DEF OwnResults, Granted, AttemptsLeft, Typed, TypeOK
<1>3. QED
  BY <1>1, <1>2 DEF OwnResults, ResultIsOwn, Typed, TypeOK

LEMMA OwnPrompt ==
  ASSUME Typed, OwnResults, NEW w \in Worker, ChildSubmits(w)
  PROVE  OwnResults'
<1>1. /\ cur[w] \in Task /\ pc[w] = "join"
      /\ prompts' = [prompts EXCEPT ![cur[w]] = @ + 1]
      /\ child' = [child EXCEPT ![w] = "submitted"]
      /\ UNCHANGED <<retryLimit, attempt, result, pc, cur, held>>
  BY DEF ChildSubmits, Typed, Shape, Idle, store
<1>2. \A t \in Task : prompts[t] > 0 => prompts'[t] > 0
  BY <1>1 DEF Typed, TypeOK
<1>3. prompts'[cur[w]] > 0
  BY <1>1 DEF Typed, TypeOK
<1>4. \A v \in Worker :
        /\ child[v] \in {"submitted", "returned"} => cur[v] \in Task
        /\ held[v] # None => held[v] \in Task
  BY DEF Typed, TypeOK, Shape, Idle
<1>5. \A t \in Task : result[t] # None => result[t] \in Task
  BY DEF Typed, TypeOK
<1>6. ResultIsOwn'
  BY <1>1, <1>2, <1>5 DEF OwnResults, ResultIsOwn
<1>7. QED
  BY <1>1, <1>2, <1>3, <1>4, <1>6 DEF OwnResults, Granted, AttemptsLeft, Typed, TypeOK

LEMMA OwnWorks ==
  ASSUME Typed, OneOwner, Fresh, OwnResults, NEW w \in Worker, WorkerStep(w)
  PROVE  OwnResults'
<1> USE DEF Moves, Goto, TaskDone, store, queued, generation, metrics, outside
<1>1. CASE EnterGet(w) \/ LeaveLoop(w) \/ GetEmpty(w)
  BY <1>1, OwnKept DEF EnterGet, LeaveLoop, GetEmpty, Typed, TypeOK
<1>2. CASE Take(w)
  BY <1>2, OwnKept DEF Take, Typed, TypeOK, Shape
<1>3. CASE SkipCancelled(w)
  BY <1>3, OwnKept DEF SkipCancelled, Typed, TypeOK, Shape
<1>4. CASE DropCancelled(w)
  BY <1>4, OwnKept DEF DropCancelled, Typed, TypeOK, Shape
<1>5. CASE PassStatusCheck(w) \/ PassRegistry(w)
  BY <1>5, OwnKept DEF PassStatusCheck, PassRegistry, Typed, TypeOK
<1>6. CASE Start(w)
  BY <1>6, OwnStart
<1>7. CASE BeginAttempt(w)
  BY <1>7, OwnBegin
<1>8. CASE NoAttempt(w)
  <2>1. pc[w] = "attempt" /\ Budget(retryLimit[cur[w]]) = 0
    BY <1>8 DEF NoAttempt, OwnResults, Granted
  <2>2. /\ pc' = [pc EXCEPT ![w] = IF held[w] = None THEN "fail" ELSE "succeed"]
        /\ UNCHANGED <<retryLimit, attempt, prompts, result, cur, held, child>>
    BY <1>8 DEF NoAttempt
  <2>3. QED
    BY <2>1, <2>2 DEF OwnResults, Granted, AttemptsLeft, ResultIsOwn, Typed, TypeOK
<1>9. CASE Collect(w)
  <2>1. /\ cur[w] \in Task /\ prompts[cur[w]] > 0
        /\ held' = [held EXCEPT ![w] = cur[w]]
        /\ child' = [child EXCEPT ![w] = "none"]
        /\ pc' = [pc EXCEPT ![w] = "succeed"]
        /\ UNCHANGED <<retryLimit, attempt, prompts, result, cur>>
    BY <1>9 DEF Collect, OwnResults, Typed, Shape, Idle
  <2>2. QED
    BY <2>1, NoneAssumption
       DEF OwnResults, Granted, AttemptsLeft, ResultIsOwn, Typed, TypeOK
<1>10. CASE AttemptFails(w)
  <2>1. /\ child' = [child EXCEPT ![w] = "none"]
        /\ pc' = [pc EXCEPT ![w] = pc'[w]]
        /\ pc'[w] \in {"backoff", "fail"}
        /\ pc'[w] = "backoff" => Granted(w)
        /\ UNCHANGED <<retryLimit, attempt, prompts, result, cur, held>>
    BY <1>10 DEF AttemptFails, Granted, Typed, TypeOK
  <2>2. QED
    BY <2>1 DEF OwnResults, Granted, AttemptsLeft, ResultIsOwn, Typed, TypeOK
<1>11. CASE Backoff(w)
  BY <1>11, OwnKept DEF Backoff, Typed, TypeOK
<1>12. CASE Succeed(w)
  <2>1. /\ cur[w] \in Task /\ held[w] # None /\ prompts[held[w]] > 0
        /\ held[w] = cur[w] \/ Budget(retryLimit[cur[w]]) = 0
        /\ result' = [result EXCEPT ![cur[w]] = held[w]]
        /\ pc' = [pc EXCEPT ![w] = pc'[w]]
        /\ pc'[w] \in {"countSucceeded", "fail"}
        /\ UNCHANGED <<retryLimit, attempt, prompts, cur, held, child>>
    BY <1>12 DEF Succeed, OwnResults, Typed, TypeOK, Shape, Idle
  <2>2. ResultIsOwn'
    BY <2>1 DEF OwnResults, ResultIsOwn, Typed, TypeOK
  <2>3. QED
    BY <2>1, <2>2 DEF OwnResults, Granted, AttemptsLeft, Typed, TypeOK
<1>13. CASE Fail(w)
  BY <1>13, OwnKept DEF Fail, Typed, TypeOK, Shape
<1>14. CASE ReleaseSucceeded(w) \/ ReleaseFailed(w)
  BY <1>14, OwnKept DEF ReleaseSucceeded, ReleaseFailed, Typed, TypeOK, Shape
<1>15. QED
  BY <1>1, <1>2, <1>3, <1>4, <1>5, <1>6, <1>7, <1>8, <1>9, <1>10, <1>11,
     <1>12, <1>13, <1>14 DEF WorkerStep

LEMMA OwnStep == Typed /\ OneOwner /\ Fresh /\ OwnResults /\ [Next]_vars => OwnResults'
<1> SUFFICES ASSUME Typed, OneOwner, Fresh, OwnResults, [Next]_vars
             PROVE  OwnResults'
  OBVIOUS
<1> USE OwnKept DEF store, workers, queued, generation, outside
<1>1. ASSUME NEW t \in Task, Put(t)
      PROVE  OwnResults'
  BY <1>1 DEF Put
<1>2. ASSUME NEW w \in Worker, ChildReturns(w) \/ ChildRaises(w) \/ StopWorker(w)
      PROVE  OwnResults'
  BY <1>2 DEF ChildReturns, ChildRaises, StopWorker, Typed, TypeOK
<1>3. ASSUME NEW c \in Canceller, CancelStep(c)
      PROVE  OwnResults'
  BY <1>3
     DEF CancelStep, RequestCancel, ReadPending, ReadRunning, MarkCancelled,
         NoteRequested
<1>4. CASE ProcessEnds \/ UNCHANGED vars
  BY <1>4 DEF ProcessEnds, vars
<1>5. QED
  BY <1>1, <1>2, <1>3, <1>4, OwnSubmit, OwnPrompt, OwnWorks DEF Next, ChildStep

LEMMA OwnInit == Init => OwnResults
BY DEF Init, OwnResults, ResultIsOwn

(* A stored result is the outcome of a generation that has reached ComfyUI, *)
(* and of this very task, whatever task the worker has had before it and   *)
(* however many appends fail; only a request that asks for less than one   *)
(* attempt can be given a result its worker has left over.                 *)
THEOREM ResultsAreOwn == Spec => []ResultIsOwn
<1> DEFINE Inv == Typed /\ OneOwner /\ Fresh /\ OwnResults
<1>1. Init => Inv
  BY TypedInit, OwnerInit, FreshInit, OwnInit
<1>2. Inv /\ [Next]_vars => Inv'
  BY TypedStep, OwnerStep, FreshStep, OwnStep
<1>3. Inv => ResultIsOwn
  BY DEF OwnResults
<1>4. QED
  BY <1>1, <1>2, <1>3, PTL DEF Spec

-----------------------------------------------------------------------------
(* No task is lost.  A worker lets go of a task only when its status is an *)
(* end; what makes it inductive is that the status has been written by the *)
(* time the worker is about to count the task.                             *)
Written == \A w \in Worker : pc[w] \in Releasing => status[cur[w]] \in Terminal

Owned(t) == InQueue(t) \/ \E w \in Worker : cur[w] = t

Kept == \A t \in Task : submit[t] = "queued" /\ status[t] \notin Terminal => Owned(t)

Unlost == Kept /\ Written

(* A step of one worker writes the status of its own task only.            *)
LEMMA LossWorks ==
  ASSUME Typed, OneOwner, Unlost, NEW w \in Worker, WorkerStep(w)
  PROVE  Unlost'
<1> USE DEF Moves, Goto, SetStatus, store, queued, generation, metrics, workers, outside
<1>1. /\ cur \in [Worker -> Task \cup {None}] /\ pc \in [Worker -> Place]
      /\ status \in [Task -> Status] /\ queue \in Seq(Task)
      /\ pc[w] \notin Idle \cup {"dead"} => cur[w] \in Task
      /\ \A v \in Worker : pc[v] \in Releasing => cur[v] \in Task
  BY DEF Typed, TypeOK, Shape, Idle, Releasing
<1>2. CASE Take(w)
  <2>1. /\ UNCHANGED <<status, submit>>
        /\ cur' = [cur EXCEPT ![w] = Head(queue)] /\ pc' = [pc EXCEPT ![w] = "check"]
        /\ cur[w] = None
    BY <1>2 DEF Take, Typed, Shape, Idle
  <2>2. /\ Head(queue) = queue[1] /\ Len(queue) \in Nat \ {0}
        /\ Len(queue') = Len(queue) - 1
        /\ \A i \in 1..(Len(queue) - 1) : queue'[i] = queue[i + 1]
    BY <1>1, <1>2, HeadTailProperties DEF Take
  <2>3. ASSUME NEW t \in Task, Owned(t) PROVE Owned(t)'
    <3>1. CASE InQueue(t)
      <4>1. PICK i \in 1..Len(queue) : queue[i] = t  BY <3>1 DEF InQueue
      <4>2. CASE i = 1
        BY <1>1, <2>1, <2>2, <4>1, <4>2 DEF Owned
      <4>3. CASE i # 1
        <5>1. i - 1 \in 1..(Len(queue) - 1) /\ queue'[i - 1] = t
          BY <2>2, <4>1, <4>3
        <5>2. QED
          BY <2>2, <5>1 DEF Owned, InQueue
      <4>4. QED
        BY <4>2, <4>3
    <3>2. CASE \E v \in Worker : cur[v] = t
      BY <1>1, <2>1, <3>2, NoneAssumption DEF Owned
    <3>3. QED
      BY <2>3, <3>1, <3>2 DEF Owned
  <2>4. Kept'
    BY <2>1, <2>3 DEF Unlost, Kept
  <2>5. Written'
    BY <1>1, <2>1 DEF Unlost, Written, Releasing
  <2>6. QED
    BY <2>4, <2>5 DEF Unlost
<1>3. ASSUME ~Take(w)
      PROVE  UNCHANGED <<queue, submit>> /\ \A t \in Task : t # cur[w] => status'[t] = status[t]
  BY <1>3, <1>1
     DEF WorkerStep, EnterGet, LeaveLoop, GetEmpty, SkipCancelled, PassStatusCheck,
         DropCancelled, PassRegistry, Start, BeginAttempt, NoAttempt, Collect, AttemptFails,
         Backoff, Succeed, Fail, ReleaseSucceeded, ReleaseFailed, TaskDone
<1>4. ASSUME ~Take(w)
      PROVE  /\ \A v \in Worker : v # w => pc'[v] = pc[v] /\ cur'[v] = cur[v]
             /\ cur'[w] = cur[w] \/ (cur[w] \in Task /\ status'[cur[w]] \in Terminal)
             /\ pc'[w] \in Releasing => cur'[w] = cur[w] /\ status'[cur[w]] \in Terminal
  <2>1. CASE EnterGet(w) \/ LeaveLoop(w) \/ GetEmpty(w) \/ PassStatusCheck(w) \/ PassRegistry(w)
             \/ BeginAttempt(w) \/ NoAttempt(w) \/ Collect(w) \/ AttemptFails(w) \/ Backoff(w)
    BY <1>1, <2>1
       DEF EnterGet, LeaveLoop, GetEmpty, PassStatusCheck, PassRegistry, BeginAttempt,
           NoAttempt, Collect, AttemptFails, Backoff, Releasing
  <2>2. CASE SkipCancelled(w)
    BY <1>1, <2>2 DEF SkipCancelled, TaskDone, Releasing, Terminal, Idle
  <2>3. CASE DropCancelled(w)
    BY <1>1, <2>3 DEF DropCancelled, TaskDone, Releasing, Terminal, Idle
  <2>4. CASE Start(w)
    BY <1>1, <2>4 DEF Start, Releasing
  <2>5. CASE Succeed(w)
    BY <1>1, <2>5 DEF Succeed, Releasing, Terminal, Idle
  <2>6. CASE Fail(w)
    BY <1>1, <2>6 DEF Fail, TaskDone, Releasing, Terminal, Idle
  <2>7. CASE ReleaseSucceeded(w) \/ ReleaseFailed(w)
    BY <1>1, <2>7
       DEF ReleaseSucceeded, ReleaseFailed, TaskDone, Releasing, Idle, Unlost, Written
  <2>8. QED
    BY <1>4, <2>1, <2>2, <2>3, <2>4, <2>5, <2>6, <2>7 DEF WorkerStep
<1>5. CASE ~Take(w)
  <2>1. ASSUME NEW t \in Task, submit'[t] = "queued", status'[t] \notin Terminal
        PROVE  Owned(t)'
    <3>1. CASE t = cur[w]
      <4>1. cur'[w] = t  BY <1>4, <1>5, <2>1, <3>1
      <4>2. QED
        BY <4>1 DEF Owned
    <3>2. CASE t # cur[w]
      <4>1. Owned(t)  BY <1>3, <1>5, <2>1, <3>2 DEF Unlost, Kept
      <4>2. QED
        BY <1>3, <1>4, <1>5, <3>2, <4>1 DEF Owned, InQueue
    <3>3. QED
      BY <3>1, <3>2
  <2>2. ASSUME NEW v \in Worker, pc'[v] \in Releasing
        PROVE  status'[cur'[v]] \in Terminal
    <3>1. CASE v = w
      BY <1>4, <1>5, <2>2, <3>1
    <3>2. CASE v # w
      <4>1. pc[v] \in Releasing /\ cur'[v] = cur[v]  BY <1>4, <1>5, <2>2, <3>2
      <4>2. cur[v] \in Task /\ status[cur[v]] \in Terminal  BY <1>1, <4>1 DEF Unlost, Written
      <4>3. cur[v] # cur[w]
        BY <3>2, <4>2, NoneAssumption DEF OneOwner, HeldByOne
      <4>4. QED
        BY <1>3, <1>5, <4>1, <4>2, <4>3
    <3>3. QED
      BY <3>1, <3>2
  <2>3. QED
    BY <2>1, <2>2 DEF Unlost, Kept, Written
<1>6. QED
  BY <1>2, <1>5

LEMMA LossStep == Typed /\ OneOwner /\ Unlost /\ [Next]_vars => Unlost'
<1> SUFFICES ASSUME Typed, OneOwner, Unlost, [Next]_vars
             PROVE  Unlost'
  OBVIOUS
<1> USE DEF store, workers, queued, outside
<1>0. /\ status \in [Task -> Status] /\ submit \in [Task -> {"idle", "put", "queued", "error"}]
      /\ queue \in Seq(Task)
      /\ \A w \in Worker : pc[w] \in Releasing => cur[w] \in Task /\ submit[cur[w]] = "queued"
  BY NoneAssumption
     DEF Typed, TypeOK, Shape, Idle, Releasing, OneOwner, OwnedOnlyOncePut
<1>1. ASSUME NEW t \in Task, Submit(t)
      PROVE  Unlost'
  <2>1. /\ UNCHANGED <<queue, cur, pc>> /\ submit[t] = "idle" /\ submit'[t] # "queued"
        /\ \A u \in Task : u # t => submit'[u] = submit[u] /\ status'[u] = status[u]
    BY <1>0, <1>1 DEF Submit, SetStatus
  <2>2. Kept'
    BY <2>1 DEF Unlost, Kept, Owned, InQueue
  <2>3. Written'
    BY <1>0, <2>1 DEF Unlost, Written
  <2>4. QED
    BY <2>2, <2>3 DEF Unlost
<1>2. ASSUME NEW t \in Task, Put(t)
      PROVE  Unlost'
  <2>1. /\ UNCHANGED <<status, cur, pc>>
        /\ \A u \in Task : u # t => submit'[u] = submit[u]
        /\ queue' = Append(queue, t)
    BY <1>0, <1>2 DEF Put
  <2>2. /\ Len(queue') = Len(queue) + 1 /\ Len(queue) \in Nat
        /\ \A i \in 1..Len(queue) : queue'[i] = queue[i]
        /\ queue'[Len(queue) + 1] = t
    BY <1>0, <2>1, QueueFacts
  <2>3. InQueue(t)'
    BY <2>2 DEF InQueue
  <2>4. \A u \in Task : InQueue(u) => InQueue(u)'
    BY <2>2 DEF InQueue
  <2>5. Kept'
    BY <2>1, <2>3, <2>4 DEF Unlost, Kept, Owned
  <2>6. QED
    BY <2>1, <2>5 DEF Unlost, Written
<1>3. ASSUME NEW w \in Worker, ChildStep(w) \/ StopWorker(w)
      PROVE  Unlost'
  <2>1. UNCHANGED <<status, submit, queue, cur, pc>>
    BY <1>3 DEF ChildStep, ChildSubmits, ChildReturns, ChildRaises, StopWorker
  <2>2. QED
    BY <2>1 DEF Unlost, Kept, Written, Owned, InQueue
<1>4. ASSUME NEW c \in Canceller, CancelStep(c)
      PROVE  Unlost'
  <2>1. /\ UNCHANGED <<submit, queue, cur, pc>>
        /\ \A t \in Task : status'[t] \in {status[t], "CANCELLED"}
    BY <1>0, <1>4
       DEF CancelStep, RequestCancel, ReadPending, ReadRunning, MarkCancelled,
           NoteRequested, SetStatus
  <2>2. Kept'
    BY <2>1 DEF Unlost, Kept, Owned, InQueue, Terminal
  <2>3. Written'
    BY <1>0, <2>1 DEF Unlost, Written, Terminal
  <2>4. QED
    BY <2>2, <2>3 DEF Unlost
<1>5. CASE ProcessEnds \/ UNCHANGED vars
  <2>1. UNCHANGED <<status, submit, queue, cur, pc>>
    BY <1>5 DEF ProcessEnds, vars
  <2>2. QED
    BY <2>1 DEF Unlost, Kept, Written, Owned, InQueue
<1>6. QED
  BY <1>1, <1>2, <1>3, <1>4, <1>5, LossWorks DEF Next

LEMMA LossInit == Init => Unlost
BY DEF Init, Unlost, Kept, Written, Owned, Releasing

-----------------------------------------------------------------------------
(* A task's record tells how far its owner is with it, and once nobody owns *)
(* it, how it has ended.  Cancellation may lay CANCELLED and an error of   *)
(* its own over that, for tasks it was requested for; and a worker whose   *)
(* append of SUCCEEDED has raised comes to "fail" with a result.           *)
Is(t, s) == status[t] = s \/ (status[t] = "CANCELLED" /\ t \in cancelled)
Says(t, e) == error[t] = e \/ t \in cancelled

Plain(t) == result[t] = None /\ Says(t, "None")
Succeeded(t) == Is(t, "SUCCEEDED") /\ result[t] # None /\ Says(t, "None")
HasFailed(t) ==
  Is(t, "FAILED") /\ (result[t] = None \/ faults > 0) /\ Says(t, "Failure")
Dropped(t) == status[t] = "CANCELLED" /\ t \in cancelled
Ended(t) == Succeeded(t) \/ HasFailed(t) \/ Dropped(t)

Telling(w) ==
  cur[w] # None =>
    /\ pc[w] \in Deliberating => Is(cur[w], "PENDING") /\ Plain(cur[w])
    /\ pc[w] \in Working \ {"fail"} => Is(cur[w], "RUNNING") /\ Plain(cur[w])
    /\ pc[w] = "fail" => /\ Is(cur[w], "RUNNING") \/ Is(cur[w], "SUCCEEDED")
                         /\ result[cur[w]] = None \/ faults > 0
    /\ pc[w] = "succeed" => held[w] # None
    /\ pc[w] = "countSucceeded" => Succeeded(cur[w])
    /\ pc[w] = "countFailed" => HasFailed(cur[w])

Unclaimed(t) ==
  /\ submit[t] # "queued" \/ InQueue(t) => Plain(t)
  /\ submit[t] \in {"put", "error"} \/ InQueue(t) => Is(t, "PENDING")
  /\ submit[t] = "idle" => status[t] = "ABSENT"

Told(t) == submit[t] = "queued" /\ ~Owned(t) => Ended(t)

Story ==
  /\ \A c \in Canceller : cpc[c] # "idle" => ctask[c] \in cancelled
  /\ \A t \in cancelled : submit[t] # "idle"
  /\ \A w \in Worker : Telling(w)
  /\ \A t \in Task : Unclaimed(t) /\ Told(t)

(* Faults are never undone.                                                *)
LEMMA FaultsGrow ==
  ASSUME Typed, [Next]_vars
  PROVE  faults' \in Nat /\ faults' >= faults
<1>1. faults \in Nat
  BY MaxLogFaultsAssumption DEF Typed, TypeOK
<1>2. faults' = faults \/ faults' = faults + 1
  <2> USE DEF Moves, AppendOk, AppendRaises, vars
  <2>1. ASSUME NEW t \in Task, Submit(t) \/ Put(t) PROVE faults' = faults \/ faults' = faults + 1
    BY <2>1 DEF Submit, Put
  <2>2. ASSUME NEW w \in Worker, WorkerStep(w) PROVE faults' = faults \/ faults' = faults + 1
    BY <2>2
       DEF WorkerStep, EnterGet, LeaveLoop, GetEmpty, Take, SkipCancelled, PassStatusCheck,
           DropCancelled, PassRegistry, Start, BeginAttempt, NoAttempt, Collect, AttemptFails,
           Backoff, Succeed, Fail, ReleaseSucceeded, ReleaseFailed
  <2>3. ASSUME NEW w \in Worker, ChildStep(w) \/ StopWorker(w)
        PROVE  faults' = faults
    BY <2>3 DEF ChildStep, ChildSubmits, ChildReturns, ChildRaises, StopWorker
  <2>4. ASSUME NEW c \in Canceller, CancelStep(c) PROVE faults' = faults \/ faults' = faults + 1
    BY <2>4
       DEF CancelStep, RequestCancel, ReadPending, ReadRunning, MarkCancelled, NoteRequested
  <2>5. CASE ProcessEnds \/ UNCHANGED vars
    BY <2>5 DEF ProcessEnds
  <2>6. QED
    BY <2>1, <2>2, <2>3, <2>4, <2>5 DEF Next
<1>3. QED
  BY <1>1, <1>2

(* What the record of a task says, it says of every later one like it: more *)
(* faults and a cancellation only allow more.                              *)
LEMMA RecordKept ==
  ASSUME NEW t, faults \in Nat, faults' \in Nat, faults' >= faults, cancelled \subseteq cancelled',
         \/ status'[t] = status[t] /\ result'[t] = result[t] /\ error'[t] = error[t]
         \/ t \in cancelled' /\ result'[t] = result[t] /\ status'[t] \in {status[t], "CANCELLED"}
  PROVE  /\ \A s : Is(t, s) => Is(t, s)'
         /\ Plain(t) => Plain(t)'
         /\ Succeeded(t) => Succeeded(t)'
         /\ HasFailed(t) => HasFailed(t)'
         /\ Ended(t) => Ended(t)'
BY DEF Is, Says, Plain, Succeeded, HasFailed, Dropped, Ended

LEMMA TellingKept ==
  ASSUME NEW v \in Worker, Telling(v), faults \in Nat, faults' \in Nat, faults' >= faults,
         cancelled \subseteq cancelled',
         pc'[v] = pc[v], cur'[v] = cur[v], held'[v] = held[v],
         NEW t, t = cur[v],
         cur[v] # None =>
           \/ status'[t] = status[t] /\ result'[t] = result[t] /\ error'[t] = error[t]
           \/ t \in cancelled' /\ result'[t] = result[t] /\ status'[t] \in {status[t], "CANCELLED"}
  PROVE  Telling(v)'
<1>1. CASE cur[v] = None
  BY <1>1 DEF Telling
<1>2. CASE cur[v] # None
  <2>1. /\ \A s : Is(t, s) => Is(t, s)'
        /\ Plain(t) => Plain(t)'
        /\ Succeeded(t) => Succeeded(t)'
        /\ HasFailed(t) => HasFailed(t)'
    BY <1>2, RecordKept
  <2>2. (result[t] = None \/ faults > 0) => (result'[t] = None \/ faults' > 0)
    BY <1>2
  <2>3. QED
    BY <1>2, <2>1, <2>2 DEF Telling
<1>3. QED
  BY <1>1, <1>2

(* A worker changes the record of its own task, and may let go of it.      *)
LEMMA StoryKept ==
  ASSUME Typed, OneOwner, Story, faults' \in Nat, faults' >= faults,
         NEW w \in Worker, NEW mine, mine = cur[w],
         UNCHANGED <<submit, cancelled, cpc, ctask, queue>>,
         \A v \in Worker : v # w => pc'[v] = pc[v] /\ cur'[v] = cur[v] /\ held'[v] = held[v],
         \A t \in Task : t # mine =>
           status'[t] = status[t] /\ result'[t] = result[t] /\ error'[t] = error[t],
         \/ cur'[w] = mine /\ Telling(w)'
         \/ mine \in Task /\ cur'[w] = None /\ Ended(mine)'
  PROVE  Story'
<1>0. faults \in Nat /\ cancelled \subseteq cancelled'
  BY MaxLogFaultsAssumption DEF Typed, TypeOK
<1>1. ASSUME NEW v \in Worker PROVE Telling(v)'
  <2>1. CASE v = w
    BY <2>1 DEF Telling
  <2>2. CASE v # w
    <3>1. PICK t : t = cur[v]  OBVIOUS
    <3>2. t # None => t # mine /\ t \in Task
      BY <2>2, <3>1 DEF OneOwner, HeldByOne, Typed, TypeOK
    <3>3. t # None => status'[t] = status[t] /\ result'[t] = result[t] /\ error'[t] = error[t]
      BY <3>2
    <3>4. Telling(v) /\ pc'[v] = pc[v] /\ cur'[v] = cur[v] /\ held'[v] = held[v]
      BY <2>2 DEF Story
    <3>5. QED
      BY <1>0, <3>1, <3>3, <3>4, TellingKept
  <2>3. QED
    BY <2>1, <2>2
<1>2. ASSUME NEW t \in Task PROVE Unclaimed(t)' /\ Told(t)'
  <2>1. Unclaimed(t) /\ Told(t) /\ InQueue(t)' = InQueue(t) /\ submit'[t] = submit[t]
    BY DEF Story, InQueue
  <2>2. CASE t = cur[w]
    <3>1. submit[t] = "queued" /\ ~InQueue(t)
      BY <2>2, NoneAssumption DEF OneOwner, OwnedOnlyOncePut, HeldNotQueued, InQueue
    <3>2. Unclaimed(t)'
      BY <2>1, <3>1 DEF Unclaimed
    <3>3. cur'[w] = t => Owned(t)'
      BY DEF Owned
    <3>4. Told(t)'
      BY <2>2, <3>3 DEF Told
    <3>5. QED
      BY <3>2, <3>4
  <2>3. CASE t # cur[w]
    <3>1. status'[t] = status[t] /\ result'[t] = result[t] /\ error'[t] = error[t]
      BY <2>3
    <3>2. /\ \A s : Is(t, s) => Is(t, s)'
          /\ Plain(t) => Plain(t)'
          /\ Ended(t) => Ended(t)'
      BY <1>0, <3>1, RecordKept
    <3>3. Unclaimed(t)'
      BY <2>1, <3>1, <3>2 DEF Unclaimed
    <3>4. Owned(t) => Owned(t)'
      BY <2>1, <2>3 DEF Owned
    <3>5. Told(t)'
      BY <2>1, <3>2, <3>4 DEF Told
    <3>6. QED
      BY <3>3, <3>5
  <2>4. QED
    BY <2>2, <2>3
<1>3. QED
  BY <1>1, <1>2 DEF Story

LEMMA StoryTake ==
  ASSUME Typed, OneOwner, Story, NEW w \in Worker, Take(w)
  PROVE  Story'
<1>1. /\ UNCHANGED <<status, result, error, submit, cancelled, cpc, ctask, held, faults>>
      /\ cur' = [cur EXCEPT ![w] = Head(queue)] /\ pc' = [pc EXCEPT ![w] = "check"]
      /\ cur[w] = None
      /\ cur \in [Worker -> Task \cup {None}] /\ pc \in [Worker -> Place]
  BY DEF Take, Goto, Typed, TypeOK, Shape, Idle, store, outside
<1>2. /\ Head(queue) = queue[1] /\ Len(queue) \in Nat \ {0} /\ Head(queue) \in Task
      /\ Len(queue') = Len(queue) - 1
      /\ \A i \in 1..(Len(queue) - 1) : queue'[i] = queue[i + 1]
  BY HeadTailProperties DEF Take, Typed, TypeOK
<1>3. PICK h : h = Head(queue)  OBVIOUS
<1>4. h \in Task /\ InQueue(h)
  BY <1>2, <1>3 DEF InQueue
<1>5. cur'[w] = h /\ pc'[w] = "check" /\ \A v \in Worker : v # w => cur'[v] = cur[v] /\ pc'[v] = pc[v]
  BY <1>1, <1>3
<1>6. ASSUME NEW t
      PROVE  /\ \A s : Is(t, s)' = Is(t, s)
             /\ Plain(t)' = Plain(t) /\ Ended(t)' = Ended(t)
             /\ Succeeded(t)' = Succeeded(t) /\ HasFailed(t)' = HasFailed(t)
  BY <1>1 DEF Is, Says, Plain, Succeeded, HasFailed, Dropped, Ended
<1>7. ASSUME NEW v \in Worker PROVE Telling(v)'
  <2>1. CASE v = w
    <3>1. Is(h, "PENDING") /\ Plain(h)
      BY <1>4 DEF Story, Unclaimed
    <3>2. QED
      BY <1>5, <1>6, <2>1, <3>1 DEF Telling, Working, Deliberating
  <2>2. CASE v # w
    BY <1>1, <1>5, <1>6, <2>2 DEF Story, Telling
  <2>3. QED
    BY <2>1, <2>2
<1>8. ASSUME NEW t \in Task, InQueue(t)' PROVE InQueue(t)
  BY <1>2, <1>8 DEF InQueue
<1>9. ASSUME NEW t \in Task, Owned(t) PROVE Owned(t)'
  <2>1. CASE InQueue(t)
    <3>1. PICK i \in 1..Len(queue) : queue[i] = t  BY <2>1 DEF InQueue
    <3>2. CASE i = 1
      BY <1>2, <1>3, <1>5, <3>1, <3>2 DEF Owned
    <3>3. CASE i # 1
      <4>1. i - 1 \in 1..(Len(queue) - 1) /\ queue'[i - 1] = t
        BY <1>2, <3>1, <3>3
      <4>2. QED
        BY <1>2, <4>1 DEF Owned, InQueue
    <3>4. QED
      BY <3>2, <3>3
  <2>2. CASE \E v \in Worker : cur[v] = t
    BY <1>1, <1>5, <2>2, NoneAssumption DEF Owned
  <2>3. QED
    BY <1>9, <2>1, <2>2 DEF Owned
<1>10. ASSUME NEW t \in Task PROVE Unclaimed(t)' /\ Told(t)'
  BY <1>1, <1>6, <1>8, <1>9 DEF Story, Unclaimed, Told
<1>11. QED
  BY <1>1, <1>7, <1>10 DEF Story

LEMMA StoryWorks ==
  ASSUME Typed, OneOwner, Story, NEW w \in Worker, WorkerStep(w),
         faults' \in Nat, faults' >= faults
  PROVE  Story'
<1> USE DEF Moves, Goto, SetStatus, SetError, store, queued, generation, metrics, workers, outside
<1>1. /\ cur \in [Worker -> Task \cup {None}] /\ pc \in [Worker -> Place]
      /\ held \in [Worker -> Task \cup {None}]
      /\ status \in [Task -> Status] /\ result \in [Task -> Task \cup {None}]
      /\ error \in [Task -> Errors] /\ faults \in Nat
      /\ pc[w] \in Idle => cur[w] = None
      /\ pc[w] \notin Idle \cup {"dead"} => cur[w] \in Task
  BY MaxLogFaultsAssumption DEF Typed, TypeOK, Shape
<1>2. PICK mine : mine = cur[w]  OBVIOUS
<1>3. Telling(w)
  BY DEF Story
<1>4. CASE Take(w)
  BY <1>4, StoryTake
<1>5. CASE EnterGet(w) \/ LeaveLoop(w) \/ GetEmpty(w)
  <2>1. /\ UNCHANGED <<status, result, error, submit, cancelled, cpc, ctask, queue, cur, held>>
        /\ \A v \in Worker : v # w => pc'[v] = pc[v]
        /\ cur[w] = None
    BY <1>1, <1>5 DEF EnterGet, LeaveLoop, GetEmpty, Idle
  <2>2. Telling(w)'
    BY <2>1 DEF Telling
  <2>3. QED
    BY <1>2, <2>1, <2>2, StoryKept
<1>6. CASE PassStatusCheck(w) \/ PassRegistry(w)
  <2>1. /\ UNCHANGED <<status, result, error, submit, cancelled, cpc, ctask, queue, cur, held>>
        /\ \A v \in Worker : v # w => pc'[v] = pc[v]
        /\ pc[w] \in Deciding /\ pc'[w] \in Deliberating
    BY <1>1, <1>6 DEF PassStatusCheck, PassRegistry, Deciding, Deliberating
  <2>2. Telling(w)'
    BY <1>3, <2>1 DEF Telling, Plain, Is, Says, Deciding, Deliberating, Working
  <2>3. QED
    BY <1>2, <2>1, <2>2, StoryKept
<1>7. CASE SkipCancelled(w)
  <2>1. /\ UNCHANGED <<status, result, error, submit, cancelled, cpc, ctask, queue, held>>
        /\ \A v \in Worker : v # w => pc'[v] = pc[v] /\ cur'[v] = cur[v]
        /\ pc[w] = "check" /\ status[mine] = "CANCELLED" /\ mine \in Task /\ cur'[w] = None
    BY <1>1, <1>2, <1>7 DEF SkipCancelled, TaskDone, Idle
  <2>2. mine \in cancelled
    BY <1>2, <1>3, <2>1, NoneAssumption DEF Telling, Is, Deliberating, Deciding
  <2>3. Ended(mine)'
    BY <2>1, <2>2 DEF Ended, Dropped
  <2>4. QED
    BY <1>2, <2>1, <2>3, StoryKept
<1>8. CASE DropCancelled(w)
  <2>1. /\ UNCHANGED <<result, submit, cancelled, cpc, ctask, queue, held>>
        /\ \A v \in Worker : v # w => pc'[v] = pc[v] /\ cur'[v] = cur[v]
        /\ \A t \in Task : t # mine => status'[t] = status[t] /\ error'[t] = error[t]
        /\ pc[w] = "registry" /\ mine \in Task /\ mine \in cancelled
        /\ status'[mine] = "CANCELLED"
        /\ \/ cur'[w] = None
           \/ cur'[w] = mine /\ pc'[w] = "start"
    BY <1>1, <1>2, <1>8 DEF DropCancelled, IsCancelled, TaskDone, Idle
  <2>2. Ended(mine)'
    BY <2>1 DEF Ended, Dropped
  <2>3. CASE cur'[w] = None
    BY <1>2, <2>1, <2>2, <2>3, StoryKept
  <2>4. CASE cur'[w] = mine /\ pc'[w] = "start"
    <3>1. result[mine] = None
      BY <1>2, <1>3, <2>1, NoneAssumption DEF Telling, Plain, Deliberating, Deciding
    <3>2. Telling(w)'
      BY <2>1, <2>4, <3>1 DEF Telling, Plain, Is, Says, Deciding, Deliberating, Working
    <3>3. QED
      BY <1>2, <2>1, <2>4, <3>2, StoryKept
  <2>5. QED
    BY <2>1, <2>3, <2>4
<1>9. CASE Start(w)
  <2>1. /\ UNCHANGED <<result, error, submit, cancelled, cpc, ctask, queue, cur, held>>
        /\ \A v \in Worker : v # w => pc'[v] = pc[v]
        /\ \A t \in Task : t # mine => status'[t] = status[t]
        /\ pc[w] = "start" /\ pc'[w] \in {"fail", "attempt", "dead"}
        /\ status'[mine] = "RUNNING" /\ mine \in Task
    BY <1>1, <1>2, <1>9 DEF Start, Idle
  <2>2. Plain(mine)
    BY <1>2, <1>3, <2>1, NoneAssumption DEF Telling, Deliberating
  <2>3. Telling(w)'
    BY <1>2, <2>1, <2>2 DEF Telling, Plain, Is, Says, Deciding, Deliberating, Working
  <2>4. QED
    BY <1>2, <2>1, <2>3, StoryKept
<1>10. CASE \/ BeginAttempt(w) \/ NoAttempt(w) \/ Collect(w) \/ AttemptFails(w) \/ Backoff(w)
  <2>1. /\ UNCHANGED <<status, result, error, submit, cancelled, cpc, ctask, queue, cur>>
        /\ \A v \in Worker : v # w => pc'[v] = pc[v] /\ held'[v] = held[v]
        /\ pc[w] \in Working \ {"fail"} /\ pc'[w] \in Working
        /\ mine \in Task
    BY <1>1, <1>2, <1>10
       DEF BeginAttempt, NoAttempt, Collect, AttemptFails, Backoff, Working, Idle
  <2>2. pc'[w] = "succeed" => held'[w] # None
    BY <1>1, <1>2, <1>10, <2>1, NoneAssumption
       DEF BeginAttempt, NoAttempt, Collect, AttemptFails, Backoff
  <2>3. Is(mine, "RUNNING") /\ Plain(mine)
    BY <1>2, <1>3, <2>1, NoneAssumption DEF Telling
  <2>4. Is(mine, "RUNNING")' /\ Plain(mine)'
    BY <2>1, <2>3 DEF Is, Plain, Says
  <2>5. Telling(w)'
    BY <1>2, <2>1, <2>2, <2>4 DEF Telling, Plain, Deciding, Deliberating, Working
  <2>6. QED
    BY <1>2, <2>1, <2>5, StoryKept
<1>11. CASE Succeed(w)
  <2>1. /\ UNCHANGED <<submit, cancelled, cpc, ctask, queue, cur, held>>
        /\ \A v \in Worker : v # w => pc'[v] = pc[v]
        /\ \A t \in Task : t # mine =>
             status'[t] = status[t] /\ result'[t] = result[t] /\ error'[t] = error[t]
        /\ pc[w] = "succeed" /\ mine \in Task
        /\ status'[mine] = "SUCCEEDED" /\ result'[mine] = held[w] /\ error'[mine] = "None"
        /\ pc'[w] = "countSucceeded" \/ (pc'[w] = "fail" /\ faults' = faults + 1)
    BY <1>1, <1>2, <1>11 DEF Succeed, AppendRaises, Idle
  <2>2. held[w] # None
    BY <1>2, <1>3, <2>1, NoneAssumption DEF Telling
  <2>3. Succeeded(mine)'
    BY <2>1, <2>2 DEF Succeeded, Is, Says
  <2>4. Telling(w)'
    BY <1>1, <1>2, <2>1, <2>3 DEF Telling, Succeeded, Is, Deciding, Deliberating, Working
  <2>5. QED
    BY <1>2, <2>1, <2>4, StoryKept
<1>12. CASE Fail(w)
  <2>1. /\ UNCHANGED <<result, submit, cancelled, cpc, ctask, queue, held>>
        /\ \A v \in Worker : v # w => pc'[v] = pc[v] /\ cur'[v] = cur[v]
        /\ \A t \in Task : t # mine => status'[t] = status[t] /\ error'[t] = error[t]
        /\ pc[w] = "fail" /\ mine \in Task
        /\ status'[mine] = "FAILED" /\ error'[mine] = "Failure"
        /\ \/ cur'[w] = mine /\ pc'[w] = "countFailed"
           \/ cur'[w] = None
    BY <1>1, <1>2, <1>12 DEF Fail, TaskDone, Idle
  <2>2. result[mine] = None \/ faults > 0
    BY <1>2, <1>3, <2>1, NoneAssumption DEF Telling
  <2>3. HasFailed(mine)'
    BY <1>1, <2>1, <2>2 DEF HasFailed, Is, Says
  <2>4. cur'[w] = mine /\ pc'[w] = "countFailed" => Telling(w)'
    BY <2>3 DEF Telling, Deciding, Deliberating, Working
  <2>5. QED
    BY <1>2, <2>1, <2>3, <2>4, StoryKept DEF Ended
<1>13. CASE ReleaseSucceeded(w) \/ ReleaseFailed(w)
  <2>1. /\ UNCHANGED <<status, result, error, submit, cancelled, cpc, ctask, queue, held, faults>>
        /\ \A v \in Worker : v # w => pc'[v] = pc[v] /\ cur'[v] = cur[v]
        /\ pc[w] \in Releasing /\ mine \in Task /\ cur'[w] = None
    BY <1>1, <1>2, <1>13 DEF ReleaseSucceeded, ReleaseFailed, TaskDone, Releasing, Idle
  <2>2. Ended(mine)
    BY <1>2, <1>3, <2>1, NoneAssumption DEF Telling, Releasing, Ended
  <2>3. Ended(mine)'
    BY <1>1, <2>1, <2>2, RecordKept
  <2>4. QED
    BY <1>2, <2>1, <2>3, StoryKept
<1>14. QED
  BY <1>4, <1>5, <1>6, <1>7, <1>8, <1>9, <1>10, <1>11, <1>12, <1>13 DEF WorkerStep

(* A cancel handler writes only to tasks whose cancellation is requested.  *)
LEMMA StoryCancels ==
  ASSUME Typed, OneOwner, Story, NEW c \in Canceller, CancelStep(c),
         faults' \in Nat, faults' >= faults
  PROVE  Story'
<1> USE DEF store, workers, queued
<1>1. /\ status \in [Task -> Status] /\ error \in [Task -> Errors] /\ cancelled \subseteq Task
      /\ cpc \in [Canceller -> {"idle", "pending?", "running?", "mark", "note"}]
      /\ ctask \in [Canceller -> Task \cup {None}] /\ faults \in Nat
      /\ \A w \in Worker : cur[w] # None => cur[w] \in Task
  BY MaxLogFaultsAssumption DEF Typed, TypeOK
<1>2. /\ UNCHANGED <<result, submit, queue, cur, pc, held>>
      /\ cancelled \subseteq cancelled'
      /\ \A t \in cancelled' : t \in cancelled \/ (t \in Task /\ status[t] # "ABSENT")
      /\ \A d \in Canceller : d # c => cpc'[d] = cpc[d] /\ ctask'[d] = ctask[d]
      /\ cpc'[c] # "idle" => ctask'[c] \in cancelled'
      /\ \A t \in Task :
           \/ status'[t] = status[t] /\ error'[t] = error[t]
           \/ t \in cancelled' /\ status'[t] \in {status[t], "CANCELLED"}
  <2>1. CASE \E t \in Task : RequestCancel(c, t)
    BY <1>1, <2>1 DEF RequestCancel
  <2>2. CASE ReadPending(c) \/ ReadRunning(c)
    BY <1>1, <2>2 DEF ReadPending, ReadRunning, Story
  <2>3. CASE MarkCancelled(c)
    BY <1>1, <2>3 DEF MarkCancelled, SetStatus, SetError, Story
  <2>4. CASE NoteRequested(c)
    BY <1>1, <2>4 DEF NoteRequested, SetError, Story
  <2>5. QED
    BY <2>1, <2>2, <2>3, <2>4 DEF CancelStep
<1>3. ASSUME NEW v \in Worker PROVE Telling(v)'
  <2>1. PICK t : t = cur[v]  OBVIOUS
  <2>2. Telling(v) /\ (t # None => t \in Task)
    BY <1>1, <2>1 DEF Story
  <2>3. QED
    BY <1>1, <1>2, <2>1, <2>2, TellingKept
<1>4. ASSUME NEW t \in Task PROVE Unclaimed(t)' /\ Told(t)'
  <2>1. Unclaimed(t) /\ Told(t) /\ InQueue(t)' = InQueue(t) /\ Owned(t)' = Owned(t)
    BY <1>2 DEF Story, InQueue, Owned
  <2>2. /\ \A s : Is(t, s) => Is(t, s)'
        /\ Plain(t) => Plain(t)'
        /\ Ended(t) => Ended(t)'
    BY <1>1, <1>2, RecordKept
  <2>3. submit[t] = "idle" => status'[t] = "ABSENT"
    BY <1>2, <2>1 DEF Story, Unclaimed
  <2>4. QED
    BY <1>2, <2>1, <2>2, <2>3 DEF Unclaimed, Told
<1>5. /\ \A d \in Canceller : cpc'[d] # "idle" => ctask'[d] \in cancelled'
      /\ \A t \in cancelled' : submit'[t] # "idle"
  BY <1>2 DEF Story, Unclaimed
<1>6. QED
  BY <1>3, <1>4, <1>5 DEF Story

LEMMA StoryStep ==
  ASSUME Typed, OneOwner, Story, [Next]_vars
  PROVE  Story'
<1> USE DEF store, workers, queued, outside
<1>0. /\ status \in [Task -> Status] /\ submit \in [Task -> {"idle", "put", "queued", "error"}]
      /\ queue \in Seq(Task) /\ faults \in Nat /\ cancelled \subseteq Task
      /\ \A w \in Worker : cur[w] # None => cur[w] \in Task /\ submit[cur[w]] = "queued"
      /\ faults' \in Nat /\ faults' >= faults
  BY FaultsGrow, MaxLogFaultsAssumption DEF Typed, TypeOK, OneOwner, OwnedOnlyOncePut
<1>1. ASSUME NEW t \in Task, Submit(t)
      PROVE  Story'
  <2>1. /\ UNCHANGED <<queue, cur, pc, held, result, error, cancelled, cpc, ctask>>
        /\ submit[t] = "idle" /\ submit'[t] \in {"put", "error"} /\ status'[t] = "PENDING"
        /\ \A u \in Task : u # t => submit'[u] = submit[u] /\ status'[u] = status[u]
    BY <1>0, <1>1 DEF Submit, SetStatus
  <2>2. ASSUME NEW w \in Worker PROVE Telling(w)'
    <3>1. PICK u : u = cur[w]  OBVIOUS
    <3>2. Telling(w) /\ (u # None => status'[u] = status[u])
      BY <1>0, <2>1, <3>1 DEF Story
    <3>3. QED
      BY <1>0, <2>1, <3>1, <3>2, TellingKept
  <2>3. ASSUME NEW u \in Task PROVE Unclaimed(u)' /\ Told(u)'
    <3>1. Unclaimed(u) /\ Told(u) /\ InQueue(u)' = InQueue(u) /\ Owned(u)' = Owned(u)
      BY <2>1 DEF Story, InQueue, Owned
    <3>2. CASE u = t
      BY <2>1, <3>1, <3>2 DEF Unclaimed, Told, Plain, Is, Says
    <3>3. CASE u # t
      <4>1. /\ \A s : Is(u, s) => Is(u, s)'
            /\ Plain(u) => Plain(u)'
            /\ Ended(u) => Ended(u)'
        BY <1>0, <2>1, <3>3, RecordKept
      <4>2. QED
        BY <2>1, <3>1, <3>3, <4>1 DEF Unclaimed, Told
    <3>4. QED
      BY <3>2, <3>3
  <2>4. \A u \in cancelled' : submit'[u] # "idle"
    BY <1>0, <2>1 DEF Story
  <2>5. QED
    BY <2>1, <2>2, <2>3, <2>4 DEF Story
<1>2. ASSUME NEW t \in Task, Put(t)
      PROVE  Story'
  <2>1. /\ UNCHANGED <<status, result, error, cur, pc, held, cancelled, cpc, ctask, faults>>
        /\ submit[t] = "put" /\ submit'[t] = "queued"
        /\ \A u \in Task : u # t => submit'[u] = submit[u]
        /\ queue' = Append(queue, t)
    BY <1>0, <1>2 DEF Put
  <2>2. /\ Len(queue') = Len(queue) + 1 /\ Len(queue) \in Nat
        /\ \A i \in 1..Len(queue) : queue'[i] = queue[i]
        /\ queue'[Len(queue) + 1] = t
    BY <1>0, <2>1, QueueFacts
  <2>3. InQueue(t)' /\ \A u \in Task : InQueue(u) => InQueue(u)'
    BY <2>2 DEF InQueue
  <2>4. ASSUME NEW u \in Task, u # t, InQueue(u)' PROVE InQueue(u)
    BY <2>2, <2>4 DEF InQueue
  <2>5. ASSUME NEW u
        PROVE  /\ \A s : Is(u, s)' = Is(u, s)
               /\ Plain(u)' = Plain(u) /\ Ended(u)' = Ended(u)
               /\ Succeeded(u)' = Succeeded(u) /\ HasFailed(u)' = HasFailed(u)
    BY <2>1 DEF Is, Says, Plain, Succeeded, HasFailed, Dropped, Ended
  <2>6. ASSUME NEW u \in Task PROVE Unclaimed(u)' /\ Told(u)'
    <3>1. CASE u = t
      <4>1. Plain(t) /\ Is(t, "PENDING")  BY <2>1 DEF Story, Unclaimed
      <4>2. QED
        BY <2>1, <2>3, <2>5, <3>1, <4>1 DEF Unclaimed, Told, Owned
    <3>2. CASE u # t
      <4>1. Unclaimed(u) /\ Told(u) /\ (Owned(u) => Owned(u)')
        BY <2>1, <2>3 DEF Story, Owned
      <4>2. QED
        BY <2>1, <2>4, <2>5, <3>2, <4>1 DEF Unclaimed, Told
    <3>3. QED
      BY <3>1, <3>2
  <2>7. \A w \in Worker : Telling(w)'
    BY <2>1, <2>5 DEF Story, Telling
  <2>8. \A u \in cancelled' : submit'[u] # "idle"
    BY <1>0, <2>1 DEF Story
  <2>9. QED
    BY <2>1, <2>6, <2>7, <2>8 DEF Story
<1>3. CASE \/ \E w \in Worker : ChildStep(w) \/ StopWorker(w)
           \/ ProcessEnds \/ UNCHANGED vars
  <2>1. /\ UNCHANGED <<status, result, error, submit, queue, cur, pc, held>>
        /\ UNCHANGED <<cancelled, cpc, ctask, faults>>
    BY <1>3
       DEF ChildStep, ChildSubmits, ChildReturns, ChildRaises, StopWorker, ProcessEnds, vars
  <2>2. ASSUME NEW u
        PROVE  /\ \A s : Is(u, s)' = Is(u, s)
               /\ Plain(u)' = Plain(u) /\ Ended(u)' = Ended(u)
               /\ Succeeded(u)' = Succeeded(u) /\ HasFailed(u)' = HasFailed(u)
    BY <2>1 DEF Is, Says, Plain, Succeeded, HasFailed, Dropped, Ended
  <2>3. QED
    BY <2>1, <2>2 DEF Story, Telling, Unclaimed, Told, Owned, InQueue
<1>4. QED
  BY <1>0, <1>1, <1>2, <1>3, StoryWorks, StoryCancels DEF Next

LEMMA StoryInit == Init => Story
BY NoneAssumption
   DEF Init, Story, Telling, Unclaimed, Told, Plain, Is, Says, InQueue, Owned

(* A task that has come to its end has a result or an error, not both, and *)
(* its status says which, whatever fails, times out or is retried; where   *)
(* that is not so, somebody has asked to cancel this task, or an append has *)
(* raised.                                                                 *)
THEOREM EndsAreTold == Spec => []ResultOrError
<1> DEFINE Inv == Typed /\ OneOwner /\ Story
<1>1. Init => Inv
  BY TypedInit, OwnerInit, StoryInit
<1>2. Inv /\ [Next]_vars => Inv'
  BY TypedStep, OwnerStep, StoryStep
<1>3. Inv => ResultOrError
  <2> SUFFICES ASSUME Inv, NEW t \in Task, Settled(t)
               PROVE  \/ status[t] = "SUCCEEDED" /\ result[t] # None /\ Says(t, "None")
                      \/ /\ status[t] = "FAILED" /\ Says(t, "Failure")
                         /\ result[t] = None \/ faults > 0
                      \/ status[t] = "CANCELLED" /\ t \in cancelled
    BY DEF ResultOrError, Says
  <2>1. submit[t] = "queued" /\ ~Owned(t)
    BY DEF Settled, Owned, Holder
  <2>2. Ended(t)
    BY <2>1 DEF Story, Told
  <2>3. QED
    BY <2>2 DEF Ended, Succeeded, HasFailed, Dropped, Is
<1>4. QED
  BY <1>1, <1>2, <1>3, PTL DEF Spec

-----------------------------------------------------------------------------
(* What a step of worker w does to the statuses and to the other workers.  *)
LEMMA OwnTaskOnly ==
  ASSUME Typed, NEW w \in Worker, NEW mine, mine = cur[w], WorkerStep(w)
  PROVE  /\ \A t \in Task : t # mine => status'[t] = status[t]
         /\ \A t \in Task : status'[t] = "ABSENT" => status[t] = "ABSENT"
         /\ \A v \in Worker : v # w => pc'[v] = pc[v] /\ cur'[v] = cur[v]
         /\ UNCHANGED <<submit, cancelled, early, cpc, ctask>>
         /\ ~Take(w) => UNCHANGED queue /\ cur'[w] \in {mine, None}
<1> USE DEF Moves, Goto, SetStatus, TaskDone, store, queued, generation, metrics, workers, outside
<1>1. /\ cur \in [Worker -> Task \cup {None}] /\ pc \in [Worker -> Place]
      /\ status \in [Task -> Status]
  BY DEF Typed, TypeOK
<1>2. CASE \/ EnterGet(w) \/ LeaveLoop(w) \/ GetEmpty(w) \/ Take(w) \/ SkipCancelled(w)
           \/ PassStatusCheck(w) \/ PassRegistry(w) \/ BeginAttempt(w) \/ NoAttempt(w)
           \/ Collect(w) \/ AttemptFails(w) \/ Backoff(w) \/ ReleaseSucceeded(w)
           \/ ReleaseFailed(w)
  BY <1>1, <1>2
     DEF EnterGet, LeaveLoop, GetEmpty, Take, SkipCancelled, PassStatusCheck, PassRegistry,
         BeginAttempt, NoAttempt, Collect, AttemptFails, Backoff, ReleaseSucceeded, ReleaseFailed
<1>3. CASE DropCancelled(w) \/ Start(w) \/ Succeed(w) \/ Fail(w)
  BY <1>1, <1>3 DEF DropCancelled, Start, Succeed, Fail
<1>4. QED
  BY <1>2, <1>3 DEF WorkerStep

-----------------------------------------------------------------------------
(* The counters.  Every task a worker has counted, or is about to, is past *)
(* its worker, and cancellation is all that may still change its status;   *)
(* every end that is written is counted or has cost a fault.               *)
Known == {t \in Task : status[t] # "ABSENT"}
Past(t) ==
  /\ submit[t] = "queued" /\ ~InQueue(t)
  /\ \A w \in Worker : cur[w] = t => pc[w] \in Releasing
Gone(ends) == {t \in With(ends \cup {"CANCELLED"}) : Past(t)}

Tally(ends) ==
  /\ Cardinality(With(ends)) <= Counted(ends) + faults
  /\ Counted(ends) <= Cardinality(Gone(ends))

Tallies == IsFiniteSet(Known) /\ \A ends \in SUBSET Ends : Tally(ends)

LEMMA AtFacts ==
  ASSUME NEW w \in Worker, NEW place, pc \in [Worker -> Place],
         \A v \in Worker : v # w => pc'[v] = pc[v]
  PROVE  /\ Cardinality(At(place)) \in Nat /\ Cardinality(At(place)') \in Nat
         /\ pc[w] # place /\ pc'[w] = place =>
              Cardinality(At(place)') = Cardinality(At(place)) + 1
         /\ pc[w] = place /\ pc'[w] # place =>
              Cardinality(At(place)') = Cardinality(At(place)) - 1
         /\ pc[w] # place /\ pc'[w] # place => At(place)' = At(place)
<1>1. IsFiniteSet(At(place)) /\ IsFiniteSet(At(place)')
  BY WorkerAssumption, FS_Subset DEF At
<1>2. ASSUME pc[w] # place, pc'[w] = place
      PROVE  Cardinality(At(place)') = Cardinality(At(place)) + 1
  <2>1. At(place)' = At(place) \cup {w} /\ w \notin At(place)
    BY <1>2 DEF At
  <2>2. QED
    BY <1>1, <2>1, FS_AddElement
<1>3. ASSUME pc[w] = place, pc'[w] # place
      PROVE  Cardinality(At(place)') = Cardinality(At(place)) - 1
  <2>1. At(place)' = At(place) \ {w} /\ w \in At(place)
    BY <1>3 DEF At
  <2>2. QED
    BY <1>1, <2>1, FS_RemoveElement
<1>4. ASSUME pc[w] # place, pc'[w] # place PROVE At(place)' = At(place)
  BY <1>4 DEF At
<1>5. QED
  BY <1>1, <1>2, <1>3, <1>4, FS_CardinalityType

LEMMA CountedNat ==
  ASSUME succeeded \in Nat, failed \in Nat, NEW ends
  PROVE  Counted(ends) \in Nat
<1>1. \A place : Cardinality(At(place)) \in Nat
  BY WorkerAssumption, FS_Subset, FS_CardinalityType DEF At
<1>2. QED
  BY <1>1 DEF Counted

(* A step that writes an end to task `mine`, which has been of no worker's  *)
(* past, and counts it or pays for it; or a step that writes no end.       *)
Writes(mine, written) ==
  \A ends \in SUBSET Ends :
    LET hit == written \cap ends # {}
    IN  /\ With(ends)' \subseteq With(ends) \cup (IF hit THEN {mine} ELSE {})
        /\ \/ /\ faults' = faults + 1 \/ written = {}
              /\ Counted(ends)' = Counted(ends)
              /\ Gone(ends) \subseteq Gone(ends)'
           \/ /\ Counted(ends)' = Counted(ends) + (IF hit THEN 1 ELSE 0)
              /\ Gone(ends) \cup (IF hit THEN {mine} ELSE {}) \subseteq Gone(ends)'
              /\ mine \notin Gone(ends)

LEMMA TallyMoves ==
  ASSUME Typed, Typed', Tallies, IsFiniteSet(Known'), faults' \in Nat, faults' >= faults,
         NEW mine, NEW written, Writes(mine, written)
  PROVE  Tallies'
<1> SUFFICES ASSUME NEW ends \in SUBSET Ends
             PROVE  Tally(ends)'
  BY DEF Tallies
<1> DEFINE hit == written \cap ends # {}
           more == IF hit THEN {mine} ELSE {}
           one == IF hit THEN 1 ELSE 0
<1>1. faults \in Nat /\ Counted(ends) \in Nat /\ Counted(ends)' \in Nat
  <2>1. succeeded \in Nat /\ failed \in Nat /\ succeeded' \in Nat /\ failed' \in Nat
    BY DEF Typed, TypeOK
  <2>2. Counted(ends) \in Nat
    BY <2>1, CountedNat
  <2>3. \A place : Cardinality(At(place)') \in Nat
    BY WorkerAssumption, FS_Subset, FS_CardinalityType DEF At
  <2>4. Counted(ends)' \in Nat
    BY <2>1, <2>3 DEF Counted
  <2>5. QED
    BY <2>2, <2>4, MaxLogFaultsAssumption DEF Typed, TypeOK
<1>2. /\ IsFiniteSet(With(ends)) /\ IsFiniteSet(With(ends)')
      /\ IsFiniteSet(Gone(ends)) /\ IsFiniteSet(Gone(ends)')
  <2>1. /\ With(ends) \subseteq Known /\ Gone(ends) \subseteq Known
        /\ With(ends)' \subseteq Known' /\ Gone(ends)' \subseteq Known'
    BY DEF With, Gone, Known, Ends
  <2>2. IsFiniteSet(Known)
    BY DEF Tallies
  <2>3. QED
    BY <2>1, <2>2, FS_Subset
<1>3. /\ Cardinality(With(ends)) \in Nat /\ Cardinality(With(ends)') \in Nat
      /\ Cardinality(Gone(ends)) \in Nat /\ Cardinality(Gone(ends)') \in Nat
  BY <1>2, FS_CardinalityType
<1>4. Cardinality(With(ends)') <= Cardinality(With(ends)) + one
  <2>1. With(ends)' \subseteq With(ends) \cup more
    BY DEF Writes
  <2>2. CASE hit
    <3>1. IsFiniteSet(With(ends) \cup {mine})
      BY <1>2, FS_AddElement
    <3>2. /\ Cardinality(With(ends) \cup {mine}) = Cardinality(With(ends))
          \/ Cardinality(With(ends) \cup {mine}) = Cardinality(With(ends)) + 1
      BY <1>2, FS_AddElement
    <3>3. Cardinality(With(ends)') <= Cardinality(With(ends) \cup {mine})
      BY <2>1, <2>2, <3>1, FS_Subset
    <3>4. QED
      BY <1>3, <2>2, <3>2, <3>3
  <2>3. CASE ~hit
    <3>1. Cardinality(With(ends)') <= Cardinality(With(ends))
      BY <1>2, <2>1, <2>3, FS_Subset
    <3>2. QED
      BY <1>3, <2>3, <3>1
  <2>4. QED
    BY <2>2, <2>3
<1>5. Tally(ends)
  BY DEF Tallies
<1>6. CASE /\ faults' = faults + 1 \/ written = {}
           /\ Counted(ends)' = Counted(ends)
           /\ Gone(ends) \subseteq Gone(ends)'
  <2>1. Cardinality(Gone(ends)) <= Cardinality(Gone(ends)')
    BY <1>2, <1>6, FS_Subset
  <2>2. Cardinality(With(ends)') <= Counted(ends)' + faults'
    <3>1. one = 0 \/ (one = 1 /\ faults' = faults + 1)
      BY <1>6
    <3>2. QED
      BY <1>1, <1>3, <1>4, <1>5, <1>6, <3>1 DEF Tally
  <2>3. Counted(ends)' <= Cardinality(Gone(ends)')
    BY <1>1, <1>3, <1>5, <1>6, <2>1 DEF Tally
  <2>4. QED
    BY <2>2, <2>3 DEF Tally
<1>7. CASE /\ Counted(ends)' = Counted(ends) + one
           /\ Gone(ends) \cup more \subseteq Gone(ends)'
           /\ mine \notin Gone(ends)
  <2>1. Cardinality(Gone(ends)) + one <= Cardinality(Gone(ends)')
    <3>1. CASE hit
      <4>1. /\ IsFiniteSet(Gone(ends) \cup {mine})
            /\ Cardinality(Gone(ends) \cup {mine}) = Cardinality(Gone(ends)) + 1
        BY <1>2, <1>7, FS_AddElement
      <4>2. Cardinality(Gone(ends) \cup {mine}) <= Cardinality(Gone(ends)')
        BY <1>2, <1>7, <3>1, FS_Subset
      <4>3. QED
        BY <3>1, <4>1, <4>2
    <3>2. CASE ~hit
      <4>1. Cardinality(Gone(ends)) <= Cardinality(Gone(ends)')
        BY <1>2, <1>7, <3>2, FS_Subset
      <4>2. QED
        BY <1>3, <3>2, <4>1
    <3>3. QED
      BY <3>1, <3>2
  <2>2. one \in {0, 1}
    OBVIOUS
  <2>3. QED
    BY <1>1, <1>3, <1>4, <1>5, <1>7, <2>1, <2>2 DEF Tally
<1>8. QED
  BY <1>6, <1>7 DEF Writes

LEMMA TallyKept ==
  ASSUME Typed, Typed', Tallies, IsFiniteSet(Known'), faults' \in Nat, faults' >= faults,
         \A ends \in SUBSET Ends :
           /\ With(ends)' \subseteq With(ends) /\ Gone(ends) \subseteq Gone(ends)'
           /\ Counted(ends)' = Counted(ends)
  PROVE  Tallies'
<1>1. Writes(None, {})
  BY DEF Writes
<1>2. QED
  BY <1>1, TallyMoves

(* Gone tasks stay: no worker holds them but to count them, and nobody but *)
(* a cancel handler writes their status.                                   *)
LEMMA GoneKept ==
  ASSUME Typed, OneOwner, NEW w \in Worker, NEW mine, mine = cur[w], WorkerStep(w), NEW ends,
         \/ pc[w] \notin Releasing
         \/ cur'[w] = None /\ UNCHANGED status
  PROVE  Gone(ends) \subseteq Gone(ends)'
<1> SUFFICES ASSUME NEW t \in Gone(ends)
             PROVE  t \in Gone(ends)'
  OBVIOUS
<1>1. /\ t \in Task /\ status[t] \in ends \cup {"CANCELLED"} /\ submit[t] = "queued"
      /\ ~InQueue(t) /\ \A v \in Worker : cur[v] = t => pc[v] \in Releasing
      /\ t # None
  BY NoneAssumption DEF Gone, With, Past
<1>2. /\ \A u \in Task : u # mine => status'[u] = status[u]
      /\ \A v \in Worker : v # w => pc'[v] = pc[v] /\ cur'[v] = cur[v]
      /\ UNCHANGED submit
      /\ ~Take(w) => UNCHANGED queue /\ cur'[w] \in {mine, None}
  BY OwnTaskOnly
<1>3. status'[t] = status[t]
  BY <1>1, <1>2
<1>4. ~InQueue(t)' /\ (cur'[w] # t \/ pc'[w] \in Releasing)
  <2>1. CASE Take(w)
    <3>1. /\ Head(queue) = queue[1] /\ Len(queue) \in Nat \ {0}
          /\ Len(queue') = Len(queue) - 1
          /\ \A i \in 1..(Len(queue) - 1) : queue'[i] = queue[i + 1]
      BY <2>1, HeadTailProperties DEF Take, Typed, TypeOK
    <3>2. cur'[w] = queue[1]
      BY <2>1, <3>1 DEF Take, Typed, TypeOK
    <3>3. QED
      BY <1>1, <3>1, <3>2 DEF InQueue
  <2>2. CASE ~Take(w)
    BY <1>1, <1>2, <2>2 DEF InQueue
  <2>3. QED
    BY <2>1, <2>2
<1>5. QED
  BY <1>1, <1>2, <1>3, <1>4 DEF Gone, With, Past

LEMMA TallyWorks ==
  ASSUME Typed, Typed', OneOwner, Tallies, IsFiniteSet(Known'), faults' \in Nat, faults' >= faults,
         NEW w \in Worker, WorkerStep(w)
  PROVE  Tallies'
<1> USE DEF Moves, Goto, SetStatus, SetError, store, queued, generation, metrics, workers, outside
<1>1. /\ cur \in [Worker -> Task \cup {None}] /\ pc \in [Worker -> Place]
      /\ status \in [Task -> Status] /\ succeeded \in Nat /\ failed \in Nat
      /\ pc[w] \notin Idle \cup {"dead"} => cur[w] \in Task
  BY DEF Typed, TypeOK, Shape
<1>2. PICK mine : mine = cur[w]  OBVIOUS
<1>3. \A v \in Worker : v # w => pc'[v] = pc[v]
  BY <1>2, OwnTaskOnly
<1>4. ASSUME \A place \in Releasing : At(place)' = At(place), UNCHANGED <<succeeded, failed>>
      PROVE  \A ends \in SUBSET Ends : Counted(ends)' = Counted(ends)
  BY <1>4 DEF Counted, Releasing
<1>5. ASSUME pc[w] \notin Releasing
      PROVE  \A ends : mine \notin Gone(ends) /\ Gone(ends) \subseteq Gone(ends)'
  BY <1>2, <1>5, GoneKept DEF Gone, Past
<1>6. CASE \/ EnterGet(w) \/ LeaveLoop(w) \/ GetEmpty(w) \/ Take(w) \/ PassStatusCheck(w)
           \/ PassRegistry(w) \/ BeginAttempt(w) \/ NoAttempt(w) \/ Collect(w)
           \/ AttemptFails(w) \/ Backoff(w) \/ SkipCancelled(w)
  <2>1. /\ UNCHANGED <<status, succeeded, failed>>
        /\ pc[w] \notin Releasing /\ pc'[w] \notin Releasing
    BY <1>1, <1>6
       DEF EnterGet, LeaveLoop, GetEmpty, Take, PassStatusCheck, PassRegistry, BeginAttempt,
           NoAttempt, Collect, AttemptFails, Backoff, SkipCancelled, TaskDone, Releasing
  <2>2. \A place \in Releasing : At(place)' = At(place)
    BY <1>1, <1>3, <2>1, AtFacts
  <2>3. \A ends \in SUBSET Ends : With(ends)' = With(ends)
    BY <2>1 DEF With
  <2>4. QED
    BY <1>4, <1>5, <2>1, <2>2, <2>3, TallyKept
<1>7. CASE DropCancelled(w) \/ Start(w)
  <2>1. /\ UNCHANGED <<succeeded, failed>>
        /\ pc[w] \notin Releasing /\ pc'[w] \notin Releasing
        /\ \A t \in Task : t # mine => status'[t] = status[t]
        /\ status'[mine] \notin Ends
    BY <1>1, <1>2, <1>7 DEF DropCancelled, Start, TaskDone, Releasing, Idle, Ends
  <2>2. \A place \in Releasing : At(place)' = At(place)
    BY <1>1, <1>3, <2>1, AtFacts
  <2>3. \A ends \in SUBSET Ends : With(ends)' \subseteq With(ends)
    BY <2>1 DEF With
  <2>4. QED
    BY <1>4, <1>5, <2>1, <2>2, <2>3, TallyKept
<1>8. ASSUME NEW end, NEW place, pc[w] \notin Releasing,
             \/ end = "SUCCEEDED" /\ place = "countSucceeded"
             \/ end = "FAILED" /\ place = "countFailed",
             mine \in Task, UNCHANGED <<succeeded, failed>>,
             \A t \in Task : t # mine => status'[t] = status[t],
             status'[mine] = end,
             \/ pc'[w] = place /\ cur'[w] = mine
             \/ pc'[w] \notin Releasing /\ faults' = faults + 1
      PROVE  Tallies'
  <2>1. \A ends \in SUBSET Ends :
          With(ends)' \subseteq With(ends) \cup (IF {end} \cap ends # {} THEN {mine} ELSE {})
    BY <1>8 DEF With
  <2>3. CASE pc'[w] \notin Releasing /\ faults' = faults + 1
    <3>1. \A p \in Releasing : At(p)' = At(p)
      BY <1>1, <1>3, <1>8, <2>3, AtFacts
    <3>2. Writes(mine, {end})
      BY <1>4, <1>5, <1>8, <2>1, <2>3, <3>1 DEF Writes
    <3>3. QED
      BY <3>2, TallyMoves
  <2>4. CASE pc'[w] = place /\ cur'[w] = mine
    <3>1. /\ \A p \in Releasing : p # place => At(p)' = At(p)
          /\ Cardinality(At(place)) \in Nat
          /\ Cardinality(At(place)') = Cardinality(At(place)) + 1
      <4>1. pc[w] # place
        BY <1>8 DEF Releasing
      <4>2. /\ Cardinality(At(place)) \in Nat
            /\ Cardinality(At(place)') = Cardinality(At(place)) + 1
        BY <1>1, <1>3, <2>4, <4>1, AtFacts
      <4>3. \A p \in Releasing : p # place => At(p)' = At(p)
        BY <1>1, <1>3, <1>8, <2>4, AtFacts
      <4>4. QED
        BY <4>2, <4>3
    <3>2. \A p : Cardinality(At(p)) \in Nat
      BY WorkerAssumption, FS_Subset, FS_CardinalityType DEF At
    <3>3. \A ends \in SUBSET Ends :
            Counted(ends)' = Counted(ends) + (IF {end} \cap ends # {} THEN 1 ELSE 0)
      BY <1>1, <1>8, <3>1, <3>2 DEF Counted, Releasing
    <3>4. Past(mine)'
      <4>1. submit'[mine] = "queued" /\ ~InQueue(mine) /\ UNCHANGED queue
        <5>1. ~Take(w)
          BY <1>1, <1>8, <2>4 DEF Take, Releasing
        <5>2. QED
          BY <1>2, <1>8, <5>1, NoneAssumption, OwnTaskOnly
             DEF OneOwner, OwnedOnlyOncePut, HeldNotQueued, InQueue
      <4>2. \A v \in Worker : cur'[v] = mine => v = w
        <5>1. mine # None
          BY <1>8, NoneAssumption
        <5>2. QED
          BY <1>2, <5>1, OwnTaskOnly DEF OneOwner, HeldByOne
      <4>3. QED
        BY <1>8, <2>4, <4>1, <4>2 DEF Past, InQueue, Releasing
    <3>5. \A ends \in SUBSET Ends : {end} \cap ends # {} => mine \in Gone(ends)'
      BY <1>8, <3>4 DEF Gone, With
    <3>6. Writes(mine, {end})
      BY <1>5, <1>8, <2>1, <3>3, <3>5 DEF Writes
    <3>7. QED
      BY <3>6, TallyMoves
  <2>5. QED
    BY <1>8, <2>3, <2>4
<1>9. CASE Succeed(w)
  <2>1. /\ UNCHANGED <<succeeded, failed>> /\ pc[w] \notin Releasing /\ mine \in Task
        /\ \A t \in Task : t # mine => status'[t] = status[t]
        /\ status'[mine] = "SUCCEEDED"
        /\ \/ pc'[w] = "countSucceeded" /\ cur'[w] = mine
           \/ pc'[w] \notin Releasing /\ faults' = faults + 1
    BY <1>1, <1>2, <1>9 DEF Succeed, AppendRaises, Idle, Releasing
  <2>2. QED
    BY <1>8, <2>1
<1>10. CASE Fail(w)
  <2>1. /\ UNCHANGED <<succeeded, failed>> /\ pc[w] \notin Releasing /\ mine \in Task
        /\ \A t \in Task : t # mine => status'[t] = status[t]
        /\ status'[mine] = "FAILED"
        /\ \/ pc'[w] = "countFailed" /\ cur'[w] = mine
           \/ pc'[w] \notin Releasing /\ faults' = faults + 1
    BY <1>1, <1>2, <1>10 DEF Fail, AppendRaises, Idle, Releasing
  <2>2. QED
    BY <1>8, <2>1
<1>11. CASE ReleaseSucceeded(w) \/ ReleaseFailed(w)
  <2>1. /\ UNCHANGED status /\ pc'[w] = "loop" /\ cur'[w] = None
        /\ \/ pc[w] = "countSucceeded" /\ succeeded' = succeeded + 1 /\ failed' = failed
           \/ pc[w] = "countFailed" /\ failed' = failed + 1 /\ succeeded' = succeeded
    BY <1>1, <1>11 DEF ReleaseSucceeded, ReleaseFailed, TaskDone
  <2>2. PICK s, f, sp, fp :
          /\ s = Cardinality(At("countSucceeded")) /\ f = Cardinality(At("countFailed"))
          /\ sp = Cardinality(At("countSucceeded")') /\ fp = Cardinality(At("countFailed")')
    OBVIOUS
  <2>3. /\ s \in Nat /\ f \in Nat /\ sp \in Nat /\ fp \in Nat
        /\ pc[w] = "countSucceeded" => sp = s - 1
        /\ pc[w] = "countFailed" => fp = f - 1
        /\ pc[w] # "countSucceeded" => sp = s
        /\ pc[w] # "countFailed" => fp = f
    BY <1>1, <1>3, <2>1, <2>2, AtFacts
  <2>4. \A ends \in SUBSET Ends : Counted(ends)' = Counted(ends)
    BY <1>1, <2>1, <2>2, <2>3 DEF Counted
  <2>5. \A ends \in SUBSET Ends : With(ends)' = With(ends) /\ Gone(ends) \subseteq Gone(ends)'
    BY <1>2, <2>1, GoneKept DEF With
  <2>6. QED
    BY <2>4, <2>5, TallyKept
<1>12. QED
  BY <1>6, <1>7, <1>9, <1>10, <1>11 DEF WorkerStep

LEMMA KnownStep ==
  ASSUME Typed, IsFiniteSet(Known), [Next]_vars
  PROVE  IsFiniteSet(Known')
<1> USE DEF store, workers, outside
<1>1. \E t : Known' \subseteq Known \cup {t}
  <2>1. ASSUME NEW t \in Task, Submit(t) PROVE Known' \subseteq Known \cup {t}
    BY <2>1 DEF Known, Submit, SetStatus, Typed, TypeOK
  <2>2. ASSUME NEW w \in Worker, WorkerStep(w) PROVE Known' \subseteq Known \cup {cur[w]}
    <3>1. \A t \in Task : t # cur[w] => status'[t] = status[t]
      BY <2>2, OwnTaskOnly
    <3>2. QED
      BY <3>1 DEF Known
  <2>3. ASSUME NEW c \in Canceller, CancelStep(c) PROVE Known' \subseteq Known \cup {ctask[c]}
    BY <2>3
       DEF Known, CancelStep, RequestCancel, ReadPending, ReadRunning, MarkCancelled,
           NoteRequested, SetStatus, Typed, TypeOK
  <2>4. CASE \/ \E t \in Task : Put(t)
             \/ \E w \in Worker : ChildStep(w) \/ StopWorker(w)
             \/ ProcessEnds \/ UNCHANGED vars
    <3>1. UNCHANGED status
      BY <2>4
         DEF Put, ChildStep, ChildSubmits, ChildReturns, ChildRaises, StopWorker, ProcessEnds, vars
    <3>2. QED
      BY <3>1 DEF Known
  <2>5. QED
    BY <2>1, <2>2, <2>3, <2>4 DEF Next
<1>2. PICK t : Known' \subseteq Known \cup {t}
  BY <1>1
<1>3. QED
  BY <1>2, FS_AddElement, FS_Subset

LEMMA TallyStep ==
  ASSUME Typed, OneOwner, Tallies, [Next]_vars
  PROVE  Tallies'
<1> USE DEF store, workers, queued, outside, metrics
<1>0. /\ Typed' /\ faults' \in Nat /\ faults' >= faults /\ IsFiniteSet(Known')
      /\ status \in [Task -> Status] /\ submit \in [Task -> {"idle", "put", "queued", "error"}]
      /\ queue \in Seq(Task) /\ ctask \in [Canceller -> Task \cup {None}]
  BY TypedStep, FaultsGrow, KnownStep DEF Tallies, Typed, TypeOK
<1>1. ASSUME UNCHANGED <<pc, succeeded, failed>>,
             \A ends \in SUBSET Ends :
               With(ends)' \subseteq With(ends) /\ Gone(ends) \subseteq Gone(ends)'
      PROVE  Tallies'
  <2>1. \A ends \in SUBSET Ends : Counted(ends)' = Counted(ends)
    BY <1>1 DEF Counted, At
  <2>2. QED
    BY <1>0, <1>1, <2>1, TallyKept
<1>2. ASSUME NEW t \in Task, Submit(t) PROVE Tallies'
  <2>1. /\ UNCHANGED <<queue, cur, pc, succeeded, failed>> /\ submit[t] = "idle"
        /\ status'[t] = "PENDING"
        /\ \A u \in Task : u # t => submit'[u] = submit[u] /\ status'[u] = status[u]
    BY <1>0, <1>2 DEF Submit, SetStatus
  <2>2. \A ends \in SUBSET Ends : With(ends)' \subseteq With(ends)
    BY <2>1 DEF With, Ends
  <2>3. \A ends : Gone(ends) \subseteq Gone(ends)'
    BY <2>1 DEF Gone, With, Past, InQueue
  <2>4. QED
    BY <1>1, <2>1, <2>2, <2>3
<1>3. ASSUME NEW t \in Task, Put(t) PROVE Tallies'
  <2>1. /\ UNCHANGED <<status, cur, pc, succeeded, failed>> /\ submit[t] = "put"
        /\ \A u \in Task : u # t => submit'[u] = submit[u]
        /\ queue' = Append(queue, t)
    BY <1>0, <1>3 DEF Put
  <2>2. /\ Len(queue') = Len(queue) + 1 /\ Len(queue) \in Nat
        /\ \A i \in 1..Len(queue) : queue'[i] = queue[i]
        /\ queue'[Len(queue) + 1] = t
    BY <1>0, <2>1, QueueFacts
  <2>3. ASSUME NEW u \in Task, u # t, InQueue(u)' PROVE InQueue(u)
    BY <2>2, <2>3 DEF InQueue
  <2>4. \A ends : With(ends)' = With(ends) /\ Gone(ends) \subseteq Gone(ends)'
    BY <2>1, <2>3 DEF Gone, With, Past
  <2>5. QED
    BY <1>1, <2>1, <2>4
<1>4. CASE \/ \E w \in Worker : ChildStep(w) \/ StopWorker(w)
           \/ ProcessEnds \/ UNCHANGED vars
  <2>1. UNCHANGED <<status, submit, queue, cur, pc, succeeded, failed>>
    BY <1>4
       DEF ChildStep, ChildSubmits, ChildReturns, ChildRaises, StopWorker, ProcessEnds, vars
  <2>2. \A ends : With(ends)' = With(ends) /\ Gone(ends)' = Gone(ends)
    BY <2>1 DEF Gone, With, Past, InQueue
  <2>3. QED
    BY <1>1, <2>1, <2>2
<1>5. ASSUME NEW c \in Canceller, CancelStep(c) PROVE Tallies'
  <2>1. /\ UNCHANGED <<submit, queue, cur, pc, succeeded, failed>>
        /\ \A t \in Task : status'[t] \in {status[t], "CANCELLED"}
    BY <1>0, <1>5
       DEF CancelStep, RequestCancel, ReadPending, ReadRunning, MarkCancelled, NoteRequested,
           SetStatus
  <2>2. \A ends \in SUBSET Ends : With(ends)' \subseteq With(ends)
    BY <2>1 DEF With, Ends
  <2>3. \A ends : Gone(ends) \subseteq Gone(ends)'
    BY <2>1 DEF Gone, With, Past, InQueue
  <2>4. QED
    BY <1>1, <2>1, <2>2, <2>3
<1>6. QED
  BY <1>0, <1>2, <1>3, <1>4, <1>5, TallyWorks DEF Next

LEMMA TallyInit == Init => Tallies
<1> SUFFICES ASSUME Init PROVE Tallies
  OBVIOUS
<1>1. Known = {} /\ \A ends \in SUBSET Ends : With(ends) = {} /\ Gone(ends) = {}
  BY DEF Init, Known, With, Gone, Past, Ends
<1>2. \A place \in Releasing : At(place) = {}
  BY DEF Init, At, Releasing
<1>3. succeeded = 0 /\ failed = 0 /\ faults = 0
  BY DEF Init
<1>4. \A ends \in SUBSET Ends : Counted(ends) = 0
  BY <1>2, <1>3, FS_EmptySet DEF Counted, Releasing
<1>5. QED
  BY <1>1, <1>3, <1>4, FS_EmptySet DEF Tallies, Tally

(* The counters of GET /metrics agree with the records, for any number of  *)
(* tasks and workers and whatever is cancelled: every end a client can see *)
(* has been counted, but for one that has cost an append; and everything   *)
(* counted can be seen, but for what the cancel endpoint has covered up.   *)
THEOREM CountersAgree == Spec => []MetricsAgree
<1> DEFINE Inv == Typed /\ OneOwner /\ Tallies
<1>1. Init => Inv
  BY TypedInit, OwnerInit, TallyInit
<1>2. Inv /\ [Next]_vars => Inv'
  BY TypedStep, OwnerStep, TallyStep
<1>3. Inv => MetricsAgree
  <2> SUFFICES ASSUME Inv, NEW ends \in SUBSET Ends
               PROVE  /\ Cardinality(With(ends)) <= Counted(ends) + faults
                      /\ Counted(ends) <= Cardinality(With(ends \cup {"CANCELLED"}))
    BY DEF MetricsAgree
  <2>1. Tally(ends) /\ IsFiniteSet(Known) /\ Counted(ends) \in Nat
    BY CountedNat DEF Tallies, Typed, TypeOK
  <2>2. /\ Gone(ends) \subseteq With(ends \cup {"CANCELLED"})
        /\ With(ends \cup {"CANCELLED"}) \subseteq Known
    BY DEF Gone, With, Known, Ends
  <2>3. IsFiniteSet(With(ends \cup {"CANCELLED"})) /\ IsFiniteSet(Gone(ends))
    BY <2>1, <2>2, FS_Subset
  <2>4. /\ Cardinality(Gone(ends)) <= Cardinality(With(ends \cup {"CANCELLED"}))
        /\ Cardinality(Gone(ends)) \in Nat
        /\ Cardinality(With(ends \cup {"CANCELLED"})) \in Nat
    BY <2>2, <2>3, FS_Subset, FS_CardinalityType
  <2>5. QED
    BY <2>1, <2>4 DEF Tally
<1>4. QED
  BY <1>1, <1>2, <1>3, PTL DEF Spec

-----------------------------------------------------------------------------
(* Cancelled in time.  A task whose cancellation was registered before its  *)
(* worker had made its checks stays untouched, no worker gets past the     *)
(* checks with it, and it is not lost, until the append of its CANCELLED   *)
(* raises.                                                                 *)
Spared(t) ==
  /\ submit[t] # "idle" /\ Untouched(t)
  /\ \A w \in Worker : cur[w] = t => pc[w] \in Deciding
  /\ status[t] = "CANCELLED" \/ (status[t] = "PENDING" /\ Waiting(t))

Overrules(w) == DropCancelled(w) /\ AppendRaises

(* A step that writes nothing to the task but CANCELLED, and does not take *)
(* it away while it is PENDING.                                            *)
LEMMA SparedKept ==
  ASSUME NEW t, Spared(t), submit'[t] # "idle",
         attempt'[t] = attempt[t], prompts'[t] = prompts[t], result'[t] = result[t],
         \A w \in Worker : cur'[w] = t => pc'[w] \in Deciding,
         \/ status'[t] = "CANCELLED"
         \/ status'[t] = status[t] /\ (Waiting(t) => Waiting(t)')
  PROVE  Spared(t)'
BY DEF Spared, Untouched

LEMMA SparedHandler ==
  ASSUME Typed, NEW u \in Task, Spared(u), NEW t \in Task, Submit(t) \/ Put(t)
  PROVE  Spared(u)'
<1>1. submit[u] # "idle" /\ \A w \in Worker : cur[w] = u => pc[w] \in Deciding
  BY DEF Spared
<1>2. CASE Submit(t)
  <2>1. /\ UNCHANGED <<queue, cur, pc, attempt, prompts, result>>
        /\ u # t /\ submit'[u] = submit[u] /\ status'[u] = status[u]
    BY <1>1, <1>2 DEF Submit, SetStatus, workers, queued, generation, Typed, TypeOK
  <2>2. Waiting(u) => Waiting(u)'
    BY <1>1, <2>1 DEF Waiting, InQueue
  <2>3. QED
    BY <1>1, <2>1, <2>2, SparedKept
<1>3. CASE Put(t)
  <2>1. /\ UNCHANGED <<status, cur, pc, attempt, prompts, result>>
        /\ submit' = [submit EXCEPT ![t] = "queued"]
    BY <1>3 DEF Put, store, generation
  <2>2. InQueue(t)' /\ (InQueue(u) => InQueue(u)')
    <3>1. /\ Len(queue') = Len(queue) + 1 /\ Len(queue) \in Nat
          /\ \A i \in 1..Len(queue) : queue'[i] = queue[i]
          /\ queue'[Len(queue) + 1] = t
      BY <1>3, QueueFacts DEF Put, Typed, TypeOK
    <3>2. QED
      BY <3>1 DEF InQueue
  <2>3. Waiting(u) => Waiting(u)'
    BY <1>1, <2>1, <2>2 DEF Waiting, Typed, TypeOK
  <2>4. QED
    BY <1>1, <2>1, <2>3, SparedKept DEF Typed, TypeOK
<1>4. QED
  BY <1>2, <1>3

LEMMA SparedTake ==
  ASSUME Typed, NEW u \in Task, Spared(u), NEW w \in Worker, Take(w)
  PROVE  Spared(u)'
<1>1. /\ UNCHANGED <<status, submit, attempt, prompts, result>>
      /\ cur' = [cur EXCEPT ![w] = Head(queue)]
      /\ pc' = [pc EXCEPT ![w] = "check"]
      /\ cur[w] = None
  BY DEF Take, Goto, store, outside, generation, Typed, Shape, Idle
<1>2. /\ Head(queue) = queue[1] /\ Len(queue) \in Nat \ {0}
      /\ Len(queue') = Len(queue) - 1
      /\ \A i \in 1..(Len(queue) - 1) : queue'[i] = queue[i + 1]
  BY HeadTailProperties DEF Take, Typed, TypeOK
<1>3. ASSUME InQueue(u)
      PROVE  u = Head(queue) \/ InQueue(u)'
  <2>1. PICK i \in 1..Len(queue) : queue[i] = u
    BY <1>3 DEF InQueue
  <2>2. CASE i = 1
    BY <1>2, <2>1, <2>2
  <2>3. CASE i # 1
    <3>1. i - 1 \in 1..Len(queue') /\ queue'[i - 1] = u
      BY <1>2, <2>1, <2>3
    <3>2. QED
      BY <3>1 DEF InQueue
  <2>4. QED
    BY <2>2, <2>3
<1>4. /\ submit[u] # "idle"
      /\ \A v \in Worker : cur'[v] = u => pc'[v] \in Deciding
  BY <1>1 DEF Spared, Deciding, Typed, TypeOK
<1>5. Waiting(u) => Waiting(u)'
  BY <1>1, <1>3, <1>4, NoneAssumption DEF Waiting, Deciding, Typed, TypeOK
<1>6. QED
  BY <1>1, <1>4, <1>5, SparedKept

LEMMA SparedWorks ==
  ASSUME Typed, NEW u \in Task, u \in cancelled, Spared(u),
         NEW w \in Worker, WorkerStep(w) \/ ChildStep(w)
  PROVE  Spared(u)' \/ (Overrules(w) /\ u = cur[w])
<1> USE DEF Moves, Goto, TaskDone, SetStatus, store, queued, generation,
            metrics, workers, outside
<1>1. /\ submit[u] # "idle" /\ u # None
      /\ \A v \in Worker : cur[v] = u => pc[v] \in Deciding
  BY NoneAssumption DEF Spared
<1>2. CASE Take(w)
  BY <1>2, SparedTake
<1>3. CASE EnterGet(w) \/ LeaveLoop(w) \/ GetEmpty(w)
  <2>1. cur[w] = None /\ pc[w] \notin Deciding
    BY <1>3 DEF EnterGet, LeaveLoop, GetEmpty, Typed, Shape, Idle, Deciding
  <2>2. QED
    BY <1>1, <1>3, <2>1, SparedKept
       DEF EnterGet, LeaveLoop, GetEmpty, Waiting, InQueue, Typed, TypeOK
<1>4. CASE SkipCancelled(w)
  <2>1. /\ status[cur[w]] = "CANCELLED"
        /\ cur' = [cur EXCEPT ![w] = None]
        /\ \A v \in Worker : v # w => pc'[v] = pc[v]
        /\ UNCHANGED <<status, attempt, prompts, result, submit, queue>>
    BY <1>4 DEF SkipCancelled, Typed, TypeOK
  <2>2. u # cur[w] /\ Waiting(u) => Waiting(u)'
    BY <2>1 DEF Waiting, InQueue, Typed, TypeOK
  <2>3. \A v \in Worker : cur'[v] = u => pc'[v] \in Deciding
    BY <1>1, <2>1 DEF Typed, TypeOK
  <2>4. QED
    BY <1>1, <2>1, <2>2, <2>3, SparedKept
<1>5. CASE DropCancelled(w)
  <2>1. cur[w] \in Task
    BY <1>5 DEF DropCancelled, Typed, Shape, Idle
  <2>2. /\ status' = [status EXCEPT ![cur[w]] = "CANCELLED"]
        /\ \A v \in Worker : v # w => pc'[v] = pc[v] /\ cur'[v] = cur[v]
        /\ UNCHANGED <<attempt, prompts, result, submit, queue>>
        /\ AppendRaises \/ cur'[w] = None
        /\ cur'[w] \in {cur[w], None}
    BY <1>5 DEF DropCancelled, Typed, TypeOK
  <2>3. u # cur[w] /\ Waiting(u) => Waiting(u)'
    BY <2>2 DEF Waiting, InQueue
  <2>4. CASE u # cur[w] \/ cur'[w] = None
    <3>1. \A v \in Worker : cur'[v] = u => pc'[v] \in Deciding
      BY <1>1, <2>2, <2>4
    <3>2. QED
      BY <1>1, <2>1, <2>2, <2>3, <3>1, SparedKept DEF Typed, TypeOK
  <2>5. QED
    BY <1>5, <2>2, <2>4 DEF Overrules
<1>6. CASE PassStatusCheck(w)
  BY <1>1, <1>6, SparedKept
     DEF PassStatusCheck, Waiting, InQueue, Deciding, Typed, TypeOK
<1>7. CASE PassRegistry(w)
  <2>1. cur[w] # u
    BY <1>7 DEF PassRegistry, IsCancelled
  <2>2. QED
    BY <1>1, <1>7, <2>1, SparedKept
       DEF PassRegistry, Waiting, InQueue, Typed, TypeOK
<1>8. CASE \/ Start(w) \/ BeginAttempt(w) \/ Succeed(w) \/ Fail(w)
           \/ ChildSubmits(w) \/ NoAttempt(w) \/ Collect(w) \/ AttemptFails(w)
           \/ Backoff(w) \/ ReleaseSucceeded(w) \/ ReleaseFailed(w)
           \/ ChildReturns(w) \/ ChildRaises(w)
  <2>1. cur[w] \in Task /\ pc[w] \notin Deciding
    BY <1>8
       DEF Start, BeginAttempt, Succeed, Fail, ChildSubmits, NoAttempt, Collect,
           AttemptFails, Backoff, ReleaseSucceeded, ReleaseFailed,
           ChildReturns, ChildRaises, Typed, Shape, Idle, Deciding
  <2>2. cur[w] # u
    BY <1>1, <2>1
  <2>3. /\ UNCHANGED <<queue, submit>>
        /\ \A v \in Worker : v # w => pc'[v] = pc[v] /\ cur'[v] = cur[v]
        /\ cur'[w] \in {cur[w], None}
    BY <1>8, <2>1
       DEF Start, BeginAttempt, Succeed, Fail, ChildSubmits, NoAttempt, Collect,
           AttemptFails, Backoff, ReleaseSucceeded, ReleaseFailed,
           ChildReturns, ChildRaises, Typed, TypeOK
  <2>4. \A t \in Task : t # cur[w] =>
          /\ attempt'[t] = attempt[t] /\ prompts'[t] = prompts[t]
          /\ result'[t] = result[t] /\ status'[t] = status[t]
    BY <1>8, <2>1
       DEF Start, BeginAttempt, Succeed, Fail, ChildSubmits, NoAttempt, Collect,
           AttemptFails, Backoff, ReleaseSucceeded, ReleaseFailed,
           ChildReturns, ChildRaises, Typed, TypeOK
  <2>5. Waiting(u) => Waiting(u)'
    BY <2>2, <2>3 DEF Waiting, InQueue
  <2>6. \A v \in Worker : cur'[v] = u => pc'[v] \in Deciding
    BY <1>1, <2>2, <2>3
  <2>7. QED
    BY <1>1, <2>2, <2>3, <2>4, <2>5, <2>6, SparedKept
<1>9. QED
  BY <1>2, <1>3, <1>4, <1>5, <1>6, <1>7, <1>8 DEF WorkerStep, ChildStep

(* Every other step spares whom it finds spared, and a request that comes   *)
(* in time adds only such a task to `early`.                               *)
LEMMA SparedRequest ==
  ASSUME Typed, OneOwner, Fresh, NEW c \in Canceller, NEW t \in Task, RequestCancel(c, t)
  PROVE  /\ \A u : Spared(u) => Spared(u)'
         /\ \A u \in early' : u \in early \/ Spared(u)'
<1>1. /\ UNCHANGED <<status, submit, queue, cur, pc, attempt, prompts, result>>
      /\ status[t] # "ABSENT"
      /\ early' \subseteq early \cup {t}
      /\ t \in early' => Waiting(t) \/ t \in early
  BY DEF RequestCancel, store, workers, queued, generation
<1>2. \A u : Spared(u) => Spared(u)'
  BY <1>1 DEF Spared, Untouched, Waiting, InQueue
<1>3. ASSUME Waiting(t)
      PROVE  Spared(t)
  <2>1. Before(t) /\ submit[t] # "idle"
    BY <1>3, NoneAssumption
       DEF Waiting, Before, Deliberating, InQueue, OneOwner, OwnedOnlyOncePut
  <2>2. \A w \in Worker : cur[w] = t => pc[w] \in Deciding
    BY <1>3, NoneAssumption
       DEF Waiting, InQueue, OneOwner, HeldByOne, HeldNotQueued, OwnedOnlyOncePut
  <2>3. Untouched(t) /\ status[t] \in {"PENDING", "CANCELLED"}
    BY <1>1, <2>1 DEF Fresh, Untouched
  <2>4. QED
    BY <1>3, <2>1, <2>2, <2>3 DEF Spared
<1>4. QED
  BY <1>1, <1>2, <1>3

LEMMA SparedElse ==
  ASSUME Typed, NEW u \in Task, Spared(u),
         \/ \E w \in Worker : StopWorker(w)
         \/ \E c \in Canceller :
              ReadPending(c) \/ ReadRunning(c) \/ MarkCancelled(c) \/ NoteRequested(c)
         \/ ProcessEnds \/ UNCHANGED vars
  PROVE  Spared(u)'
<1> USE SparedKept DEF Waiting, InQueue, store, workers, queued, generation, outside
<1>1. submit[u] # "idle" /\ \A v \in Worker : cur[v] = u => pc[v] \in Deciding
  BY DEF Spared
<1>2. CASE \E w \in Worker : StopWorker(w)
  BY <1>1, <1>2 DEF StopWorker
<1>3. CASE \E c \in Canceller :
             ReadPending(c) \/ ReadRunning(c) \/ MarkCancelled(c) \/ NoteRequested(c)
  BY <1>1, <1>3
     DEF ReadPending, ReadRunning, MarkCancelled, NoteRequested, SetStatus, Typed, TypeOK
<1>4. CASE ProcessEnds \/ UNCHANGED vars
  BY <1>1, <1>4 DEF ProcessEnds, vars
<1>5. QED
  BY <1>2, <1>3, <1>4

-----------------------------------------------------------------------------
(* What appends that raise cost.  Toll is Harm with what is already certain *)
(* to become harm: a task that is no longer spared though it may yet look  *)
(* so, and one that has a result and whose worker is about to write FAILED. *)
Orphans == {t \in Task : submit[t] = "error"}
Overruled == {t \in early : ~Spared(t)}
Mixed ==
  {t \in Task : /\ result[t] # None
                /\ status[t] = "FAILED" \/ \E w \in Worker : cur[w] = t /\ pc[w] = "fail"}

Toll == ({"orphan"} \X Orphans) \cup ({"dead"} \X At("dead"))
          \cup ({"overruled"} \X Overruled) \cup ({"mixed"} \X Mixed)

Paid == IsFiniteSet(Toll) /\ Cardinality(Toll) <= faults

(* At most one more thing is harmed, and only by an append that raises.    *)
LEMMA PaidKept ==
  ASSUME Typed, Paid, faults' \in Nat, faults' >= faults,
         NEW x,
         \/ Toll' \subseteq Toll
         \/ Toll' \subseteq Toll \cup {x} /\ faults' = faults + 1
  PROVE  Paid'
<1>1. IsFiniteSet(Toll) /\ Cardinality(Toll) \in Nat /\ Cardinality(Toll) <= faults /\ faults \in Nat
  BY FS_CardinalityType, MaxLogFaultsAssumption DEF Paid, Typed, TypeOK
<1>2. CASE Toll' \subseteq Toll
  <2>1. IsFiniteSet(Toll') /\ Cardinality(Toll') <= Cardinality(Toll)
    BY <1>1, <1>2, FS_Subset
  <2>2. Cardinality(Toll') \in Nat
    BY <2>1, FS_CardinalityType
  <2>3. QED
    BY <1>1, <2>1, <2>2 DEF Paid
<1>3. CASE Toll' \subseteq Toll \cup {x} /\ faults' = faults + 1
  <2>1. /\ IsFiniteSet(Toll \cup {x})
        /\ \/ Cardinality(Toll \cup {x}) = Cardinality(Toll)
           \/ Cardinality(Toll \cup {x}) = Cardinality(Toll) + 1
    BY <1>1, FS_AddElement
  <2>2. IsFiniteSet(Toll') /\ Cardinality(Toll') <= Cardinality(Toll \cup {x})
    BY <1>3, <2>1, FS_Subset
  <2>3. Cardinality(Toll') \in Nat
    BY <2>2, FS_CardinalityType
  <2>4. QED
    BY <1>1, <1>3, <2>1, <2>2, <2>3 DEF Paid
<1>4. QED
  BY <1>2, <1>3

LEMMA TollWorks ==
  ASSUME Typed, OneOwner, Fresh, Story, Paid, faults' \in Nat, faults' >= faults,
         NEW w \in Worker, WorkerStep(w)
  PROVE  Paid'
<1> USE DEF Moves, Goto, SetStatus, SetError, store, queued, generation, metrics, workers, outside
<1>1. /\ cur \in [Worker -> Task \cup {None}] /\ pc \in [Worker -> Place]
      /\ status \in [Task -> Status] /\ result \in [Task -> Task \cup {None}]
      /\ early \subseteq cancelled /\ cancelled \subseteq Task
      /\ pc[w] \notin Idle \cup {"dead"} => cur[w] \in Task
      /\ cur[w] # None => cur[w] \in Task
  BY DEF Typed, TypeOK, Shape
<1>2. PICK mine : mine = cur[w]  OBVIOUS
<1>3. /\ \A t \in Task : t # mine => status'[t] = status[t]
      /\ \A v \in Worker : v # w => pc'[v] = pc[v] /\ cur'[v] = cur[v]
      /\ UNCHANGED <<submit, early>>
  BY <1>2, OwnTaskOnly
<1>4. Orphans' = Orphans
  BY <1>3 DEF Orphans
<1>5. Overruled' \subseteq Overruled \cup (IF Overrules(w) THEN {mine} ELSE {})
  <2>1. ASSUME NEW t \in early, Spared(t) PROVE Spared(t)' \/ (Overrules(w) /\ t = mine)
    BY <1>1, <1>2, <2>1, SparedWorks
  <2>2. QED
    BY <1>3, <2>1 DEF Overruled
<1>6. At("dead")' \subseteq
        At("dead") \cup (IF (Start(w) \/ Fail(w)) /\ AppendRaises THEN {w} ELSE {})
  <2>1. pc'[w] = "dead" => (Start(w) \/ Fail(w)) /\ AppendRaises
    BY <1>1
       DEF WorkerStep, EnterGet, LeaveLoop, GetEmpty, Take, SkipCancelled, PassStatusCheck,
           DropCancelled, PassRegistry, Start, BeginAttempt, NoAttempt, Collect, AttemptFails,
           Backoff, Succeed, Fail, ReleaseSucceeded, ReleaseFailed
  <2>2. QED
    BY <1>3, <2>1 DEF At
<1>7. Mixed' \subseteq Mixed \cup (IF Succeed(w) /\ AppendRaises THEN {mine} ELSE {})
  <2> SUFFICES ASSUME NEW t \in Task, result'[t] # None,
                      \/ status'[t] = "FAILED"
                      \/ \E v \in Worker : cur'[v] = t /\ pc'[v] = "fail"
               PROVE  t \in Mixed \/ (Succeed(w) /\ AppendRaises /\ t = mine)
    BY DEF Mixed
  <2>1. \A u \in Task : u # mine => result'[u] = result[u]
    BY <1>1, <1>2
       DEF WorkerStep, EnterGet, LeaveLoop, GetEmpty, Take, SkipCancelled, PassStatusCheck,
           DropCancelled, PassRegistry, Start, BeginAttempt, NoAttempt, Collect, AttemptFails,
           Backoff, Succeed, Fail, ReleaseSucceeded, ReleaseFailed
  <2>2. pc'[w] = "fail" => cur'[w] = mine
    BY <1>1, <1>2
       DEF WorkerStep, EnterGet, LeaveLoop, GetEmpty, Take, SkipCancelled, PassStatusCheck,
           DropCancelled, PassRegistry, Start, BeginAttempt, NoAttempt, Collect, AttemptFails,
           Backoff, Succeed, Fail, ReleaseSucceeded, ReleaseFailed
  <2>3. CASE t # mine
    <3>1. result[t] # None
      BY <2>1, <2>3
    <3>2. CASE status'[t] = "FAILED"
      BY <1>3, <2>3, <3>1, <3>2 DEF Mixed
    <3>3. CASE \E v \in Worker : cur'[v] = t /\ pc'[v] = "fail"
      BY <1>3, <2>2, <2>3, <3>1, <3>3 DEF Mixed
    <3>4. QED
      BY <3>2, <3>3
  <2>4. CASE t = mine
    <3>1. \A v \in Worker : v # w => cur[v] # mine
      BY <1>2, <2>4, NoneAssumption DEF OneOwner, HeldByOne
    <3>2. status'[mine] = "FAILED" \/ pc'[w] = "fail"
      BY <1>3, <2>4, <3>1
    <3>3. CASE Succeed(w)
      BY <1>1, <1>2, <2>4, <3>2, <3>3 DEF Succeed, Idle
    <3>4. CASE Fail(w)
      <4>1. result[mine] # None /\ pc[w] = "fail"
        BY <2>4, <3>4 DEF Fail
      <4>2. QED
        BY <1>2, <2>4, <4>1 DEF Mixed
    <3>5. CASE Start(w) \/ NoAttempt(w) \/ AttemptFails(w) \/ Backoff(w)
      <4>1. /\ pc[w] \in Deliberating \cup (Working \ {"fail"}) /\ result'[mine] = result[mine]
            /\ mine # None
        BY <1>1, <1>2, <2>4, <3>5, NoneAssumption
           DEF Start, NoAttempt, AttemptFails, Backoff, Deliberating, Working
      <4>2. result[mine] = None
        BY <1>2, <4>1 DEF Story, Telling, Plain
      <4>3. QED
        BY <2>4, <4>1, <4>2
    <3>6. CASE \/ EnterGet(w) \/ LeaveLoop(w) \/ GetEmpty(w) \/ Take(w) \/ SkipCancelled(w)
               \/ PassStatusCheck(w) \/ PassRegistry(w) \/ BeginAttempt(w) \/ Collect(w)
               \/ ReleaseSucceeded(w) \/ ReleaseFailed(w)
      <4>1. UNCHANGED <<status, result>> /\ pc'[w] # "fail"
        BY <1>1, <3>6
           DEF EnterGet, LeaveLoop, GetEmpty, Take, SkipCancelled, PassStatusCheck, PassRegistry,
               BeginAttempt, Collect, ReleaseSucceeded, ReleaseFailed
      <4>2. QED
        BY <2>4, <3>2, <4>1 DEF Mixed
    <3>7. CASE DropCancelled(w)
      <4>1. status'[mine] = "CANCELLED" /\ pc'[w] # "fail"
        BY <1>1, <1>2, <2>4, <3>7 DEF DropCancelled
      <4>2. QED
        BY <3>2, <4>1
    <3>8. QED
      BY <3>3, <3>4, <3>5, <3>6, <3>7 DEF WorkerStep
  <2>5. QED
    BY <2>3, <2>4
<1>8. AppendRaises => faults' = faults + 1
  BY DEF AppendRaises
<1>9. /\ Overrules(w) => pc[w] = "registry"
      /\ Start(w) => pc[w] = "start"
      /\ Fail(w) => pc[w] = "fail"
      /\ Succeed(w) => pc[w] = "succeed"
      /\ Overrules(w) => AppendRaises
  BY DEF Overrules, DropCancelled, Start, Fail, Succeed
<1>10. CASE Overrules(w)
  <2>1. Toll' \subseteq Toll \cup {<<"overruled", mine>>}
    BY <1>4, <1>5, <1>6, <1>7, <1>9, <1>10 DEF Toll
  <2>2. QED
    BY <1>8, <1>9, <1>10, <2>1, PaidKept
<1>11. CASE (Start(w) \/ Fail(w)) /\ AppendRaises
  <2>1. Toll' \subseteq Toll \cup {<<"dead", w>>}
    BY <1>4, <1>5, <1>6, <1>7, <1>9, <1>11 DEF Toll
  <2>2. QED
    BY <1>8, <1>11, <2>1, PaidKept
<1>12. CASE Succeed(w) /\ AppendRaises
  <2>1. Toll' \subseteq Toll \cup {<<"mixed", mine>>}
    BY <1>4, <1>5, <1>6, <1>7, <1>9, <1>12 DEF Toll
  <2>2. QED
    BY <1>8, <1>12, <2>1, PaidKept
<1>13. CASE /\ ~Overrules(w) /\ ~((Start(w) \/ Fail(w)) /\ AppendRaises)
            /\ ~(Succeed(w) /\ AppendRaises)
  <2>1. Toll' \subseteq Toll
    BY <1>4, <1>5, <1>6, <1>7, <1>13 DEF Toll
  <2>2. QED
    BY <2>1, PaidKept
<1>14. QED
  BY <1>10, <1>11, <1>12, <1>13

LEMMA PaidStep ==
  ASSUME Typed, OneOwner, Fresh, Story, Paid, [Next]_vars
  PROVE  Paid'
<1> USE DEF store, workers, queued, outside
<1>0. /\ faults' \in Nat /\ faults' >= faults
      /\ status \in [Task -> Status] /\ submit \in [Task -> {"idle", "put", "queued", "error"}]
      /\ early \subseteq cancelled /\ cancelled \subseteq Task
      /\ ctask \in [Canceller -> Task \cup {None}]
  BY FaultsGrow DEF Typed, TypeOK
<1>1. ASSUME \A t \in early' : t \in early \/ Spared(t)',
             \A t \in early : Spared(t) => Spared(t)'
      PROVE  Overruled' \subseteq Overruled
  BY <1>1 DEF Overruled
<1>2. ASSUME NEW t \in Task, Submit(t) PROVE Paid'
  <2>1. /\ UNCHANGED <<early, result, cur, pc>> /\ submit[t] = "idle"
        /\ \A u \in Task : u # t => submit'[u] = submit[u] /\ status'[u] = status[u]
        /\ status'[t] = "PENDING"
        /\ submit'[t] = "put" \/ (submit'[t] = "error" /\ faults' = faults + 1)
    BY <1>0, <1>2 DEF Submit, SetStatus, AppendRaises
  <2>2. Overruled' \subseteq Overruled
    BY <1>0, <1>1, <1>2, <2>1, SparedHandler
  <2>3. At("dead")' = At("dead") /\ Mixed' \subseteq Mixed
    BY <2>1 DEF At, Mixed
  <2>4. Orphans' \subseteq Orphans \cup (IF faults' = faults + 1 THEN {t} ELSE {})
    <3>1. submit'[t] = "error" => faults' = faults + 1
      BY <2>1
    <3>2. QED
      BY <2>1, <3>1 DEF Orphans
  <2>5. CASE faults' = faults + 1
    <3>1. Toll' \subseteq Toll \cup {<<"orphan", t>>}
      BY <2>2, <2>3, <2>4 DEF Toll
    <3>2. QED
      BY <1>0, <2>5, <3>1, PaidKept
  <2>6. CASE faults' # faults + 1
    <3>1. Toll' \subseteq Toll
      BY <2>2, <2>3, <2>4, <2>6 DEF Toll
    <3>2. QED
      BY <1>0, <3>1, PaidKept
  <2>7. QED
    BY <2>5, <2>6
<1>3. ASSUME NEW t \in Task, Put(t) PROVE Paid'
  <2>1. /\ UNCHANGED <<status, early, result, cur, pc>> /\ submit'[t] = "queued"
        /\ \A u \in Task : u # t => submit'[u] = submit[u]
    BY <1>0, <1>3 DEF Put
  <2>2. Overruled' \subseteq Overruled
    BY <1>0, <1>1, <1>3, <2>1, SparedHandler
  <2>3. At("dead")' = At("dead") /\ Mixed' = Mixed /\ Orphans' \subseteq Orphans
    BY <2>1 DEF At, Mixed, Orphans
  <2>4. Toll' \subseteq Toll
    BY <2>2, <2>3 DEF Toll
  <2>5. QED
    BY <1>0, <2>4, PaidKept
<1>4. ASSUME NEW w \in Worker, ChildStep(w) PROVE Paid'
  <2>1. UNCHANGED <<submit, status, early, result, cur, pc>>
    BY <1>4 DEF ChildStep, ChildSubmits, ChildReturns, ChildRaises
  <2>2. \A t \in early : Spared(t) => Spared(t)'
    <3>1. ~Overrules(w)
      <4>1. pc[w] = "join"
        BY <1>4
           DEF ChildStep, ChildSubmits, ChildReturns, ChildRaises, Typed, TypeOK, Shape
      <4>2. QED
        BY <4>1 DEF Overrules, DropCancelled
    <3>2. QED
      BY <1>0, <1>4, <3>1, SparedWorks
  <2>3. Toll' \subseteq Toll
    BY <1>1, <2>1, <2>2 DEF Toll, At, Mixed, Orphans
  <2>4. QED
    BY <1>0, <2>3, PaidKept
<1>5. CASE \/ \E w \in Worker : StopWorker(w)
           \/ ProcessEnds \/ UNCHANGED vars
  <2>1. UNCHANGED <<submit, status, early, result, cur, pc>>
    BY <1>5 DEF StopWorker, ProcessEnds, vars
  <2>2. \A t \in early : Spared(t) => Spared(t)'
    BY <1>0, <1>5, SparedElse
  <2>3. Toll' \subseteq Toll
    BY <1>1, <2>1, <2>2 DEF Toll, At, Mixed, Orphans
  <2>4. QED
    BY <1>0, <2>3, PaidKept
<1>6. ASSUME NEW c \in Canceller, CancelStep(c) PROVE Paid'
  <2>1. /\ UNCHANGED <<submit, result, cur, pc>>
        /\ \A t \in Task : status'[t] \in {status[t], "CANCELLED"}
    BY <1>0, <1>6
       DEF CancelStep, RequestCancel, ReadPending, ReadRunning, MarkCancelled, NoteRequested,
           SetStatus
  <2>2. Overruled' \subseteq Overruled
    <3>1. CASE \E t \in Task : RequestCancel(c, t)
      <4>1. PICK t \in Task : RequestCancel(c, t)  BY <3>1
      <4>2. /\ \A u : Spared(u) => Spared(u)'
            /\ \A u \in early' : u \in early \/ Spared(u)'
        BY <4>1, SparedRequest
      <4>3. QED
        BY <1>1, <4>2
    <3>2. CASE ReadPending(c) \/ ReadRunning(c) \/ MarkCancelled(c) \/ NoteRequested(c)
      <4>1. UNCHANGED early
        BY <3>2 DEF ReadPending, ReadRunning, MarkCancelled, NoteRequested
      <4>2. \A t \in early : Spared(t) => Spared(t)'
        BY <1>0, <3>2, SparedElse
      <4>3. QED
        BY <1>1, <4>1, <4>2
    <3>3. QED
      BY <1>6, <3>1, <3>2 DEF CancelStep
  <2>3. Mixed' \subseteq Mixed /\ At("dead")' = At("dead") /\ Orphans' = Orphans
    BY <2>1 DEF Mixed, At, Orphans
  <2>4. Toll' \subseteq Toll
    BY <2>2, <2>3 DEF Toll
  <2>5. QED
    BY <1>0, <2>4, PaidKept
<1>7. QED
  BY <1>0, <1>2, <1>3, <1>4, <1>5, <1>6, TollWorks DEF Next

LEMMA PaidInit == Init => Paid
<1> SUFFICES ASSUME Init PROVE Paid
  OBVIOUS
<1>1. Orphans = {} /\ Overruled = {} /\ Mixed = {} /\ At("dead") = {}
  BY DEF Init, Orphans, Overruled, Mixed, At
<1>2. Toll = {}
  BY <1>1 DEF Toll
<1>3. QED
  BY <1>2, FS_EmptySet DEF Paid, Init

LEMMA HarmIsToll ==
  ASSUME Paid, faults \in Nat
  PROVE  FaultsArePaid
<1>1. \A t \in early : Spared(t) => Prevented(t)
  BY DEF Spared, Untouched, Prevented
<1>2. Harm \subseteq Toll
  BY <1>1 DEF Harm, Toll, Orphans, Overruled, Mixed, At
<1>3. IsFiniteSet(Toll) /\ Cardinality(Toll) \in Nat /\ Cardinality(Toll) <= faults
  BY FS_CardinalityType DEF Paid
<1>4. IsFiniteSet(Harm) /\ Cardinality(Harm) <= Cardinality(Toll) /\ Cardinality(Harm) \in Nat
  BY <1>2, <1>3, FS_Subset, FS_CardinalityType
<1>5. QED
  BY <1>3, <1>4 DEF FaultsArePaid

(* However often the task log cannot be written and wherever it happens,    *)
(* each failing append does at most one kind of harm to one task or one    *)
(* worker: TaskStore changing memory before it appends, the swallowed      *)
(* exception of the cancellation check and the two unprotected appends of  *)
(* the worker add up to no more.                                           *)
THEOREM HarmIsPaidFor == Spec => []FaultsArePaid
<1> DEFINE Inv == Typed /\ OneOwner /\ Fresh /\ Story /\ Paid
<1>1. Init => Inv
  BY TypedInit, OwnerInit, FreshInit, StoryInit, PaidInit
<1>2. Inv /\ [Next]_vars => Inv'
  BY TypedStep, OwnerStep, FreshStep, StoryStep, PaidStep
<1>3. Inv => FaultsArePaid
  BY HarmIsToll, MaxLogFaultsAssumption DEF Typed, TypeOK
<1>4. QED
  BY <1>1, <1>2, <1>3, PTL DEF Spec

(* Every abandoned task points at a harm of its own: itself as an orphan,  *)
(* or the dead worker that still holds it.                                 *)
Scapegoat(t) ==
  IF submit[t] = "error" THEN <<"orphan", t>>
                         ELSE <<"dead", CHOOSE w \in Worker : cur[w] = t>>

LEMMA AbandonedByHarm ==
  ASSUME Story, Kept, Typed, NEW t \in Abandoned
  PROVE  /\ Scapegoat(t) \in Harm
         /\ submit[t] # "error" =>
              \E w \in Worker : cur[w] = t /\ Scapegoat(t) = <<"dead", w>>
<1>0. t \in Task /\ submit[t] \in {"idle", "put", "queued", "error"}
  BY DEF Abandoned, Typed, TypeOK
<1>1. submit[t] # "idle"
  BY <1>0 DEF Abandoned, Story, Unclaimed
<1>5. \A w \in Worker : pc[w] = "dead" => <<"dead", w>> \in Harm
  BY DEF Harm
<1>2. CASE submit[t] = "error"
  <2>1. <<"orphan", t>> \in Harm
    BY <1>0, <1>2 DEF Harm
  <2>2. QED
    BY <1>2, <2>1 DEF Scapegoat
<1>3. CASE submit[t] = "queued"
  <2>1. Owned(t)
    BY <1>0, <1>3 DEF Kept, Abandoned, Terminal
  <2>2. PICK v \in Worker : cur[v] = t
    BY <2>1 DEF Owned, Abandoned
  <2> DEFINE w == CHOOSE x \in Worker : cur[x] = t
  <2>3. w \in Worker /\ cur[w] = t
    BY <2>2
  <2>4. pc[w] = "dead"
    BY <2>3 DEF Abandoned, Holder
  <2>5. <<"dead", w>> \in Harm
    BY <1>5, <2>3, <2>4
  <2>6. Scapegoat(t) = <<"dead", w>>
    BY <1>3 DEF Scapegoat
  <2>7. QED
    BY <2>3, <2>5, <2>6
<1>4. QED
  BY <1>0, <1>1, <1>2, <1>3 DEF Abandoned

(* Two abandoned tasks never share one.                                    *)
LEMMA HarmOfItsOwn ==
  ASSUME Story, Kept, Typed, NEW t \in Abandoned, NEW u \in Abandoned,
         Scapegoat(t) = Scapegoat(u)
  PROVE  t = u
<1>1. CASE submit[t] = "error" /\ submit[u] = "error"
  BY <1>1 DEF Scapegoat
<1>2. CASE submit[t] = "error" /\ submit[u] # "error"
  <2>1. Scapegoat(t)[1] = "orphan" /\ Scapegoat(u)[1] = "dead"
    BY <1>2 DEF Scapegoat
  <2>2. QED
    BY <2>1
<1>3. CASE submit[t] # "error" /\ submit[u] = "error"
  <2>1. Scapegoat(u)[1] = "orphan" /\ Scapegoat(t)[1] = "dead"
    BY <1>3 DEF Scapegoat
  <2>2. QED
    BY <2>1
<1>4. CASE submit[t] # "error" /\ submit[u] # "error"
  <2>1. PICK v \in Worker : cur[v] = t /\ Scapegoat(t) = <<"dead", v>>
    BY <1>4, AbandonedByHarm
  <2>2. PICK w \in Worker : cur[w] = u /\ Scapegoat(u) = <<"dead", w>>
    BY <1>4, AbandonedByHarm
  <2>3. <<"dead", v>> = <<"dead", w>>
    BY <2>1, <2>2
  <2>4. v = w
    BY <2>3
  <2>5. QED
    BY <2>1, <2>2, <2>4
<1>5. QED
  BY <1>1, <1>2, <1>3, <1>4

LEMMA AbandonedArePaid ==
  ASSUME Story, Kept, Typed, FaultsArePaid
  PROVE  NoTaskLost
<1> DEFINE f == [t \in Abandoned |-> Scapegoat(t)]
<1>1. f \in Injection(Abandoned, Harm)
  <2>1. f \in [Abandoned -> Harm]
    BY AbandonedByHarm
  <2>2. \A t, u \in Abandoned : f[t] = f[u] => t = u
    BY HarmOfItsOwn
  <2>3. QED
    BY <2>1, <2>2 DEF Injection, IsInjective
<1>2. IsFiniteSet(Harm) /\ Cardinality(Harm) \in Nat /\ Cardinality(Harm) <= faults
  BY FS_CardinalityType DEF FaultsArePaid
<1>3. IsFiniteSet(Abandoned) /\ Cardinality(Abandoned) <= Cardinality(Harm)
  BY <1>1, <1>2, FS_Injection
<1>4. Cardinality(Abandoned) \in Nat /\ faults \in Nat
  BY <1>3, FS_CardinalityType, MaxLogFaultsAssumption DEF Typed, TypeOK
<1>5. QED
  BY <1>2, <1>3, <1>4 DEF NoTaskLost

(* A task that is shown PENDING or RUNNING is with its submit handler, in   *)
(* the queue or with a living worker, but for at most one task per failed  *)
(* append: the orphans of POST /submit and the tasks of the workers that   *)
(* died at Start.  No other path through Worker._loop strands a task, of   *)
(* any number, whoever cancels and however workers are stopped.            *)
THEOREM TasksAreKept == Spec => []NoTaskLost
<1> DEFINE Inv == Typed /\ OneOwner /\ Fresh /\ Story /\ Paid /\ Unlost
<1>1. Init => Inv
  BY TypedInit, OwnerInit, FreshInit, StoryInit, PaidInit, LossInit
<1>2. Inv /\ [Next]_vars => Inv'
  BY TypedStep, OwnerStep, FreshStep, StoryStep, PaidStep, LossStep
<1>3. Inv => NoTaskLost
  <2>1. Typed => faults \in Nat
    BY MaxLogFaultsAssumption DEF Typed, TypeOK
  <2>2. QED
    BY <2>1, HarmIsToll, AbandonedArePaid DEF Unlost
<1>4. QED
  BY <1>1, <1>2, <1>3, PTL DEF Spec

(* POST /task/{id}/cancel in time: while the task log can be written, a     *)
(* task whose cancellation is registered before a worker has made its two  *)
(* checks never runs, never reaches ComfyUI, and ends CANCELLED or is still *)
(* waiting for the worker that will drop it.                               *)
THEOREM EarlyCancelIsReliable ==
  ASSUME MaxLogFaults = 0
  PROVE  Spec => []CancelBeforeStart
<1>1. TypeOK /\ FaultsArePaid => CancelBeforeStart
  <2> SUFFICES ASSUME TypeOK, FaultsArePaid, NEW t \in early, ~Prevented(t)
               PROVE  FALSE
    BY DEF CancelBeforeStart
  <2>1. faults = 0
    BY DEF TypeOK
  <2>2. <<"overruled", t>> \in Harm
    BY DEF Harm
  <2>3. IsFiniteSet(Harm) /\ Cardinality(Harm) \in Nat /\ Cardinality(Harm) <= 0
    BY <2>1, FS_CardinalityType DEF FaultsArePaid
  <2>4. Harm = {}
    BY <2>3, FS_EmptySet
  <2>5. QED
    BY <2>2, <2>4
<1>2. QED
  BY <1>1, TypeCorrect, HarmIsPaidFor, PTL

-----------------------------------------------------------------------------
(* What a worker still has to do for its task: three steps for each attempt *)
(* the budget leaves it, and the steps from its place to the end of a pass. *)
(* It is the measure that a proof of Progress would descend on; progress   *)
(* itself, a matter of fairness, is left to the runs.                      *)
Weight ==
  [check |-> 6, registry |-> 5, start |-> 4, join |-> 5, backoff |-> 4, attempt |-> 3,
   succeed |-> 2, fail |-> 1, countSucceeded |-> 0, countFailed |-> 0, dead |-> 0]

Left(t) == Budget(retryLimit[t]) - attempt[t]
Rank(w) == 3 * Left(cur[w]) + Weight[pc[w]]

Holding == Place \ Idle

Descends(w) ==
  cur[w] # None =>
    /\ Rank(w) \in Nat
    /\ cur[w] = cur'[w] =>
         IF pc'[w] = pc[w] THEN Rank(w)' = Rank(w) ELSE Rank(w)' < Rank(w)
    /\ cur[w] # cur'[w] => cur'[w] = None

LEMMA RankFacts ==
  ASSUME Typed, Retries, NEW w \in Worker, cur[w] # None
  PROVE  /\ cur[w] \in Task /\ pc[w] \in Holding /\ Weight[pc[w]] \in 0..6
         /\ Left(cur[w]) \in Nat /\ Rank(w) \in Nat
         /\ AttemptsLeft(cur[w]) /\ pc[w] = "attempt" => Left(cur[w]) > 0
<1>1. /\ cur[w] \in Task /\ pc[w] \in Holding
      /\ attempt[cur[w]] \in Nat /\ retryLimit[cur[w]] \in Int \cup {Malformed}
  BY DEF Typed, TypeOK, Shape, Holding
<1>2. Weight[pc[w]] \in 0..6
  BY <1>1 DEF Holding, Place, Idle, Deciding, Working, Releasing, Weight
<1>3. Budget(retryLimit[cur[w]]) \in Nat /\ attempt[cur[w]] <= Budget(retryLimit[cur[w]])
  BY <1>1, BudgetFacts DEF Retries, AttemptBudget
<1>4. Left(cur[w]) \in Nat
  BY <1>1, <1>3 DEF Left
<1>5. Rank(w) \in Nat
  BY <1>2, <1>4 DEF Rank
<1>6. ASSUME AttemptsLeft(cur[w]), pc[w] = "attempt"
      PROVE  Left(cur[w]) > 0
  <2>1. retryLimit[cur[w]] # Malformed
    BY <1>1, <1>6, MalformedAssumption DEF Retries, RetryShape
  <2>2. QED
    BY <1>1, <1>6, <2>1 DEF AttemptsLeft, Left, Budget
<1>7. QED
  BY <1>1, <1>2, <1>4, <1>5, <1>6

LEMMA RankKept ==
  ASSUME NEW v \in Worker, cur[v] # None => Rank(v) \in Nat,
         cur'[v] = cur[v], pc'[v] = pc[v],
         NEW t, t = cur[v], t # None => attempt'[t] = attempt[t] /\ retryLimit'[t] = retryLimit[t]
  PROVE  Descends(v)
BY DEF Descends, Rank, Left

LEMMA RankWorks ==
  ASSUME Typed, Retries, NEW w \in Worker, WorkerStep(w), cur[w] # None
  PROVE  Descends(w)
<1> USE DEF Moves, Goto, store, queued, generation, metrics, workers, outside
<1>1. /\ cur[w] \in Task /\ pc[w] \in Holding /\ Rank(w) \in Nat
      /\ Left(cur[w]) \in Nat
  BY RankFacts
<1>2. /\ cur \in [Worker -> Task \cup {None}] /\ pc \in [Worker -> Place]
      /\ attempt \in [Task -> Nat]
  BY DEF Typed, TypeOK
<1>3. PICK mine \in Task : mine = cur[w]
  BY <1>1
<1>4. CASE UNCHANGED <<attempt, retryLimit, cur>> /\ pc'[w] \in Holding
           /\ Weight[pc'[w]] < Weight[pc[w]]
  <2>1. Left(mine)' = Left(mine)
    BY <1>3, <1>4 DEF Left
  <2>2. Weight[pc'[w]] \in Int /\ Weight[pc[w]] \in Int
    BY <1>1, <1>4 DEF Holding, Place, Idle, Deciding, Working, Releasing, Weight
  <2>3. QED
    BY <1>1, <1>3, <1>4, <2>1, <2>2 DEF Descends, Rank
<1>5. CASE cur' = [cur EXCEPT ![w] = None]
  BY <1>1, <1>2, <1>5, NoneAssumption DEF Descends
<1>6. CASE EnterGet(w) \/ LeaveLoop(w) \/ GetEmpty(w) \/ Take(w)
  BY <1>1, <1>6 DEF EnterGet, LeaveLoop, GetEmpty, Take, Holding, Idle
<1>7. CASE SkipCancelled(w) \/ ReleaseSucceeded(w) \/ ReleaseFailed(w)
  BY <1>5, <1>7 DEF SkipCancelled, ReleaseSucceeded, ReleaseFailed, TaskDone
<1>8. CASE PassStatusCheck(w) \/ PassRegistry(w) \/ NoAttempt(w) \/ Backoff(w)
  BY <1>2, <1>4, <1>8
     DEF PassStatusCheck, PassRegistry, NoAttempt, Backoff, Weight, Holding, Place, Idle,
         Deciding, Working, Releasing
<1>9. CASE DropCancelled(w) \/ Fail(w)
  BY <1>2, <1>4, <1>5, <1>9
     DEF DropCancelled, Fail, TaskDone, Weight, Holding, Place, Idle, Deciding, Working, Releasing
<1>10. CASE Start(w) \/ Succeed(w)
  BY <1>2, <1>4, <1>10
     DEF Start, Succeed, Weight, Holding, Place, Idle, Deciding, Working, Releasing
<1>11. CASE Collect(w) \/ AttemptFails(w)
  BY <1>2, <1>4, <1>11
     DEF Collect, AttemptFails, Weight, Holding, Place, Idle, Deciding, Working, Releasing
<1>12. CASE BeginAttempt(w)
  <2>1. /\ pc[w] = "attempt" /\ pc'[w] = "join" /\ cur' = cur /\ retryLimit' = retryLimit
        /\ attempt'[mine] = attempt[mine] + 1 /\ attempt[mine] \in Nat
    BY <1>2, <1>3, <1>12 DEF BeginAttempt
  <2>2. Left(mine)' = Left(mine) - 1
    <3>1. Budget(retryLimit[mine]) \in Nat
      BY <1>3, BudgetFacts DEF Typed, TypeOK
    <3>2. Budget(retryLimit[mine])' = Budget(retryLimit[mine])
      BY <2>1
    <3>3. QED
      BY <2>1, <3>1, <3>2 DEF Left
  <2>3. Weight["attempt"] = 3 /\ Weight["join"] = 5
    BY DEF Weight
  <2>4. Rank(w)' = Rank(w) - 1
    BY <1>1, <1>3, <2>1, <2>2, <2>3 DEF Rank
  <2>5. QED
    BY <1>1, <2>1, <2>4 DEF Descends
<1>13. QED
  BY <1>6, <1>7, <1>8, <1>9, <1>10, <1>11, <1>12 DEF WorkerStep

(* The limit and the attempts of a task in hand are its worker's business. *)
LEMMA RankOfOthers ==
  ASSUME Typed, OneOwner, [Next]_vars, NEW v \in Worker, cur[v] # None, ~WorkerStep(v)
  PROVE  /\ cur'[v] = cur[v] /\ pc'[v] = pc[v]
         /\ attempt'[cur[v]] = attempt[cur[v]] /\ retryLimit'[cur[v]] = retryLimit[cur[v]]
<1> USE DEF store, workers, queued, outside
<1>1. /\ cur \in [Worker -> Task \cup {None}] /\ pc \in [Worker -> Place]
      /\ attempt \in [Task -> Nat] /\ retryLimit \in [Task -> Int \cup {Malformed}]
      /\ cur[v] \in Task /\ submit[cur[v]] = "queued"
  BY DEF Typed, TypeOK, OneOwner, OwnedOnlyOncePut
<1>2. CASE \E t \in Task : Submit(t)
  BY <1>1, <1>2 DEF Submit
<1>3. CASE \E w \in Worker : WorkerStep(w)
  <2>1. PICK w \in Worker : WorkerStep(w)  BY <1>3
  <2>2. PICK mine : mine = cur[w]  OBVIOUS
  <2>3. w # v /\ cur[v] # mine
    BY <2>1, <2>2, <1>1 DEF OneOwner, HeldByOne
  <2>4. pc'[v] = pc[v] /\ cur'[v] = cur[v]
    BY <2>1, <2>2, <2>3, OwnTaskOnly
  <2>5. retryLimit' = retryLimit /\ (attempt' = attempt \/ attempt' = [attempt EXCEPT ![mine] = @ + 1])
    BY <2>1, <2>2
       DEF WorkerStep, EnterGet, LeaveLoop, GetEmpty, Take, SkipCancelled, PassStatusCheck,
           DropCancelled, PassRegistry, Start, BeginAttempt, NoAttempt, Collect, AttemptFails,
           Backoff, Succeed, Fail, ReleaseSucceeded, ReleaseFailed, Moves
  <2>6. QED
    BY <1>1, <2>3, <2>4, <2>5
<1>4. CASE \/ \E t \in Task : Put(t)
           \/ \E w \in Worker : ChildStep(w) \/ StopWorker(w)
           \/ \E c \in Canceller : CancelStep(c)
           \/ ProcessEnds \/ UNCHANGED vars
  BY <1>4
     DEF Put, ChildStep, ChildSubmits, ChildReturns, ChildRaises, StopWorker, CancelStep,
         RequestCancel, ReadPending, ReadRunning, MarkCancelled, NoteRequested, ProcessEnds, vars
<1>5. QED
  BY <1>2, <1>3, <1>4 DEF Next

(* A worker's business with a task is bounded: whatever fails, times out or *)
(* is cancelled, each of its steps leaves it less to do, down from at most *)
(* three for each attempt and six, until it lets go of the task or dies;   *)
(* and no step of another thread gives it more.                            *)
THEOREM WorkShrinks == Spec => [][\A w \in Worker : Descends(w)]_vars
<1> DEFINE Inv == Typed /\ OneOwner /\ Retries
           Step == \A w \in Worker : Descends(w)
<1>1. Init => Inv
  BY TypedInit, OwnerInit, RetriesInit
<1>2. Inv /\ [Next]_vars => Inv'
  BY TypedStep, OwnerStep, RetriesStep
<1>3. Inv /\ [Next]_vars => Step
  <2> SUFFICES ASSUME Inv, [Next]_vars, NEW w \in Worker PROVE Descends(w)
    OBVIOUS
  <2>1. CASE cur[w] = None
    BY <2>1 DEF Descends
  <2>2. CASE cur[w] # None /\ WorkerStep(w)
    BY <2>2, RankWorks
  <2>3. CASE cur[w] # None /\ ~WorkerStep(w)
    BY <2>3, RankFacts, RankOfOthers, RankKept
  <2>4. QED
    BY <2>1, <2>2, <2>3
<1> HIDE DEF Inv, Step
<1>4. QED
  BY <1>1, <1>2, <1>3, PTL DEF Spec, Step

-----------------------------------------------------------------------------
(* The refinement of TaskLifecycle, at any number of failing appends.  What *)
(* its steps ask for beyond phases is in Story: the status of a task whose *)
(* worker has got so far, and CANCELLED only where it has been requested.  *)
Phases == [t \in Task |-> Phase(t)]

(* The phase of a task in terms of its owner.                              *)
Shown(t) ==
  /\ submit[t] = "idle" <=> Phase(t) = "absent"
  /\ submit[t] = "put" \/ InQueue(t) => Phase(t) = "waiting"
  /\ \A w \in Worker : cur[w] = t =>
       /\ pc[w] \in Deliberating => Phase(t) = "claimed"
       /\ pc[w] \in Working => Phase(t) = "running"
       /\ pc[w] \notin Deliberating \cup Working => Phase(t) = "closed"
  /\ submit[t] \notin {"idle", "put"} /\ ~Owned(t) => Phase(t) = "closed"

LEMMA PhaseShown ==
  ASSUME Typed, OneOwner, NEW t \in Task
  PROVE  Shown(t)
<1>1. /\ InQueue(t) => submit[t] = "queued"
      /\ \A w \in Worker : cur[w] = t => submit[t] = "queued" /\ ~InQueue(t)
      /\ \A v, w \in Worker : cur[v] = t /\ cur[w] = t => v = w
  BY NoneAssumption
     DEF OneOwner, OwnedOnlyOncePut, HeldNotQueued, HeldByOne, InQueue
<1>2. CASE submit[t] = "idle"
  <2>1. Phase(t) = "absent"  BY <1>1, <1>2 DEF Phase
  <2>2. QED
    BY <1>1, <1>2, <2>1 DEF Shown
<1>3. CASE submit[t] = "put" \/ InQueue(t)
  <2>1. Phase(t) = "waiting"  BY <1>1, <1>3 DEF Phase
  <2>2. QED
    BY <1>1, <1>3, <2>1 DEF Shown, Owned
<1>4. CASE submit[t] \notin {"idle", "put"} /\ ~InQueue(t)
  <2>1. CASE \E w \in Worker : cur[w] = t
    <3>1. PICK w \in Worker : cur[w] = t  BY <2>1
    <3>2. CASE pc[w] \in Deliberating
      <4>1. \A v \in Worker : cur[v] = t => pc[v] \notin Working
        BY <1>1, <3>1, <3>2 DEF Deliberating, Deciding, Working
      <4>2. Phase(t) = "claimed"  BY <1>4, <3>1, <3>2, <4>1 DEF Phase, Deliberating
      <4>3. QED
        BY <1>1, <1>4, <3>1, <3>2, <4>2 DEF Shown, Owned, Deliberating, Deciding, Working
    <3>3. CASE pc[w] \in Working
      <4>1. \A v \in Worker : cur[v] = t => pc[v] \notin Deciding \cup {"start"}
        BY <1>1, <3>1, <3>3 DEF Deciding, Working
      <4>2. Phase(t) = "running"  BY <1>4, <3>1, <3>3, <4>1 DEF Phase
      <4>3. QED
        BY <1>1, <1>4, <3>1, <3>3, <4>2 DEF Shown, Owned, Deliberating, Deciding, Working
    <3>4. CASE pc[w] \notin Deliberating \cup Working
      <4>1. \A v \in Worker : cur[v] = t => /\ pc[v] \notin Deciding \cup {"start"}
                                           /\ pc[v] \notin Working
        BY <1>1, <3>1, <3>4 DEF Deliberating
      <4>2. Phase(t) = "closed"  BY <1>4, <4>1 DEF Phase
      <4>3. QED
        BY <1>1, <1>4, <3>1, <3>4, <4>2 DEF Shown, Owned
    <3>5. QED
      BY <3>2, <3>3, <3>4
  <2>2. CASE ~\E w \in Worker : cur[w] = t
    <3>1. Phase(t) = "closed"  BY <1>4, <2>2 DEF Phase
    <3>2. QED
      BY <1>4, <2>2, <3>1 DEF Shown
  <2>3. QED
    BY <2>1, <2>2
<1>5. QED
  BY <1>2, <1>3, <1>4

(* A task keeps its phase in a step that leaves its handler, its place in  *)
(* the queue and its worker alone.                                         *)
LEMMA PhaseKept ==
  ASSUME NEW t \in Task, submit'[t] = submit[t], InQueue(t)' <=> InQueue(t),
         \A v \in Worker : \/ cur'[v] = cur[v] /\ pc'[v] = pc[v]
                           \/ cur'[v] # t /\ cur[v] # t
  PROVE  Phase(t)' = Phase(t)
<1>1. (\E v \in Worker : cur[v] = t /\ pc[v] \in Deciding \cup {"start"})' <=>
        \E v \in Worker : cur[v] = t /\ pc[v] \in Deciding \cup {"start"}
  BY DEF Deciding
<1>2. (\E v \in Worker : cur[v] = t /\ pc[v] \in Working)' <=>
        \E v \in Worker : cur[v] = t /\ pc[v] \in Working
  BY DEF Working
<1>3. QED
  BY <1>1, <1>2 DEF Phase

LEMMA MoveMaps ==
  ASSUME NEW t \in Task, NEW from, NEW to, Phase(t) = from, Phase(t)' = to,
         \A u \in Task : u # t => Phase(u)' = Phase(u), UNCHANGED cancelled
  PROVE  Lifecycle!Move(t, from, to)
<1>1. Phases' = [Phases EXCEPT ![t] = to]
  BY DEF Phases
<1>2. QED
  BY <1>1 DEF Phases, Lifecycle!Move

LEMMA StayMaps ==
  ASSUME \A u \in Task : Phase(u)' = Phase(u), UNCHANGED <<status, cancelled>>
  PROVE  /\ UNCHANGED faults => UNCHANGED Lifecycle!vars
         /\ \A t \in Task : AppendOk \/ AppendRaises =>
              Lifecycle!Slip(t) \/ UNCHANGED Lifecycle!vars
<1>1. UNCHANGED Phases
  BY DEF Phases
<1>2. QED
  BY <1>1 DEF Phases, Lifecycle!vars, Lifecycle!Slip, Lifecycle!Harmless, AppendOk, AppendRaises

(* The status that TaskLifecycle asks for is the one Story knows of.       *)
LEMMA IsMaps ==
  ASSUME NEW t, NEW s
  PROVE  Is(t, s) <=> Lifecycle!IsOrCancelled(t, s)
BY DEF Is, Lifecycle!IsOrCancelled

Mapped == Typed /\ OneOwner /\ Story

LEMMA MappedTake ==
  ASSUME Mapped, Mapped', \A t \in Task : Shown(t), (\A t \in Task : Shown(t))',
         NEW w \in Worker, Take(w)
  PROVE  Lifecycle!Next
<1>1. /\ UNCHANGED <<status, submit, cancelled, faults>>
      /\ cur' = [cur EXCEPT ![w] = Head(queue)] /\ pc' = [pc EXCEPT ![w] = "check"]
      /\ cur[w] = None /\ queue' = Tail(queue) /\ queue # <<>>
      /\ cur \in [Worker -> Task \cup {None}] /\ pc \in [Worker -> Place]
      /\ queue \in Seq(Task)
  BY DEF Take, Goto, Mapped, Typed, TypeOK, Shape, Idle, store, outside
<1>2. PICK h \in Task : h = Head(queue)
  BY <1>1, HeadTailProperties
<1>3. /\ h = queue[1] /\ Len(queue) \in Nat \ {0} /\ Len(queue') = Len(queue) - 1
      /\ \A i \in 1..(Len(queue) - 1) : queue'[i] = queue[i + 1]
  BY <1>1, <1>2, HeadTailProperties
<1>4. Phase(h) = "waiting"
  BY <1>3 DEF Shown, InQueue
<1>5. Phase(h)' = "claimed"
  BY <1>1, <1>2 DEF Shown, Deliberating, Deciding
<1>6. ASSUME NEW u \in Task, u # h PROVE Phase(u)' = Phase(u)
  <2>1. InQueue(u) => InQueue(u)'
    <3>1. SUFFICES ASSUME NEW i \in 1..Len(queue), queue[i] = u PROVE InQueue(u)'
      BY DEF InQueue
    <3>2. i # 1  BY <1>3, <1>6, <3>1
    <3>3. i - 1 \in 1..(Len(queue) - 1) /\ queue'[i - 1] = u  BY <1>3, <3>1, <3>2
    <3>4. QED
      BY <1>3, <3>3 DEF InQueue
  <2>2. InQueue(u)' => InQueue(u)
    BY <1>3 DEF InQueue
  <2>3. \A v \in Worker : \/ cur'[v] = cur[v] /\ pc'[v] = pc[v]
                          \/ cur'[v] # u /\ cur[v] # u
    BY <1>1, <1>2, <1>6, NoneAssumption
  <2>4. QED
    BY <1>1, <2>1, <2>2, <2>3, PhaseKept
<1>7. Lifecycle!Claim(h)
  BY <1>1, <1>4, <1>5, <1>6, MoveMaps DEF Lifecycle!Claim
<1>8. QED
  BY <1>1, <1>7 DEF Lifecycle!Next, Lifecycle!Promised

LEMMA MappedWorks ==
  ASSUME Mapped, Mapped', \A t \in Task : Shown(t), (\A t \in Task : Shown(t))',
         NEW w \in Worker, WorkerStep(w), ~Take(w)
  PROVE  [Lifecycle!Next]_(Lifecycle!vars)
<1> USE DEF Moves, Goto, SetStatus, store, queued, generation, metrics, workers, outside
<1>1. /\ cur \in [Worker -> Task \cup {None}] /\ pc \in [Worker -> Place]
      /\ status \in [Task -> Status]
      /\ pc[w] \in Idle => cur[w] = None
      /\ pc[w] \notin Idle \cup {"dead"} => cur[w] \in Task
  BY DEF Mapped, Typed, TypeOK, Shape
<1>2. PICK mine : mine = cur[w]  OBVIOUS
<1>3. /\ \A v \in Worker : v # w => pc'[v] = pc[v] /\ cur'[v] = cur[v]
      /\ UNCHANGED <<submit, cancelled, queue>> /\ cur'[w] \in {mine, None}
  BY <1>2, OwnTaskOnly DEF Mapped
<1>4. mine \in Task => Telling(w) /\ mine # None
  BY NoneAssumption DEF Mapped, Story
<1>5. AppendOk => UNCHANGED faults
  BY DEF AppendOk
<1>6. ASSUME NEW u \in Task, u # mine PROVE Phase(u)' = Phase(u)
  <2>1. InQueue(u)' <=> InQueue(u)  BY <1>3 DEF InQueue
  <2>2. \A v \in Worker : \/ cur'[v] = cur[v] /\ pc'[v] = pc[v]
                          \/ cur'[v] # u /\ cur[v] # u
    BY <1>2, <1>3, <1>6, NoneAssumption
  <2>3. QED
    BY <1>3, <2>1, <2>2, PhaseKept
<1>7. mine \in Task => submit'[mine] \notin {"idle", "put"} /\ ~InQueue(mine)'
  BY <1>2, <1>3, NoneAssumption
     DEF Mapped, OneOwner, OwnedOnlyOncePut, HeldNotQueued, InQueue
<1>8. mine \in Task /\ cur'[w] = None => Phase(mine)' = "closed"
  <2>1. ASSUME mine \in Task, cur'[w] = None PROVE \A v \in Worker : cur'[v] # mine
    BY <1>2, <1>3, <2>1, NoneAssumption DEF Mapped, OneOwner, HeldByOne
  <2>2. QED
    BY <1>7, <2>1 DEF Shown, Owned
<1>a. ASSUME NEW t \in Task, Lifecycle!Promised(t) \/ Lifecycle!Slip(t) PROVE Lifecycle!Next
  BY <1>a DEF Lifecycle!Next
<1>9. CASE EnterGet(w) \/ LeaveLoop(w) \/ GetEmpty(w)
  <2>1. cur[w] = None /\ UNCHANGED <<status, faults>>
    BY <1>1, <1>9 DEF EnterGet, LeaveLoop, GetEmpty, Idle
  <2>2. QED
    BY <1>2, <1>3, <1>6, <2>1, StayMaps, NoneAssumption
<1>10. CASE SkipCancelled(w) \/ (DropCancelled(w) /\ cur'[w] = None)
  <2>1. /\ mine \in Task /\ pc[w] \in Deliberating /\ cur'[w] = None
        /\ status' = [status EXCEPT ![mine] = "CANCELLED"] /\ UNCHANGED faults
    BY <1>1, <1>2, <1>10, NoneAssumption
       DEF SkipCancelled, DropCancelled, TaskDone, AppendOk, Idle, Deliberating, Deciding
  <2>2. mine \in cancelled
    BY <1>2, <1>4, <1>10, <2>1 DEF SkipCancelled, DropCancelled, IsCancelled, Telling, Is
  <2>3. Phase(mine) = "claimed"
    BY <1>2, <2>1 DEF Shown
  <2>4. Lifecycle!Drop(mine)
    BY <1>3, <1>6, <1>8, <2>1, <2>2, <2>3, MoveMaps DEF Lifecycle!Drop, Lifecycle!Write
  <2>5. QED
    BY <1>a, <2>1, <2>4 DEF Lifecycle!Promised
<1>11. CASE DropCancelled(w) /\ cur'[w] # None
  <2>1. /\ mine \in Task /\ pc[w] \in Deliberating /\ pc'[w] \in Deliberating
        /\ status' = [status EXCEPT ![mine] = "CANCELLED"] /\ mine \in cancelled
        /\ cur'[w] = mine /\ faults' = faults + 1
    BY <1>1, <1>2, <1>3, <1>11
       DEF DropCancelled, IsCancelled, TaskDone, AppendRaises, Idle, Deliberating, Deciding
  <2>2. Phase(mine)' = Phase(mine)
    BY <1>2, <2>1 DEF Shown
  <2>3. \A u \in Task : Phase(u)' = Phase(u)
    BY <1>6, <2>2
  <2>4. Lifecycle!MarkCancelled(mine)
    BY <1>3, <2>1, <2>3 DEF Lifecycle!MarkCancelled, Lifecycle!Write
  <2>5. QED
    BY <1>a, <2>1, <2>4 DEF Lifecycle!Slip, Lifecycle!Harmless
<1>12. CASE PassStatusCheck(w) \/ PassRegistry(w)
  <2>1. /\ mine \in Task /\ pc[w] \in Deliberating /\ pc'[w] \in Deliberating
        /\ UNCHANGED <<status, cur, faults>>
    BY <1>1, <1>2, <1>12
       DEF PassStatusCheck, PassRegistry, Idle, Deliberating, Deciding
  <2>2. Phase(mine)' = Phase(mine)
    BY <1>2, <2>1 DEF Shown
  <2>3. QED
    BY <1>3, <1>6, <2>1, <2>2, StayMaps
<1>13. CASE Start(w)
  <2>1. /\ mine \in Task /\ pc[w] \in Deliberating /\ cur'[w] = mine
        /\ status' = [status EXCEPT ![mine] = "RUNNING"]
        /\ \/ UNCHANGED faults /\ pc'[w] \in Working
           \/ faults' = faults + 1 /\ pc'[w] = "dead"
    BY <1>1, <1>2, <1>13
       DEF Start, AppendOk, AppendRaises, Idle, Deliberating, Deciding, Working
  <2>2. Phase(mine) = "claimed"
    BY <1>2, <2>1 DEF Shown
  <2>3. Lifecycle!IsOrCancelled(mine, "PENDING")
    BY <1>2, <1>4, <2>1, IsMaps DEF Telling
  <2>4. Lifecycle!Write(mine, "RUNNING")
    BY <2>1 DEF Lifecycle!Write
  <2>5. CASE pc'[w] \in Working /\ UNCHANGED faults
    <3>1. Phase(mine)' = "running"
      BY <2>1, <2>5 DEF Shown
    <3>2. Lifecycle!Start(mine)
      BY <1>3, <1>6, <2>1, <2>2, <2>3, <2>4, <3>1, MoveMaps DEF Lifecycle!Start
    <3>3. QED
      BY <1>a, <2>1, <2>5, <3>2 DEF Lifecycle!Promised
  <2>6. CASE pc'[w] = "dead" /\ faults' = faults + 1
    <3>1. Phase(mine)' = "closed"
      BY <2>1, <2>6 DEF Shown, Deliberating, Deciding, Working
    <3>2. Lifecycle!StartAndDie(mine)
      BY <1>3, <1>6, <2>1, <2>2, <2>3, <2>4, <3>1, MoveMaps DEF Lifecycle!StartAndDie
    <3>3. QED
      BY <1>a, <2>1, <2>6, <3>2 DEF Lifecycle!Slip
  <2>7. QED
    BY <2>1, <2>5, <2>6
<1>14. CASE \/ BeginAttempt(w) \/ NoAttempt(w) \/ Collect(w) \/ AttemptFails(w) \/ Backoff(w)
  <2>1. /\ mine \in Task /\ pc[w] \in Working /\ pc'[w] \in Working
        /\ UNCHANGED <<status, cur>> /\ (AppendOk \/ AppendRaises)
    BY <1>1, <1>2, <1>14
       DEF BeginAttempt, NoAttempt, Collect, AttemptFails, Backoff, AppendOk, Idle, Working
  <2>2. Phase(mine)' = Phase(mine)
    BY <1>2, <2>1 DEF Shown
  <2>3. QED
    BY <1>3, <1>6, <1>a, <2>1, <2>2, StayMaps
<1>15. CASE Succeed(w)
  <2>1. /\ mine \in Task /\ pc[w] = "succeed" /\ cur'[w] = mine
        /\ status' = [status EXCEPT ![mine] = "SUCCEEDED"]
        /\ \/ UNCHANGED faults /\ pc'[w] = "countSucceeded"
           \/ faults' = faults + 1 /\ pc'[w] = "fail"
    BY <1>1, <1>2, <1>15 DEF Succeed, AppendOk, AppendRaises, Idle
  <2>2. Phase(mine) = "running"
    BY <1>2, <2>1 DEF Shown, Working
  <2>3. Lifecycle!IsOrCancelled(mine, "RUNNING")
    BY <1>2, <1>4, <2>1, IsMaps DEF Telling, Working
  <2>4. Lifecycle!Write(mine, "SUCCEEDED")
    BY <2>1 DEF Lifecycle!Write
  <2>5. CASE pc'[w] = "countSucceeded" /\ UNCHANGED faults
    <3>1. Phase(mine)' = "closed"
      BY <2>1, <2>5 DEF Shown, Deliberating, Deciding, Working
    <3>2. Lifecycle!Succeed(mine)
      BY <1>3, <1>6, <2>1, <2>2, <2>3, <2>4, <3>1, MoveMaps DEF Lifecycle!Succeed
    <3>3. QED
      BY <1>a, <2>1, <2>5, <3>2 DEF Lifecycle!Promised
  <2>6. CASE pc'[w] = "fail" /\ faults' = faults + 1
    <3>1. Phase(mine)' = "running"
      BY <2>1, <2>6 DEF Shown, Working
    <3>2. \A u \in Task : Phase(u)' = Phase(u)
      BY <1>6, <2>2, <3>1
    <3>3. Lifecycle!SucceedUnrecorded(mine)
      BY <1>3, <2>1, <2>2, <2>3, <2>4, <3>2 DEF Lifecycle!SucceedUnrecorded
    <3>4. QED
      BY <1>a, <2>1, <2>6, <3>3 DEF Lifecycle!Slip
  <2>7. QED
    BY <2>1, <2>5, <2>6
<1>16. CASE Fail(w)
  <2>1. /\ mine \in Task /\ pc[w] = "fail"
        /\ status' = [status EXCEPT ![mine] = "FAILED"]
        /\ (cur'[w] = mine /\ pc'[w] = "countFailed") \/ cur'[w] = None
        /\ UNCHANGED faults \/ faults' = faults + 1
    BY <1>1, <1>2, <1>16 DEF Fail, TaskDone, AppendOk, AppendRaises, Idle
  <2>2. Phase(mine) = "running"
    BY <1>2, <2>1 DEF Shown, Working
  <2>3. Lifecycle!IsOrCancelled(mine, "RUNNING") \/ Lifecycle!IsOrCancelled(mine, "SUCCEEDED")
    BY <1>2, <1>4, <2>1, IsMaps DEF Telling
  <2>4. Phase(mine)' = "closed"
    BY <1>8, <2>1 DEF Shown, Deliberating, Deciding, Working
  <2>5. Lifecycle!Fail(mine)
    BY <1>3, <1>6, <2>1, <2>2, <2>3, <2>4, MoveMaps DEF Lifecycle!Fail, Lifecycle!Write
  <2>6. QED
    BY <1>a, <2>1, <2>5 DEF Lifecycle!Promised, Lifecycle!Slip, Lifecycle!Harmless
<1>17. CASE ReleaseSucceeded(w) \/ ReleaseFailed(w)
  <2>1. /\ mine \in Task /\ pc[w] \in Releasing /\ cur'[w] = None
        /\ UNCHANGED <<status, faults>>
    BY <1>1, <1>2, <1>17 DEF ReleaseSucceeded, ReleaseFailed, TaskDone, Idle, Releasing
  <2>2. Phase(mine) = "closed"
    BY <1>2, <2>1 DEF Shown, Releasing, Deliberating, Deciding, Working
  <2>3. QED
    BY <1>3, <1>6, <1>8, <2>1, <2>2, StayMaps
<1>18. QED
  BY <1>9, <1>10, <1>11, <1>12, <1>13, <1>14, <1>15, <1>16, <1>17 DEF WorkerStep

LEMMA MappedStep ==
  ASSUME Mapped, Mapped', \A t \in Task : Shown(t), (\A t \in Task : Shown(t))',
         [Next]_vars
  PROVE  [Lifecycle!Next]_(Lifecycle!vars)
<1> USE DEF store, workers, queued, outside
<1>0. /\ status \in [Task -> Status] /\ submit \in [Task -> {"idle", "put", "queued", "error"}]
      /\ queue \in Seq(Task) /\ cancelled \subseteq Task
      /\ \A c \in Canceller : cpc[c] # "idle" => ctask[c] \in Task
  BY DEF Mapped, Typed, TypeOK, Shape
<1>a. ASSUME NEW t \in Task, Lifecycle!Promised(t) \/ Lifecycle!Slip(t) PROVE Lifecycle!Next
  BY <1>a DEF Lifecycle!Next
<1>1. ASSUME NEW t \in Task, Submit(t)
      PROVE  Lifecycle!Next
  <2>1. /\ UNCHANGED <<queue, cur, pc, cancelled>>
        /\ submit[t] = "idle" /\ status' = [status EXCEPT ![t] = "PENDING"]
        /\ \/ UNCHANGED faults /\ submit'[t] = "put"
           \/ faults' = faults + 1 /\ submit'[t] = "error"
        /\ \A u \in Task : u # t => submit'[u] = submit[u]
    BY <1>0, <1>1 DEF Submit, SetStatus, AppendOk, AppendRaises
  <2>2. \A u \in Task : u # t => Phase(u)' = Phase(u)
    BY <2>1, PhaseKept DEF InQueue
  <2>3. Phase(t) = "absent" /\ Lifecycle!Write(t, "PENDING")
    BY <2>1 DEF Shown, Lifecycle!Write
  <2>4. CASE submit'[t] = "put" /\ UNCHANGED faults
    <3>1. Phase(t)' = "waiting"
      BY <2>4 DEF Shown
    <3>2. Lifecycle!Accept(t)
      BY <2>1, <2>2, <2>3, <3>1, MoveMaps DEF Lifecycle!Accept
    <3>3. QED
      BY <1>a, <2>4, <3>2 DEF Lifecycle!Promised
  <2>5. CASE submit'[t] = "error" /\ faults' = faults + 1
    <3>1. ~Owned(t)'
      BY <2>5, NoneAssumption DEF Mapped, OneOwner, OwnedOnlyOncePut, Owned, InQueue
    <3>2. Phase(t)' = "closed"
      BY <2>5, <3>1 DEF Shown
    <3>3. Lifecycle!AcceptUnqueued(t)
      BY <2>1, <2>2, <2>3, <3>2, MoveMaps DEF Lifecycle!AcceptUnqueued
    <3>4. QED
      BY <1>a, <2>5, <3>3 DEF Lifecycle!Slip
  <2>6. QED
    BY <2>1, <2>4, <2>5
<1>2. ASSUME NEW t \in Task, Put(t)
      PROVE  UNCHANGED Lifecycle!vars
  <2>1. /\ UNCHANGED <<status, cur, pc, cancelled, faults>>
        /\ submit[t] = "put" /\ submit'[t] = "queued"
        /\ \A u \in Task : u # t => submit'[u] = submit[u]
        /\ queue' = Append(queue, t)
    BY <1>0, <1>2 DEF Put
  <2>2. /\ Len(queue') = Len(queue) + 1 /\ Len(queue) \in Nat
        /\ \A i \in 1..Len(queue) : queue'[i] = queue[i]
        /\ queue'[Len(queue) + 1] = t
    BY <1>0, <2>1, QueueFacts
  <2>3. InQueue(t)' /\ \A u \in Task : u # t => (InQueue(u)' <=> InQueue(u))
    BY <2>2 DEF InQueue
  <2>4. \A u \in Task : u # t => Phase(u)' = Phase(u)
    BY <2>1, <2>3, PhaseKept
  <2>5. Phase(t) = "waiting" /\ Phase(t)' = "waiting"
    BY <2>1, <2>3 DEF Shown
  <2>6. QED
    BY <2>1, <2>4, <2>5, StayMaps
<1>3. CASE \/ \E w \in Worker : ChildStep(w) \/ StopWorker(w)
           \/ \E c \in Canceller : ReadPending(c) \/ ReadRunning(c)
           \/ ProcessEnds \/ UNCHANGED vars
  <2>1. UNCHANGED <<status, submit, queue, cur, pc, cancelled, faults>>
    BY <1>3
       DEF ChildStep, ChildSubmits, ChildReturns, ChildRaises, StopWorker, ReadPending,
           ReadRunning, ProcessEnds, vars
  <2>2. \A u \in Task : Phase(u)' = Phase(u)
    BY <2>1, PhaseKept DEF InQueue
  <2>3. QED
    BY <2>1, <2>2, StayMaps
<1>4. ASSUME NEW c \in Canceller, NEW t \in Task, RequestCancel(c, t)
      PROVE  Lifecycle!Next
  <2>1. /\ UNCHANGED <<status, submit, queue, cur, pc, faults>>
        /\ status[t] # "ABSENT" /\ cancelled' = cancelled \cup {t}
    BY <1>4 DEF RequestCancel
  <2>2. \A u \in Task : Phase(u)' = Phase(u)
    BY <2>1, PhaseKept DEF InQueue
  <2>3. Phase(t) # "absent"
    BY <2>1 DEF Mapped, Story, Unclaimed, Shown
  <2>4. Lifecycle!Request(t)
    BY <2>1, <2>2, <2>3 DEF Lifecycle!Request
  <2>5. QED
    BY <1>a, <2>1, <2>4 DEF Lifecycle!Promised
<1>5. ASSUME NEW c \in Canceller, MarkCancelled(c) \/ NoteRequested(c)
      PROVE  [Lifecycle!Next]_(Lifecycle!vars)
  <2>1. /\ UNCHANGED <<submit, queue, cur, pc, cancelled>> /\ cpc[c] # "idle"
        /\ UNCHANGED faults \/ faults' = faults + 1
        /\ AppendOk \/ AppendRaises
    BY <1>5 DEF MarkCancelled, NoteRequested, AppendOk, AppendRaises
  <2>2. \A u \in Task : Phase(u)' = Phase(u)
    BY <2>1, PhaseKept DEF InQueue
  <2>3. PICK t \in Task : t = ctask[c] /\ t \in cancelled
    BY <1>0, <2>1 DEF Mapped, Story
  <2>4. CASE MarkCancelled(c)
    <3>1. status' = [status EXCEPT ![t] = "CANCELLED"]
      BY <2>3, <2>4 DEF MarkCancelled, SetStatus
    <3>2. Lifecycle!MarkCancelled(t)
      BY <2>1, <2>2, <2>3, <3>1 DEF Lifecycle!MarkCancelled, Lifecycle!Write
    <3>3. QED
      BY <1>a, <2>1, <3>2 DEF Lifecycle!Promised, Lifecycle!Slip, Lifecycle!Harmless
  <2>5. CASE NoteRequested(c)
    <3>1. UNCHANGED status
      BY <2>5 DEF NoteRequested
    <3>2. QED
      BY <1>a, <2>1, <2>2, <3>1, StayMaps
  <2>6. QED
    BY <1>5, <2>4, <2>5
<1>6. ASSUME NEW w \in Worker, WorkerStep(w)
      PROVE  [Lifecycle!Next]_(Lifecycle!vars)
  BY <1>6, MappedTake, MappedWorks
<1>7. QED
  BY <1>1, <1>2, <1>3, <1>4, <1>5, <1>6 DEF Next, CancelStep

LEMMA MappedInit == Init => Lifecycle!Init
<1> SUFFICES ASSUME Init PROVE Lifecycle!Init
  OBVIOUS
<1>1. \A t \in Task : Phase(t) = "absent"
  BY NoneAssumption DEF Init, Phase, InQueue
<1>2. QED
  BY <1>1 DEF Init, Lifecycle!Init

(* The threads implement the life of a task that TaskLifecycle promises:   *)
(* for any number of tasks, workers and cancel handlers, any retries and   *)
(* time-outs, stops and the end of the process, every step changes a       *)
(* status along an arrow of it or not at all, but for a slip it allows,    *)
(* and every slip has its own append to tasks.jsonl that has raised.       *)
THEOREM LifecycleImplemented == Spec => ImplementsLifecycle
<1> DEFINE AllShown == \A t \in Task : Shown(t)
           Inv == Mapped /\ AllShown
<1>1. Mapped => AllShown
  BY PhaseShown DEF Mapped
<1>2. Init => Mapped
  BY TypedInit, OwnerInit, StoryInit DEF Mapped
<1>3. Mapped /\ [Next]_vars => Mapped'
  BY TypedStep, OwnerStep, StoryStep DEF Mapped
<1>4. Init => Lifecycle!Init
  BY MappedInit
<1>5. Inv /\ Inv' /\ [Next]_vars => [Lifecycle!Next]_(Lifecycle!vars)
  BY MappedStep
<1> HIDE DEF Inv, AllShown
<1>6. Mapped /\ AllShown => Inv
  BY DEF Inv
<1>7. QED
  BY <1>1, <1>2, <1>3, <1>4, <1>5, <1>6, PTL
     DEF Spec, ImplementsLifecycle, Lifecycle!Spec

-----------------------------------------------------------------------------
(* What a client may take from the lifecycle, for the threads that          *)
(* implement it: a status moves along the documented arrows                *)
Arrow ==
  {<<"ABSENT", "PENDING">>, <<"PENDING", "RUNNING">>,
   <<"RUNNING", "SUCCEEDED">>, <<"RUNNING", "FAILED">>}

(* unless the task's cancellation has been requested, or the append of its *)
(* SUCCEEDED has raised and FAILED is written over it.                     *)
Follows(t) ==
  \/ status'[t] = status[t]
  \/ <<status[t], status'[t]>> \in Arrow
  \/ t \in cancelled'
  \/ faults > 0 /\ status[t] = "SUCCEEDED" /\ status'[t] = "FAILED"

(* The steps of TaskLifecycle keep to that, since they keep this.          *)
OnTrack ==
  /\ faults \in Nat /\ DOMAIN status = Task
  /\ \A t \in Task :
       /\ Phases[t] = "absent" => status[t] = "ABSENT" /\ t \notin cancelled
       /\ Phases[t] = "running" /\ t \notin cancelled =>
            status[t] = "RUNNING" \/ (faults > 0 /\ status[t] = "SUCCEEDED")

LEMMA LifecycleKeepsToArrows ==
  ASSUME OnTrack, [Lifecycle!Next]_(Lifecycle!vars)
  PROVE  OnTrack' /\ \A t \in Task : Follows(t)
<1>1. ASSUME UNCHANGED <<Phases, cancelled, faults, status>>
      PROVE  OnTrack' /\ \A t \in Task : Follows(t)
  BY <1>1 DEF OnTrack, Follows
<1>2. CASE UNCHANGED Lifecycle!vars
  BY <1>1, <1>2 DEF Lifecycle!vars, Phases
<1>3. ASSUME NEW t \in Task, Lifecycle!Promised(t) \/ Lifecycle!Slip(t)
      PROVE  OnTrack' /\ \A u \in Task : Follows(u)
  <2> DEFINE Moved(from, to) ==
               /\ Phases[t] = from /\ Phases' = [Phases EXCEPT ![t] = to]
               /\ UNCHANGED cancelled
             Wrote(s) == status' = [status EXCEPT ![t] = s]
             Or(s) == status[t] = s \/ t \in cancelled
             Stays == UNCHANGED <<Phases, cancelled>>
  <2>1. faults' = faults \/ faults' = faults + 1
    BY <1>3 DEF Lifecycle!Promised, Lifecycle!Slip
  <2>2. \/ (Moved("absent", "waiting") \/ Moved("absent", "closed")) /\ Wrote("PENDING")
        \/ Moved("waiting", "claimed") /\ UNCHANGED status
        \/ /\ Moved("claimed", "running") \/ Moved("claimed", "closed")
           /\ Or("PENDING") /\ Wrote("RUNNING")
        \/ Moved("running", "closed") /\ Or("RUNNING") /\ Wrote("SUCCEEDED")
        \/ Moved("running", "closed") /\ (Or("RUNNING") \/ Or("SUCCEEDED")) /\ Wrote("FAILED")
        \/ Moved("claimed", "closed") /\ t \in cancelled /\ Wrote("CANCELLED")
        \/ /\ Phases[t] # "absent" /\ cancelled' = cancelled \cup {t}
           /\ UNCHANGED <<status, Phases>>
        \/ t \in cancelled /\ Wrote("CANCELLED") /\ Stays
        \/ /\ Phases[t] = "running" /\ Or("RUNNING") /\ Wrote("SUCCEEDED") /\ Stays
           /\ faults' = faults + 1
        \/ UNCHANGED status /\ Stays
    BY <1>3
       DEF Lifecycle!Promised, Lifecycle!Slip, Lifecycle!Accept, Lifecycle!Claim,
           Lifecycle!Start, Lifecycle!Succeed, Lifecycle!Fail, Lifecycle!Drop,
           Lifecycle!Request, Lifecycle!MarkCancelled, Lifecycle!AcceptUnqueued,
           Lifecycle!StartAndDie, Lifecycle!SucceedUnrecorded, Lifecycle!Harmless,
           Lifecycle!Move, Lifecycle!Write, Lifecycle!IsOrCancelled, Phases
  <2>3. DOMAIN Phases = Task
    BY DEF Phases
  <2> HIDE DEF Phases
  <2>4. cancelled \subseteq cancelled' /\ DOMAIN status' = Task
    BY <2>2 DEF OnTrack
  <2>5. ASSUME NEW u \in Task, u # t
        PROVE  /\ Phases'[u] = Phases[u] /\ status'[u] = status[u]
               /\ u \in cancelled' <=> u \in cancelled
    BY <2>2, <2>3, <2>5 DEF OnTrack
  <2>6. /\ Phases'[t] = "absent" => status'[t] = "ABSENT" /\ t \notin cancelled'
        /\ Phases'[t] = "running" /\ t \notin cancelled' =>
             status'[t] = "RUNNING" \/ (faults' > 0 /\ status'[t] = "SUCCEEDED")
    <3>1. Phases'[t] = "running" =>
            Moved("claimed", "running") \/ (Phases[t] = "running" /\ UNCHANGED Phases)
      BY <2>2, <2>3
    <3>2. Phases'[t] = "absent" => Phases[t] = "absent" /\ UNCHANGED Phases
      BY <2>2, <2>3
    <3>3. Moved("claimed", "running") => t \in cancelled' \/ status'[t] = "RUNNING"
      BY <2>2, <2>3 DEF OnTrack
    <3>4. CASE UNCHANGED Phases /\ Phases[t] = "running"
      BY <2>1, <2>2, <2>3, <3>4 DEF OnTrack
    <3>5. CASE UNCHANGED Phases /\ Phases[t] = "absent"
      BY <2>2, <2>3, <3>5 DEF OnTrack
    <3>6. QED
      BY <3>1, <3>2, <3>3, <3>4, <3>5
  <2>7. Follows(t)
    BY <2>2, <2>3 DEF OnTrack, Follows, Arrow
  <2>8. \A u \in Task : Follows(u)
    BY <2>5, <2>7 DEF Follows
  <2>9. OnTrack'
    BY <2>1, <2>4, <2>5, <2>6 DEF OnTrack
  <2>10. QED
    BY <2>8, <2>9
<1>4. QED
  BY <1>2, <1>3 DEF Lifecycle!Next

(* A client of a task nobody has asked to cancel sees its status move along *)
(* the documented arrows, whatever the threads do and in whatever order,   *)
(* and SUCCEEDED is final unless the task log could not be written.        *)
THEOREM StatusFollowsTheArrows == Spec => [][\A t \in Task : Follows(t)]_vars
<1>1. Init => OnTrack
  <2>1. Init => \A t \in Task : Phase(t) = "absent"
    BY NoneAssumption DEF Init, Phase, InQueue
  <2>2. QED
    BY <2>1 DEF Init, OnTrack, Phases
<1>2. OnTrack /\ [Lifecycle!Next]_(Lifecycle!vars) => OnTrack' /\ \A t \in Task : Follows(t)
  BY LifecycleKeepsToArrows
<1>3. Spec => [][Lifecycle!Next]_(Lifecycle!vars)
  BY LifecycleImplemented DEF ImplementsLifecycle, Lifecycle!Spec
<1>4. QED
  BY <1>1, <1>2, <1>3, PTL DEF Spec
=============================================================================
