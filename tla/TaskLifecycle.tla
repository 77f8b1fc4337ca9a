--------------------------- MODULE TaskLifecycle ---------------------------
(***************************************************************************)
(* What the bridge promises about the life of one asynchronous task, with  *)
(* no threads, queue, retries or child processes in sight.  The promise is *)
(* the documented lifecycle                                                *)
(*                                                                         *)
(*      PENDING -> RUNNING -> SUCCEEDED | FAILED                           *)
(*                                                                         *)
(* plus cancellation, which POST /task/{id}/cancel makes possible at any   *)
(* time: the endpoint may set CANCELLED over whatever status it meets, and *)
(* a worker that already holds the task may write over CANCELLED in turn.  *)
(* A task nobody asked to cancel follows the documented arrows only, each  *)
(* of them once, and only the cancel endpoint changes a closed task.       *)
(*                                                                         *)
(* Departures from it are slips, and each costs an append to tasks.jsonl   *)
(* that raises: a task in the store that is never queued, one that stays   *)
(* RUNNING with nobody at work on it, a SUCCEEDED that turns into FAILED.  *)
(***************************************************************************)
EXTENDS Naturals

CONSTANT Task

VARIABLES
  status,     \* the status field a client reads from GET /task/{id}
  phase,      \* absent -> waiting -> claimed -> (running ->) closed
  requested,  \* tasks for which cancellation has been requested
  slips       \* appends to tasks.jsonl that have raised

vars == <<status, phase, requested, slips>>

Init ==
  /\ status = [t \in Task |-> "ABSENT"]
  /\ phase = [t \in Task |-> "absent"]
  /\ requested = {}
  /\ slips = 0

Move(t, from, to) ==
  /\ phase[t] = from
  /\ phase' = [phase EXCEPT ![t] = to]
  /\ UNCHANGED requested

Write(t, s) == status' = [status EXCEPT ![t] = s]

(* The status is s, or the cancel endpoint has written over it.            *)
IsOrCancelled(t, s) == status[t] = s \/ (status[t] = "CANCELLED" /\ t \in requested)

Accept(t) == Move(t, "absent", "waiting") /\ Write(t, "PENDING")

Claim(t) == Move(t, "waiting", "claimed") /\ UNCHANGED status

Start(t) ==
  /\ Move(t, "claimed", "running")
  /\ IsOrCancelled(t, "PENDING")
  /\ Write(t, "RUNNING")

Succeed(t) ==
  /\ Move(t, "running", "closed")
  /\ IsOrCancelled(t, "RUNNING")
  /\ Write(t, "SUCCEEDED")

(* SUCCEEDED is the status of a running task only after a slip.            *)
Fail(t) ==
  /\ Move(t, "running", "closed")
  /\ IsOrCancelled(t, "RUNNING") \/ IsOrCancelled(t, "SUCCEEDED")
  /\ Write(t, "FAILED")

(* The worker finds the task cancelled and never starts it.                *)
Drop(t) ==
  /\ Move(t, "claimed", "closed")
  /\ t \in requested
  /\ Write(t, "CANCELLED")

Request(t) ==
  /\ phase[t] # "absent"
  /\ requested' = requested \cup {t}
  /\ UNCHANGED <<status, phase>>

MarkCancelled(t) ==
  /\ t \in requested
  /\ Write(t, "CANCELLED")
  /\ UNCHANGED <<phase, requested>>

Promised(t) ==
  /\ \/ Accept(t) \/ Claim(t) \/ Start(t) \/ Succeed(t) \/ Fail(t) \/ Drop(t)
     \/ Request(t) \/ MarkCancelled(t)
  /\ UNCHANGED slips

AcceptUnqueued(t) == Move(t, "absent", "closed") /\ Write(t, "PENDING")

StartAndDie(t) ==
  /\ Move(t, "claimed", "closed")
  /\ IsOrCancelled(t, "PENDING")
  /\ Write(t, "RUNNING")

SucceedUnrecorded(t) ==
  /\ phase[t] = "running"
  /\ IsOrCancelled(t, "RUNNING")
  /\ Write(t, "SUCCEEDED")
  /\ UNCHANGED <<phase, requested>>

(* An append that raises and changes nothing in the life of the task.      *)
Harmless(t) == Fail(t) \/ MarkCancelled(t) \/ UNCHANGED <<status, phase, requested>>

Slip(t) ==
  /\ AcceptUnqueued(t) \/ StartAndDie(t) \/ SucceedUnrecorded(t) \/ Harmless(t)
  /\ slips' = slips + 1

Next == \E t \in Task : Promised(t) \/ Slip(t)

Spec == Init /\ [][Next]_vars

(* The tasks live in the memory of the bridge's process.                   *)
Restart == Init'

SpecWithRestarts == Init /\ [][Next \/ Restart]_vars
=============================================================================
