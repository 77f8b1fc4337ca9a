---------------------------- MODULE Generation ----------------------------
(***************************************************************************)
(* The four ways to an image, from a request to the answer: the handlers   *)
(* of POST /generate-image and POST /agent/apply, a task of POST /submit   *)
(* with one attempt of its worker, and run_comfy_once.py beside the bridge. *)
(* They share the workflow files, which people edit, the folders the       *)
(* images go to, and ComfyUI.                                              *)
(*                                                                         *)
(* Queue, retries and cancellation of tasks are BridgeTasks' subject.  A   *)
(* step ends where another request may be seen: at a read of a workflow    *)
(* file, a call of ComfyUI, or an image written.                           *)
(***************************************************************************)
EXTENDS RequestPath, FiniteSets

CONSTANTS
  Job,          \* the requests of a behaviour
  Request,      \* per job, what it may ask for; route is where it is sent
  Content,      \* what a workflow file may hold, Graph values
  Missing,      \* there is no such file
  FileSystem,   \* the files at the start, functions of Path
  Server,       \* ComfyUI servers
  OutDir,       \* folders for images
  None,
  Outcome,      \* what a prompt may come to in ComfyUI
  Edited,       \* the files that are edited
  MaxEdits      \* bound on the edits of workflow files

SubFolder == {"", "sub"}

(* An error may end a prompt after its first images.                       *)
ASSUME OutcomeAssumption ==
  Outcome \subseteq [completed : BOOLEAN, folders : SUBSET SubFolder, unnamed : BOOLEAN,
                     other : BOOLEAN]
ASSUME JobAssumption == IsFiniteSet(Job)
ASSUME MaxEditsAssumption == MaxEdits \in Nat
ASSUME FileSystemAssumption ==
  /\ Missing \notin Graph /\ Content \subseteq Graph /\ Edited \subseteq Path
  /\ FileSystem \subseteq [Path -> [is : Graph \cup {Missing}, version : Nat]]
ASSUME RequestAssumption ==
  Request \in [Job -> SUBSET
    [route : {"sync", "once", "apply", "async"},
     top : [Field -> Given], nested : [Field -> Laid], laid : [Field -> Laid],
     workflow : File \cup {NoFile}, model : File \cup {NoFile}, generation : File \cup {NoFile},
     profile : DOMAIN Profiles, server : Server, dir : OutDir, limits : [Limit -> Given],
     op : Op, generationOp : Op, force : BOOLEAN, requireSafe : BOOLEAN, execute : BOOLEAN]]

VARIABLES
  job,          \* what each request has become
  file,         \* the workflow files
  edits,        \* their edits so far
  entry,        \* per job, what /history of ComfyUI has of its prompt
  numbered,     \* per server and subfolder, the images ComfyUI has named
  saved         \* per folder and name, the image in the file

vars == <<job, file, edits, entry, numbered, saved>>

(* ComfyUI numbers the images of a folder; an image may have no name: 0.   *)
Image == [owner : Job, server : Server, folder : SubFolder, number : 0..Cardinality(Job)]

(* /history: whether the prompt has completed, the images of its nodes,    *)
(* and whether some node has output of another kind.                       *)
Entry == [completed : BOOLEAN, images : SUBSET Image, other : BOOLEAN]

ASSUME NoneAssumption == None \notin Image \cup Entry

Fresh == [pc |-> "new", request |-> None, values |-> None, path |-> None,
          limits |-> None, audit |-> None, plan |-> None, read |-> None, graph |-> None,
          todo |-> {}, paths |-> {}]

Init ==
  /\ job = [j \in Job |-> Fresh]
  /\ file \in FileSystem
  /\ edits = 0
  /\ entry = [j \in Job |-> None]
  /\ numbered = [s \in Server \X SubFolder |-> 0]
  /\ saved = [p \in OutDir \X (0..Cardinality(Job)) |-> None]

(* A read of a workflow file: where, what, and which version of it.        *)
Reading(p) == [path |-> p, is |-> file[p].is, version |-> file[p].version]
There(p) == file[p].is # Missing

(* The path and the hash of what is there, none if nothing is.             *)
build_audit_fields(p) == Reading(p)

Route(j) == job[j].request.route

Fails(j) == job' = [job EXCEPT ![j].pc = "failed"] /\ UNCHANGED <<file, edits, entry, numbered, saved>>

(* A body without a JSON object; the catch-all of do_POST answers 500.     *)
Reject(j) == job[j].pc = "new" /\ Fails(j)

-----------------------------------------------------------------------------
(* POST /generate-image, up to reading the file.                           *)
SyncReceive(j, r) ==
  /\ job[j].pc = "new" /\ r.route = "sync"
  /\ job' = [job EXCEPT ![j] = [@ EXCEPT
       !.pc = "ready", !.request = r,
       !.values = Drawn(normalize_request(r)), !.path = Located("cwd", WorkflowName(r))]]
  /\ UNCHANGED <<file, edits, entry, numbered, saved>>

(* run_comfy_once.main: every option has a usable value.                   *)
OnceStart(j, r) ==
  /\ job[j].pc = "new" /\ r.route = "once"
  /\ \A f \in Field : r.top[f] # "bad"
  /\ job' = [job EXCEPT ![j] = [@ EXCEPT
       !.pc = "ready", !.request = [r EXCEPT !.op = NoOp],
       !.values = Drawn([f \in Field |-> first_existing(r.top[f], "none")]),
       !.path = Located("cwd", FirstFile(r.workflow, NoFile))]]
  /\ UNCHANGED <<file, edits, entry, numbered, saved>>

(* POST /agent/apply: the dry run, on the workflow the handler has read.   *)
Checked(r, p) ==
  /\ There(p)
  /\ ~OpRaises(file[p].is, r.op)
  /\ Applied(file[p].is, r.op).dangling => r.force \/ ~r.requireSafe

ApplyCheck(j, r) ==
  LET p == Located("cwd", FirstFile(r.workflow, NoFile))
  IN /\ job[j].pc = "new" /\ r.route = "apply"
     /\ Checked(r, p)
     /\ job' = [job EXCEPT ![j] = [@ EXCEPT
          !.pc = IF r.execute THEN "ready" ELSE "prepared only",
          !.request = Merged(r), !.values = Drawn(normalize_request(Merged(r))),
          !.path = Located("cwd", WorkflowName(Merged(r))),
          !.plan = [read |-> Reading(p), graph |-> Applied(file[p].is, r.op), of |-> r]]]
     /\ UNCHANGED <<file, edits, entry, numbered, saved>>

ApplyRefused(j, r) ==
  /\ job[j].pc = "new" /\ r.route = "apply"
  /\ ~Checked(r, Located("cwd", FirstFile(r.workflow, NoFile)))
  /\ Fails(j)

(* Faulty variant: the audit is built before the route is known.           *)
AuditUnrouted(j, r) ==
  /\ job[j].pc = "new" /\ r.route = "async"
  /\ job' = [job EXCEPT ![j] = [@ EXCEPT
       !.pc = "queued", !.request = r, !.values = normalize_request(r),
       !.limits = WithPolicy(r.limits), !.path = resolve(r.profile, WorkflowName(r)),
       !.audit = build_audit_fields(Located("cwd", WorkflowName(r)))]]
  /\ UNCHANGED <<file, edits, entry, numbered, saved>>

(* POST /submit: the task is made with the hash of the routed file.        *)
AsyncAccept(j, r) ==
  LET p == resolve(r.profile, WorkflowName(r))
  IN /\ job[j].pc = "new" /\ r.route = "async"
     /\ job' = [job EXCEPT ![j] = [@ EXCEPT
          !.pc = "queued", !.request = r, !.values = normalize_request(r),
          !.limits = WithPolicy(r.limits), !.path = p,
          !.audit = build_audit_fields(p)]]
     /\ UNCHANGED <<file, edits, entry, numbered, saved>>

Receive(j, r) == SyncReceive(j, r) \/ OnceStart(j, r) \/ ApplyCheck(j, r)
                   \/ ApplyRefused(j, r) \/ AsyncAccept(j, r)

-----------------------------------------------------------------------------
(* generate_image and run_comfy_once: read, patch, carry out the ops.      *)
SyncPrepare(j) ==
  LET p == job[j].path
      patched == Patched(file[p].is, SyncPatch, job[j].values)
  IN /\ job[j].pc = "ready"
     /\ There(p) /\ ~OpRaises(patched, job[j].request.op)
     /\ job' = [job EXCEPT ![j].pc = "prepared", ![j].read = Reading(p),
          ![j].graph = IF job[j].request.op = NoOp THEN patched
                                                   ELSE Applied(patched, job[j].request.op)]
     /\ UNCHANGED <<file, edits, entry, numbered, saved>>

SyncPrepareFails(j) ==
  /\ job[j].pc = "ready"
  /\ There(job[j].path) =>
       OpRaises(Patched(file[job[j].path].is, SyncPatch, job[j].values), job[j].request.op)
  /\ Fails(j)

(* The worker, once it has made sense of the limits: run_generation.       *)
AsyncPrepare(j) ==
  LET p == job[j].path
  IN /\ job[j].pc = "queued"
     /\ ~NoAttempt(job[j].limits) /\ ~LimitsRaise(job[j].limits) /\ There(p)
     /\ job' = [job EXCEPT ![j].pc = "prepared", ![j].read = Reading(p),
          ![j].graph = Patched(file[p].is, AsyncPatch, Truthy(job[j].values))]
     /\ UNCHANGED <<file, edits, entry, numbered, saved>>

(* A limit raises, there is no file, or the child process is killed before *)
(* it has read it: with a time-out of 0 or less at once.                   *)
AsyncPrepareFails(j) ==
  /\ job[j].pc = "queued"
  /\ ~NoAttempt(job[j].limits)
  /\ Fails(j)

(* What is stored for a task without an attempt: BridgeTasks.NoAttempt.    *)
AsyncUnattempted(j) ==
  /\ job[j].pc = "queued"
  /\ NoAttempt(job[j].limits)
  /\ job' = [job EXCEPT ![j].pc = "unattempted"]
  /\ UNCHANGED <<file, edits, entry, numbered, saved>>

(* submit_prompt of the bridge sends what is under "prompt"; the other two *)
(* send the file as it is, and ComfyUI finds no node in it.                *)
Sendable(j) ==
  /\ ~job[j].graph.dangling
  /\ Route(j) \in {"async", "once"} => ~job[j].graph.wrapped

Submit(j) ==
  /\ job[j].pc = "prepared"
  /\ Sendable(j)
  /\ job' = [job EXCEPT ![j].pc = "waiting"]
  /\ UNCHANGED <<file, edits, entry, numbered, saved>>

(* No connection, node_errors, or an answer without prompt_id.             *)
SubmitFails(j) == job[j].pc = "prepared" /\ Fails(j)

(* wait_for_history takes any output for the end of the prompt, the        *)
(* worker's _wait_for_history waits until it has completed.                *)
SyncOver(e) == e.images # {} \/ e.other \/ e.completed
AsyncOver(e) == e.completed

Over(j) == entry[j] # None /\ IF Route(j) = "async" THEN AsyncOver(entry[j])
                                                        ELSE SyncOver(entry[j])

(* A deadline in the past: the worker's wait never looks at /history.      *)
NoTimeToLook(j) == Route(j) = "async" /\ job[j].limits["task_timeout_seconds"] = "negative"

Collect(j) ==
  /\ job[j].pc = "waiting"
  /\ Over(j) /\ ~NoTimeToLook(j)
  /\ job' = [job EXCEPT ![j].pc = IF entry[j].images = {} THEN "failed" ELSE "saving",
                        ![j].todo = entry[j].images]
  /\ UNCHANGED <<file, edits, entry, numbered, saved>>

(* Faulty variant: the clock is looked at for prompts /history knows.      *)
GiveUpKnown(j) == job[j].pc = "waiting" /\ entry[j] # None /\ Fails(j)

(* The time-out, at a moment the other way to wait would not have noticed  *)
(* either, or a look at /history that raises.                              *)
GiveUp(j) == job[j].pc = "waiting" /\ Fails(j)

(* Faulty variant: every image under a name made of the clock.             *)
ClockName(i) == 0

(* The name an image is saved under, whatever its server and subfolder.    *)
FileName(i) == i.number

(* download_images; the worker passes over an image without a name, the    *)
(* others make one up from the clock, which stands still here.             *)
Download(j, i) ==
  /\ job[j].pc = "saving"
  /\ i \in job[j].todo
  /\ LET skip == Route(j) = "async" /\ i.number = 0
     IN /\ saved' = IF skip THEN saved
                            ELSE [saved EXCEPT ![<<job[j].request.dir, FileName(i)>>] = i]
        /\ job' = [job EXCEPT ![j].todo = @ \ {i},
                              ![j].paths = IF skip THEN @ ELSE @ \cup {i}]
  /\ UNCHANGED <<file, edits, entry, numbered>>

DownloadFails(j) == job[j].pc = "saving" /\ job[j].todo # {} /\ Fails(j)

Answer(j) ==
  /\ job[j].pc = "saving"
  /\ job[j].todo = {}
  /\ job' = [job EXCEPT ![j].pc = "done"]
  /\ UNCHANGED <<file, edits, entry, numbered, saved>>

Step(j) ==
  \/ Reject(j) \/ \E r \in Request[j] : Receive(j, r)
  \/ SyncPrepare(j) \/ SyncPrepareFails(j)
  \/ AsyncPrepare(j) \/ AsyncPrepareFails(j) \/ AsyncUnattempted(j)
  \/ Submit(j) \/ SubmitFails(j) \/ Collect(j) \/ GiveUp(j)
  \/ (\E i \in job[j].todo : Download(j, i)) \/ DownloadFails(j) \/ Answer(j)

-----------------------------------------------------------------------------
(* ComfyUI ends a prompt: it numbers the images of every folder on its    *)
(* own; an image may have no name; a prompt that has failed keeps what it  *)
(* has put out before.  Given up or not, it is carried out.                *)
Executed(j, o) ==
  LET s == job[j].request.server
      named == {[owner |-> j, server |-> s, folder |-> d,
                 number |-> numbered[<<s, d>>] + 1] : d \in o.folders}
      odd == IF o.unnamed THEN {[owner |-> j, server |-> s, folder |-> "", number |-> 0]} ELSE {}
  IN /\ job[j].pc \in {"waiting", "failed"} /\ job[j].graph # None /\ Sendable(j)
     /\ entry[j] = None
     /\ entry' = [entry EXCEPT ![j] = [completed |-> o.completed, images |-> named \cup odd,
                                       other |-> o.other]]
     /\ numbered' = [k \in DOMAIN numbered |->
                       IF k[1] = s /\ k[2] \in o.folders THEN numbered[k] + 1 ELSE numbered[k]]
     /\ UNCHANGED <<job, file, edits, saved>>

(* Somebody saves, exports or deletes a workflow file.                     *)
Edit(p, c) ==
  /\ edits < MaxEdits
  /\ edits' = edits + 1
  /\ c # file[p].is
  /\ file' = [file EXCEPT ![p] = [is |-> c, version |-> @.version + 1]]
  /\ UNCHANGED <<job, entry, numbered, saved>>

Next ==
  \/ \E j \in Job : Step(j)
  \/ \E j \in Job, o \in Outcome : Executed(j, o)
  \/ \E p \in Edited, c \in Content \cup {Missing} : Edit(p, c)

(* A thread that can go on does.  A wait ends by its time-out at the       *)
(* latest, and every call of ComfyUI has one of its own.                   *)
Spec == Init /\ [][Next]_vars
FairSpec == Spec /\ \A j \in Job : WF_vars(Step(j))
-----------------------------------------------------------------------------
(* What is reported against what the sampler is given, for each input for  *)
(* a number that the nodes of the file take.  If the patch of the route    *)
(* knows it, it has the number of the answer, unless an op has set it; only *)
(* the worker reports a size or a number of steps of 0 and submits the     *)
(* default.  If not, it has the file's own number, or that of an op,       *)
(* whatever the answer reports.  So the worker's numbers never reach the   *)
(* repository's own template, which bridge_job.py:63 claims to be for.     *)
Slots(j) == IF Route(j) = "async" THEN AsyncSlots ELSE SyncSlots

Taken(j) == {s \in job[j].read.is.takes : s[1] \in job[j].read.is.nodes /\ s[2] # "text"}
Known(j) == IF job[j].read.is.wrapped THEN {} ELSE Taken(j) \cap Slots(j)
BySetOp(j, s) == Route(j) # "async" /\ job[j].request.op = [do |-> "set", slot |-> s]

ReportedIsSubmitted ==
  \A j \in Job : job[j].graph # None =>
    LET given == job[j].graph.val
        reported(s) == job[j].values[s[2]]
    IN /\ \A s \in Known(j) :
            \/ given[s] = reported(s) \/ BySetOp(j, s)
            \/ Route(j) = "async" /\ reported(s) = "zero" /\ given[s] = "default"
       /\ \A s \in Taken(j) \ Known(j) :
            given[s] = job[j].read.is.val[s] \/ BySetOp(j, s)

(* The audit of a task names the file its worker reads, and hashes what it *)
(* reads, unless the file has been edited while the task was queued.       *)
AuditNamesWhatRan ==
  \A j \in Job : job[j].read # None /\ Route(j) = "async" =>
    /\ job[j].read.path = job[j].audit.path
    /\ job[j].read.is = job[j].audit.is \/ job[j].read.version > job[j].audit.version

(* What /agent/apply has checked in its dry run is what is submitted, but  *)
(* for the inputs generate_image patches: no op is added, lost or swapped, *)
(* and a link without source needs force, or a request that does not ask   *)
(* for a safe plan (require_safe).  Another graph is submitted only        *)
(* if the file has been edited in between, or if the two look at different *)
(* files: generation names its own, or the name is not one of a .json.     *)
AppliedAsChecked ==
  \A j \in Job : job[j].graph # None /\ Route(j) = "apply" =>
    LET plan == job[j].plan
        g == job[j].graph
        r == plan.of
    IN \/ /\ [g EXCEPT !.val = plan.graph.val, !.wrapped = TRUE] = plan.graph
          /\ \A s \in Slot \ SyncSlots : g.val[s] = plan.graph.val[s]
          /\ r.op.do = "set" => g.val[r.op.slot] = plan.graph.val[r.op.slot]
          /\ g.dangling => r.force \/ ~r.requireSafe
       \/ job[j].read.version > plan.read.version
       \/ r.generation # NoFile \/ r.workflow \in NotJson

(* An image an answer lists is in its file until an image of the same name *)
(* takes the file: one ComfyUI has numbered apart, on another server or in *)
(* another subfolder, for the name is all that is kept of it, or one made  *)
(* up from the clock.                                                      *)
SavedImagesStay ==
  \A j \in Job : \A i \in job[j].paths :
    LET k == saved[<<job[j].request.dir, i.number>>]
    IN /\ k # None
       /\ k # i => i.number = 0 \/ <<k.server, k.folder>> # <<i.server, i.folder>>

(* An answer lists every image ComfyUI has put out for the prompt, those   *)
(* without a name excepted if a worker gives it, and the worker gives it   *)
(* only for a prompt that has completed.  The synchronous ones also answer *)
(* for a prompt that has failed after its first image.                     *)
AnswersAreComplete ==
  \A j \in Job : job[j].pc = "done" =>
    /\ entry[j] # None
    /\ Route(j) = "async" => entry[j].completed
    /\ job[j].paths = {i \in entry[j].images : Route(j) = "async" => i.number # 0}

(* Every request comes to an end, with ComfyUI silent too.                 *)
EveryRequestIsAnswered ==
  <>(\A j \in Job : job[j].pc \in {"done", "failed", "prepared only", "unattempted"})

(* README.md:45, of POST /submit: a request may include a profile to       *)
(* select the workflow.  One that names no workflow gets the profile's.    *)
ProfileSelects ==
  \A j \in Job :
    (job[j].path # None /\ Route(j) = "async") =>
      LET r == job[j].request
      IN r.profile # "none" /\ r.workflow = NoFile /\ r.model = NoFile =>
           job[j].path = <<"base", Profiles[r.profile]>>
=============================================================================
