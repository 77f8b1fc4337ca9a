------------------------- MODULE GenerationProofs -------------------------
(* The ways to an image for any requests, clients, workflow files, servers, *)
(* folders and outcomes of a prompt: what is saved, what is reported, what  *)
(* the agent has checked, and what its audit log says of a request.        *)
EXTENDS Generation, FiniteSetTheorems, TLAPS

Top == Cardinality(Job)
Place == Server \X SubFolder
Ended == {j \in Job : entry[j] # None}
ImagesOf(j) == IF entry[j] = None THEN {} ELSE entry[j].images

Files == file \in [Path -> [is : Graph \cup {Missing}, version : Nat]]

(* ComfyUI has named as many images of a folder as prompts at most.        *)
Numbers ==
  /\ numbered \in [Place -> Nat]
  /\ \A p \in Place : numbered[p] <= Cardinality(Ended)

(* Images of one server and folder with one number are one image.          *)
Same(i, k) == i.number = k.number /\ i.server = k.server /\ i.folder = k.folder
Entries ==
  /\ entry \in [Job -> Entry \cup {None}]
  /\ \A j \in Job : \A i \in ImagesOf(j) : i.number <= numbered[<<i.server, i.folder>>]
  /\ \A j, k \in Job : \A i \in ImagesOf(j), l \in ImagesOf(k) :
       Same(i, l) /\ i.number # 0 => i = l

(* A file has an image with its number that some prompt has put out.       *)
Stored ==
  /\ saved \in [OutDir \X (0..Top) -> Image \cup {None}]
  /\ \A p \in OutDir \X (0..Top) :
       saved[p] # None => saved[p].number = p[2] /\ \E j \in Job : saved[p] \in ImagesOf(j)

(* A job that has come to a graph or further has been asked for.           *)
Asked(x) ==
  /\ DOMAIN x = DOMAIN Fresh
  /\ x.pc = "new" => x.graph = None /\ x.read = None
  /\ x.pc \notin {"new", "failed"} \/ x.graph # None \/ x.read # None \/ x.paths # {} =>
       x.request.server \in Server /\ x.request.dir \in OutDir

(* The audit is of the version there was when the task was made.           *)
Audited(x) ==
  /\ x.pc = "ready" => x.request.route # "async"
  /\ x.pc = "queued" =>
       /\ x.request.route = "async"
       /\ x.path \in Path /\ x.audit.path = x.path
       /\ x.audit.version \in Nat /\ x.audit.version <= file[x.path].version
       /\ x.audit.version = file[x.path].version => x.audit.is = file[x.path].is
  /\ x.read # None /\ x.request.route = "async" =>
       /\ x.read.path = x.audit.path
       /\ x.read.is = x.audit.is \/ x.read.version > x.audit.version

(* What a job has of its prompt's images is what it has not yet to do.     *)
Owed(j, x) == {i \in ImagesOf(j) : x.request.route = "async" => i.number # 0}

Complete(j, x) ==
  /\ x.pc \notin {"saving", "done", "failed"} => x.paths = {}
  /\ x.pc \in {"saving", "done"} =>
       entry[j] # None /\ (x.request.route = "async" => entry[j].completed)
  /\ x.pc = "saving" => x.todo \subseteq ImagesOf(j) /\ x.paths = Owed(j, x) \ x.todo
  /\ x.pc = "done" => x.paths = Owed(j, x)
  /\ x.paths \subseteq ImagesOf(j)
  /\ \A i \in x.paths : saved[<<x.request.dir, i.number>>] # None

JobInv(j, x) == Asked(x) /\ Audited(x) /\ Complete(j, x)

Inv ==
  /\ Files /\ Numbers /\ Entries /\ Stored
  /\ DOMAIN job = Job
  /\ \A j \in Job : JobInv(j, job[j])
-----------------------------------------------------------------------------
LEMMA NameType ==
  ASSUME NEW j \in Job, NEW r \in Request[j]
  PROVE  /\ r.server \in Server /\ r.dir \in OutDir
         /\ WorkflowName(r) \in File
         /\ resolve(r.profile, WorkflowName(r)) \in Path
  <1>1. /\ r.server \in Server /\ r.dir \in OutDir
        /\ r.workflow \in File \cup {NoFile} /\ r.model \in File \cup {NoFile}
    BY RequestAssumption
  <1>2. FirstFile(r.workflow, r.model) \in File  BY <1>1, FileAssumption DEF FirstFile
  <1>3. WorkflowName(r) \in File  BY <1>2, FileAssumption DEF WorkflowName
  <1>4. WorkflowName(r) # NoFile  BY <1>3, FileAssumption
  <1>5. resolve(r.profile, WorkflowName(r)) \in Path
    BY <1>3, <1>4 DEF resolve, Located, Path
  <1> QED  BY <1>1, <1>3, <1>5

LEMMA InitInv == Init => Inv
  <1> SUFFICES ASSUME Init PROVE Inv  OBVIOUS
  <1>1. Files  BY FileSystemAssumption DEF Init, Files
  <1>2. entry \in [Job -> Entry \cup {None}] /\ \A j \in Job : ImagesOf(j) = {}
    BY DEF Init, ImagesOf
  <1>3. Ended = {}  BY DEF Init, Ended
  <1>4. Numbers
    <2>1. \A p \in Place : numbered[p] = 0  BY DEF Init, Place
    <2>2. numbered \in [Place -> Nat]  BY DEF Init, Place
    <2> QED  BY <1>3, <2>1, <2>2, FS_EmptySet DEF Numbers
  <1>5. Entries  BY <1>2 DEF Entries
  <1>6. Stored  BY DEF Init, Stored, Top
  <1>7. ASSUME NEW j \in Job PROVE JobInv(j, job[j])
    <2>1. job[j] = Fresh  BY DEF Init
    <2>2. Asked(Fresh) /\ Audited(Fresh)  BY DEF Fresh, Asked, Audited
    <2>3. Complete(j, Fresh)  BY DEF Fresh, Complete
    <2> QED  BY <2>1, <2>2, <2>3 DEF JobInv
  <1> QED  BY <1>1, <1>4, <1>5, <1>6, <1>7 DEF Inv, Init

(* A step of one job that writes no file.                                  *)
LEMMA JobStep ==
  ASSUME Inv, NEW j \in Job, NEW x, job' = [job EXCEPT ![j] = x], JobInv(j, x),
         UNCHANGED <<file, entry, numbered, saved>>
  PROVE  Inv'
  <1>1. file' = file /\ entry' = entry /\ numbered' = numbered /\ saved' = saved  OBVIOUS
  <1>2. DOMAIN job' = Job /\ job'[j] = x /\ \A k \in Job : k # j => job'[k] = job[k]
    BY DEF Inv
  <1>3. (Files /\ Numbers /\ Entries /\ Stored)'
    BY <1>1 DEF Inv, Files, Numbers, Entries, Stored, Ended, ImagesOf
  <1>4. ASSUME NEW k \in Job PROVE JobInv(k, job[k])'
    <2>1. JobInv(k, job'[k])  BY <1>2 DEF Inv
    <2> QED  BY <1>1, <2>1 DEF JobInv, Asked, Audited, Complete, Owed, ImagesOf
  <1> QED  BY <1>2, <1>3, <1>4 DEF Inv

(* A job that fails keeps what it has.                                     *)
LEMMA FailsInv ==
  ASSUME Inv, NEW j \in Job, Fails(j), job[j].pc # "done"
  PROVE  Inv'
  <1>1. PICK x : x = [job[j] EXCEPT !.pc = "failed"]  OBVIOUS
  <1>2. job' = [job EXCEPT ![j] = x] /\ UNCHANGED <<file, entry, numbered, saved>>
    BY <1>1 DEF Fails
  <1>3. JobInv(j, job[j])  BY DEF Inv
  <1>4. /\ DOMAIN x = DOMAIN Fresh /\ x.pc = "failed"
        /\ x.graph = job[j].graph /\ x.read = job[j].read /\ x.paths = job[j].paths
        /\ x.request = job[j].request /\ x.audit = job[j].audit
    BY <1>1, <1>3 DEF JobInv, Asked, Fresh
  <1>5. Asked(x)  BY <1>3, <1>4 DEF JobInv, Asked, Complete
  <1>6. Audited(x)  BY <1>3, <1>4 DEF JobInv, Audited
  <1>7. Complete(j, x)  BY <1>3, <1>4 DEF JobInv, Complete
  <1> QED  BY <1>2, <1>5, <1>6, <1>7, JobStep DEF JobInv
-----------------------------------------------------------------------------
(* A request that comes in, by any way: nothing is read or saved yet.      *)
LEMMA NewStep ==
  ASSUME Inv, NEW j \in Job, job[j].pc = "new",
         NEW x, job' = [job EXCEPT ![j] = x], UNCHANGED <<file, entry, numbered, saved>>,
         DOMAIN x = DOMAIN Fresh, x.pc \in {"ready", "queued", "prepared only"},
         x.read = job[j].read, x.graph = job[j].graph, x.paths = job[j].paths,
         x.request.server \in Server, x.request.dir \in OutDir,
         x.pc = "ready" => x.request.route # "async",
         x.pc = "queued" =>
           /\ x.request.route = "async" /\ x.path \in Path
           /\ x.audit = Reading(x.path)
  PROVE  Inv'
  <1>1. JobInv(j, job[j]) /\ Files  BY DEF Inv
  <1>2. x.read = None /\ x.paths = {}  BY <1>1 DEF JobInv, Asked, Complete
  <1>3. Asked(x)  BY DEF Asked
  <1>4. Audited(x)
    <2>1. CASE x.pc = "queued"
      <3>1. /\ x.audit.path = x.path /\ x.audit.version = file[x.path].version
            /\ x.audit.is = file[x.path].is /\ x.audit.version \in Nat
        BY <1>1, <2>1 DEF Reading, Files
      <3> QED  BY <1>2, <2>1, <3>1 DEF Audited
    <2>2. CASE x.pc # "queued"  BY <1>2, <2>2 DEF Audited
    <2> QED  BY <2>1, <2>2
  <1>5. Complete(j, x)  BY <1>2 DEF Complete
  <1> QED  BY <1>3, <1>4, <1>5, JobStep DEF JobInv

(* A task without an attempt has read nothing.                             *)
LEMMA UnattemptedInv == ASSUME Inv, NEW j \in Job, AsyncUnattempted(j) PROVE Inv'
  <1>1. PICK x : x = [job[j] EXCEPT !.pc = "unattempted"]  OBVIOUS
  <1>2. /\ job' = [job EXCEPT ![j] = x] /\ UNCHANGED <<file, entry, numbered, saved>>
        /\ job[j].pc = "queued"
    BY <1>1 DEF AsyncUnattempted
  <1>3. JobInv(j, job[j])  BY DEF Inv
  <1>4. /\ DOMAIN x = DOMAIN Fresh /\ x.pc = "unattempted"
        /\ x.graph = job[j].graph /\ x.read = job[j].read /\ x.paths = job[j].paths
        /\ x.request = job[j].request /\ x.audit = job[j].audit
    BY <1>1, <1>3 DEF JobInv, Asked, Fresh
  <1>5. Asked(x)  BY <1>2, <1>3, <1>4 DEF JobInv, Asked
  <1>6. Audited(x)  BY <1>3, <1>4 DEF JobInv, Audited
  <1>7. Complete(j, x)  BY <1>2, <1>3, <1>4 DEF JobInv, Complete
  <1> QED  BY <1>2, <1>5, <1>6, <1>7, JobStep DEF JobInv

(* OnceStart, ApplyCheck change a request: an op, or what Merged overlays. *)
LEMMA RequestKept ==
  ASSUME NEW j \in Job, NEW r \in Request[j]
  PROVE  /\ [r EXCEPT !.op = NoOp].server = r.server /\ [r EXCEPT !.op = NoOp].dir = r.dir
         /\ [r EXCEPT !.op = NoOp].route = r.route
         /\ Merged(r).server = r.server /\ Merged(r).dir = r.dir /\ Merged(r).route = r.route
  <1>1. {"server", "dir", "route", "op", "workflow", "top", "nested"} \subseteq DOMAIN r
    BY RequestAssumption
  <1> QED  BY <1>1 DEF Merged

LEMMA ReceiveInv ==
  ASSUME Inv, NEW j \in Job, NEW r \in Request[j], Receive(j, r)
  PROVE  Inv'
  <1>1. job[j].pc = "new" /\ DOMAIN job[j] = DOMAIN Fresh
    BY DEF Inv, JobInv, Asked, Receive, SyncReceive, OnceStart, ApplyCheck, ApplyRefused, AsyncAccept
  <1>2. r.server \in Server /\ r.dir \in OutDir /\ resolve(r.profile, WorkflowName(r)) \in Path
    BY NameType
  <1>3. CASE SyncReceive(j, r)
    <2>1. PICK x : x = [job[j] EXCEPT !.pc = "ready", !.request = r,
                          !.values = Drawn(normalize_request(r)),
                          !.path = Located("cwd", WorkflowName(r))]
      OBVIOUS
    <2>2. /\ job' = [job EXCEPT ![j] = x] /\ UNCHANGED <<file, entry, numbered, saved>>
          /\ r.route = "sync"
      BY <1>3, <2>1 DEF SyncReceive
    <2>3. /\ DOMAIN x = DOMAIN Fresh /\ x.pc = "ready" /\ x.request = r
          /\ x.read = job[j].read /\ x.graph = job[j].graph /\ x.paths = job[j].paths
      BY <1>1, <2>1 DEF Fresh
    <2> QED  BY <1>1, <1>2, <2>2, <2>3, NewStep
  <1>4. CASE OnceStart(j, r)
    <2>0. PICK q : q = [r EXCEPT !.op = NoOp]  OBVIOUS
    <2>1. PICK x : x = [job[j] EXCEPT !.pc = "ready", !.request = q,
                          !.values = Drawn([f \in Field |-> first_existing(r.top[f], "none")]),
                          !.path = Located("cwd", FirstFile(r.workflow, NoFile))]
      OBVIOUS
    <2>2. /\ job' = [job EXCEPT ![j] = x] /\ UNCHANGED <<file, entry, numbered, saved>>
          /\ r.route = "once"
      BY <1>4, <2>0, <2>1 DEF OnceStart
    <2>3. /\ DOMAIN x = DOMAIN Fresh /\ x.pc = "ready" /\ x.request = q
          /\ x.read = job[j].read /\ x.graph = job[j].graph /\ x.paths = job[j].paths
      BY <1>1, <2>1 DEF Fresh
    <2>4. q.server = r.server /\ q.dir = r.dir /\ q.route = "once"
      BY <2>0, <2>2, RequestKept
    <2> QED  BY <1>1, <1>2, <2>2, <2>3, <2>4, NewStep
  <1>5. CASE ApplyCheck(j, r)
    <2>0. PICK q : q = Merged(r)  OBVIOUS
    <2>1. PICK p : p = Located("cwd", FirstFile(r.workflow, NoFile))  OBVIOUS
    <2>2. PICK x : x = [job[j] EXCEPT
            !.pc = IF r.execute THEN "ready" ELSE "prepared only",
            !.request = q, !.values = Drawn(normalize_request(q)),
            !.path = Located("cwd", WorkflowName(q)),
            !.plan = [read |-> Reading(p), graph |-> Applied(file[p].is, r.op), of |-> r]]
      OBVIOUS
    <2>3. /\ job' = [job EXCEPT ![j] = x] /\ UNCHANGED <<file, entry, numbered, saved>>
          /\ r.route = "apply"
      BY <1>5, <2>0, <2>1, <2>2 DEF ApplyCheck
    <2>4. /\ DOMAIN x = DOMAIN Fresh /\ x.pc \in {"ready", "prepared only"} /\ x.request = q
          /\ x.read = job[j].read /\ x.graph = job[j].graph /\ x.paths = job[j].paths
      BY <1>1, <2>2 DEF Fresh
    <2>5. q.server = r.server /\ q.dir = r.dir /\ q.route = "apply"
      BY <2>0, <2>3, RequestKept
    <2> QED  BY <1>1, <1>2, <2>3, <2>4, <2>5, NewStep
  <1>6. CASE ApplyRefused(j, r)
    BY <1>1, <1>6, FailsInv DEF ApplyRefused
  <1>7. CASE AsyncAccept(j, r)
    <2>1. PICK p : p = resolve(r.profile, WorkflowName(r))  OBVIOUS
    <2>2. PICK x : x = [job[j] EXCEPT !.pc = "queued", !.request = r,
                          !.values = normalize_request(r), !.limits = WithPolicy(r.limits),
                          !.path = p, !.audit = build_audit_fields(p)]
      OBVIOUS
    <2>3. /\ job' = [job EXCEPT ![j] = x] /\ UNCHANGED <<file, entry, numbered, saved>>
          /\ r.route = "async"
      BY <1>7, <2>1, <2>2 DEF AsyncAccept
    <2>4. /\ DOMAIN x = DOMAIN Fresh /\ x.pc = "queued" /\ x.request = r
          /\ x.read = job[j].read /\ x.graph = job[j].graph /\ x.paths = job[j].paths
          /\ x.path = p /\ x.audit = Reading(p)
      BY <1>1, <2>2 DEF Fresh, build_audit_fields
    <2> QED  BY <1>1, <1>2, <2>1, <2>3, <2>4, NewStep
  <1> QED  BY <1>3, <1>4, <1>5, <1>6, <1>7 DEF Receive
-----------------------------------------------------------------------------
(* A job goes on with its request: the files and folders stay.             *)
LEMMA PrepareInv ==
  ASSUME Inv, NEW j \in Job, SyncPrepare(j) \/ AsyncPrepare(j)
  PROVE  Inv'
  <1>1. PICK p : p = job[j].path  OBVIOUS
  <1>2. PICK g : g = IF job[j].pc = "ready"
                     THEN LET patched == Patched(file[p].is, SyncPatch, job[j].values)
                          IN IF job[j].request.op = NoOp THEN patched
                             ELSE Applied(patched, job[j].request.op)
                     ELSE Patched(file[p].is, AsyncPatch, Truthy(job[j].values))
    OBVIOUS
  <1>3. PICK x : x = [job[j] EXCEPT !.pc = "prepared", !.read = Reading(p), !.graph = g]
    OBVIOUS
  <1>4. DOMAIN job = Job /\ JobInv(j, job[j]) /\ Files  BY DEF Inv
  <1>5. /\ job' = [job EXCEPT ![j] = x] /\ UNCHANGED <<file, entry, numbered, saved>>
        /\ job[j].pc \in {"ready", "queued"}
    <2>1. CASE SyncPrepare(j)
      <3>1. job[j].pc = "ready"  BY <2>1 DEF SyncPrepare
      <3>2. g = IF job[j].request.op = NoOp
                THEN Patched(file[p].is, SyncPatch, job[j].values)
                ELSE Applied(Patched(file[p].is, SyncPatch, job[j].values), job[j].request.op)
        BY <1>2, <3>1
      <3> QED  BY <1>1, <1>3, <1>4, <2>1, <3>1, <3>2 DEF SyncPrepare
    <2>2. CASE AsyncPrepare(j)
      <3>1. job[j].pc = "queued"  BY <2>2 DEF AsyncPrepare
      <3>2. g = Patched(file[p].is, AsyncPatch, Truthy(job[j].values))  BY <1>2, <3>1
      <3> QED  BY <1>1, <1>3, <1>4, <2>2, <3>1, <3>2 DEF AsyncPrepare
    <2> QED  BY <2>1, <2>2
  <1>6. /\ DOMAIN x = DOMAIN Fresh /\ x.pc = "prepared" /\ x.read = Reading(p)
        /\ x.paths = job[j].paths /\ x.request = job[j].request /\ x.audit = job[j].audit
    BY <1>3, <1>4 DEF JobInv, Asked, Fresh
  <1>7. Asked(x)  BY <1>4, <1>5, <1>6 DEF JobInv, Asked
  <1>8. Audited(x)
    <2>1. CASE job[j].pc = "ready"
      BY <1>4, <1>6, <2>1 DEF JobInv, Audited
    <2>2. CASE job[j].pc = "queued"
      <3>1. /\ p \in Path /\ x.audit.path = p
            /\ x.audit.version \in Nat /\ x.audit.version <= file[p].version
            /\ x.audit.version = file[p].version => x.audit.is = file[p].is
        BY <1>1, <1>4, <1>6, <2>2 DEF JobInv, Audited
      <3>2. file[p].version \in Nat  BY <1>4, <3>1 DEF Files
      <3>3. x.read.path = p /\ x.read.is = file[p].is /\ x.read.version = file[p].version
        BY <1>6 DEF Reading
      <3> QED  BY <1>6, <3>1, <3>2, <3>3 DEF Audited
    <2> QED  BY <1>5, <2>1, <2>2
  <1>9. Complete(j, x)  BY <1>4, <1>5, <1>6 DEF JobInv, Complete
  <1> QED  BY <1>5, <1>7, <1>8, <1>9, JobStep DEF JobInv

LEMMA SubmitInv == ASSUME Inv, NEW j \in Job, Submit(j) PROVE Inv'
  <1>1. PICK x : x = [job[j] EXCEPT !.pc = "waiting"]  OBVIOUS
  <1>2. /\ job' = [job EXCEPT ![j] = x] /\ UNCHANGED <<file, entry, numbered, saved>>
        /\ job[j].pc = "prepared"
    BY <1>1 DEF Submit
  <1>3. JobInv(j, job[j])  BY DEF Inv
  <1>4. /\ DOMAIN x = DOMAIN Fresh /\ x.pc = "waiting"
        /\ x.graph = job[j].graph /\ x.read = job[j].read /\ x.paths = job[j].paths
        /\ x.request = job[j].request /\ x.audit = job[j].audit
    BY <1>1, <1>3 DEF JobInv, Asked, Fresh
  <1>5. Asked(x)  BY <1>2, <1>3, <1>4 DEF JobInv, Asked
  <1>6. Audited(x)  BY <1>3, <1>4 DEF JobInv, Audited
  <1>7. Complete(j, x)  BY <1>2, <1>3, <1>4 DEF JobInv, Complete
  <1> QED  BY <1>2, <1>5, <1>6, <1>7, JobStep DEF JobInv

LEMMA CollectInv == ASSUME Inv, NEW j \in Job, Collect(j) PROVE Inv'
  <1>1. PICK x : x = [job[j] EXCEPT !.pc = IF entry[j].images = {} THEN "failed" ELSE "saving",
                                   !.todo = entry[j].images]
    OBVIOUS
  <1>2. JobInv(j, job[j]) /\ DOMAIN job = Job  BY DEF Inv
  <1>3. /\ job' = [job EXCEPT ![j] = x] /\ UNCHANGED <<file, entry, numbered, saved>>
        /\ job[j].pc = "waiting" /\ Over(j)
    BY <1>1, <1>2 DEF Collect
  <1>4. /\ DOMAIN x = DOMAIN Fresh /\ x.pc \in {"failed", "saving"} /\ x.todo = entry[j].images
        /\ x.graph = job[j].graph /\ x.read = job[j].read /\ x.paths = job[j].paths
        /\ x.request = job[j].request /\ x.audit = job[j].audit
    BY <1>1, <1>2 DEF JobInv, Asked, Fresh
  <1>5. Asked(x)  BY <1>2, <1>3, <1>4 DEF JobInv, Asked
  <1>6. Audited(x)  BY <1>2, <1>4 DEF JobInv, Audited
  <1>7. Complete(j, x)
    <2>1. entry[j] # None /\ (x.request.route = "async" => entry[j].completed)
      BY <1>3, <1>4 DEF Over, AsyncOver, Route
    <2>2. x.todo = ImagesOf(j) /\ x.paths = {}
      BY <1>2, <1>3, <1>4, <2>1 DEF JobInv, Complete, ImagesOf
    <2>3. Owed(j, x) \ x.todo = {}  BY <2>2 DEF Owed
    <2> QED  BY <1>4, <2>1, <2>2, <2>3 DEF Complete
  <1> QED  BY <1>3, <1>5, <1>6, <1>7, JobStep DEF JobInv

LEMMA AnswerInv == ASSUME Inv, NEW j \in Job, Answer(j) PROVE Inv'
  <1>1. PICK x : x = [job[j] EXCEPT !.pc = "done"]  OBVIOUS
  <1>2. JobInv(j, job[j])  BY DEF Inv
  <1>3. /\ job' = [job EXCEPT ![j] = x] /\ UNCHANGED <<file, entry, numbered, saved>>
        /\ job[j].pc = "saving" /\ job[j].todo = {}
    BY <1>1 DEF Answer
  <1>4. /\ DOMAIN x = DOMAIN Fresh /\ x.pc = "done"
        /\ x.graph = job[j].graph /\ x.read = job[j].read /\ x.paths = job[j].paths
        /\ x.request = job[j].request /\ x.audit = job[j].audit
    BY <1>1, <1>2 DEF JobInv, Asked, Fresh
  <1>5. Asked(x)  BY <1>2, <1>3, <1>4 DEF JobInv, Asked
  <1>6. Audited(x)  BY <1>2, <1>4 DEF JobInv, Audited
  <1>7. Complete(j, x)
    <2>1. Owed(j, x) = Owed(j, job[j])  BY <1>4 DEF Owed
    <2> QED  BY <1>2, <1>3, <1>4, <2>1 DEF JobInv, Complete
  <1> QED  BY <1>3, <1>5, <1>6, <1>7, JobStep DEF JobInv
-----------------------------------------------------------------------------
LEMMA ImageType ==
  ASSUME Entries, NEW j \in Job, NEW i \in ImagesOf(j)
  PROVE  /\ i \in Image /\ i.number \in 0..Top /\ i.server \in Server /\ i.folder \in SubFolder
  <1>1. entry[j] # None /\ i \in entry[j].images  BY DEF ImagesOf
  <1>2. entry[j] \in Entry  BY <1>1 DEF Entries
  <1>3. i \in Image  BY <1>1, <1>2 DEF Entry
  <1> QED  BY <1>3 DEF Image, Top

(* An image is passed over only by a worker, and only without a name.      *)
LEMMA DownloadInv ==
  ASSUME Inv, NEW j \in Job, NEW i \in job[j].todo, Download(j, i)
  PROVE  Inv'
  <1>1. PICK x : x = [job[j] EXCEPT
          !.todo = @ \ {i},
          !.paths = IF Route(j) = "async" /\ i.number = 0 THEN @ ELSE @ \cup {i}]
    OBVIOUS
  <1>2. JobInv(j, job[j]) /\ DOMAIN job = Job /\ Entries /\ Stored  BY DEF Inv
  <1>3. PICK at : at = <<job[j].request.dir, i.number>>  OBVIOUS
  <1>4. /\ job' = [job EXCEPT ![j] = x] /\ job[j].pc = "saving"
        /\ file' = file /\ entry' = entry /\ numbered' = numbered
        /\ saved' = IF Route(j) = "async" /\ i.number = 0 THEN saved ELSE [saved EXCEPT ![at] = i]
    BY <1>1, <1>2, <1>3 DEF Download, FileName
  <1>5. /\ DOMAIN x = DOMAIN Fresh /\ x.pc = "saving"
        /\ x.graph = job[j].graph /\ x.read = job[j].read
        /\ x.request = job[j].request /\ x.audit = job[j].audit
        /\ x.todo = job[j].todo \ {i}
        /\ x.paths = IF Route(j) = "async" /\ i.number = 0 THEN job[j].paths
                                                          ELSE job[j].paths \cup {i}
    BY <1>1, <1>2, <1>4 DEF JobInv, Asked, Fresh
  <1>6. i \in ImagesOf(j)  BY <1>2, <1>4 DEF JobInv, Complete
  <1>7. i \in Image /\ i.number \in 0..Top /\ i # None
    BY <1>2, <1>6, ImageType, NoneAssumption
  <1>8. at \in OutDir \X (0..Top) /\ at[2] = i.number
    BY <1>2, <1>3, <1>4, <1>7 DEF JobInv, Asked
  <1>9. ASSUME NEW p \in OutDir \X (0..Top)
        PROVE  /\ saved'[p] \in Image \cup {None}
               /\ saved'[p] = saved[p] \/ (saved'[p] = i /\ p = at)
    BY <1>2, <1>4, <1>7 DEF Stored
  <1>10. Stored'
    <2>1. saved' \in [OutDir \X (0..Top) -> Image \cup {None}]
      BY <1>2, <1>4, <1>7 DEF Stored
    <2>2. ASSUME NEW p \in OutDir \X (0..Top), saved'[p] # None
          PROVE  saved'[p].number = p[2] /\ \E k \in Job : saved'[p] \in ImagesOf(k)'
      <3>1. \A k \in Job : ImagesOf(k)' = ImagesOf(k)  BY <1>4 DEF ImagesOf
      <3>2. CASE saved'[p] = saved[p]  BY <1>2, <2>2, <3>1, <3>2 DEF Stored
      <3>3. CASE saved'[p] = i /\ p = at  BY <1>6, <1>8, <3>1, <3>3
      <3> QED  BY <1>9, <3>2, <3>3
    <2> QED  BY <2>1, <2>2 DEF Stored
  <1>11. ASSUME NEW p \in OutDir \X (0..Top), saved[p] # None PROVE saved'[p] # None
    BY <1>7, <1>9, <1>11
  <1>12. DOMAIN job' = Job /\ job'[j] = x /\ \A k \in Job : k # j => job'[k] = job[k]
    BY <1>2, <1>4
  <1>13. (Files /\ Numbers /\ Entries)'
    BY <1>4 DEF Inv, Files, Numbers, Entries, Ended, ImagesOf
  <1>14. ASSUME NEW k \in Job, NEW y, Asked(y), Complete(k, y), y.paths # {}
         PROVE  \A l \in y.paths : saved'[<<y.request.dir, l.number>>] # None
    <2>1. ASSUME NEW l \in y.paths PROVE saved'[<<y.request.dir, l.number>>] # None
      <3>1. l \in ImagesOf(k)  BY <1>14, <2>1 DEF Complete
      <3>2. l.number \in 0..Top  BY <1>2, <3>1, ImageType
      <3>3. y.request.dir \in OutDir  BY <1>14 DEF Asked
      <3>4. saved[<<y.request.dir, l.number>>] # None  BY <1>14, <2>1 DEF Complete
      <3> QED  BY <1>11, <3>2, <3>3, <3>4
    <2> QED  BY <2>1
  <1>15. ASSUME NEW k \in Job PROVE JobInv(k, job[k])'
    <2>1. CASE k # j
      <3>1. JobInv(k, job'[k])  BY <1>12, <2>1 DEF Inv
      <3>2. Asked(job[k])' /\ Audited(job[k])'  BY <1>4, <3>1 DEF JobInv, Asked, Audited
      <3>3. \A l \in job'[k].paths : saved'[<<job'[k].request.dir, l.number>>] # None
        BY <1>12, <1>14, <2>1, <3>1 DEF JobInv
      <3>4. ImagesOf(k)' = ImagesOf(k)  BY <1>4 DEF ImagesOf
      <3>5. Complete(k, job[k])'  BY <1>4, <3>1, <3>3, <3>4 DEF JobInv, Complete, Owed
      <3> QED  BY <3>2, <3>5 DEF JobInv
    <2>2. CASE k = j
      <3>1. Asked(x) /\ Audited(x)  BY <1>2, <1>4, <1>5 DEF JobInv, Asked, Audited
      <3>2. Asked(job[j])' /\ Audited(job[j])'  BY <1>4, <1>12, <3>1 DEF Asked, Audited
      <3>3. ImagesOf(j)' = ImagesOf(j)  BY <1>4 DEF ImagesOf
      <3>4. job[j].todo \subseteq ImagesOf(j) /\ job[j].paths = Owed(j, job[j]) \ job[j].todo
            /\ entry[j] # None /\ (job[j].request.route = "async" => entry[j].completed)
        BY <1>2, <1>4 DEF JobInv, Complete
      <3>5. Owed(j, x) = Owed(j, job[j])  BY <1>5 DEF Owed
      <3>6. x.todo \subseteq ImagesOf(j) /\ x.paths = Owed(j, x) \ x.todo
        <4>1. i \in Owed(j, job[j]) <=> ~(Route(j) = "async" /\ i.number = 0)
          BY <1>6 DEF Owed, Route
        <4> QED  BY <1>5, <3>4, <3>5, <4>1
      <3>7. x.paths \subseteq ImagesOf(j)  BY <3>6 DEF Owed
      <3>8. \A l \in x.paths : saved'[<<x.request.dir, l.number>>] # None
        <4>1. ASSUME NEW l \in job[j].paths PROVE saved'[<<x.request.dir, l.number>>] # None
          BY <1>2, <1>5, <1>14, <4>1 DEF JobInv
        <4>2. ASSUME ~(Route(j) = "async" /\ i.number = 0) PROVE saved'[at] = i
          BY <1>2, <1>4, <1>8, <4>2 DEF Stored
        <4> QED  BY <1>3, <1>5, <1>7, <4>1, <4>2
      <3>9. Complete(j, job[j])'
        BY <1>4, <1>5, <1>12, <3>3, <3>4, <3>6, <3>7, <3>8 DEF Complete, Owed
      <3> QED  BY <2>2, <3>2, <3>9 DEF JobInv
    <2> QED  BY <2>1, <2>2
  <1> QED  BY <1>10, <1>12, <1>13, <1>15 DEF Inv
-----------------------------------------------------------------------------
(* The images of a prompt are new ones: one of each folder, or no name.    *)
NewImages(j, o) ==
  {[owner |-> j, server |-> job[j].request.server, folder |-> d,
    number |-> numbered[<<job[j].request.server, d>>] + 1] : d \in o.folders}
NoName(j, o) ==
  IF o.unnamed THEN {[owner |-> j, server |-> job[j].request.server, folder |-> "", number |-> 0]}
               ELSE {}
PutOut(j, o) ==
  [completed |-> o.completed, images |-> NewImages(j, o) \cup NoName(j, o), other |-> o.other]

LEMMA EndedCount ==
  ASSUME NEW j \in Job, entry[j] = None, entry'[j] # None,
         \A k \in Job : k # j => entry'[k] = entry[k]
  PROVE  /\ Cardinality(Ended) \in Nat /\ Cardinality(Ended)' = Cardinality(Ended) + 1
         /\ Cardinality(Ended)' <= Top /\ Top \in Nat
  <1>1. PICK old : old = Ended  OBVIOUS
  <1>2. old \subseteq Job /\ j \notin old  BY <1>1 DEF Ended
  <1>3. IsFiniteSet(old)  BY <1>2, JobAssumption, FS_Subset
  <1>4. Ended' = old \cup {j}  BY <1>1 DEF Ended
  <1>5. Cardinality(old) \in Nat /\ Cardinality(old \cup {j}) = Cardinality(old) + 1
    BY <1>2, <1>3, FS_CardinalityType, FS_AddElement
  <1>6. old \cup {j} \subseteq Job  BY <1>2
  <1>7. Cardinality(old \cup {j}) <= Top /\ Top \in Nat
    BY <1>6, JobAssumption, FS_Subset, FS_CardinalityType DEF Top
  <1> QED  BY <1>1, <1>4, <1>5, <1>7

LEMMA ExecutedInv ==
  ASSUME Inv, NEW j \in Job, NEW o \in Outcome, Executed(j, o)
  PROVE  Inv'
  <1>1. PICK e : e = PutOut(j, o)  OBVIOUS
  <1>2. PICK s : s = job[j].request.server  OBVIOUS
  <1>3. /\ job' = job /\ file' = file /\ saved' = saved
        /\ entry[j] = None /\ entry' = [entry EXCEPT ![j] = e]
        /\ numbered' = [k \in DOMAIN numbered |->
                          IF k[1] = s /\ k[2] \in o.folders THEN numbered[k] + 1 ELSE numbered[k]]
        /\ job[j].graph # None
    BY <1>1, <1>2 DEF Executed, PutOut, NewImages, NoName
  <1>4. JobInv(j, job[j]) /\ Numbers /\ Entries /\ Stored /\ Files  BY DEF Inv
  <1>5. s \in Server  BY <1>2, <1>3, <1>4 DEF JobInv, Asked
  <1>6. o.folders \subseteq SubFolder /\ o.completed \in BOOLEAN /\ o.other \in BOOLEAN
    BY OutcomeAssumption
  <1>7. entry'[j] = e /\ \A k \in Job : k # j => entry'[k] = entry[k]
    BY <1>3, <1>4 DEF Entries
  <1>8. e.images = NewImages(j, o) \cup NoName(j, o)  BY <1>1 DEF PutOut
  <1>9. ASSUME NEW i \in e.images
        PROVE  \/ /\ i.number = 0 /\ i.server = s /\ i.folder = "" /\ i.owner = j
                  /\ i = [owner |-> j, server |-> s, folder |-> "", number |-> 0]
               \/ /\ i.folder \in o.folders /\ i.server = s /\ i.owner = j
                  /\ i.number = numbered[<<s, i.folder>>] + 1
                  /\ i = [owner |-> j, server |-> s, folder |-> i.folder, number |-> i.number]
    <2>1. CASE i \in NewImages(j, o)
      <3>1. PICK d \in o.folders : i = [owner |-> j, server |-> s, folder |-> d,
                                        number |-> numbered[<<s, d>>] + 1]
        BY <1>2, <2>1 DEF NewImages
      <3>2. i.folder = d /\ i.server = s /\ i.owner = j /\ i.number = numbered[<<s, d>>] + 1
        BY <3>1
      <3>3. i = [owner |-> j, server |-> s, folder |-> i.folder, number |-> i.number]
        BY <3>1, <3>2
      <3> QED  BY <3>2, <3>3
    <2>2. CASE i \in NoName(j, o)
      <3>1. i \in {[owner |-> j, server |-> s, folder |-> "", number |-> 0]}
        BY <1>2, <2>2, Zenon DEF NoName
      <3>2. i = [owner |-> j, server |-> s, folder |-> "", number |-> 0]  BY <3>1, Zenon
      <3>3. i.number = 0 /\ i.server = s /\ i.folder = "" /\ i.owner = j  BY <3>2
      <3> QED  BY <3>2, <3>3, Zenon
    <2>3. i \in NewImages(j, o) \/ i \in NoName(j, o)  BY <1>8
    <2> QED  BY <2>1, <2>2, <2>3, Zenon
  <1>10. ASSUME NEW p \in Place
         PROVE  /\ numbered[p] \in Nat /\ numbered'[p] \in Nat
                /\ numbered[p] <= numbered'[p] /\ numbered'[p] <= numbered[p] + 1
    <2>1. numbered[p] \in Nat /\ DOMAIN numbered = Place  BY <1>4 DEF Numbers
    <2> QED  BY <1>3, <2>1
  <1>11. ASSUME NEW d \in o.folders
         PROVE  <<s, d>> \in Place /\ numbered'[<<s, d>>] = numbered[<<s, d>>] + 1
    <2>1. PICK p : p = <<s, d>>  OBVIOUS
    <2>2. p \in Place /\ p[1] = s /\ p[2] = d  BY <1>5, <1>6, <2>1 DEF Place
    <2>3. DOMAIN numbered = Place  BY <1>4 DEF Numbers
    <2> QED  BY <1>3, <2>1, <2>2, <2>3
  <1>12. numbered' \in [Place -> Nat]
    <2>1. DOMAIN numbered = Place  BY <1>4 DEF Numbers
    <2>2. PICK n : n = [k \in Place |-> IF k[1] = s /\ k[2] \in o.folders THEN numbered[k] + 1
                                                                       ELSE numbered[k]]
      OBVIOUS
    <2>3. numbered' = n  BY <1>3, <2>1, <2>2
    <2>4. \A p \in Place : n[p] \in Nat  BY <1>10, <2>3
    <2>5. n \in [Place -> Nat]  BY <2>2, <2>4
    <2> QED  BY <2>3, <2>5
  <1>13. e.images \subseteq Image
    <2>1. ASSUME NEW d \in o.folders PROVE numbered[<<s, d>>] + 1 \in 0..Top
      <3>0. <<s, d>> \in Place  BY <1>11
      <3>1. numbered[<<s, d>>] \in Nat /\ numbered[<<s, d>>] <= Cardinality(Ended)
        BY <1>4, <3>0 DEF Numbers
      <3>2. Cardinality(Ended) \in Nat /\ Cardinality(Ended) + 1 <= Top /\ Top \in Nat
        <4> DEFINE More == Ended \cup {j}
        <4>2. Ended \subseteq Job /\ j \notin Ended  BY <1>3 DEF Ended
        <4>3. IsFiniteSet(Ended)  BY <4>2, JobAssumption, FS_Subset
        <4>4. Cardinality(Ended) \in Nat /\ Cardinality(More) = Cardinality(Ended) + 1
          BY <4>2, <4>3, FS_CardinalityType, FS_AddElement
        <4>5. More \subseteq Job  BY <4>2
        <4>6. Cardinality(More) <= Top /\ Top \in Nat
          BY <4>5, JobAssumption, FS_Subset, FS_CardinalityType DEF Top
        <4> QED  BY <4>4, <4>6
      <3> QED  BY <3>1, <3>2
    <2>2. 0 \in 0..Top  BY JobAssumption, FS_CardinalityType DEF Top
    <2>3. ASSUME NEW i \in e.images PROVE i \in Image
      <3>1. CASE i = [owner |-> j, server |-> s, folder |-> "", number |-> 0]
        BY <1>5, <2>2, <3>1 DEF Image, Top, SubFolder
      <3>2. CASE /\ i.folder \in o.folders /\ i.number = numbered[<<s, i.folder>>] + 1
                 /\ i = [owner |-> j, server |-> s, folder |-> i.folder, number |-> i.number]
        <4>1. i.folder \in SubFolder /\ i.number \in 0..Top  BY <1>6, <2>1, <3>2
        <4>2. PICK d : d = i.folder  OBVIOUS
        <4>3. PICK n : n = i.number  OBVIOUS
        <4>4. i = [owner |-> j, server |-> s, folder |-> d, number |-> n]
          BY <3>2, <4>2, <4>3, Zenon
        <4> QED  BY <1>5, <4>1, <4>2, <4>3, <4>4 DEF Image, Top
      <3> QED  BY <1>9, <3>1, <3>2
    <2> QED  BY <2>3
  <1>14. e \in Entry
    <2>1. e = [completed |-> o.completed, images |-> NewImages(j, o) \cup NoName(j, o),
               other |-> o.other]
      BY <1>1 DEF PutOut
    <2> QED  BY <1>6, <1>8, <1>13, <2>1 DEF Entry
  <1>15. e # None  BY <1>14, NoneAssumption
  <1>16. /\ ImagesOf(j) = {} /\ ImagesOf(j)' = e.images
         /\ \A k \in Job : k # j => ImagesOf(k)' = ImagesOf(k)
    BY <1>3, <1>7, <1>15 DEF ImagesOf
  <1>17. Numbers'
    <2>1. /\ Cardinality(Ended) \in Nat /\ Cardinality(Ended)' = Cardinality(Ended) + 1
      BY <1>3, <1>7, <1>15, EndedCount
    <2>2. ASSUME NEW p \in Place PROVE numbered'[p] <= Cardinality(Ended)'
      <3>1. numbered[p] <= Cardinality(Ended)  BY <1>4 DEF Numbers
      <3> QED  BY <1>10, <2>1, <3>1
    <2> QED  BY <1>12, <2>2 DEF Numbers, Place
  <1>18. Entries'
    <2>1. entry' \in [Job -> Entry \cup {None}]  BY <1>3, <1>4, <1>14 DEF Entries
    <2>2. ASSUME NEW k \in Job, NEW i \in ImagesOf(k)'
          PROVE  i.number <= numbered'[<<i.server, i.folder>>]
      <3>1. CASE k # j
        <4>1. i \in ImagesOf(k)  BY <1>16, <2>2, <3>1
        <4>2. PICK p : p = <<i.server, i.folder>>  OBVIOUS
        <4>3. p \in Place /\ i.number \in Nat  BY <1>4, <4>1, <4>2, ImageType DEF Place
        <4>4. i.number <= numbered[p]  BY <1>4, <4>1, <4>2 DEF Entries
        <4>5. i.number <= numbered'[p]  BY <1>10, <4>3, <4>4
        <4> QED  BY <4>2, <4>5
      <3>2. CASE k = j
        <4>1. i \in e.images  BY <1>16, <2>2, <3>2
        <4>2. CASE i.number = 0 /\ i.server = s /\ i.folder = ""
          <5>1. <<s, "">> \in Place  BY <1>5 DEF Place, SubFolder
          <5>2. numbered'[<<s, "">>] \in Nat  BY <1>12, <5>1
          <5>3. PICK n : n = numbered'[<<s, "">>]  OBVIOUS
          <5>5. n \in Nat  BY <5>2, <5>3, Zenon
          <5>4. 0 <= n  BY <5>5
          <5> QED  BY <4>2, <5>3, <5>4
        <4>3. CASE i.folder \in o.folders /\ i.server = s
                   /\ i.number = numbered[<<s, i.folder>>] + 1
          <5>1. <<s, i.folder>> \in Place
                /\ numbered'[<<s, i.folder>>] = numbered[<<s, i.folder>>] + 1
            BY <1>11, <4>3
          <5>2. numbered'[<<s, i.folder>>] \in Nat  BY <1>12, <5>1
          <5> QED  BY <4>3, <5>1, <5>2
        <4> QED  BY <1>9, <4>1, <4>2, <4>3
      <3> QED  BY <3>1, <3>2
    <2>3. ASSUME NEW k \in Job, k # j, NEW i \in e.images, NEW l \in ImagesOf(k),
                 Same(i, l), i.number # 0
          PROVE  FALSE
      <3>1. /\ i.number = numbered[<<s, i.folder>>] + 1 /\ i.folder \in o.folders /\ i.server = s
        BY <1>9, <2>3
      <3>2. PICK n : n = numbered[<<s, i.folder>>]  OBVIOUS
      <3>3. n \in Nat  BY <1>10, <1>11, <3>1, <3>2
      <3>4. l.number <= n  BY <1>4, <2>3, <3>1, <3>2 DEF Entries, Same
      <3>5. l.number = n + 1  BY <2>3, <3>1, <3>2 DEF Same
      <3> QED  BY <3>3, <3>4, <3>5
    <2>4. ASSUME NEW i \in e.images, NEW l \in e.images, Same(i, l), i.number # 0
          PROVE  i = l
      <3>1. i.number # 0 /\ l.number # 0 /\ i.folder = l.folder /\ i.number = l.number
        BY <2>4 DEF Same
      <3>2. /\ i = [owner |-> j, server |-> s, folder |-> i.folder, number |-> i.number]
            /\ l = [owner |-> j, server |-> s, folder |-> l.folder, number |-> l.number]
        BY <1>9, <3>1
      <3> QED  BY <3>1, <3>2
    <2>5. ASSUME NEW k \in Job, NEW m \in Job, NEW i \in ImagesOf(k)', NEW l \in ImagesOf(m)',
                 Same(i, l), i.number # 0
          PROVE  i = l
      <3>1. CASE k # j /\ m # j
        <4>1. i \in ImagesOf(k) /\ l \in ImagesOf(m)  BY <1>16, <2>5, <3>1
        <4> QED  BY <1>4, <2>5, <4>1 DEF Entries
      <3>2. CASE k = j /\ m # j
        <4>1. i \in e.images /\ l \in ImagesOf(m)  BY <1>16, <2>5, <3>2
        <4> QED  BY <2>3, <2>5, <3>2, <4>1
      <3>3. CASE k # j /\ m = j
        <4>1. i \in ImagesOf(k) /\ l \in e.images  BY <1>16, <2>5, <3>3
        <4>2. Same(l, i) /\ l.number # 0  BY <2>5 DEF Same
        <4> QED  BY <2>3, <3>3, <4>1, <4>2
      <3>4. CASE k = j /\ m = j
        <4>1. i \in e.images /\ l \in e.images  BY <1>16, <2>5, <3>4
        <4> QED  BY <2>4, <2>5, <4>1
      <3> QED  BY <3>1, <3>2, <3>3, <3>4
    <2> QED  BY <2>1, <2>2, <2>5 DEF Entries, Same
  <1>19. Stored'
    <2>1. ASSUME NEW p \in OutDir \X (0..Top), saved[p] # None
          PROVE  saved[p].number = p[2] /\ \E k \in Job : saved[p] \in ImagesOf(k)'
      <3>1. PICK k \in Job : saved[p] \in ImagesOf(k)  BY <1>4, <2>1 DEF Stored
      <3>2. k # j  BY <1>16, <3>1
      <3>3. saved[p] \in ImagesOf(k)'  BY <1>16, <3>1, <3>2
      <3> QED  BY <1>4, <2>1, <3>3 DEF Stored
    <2> QED  BY <1>3, <1>4, <2>1 DEF Stored
  <1>20. ASSUME NEW k \in Job PROVE JobInv(k, job[k])'
    <2>1. JobInv(k, job[k])  BY DEF Inv
    <2>2. Asked(job[k])' /\ Audited(job[k])'  BY <1>3, <2>1 DEF JobInv, Asked, Audited
    <2>3. CASE k = j
      <3>1. job[j].pc \notin {"saving", "done"} /\ job[j].paths = {}
        BY <1>3, <1>4, <1>16 DEF JobInv, Complete
      <3> QED  BY <1>3, <2>2, <2>3, <3>1 DEF JobInv, Complete
    <2>4. CASE k # j
      <3>1. entry'[k] = entry[k] /\ ImagesOf(k)' = ImagesOf(k)  BY <1>7, <1>16, <2>4
      <3>2. Owed(k, job[k])' = Owed(k, job[k])  BY <1>3, <3>1 DEF Owed
      <3>3. Complete(k, job[k])'
        BY <1>3, <2>1, <3>1, <3>2 DEF JobInv, Complete
      <3> QED  BY <2>2, <3>3 DEF JobInv
    <2> QED  BY <2>3, <2>4
  <1>21. Files' /\ DOMAIN job' = Job  BY <1>3, <1>4 DEF Files, Inv
  <1> QED  BY <1>17, <1>18, <1>19, <1>20, <1>21 DEF Inv

LEMMA EditInv ==
  ASSUME Inv, NEW p \in Edited, NEW c \in Content \cup {Missing}, Edit(p, c)
  PROVE  Inv'
  <1>1. /\ job' = job /\ entry' = entry /\ numbered' = numbered /\ saved' = saved
        /\ file' = [file EXCEPT ![p] = [is |-> c, version |-> file[p].version + 1]]
    BY DEF Edit
  <1>2. Files /\ p \in Path /\ c \in Graph \cup {Missing}
    BY FileSystemAssumption DEF Inv
  <1>3. ASSUME NEW q \in Path
        PROVE  /\ file[q].version \in Nat /\ file'[q].version \in Nat
               /\ file'[q].version >= file[q].version
               /\ file'[q].version = file[q].version => file'[q] = file[q]
    BY <1>1, <1>2 DEF Files
  <1>4. Files'  BY <1>1, <1>2, <1>3 DEF Files
  <1>5. (Numbers /\ Entries /\ Stored)' /\ DOMAIN job' = Job
    BY <1>1 DEF Inv, Numbers, Entries, Stored, Ended, ImagesOf
  <1>6. ASSUME NEW j \in Job PROVE JobInv(j, job[j])'
    <2>1. JobInv(j, job[j])  BY DEF Inv
    <2>2. Asked(job[j])'  BY <1>1, <2>1 DEF JobInv, Asked
    <2>3. Complete(j, job[j])'  BY <1>1, <2>1 DEF JobInv, Complete, Owed, ImagesOf
    <2>4. Audited(job[j])'
      <3>1. CASE job[j].pc = "queued"
        <4>1. /\ job[j].path \in Path /\ job[j].audit.version \in Nat
              /\ job[j].audit.version <= file[job[j].path].version
              /\ job[j].audit.version = file[job[j].path].version =>
                   job[j].audit.is = file[job[j].path].is
          BY <2>1, <3>1 DEF JobInv, Audited
        <4>2. PICK v : v = job[j].audit.version  OBVIOUS
        <4>3. PICK q : q = job[j].path  OBVIOUS
        <4>4. v \in Nat /\ v <= file'[q].version
              /\ (v = file'[q].version => job[j].audit.is = file'[q].is)
          BY <1>3, <4>1, <4>2, <4>3
        <4> QED  BY <1>1, <2>1, <3>1, <4>2, <4>3, <4>4 DEF JobInv, Audited
      <3>2. CASE job[j].pc # "queued"  BY <1>1, <2>1, <3>2 DEF JobInv, Audited
      <3> QED  BY <3>1, <3>2
    <2> QED  BY <2>2, <2>3, <2>4 DEF JobInv
  <1> QED  BY <1>4, <1>5, <1>6 DEF Inv

LEMMA StepInv == Inv /\ [Next]_vars => Inv'
  <1> SUFFICES ASSUME Inv, [Next]_vars PROVE Inv'  OBVIOUS
  <1>1. CASE UNCHANGED vars
    <2>1. /\ job' = job /\ file' = file /\ entry' = entry /\ numbered' = numbered
          /\ saved' = saved
      BY <1>1 DEF vars
    <2> QED  BY <2>1 DEF Inv, Files, Numbers, Entries, Stored, Ended, ImagesOf,
                        JobInv, Asked, Audited, Complete, Owed
  <1>2. ASSUME NEW j \in Job, Step(j) PROVE Inv'
    <2>1. CASE Reject(j) \/ SyncPrepareFails(j) \/ AsyncPrepareFails(j) \/ SubmitFails(j)
               \/ GiveUp(j) \/ DownloadFails(j)
      <3>1. Fails(j) /\ job[j].pc # "done"
        BY <2>1 DEF Reject, SyncPrepareFails, AsyncPrepareFails, SubmitFails, GiveUp, DownloadFails
      <3> QED  BY <3>1, FailsInv
    <2>2. CASE \E r \in Request[j] : Receive(j, r)  BY <2>2, ReceiveInv
    <2>3. CASE SyncPrepare(j) \/ AsyncPrepare(j)  BY <2>3, PrepareInv
    <2>4. CASE Submit(j)  BY <2>4, SubmitInv
    <2>5. CASE Collect(j)  BY <2>5, CollectInv
    <2>6. CASE \E i \in job[j].todo : Download(j, i)  BY <2>6, DownloadInv
    <2>7. CASE Answer(j)  BY <2>7, AnswerInv
    <2>8. CASE AsyncUnattempted(j)  BY <2>8, UnattemptedInv
    <2> QED  BY <1>2, <2>1, <2>2, <2>3, <2>4, <2>5, <2>6, <2>7, <2>8, Zenon DEF Step
  <1>3. ASSUME NEW j \in Job, NEW o \in Outcome, Executed(j, o) PROVE Inv'
    BY <1>3, ExecutedInv
  <1>4. ASSUME NEW p \in Edited, NEW c \in Content \cup {Missing}, Edit(p, c) PROVE Inv'
    BY <1>4, EditInv
  <1> QED  BY <1>1, <1>2, <1>3, <1>4, Zenon DEF Next

-----------------------------------------------------------------------------
(* The invariant holds of every behaviour.                                 *)
THEOREM InvHolds == Spec => []Inv
  <1> QED  BY InitInv, StepInv, PTL DEF Spec

(* The audit build_audit_fields puts into a task names the file its worker *)
(* reads, for any profiles and files, and its hash is of what the worker   *)
(* reads unless somebody has edited the file while the task was queued.    *)
THEOREM AuditsNameWhatRan == Spec => []AuditNamesWhatRan
  <1>1. Inv => AuditNamesWhatRan
    <2> SUFFICES ASSUME Inv, NEW j \in Job, job[j].read # None, Route(j) = "async"
                 PROVE  /\ job[j].read.path = job[j].audit.path
                        /\ \/ job[j].read.is = job[j].audit.is
                           \/ job[j].read.version > job[j].audit.version
      BY DEF AuditNamesWhatRan
    <2> QED  BY DEF Inv, JobInv, Audited, Route
  <1> QED  BY <1>1, InvHolds, PTL

(* An image an answer lists is in its file until one takes the file whose  *)
(* server or subfolder is another, or that has no name: however many       *)
(* handlers and workers save into the folder, and in whatever order.       *)
THEOREM SavedStay == Spec => []SavedImagesStay
  <1>1. Inv => SavedImagesStay
    <2> SUFFICES ASSUME Inv, NEW j \in Job, NEW i \in job[j].paths, NEW k,
                        k = saved[<<job[j].request.dir, i.number>>]
                 PROVE  /\ k # None
                        /\ k # i => i.number = 0 \/ <<k.server, k.folder>> # <<i.server, i.folder>>
      BY DEF SavedImagesStay
    <2>1. Entries /\ Stored /\ JobInv(j, job[j])  BY DEF Inv
    <2>2. i \in ImagesOf(j) /\ k # None  BY <2>1 DEF JobInv, Complete
    <2>3. i.number \in 0..Top /\ job[j].request.dir \in OutDir
      BY <2>1, <2>2, ImageType DEF JobInv, Asked
    <2>4. k.number = i.number /\ \E l \in Job : k \in ImagesOf(l)
      <3>1. PICK p : p = <<job[j].request.dir, i.number>>  OBVIOUS
      <3>2. p \in OutDir \X (0..Top) /\ p[2] = i.number  BY <2>3, <3>1
      <3> QED  BY <2>1, <2>2, <3>1, <3>2 DEF Stored
    <2>5. ASSUME k.server = i.server, k.folder = i.folder, i.number # 0 PROVE k = i
      <3>1. Same(i, k)  BY <2>4, <2>5 DEF Same
      <3> QED  BY <2>1, <2>2, <2>4, <2>5, <3>1 DEF Entries
    <2> QED  BY <2>2, <2>5
  <1> QED  BY <1>1, InvHolds, PTL

(* A worker's answer is of a prompt that has completed, and no answer      *)
(* misses an image of its prompt that has a name.                          *)
THEOREM AnswersComplete == Spec => []AnswersAreComplete
  <1>1. Inv => AnswersAreComplete
    <2> SUFFICES ASSUME Inv, NEW j \in Job, job[j].pc = "done"
                 PROVE  /\ entry[j] # None
                        /\ Route(j) = "async" => entry[j].completed
                        /\ job[j].paths = {i \in entry[j].images : Route(j) = "async" => i.number # 0}
      BY DEF AnswersAreComplete
    <2>1. Complete(j, job[j])  BY DEF Inv, JobInv
    <2>2. entry[j] # None /\ (Route(j) = "async" => entry[j].completed)
          /\ job[j].paths = Owed(j, job[j])
      BY <2>1 DEF Complete, Route
    <2>3. Owed(j, job[j]) = {i \in entry[j].images : Route(j) = "async" => i.number # 0}
      BY <2>2 DEF Owed, ImagesOf, Route
    <2> QED  BY <2>2, <2>3
  <1> QED  BY <1>1, InvHolds, PTL
-----------------------------------------------------------------------------
(* What is submitted: the file as it was read, patched, with the ops.      *)
AfterOps(g, op) == IF op = NoOp THEN g ELSE Applied(g, op)

Submitted(x) ==
  x.graph # None =>
    /\ x.read.is \in Graph /\ x.request.op \in Op
    /\ x.request.route = "async" => x.graph = Patched(x.read.is, AsyncPatch, Truthy(x.values))
    /\ x.request.route # "async" =>
         x.graph = AfterOps(Patched(x.read.is, SyncPatch, x.values), x.request.op)

(* The plan of /agent/apply, for a request asks: where the two reads are   *)
(* of one file, they are of one version of it, or the second is newer.     *)
Planned(x) ==
  LET plan == x.plan
      asks == plan.of
  IN /\ plan.read.is \in Graph /\ plan.graph = Applied(plan.read.is, asks.op)
     /\ plan.graph.dangling => asks.force \/ ~asks.requireSafe
     /\ asks.op \in Op /\ x.request.op = asks.op
     /\ asks.generation = NoFile /\ asks.workflow \notin NotJson => x.path = plan.read.path
     /\ x.pc = "ready" =>
          /\ plan.read.path \in Path
          /\ plan.read.version \in Nat
          /\ plan.read.version <= file[plan.read.path].version
          /\ plan.read.version = file[plan.read.path].version =>
               plan.read.is = file[plan.read.path].is
     /\ x.graph # None =>
          \/ x.path # plan.read.path
          \/ x.read.version > plan.read.version \/ x.read.is = plan.read.is

Made(x) ==
  /\ x.pc \in {"ready", "queued"} =>
       x.request.op \in Op /\ x.path \in Path /\ x.graph = None
  /\ Submitted(x)
  /\ (x.pc = "ready" \/ x.graph # None) /\ x.request.route = "apply" => Planned(x)

AllMade == \A j \in Job : Made(job[j])
Both == Inv /\ AllMade

LEMMA InitBoth == Init => Both
  <1> SUFFICES ASSUME Init PROVE Both  OBVIOUS
  <1>1. \A j \in Job : job[j] = Fresh  BY DEF Init
  <1>2. Made(Fresh)  BY DEF Fresh, Made, Submitted
  <1> QED  BY <1>1, <1>2, InitInv DEF Both, AllMade

(* Going on with what is made does not change it.                          *)
LEMMA MadeKept ==
  ASSUME NEW x, NEW y, Made(x), file' = file,
         y.graph = x.graph, y.read = x.read, y.request = x.request, y.values = x.values,
         y.plan = x.plan, y.path = x.path,
         y.pc = x.pc \/ y.pc \notin {"ready", "queued"}
  PROVE  Made(y)'
  <1>1. Submitted(y)'  BY DEF Made, Submitted
  <1>2. ASSUME (y.pc = "ready" \/ y.graph # None) /\ y.request.route = "apply"
        PROVE  Planned(y)'
    <2>1. Planned(x) /\ (y.pc = "ready" => x.pc = "ready")  BY <1>2 DEF Made
    <2> QED  BY <2>1 DEF Planned
  <1>3. y.pc \in {"ready", "queued"} =>
          y.request.op \in Op /\ y.path \in Path /\ y.graph = None
    BY DEF Made
  <1> QED  BY <1>1, <1>2, <1>3 DEF Made

(* One job moves, the files stay.                                          *)
LEMMA MadeStep ==
  ASSUME Both, NEW j \in Job, NEW x, job' = [job EXCEPT ![j] = x], file' = file, Made(x)'
  PROVE  AllMade'
  <1>1. DOMAIN job = Job /\ AllMade  BY DEF Both, Inv
  <1>2. ASSUME NEW k \in Job PROVE Made(job[k])'
    <2>1. CASE k = j  BY <1>1, <2>1
    <2>2. CASE k # j
      <3>1. job'[k] = job[k] /\ Made(job[k])  BY <1>1, <2>2 DEF AllMade
      <3>2. PICK y : y = job[k]  OBVIOUS
      <3>3. Made(y)'  BY <3>1, <3>2, MadeKept
      <3> QED  BY <3>1, <3>2, <3>3
    <2> QED  BY <2>1, <2>2
  <1> QED  BY <1>2 DEF AllMade

LEMMA GoesOnMade ==
  ASSUME Both, NEW j \in Job,
         \/ Fails(j) \/ Submit(j) \/ Collect(j) \/ Answer(j) \/ AsyncUnattempted(j)
         \/ \E i \in job[j].todo : Download(j, i)
  PROVE  AllMade'
  <1>1. DOMAIN job = Job /\ DOMAIN job[j] = DOMAIN Fresh /\ Made(job[j])
    BY DEF Both, AllMade, Inv, JobInv, Asked
  <1>2. \E x : /\ job' = [job EXCEPT ![j] = x] /\ file' = file
               /\ x.graph = job[j].graph /\ x.read = job[j].read /\ x.request = job[j].request
               /\ x.values = job[j].values /\ x.plan = job[j].plan /\ x.path = job[j].path
               /\ x.pc = job[j].pc \/ x.pc \notin {"ready", "queued"}
    <2>1. CASE Fails(j)
      <3>1. PICK x : x = [job[j] EXCEPT !.pc = "failed"]  OBVIOUS
      <3>2. job' = [job EXCEPT ![j] = x] /\ file' = file  BY <1>1, <2>1, <3>1 DEF Fails
      <3>3. /\ x.graph = job[j].graph /\ x.read = job[j].read /\ x.request = job[j].request
            /\ x.values = job[j].values /\ x.plan = job[j].plan /\ x.path = job[j].path
            /\ x.pc = "failed"
        BY <1>1, <3>1 DEF Fresh
      <3>4. x.pc = job[j].pc \/ x.pc \notin {"ready", "queued"}  BY <3>3
      <3> QED  BY <3>2, <3>3, <3>4, Zenon
    <2>2. CASE Submit(j)
      <3>1. PICK x : x = [job[j] EXCEPT !.pc = "waiting"]  OBVIOUS
      <3>2. job' = [job EXCEPT ![j] = x] /\ file' = file  BY <1>1, <2>2, <3>1 DEF Submit
      <3>3. /\ x.graph = job[j].graph /\ x.read = job[j].read /\ x.request = job[j].request
            /\ x.values = job[j].values /\ x.plan = job[j].plan /\ x.path = job[j].path
            /\ x.pc = "waiting"
        BY <1>1, <3>1 DEF Fresh
      <3>4. x.pc = job[j].pc \/ x.pc \notin {"ready", "queued"}  BY <3>3
      <3> QED  BY <3>2, <3>3, <3>4, Zenon
    <2>3. CASE Collect(j)
      <3>1. PICK x : x = [job[j] EXCEPT
              !.pc = IF entry[j].images = {} THEN "failed" ELSE "saving", !.todo = entry[j].images]
        OBVIOUS
      <3>2. job' = [job EXCEPT ![j] = x] /\ file' = file  BY <1>1, <2>3, <3>1 DEF Collect
      <3>3. /\ x.graph = job[j].graph /\ x.read = job[j].read /\ x.request = job[j].request
            /\ x.values = job[j].values /\ x.plan = job[j].plan /\ x.path = job[j].path
            /\ x.pc \in {"failed", "saving"}
        BY <1>1, <3>1 DEF Fresh
      <3>4. x.pc = job[j].pc \/ x.pc \notin {"ready", "queued"}  BY <3>3
      <3> QED  BY <3>2, <3>3, <3>4, Zenon
    <2>4. CASE Answer(j)
      <3>1. PICK x : x = [job[j] EXCEPT !.pc = "done"]  OBVIOUS
      <3>2. job' = [job EXCEPT ![j] = x] /\ file' = file  BY <1>1, <2>4, <3>1 DEF Answer
      <3>3. /\ x.graph = job[j].graph /\ x.read = job[j].read /\ x.request = job[j].request
            /\ x.values = job[j].values /\ x.plan = job[j].plan /\ x.path = job[j].path
            /\ x.pc = "done"
        BY <1>1, <3>1 DEF Fresh
      <3>4. x.pc = job[j].pc \/ x.pc \notin {"ready", "queued"}  BY <3>3
      <3> QED  BY <3>2, <3>3, <3>4, Zenon
    <2>5. ASSUME NEW i \in job[j].todo, Download(j, i)
          PROVE  \E x : /\ job' = [job EXCEPT ![j] = x] /\ file' = file
                        /\ x.graph = job[j].graph /\ x.read = job[j].read
                        /\ x.request = job[j].request /\ x.values = job[j].values
                        /\ x.plan = job[j].plan /\ x.path = job[j].path
                        /\ x.pc = job[j].pc \/ x.pc \notin {"ready", "queued"}
      <3>1. PICK x : x = [job[j] EXCEPT
              !.todo = @ \ {i},
              !.paths = IF Route(j) = "async" /\ i.number = 0 THEN @ ELSE @ \cup {i}]
        OBVIOUS
      <3>2. job' = [job EXCEPT ![j] = x] /\ file' = file  BY <1>1, <2>5, <3>1 DEF Download
      <3>3. /\ x.graph = job[j].graph /\ x.read = job[j].read /\ x.request = job[j].request
            /\ x.values = job[j].values /\ x.plan = job[j].plan /\ x.path = job[j].path
            /\ x.pc = job[j].pc
        BY <1>1, <3>1 DEF Fresh
      <3>4. x.pc = job[j].pc \/ x.pc \notin {"ready", "queued"}  BY <3>3
      <3> QED  BY <3>2, <3>3, <3>4, Zenon
    <2>6. CASE AsyncUnattempted(j)
      <3>1. PICK x : x = [job[j] EXCEPT !.pc = "unattempted"]  OBVIOUS
      <3>2. job' = [job EXCEPT ![j] = x] /\ file' = file
        BY <1>1, <2>6, <3>1 DEF AsyncUnattempted
      <3>3. /\ x.graph = job[j].graph /\ x.read = job[j].read /\ x.request = job[j].request
            /\ x.values = job[j].values /\ x.plan = job[j].plan /\ x.path = job[j].path
            /\ x.pc = "unattempted"
        BY <1>1, <3>1 DEF Fresh
      <3>4. x.pc = job[j].pc \/ x.pc \notin {"ready", "queued"}  BY <3>3
      <3> QED  BY <3>2, <3>3, <3>4, Zenon
    <2> QED  BY <2>1, <2>2, <2>3, <2>4, <2>5, <2>6
  <1>3. PICK x : /\ job' = [job EXCEPT ![j] = x] /\ file' = file
                 /\ x.graph = job[j].graph /\ x.read = job[j].read /\ x.request = job[j].request
                 /\ x.values = job[j].values /\ x.plan = job[j].plan /\ x.path = job[j].path
                 /\ x.pc = job[j].pc \/ x.pc \notin {"ready", "queued"}
    BY <1>2
  <1>4. PICK y : y = job[j]  OBVIOUS
  <1>5. Made(x)'  BY <1>1, <1>3, <1>4, MadeKept
  <1> QED  BY <1>3, <1>5, MadeStep
-----------------------------------------------------------------------------
LEMMA LocatedType ==
  ASSUME NEW dir \in {"cwd", "base"}, NEW name \in File
  PROVE  Located(dir, name) \in Path
  BY DEF Located, Path

LEMMA NewMade ==
  ASSUME Both, NEW j \in Job, job[j].pc = "new",
         NEW x, job' = [job EXCEPT ![j] = x], file' = file,
         x.graph = job[j].graph, x.request.op \in Op, x.path \in Path,
         x.pc = "ready" /\ x.request.route = "apply" => Planned(x)'
  PROVE  AllMade'
  <1>1. x.graph = None  BY DEF Both, Inv, JobInv, Asked
  <1>2. Submitted(x)'  BY <1>1 DEF Submitted
  <1>3. Made(x)'  BY <1>1, <1>2 DEF Made
  <1> QED  BY <1>3, MadeStep

LEMMA ApplyMade ==
  ASSUME Both, NEW j \in Job, NEW r \in Request[j], ApplyCheck(j, r)
  PROVE  AllMade'
  <1>1. PICK q : q = Merged(r)  OBVIOUS
  <1>2. PICK p : p = Located("cwd", FirstFile(r.workflow, NoFile))  OBVIOUS
  <1>3. PICK plan : plan = [read |-> Reading(p), graph |-> Applied(file[p].is, r.op), of |-> r]
    OBVIOUS
  <1>4. PICK x : x = [job[j] EXCEPT
          !.pc = IF r.execute THEN "ready" ELSE "prepared only",
          !.request = q, !.values = Drawn(normalize_request(q)),
          !.path = Located("cwd", WorkflowName(q)), !.plan = plan]
    OBVIOUS
  <1>5. /\ job' = [job EXCEPT ![j] = x] /\ file' = file /\ job[j].pc = "new" /\ Checked(r, p)
    BY <1>1, <1>2, <1>3, <1>4 DEF ApplyCheck
  <1>6. /\ x.graph = job[j].graph /\ x.request = q /\ x.path = Located("cwd", WorkflowName(q))
        /\ x.plan = plan
    <2>1. DOMAIN job[j] = DOMAIN Fresh  BY DEF Both, Inv, JobInv, Asked
    <2> QED  BY <1>4, <2>1 DEF Fresh
  <1>7. /\ {"generation", "workflow", "model", "op", "top", "execute"} \subseteq DOMAIN r
        /\ r.workflow \in File \cup {NoFile} /\ r.model \in File \cup {NoFile}
        /\ r.generation \in File \cup {NoFile} /\ r.op \in Op
    BY RequestAssumption
  <1>8. /\ q.op = r.op /\ q.model = r.model /\ q.workflow = FirstFile(r.generation, r.workflow)
    BY <1>1, <1>7 DEF Merged
  <1>9. q.workflow \in File  BY <1>7, <1>8, FileAssumption DEF FirstFile
  <1>10. WorkflowName(q) \in File /\ (q.workflow \notin NotJson => WorkflowName(q) = q.workflow)
    <2>1. FirstFile(q.workflow, q.model) = q.workflow  BY <1>9, FileAssumption DEF FirstFile
    <2> QED  BY <1>9, <2>1, FileAssumption DEF WorkflowName
  <1>11. FirstFile(r.workflow, NoFile) \in File  BY <1>7, FileAssumption DEF FirstFile
  <1>12. p \in Path /\ x.path \in Path  BY <1>2, <1>6, <1>10, <1>11, LocatedType
  <1>13. Planned(x)'
    <2>1. Files  BY DEF Both, Inv
    <2>2. file[p].is \in Graph /\ file[p].version \in Nat
      BY <1>5, <1>12, <2>1 DEF Checked, There, Files
    <2>3. /\ plan.read = Reading(p) /\ plan.graph = Applied(file[p].is, r.op) /\ plan.of = r
          /\ plan.read.path = p /\ plan.read.is = file[p].is
          /\ plan.read.version = file[p].version
      BY <1>3 DEF Reading
    <2>4. plan.graph.dangling => r.force \/ ~r.requireSafe
      BY <1>5, <2>3, Zenon DEF Checked
    <2>5. r.generation = NoFile /\ r.workflow \notin NotJson => x.path = p
      <3> SUFFICES ASSUME r.generation = NoFile, r.workflow \notin NotJson PROVE x.path = p
        OBVIOUS
      <3>1. q.workflow = FirstFile(r.workflow, NoFile)
        BY <1>7, <1>8, FileAssumption DEF FirstFile
      <3>2. q.workflow \notin NotJson  BY <3>1, <1>7, FileAssumption DEF FirstFile
      <3> QED  BY <1>2, <1>6, <1>10, <3>1, <3>2
    <2>6. x.graph = None  BY <1>5, <1>6 DEF Both, Inv, JobInv, Asked
    <2>7. Planned(x)
      BY <1>6, <1>7, <1>8, <1>12, <2>2, <2>3, <2>4, <2>5, <2>6 DEF Planned
    <2> QED  BY <1>5, <2>7 DEF Planned
  <1> QED  BY <1>5, <1>6, <1>7, <1>8, <1>12, <1>13, NewMade

LEMMA ReceiveMade ==
  ASSUME Both, NEW j \in Job, NEW r \in Request[j], Receive(j, r)
  PROVE  AllMade'
  <1>1. DOMAIN job[j] = DOMAIN Fresh  BY DEF Both, Inv, JobInv, Asked
  <1>2. /\ WorkflowName(r) \in File /\ resolve(r.profile, WorkflowName(r)) \in Path /\ r.op \in Op
        /\ "op" \in DOMAIN r /\ "route" \in DOMAIN r
        /\ r.workflow \in File \cup {NoFile}
    BY NameType, RequestAssumption
  <1>3. CASE SyncReceive(j, r)
    <2>1. PICK x : x = [job[j] EXCEPT !.pc = "ready", !.request = r,
                          !.values = Drawn(normalize_request(r)),
                          !.path = Located("cwd", WorkflowName(r))]
      OBVIOUS
    <2>2. /\ job' = [job EXCEPT ![j] = x] /\ file' = file /\ r.route = "sync"
          /\ job[j].pc = "new"
      BY <1>3, <2>1 DEF SyncReceive
    <2>3. /\ x.pc = "ready" /\ x.request = r /\ x.graph = job[j].graph
          /\ x.path = Located("cwd", WorkflowName(r))
      BY <1>1, <2>1 DEF Fresh
    <2>4. x.path \in Path  BY <1>2, <2>3, LocatedType
    <2> QED  BY <1>2, <2>2, <2>3, <2>4, NewMade
  <1>4. CASE OnceStart(j, r)
    <2>0. PICK q : q = [r EXCEPT !.op = NoOp]  OBVIOUS
    <2>1. PICK x : x = [job[j] EXCEPT !.pc = "ready", !.request = q,
                          !.values = Drawn([f \in Field |-> first_existing(r.top[f], "none")]),
                          !.path = Located("cwd", FirstFile(r.workflow, NoFile))]
      OBVIOUS
    <2>2. /\ job' = [job EXCEPT ![j] = x] /\ file' = file /\ r.route = "once"
          /\ job[j].pc = "new"
      BY <1>4, <2>0, <2>1 DEF OnceStart
    <2>3. /\ x.pc = "ready" /\ x.request = q /\ x.graph = job[j].graph
          /\ x.path = Located("cwd", FirstFile(r.workflow, NoFile))
      BY <1>1, <2>1 DEF Fresh
    <2>4. q.op \in Op /\ q.route = "once"  BY <1>2, <2>0, <2>2 DEF Op
    <2>5. FirstFile(r.workflow, NoFile) \in File  BY <1>2, FileAssumption DEF FirstFile
    <2>6. x.path \in Path  BY <2>3, <2>5, LocatedType
    <2> QED  BY <2>2, <2>3, <2>4, <2>6, NewMade
  <1>5. CASE ApplyCheck(j, r)  BY <1>5, ApplyMade
  <1>6. CASE ApplyRefused(j, r)  BY <1>6, GoesOnMade DEF ApplyRefused
  <1>7. CASE AsyncAccept(j, r)
    <2>1. PICK p : p = resolve(r.profile, WorkflowName(r))  OBVIOUS
    <2>2. PICK x : x = [job[j] EXCEPT !.pc = "queued", !.request = r,
                          !.values = normalize_request(r), !.limits = WithPolicy(r.limits),
                          !.path = p, !.audit = build_audit_fields(p)]
      OBVIOUS
    <2>3. /\ job' = [job EXCEPT ![j] = x] /\ file' = file /\ job[j].pc = "new"
      BY <1>7, <2>1, <2>2 DEF AsyncAccept
    <2>4. x.pc = "queued" /\ x.request = r /\ x.graph = job[j].graph /\ x.path = p
      BY <1>1, <2>2 DEF Fresh
    <2> QED  BY <1>2, <2>1, <2>3, <2>4, NewMade
  <1> QED  BY <1>3, <1>4, <1>5, <1>6, <1>7 DEF Receive

LEMMA PrepareMade ==
  ASSUME Both, NEW j \in Job, SyncPrepare(j) \/ AsyncPrepare(j)
  PROVE  AllMade'
  <1>1. PICK p : p = job[j].path  OBVIOUS
  <1>2. DOMAIN job = Job /\ JobInv(j, job[j]) /\ Files /\ Made(job[j])
    BY DEF Both, AllMade, Inv
  <1>3. PICK op : op = job[j].request.op  OBVIOUS
  <1>4. PICK g : g = IF job[j].pc = "ready"
                     THEN AfterOps(Patched(file[p].is, SyncPatch, job[j].values), op)
                     ELSE Patched(file[p].is, AsyncPatch, Truthy(job[j].values))
    OBVIOUS
  <1>5. PICK x : x = [job[j] EXCEPT !.pc = "prepared", !.read = Reading(p), !.graph = g]
    OBVIOUS
  <1>6. /\ job' = [job EXCEPT ![j] = x] /\ file' = file
        /\ job[j].pc \in {"ready", "queued"} /\ There(p)
    <2>1. CASE SyncPrepare(j)
      <3>1. job[j].pc = "ready"  BY <2>1 DEF SyncPrepare
      <3>2. g = IF op = NoOp THEN Patched(file[p].is, SyncPatch, job[j].values)
                ELSE Applied(Patched(file[p].is, SyncPatch, job[j].values), op)
        BY <1>4, <3>1 DEF AfterOps
      <3> QED  BY <1>1, <1>2, <1>3, <1>5, <2>1, <3>1, <3>2 DEF SyncPrepare
    <2>2. CASE AsyncPrepare(j)
      <3>1. job[j].pc = "queued"  BY <2>2 DEF AsyncPrepare
      <3>2. g = Patched(file[p].is, AsyncPatch, Truthy(job[j].values))  BY <1>4, <3>1
      <3> QED  BY <1>1, <1>2, <1>5, <2>2, <3>1, <3>2 DEF AsyncPrepare
    <2> QED  BY <2>1, <2>2
  <1>7. /\ x.pc = "prepared" /\ x.read = Reading(p) /\ x.graph = g
        /\ x.request = job[j].request /\ x.values = job[j].values
        /\ x.plan = job[j].plan /\ x.path = p
    BY <1>1, <1>2, <1>5 DEF JobInv, Asked, Fresh
  <1>8. /\ p \in Path /\ file[p].is \in Graph /\ file[p].version \in Nat /\ op \in Op
        /\ x.read.is = file[p].is /\ x.read.version = file[p].version
    BY <1>1, <1>2, <1>3, <1>6, <1>7 DEF Made, Files, There, Reading
  <1>9. job[j].pc = "queued" <=> x.request.route = "async"
    BY <1>2, <1>6, <1>7 DEF JobInv, Audited
  <1>10. Submitted(x)'
    BY <1>3, <1>4, <1>6, <1>7, <1>8, <1>9 DEF Submitted
  <1>11. ASSUME x.request.route = "apply" PROVE Planned(x)'
    <2>1. job[j].pc = "ready"  BY <1>6, <1>9, <1>11
    <2>2. Planned(job[j])  BY <1>2, <1>7, <1>11, <2>1 DEF Made
    <2>3. PICK plan : plan = x.plan  OBVIOUS
    <2>4. \/ p # plan.read.path
          \/ file[p].version > plan.read.version \/ file[p].is = plan.read.is
      <3> SUFFICES ASSUME p = plan.read.path
                   PROVE  file[p].version > plan.read.version \/ file[p].is = plan.read.is
        OBVIOUS
      <3>1. /\ plan.read.version \in Nat /\ plan.read.version <= file[p].version
            /\ plan.read.version = file[p].version => plan.read.is = file[p].is
        BY <1>7, <2>1, <2>2, <2>3 DEF Planned
      <3> QED  BY <1>8, <3>1
    <2>5. /\ plan.read.is \in Graph /\ plan.graph = Applied(plan.read.is, plan.of.op)
          /\ plan.graph.dangling => plan.of.force \/ ~plan.of.requireSafe
          /\ plan.of.op \in Op /\ x.request.op = plan.of.op
          /\ plan.of.generation = NoFile /\ plan.of.workflow \notin NotJson => p = plan.read.path
      BY <1>1, <1>7, <2>2, <2>3 DEF Planned
    <2> QED  BY <1>7, <1>8, <2>3, <2>4, <2>5 DEF Planned
  <1>12. Made(x)'  BY <1>7, <1>10, <1>11 DEF Made
  <1> QED  BY <1>6, <1>12, MadeStep

LEMMA EditMade ==
  ASSUME Both, NEW p \in Edited, NEW c \in Content \cup {Missing}, Edit(p, c)
  PROVE  AllMade'
  <1>1. /\ job' = job
        /\ file' = [file EXCEPT ![p] = [is |-> c, version |-> file[p].version + 1]]
    BY DEF Edit
  <1>2. Files /\ p \in Path  BY FileSystemAssumption DEF Both, Inv
  <1>3. ASSUME NEW q \in Path
        PROVE  /\ file[q].version \in Nat /\ file'[q].version \in Nat
               /\ file'[q].version >= file[q].version
               /\ file'[q].version = file[q].version => file'[q] = file[q]
    BY <1>1, <1>2 DEF Files
  <1>4. ASSUME NEW j \in Job PROVE Made(job[j])'
    <2>1. PICK x : x = job[j]  OBVIOUS
    <2>2. Made(x)  BY <2>1 DEF Both, AllMade
    <2>3. ASSUME (x.pc = "ready" \/ x.graph # None) /\ x.request.route = "apply"
          PROVE  Planned(x)'
      <3>1. Planned(x)  BY <2>2, <2>3 DEF Made
      <3>2. CASE x.pc = "ready"
        <4>1. PICK q : q = x.plan.read.path  OBVIOUS
        <4>2. PICK v : v = x.plan.read.version  OBVIOUS
        <4>3. /\ q \in Path /\ v \in Nat /\ v <= file[q].version
              /\ v = file[q].version => x.plan.read.is = file[q].is
          BY <3>1, <3>2, <4>1, <4>2 DEF Planned
        <4>4. v <= file'[q].version /\ (v = file'[q].version => x.plan.read.is = file'[q].is)
          BY <1>3, <4>3
        <4> QED  BY <3>1, <4>1, <4>2, <4>3, <4>4 DEF Planned
      <3>3. CASE x.pc # "ready"  BY <3>1, <3>3 DEF Planned
      <3> QED  BY <3>2, <3>3
    <2>4. Made(x)'  BY <2>2, <2>3 DEF Made, Submitted
    <2> QED  BY <1>1, <2>1, <2>4
  <1> QED  BY <1>4 DEF AllMade

LEMMA StepBoth == Both /\ [Next]_vars => Both'
  <1> SUFFICES ASSUME Both, [Next]_vars PROVE AllMade'
    BY StepInv DEF Both
  <1>0. ASSUME UNCHANGED <<job, file>> PROVE AllMade'
    <2>1. job' = job /\ file' = file  BY <1>0
    <2> QED  BY <2>1 DEF Both, AllMade, Made, Submitted, Planned
  <1>1. CASE UNCHANGED vars  BY <1>0, <1>1 DEF vars
  <1>2. ASSUME NEW j \in Job, Step(j) PROVE AllMade'
    <2>1. CASE Reject(j) \/ SyncPrepareFails(j) \/ AsyncPrepareFails(j) \/ SubmitFails(j)
               \/ GiveUp(j) \/ DownloadFails(j)
      <3>1. Fails(j)
        BY <2>1 DEF Reject, SyncPrepareFails, AsyncPrepareFails, SubmitFails, GiveUp, DownloadFails
      <3> QED  BY <3>1, GoesOnMade
    <2>2. CASE \E r \in Request[j] : Receive(j, r)  BY <2>2, ReceiveMade
    <2>3. CASE SyncPrepare(j) \/ AsyncPrepare(j)  BY <2>3, PrepareMade
    <2>4. CASE Submit(j) \/ Collect(j) \/ Answer(j) \/ AsyncUnattempted(j)
               \/ \E i \in job[j].todo : Download(j, i)
      BY <2>4, GoesOnMade
    <2> QED  BY <1>2, <2>1, <2>2, <2>3, <2>4, Zenon DEF Step
  <1>3. ASSUME NEW j \in Job, NEW o \in Outcome, Executed(j, o) PROVE AllMade'
    BY <1>0, <1>3 DEF Executed
  <1>4. ASSUME NEW p \in Edited, NEW c \in Content \cup {Missing}, Edit(p, c) PROVE AllMade'
    BY <1>4, EditMade
  <1> QED  BY <1>1, <1>2, <1>3, <1>4, Zenon DEF Next
-----------------------------------------------------------------------------
(* What a patch and an op leave alone.                                     *)
LEMMA PatchedGraph ==
  ASSUME NEW g \in Graph, NEW patch, NEW values, NEW p, p = Patched(g, patch, values)
  PROVE  /\ DOMAIN p = DOMAIN g /\ DOMAIN p.val = Slot
         /\ p.nodes = g.nodes /\ p.linked = g.linked /\ p.dangling = g.dangling
         /\ p.wrapped = g.wrapped /\ p.takes = g.takes
         /\ \A s \in Slot : p.val[s] = IF ~g.wrapped /\ s \in DOMAIN patch /\ s[1] \in g.nodes
                                       THEN values[patch[s]] ELSE g.val[s]
  <1>1. DOMAIN g = {"nodes", "linked", "dangling", "wrapped", "takes", "val"} /\ DOMAIN g.val = Slot
        /\ g.wrapped \in BOOLEAN
    BY DEF Graph
  <1>2. CASE g.wrapped
    <2>1. p = g  BY <1>2, Zenon DEF Patched
    <2> QED  BY <1>1, <1>2, <2>1
  <1>3. CASE ~g.wrapped
    <2>1. PICK v : v = [s \in Slot |-> IF s \in DOMAIN patch /\ s[1] \in g.nodes
                                        THEN values[patch[s]] ELSE g.val[s]]
      OBVIOUS
    <2>2. p = [g EXCEPT !.val = v]  BY <1>3, <2>1, Zenon DEF Patched
    <2>3. /\ DOMAIN p = DOMAIN g /\ p.val = v
          /\ p.nodes = g.nodes /\ p.linked = g.linked /\ p.dangling = g.dangling
          /\ p.wrapped = g.wrapped /\ p.takes = g.takes
      BY <1>1, <2>2
    <2> QED  BY <1>3, <2>1, <2>3
  <1> QED  BY <1>1, <1>2, <1>3

LEMMA OpKinds ==
  ASSUME NEW op \in Op
  PROVE  /\ op.do \in {"nothing", "raise", "set", "remove"}
         /\ op.do = "set" => op.slot \in Slot /\ op = [do |-> "set", slot |-> op.slot]
         /\ op = NoOp <=> op.do = "nothing"
  <1>1. op = NoOp \/ op = [do |-> "raise"] \/ op \in [do : {"set"}, slot : Slot]
        \/ op \in [do : {"remove"}, node : NodeId]
    BY DEF Op
  <1>2. CASE op = NoOp  BY <1>2 DEF NoOp
  <1>3. CASE op = [do |-> "raise"]  BY <1>3 DEF NoOp
  <1>4. CASE op \in [do : {"set"}, slot : Slot]  BY <1>4 DEF NoOp
  <1>5. CASE op \in [do : {"remove"}, node : NodeId]  BY <1>5 DEF NoOp
  <1> QED  BY <1>1, <1>2, <1>3, <1>4, <1>5

Dangles(g, op) == IF op.do = "remove" THEN g.dangling \/ op.node \in g.linked ELSE g.dangling

Six == {"nodes", "linked", "dangling", "wrapped", "takes", "val"}

(* What an op makes of a graph.                                            *)
Outcomes(g, op, a) ==
  /\ a = [nodes |-> a.nodes, linked |-> a.linked, dangling |-> a.dangling,
          wrapped |-> a.wrapped, takes |-> a.takes, val |-> a.val]
  /\ a.linked = g.linked /\ a.wrapped = TRUE /\ a.takes = g.takes
  /\ a.nodes = IF op.do = "remove" THEN g.nodes \ {op.node} ELSE g.nodes
  /\ a.dangling = Dangles(g, op)
  /\ DOMAIN a.val = Slot
  /\ \A s \in Slot : a.val[s] = IF op.do = "set" /\ op.slot = s THEN "op" ELSE g.val[s]

LEMMA AppliedGraph ==
  ASSUME NEW g, DOMAIN g = Six, DOMAIN g.val = Slot, NEW op \in Op, NEW a, a = Applied(g, op)
  PROVE  Outcomes(g, op, a)
  <1>1. CASE op.do = "set"
    <2>1. PICK h : h = [g EXCEPT !.wrapped = TRUE]  OBVIOUS
    <2>2. /\ DOMAIN h = Six /\ h.val = g.val /\ h.nodes = g.nodes /\ h.linked = g.linked
          /\ h.dangling = g.dangling /\ h.wrapped = TRUE /\ h.takes = g.takes
      BY <2>1 DEF Six
    <2>3. PICK v : v = [h.val EXCEPT ![op.slot] = "op"]  OBVIOUS
    <2>4. a = [h EXCEPT !.val = v]  BY <1>1, <2>1, <2>3 DEF Applied, Put
    <2>5. /\ DOMAIN a = Six /\ a.val = v /\ a.nodes = h.nodes /\ a.linked = h.linked
          /\ a.dangling = h.dangling /\ a.wrapped = h.wrapped /\ a.takes = h.takes
      BY <2>2, <2>4 DEF Six
    <2>6. DOMAIN v = Slot /\ \A s \in Slot : v[s] = IF op.slot = s THEN "op" ELSE g.val[s]
      BY <2>2, <2>3
    <2>7. a = [nodes |-> a.nodes, linked |-> a.linked, dangling |-> a.dangling,
               wrapped |-> a.wrapped, takes |-> a.takes, val |-> a.val]
      BY <2>4, <2>5 DEF Six
    <2>8. Dangles(g, op) = g.dangling  BY <1>1, Zenon DEF Dangles
    <2> QED  BY <1>1, <2>2, <2>5, <2>6, <2>7, <2>8 DEF Outcomes
  <1>2. CASE op.do = "remove"
    <2>0. PICK d : d = (g.dangling \/ op.node \in g.linked)  OBVIOUS
    <2>4. Dangles(g, op) = d  BY <1>2, <2>0, Zenon DEF Dangles
    <2>1. a = [g EXCEPT !.wrapped = TRUE, !.nodes = g.nodes \ {op.node}, !.dangling = d]
      BY <1>2, <2>0, Zenon DEF Applied
    <2>2. /\ DOMAIN a = Six /\ a.val = g.val /\ a.nodes = g.nodes \ {op.node}
          /\ a.linked = g.linked /\ a.dangling = d /\ a.wrapped = TRUE /\ a.takes = g.takes
      BY <2>1 DEF Six
    <2>3. a = [nodes |-> a.nodes, linked |-> a.linked, dangling |-> a.dangling,
               wrapped |-> a.wrapped, takes |-> a.takes, val |-> a.val]
      BY <2>1, <2>2 DEF Six
    <2> QED  BY <1>2, <2>2, <2>3, <2>4 DEF Outcomes
  <1>3. CASE op.do \notin {"set", "remove"}
    <2>1. a = [g EXCEPT !.wrapped = TRUE]  BY <1>3, Zenon DEF Applied
    <2>2. /\ DOMAIN a = Six /\ a.val = g.val /\ a.nodes = g.nodes
          /\ a.linked = g.linked /\ a.dangling = g.dangling /\ a.wrapped = TRUE
          /\ a.takes = g.takes
      BY <2>1 DEF Six
    <2>3. a = [nodes |-> a.nodes, linked |-> a.linked, dangling |-> a.dangling,
               wrapped |-> a.wrapped, takes |-> a.takes, val |-> a.val]
      BY <2>1, <2>2 DEF Six
    <2>4. Dangles(g, op) = g.dangling  BY <1>3, Zenon DEF Dangles
    <2> QED  BY <1>3, <2>2, <2>3, <2>4 DEF Outcomes
  <1> QED  BY <1>1, <1>2, <1>3

THEOREM BothHold == Spec => []Both
  <1> QED  BY InitBoth, StepBoth, PTL DEF Spec

LEMMA FieldOfSlot ==
  /\ \A s \in AsyncSlots : s[2] # "text" => s[2] \in Field /\ AsyncPatch[s] = s[2]
  /\ \A s \in SyncSlots : s[2] # "text" => s[2] \in Field /\ SyncPatch[s] = s[2]
  /\ DOMAIN AsyncPatch = AsyncSlots /\ DOMAIN SyncPatch = SyncSlots
  /\ AsyncSlots \subseteq Slot /\ SyncSlots \subseteq Slot
  <1>1. ASSUME NEW s \in AsyncSlots, s[2] # "text" PROVE s[2] \in Field /\ AsyncPatch[s] = s[2]
    <2>1. s[2] \in Field  BY <1>1 DEF AsyncSlots, Field, Number
    <2>2. s # <<6, "text">> /\ s # <<7, "text">>  BY <1>1
    <2> QED  BY <2>1, <2>2 DEF AsyncPatch
  <1>2. ASSUME NEW s \in SyncSlots, s[2] # "text" PROVE s[2] \in Field /\ SyncPatch[s] = s[2]
    <2>1. s[2] \in Field  BY <1>2 DEF SyncSlots, Field, Number
    <2>2. s # <<5, "text">> /\ s # <<7, "text">>  BY <1>2
    <2> QED  BY <2>1, <2>2 DEF SyncPatch
  <1> QED  BY <1>1, <1>2 DEF AsyncPatch, SyncPatch, Slot

(* One input for a number: what is reported, or what the file has.         *)
Reported(j, s) ==
  \/ job[j].graph.val[s] = job[j].values[s[2]] \/ BySetOp(j, s)
  \/ /\ Route(j) = "async" /\ job[j].values[s[2]] = "zero"
     /\ job[j].graph.val[s] = "default"
Own(j, s) == job[j].graph.val[s] = job[j].read.is.val[s] \/ BySetOp(j, s)

LEMMA InputGiven ==
  ASSUME Both, NEW j \in Job, job[j].graph # None, NEW s \in Taken(j)
  PROVE  IF s \in Known(j) THEN Reported(j, s) ELSE Own(j, s)
  <1>1. PICK is : is = job[j].read.is  OBVIOUS
  <1>2. PICK values : values = job[j].values  OBVIOUS
  <1>3. PICK op : op = job[j].request.op  OBVIOUS
  <1>4. PICK g : g = job[j].graph  OBVIOUS
  <1>5. is \in Graph /\ op \in Op
    BY <1>1, <1>3 DEF Both, AllMade, Made, Submitted
  <1>6. s \in Slot /\ s[1] \in is.nodes /\ s[2] # "text"
    BY <1>1, <1>5 DEF Taken, Graph
  <1>7. s \in Known(j) <=> ~is.wrapped /\ s \in Slots(j)
    BY <1>1 DEF Known
  <1>8. CASE Route(j) = "async"
    <2>1. g = Patched(is, AsyncPatch, Truthy(values)) /\ Slots(j) = AsyncSlots
      BY <1>1, <1>2, <1>4, <1>8 DEF Both, AllMade, Made, Submitted, Route, Slots
    <2>2. g.val[s] = IF ~is.wrapped /\ s \in AsyncSlots
                     THEN Truthy(values)[AsyncPatch[s]] ELSE is.val[s]
      BY <1>5, <1>6, <2>1, PatchedGraph, FieldOfSlot
    <2>3. CASE s \in Known(j)
      <3>1. g.val[s] = Truthy(values)[s[2]] /\ s[2] \in Field
        BY <1>6, <1>7, <2>1, <2>2, <2>3, FieldOfSlot
      <3>2. Truthy(values)[s[2]] = values[s[2]]
            \/ (values[s[2]] = "zero" /\ Truthy(values)[s[2]] = "default")
        BY <3>1 DEF Truthy
      <3> QED  BY <1>2, <1>4, <1>8, <2>3, <3>1, <3>2 DEF Reported
    <2>4. CASE s \notin Known(j)
      BY <1>1, <1>4, <1>7, <2>1, <2>2, <2>4 DEF Own
    <2> QED  BY <2>3, <2>4
  <1>9. CASE Route(j) # "async"
    <2>1. PICK p : p = Patched(is, SyncPatch, values)  OBVIOUS
    <2>2. g = AfterOps(p, op) /\ Slots(j) = SyncSlots
      BY <1>1, <1>2, <1>3, <1>4, <1>9, <2>1
         DEF Both, AllMade, Made, Submitted, Route, Slots
    <2>3. /\ DOMAIN p = DOMAIN is /\ DOMAIN p.val = Slot
          /\ p.val[s] = IF ~is.wrapped /\ s \in SyncSlots
                        THEN values[SyncPatch[s]] ELSE is.val[s]
      BY <1>5, <1>6, <2>1, PatchedGraph, FieldOfSlot
    <2>4. g.val[s] = p.val[s] \/ op = [do |-> "set", slot |-> s]
      <3>1. CASE op = NoOp  BY <2>2, <3>1 DEF AfterOps
      <3>2. CASE op # NoOp
        <4>1. g = Applied(p, op)  BY <2>2, <3>2 DEF AfterOps
        <4>2. DOMAIN p = Six  BY <1>5, <2>3 DEF Six, Graph
        <4>3. Outcomes(p, op, g)  BY <1>5, <2>3, <4>1, <4>2, AppliedGraph
        <4>4. g.val[s] = IF op.do = "set" /\ op.slot = s THEN "op" ELSE p.val[s]
          BY <1>6, <4>3 DEF Outcomes
        <4>5. op.do = "set" /\ op.slot = s => op = [do |-> "set", slot |-> s]
          BY <1>5, OpKinds
        <4> QED  BY <4>4, <4>5
      <3> QED  BY <3>1, <3>2
    <2>5. BySetOp(j, s) \/ g.val[s] = p.val[s]
      BY <1>3, <1>9, <2>4 DEF BySetOp
    <2>6. CASE s \in Known(j)
      <3>1. p.val[s] = values[s[2]]  BY <1>6, <1>7, <2>2, <2>3, <2>6, FieldOfSlot
      <3> QED  BY <1>2, <1>4, <2>5, <2>6, <3>1 DEF Reported
    <2>7. CASE s \notin Known(j)
      <3>1. p.val[s] = is.val[s]  BY <1>7, <2>2, <2>3, <2>7
      <3> QED  BY <1>1, <1>4, <2>5, <2>7, <3>1 DEF Own
    <2> QED  BY <2>6, <2>7
  <1> QED  BY <1>8, <1>9

(* Which inputs of what is submitted have the numbers of the answer, for    *)
(* every request, workflow file and op: those the nodes take and the patch *)
(* of the route knows, and no others.  The rest keep the file's numbers.   *)
THEOREM ReportsAreSubmitted == Spec => []ReportedIsSubmitted
  <1>1. Both => ReportedIsSubmitted
    <2> SUFFICES ASSUME Both, NEW j \in Job, job[j].graph # None
                 PROVE  /\ \A s \in Known(j) : Reported(j, s)
                        /\ \A s \in Taken(j) \ Known(j) : Own(j, s)
      BY DEF ReportedIsSubmitted, Reported, Own
    <2>1. Known(j) \subseteq Taken(j)  BY DEF Known
    <2> QED  BY <2>1, InputGiven
  <1> QED  BY <1>1, BothHold, PTL

(* A file whose nodes take what those of the repository's template take,    *)
(* given to the worker: every number it has is the file's own, whatever     *)
(* the task reports.                                                       *)
TemplateKeepsItsNumbers ==
  \A j \in Job :
    job[j].graph # None /\ Route(j) = "async" /\ job[j].read.is.takes \subseteq SyncSlots =>
      \A s \in Taken(j) : job[j].graph.val[s] = job[j].read.is.val[s]

(* "This expects the workflow json already matches your Flux Kontext API    *)
(* template" (bridge_job.py:64): with that template the worker's patch      *)
(* finds no input for a number.                                            *)
THEOREM WorkerMissesTheTemplate == Spec => []TemplateKeepsItsNumbers
  <1>1. \A s \in SyncSlots \cap AsyncSlots : s[2] = "text"
    BY DEF SyncSlots, AsyncSlots
  <1>2. Both => TemplateKeepsItsNumbers
    <2> SUFFICES ASSUME Both, NEW j \in Job, job[j].graph # None, Route(j) = "async",
                        job[j].read.is.takes \subseteq SyncSlots, NEW s \in Taken(j)
                 PROVE  job[j].graph.val[s] = job[j].read.is.val[s]
      BY DEF TemplateKeepsItsNumbers
    <2>1. s \in SyncSlots /\ s[2] # "text"  BY DEF Taken
    <2>2. s \notin AsyncSlots  BY <1>1, <2>1
    <2>3. Slots(j) = AsyncSlots  BY DEF Slots
    <2>4. s \notin Known(j)  BY <2>2, <2>3 DEF Known
    <2> QED  BY <2>4, InputGiven DEF Own, BySetOp
  <1> QED  BY <1>2, BothHold, PTL

(* The graph of a checked file, patched and with the planned op.           *)
AsPlanned(g, plan, op) ==
  /\ [g EXCEPT !.val = plan.val, !.wrapped = TRUE] = plan
  /\ \A s \in Slot \ SyncSlots : g.val[s] = plan.val[s]
  /\ op.do = "set" => g.val[op.slot] = plan.val[op.slot]
  /\ g.dangling = plan.dangling

LEMMA CheckedGraph ==
  ASSUME NEW is \in Graph, NEW op \in Op, NEW values,
         NEW plan, plan = Applied(is, op),
         NEW g, g = AfterOps(Patched(is, SyncPatch, values), op)
  PROVE  AsPlanned(g, plan, op)
  <1>1. PICK p : p = Patched(is, SyncPatch, values)  OBVIOUS
  <1>2. DOMAIN is = Six /\ DOMAIN is.val = Slot  BY DEF Six, Graph
  <1>3. /\ DOMAIN p = Six /\ DOMAIN p.val = Slot
        /\ p.nodes = is.nodes /\ p.linked = is.linked /\ p.dangling = is.dangling
        /\ p.takes = is.takes
        /\ \A s \in Slot \ SyncSlots : p.val[s] = is.val[s]
    BY <1>1, <1>2, PatchedGraph, FieldOfSlot
  <1>4. /\ plan = [nodes |-> plan.nodes, linked |-> plan.linked, dangling |-> plan.dangling,
                   wrapped |-> plan.wrapped, takes |-> plan.takes, val |-> plan.val]
        /\ plan.linked = is.linked /\ plan.wrapped = TRUE /\ plan.takes = is.takes
        /\ plan.nodes = IF op.do = "remove" THEN is.nodes \ {op.node} ELSE is.nodes
        /\ plan.dangling = Dangles(is, op)
        /\ \A s \in Slot : plan.val[s] = IF op.do = "set" /\ op.slot = s THEN "op" ELSE is.val[s]
    <2>1. Outcomes(is, op, plan)  BY <1>2, AppliedGraph
    <2> QED  BY <2>1 DEF Outcomes
  <1>5. op.do = "set" => op.slot \in Slot  BY OpKinds
  <1>6. CASE op = NoOp
    <2>1. g = p /\ op.do = "nothing"  BY <1>1, <1>6 DEF AfterOps, NoOp
    <2>2. /\ plan.nodes = p.nodes /\ plan.linked = p.linked /\ plan.dangling = p.dangling
          /\ plan.takes = p.takes
      <3>1. Dangles(is, op) = is.dangling
        <4>1. op.do # "remove"  BY <2>1
        <4> QED  BY <4>1, Zenon DEF Dangles
      <3> QED  BY <1>3, <1>4, <2>1, <3>1
    <2>3. PICK h : h = [g EXCEPT !.val = plan.val, !.wrapped = TRUE]  OBVIOUS
    <2>4. h = [nodes |-> p.nodes, linked |-> p.linked, dangling |-> p.dangling,
               wrapped |-> TRUE, takes |-> p.takes, val |-> plan.val]
      BY <1>3, <2>1, <2>3 DEF Six
    <2>5. h = plan  BY <1>4, <2>2, <2>4
    <2>6. \A s \in Slot \ SyncSlots : g.val[s] = plan.val[s]  BY <1>3, <1>4, <2>1
    <2> QED  BY <2>1, <2>2, <2>3, <2>5, <2>6 DEF AsPlanned
  <1>7. CASE op # NoOp
    <2>1. g = Applied(p, op)  BY <1>1, <1>7 DEF AfterOps
    <2>2. /\ g = [nodes |-> g.nodes, linked |-> g.linked, dangling |-> g.dangling,
                  wrapped |-> g.wrapped, takes |-> g.takes, val |-> g.val]
          /\ g.linked = p.linked /\ g.wrapped = TRUE /\ g.takes = p.takes
          /\ g.nodes = IF op.do = "remove" THEN p.nodes \ {op.node} ELSE p.nodes
          /\ g.dangling = Dangles(p, op)
          /\ \A s \in Slot : g.val[s] = IF op.do = "set" /\ op.slot = s THEN "op" ELSE p.val[s]
      <3>1. Outcomes(p, op, g)  BY <1>3, <2>1, AppliedGraph
      <3> QED  BY <3>1 DEF Outcomes
    <2>3. g.nodes = plan.nodes /\ g.linked = plan.linked /\ g.takes = plan.takes  BY <1>3, <1>4, <2>2
    <2>4. g.dangling = plan.dangling
      <3>1. Dangles(p, op) = Dangles(is, op)  BY <1>3, Zenon DEF Dangles
      <3> QED  BY <1>4, <2>2, <3>1
    <2>5. PICK h : h = [g EXCEPT !.val = plan.val, !.wrapped = TRUE]  OBVIOUS
    <2>6. h = [nodes |-> g.nodes, linked |-> g.linked, dangling |-> g.dangling,
               wrapped |-> TRUE, takes |-> g.takes, val |-> plan.val]
      BY <2>2, <2>5
    <2>7. h = plan  BY <1>4, <2>3, <2>4, <2>6
    <2>8. \A s \in Slot \ SyncSlots : g.val[s] = plan.val[s]  BY <1>3, <1>4, <2>2
    <2>9. op.do = "set" => g.val[op.slot] = plan.val[op.slot]  BY <1>4, <1>5, <2>2
    <2> QED  BY <2>4, <2>5, <2>7, <2>8, <2>9 DEF AsPlanned
  <1> QED  BY <1>6, <1>7

(* What /agent/apply submits is what its dry run has checked, but for the  *)
(* inputs generate_image patches, whatever the request and the op, unless  *)
(* the file has been edited in between or generation reads another.        *)
THEOREM AppliesAsChecked == Spec => []AppliedAsChecked
  <1>1. Both => AppliedAsChecked
    <2> SUFFICES ASSUME Both, NEW j \in Job, job[j].graph # None, Route(j) = "apply",
                        NEW plan, plan = job[j].plan, NEW g, g = job[j].graph,
                        NEW r, r = plan.of,
                        ~(job[j].read.version > plan.read.version),
                        r.generation = NoFile, r.workflow \notin NotJson
                 PROVE  /\ [g EXCEPT !.val = plan.graph.val, !.wrapped = TRUE] = plan.graph
                        /\ \A s \in Slot \ SyncSlots : g.val[s] = plan.graph.val[s]
                        /\ r.op.do = "set" => g.val[r.op.slot] = plan.graph.val[r.op.slot]
                        /\ g.dangling => r.force \/ ~r.requireSafe
      BY DEF AppliedAsChecked
    <2>1. Submitted(job[j]) /\ Planned(job[j])
      BY DEF Both, AllMade, Made, Route
    <2>2. PICK is : is = plan.read.is  OBVIOUS
    <2>3. /\ is \in Graph /\ plan.graph = Applied(is, r.op) /\ r.op \in Op
          /\ job[j].request.op = r.op /\ job[j].read.is = is
          /\ plan.graph.dangling => r.force \/ ~r.requireSafe
      BY <2>1, <2>2 DEF Planned
    <2>4. g = AfterOps(Patched(is, SyncPatch, job[j].values), r.op)
      BY <2>1, <2>3 DEF Submitted, Route
    <2>5. PICK values : values = job[j].values  OBVIOUS
    <2>6. PICK op : op = r.op  OBVIOUS
    <2>7. PICK checked : checked = plan.graph  OBVIOUS
    <2>8. /\ [g EXCEPT !.val = checked.val, !.wrapped = TRUE] = checked
          /\ \A s \in Slot \ SyncSlots : g.val[s] = checked.val[s]
          /\ op.do = "set" => g.val[op.slot] = checked.val[op.slot]
          /\ g.dangling = checked.dangling
      <3>1. /\ is \in Graph /\ op \in Op /\ checked = Applied(is, op)
            /\ g = AfterOps(Patched(is, SyncPatch, values), op)
        BY <2>3, <2>4, <2>5, <2>6, <2>7
      <3>2. AsPlanned(g, checked, op)  BY <3>1, CheckedGraph
      <3> QED  BY <3>2 DEF AsPlanned
    <2> QED  BY <2>3, <2>6, <2>7, <2>8
  <1> QED  BY <1>1, BothHold, PTL

-----------------------------------------------------------------------------
(* The limits of a task.  /submit fills in the policy up to the first value *)
(* it cannot convert and leaves the rest to the worker, which raises for   *)
(* what it cannot convert and for what has been left out: together they    *)
(* stop the requests with a bad limit and those that allow no attempt.     *)
LEMMA LimitsStopBadOnes ==
  ASSUME NEW limits \in [Limit -> Given]
  PROVE  LET given == WithPolicy(limits)
         IN /\ NoAttempt(given) => limits["max_retries"] = "negative"
            /\ NoAttempt(given) \/ LimitsRaise(given) <=>
                 \/ \E l \in Limit : limits[l] = "bad"
                 \/ limits["max_retries"] = "negative"
  <1>1. PICK given : given = WithPolicy(limits)  OBVIOUS
  <1>2. \A l \in Limit :
          given[l] = IF limits[l] = "none" /\ \A k \in Before(l) : limits[k] # "bad"
                     THEN "policy" ELSE limits[l]
    BY <1>1 DEF WithPolicy
  <1>3. ASSUME NEW l \in Limit, limits[l] = "bad" PROVE LimitsRaise(given)
    BY <1>2, <1>3 DEF Limit, LimitsRaise, Unusable
  <1>4. ASSUME NEW l \in Limit, given[l] = "bad" PROVE limits[l] = "bad"
    BY <1>2, <1>4
  <1>5. ASSUME NEW l \in Limit, given[l] = "none" PROVE \E k \in Limit : limits[k] = "bad"
    <2>1. \E k \in Before(l) : limits[k] = "bad"  BY <1>2, <1>5
    <2>2. Before(l) \subseteq Limit  BY DEF Before, Limit
    <2> QED  BY <2>1, <2>2
  <1>6. LimitsRaise(given) => \E l \in Limit : given[l] \in {"bad", "none"}
    BY DEF LimitsRaise, Unusable, Limit
  <1>7. given["max_retries"] = "negative" <=> limits["max_retries"] = "negative"
    BY <1>2 DEF Limit
  <1>8. NoAttempt(given) => limits["max_retries"] = "negative"
    BY <1>7 DEF NoAttempt
  <1>9. limits["max_retries"] = "negative" => NoAttempt(given) \/ LimitsRaise(given)
    BY <1>7 DEF NoAttempt, LimitsRaise
  <1> QED  BY <1>1, <1>3, <1>4, <1>5, <1>6, <1>8, <1>9

WellFormed(limits) == \A l \in Limit : limits[l] # "bad"
Negative(limits, l) == limits[l] = "negative"

(* What one step makes of its job, whatever the others have become.        *)
Became(j, x) ==
  /\ DOMAIN x = DOMAIN Fresh
  /\ \/ job[j].pc \notin {"failed", "done", "prepared only", "unattempted"} /\ x = [job[j] EXCEPT !.pc = "failed"]
     \/ /\ job[j].pc = "new" /\ x.pc \in {"ready", "queued", "prepared only"}
        /\ x.todo = job[j].todo
        /\ x.pc = "queued" => x.request \in Request[j] /\ x.limits = WithPolicy(x.request.limits)
     \/ job[j].pc \in {"ready", "queued"} /\ x.pc = "prepared" /\ x.todo = job[j].todo
     \/ job[j].pc = "queued" /\ x.pc = "unattempted" /\ x.todo = job[j].todo
     \/ job[j].pc = "prepared" /\ x.pc = "waiting" /\ x.todo = job[j].todo
     \/ /\ job[j].pc = "waiting" /\ entry[j] # None
        /\ x.pc \in {"failed", "saving"} /\ x.todo = entry[j].images
     \/ /\ job[j].pc = "saving" /\ x.pc = "saving"
        /\ \E i \in job[j].todo : x.todo = job[j].todo \ {i}
     \/ job[j].pc = "saving" /\ x.pc = "done" /\ x.todo = job[j].todo

LEMMA ReceiveShape ==
  ASSUME Inv, NEW j \in Job, NEW r \in Request[j], Receive(j, r)
  PROVE  \E x : job' = [job EXCEPT ![j] = x] /\ entry' = entry /\ Became(j, x)
  <1>0. DOMAIN job = Job /\ DOMAIN job[j] = DOMAIN Fresh
    BY DEF Inv, JobInv, Asked
  <1>1. CASE SyncReceive(j, r)
    <2>1. PICK x : x = [job[j] EXCEPT
            !.pc = "ready", !.request = r,
            !.values = Drawn(normalize_request(r)), !.path = Located("cwd", WorkflowName(r))]
      OBVIOUS
    <2>2. x.pc = "ready" /\ x.todo = job[j].todo /\ DOMAIN x = DOMAIN Fresh
      BY <1>0, <2>1 DEF Fresh
    <2>3. job' = [job EXCEPT ![j] = x] /\ entry' = entry /\ job[j].pc = "new"
      BY <1>1, <2>1 DEF SyncReceive
    <2> QED  BY <2>2, <2>3 DEF Became
  <1>2. CASE OnceStart(j, r)
    <2>1. PICK x : x = [job[j] EXCEPT
            !.pc = "ready", !.request = [r EXCEPT !.op = NoOp],
            !.values = Drawn([f \in Field |-> first_existing(r.top[f], "none")]),
            !.path = Located("cwd", FirstFile(r.workflow, NoFile))]
      OBVIOUS
    <2>2. x.pc = "ready" /\ x.todo = job[j].todo /\ DOMAIN x = DOMAIN Fresh
      BY <1>0, <2>1 DEF Fresh
    <2>3. job' = [job EXCEPT ![j] = x] /\ entry' = entry /\ job[j].pc = "new"
      BY <1>2, <2>1 DEF OnceStart
    <2> QED  BY <2>2, <2>3 DEF Became
  <1>3. CASE ApplyCheck(j, r)
    <2>1. PICK p : p = Located("cwd", FirstFile(r.workflow, NoFile))  OBVIOUS
    <2>2. PICK x : x = [job[j] EXCEPT
            !.pc = IF r.execute THEN "ready" ELSE "prepared only",
            !.request = Merged(r), !.values = Drawn(normalize_request(Merged(r))),
            !.path = Located("cwd", WorkflowName(Merged(r))),
            !.plan = [read |-> Reading(p), graph |-> Applied(file[p].is, r.op), of |-> r]]
      OBVIOUS
    <2>3. /\ x.pc \in {"ready", "prepared only"} /\ x.todo = job[j].todo
          /\ DOMAIN x = DOMAIN Fresh
      BY <1>0, <2>2 DEF Fresh
    <2>4. job' = [job EXCEPT ![j] = x] /\ entry' = entry /\ job[j].pc = "new"
      BY <1>3, <2>1, <2>2 DEF ApplyCheck
    <2> QED  BY <2>3, <2>4 DEF Became
  <1>4. CASE ApplyRefused(j, r)
    <2>1. PICK x : x = [job[j] EXCEPT !.pc = "failed"]  OBVIOUS
    <2>2. job' = [job EXCEPT ![j] = x] /\ entry' = entry /\ job[j].pc = "new"
      BY <1>4, <2>1 DEF ApplyRefused, Fails
    <2> QED  BY <1>0, <2>1, <2>2 DEF Became
  <1>5. CASE AsyncAccept(j, r)
    <2>1. PICK x : x = [job[j] EXCEPT
            !.pc = "queued", !.request = r, !.values = normalize_request(r),
            !.limits = WithPolicy(r.limits), !.path = resolve(r.profile, WorkflowName(r)),
            !.audit = build_audit_fields(resolve(r.profile, WorkflowName(r)))]
      OBVIOUS
    <2>2. /\ x.pc = "queued" /\ x.todo = job[j].todo /\ DOMAIN x = DOMAIN Fresh
          /\ x.request = r /\ x.limits = WithPolicy(r.limits)
      BY <1>0, <2>1 DEF Fresh
    <2>3. job' = [job EXCEPT ![j] = x] /\ entry' = entry /\ job[j].pc = "new"
      BY <1>5, <2>1 DEF AsyncAccept
    <2> QED  BY <2>2, <2>3 DEF Became
  <1> QED  BY <1>1, <1>2, <1>3, <1>4, <1>5 DEF Receive

LEMMA StepShape ==
  ASSUME Inv, NEW j \in Job, Step(j)
  PROVE  \E x : job' = [job EXCEPT ![j] = x] /\ entry' = entry /\ Became(j, x)
  <1>0. DOMAIN job = Job /\ DOMAIN job[j] = DOMAIN Fresh
    BY DEF Inv, JobInv, Asked
  <1>1. CASE Reject(j) \/ SyncPrepareFails(j) \/ AsyncPrepareFails(j) \/ SubmitFails(j)
             \/ GiveUp(j) \/ DownloadFails(j)
    <2>1. Fails(j) /\ job[j].pc \notin {"failed", "done", "prepared only", "unattempted"}
      BY <1>1
         DEF Reject, SyncPrepareFails, AsyncPrepareFails, SubmitFails, GiveUp, DownloadFails
    <2>2. PICK x : x = [job[j] EXCEPT !.pc = "failed"]  OBVIOUS
    <2>3. job' = [job EXCEPT ![j] = x] /\ entry' = entry  BY <2>1, <2>2 DEF Fails
    <2> QED  BY <1>0, <2>1, <2>2, <2>3 DEF Became
  <1>2. CASE \E r \in Request[j] : Receive(j, r)  BY <1>2, ReceiveShape
  <1>4. CASE SyncPrepare(j)
    <2>1. PICK p : p = job[j].path  OBVIOUS
    <2>2. PICK g : g = IF job[j].request.op = NoOp
                       THEN Patched(file[p].is, SyncPatch, job[j].values)
                       ELSE Applied(Patched(file[p].is, SyncPatch, job[j].values),
                                    job[j].request.op)
      OBVIOUS
    <2>3. PICK x : x = [job[j] EXCEPT !.pc = "prepared", !.read = Reading(p), !.graph = g]
      OBVIOUS
    <2>4. job' = [job EXCEPT ![j] = x] /\ entry' = entry /\ job[j].pc \in {"ready", "queued"}
      BY <1>0, <1>4, <2>1, <2>2, <2>3 DEF SyncPrepare
    <2>5. x.pc = "prepared" /\ x.todo = job[j].todo /\ DOMAIN x = DOMAIN Fresh
      BY <1>0, <2>3 DEF Fresh
    <2> QED  BY <2>4, <2>5 DEF Became
  <1>5. CASE AsyncPrepare(j)
    <2>1. PICK p : p = job[j].path  OBVIOUS
    <2>2. PICK g : g = Patched(file[p].is, AsyncPatch, Truthy(job[j].values))  OBVIOUS
    <2>3. PICK x : x = [job[j] EXCEPT !.pc = "prepared", !.read = Reading(p), !.graph = g]
      OBVIOUS
    <2>4. job' = [job EXCEPT ![j] = x] /\ entry' = entry /\ job[j].pc \in {"ready", "queued"}
      BY <1>0, <1>5, <2>1, <2>2, <2>3 DEF AsyncPrepare
    <2>5. x.pc = "prepared" /\ x.todo = job[j].todo /\ DOMAIN x = DOMAIN Fresh
      BY <1>0, <2>3 DEF Fresh
    <2> QED  BY <2>4, <2>5 DEF Became
  <1>6. CASE Submit(j)
    <2>1. PICK x : x = [job[j] EXCEPT !.pc = "waiting"]  OBVIOUS
    <2>2. x.pc = "waiting" /\ x.todo = job[j].todo /\ DOMAIN x = DOMAIN Fresh
      BY <1>0, <2>1 DEF Fresh
    <2>3. job' = [job EXCEPT ![j] = x] /\ entry' = entry /\ job[j].pc = "prepared"
      BY <1>6, <2>1 DEF Submit
    <2> QED  BY <2>2, <2>3 DEF Became
  <1>7. CASE Collect(j)
    <2>1. PICK x : x = [job[j] EXCEPT
            !.pc = IF entry[j].images = {} THEN "failed" ELSE "saving", !.todo = entry[j].images]
      OBVIOUS
    <2>2. /\ x.pc \in {"failed", "saving"} /\ x.todo = entry[j].images
          /\ DOMAIN x = DOMAIN Fresh
      BY <1>0, <2>1 DEF Fresh
    <2>3. /\ job' = [job EXCEPT ![j] = x] /\ entry' = entry /\ job[j].pc = "waiting"
          /\ entry[j] # None
      BY <1>0, <1>7, <2>1 DEF Collect, Over
    <2> QED  BY <2>2, <2>3 DEF Became
  <1>8. ASSUME NEW i \in job[j].todo, Download(j, i)
        PROVE  \E x : job' = [job EXCEPT ![j] = x] /\ entry' = entry /\ Became(j, x)
    <2>1. PICK x : x = [job[j] EXCEPT
            !.todo = @ \ {i},
            !.paths = IF Route(j) = "async" /\ i.number = 0 THEN @ ELSE @ \cup {i}]
      OBVIOUS
    <2>2. job' = [job EXCEPT ![j] = x] /\ entry' = entry /\ job[j].pc = "saving"
      BY <1>0, <1>8, <2>1 DEF Download
    <2>3. x.pc = "saving" /\ x.todo = job[j].todo \ {i} /\ DOMAIN x = DOMAIN Fresh
      BY <1>0, <2>1, <2>2 DEF Fresh
    <2> QED  BY <2>2, <2>3 DEF Became
  <1>9. CASE Answer(j)
    <2>1. PICK x : x = [job[j] EXCEPT !.pc = "done"]  OBVIOUS
    <2>2. x.pc = "done" /\ x.todo = job[j].todo /\ DOMAIN x = DOMAIN Fresh
      BY <1>0, <2>1 DEF Fresh
    <2>3. job' = [job EXCEPT ![j] = x] /\ entry' = entry /\ job[j].pc = "saving"
      BY <1>9, <2>1 DEF Answer
    <2> QED  BY <2>2, <2>3 DEF Became
  <1>10. CASE AsyncUnattempted(j)
    <2>1. PICK x : x = [job[j] EXCEPT !.pc = "unattempted"]  OBVIOUS
    <2>2. x.pc = "unattempted" /\ x.todo = job[j].todo /\ DOMAIN x = DOMAIN Fresh
      BY <1>0, <2>1 DEF Fresh
    <2>3. job' = [job EXCEPT ![j] = x] /\ entry' = entry /\ job[j].pc = "queued"
      BY <1>10, <2>1 DEF AsyncUnattempted
    <2> QED  BY <2>2, <2>3 DEF Became
  <1> QED  BY <1>1, <1>2, <1>4, <1>5, <1>6, <1>7, <1>8, <1>9, <1>10, Zenon DEF Step

LimitsKept(x) ==
  x.pc = "queued" => x.request.limits \in [Limit -> Given] /\ x.limits = WithPolicy(x.request.limits)

AllLimitsKept == \A j \in Job : LimitsKept(job[j])

LEMMA LimitsStep == Inv /\ AllLimitsKept /\ [Next]_vars => AllLimitsKept'
  <1> SUFFICES ASSUME Inv, AllLimitsKept, [Next]_vars PROVE AllLimitsKept'  OBVIOUS
  <1>1. ASSUME job' = job PROVE AllLimitsKept'
    BY <1>1 DEF AllLimitsKept, LimitsKept
  <1>2. ASSUME NEW j \in Job, Step(j) PROVE AllLimitsKept'
    <2>1. PICK x : job' = [job EXCEPT ![j] = x] /\ Became(j, x)  BY <1>2, StepShape
    <2>2. DOMAIN job = Job /\ DOMAIN job[j] = DOMAIN Fresh  BY DEF Inv, JobInv, Asked
    <2>3. job'[j] = x /\ \A k \in Job : k # j => job'[k] = job[k]  BY <2>1, <2>2
    <2>4. x.pc = "queued" => x.request \in Request[j] /\ x.limits = WithPolicy(x.request.limits)
      BY <2>1, <2>2 DEF Became, Fresh
    <2>5. \A r \in Request[j] : r.limits \in [Limit -> Given]  BY RequestAssumption
    <2> QED  BY <2>3, <2>4, <2>5 DEF AllLimitsKept, LimitsKept
  <1>3. CASE UNCHANGED vars  BY <1>1, <1>3 DEF vars
  <1>4. ASSUME NEW j \in Job, NEW o \in Outcome, Executed(j, o) PROVE AllLimitsKept'
    BY <1>1, <1>4 DEF Executed
  <1>5. ASSUME NEW p \in Edited, NEW c \in Content \cup {Missing}, Edit(p, c)
        PROVE  AllLimitsKept'
    BY <1>1, <1>5 DEF Edit
  <1> QED  BY <1>2, <1>3, <1>4, <1>5, Zenon DEF Next

(* A queued task goes on towards ComfyUI only if int() and float() take all *)
(* the limits its client has sent and max_retries is not below 0, and is   *)
(* left without an attempt only if it is.  A client that has sent such     *)
(* limits, or left some out, is never stopped by them.                     *)
LimitsDecide(j) ==
  LET sent == job[j].request.limits
  IN job[j].pc = "queued" /\ job'[j].pc # "queued" =>
       /\ job'[j].pc = "prepared" => WellFormed(sent) /\ ~Negative(sent, "max_retries")
       /\ job'[j].pc = "unattempted" => Negative(sent, "max_retries")
       /\ WellFormed(sent) /\ ~Negative(sent, "max_retries") =>
            ~NoAttempt(job[j].limits) /\ ~LimitsRaise(job[j].limits)

(* What a worker makes of the limits /submit has left in a task, for every *)
(* request: neither a malformed limit nor a negative max_retries is ever   *)
(* passed over on the way through the two conversions.                     *)
THEOREM MalformedLimitsNeverRun == Spec => [][\A j \in Job : LimitsDecide(j)]_vars
  <1>1. Init => AllLimitsKept
    BY DEF Init, Fresh, AllLimitsKept, LimitsKept
  <1>2. Inv /\ AllLimitsKept /\ [Next]_vars => \A j \in Job : LimitsDecide(j)
    <2> SUFFICES ASSUME Inv, AllLimitsKept, [Next]_vars, NEW j \in Job,
                        job[j].pc = "queued", job'[j].pc # "queued"
                 PROVE  LimitsDecide(j)
      BY DEF LimitsDecide
    <2>0. PICK sent : sent = job[j].request.limits  OBVIOUS
    <2>1. /\ NoAttempt(job[j].limits) => Negative(sent, "max_retries")
          /\ NoAttempt(job[j].limits) \/ LimitsRaise(job[j].limits) <=>
               ~WellFormed(sent) \/ Negative(sent, "max_retries")
      BY <2>0, LimitsStopBadOnes DEF AllLimitsKept, LimitsKept, WellFormed, Negative
    <2>2. DOMAIN job = Job /\ DOMAIN job[j] = DOMAIN Fresh  BY DEF Inv, JobInv, Asked
    <2>3. Step(j)
      <3>1. ~(job' = job)  OBVIOUS
      <3>2. ASSUME NEW k \in Job, Step(k) PROVE k = j
        <4>1. PICK x : job' = [job EXCEPT ![k] = x]  BY <3>2, StepShape
        <4> QED  BY <2>2, <4>1
      <3>3. ASSUME NEW k \in Job, NEW o \in Outcome, Executed(k, o) PROVE FALSE
        BY <3>1, <3>3 DEF Executed
      <3>4. ASSUME NEW p \in Edited, NEW c \in Content \cup {Missing}, Edit(p, c) PROVE FALSE
        BY <3>1, <3>4 DEF Edit
      <3>5. ~UNCHANGED vars  BY <3>1 DEF vars
      <3> QED  BY <3>2, <3>3, <3>4, <3>5, Zenon DEF Next
    <2>4. AsyncPrepare(j) \/ AsyncPrepareFails(j) \/ AsyncUnattempted(j)
      BY <2>3
         DEF Step, Reject, Receive, SyncReceive, OnceStart, ApplyCheck, ApplyRefused, AsyncAccept,
             SyncPrepare, SyncPrepareFails, Submit, SubmitFails, Collect, GiveUp, Download,
             DownloadFails, Answer
    <2>5. CASE AsyncPrepare(j)
      <3>1. job'[j].pc = "prepared"  BY <2>2, <2>5 DEF AsyncPrepare, Fresh
      <3>2. ~LimitsRaise(job[j].limits) /\ ~NoAttempt(job[j].limits)
        BY <2>5 DEF AsyncPrepare
      <3> QED  BY <2>0, <2>1, <3>1, <3>2 DEF LimitsDecide
    <2>6. CASE AsyncPrepareFails(j)
      <3>1. job'[j].pc = "failed"  BY <2>2, <2>6 DEF AsyncPrepareFails, Fails, Fresh
      <3> QED  BY <2>0, <2>1, <3>1 DEF LimitsDecide
    <2>7. CASE AsyncUnattempted(j)
      <3>1. job'[j].pc = "unattempted"  BY <2>2, <2>7 DEF AsyncUnattempted, Fresh
      <3>2. NoAttempt(job[j].limits)  BY <2>7 DEF AsyncUnattempted
      <3> QED  BY <2>0, <2>1, <3>1, <3>2 DEF LimitsDecide
    <2> QED  BY <2>4, <2>5, <2>6, <2>7
  <1>3. Inv /\ AllLimitsKept /\ [Next]_vars => (Inv /\ AllLimitsKept)'
    BY StepInv, LimitsStep
  <1> QED  BY InitInv, <1>1, <1>2, <1>3, PTL DEF Spec

-----------------------------------------------------------------------------
(* What is left to do for a request: the stages before it and the images   *)
(* still to download, of which a prompt has at most one per subfolder and  *)
(* one without a name.                                                     *)
Stage(pc) ==
  IF pc = "new" THEN 6
  ELSE IF pc \in {"ready", "queued"} THEN 5
  ELSE IF pc = "prepared" THEN 4
  ELSE IF pc = "waiting" THEN 3
  ELSE IF pc \notin {"failed", "done", "prepared only", "unattempted"} THEN 2
  ELSE 0

Rank(x) == 4 * Stage(x.pc) + Cardinality(x.todo)

Few(images) == IsFiniteSet(images) /\ Cardinality(images) <= 3

FewImages ==
  /\ \A j \in Job : Few(job[j].todo)
  /\ \A j \in Job : entry[j] # None => Few(entry[j].images)

LEMMA FewAmongThree ==
  ASSUME NEW a, NEW b, NEW c, NEW T, T \subseteq {a, b, c}
  PROVE  Few(T)
  <1>1. IsFiniteSet({a}) /\ Cardinality({a}) = 1  BY FS_Singleton
  <1>2. IsFiniteSet({a} \cup {b}) /\ Cardinality({a} \cup {b}) <= 2
    BY <1>1, FS_AddElement
  <1>3. PICK S : S = {a} \cup {b}  OBVIOUS
  <1>4. IsFiniteSet(S) /\ Cardinality(S) \in Nat /\ Cardinality(S) <= 2
    BY <1>2, <1>3, FS_CardinalityType
  <1>5. /\ IsFiniteSet(S \cup {c})
        /\ Cardinality(S \cup {c}) = IF c \in S THEN Cardinality(S) ELSE Cardinality(S) + 1
    BY <1>4, FS_AddElement
  <1>6. Cardinality(S \cup {c}) <= 3
    <2>1. CASE c \in S  BY <1>4, <1>5, <2>1
    <2>2. CASE c \notin S  BY <1>4, <1>5, <2>2
    <2> QED  BY <2>1, <2>2
  <1>7. T \subseteq S \cup {c}  BY <1>3
  <1>8. IsFiniteSet(T) /\ Cardinality(T) <= Cardinality(S \cup {c})
    BY <1>5, <1>7, FS_Subset
  <1>9. Cardinality(T) \in Nat /\ Cardinality(S \cup {c}) \in Nat
    BY <1>5, <1>8, FS_CardinalityType
  <1> QED  BY <1>6, <1>8, <1>9 DEF Few

LEMMA FewInit == Init => FewImages
  <1>1. Few({})  BY FS_EmptySet DEF Few
  <1>2. Fresh.todo = {}  BY DEF Fresh
  <1>3. Init => \A j \in Job : job[j] = Fresh /\ entry[j] = None  BY DEF Init
  <1> QED  BY <1>1, <1>2, <1>3 DEF FewImages

LEMMA Stages ==
  ASSUME NEW pc
  PROVE  /\ Stage(pc) \in Nat
         /\ pc \notin {"failed", "done", "prepared only", "unattempted"} => Stage(pc) # 0
         /\ pc \in {"failed", "done", "prepared only", "unattempted"} => Stage(pc) = 0
         /\ pc = "new" => Stage(pc) = 6
         /\ pc \in {"ready", "queued"} => Stage(pc) = 5
         /\ pc = "prepared" => Stage(pc) = 4
         /\ pc = "waiting" => Stage(pc) = 3
         /\ pc = "saving" => Stage(pc) = 2
  <1>1. Stage(pc) \in Nat  BY DEF Stage
  <1>2. pc \in {"failed", "done", "prepared only", "unattempted"} => Stage(pc) = 0  BY DEF Stage
  <1>3. pc = "new" => Stage(pc) = 6  BY DEF Stage
  <1>4. pc \in {"ready", "queued"} => Stage(pc) = 5  BY DEF Stage
  <1>5. pc = "prepared" => Stage(pc) = 4  BY DEF Stage
  <1>6. pc = "waiting" => Stage(pc) = 3  BY DEF Stage
  <1>7. pc = "saving" => Stage(pc) = 2  BY DEF Stage
  <1>8. ASSUME pc \notin {"failed", "done", "prepared only", "unattempted"} PROVE Stage(pc) # 0
    <2>1. CASE pc \in {"new", "ready", "queued", "prepared", "waiting"}
      <3>1. Stage(pc) = 6 \/ Stage(pc) = 5 \/ Stage(pc) = 4 \/ Stage(pc) = 3
        BY <1>3, <1>4, <1>5, <1>6, <2>1
      <3> QED  BY <3>1
    <2>2. CASE pc \notin {"new", "ready", "queued", "prepared", "waiting"}
      <3>1. Stage(pc) = 2  BY <1>8, <2>2 DEF Stage
      <3> QED  BY <3>1
    <2> QED  BY <2>1, <2>2
  <1> QED  BY <1>1, <1>2, <1>3, <1>4, <1>5, <1>6, <1>7, <1>8

(* What a step leaves to do is less than it was.                           *)
LEMMA Lowered ==
  ASSUME Inv, FewImages, NEW j \in Job, NEW x, Became(j, x)
  PROVE  Few(x.todo) /\ Rank(x) \in Nat /\ Rank(x) < Rank(job[j])
  <1>0. DOMAIN job[j] = DOMAIN Fresh  BY DEF Inv, JobInv, Asked
  <1>1. PICK n : n = Cardinality(job[j].todo)  OBVIOUS
  <1>2. PICK m : m = Cardinality(x.todo)  OBVIOUS
  <1>3. Few(job[j].todo) /\ n \in 0..3  BY <1>1, FS_CardinalityType DEF FewImages, Few
  <1>4. ASSUME Few(x.todo) PROVE m \in 0..3  BY <1>2, <1>4, FS_CardinalityType DEF Few
  <1>5. Rank(job[j]) = 4 * Stage(job[j].pc) + n /\ Rank(x) = 4 * Stage(x.pc) + m
    BY <1>1, <1>2 DEF Rank
  <1>6. Stage(job[j].pc) \in Nat /\ Stage(x.pc) \in Nat  BY Stages
  <1>7. ASSUME x.todo = job[j].todo, Stage(x.pc) < Stage(job[j].pc)
        PROVE  Few(x.todo) /\ Rank(x) \in Nat /\ Rank(x) < Rank(job[j])
    <2>1. m = n  BY <1>1, <1>2, <1>7
    <2> QED  BY <1>3, <1>5, <1>6, <1>7, <2>1
  <1>8. CASE job[j].pc \notin {"failed", "done", "prepared only", "unattempted"} /\ x = [job[j] EXCEPT !.pc = "failed"]
    <2>1. x.todo = job[j].todo /\ x.pc = "failed"  BY <1>0, <1>8 DEF Fresh
    <2>2. Stage(job[j].pc) # 0 /\ Stage(x.pc) = 0  BY <1>8, <2>1, Stages
    <2> QED  BY <1>6, <1>7, <2>1, <2>2
  <1>9. CASE job[j].pc = "new" /\ x.pc \in {"ready", "queued", "prepared only"}
             /\ x.todo = job[j].todo
    <2>1. Stage(job[j].pc) = 6 /\ (Stage(x.pc) = 0 \/ Stage(x.pc) = 5)  BY <1>9, Stages
    <2>2. Stage(x.pc) < Stage(job[j].pc)  BY <2>1
    <2> QED  BY <1>7, <1>9, <2>2
  <1>10. CASE job[j].pc \in {"ready", "queued"} /\ x.pc = "prepared" /\ x.todo = job[j].todo
    <2>1. Stage(job[j].pc) = 5 /\ Stage(x.pc) = 4  BY <1>10, Stages
    <2> QED  BY <1>7, <1>10, <2>1
  <1>11. CASE job[j].pc = "prepared" /\ x.pc = "waiting" /\ x.todo = job[j].todo
    <2>1. Stage(job[j].pc) = 4 /\ Stage(x.pc) = 3  BY <1>11, Stages
    <2> QED  BY <1>7, <1>11, <2>1
  <1>12. CASE job[j].pc = "waiting" /\ entry[j] # None
              /\ x.pc \in {"failed", "saving"} /\ x.todo = entry[j].images
    <2>1. Few(x.todo)  BY <1>12 DEF FewImages
    <2>2. Stage(job[j].pc) = 3 /\ (Stage(x.pc) = 0 \/ Stage(x.pc) = 2)
      BY <1>12, Stages
    <2>3. m \in 0..3  BY <1>4, <2>1
    <2> QED  BY <1>3, <1>5, <2>1, <2>2, <2>3
  <1>13. CASE job[j].pc = "saving" /\ x.pc = "saving"
              /\ \E i \in job[j].todo : x.todo = job[j].todo \ {i}
    <2>1. PICK i \in job[j].todo : x.todo = job[j].todo \ {i}  BY <1>13
    <2>2. IsFiniteSet(job[j].todo)  BY <1>3 DEF Few
    <2>3. IsFiniteSet(x.todo) /\ m = n - 1
      BY <1>1, <1>2, <2>1, <2>2, FS_RemoveElement
    <2>4. m \in Nat  BY <1>2, <2>3, FS_CardinalityType
    <2>5. Few(x.todo)  BY <1>2, <1>3, <2>3, <2>4 DEF Few
    <2>6. Stage(job[j].pc) = 2 /\ Stage(x.pc) = 2  BY <1>13, Stages
    <2> QED  BY <1>3, <1>5, <2>3, <2>4, <2>5, <2>6
  <1>15. CASE job[j].pc = "queued" /\ x.pc = "unattempted" /\ x.todo = job[j].todo
    <2>1. Stage(job[j].pc) = 5 /\ Stage(x.pc) = 0  BY <1>15, Stages
    <2> QED  BY <1>7, <1>15, <2>1
  <1>14. CASE job[j].pc = "saving" /\ x.pc = "done" /\ x.todo = job[j].todo
    <2>1. Stage(job[j].pc) = 2 /\ Stage(x.pc) = 0  BY <1>14, Stages
    <2> QED  BY <1>7, <1>14, <2>1
  <1> QED  BY <1>8, <1>9, <1>10, <1>11, <1>12, <1>13, <1>14, <1>15 DEF Became

LEMMA FewStep == Inv /\ FewImages /\ [Next]_vars => FewImages'
  <1> SUFFICES ASSUME Inv, FewImages, [Next]_vars PROVE FewImages'  OBVIOUS
  <1>1. ASSUME NEW j \in Job, Step(j) PROVE FewImages'
    <2>1. PICK x : job' = [job EXCEPT ![j] = x] /\ entry' = entry /\ Became(j, x)
      BY <1>1, StepShape
    <2>2. Few(x.todo)  BY <2>1, Lowered
    <2>3. DOMAIN job = Job  BY DEF Inv
    <2> QED  BY <2>1, <2>2, <2>3 DEF FewImages, Few
  <1>2. ASSUME NEW j \in Job, NEW o \in Outcome, Executed(j, o) PROVE FewImages'
    <2>1. PICK s : s = job[j].request.server  OBVIOUS
    <2>2. PICK named : named = {[owner |-> j, server |-> s, folder |-> d,
                                 number |-> numbered[<<s, d>>] + 1] : d \in o.folders}
      OBVIOUS
    <2>3. PICK a : a = [owner |-> j, server |-> s, folder |-> "", number |-> numbered[<<s, "">>] + 1]
      OBVIOUS
    <2>4. PICK b : b = [owner |-> j, server |-> s, folder |-> "sub",
                        number |-> numbered[<<s, "sub">>] + 1]
      OBVIOUS
    <2>5. PICK odd : odd = IF o.unnamed
                           THEN {[owner |-> j, server |-> s, folder |-> "", number |-> 0]}
                           ELSE {}
      OBVIOUS
    <2>6. PICK c : odd \subseteq {c}  BY <2>5
    <2>7. PICK e : e = [completed |-> o.completed, images |-> named \cup odd, other |-> o.other]
      OBVIOUS
    <2>8. Few(e.images)
      <3>1. o.folders \subseteq {"", "sub"}  BY OutcomeAssumption DEF SubFolder
      <3>2. named \subseteq {a, b}  BY <2>2, <2>3, <2>4, <3>1
      <3>3. named \cup odd \subseteq {a, b, c}  BY <2>6, <3>2
      <3>4. Few(named \cup odd)  BY <3>3, FewAmongThree
      <3> QED  BY <2>7, <3>4
    <2>9. entry' = [entry EXCEPT ![j] = e] /\ job' = job
      BY <1>2, <2>1, <2>2, <2>5, <2>7 DEF Executed
    <2> QED  BY <2>8, <2>9 DEF FewImages, Few
  <1>3. ASSUME NEW p \in Edited, NEW c \in Content \cup {Missing}, Edit(p, c) PROVE FewImages'
    BY <1>3 DEF Edit, FewImages, Few
  <1>4. CASE UNCHANGED vars  BY <1>4 DEF vars, FewImages, Few
  <1> QED  BY <1>1, <1>2, <1>3, <1>4, Zenon DEF Next

(* No request ever goes back: whatever changes a request leaves less to do *)
(* for it than there was.                                                  *)
NoneGoesBack ==
  \A j \in Job : job'[j] # job[j] =>
    Rank(job'[j]) \in Nat /\ Rank(job'[j]) < Rank(job[j])

(* Each request takes finitely many steps, whatever the other requests,    *)
(* ComfyUI and the people who edit the files do: the half of               *)
(* EveryRequestIsAnswered that needs no fairness.                          *)
THEOREM RequestsAdvance == Spec => [][NoneGoesBack]_vars
  <1>1. Inv /\ FewImages /\ [Next]_vars => NoneGoesBack \/ UNCHANGED vars
    <2> SUFFICES ASSUME Inv, FewImages, [Next]_vars, ~UNCHANGED vars,
                        NEW j \in Job, job'[j] # job[j]
                 PROVE  Rank(job'[j]) \in Nat /\ Rank(job'[j]) < Rank(job[j])
      BY DEF NoneGoesBack
    <2>1. ASSUME NEW k \in Job, Step(k)
          PROVE  Rank(job'[j]) \in Nat /\ Rank(job'[j]) < Rank(job[j])
      <3>1. PICK x : job' = [job EXCEPT ![k] = x] /\ Became(k, x)  BY <2>1, StepShape
      <3>2. DOMAIN job = Job  BY DEF Inv
      <3>3. k = j /\ job'[j] = x  BY <3>1, <3>2
      <3> QED  BY <3>1, <3>3, Lowered
    <2>2. ASSUME NEW k \in Job, NEW o \in Outcome, Executed(k, o) PROVE FALSE
      BY <2>2 DEF Executed
    <2>3. ASSUME NEW p \in Edited, NEW c \in Content \cup {Missing}, Edit(p, c) PROVE FALSE
      BY <2>3 DEF Edit
    <2> QED  BY <2>1, <2>2, <2>3, Zenon DEF Next
  <1>2. Inv /\ FewImages /\ [Next]_vars => (Inv /\ FewImages)'
    BY StepInv, FewStep
  <1> QED  BY InitInv, FewInit, <1>1, <1>2, PTL DEF Spec

=============================================================================
