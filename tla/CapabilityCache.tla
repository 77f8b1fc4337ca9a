------------------------- MODULE CapabilityCache -------------------------
(***************************************************************************)
(* The capability manifests of workflows and the files they are cached in. *)
(* Handler threads of the bridge share one directory, in which a manifest  *)
(* has a file under the hash of the workflow's content.  ManifestCache.put *)
(* truncates the file and writes it in pieces at the writer's own offset,  *)
(* and get reads it in pieces at the reader's: no lock keeps two writers,  *)
(* or a writer and a reader, apart.                                        *)
(***************************************************************************)
EXTENDS Capability, Sequences

CONSTANTS
  Handler,      \* handler threads
  Path,         \* the names workflow files are asked for under
  Workflow,     \* what the files may hold
  Nodes,        \* the nodes of each, sets of keywords
  Pieces,       \* how many pieces a manifest is written and read in
  None,
  MaxEdits, MaxFaults, MaxRestarts

ASSUME WorkflowAssumption == None \notin Workflow /\ Nodes \in [Workflow -> SUBSET SUBSET Keyword]
ASSUME BoundAssumption == MaxEdits \in Nat /\ MaxFaults \in Nat /\ MaxRestarts \in Nat

VARIABLES
  content,      \* the workflow files
  cached,       \* the file of each workflow's manifest
  version,      \* that of the registry: it may change when the bridge is not up
  handler,      \* what each handler is at
  spoiled,      \* history: what a put has not ended alone, and none has since
  edits, faults, restarts

bounds == <<edits, faults, restarts>>
vars == <<content, cached, version, handler, spoiled, bounds>>

(* A piece is what no read and no write divides: it has its place in the   *)
(* file, and the manifest it is of.  The names and the time a manifest     *)
(* carries give it its length: two may well be of the same.                *)
Manifest == [of : Workflow, named : Path, version : 0..MaxRestarts]
ASSUME PiecesAssumption == Pieces \in [Manifest -> Nat \ {0}]

Hole == <<None, 0>>

(* json.load accepts the pieces of one manifest, all of them; it refuses   *)
(* an empty file, a part of one manifest, and the null bytes of a hole.    *)
(* What has pieces of several may be read or not.                          *)
Whole(m) == [i \in 1..Pieces[m] |-> <<m, i>>]
Readable(f) == f # <<>> /\ f[1] # Hole /\ f = Whole(f[1][1])
Pieced(f) ==
  /\ \A i \in DOMAIN f : f[i] # Hole
  /\ \E i, j \in DOMAIN f : f[i][1] # f[j][1]

(* "alone": no put has begun beside the handler's own put, or beside its   *)
(* reading of a file that was in order when it was opened.                 *)
Idle == [pc |-> "idle", of |-> None, named |-> None, at |-> 0, seen |-> <<>>,
         alone |-> FALSE, answer |-> None, hit |-> "no"]

Init ==
  /\ content \in [Path -> Workflow]
  /\ cached = [w \in Workflow |-> None]
  /\ version = 0
  /\ handler = [h \in Handler |-> Idle]
  /\ spoiled = {}
  /\ edits = 0 /\ faults = 0 /\ restarts = 0

At(w, pc) == {h \in Handler : handler[h].pc = pc /\ handler[h].of = w}
Putting(w) == At(w, "put")

Goes(h, from, to) == handler[h].pc = from /\ handler' = [handler EXCEPT ![h].pc = to]

(* The manifest the handler builds.                                        *)
Built(h) == [of |-> handler[h].of, named |-> handler[h].named, version |-> version]

-----------------------------------------------------------------------------
(* The file is read and hashed once; what follows is about that content.   *)
Receive(h, p, use, refresh) ==
  /\ handler[h].pc \in {"idle", "answered", "refused", "unreadable"}
  /\ handler' = [handler EXCEPT ![h] =
       [Idle EXCEPT !.pc = IF ~use THEN "build only" ELSE IF refresh THEN "build" ELSE "lookup",
                    !.of = content[p], !.named = p]]
  /\ UNCHANGED <<content, cached, version, spoiled, bounds>>

(* Faulty variant: the file is kept under the name of the workflow: what   *)
(* any content of it has been cached as is found.                          *)
FileByName(h) ==
  LET named == {w \in Workflow : cached[w] # None /\ Readable(cached[w])
                                  /\ cached[w][1][1].named = handler[h].named}
  IN IF named # {} THEN cached[CHOOSE w \in named : TRUE] ELSE None

(* path_for: the file under the hash of what the handler has read.         *)
FileOf(h) == cached[handler[h].of]

LookupMiss(h) ==
  /\ Goes(h, "lookup", "build")
  /\ FileOf(h) = None
  /\ UNCHANGED <<content, cached, version, spoiled, bounds>>

(* The file is there, and is opened; another may truncate it all the same. *)
LookupOpen(h) ==
  LET w == handler[h].of
  IN /\ handler[h].pc = "lookup" /\ FileOf(h) # None
     /\ handler' = [handler EXCEPT ![h].pc = "reading",
                                   ![h].alone = Putting(w) = {} /\ w \notin spoiled]
     /\ UNCHANGED <<content, cached, version, spoiled, bounds>>

(* The next piece, of what the file has become since.                      *)
AtEnd(h) == Len(handler[h].seen) >= Len(FileOf(h))

Read(h) ==
  LET seen == handler[h].seen
  IN /\ handler[h].pc = "reading" /\ ~AtEnd(h)
     /\ handler' = [handler EXCEPT ![h].seen = Append(seen, FileOf(h)[Len(seen) + 1])]
     /\ UNCHANGED <<content, cached, version, spoiled, bounds>>

LookupHit(h) ==
  LET seen == handler[h].seen
  IN /\ handler[h].pc = "reading" /\ AtEnd(h)
     /\ Readable(seen) \/ Pieced(seen)
     /\ handler' = [handler EXCEPT ![h].pc = "answered", ![h].answer = seen[1][1],
                                   ![h].hit = IF Readable(seen) THEN "whole" ELSE "pieced"]
     /\ UNCHANGED <<content, cached, version, spoiled, bounds>>

(* CapabilityCacheError; the handler answers 400.                          *)
LookupBroken(h) ==
  /\ Goes(h, "reading", "unreadable")
  /\ AtEnd(h) /\ ~Readable(handler[h].seen)
  /\ UNCHANGED <<content, cached, version, spoiled, bounds>>

(* Without the cache the manifest is the answer.                           *)
BuildOnly(h) ==
  /\ handler[h].pc = "build only"
  /\ handler' = [handler EXCEPT ![h].pc = "answered", ![h].answer = Built(h)]
  /\ UNCHANGED <<content, cached, version, spoiled, bounds>>

(* Faulty variant: opened for writing, and not truncated.                  *)
OpenAsIs(h) ==
  LET w == handler[h].of
  IN /\ handler[h].pc = "build"
     /\ cached' = [cached EXCEPT ![w] = IF @ = None THEN <<>> ELSE @]
     /\ handler' = [k \in Handler |->
          IF k = h THEN [handler[h] EXCEPT !.pc = "put", !.alone = Putting(w) = {}]
          ELSE IF k \in Putting(w) \cup At(w, "reading") THEN [handler[k] EXCEPT !.alone = FALSE]
          ELSE handler[k]]
     /\ spoiled' = IF Putting(w) = {} THEN spoiled ELSE spoiled \cup {w}
     /\ UNCHANGED <<content, version, bounds>>

(* ManifestCache.put: open for writing.                                    *)
Open(h) ==
  LET w == handler[h].of
  IN /\ handler[h].pc = "build"
     /\ cached' = [cached EXCEPT ![w] = <<>>]
     /\ handler' = [k \in Handler |->
          IF k = h THEN [handler[h] EXCEPT !.pc = "put", !.alone = Putting(w) = {}]
          ELSE IF k \in Putting(w) \cup At(w, "reading") THEN [handler[k] EXCEPT !.alone = FALSE]
          ELSE handler[k]]
     /\ spoiled' = IF Putting(w) = {} THEN spoiled ELSE spoiled \cup {w}
     /\ UNCHANGED <<content, version, bounds>>

(* The file cannot be opened for writing: it is left as it is.             *)
OpenFails(h) ==
  /\ faults < MaxFaults /\ faults' = faults + 1
  /\ Goes(h, "build", "refused")
  /\ UNCHANGED <<content, cached, version, spoiled, edits, restarts>>

(* A piece where the writer is, whatever the file has become since.        *)
Written(f, i, piece) ==
  [k \in 1..(IF i > Len(f) THEN i ELSE Len(f)) |-> IF k = i THEN piece ELSE IF k <= Len(f) THEN f[k] ELSE Hole]

Write(h) ==
  LET w == handler[h].of
      i == handler[h].at + 1
  IN /\ handler[h].pc = "put" /\ i <= Pieces[Built(h)]
     /\ cached' = [cached EXCEPT ![w] = Written(@, i, <<Built(h), i>>)]
     /\ handler' = [handler EXCEPT ![h].at = i]
     /\ UNCHANGED <<content, version, spoiled, bounds>>

Close(h) ==
  /\ handler[h].pc = "put" /\ handler[h].at = Pieces[Built(h)]
  /\ handler' = [handler EXCEPT ![h].pc = "answered", ![h].answer = Built(h)]
  /\ spoiled' = IF handler[h].alone THEN spoiled \ {handler[h].of} ELSE spoiled
  /\ UNCHANGED <<content, cached, version, bounds>>

(* The disk is full: what has been written stays, the answer is 400.       *)
PutFails(h) ==
  /\ faults < MaxFaults /\ faults' = faults + 1
  /\ Goes(h, "put", "refused")
  /\ spoiled' = spoiled \cup {handler[h].of}
  /\ UNCHANGED <<content, cached, version, edits, restarts>>

Step(h) ==
  \/ \E p \in Path, use, refresh \in BOOLEAN : Receive(h, p, use, refresh)
  \/ LookupMiss(h) \/ LookupOpen(h) \/ Read(h) \/ LookupHit(h) \/ LookupBroken(h)
  \/ BuildOnly(h) \/ Open(h) \/ OpenFails(h) \/ Write(h) \/ Close(h) \/ PutFails(h)

-----------------------------------------------------------------------------
Edit(p, w) ==
  /\ edits < MaxEdits /\ edits' = edits + 1
  /\ content[p] # w
  /\ content' = [content EXCEPT ![p] = w]
  /\ UNCHANGED <<cached, version, handler, spoiled, faults, restarts>>

(* The bridge ends in the middle of whatever it does; when it is started   *)
(* again, its registry may know other capabilities.                        *)
Restart ==
  /\ restarts < MaxRestarts /\ restarts' = restarts + 1
  /\ version' \in {version, version + 1}
  /\ handler' = [h \in Handler |-> Idle]
  /\ spoiled' = spoiled \cup {w \in Workflow : Putting(w) # {}}
  /\ UNCHANGED <<content, cached, edits, faults>>

Next ==
  \/ \E h \in Handler : Step(h)
  \/ \E p \in Path, w \in Workflow : Edit(p, w)
  \/ Restart

Spec == Init /\ [][Next]_vars

-----------------------------------------------------------------------------
(* An answer is about the workflow the handler has read, and was built for *)
(* the name it was asked for by the registry there is, unless it is a hit: *)
(* the file may come from another name of the same content, from before an *)
(* upgrade, or from several puts.  An edit, or a manifest of another       *)
(* workflow put in the meantime, is never mixed in.                        *)
AnswersFitTheWorkflow ==
  \A h \in Handler : handler[h].pc = "answered" =>
    LET m == handler[h].answer
    IN /\ m.of = handler[h].of
       /\ handler[h].hit = "no" => m.named = handler[h].named /\ m.version = version

(* A file that is not one manifest, whole, is one of a put that has not    *)
(* ended, has been cut short or has been overlapped by another,            *)
(* cache.py:40: one put that has the file for itself repairs it.  And what *)
(* a get reads from a file in order, in as many steps as it takes, is one  *)
(* manifest, whole, unless a put begins while it reads.                    *)
BrokenIsExplained ==
  /\ \A w \in Workflow :
       cached[w] # None /\ ~Readable(cached[w]) => w \in spoiled \/ Putting(w) # {}
  /\ \A h \in Handler :
       handler[h].pc = "unreadable" \/ handler[h].hit = "pieced" => ~handler[h].alone

(* Two answers of one registry agree: the workflow with more nodes has     *)
(* every capability of the other, ready if it is ready there, and what     *)
(* waits for a dependency is never as confident as what is ready.  An      *)
(* answer of several puts may have pieces of more than one registry.       *)
Detection == [w \in Workflow |-> detect_capabilities(Nodes[w])]

AnswersGrow ==
  \A h, k \in {h \in Handler : handler[h].pc = "answered" /\ handler[h].hit # "pieced"} :
    LET m == handler[h].answer
        n == handler[k].answer
        less == Detection[m.of]
        more == Detection[n.of]
    IN Nodes[m.of] \subseteq Nodes[n.of] /\ m.version = n.version =>
         /\ DOMAIN less \subseteq DOMAIN more
         /\ ReadyIn(less) \subseteq ReadyIn(more)
         /\ \A c \in ReadyIn(less), d \in (DOMAIN more) \ ReadyIn(more) :
              more[c].confidence > more[d].confidence
=============================================================================
