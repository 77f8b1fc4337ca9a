------------------------- MODULE ExperienceMemory -------------------------
(***************************************************************************)
(* The experience memory of workflow_memory.py: one JSON record per line of *)
(* a file that handler threads of POST /agent/memory/log share without a   *)
(* lock.  remember_experience reads the whole file, looks for the record's *)
(* id and appends in a later step.  One append is one write at the end of  *)
(* the file and cannot be split by another append, but a full disk can cut *)
(* it short: the request then fails and its bytes stay where they are.     *)
(* A record is reduced to its id; what a line's text can be read as is all *)
(* that is kept of it.                                                     *)
(***************************************************************************)
EXTENDS Naturals, Sequences, FiniteSets

CONSTANTS
  Handler,      \* threads that serve /agent/memory/log
  Id,           \* record ids: experience_id, or the hash of the content
  NoId,         \* not an id: the handler is idle
  Bad,          \* a line json.loads rejects
  Garbled,      \* a line that is not UTF-8
  MaxCuts       \* bound on the appends that are cut short

ASSUME IdAssumption == {NoId, Bad, Garbled} \cap Id = {} /\ Bad # Garbled
ASSUME HandlerAssumption == IsFiniteSet(Handler)
ASSUME CutsAssumption == MaxCuts \in Nat

VARIABLES
  file,         \* what each line holds: a record, Bad or Garbled
  open,         \* the last line has no newline yet
  pc, req,      \* a handler's place in remember_experience, and its record.id
  cuts,         \* appends cut short
  known         \* history: ids answered "stored" or "already exists"

vars == <<file, open, pc, req, cuts, known>>

Init ==
  /\ file = <<>>
  /\ open = FALSE
  /\ pc = [h \in Handler |-> "idle"]
  /\ req = [h \in Handler |-> NoId]
  /\ cuts = 0
  /\ known = {}

(* What load() returns, as a set of ids: lines that do not parse are       *)
(* skipped.                                                                *)
Recorded == {file[i] : i \in DOMAIN file} \cap Id

(* Decoding is done by the iteration over the file, outside load's try: a  *)
(* line that is not UTF-8 ends load with UnicodeDecodeError.               *)
Readable == \A i \in DOMAIN file : file[i] # Garbled

(* Faulty variant: a file opened with "w".                                 *)
WriteAfresh(piece) == file' = <<piece>>

(* A piece is written after whatever the last line already holds; glued to *)
(* another text, a record is not JSON any more, and bytes that were not    *)
(* UTF-8 stay so.                                                          *)
Glued(line, piece) == IF Garbled \in {line, piece} THEN Garbled ELSE Bad

WriteAtEnd(piece) ==
  file' = IF open THEN [file EXCEPT ![Len(file)] = Glued(file[Len(file)], piece)]
                  ELSE Append(file, piece)

(* The handler answers and is done.                                        *)
Answer(h) ==
  /\ pc' = [pc EXCEPT ![h] = "idle"]
  /\ req' = [req EXCEPT ![h] = NoId]

(* build_experience_record: a request that is sent again, or that differs  *)
(* in its notes or its rating alone, has the same id.                      *)
Build(h, id) ==
  /\ pc[h] = "idle"
  /\ pc' = [pc EXCEPT ![h] = "load"]
  /\ req' = [req EXCEPT ![h] = id]
  /\ UNCHANGED <<file, open, cuts, known>>

LoadRaises(h) ==
  /\ pc[h] = "load"
  /\ ~Readable
  /\ Answer(h)
  /\ UNCHANGED <<file, open, cuts, known>>

LoadFinds(h) ==
  /\ pc[h] = "load"
  /\ Readable
  /\ req[h] \in Recorded
  /\ known' = known \cup {req[h]}
  /\ Answer(h)
  /\ UNCHANGED <<file, open, cuts>>

(* Faulty variant: the look-up is dropped.                                 *)
LoadIgnored(h) ==
  /\ pc[h] = "load"
  /\ Readable
  /\ pc' = [pc EXCEPT ![h] = "append"]
  /\ UNCHANGED <<file, open, req, cuts, known>>

LoadMisses(h) ==
  /\ pc[h] = "load"
  /\ Readable
  /\ req[h] \notin Recorded
  /\ pc' = [pc EXCEPT ![h] = "append"]
  /\ UNCHANGED <<file, open, req, cuts, known>>

AppendLine(h) ==
  /\ pc[h] = "append"
  /\ WriteAtEnd(req[h])
  /\ open' = FALSE
  /\ known' = known \cup {req[h]}
  /\ Answer(h)
  /\ UNCHANGED cuts

(* Nothing is written: the directory, the open or the encoding fails.      *)
AppendFails(h) ==
  /\ pc[h] = "append"
  /\ Answer(h)
  /\ UNCHANGED <<file, open, cuts, known>>

(* The write is cut before the newline, inside the text, or inside one of  *)
(* its multi-byte characters (ensure_ascii is off).                        *)
AppendCut(h) ==
  /\ pc[h] = "append"
  /\ cuts < MaxCuts
  /\ \E piece \in {req[h], Bad, Garbled} : WriteAtEnd(piece)
  /\ open' = TRUE
  /\ cuts' = cuts + 1
  /\ Answer(h)
  /\ UNCHANGED known

(* The process ends and is started again: only the file is left.           *)
Restart ==
  /\ pc' = [h \in Handler |-> "idle"]
  /\ req' = [h \in Handler |-> NoId]
  /\ UNCHANGED <<file, open, cuts, known>>

Next ==
  \/ \E h \in Handler, id \in Id : Build(h, id)
  \/ \E h \in Handler : LoadRaises(h) \/ LoadFinds(h) \/ LoadMisses(h)
  \/ \E h \in Handler : AppendLine(h) \/ AppendFails(h) \/ AppendCut(h)
  \/ Restart

Spec == Init /\ [][Next]_vars

-----------------------------------------------------------------------------
(* A handler has a record exactly while it serves a request, and only the  *)
(* last line of a file that has one can lack its newline.                  *)
TypeOK ==
  /\ file \in Seq(Id \cup {Bad, Garbled})
  /\ open \in BOOLEAN
  /\ open => file # <<>>
  /\ pc \in [Handler -> {"idle", "load", "append"}]
  /\ req \in [Handler -> Id \cup {NoId}]
  /\ \A h \in Handler : pc[h] = "idle" <=> req[h] = NoId
  /\ cuts \in 0..MaxCuts
  /\ known \subseteq Id

Copies(id) == {i \in DOMAIN file : file[i] = id}
Appending(id) == {h \in Handler : pc[h] = "append" /\ req[h] = id}

(* The check of line 576 is made before the append and not again: requests *)
(* that run together can store a record more than once, but never more     *)
(* often than there are threads, copies still to be written included.      *)
DuplicatesBounded ==
  \A id \in Id :
    Copies(id) # {} =>
      Cardinality(Copies(id)) + Cardinality(Appending(id)) <= Cardinality(Handler)

(* Experiences a client has been told are in the memory, and that no line  *)
(* of it holds.                                                            *)
Lost == known \ Recorded

(* An append that is cut short costs at most two experiences: the record   *)
(* it wrote but for the newline, which a repeated request may have been    *)
(* told "already exists", and the next one, which is glued to it.  This is *)
(* about the lines of the file; load may still raise on one of them.       *)
LossBounded == Cardinality(Lost) <= 2 * cuts
=============================================================================
