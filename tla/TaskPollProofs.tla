-------------------------- MODULE TaskPollProofs --------------------------
(* What a client of the asynchronous bridge is told, for any number of     *)
(* clients, polls that fail and restarts.  What a client learns in the end *)
(* is a matter of fairness and is left to the runs.                        *)
EXTENDS TaskPoll, SequenceTheorems, TLAPS

Status == Terminal \cup {"PENDING", "RUNNING"}
Trouble == {"None", "Failure", "Cancelled", "CancelRequested"}
FieldName == {"status", "started", "finished", "result", "error"}
Value == Status \cup BOOLEAN \cup Trouble
Told == Terminal \cup {"PENDING", "RUNNING", "EMPTY", "none", "refused", "timeout", "raised"}

TypeOK ==
  /\ task \in [Client -> Record \cup {None}]
  /\ lock \in [task : Client \cup {None}, todo : Seq(FieldName), to : Record \cup {None}]
  /\ work \in [Client -> {"none", "queued", "taken", "check", "pass", "running", "done"}]
  /\ cancel \in [Client -> {"none", "asked", "PENDING", "RUNNING", "answered"}]
  /\ registry \subseteq Client
  /\ client \in [Client -> [kind : {"wait", "load"}, pc : {"new", "poll", "read", "ended"},
                            answer : Seq(Value), late : BOOLEAN, verdict : Told]]
  /\ \A c \in Client : Len(client[c].answer) <= 5

(* The update in progress has yet to assign whatever is not what it shall  *)
(* be, and it is not one back to PENDING.                                  *)
UpdateOK ==
  Locked =>
    /\ task[lock.task] # None /\ lock.to # None
    /\ lock.to.status # "PENDING"
    /\ \A f \in FieldName :
         (\A i \in DOMAIN lock.todo : lock.todo[i] # f) => task[lock.task][f] = lock.to[f]

(* The record as it is once the update in progress has been made.          *)
Settled(c) == IF lock.task = c THEN lock.to ELSE task[c]

(* A record that tells one story.                                          *)
Whole(t) ==
  /\ t.status = "PENDING" => t = New
  /\ t.status = "RUNNING" => t.started /\ ~t.result
  /\ t.status = "SUCCEEDED" => t.started /\ t.finished /\ t.result
  /\ t.status = "FAILED" => t.started /\ t.finished /\ t.error # "None" /\ ~t.result
  /\ t.status = "CANCELLED" => t.finished /\ t.error # "None"

Unasked(t) ==
  /\ t.finished <=> t.status \in Terminal
  /\ t.error = IF t.status = "FAILED" THEN "Failure" ELSE "None"
  /\ t.status # "CANCELLED"

(* What the places of the worker and of the cancel handler say of it.      *)
Story(c) ==
  /\ Whole(Settled(c))
  /\ c \notin registry => Unasked(Settled(c))
  /\ work[c] # "none"
  /\ work[c] \in {"queued", "taken", "check", "pass"} =>
       Settled(c).status \in {"PENDING", "CANCELLED"} /\ ~Settled(c).result
  /\ work[c] = "running" =>
       /\ Settled(c).status \in {"RUNNING", "CANCELLED"}
       /\ Settled(c).started /\ ~Settled(c).result
  /\ cancel[c] = "RUNNING" => Settled(c).status # "PENDING"

(* And what the status a GET may read meanwhile says.                      *)
Live(c) ==
  /\ task[c].status = "SUCCEEDED" => Settled(c).result /\ work[c] = "done"
  /\ task[c].status = "FAILED" => Settled(c).error # "None" /\ work[c] = "done"
  /\ task[c].status = "CANCELLED" => c \in registry
  /\ task[c].status \in Terminal /\ c \notin registry => Settled(c).status = task[c].status

Recorded(c) ==
  /\ cancel[c] # "none" => c \in registry
  /\ task[c] # None => Story(c) /\ Live(c)
  /\ task[c] = None => work[c] = "none" /\ cancel[c] = "none" /\ c \notin registry

RecordOK == \A c \in Client : Recorded(c)

(* What a client has read of an answer, or made of it.                     *)
Heard(c) ==
  /\ client[c].pc \in {"new", "poll"} => client[c].answer = <<>>
  /\ client[c].pc # "ended" => client[c].verdict = "none"
  /\ client[c].pc = "new" => task[c] = None
  /\ client[c].pc = "read" => task[c] # None
  /\ client[c].pc = "read" /\ client[c].answer # <<>> =>
       /\ client[c].answer[1] = "SUCCEEDED" => Settled(c).result /\ work[c] = "done"
       /\ client[c].answer[1] = "FAILED" => Settled(c).error # "None" /\ work[c] = "done"
       /\ client[c].answer[1] \in Terminal /\ c \notin registry =>
            task[c].status = client[c].answer[1]
  /\ client[c].verdict \in Terminal \cup {"EMPTY"} /\ task[c] # None /\ c \notin registry =>
       task[c].status = IF client[c].verdict = "EMPTY" THEN "SUCCEEDED" ELSE client[c].verdict

HeardOK == \A c \in Client : Heard(c)

Inv == TypeOK /\ UpdateOK /\ RecordOK /\ HeardOK
-----------------------------------------------------------------------------
(* A record and one field of it.                                           *)
LEMMA NewIsRecord == New \in Record /\ New # None /\ New.status = "PENDING"
  <1>1. New \in Record  BY DEF New, Record, Terminal
  <1>2. New # None  BY <1>1, NoneAssumption
  <1>3. New.status = "PENDING"  BY DEF New
  <1> QED  BY <1>1, <1>2, <1>3

LEMMA FieldsOfRecord ==
  ASSUME NEW t \in Record
  PROVE  /\ t.status \in Status /\ t.started \in BOOLEAN /\ t.finished \in BOOLEAN
         /\ t.result \in BOOLEAN /\ t.error \in Trouble
         /\ t # None
         /\ \A f \in FieldName : t[f] \in Value
  <1>1. t.status \in Status /\ t.started \in BOOLEAN /\ t.finished \in BOOLEAN
        /\ t.result \in BOOLEAN /\ t.error \in Trouble
    BY DEF Record, Status, Trouble
  <1>2. t # None  BY NoneAssumption
  <1>3. ASSUME NEW f \in FieldName PROVE t[f] \in Value
    BY <1>1, <1>3 DEF FieldName, Value
  <1> QED  BY <1>1, <1>2, <1>3

LEMMA AssignField ==
  ASSUME NEW t \in Record, NEW u \in Record, NEW f \in FieldName,
         NEW v, v = [t EXCEPT ![f] = u[f]]
  PROVE  /\ v \in Record
         /\ \A g \in FieldName : v[g] = IF g = f THEN u[g] ELSE t[g]
  <1>1. CASE f = "status"   BY <1>1 DEF Record, FieldName
  <1>2. CASE f = "started"  BY <1>2 DEF Record, FieldName
  <1>3. CASE f = "finished" BY <1>3 DEF Record, FieldName
  <1>4. CASE f = "result"   BY <1>4 DEF Record, FieldName
  <1>5. CASE f = "error"    BY <1>5 DEF Record, FieldName
  <1> QED  BY <1>1, <1>2, <1>3, <1>4, <1>5 DEF FieldName

LEMMA SameRecord ==
  ASSUME NEW t \in Record, NEW u \in Record, \A f \in FieldName : t[f] = u[f]
  PROVE  t = u
  <1>1. t.status = u.status /\ t.started = u.started /\ t.finished = u.finished
        /\ t.result = u.result /\ t.error = u.error
    BY DEF FieldName
  <1> QED  BY <1>1 DEF Record

-----------------------------------------------------------------------------
(* A step that is about other tasks, or about none.                        *)
LEMMA RecordFrame ==
  ASSUME NEW c \in Client, Recorded(c),
         task'[c] = task[c], work'[c] = work[c], cancel'[c] = cancel[c],
         c \in registry' <=> c \in registry, Settled(c)' = Settled(c)
  PROVE  Recorded(c)'
  <1>1. Story(c) => Story(c)'  BY Zenon DEF Story
  <1>2. Live(c) => Live(c)'  BY Zenon DEF Live
  <1> QED  BY <1>1, <1>2, Zenon DEF Recorded

LEMMA HeardFrame ==
  ASSUME NEW c \in Client, Heard(c), client'[c] = client[c],
         task'[c] = task[c], work'[c] = work[c],
         c \in registry' <=> c \in registry, Settled(c)' = Settled(c)
  PROVE  Heard(c)'
  BY Zenon DEF Heard

(* While nobody has the lock, every record is settled.                     *)
LEMMA SettledIfFree ==
  ASSUME TypeOK, ~Locked, NEW c \in Client
  PROVE  Settled(c) = task[c]
  <1>1. c # None  BY NoneAssumption
  <1> QED  BY <1>1 DEF Locked, Settled

(* What a step that takes the lock leaves to be shown.                     *)
LEMMA UpdateStarts ==
  ASSUME TypeOK, NEW k \in Client, NEW order \in Seq(FieldName), NEW to \in Record,
         Updates(k, order, to), task' = task, to.status # "PENDING",
         \A f \in FieldName : (\A i \in DOMAIN order : order[i] # f) => task[k][f] = to[f]
  PROVE  /\ lock' \in [task : Client \cup {None}, todo : Seq(FieldName), to : Record \cup {None}]
         /\ UpdateOK'
         /\ Settled(k) = task[k] /\ Settled(k)' = to
         /\ \A c \in Client : c # k => Settled(c)' = Settled(c)
  <1>1. lock' = [task |-> k, todo |-> order, to |-> to] /\ task[k] # None /\ ~Locked
    BY DEF Updates
  <1>2. lock' \in [task : Client \cup {None}, todo : Seq(FieldName), to : Record \cup {None}]
    BY <1>1
  <1>3. to # None  BY NoneAssumption
  <1>4. UpdateOK'  BY <1>1, <1>3 DEF UpdateOK, Locked
  <1>5. \A c \in Client : Settled(c) = task[c]  BY <1>1, SettledIfFree
  <1>6. \A c \in Client : Settled(c)' = IF c = k THEN to ELSE task[c]
    BY <1>1 DEF Settled
  <1> QED  BY <1>2, <1>4, <1>5, <1>6

(* The lock and the records stay.                                          *)
LEMMA UpdateStays ==
  ASSUME task' = task, lock' = lock, UpdateOK
  PROVE  /\ UpdateOK'
         /\ \A c \in Client : Settled(c)' = Settled(c)
  <1>1. UpdateOK'  BY Zenon DEF UpdateOK, Locked
  <1>2. \A c \in Client : Settled(c)' = Settled(c)  BY DEF Settled
  <1> QED  BY <1>1, <1>2

LEMMA InitInv == Init => Inv
  <1> SUFFICES ASSUME Init PROVE Inv
    OBVIOUS
  <1>0. ASSUME NEW c \in Client
        PROVE  client[c].pc = "new" /\ client[c].verdict = "none" /\ client[c].answer = <<>>
    <2>1. client[c] \in {Fresh("wait"), Fresh("load")}  BY DEF Init
    <2>2. CASE client[c] = Fresh("wait")  BY <2>2 DEF Fresh
    <2>3. CASE client[c] = Fresh("load")  BY <2>3 DEF Fresh
    <2> QED  BY <2>1, <2>2, <2>3
  <1>1. TypeOK
    <2>1. <<>> \in Seq(FieldName) /\ <<>> \in Seq(Value) /\ Len(<<>>) = 0
      OBVIOUS
    <2>2. lock \in [task : Client \cup {None}, todo : Seq(FieldName), to : Record \cup {None}]
      BY <2>1 DEF Init, Free
    <2>3. \A c \in Client : client[c] \in {Fresh("wait"), Fresh("load")}
      BY DEF Init
    <2>4. \A kind \in {"wait", "load"} :
            Fresh(kind) \in [kind : {"wait", "load"}, pc : {"new", "poll", "read", "ended"},
                            answer : Seq(Value), late : BOOLEAN, verdict : Told]
      BY <2>1 DEF Fresh, Told
    <2>5. client \in [Client -> [kind : {"wait", "load"}, pc : {"new", "poll", "read", "ended"},
                                answer : Seq(Value), late : BOOLEAN, verdict : Told]]
      BY <2>4 DEF Init
    <2>6. ASSUME NEW c \in Client PROVE Len(client[c].answer) <= 5
      <3>1. client[c].answer = <<>>  BY <1>0
      <3> QED  BY <3>1
    <2> QED  BY <2>2, <2>5, <2>6 DEF Init, TypeOK
  <1>2. UpdateOK  BY DEF Init, Free, UpdateOK, Locked
  <1>3. RecordOK  BY DEF Init, RecordOK, Recorded
  <1>4. HeardOK  BY <1>0 DEF Init, HeardOK, Heard, Terminal
  <1> QED  BY <1>1, <1>2, <1>3, <1>4 DEF Inv
-----------------------------------------------------------------------------
(* A call of TaskStore.update by a worker or a cancel handler keeps the    *)
(* invariant if what it makes of the record fits the caller's place.       *)
LEMMA UpdateStep ==
  ASSUME Inv, NEW k \in Client, NEW order \in Seq(FieldName), NEW to \in Record,
         Updates(k, order, to), UNCHANGED <<task, registry, client>>,
         \A f \in FieldName : (\A i \in DOMAIN order : order[i] # f) => task[k][f] = to[f],
         NEW at \in {"done", "queued", "taken", "check", "pass", "running"},
         NEW by \in {"none", "asked", "PENDING", "RUNNING", "answered"},
         work' = [work EXCEPT ![k] = at], cancel' = [cancel EXCEPT ![k] = by],
         by # "none" => k \in registry,
         Whole(to), to.status # "PENDING",
         k \notin registry => Unasked(to),
         at \in {"queued", "taken", "check", "pass"} => to.status = "CANCELLED" /\ ~to.result,
         at = "running" => to.status \in {"RUNNING", "CANCELLED"} /\ to.started /\ ~to.result,
         work[k] = "done" =>
           at = "done" /\ (task[k].result => to.result) /\ (task[k].error # "None" => to.error # "None"),
         k \notin registry /\ task[k].status \in Terminal => to.status = task[k].status
  PROVE  Inv'
  <1>1. TypeOK /\ RecordOK /\ HeardOK  BY DEF Inv
  <1>2. task' = task /\ registry' = registry /\ client' = client
    OBVIOUS
  <1>3. /\ lock' \in [task : Client \cup {None}, todo : Seq(FieldName), to : Record \cup {None}]
        /\ UpdateOK'
        /\ Settled(k) = task[k] /\ Settled(k)' = to
        /\ \A c \in Client : c # k => Settled(c)' = Settled(c)
    BY <1>1, <1>2, UpdateStarts
  <1>4. task[k] # None  BY DEF Updates
  <1>5. /\ work' \in [Client -> {"none", "queued", "taken", "check", "pass", "running", "done"}]
        /\ cancel' \in [Client -> {"none", "asked", "PENDING", "RUNNING", "answered"}]
        /\ work'[k] = at /\ cancel'[k] = by
        /\ \A c \in Client : c # k => work'[c] = work[c] /\ cancel'[c] = cancel[c]
    BY <1>1 DEF TypeOK
  <1>6. TypeOK'
    BY <1>1, <1>2, <1>3, <1>5 DEF TypeOK
  <1>7. Recorded(k) /\ Heard(k)  BY <1>1 DEF RecordOK, HeardOK
  <1>8. Recorded(k)'
    <2>1. Story(k)'
      BY <1>2, <1>3, <1>5 DEF Story
    <2>2. Live(k)
      BY <1>4, <1>7 DEF Recorded
    <2>3. Live(k)'
      BY <1>2, <1>3, <1>5, <2>2 DEF Live
    <2> QED  BY <1>2, <1>4, <1>5, <2>1, <2>3 DEF Recorded
  <1>9. Heard(k)'
    BY <1>2, <1>3, <1>5, <1>7 DEF Heard
  <1>10. ASSUME NEW c \in Client, c # k PROVE Recorded(c)' /\ Heard(c)'
    <2>1. Recorded(c) /\ Heard(c)  BY <1>1 DEF RecordOK, HeardOK
    <2> QED  BY <1>2, <1>3, <1>5, <1>10, <2>1, RecordFrame, HeardFrame
  <1>11. RecordOK' /\ HeardOK'
    BY <1>8, <1>9, <1>10 DEF RecordOK, HeardOK
  <1> QED  BY <1>3, <1>6, <1>11 DEF Inv

(* What the invariant says of a client whose record nobody is at.          *)
LEMMA AtRest ==
  ASSUME Inv, NEW k \in Client, ~Locked, task[k] # None
  PROVE  /\ task[k] \in Record
         /\ Whole(task[k])
         /\ k \notin registry => Unasked(task[k])
         /\ work[k] # "none"
         /\ work[k] \in {"queued", "taken", "check", "pass"} =>
              task[k].status \in {"PENDING", "CANCELLED"} /\ ~task[k].result
         /\ work[k] = "running" =>
              task[k].status \in {"RUNNING", "CANCELLED"} /\ task[k].started /\ ~task[k].result
         /\ cancel[k] = "RUNNING" => task[k].status # "PENDING"
         /\ cancel[k] # "none" => k \in registry
         /\ work[k] \in {"queued", "taken", "check", "pass", "running", "done"}
         /\ cancel[k] \in {"none", "asked", "PENDING", "RUNNING", "answered"}
  <1>1. TypeOK /\ Recorded(k)  BY DEF Inv, RecordOK
  <1>2. Settled(k) = task[k]  BY <1>1, SettledIfFree
  <1>3. Story(k) /\ (cancel[k] # "none" => k \in registry)  BY <1>1 DEF Recorded
  <1>4. task[k] \in Record  BY <1>1 DEF TypeOK
  <1>5. work[k] \in {"none", "queued", "taken", "check", "pass", "running", "done"}
        /\ cancel[k] \in {"none", "asked", "PENDING", "RUNNING", "answered"}
    BY <1>1 DEF TypeOK
  <1> QED  BY <1>2, <1>3, <1>4, <1>5 DEF Story

LEMMA DropInv == ASSUME Inv, NEW k \in Client, Drop(k) PROVE Inv'
  <1> DEFINE order == <<"status", "started", "finished", "error">>
             to == [task[k] EXCEPT !.status = "CANCELLED", !.started = FALSE, !.finished = TRUE,
                                   !.error = "Cancelled"]
  <1>1. /\ Updates(k, order, to) /\ UNCHANGED <<task, registry, client>>
        /\ work[k] = "check" /\ k \in registry
        /\ work' = [work EXCEPT ![k] = "done"] /\ cancel' = cancel
    BY DEF Drop, Works
  <1>2. ~Locked /\ task[k] # None  BY <1>1 DEF Updates
  <1>3. task[k] \in Record  BY <1>2, AtRest
  <1>4. /\ to \in Record
        /\ to.status = "CANCELLED" /\ to.finished /\ to.error = "Cancelled"
        /\ to.result = task[k].result
    BY <1>3 DEF Record, Terminal
  <1>5. order \in Seq(FieldName)
        /\ \A f \in FieldName : (\A i \in DOMAIN order : order[i] # f) => f = "result"
    <2>1. order \in Seq(FieldName) /\ DOMAIN order = 1..4
          /\ order[1] = "status" /\ order[2] = "started" /\ order[3] = "finished" /\ order[4] = "error"
      BY DEF FieldName
    <2> HIDE DEF order
    <2> QED  BY <2>1 DEF FieldName
  <1>6. Whole(to)  BY <1>4 DEF Whole
  <1>7. cancel' = [cancel EXCEPT ![k] = cancel[k]]  BY <1>1 DEF Inv, TypeOK
  <1>8. cancel[k] \in {"none", "asked", "PENDING", "RUNNING", "answered"}
    BY <1>2, AtRest
  <1> HIDE DEF order, to
  <1> QED  BY <1>1, <1>3, <1>4, <1>5, <1>6, <1>7, <1>8, UpdateStep

LEMMA StartInv == ASSUME Inv, NEW k \in Client, Start(k) PROVE Inv'
  <1> DEFINE order == <<"status", "started">>
             to == [task[k] EXCEPT !.status = "RUNNING", !.started = TRUE]
  <1>1. /\ Updates(k, order, to) /\ UNCHANGED <<task, registry, client>>
        /\ work[k] = "pass"
        /\ work' = [work EXCEPT ![k] = "running"] /\ cancel' = cancel
    BY DEF Start, Works
  <1>2. ~Locked /\ task[k] # None  BY <1>1 DEF Updates
  <1>3. /\ task[k] \in Record /\ Whole(task[k])
        /\ k \notin registry => Unasked(task[k])
        /\ task[k].status \in {"PENDING", "CANCELLED"} /\ ~task[k].result
    BY <1>1, <1>2, AtRest
  <1>4. /\ to \in Record
        /\ to.status = "RUNNING" /\ to.started
        /\ to.finished = task[k].finished /\ to.error = task[k].error
        /\ to.result = task[k].result
    BY <1>3 DEF Record, Terminal
  <1>5. order \in Seq(FieldName)
        /\ \A f \in FieldName : (\A i \in DOMAIN order : order[i] # f) => f \in {"finished", "result", "error"}
    <2>1. order \in Seq(FieldName) /\ DOMAIN order = 1..2
          /\ order[1] = "status" /\ order[2] = "started"
      BY DEF FieldName
    <2> HIDE DEF order
    <2> QED  BY <2>1 DEF FieldName
  <1>6. Whole(to) /\ (k \notin registry => Unasked(to))
    BY <1>1, <1>3, <1>4 DEF Whole, Unasked, New, Terminal
  <1>7. cancel' = [cancel EXCEPT ![k] = cancel[k]]  BY <1>1 DEF Inv, TypeOK
  <1>8. cancel[k] \in {"none", "asked", "PENDING", "RUNNING", "answered"}
    BY <1>2, AtRest
  <1>9. /\ k \notin registry /\ task[k].status \in Terminal => to.status = task[k].status
        /\ cancel'[k] # "none" => k \in registry
    BY <1>1, <1>2, <1>3, <1>4, AtRest DEF Terminal, Unasked, Inv, TypeOK
  <1> HIDE DEF order, to
  <1>10. \A f \in FieldName : (\A i \in DOMAIN order : order[i] # f) => task[k][f] = to[f]
    BY <1>4, <1>5
  <1>11. to.status # "PENDING"  BY <1>3, <1>4
  <1> QED  BY <1>1, <1>3, <1>4, <1>5, <1>6, <1>7, <1>8, <1>9, <1>10, <1>11, UpdateStep

LEMMA SucceedInv == ASSUME Inv, NEW k \in Client, Succeed(k) PROVE Inv'
  <1> DEFINE order == <<"status", "finished", "result", "error">>
             to == [task[k] EXCEPT !.status = "SUCCEEDED", !.finished = TRUE, !.result = TRUE,
                                   !.error = "None"]
  <1>1. /\ Updates(k, order, to) /\ UNCHANGED <<task, registry, client>>
        /\ work[k] = "running"
        /\ work' = [work EXCEPT ![k] = "done"] /\ cancel' = cancel
    BY DEF Succeed, Works
  <1>2. ~Locked /\ task[k] # None  BY <1>1 DEF Updates
  <1>3. /\ task[k] \in Record /\ Whole(task[k])
        /\ k \notin registry => Unasked(task[k])
        /\ task[k].status \in {"RUNNING", "CANCELLED"} /\ task[k].started /\ ~task[k].result
    BY <1>1, <1>2, AtRest
  <1>4. /\ to \in Record
        /\ to.status = "SUCCEEDED" /\ to.finished /\ to.result /\ to.error = "None"
        /\ to.started = task[k].started
    BY <1>3 DEF Record, Terminal
  <1>5. order \in Seq(FieldName)
        /\ \A f \in FieldName : (\A i \in DOMAIN order : order[i] # f) => f \in {"started"}
    <2>1. order \in Seq(FieldName) /\ DOMAIN order = 1..4
          /\ order[1] = "status" /\ order[2] = "finished" /\ order[3] = "result" /\ order[4] = "error"
      BY DEF FieldName
    <2> HIDE DEF order
    <2> QED  BY <2>1 DEF FieldName
  <1>6. Whole(to) /\ (k \notin registry => Unasked(to))
    BY <1>1, <1>3, <1>4 DEF Whole, Unasked, New, Terminal
  <1>7. cancel' = [cancel EXCEPT ![k] = cancel[k]]  BY <1>1 DEF Inv, TypeOK
  <1>8. cancel[k] \in {"none", "asked", "PENDING", "RUNNING", "answered"}
    BY <1>2, AtRest
  <1>9. /\ k \notin registry /\ task[k].status \in Terminal => to.status = task[k].status
        /\ cancel'[k] # "none" => k \in registry
    BY <1>1, <1>2, <1>3, <1>4, AtRest DEF Terminal, Unasked, Inv, TypeOK
  <1> HIDE DEF order, to
  <1>10. \A f \in FieldName : (\A i \in DOMAIN order : order[i] # f) => task[k][f] = to[f]
    BY <1>4, <1>5
  <1>11. to.status # "PENDING"  BY <1>3, <1>4
  <1> QED  BY <1>1, <1>3, <1>4, <1>5, <1>6, <1>7, <1>8, <1>9, <1>10, <1>11, UpdateStep

LEMMA FailInv == ASSUME Inv, NEW k \in Client, Fail(k) PROVE Inv'
  <1> DEFINE order == <<"status", "finished", "error">>
             to == [task[k] EXCEPT !.status = "FAILED", !.finished = TRUE, !.error = "Failure"]
  <1>1. /\ Updates(k, order, to) /\ UNCHANGED <<task, registry, client>>
        /\ work[k] = "running"
        /\ work' = [work EXCEPT ![k] = "done"] /\ cancel' = cancel
    BY DEF Fail, Works
  <1>2. ~Locked /\ task[k] # None  BY <1>1 DEF Updates
  <1>3. /\ task[k] \in Record /\ Whole(task[k])
        /\ k \notin registry => Unasked(task[k])
        /\ task[k].status \in {"RUNNING", "CANCELLED"} /\ task[k].started /\ ~task[k].result
    BY <1>1, <1>2, AtRest
  <1>4. /\ to \in Record
        /\ to.status = "FAILED" /\ to.finished /\ to.error = "Failure"
        /\ to.started = task[k].started /\ to.result = task[k].result
    BY <1>3 DEF Record, Terminal
  <1>5. order \in Seq(FieldName)
        /\ \A f \in FieldName : (\A i \in DOMAIN order : order[i] # f) => f \in {"started", "result"}
    <2>1. order \in Seq(FieldName) /\ DOMAIN order = 1..3
          /\ order[1] = "status" /\ order[2] = "finished" /\ order[3] = "error"
      BY DEF FieldName
    <2> HIDE DEF order
    <2> QED  BY <2>1 DEF FieldName
  <1>6. Whole(to) /\ (k \notin registry => Unasked(to))
    BY <1>1, <1>3, <1>4 DEF Whole, Unasked, New, Terminal
  <1>7. cancel' = [cancel EXCEPT ![k] = cancel[k]]  BY <1>1 DEF Inv, TypeOK
  <1>8. cancel[k] \in {"none", "asked", "PENDING", "RUNNING", "answered"}
    BY <1>2, AtRest
  <1>9. /\ k \notin registry /\ task[k].status \in Terminal => to.status = task[k].status
        /\ cancel'[k] # "none" => k \in registry
    BY <1>1, <1>2, <1>3, <1>4, AtRest DEF Terminal, Unasked, Inv, TypeOK
  <1> HIDE DEF order, to
  <1>10. \A f \in FieldName : (\A i \in DOMAIN order : order[i] # f) => task[k][f] = to[f]
    BY <1>4, <1>5
  <1>11. to.status # "PENDING"  BY <1>3, <1>4
  <1> QED  BY <1>1, <1>3, <1>4, <1>5, <1>6, <1>7, <1>8, <1>9, <1>10, <1>11, UpdateStep

LEMMA MarkCancelledInv == ASSUME Inv, NEW k \in Client, MarkCancelled(k) PROVE Inv'
  <1> DEFINE order == <<"status", "finished", "error">>
             to == [task[k] EXCEPT !.status = "CANCELLED", !.finished = TRUE, !.error = "Cancelled"]
  <1>1. /\ Updates(k, order, to) /\ UNCHANGED <<task, registry, client>>
        /\ cancel[k] = "PENDING"
        /\ cancel' = [cancel EXCEPT ![k] = "answered"] /\ work' = work
    BY DEF MarkCancelled, Cancels
  <1>2. ~Locked /\ task[k] # None  BY <1>1 DEF Updates
  <1>3. /\ task[k] \in Record /\ Whole(task[k])
        /\ k \notin registry => Unasked(task[k])
        /\ k \in registry
        /\ work[k] \in {"queued", "taken", "check", "pass"} =>
             task[k].status \in {"PENDING", "CANCELLED"} /\ ~task[k].result
        /\ work[k] = "running" =>
             task[k].status \in {"RUNNING", "CANCELLED"} /\ task[k].started /\ ~task[k].result
    BY <1>1, <1>2, AtRest
  <1>4. /\ to \in Record
        /\ to.status = "CANCELLED" /\ to.finished /\ to.error = "Cancelled"
        /\ to.started = task[k].started /\ to.result = task[k].result
    BY <1>3 DEF Record, Terminal
  <1>5. order \in Seq(FieldName)
        /\ \A f \in FieldName : (\A i \in DOMAIN order : order[i] # f) => f \in {"started", "result"}
    <2>1. order \in Seq(FieldName) /\ DOMAIN order = 1..3
          /\ order[1] = "status" /\ order[2] = "finished" /\ order[3] = "error"
      BY DEF FieldName
    <2> HIDE DEF order
    <2> QED  BY <2>1 DEF FieldName
  <1>6. Whole(to) /\ (k \notin registry => Unasked(to))
    BY <1>1, <1>3, <1>4 DEF Whole, Unasked, New, Terminal
  <1>7. work' = [work EXCEPT ![k] = work[k]]  BY <1>1 DEF Inv, TypeOK
  <1>8. work[k] \in {"queued", "taken", "check", "pass", "running", "done"}
    BY <1>2, AtRest
  <1>9. /\ k \notin registry /\ task[k].status \in Terminal => to.status = task[k].status
        /\ cancel'[k] # "none" => k \in registry
    BY <1>1, <1>2, <1>3, <1>4, AtRest DEF Terminal, Unasked, Inv, TypeOK
  <1> HIDE DEF order, to
  <1>10. \A f \in FieldName : (\A i \in DOMAIN order : order[i] # f) => task[k][f] = to[f]
    BY <1>4, <1>5
  <1>11. to.status # "PENDING"  BY <1>3, <1>4
  <1> QED  BY <1>1, <1>3, <1>4, <1>5, <1>6, <1>7, <1>8, <1>9, <1>10, <1>11, UpdateStep

LEMMA NoteRequestInv == ASSUME Inv, NEW k \in Client, NoteRequest(k) PROVE Inv'
  <1> DEFINE order == <<"error">>
             to == [task[k] EXCEPT !.error = "CancelRequested"]
  <1>1. /\ Updates(k, order, to) /\ UNCHANGED <<task, registry, client>>
        /\ cancel[k] = "RUNNING"
        /\ cancel' = [cancel EXCEPT ![k] = "answered"] /\ work' = work
    BY DEF NoteRequest, Cancels
  <1>2. ~Locked /\ task[k] # None  BY <1>1 DEF Updates
  <1>3. /\ task[k] \in Record /\ Whole(task[k])
        /\ k \notin registry => Unasked(task[k])
        /\ k \in registry
        /\ work[k] \in {"queued", "taken", "check", "pass"} =>
             task[k].status \in {"PENDING", "CANCELLED"} /\ ~task[k].result
        /\ work[k] = "running" =>
             task[k].status \in {"RUNNING", "CANCELLED"} /\ task[k].started /\ ~task[k].result
        /\ task[k].status # "PENDING"
    BY <1>1, <1>2, AtRest
  <1>4. /\ to \in Record
        /\ to.error = "CancelRequested" /\ to.status = task[k].status
        /\ to.started = task[k].started /\ to.finished = task[k].finished
        /\ to.result = task[k].result
    BY <1>3 DEF Record, Terminal
  <1>5. order \in Seq(FieldName)
        /\ \A f \in FieldName : (\A i \in DOMAIN order : order[i] # f) => f \in {"status", "started", "finished", "result"}
    <2>1. order \in Seq(FieldName) /\ DOMAIN order = 1..1
          /\ order[1] = "error"
      BY DEF FieldName
    <2> HIDE DEF order
    <2> QED  BY <2>1 DEF FieldName
  <1>6. Whole(to) /\ (k \notin registry => Unasked(to))
    BY <1>1, <1>3, <1>4 DEF Whole, Unasked, New, Terminal
  <1>7. work' = [work EXCEPT ![k] = work[k]]  BY <1>1 DEF Inv, TypeOK
  <1>8. work[k] \in {"queued", "taken", "check", "pass", "running", "done"}
    BY <1>2, AtRest
  <1>9. /\ k \notin registry /\ task[k].status \in Terminal => to.status = task[k].status
        /\ cancel'[k] # "none" => k \in registry
    BY <1>1, <1>2, <1>3, <1>4, AtRest DEF Terminal, Unasked, Inv, TypeOK
  <1> HIDE DEF order, to
  <1>10. \A f \in FieldName : (\A i \in DOMAIN order : order[i] # f) => task[k][f] = to[f]
    BY <1>4, <1>5
  <1>11. to.status # "PENDING"  BY <1>3, <1>4
  <1> QED  BY <1>1, <1>3, <1>4, <1>5, <1>6, <1>7, <1>8, <1>9, <1>10, <1>11, UpdateStep

-----------------------------------------------------------------------------
(* A look at the status or at the registry, or a word to the registry.     *)
LEMMA LookStep ==
  ASSUME Inv, NEW k \in Client, task[k] # None, UNCHANGED <<task, lock, client>>,
         NEW at \in {"queued", "taken", "check", "pass", "running", "done"},
         NEW by \in {"none", "asked", "PENDING", "RUNNING", "answered"},
         work' = [work EXCEPT ![k] = at], cancel' = [cancel EXCEPT ![k] = by],
         at \in {"queued", "taken", "check", "pass"} => work[k] \in {"queued", "taken", "check", "pass"},
         at = "running" => work[k] = "running",
         work[k] = "done" => at = "done",
         by = "RUNNING" => Settled(k).status # "PENDING",
         by # "none" => k \in registry',
         registry \subseteq registry', registry' \subseteq registry \cup {k}
  PROVE  Inv'
  <1>1. TypeOK /\ UpdateOK /\ RecordOK /\ HeardOK  BY DEF Inv
  <1>2. task' = task /\ lock' = lock /\ client' = client
    OBVIOUS
  <1>3. UpdateOK' /\ \A c \in Client : Settled(c)' = Settled(c)
    BY <1>1, <1>2, UpdateStays
  <1>4. /\ work' \in [Client -> {"none", "queued", "taken", "check", "pass", "running", "done"}]
        /\ cancel' \in [Client -> {"none", "asked", "PENDING", "RUNNING", "answered"}]
        /\ work'[k] = at /\ cancel'[k] = by
        /\ \A c \in Client : c # k => work'[c] = work[c] /\ cancel'[c] = cancel[c]
    BY <1>1 DEF TypeOK
  <1>5. TypeOK'
    BY <1>1, <1>2, <1>4 DEF TypeOK
  <1>6. Recorded(k) /\ Heard(k)  BY <1>1 DEF RecordOK, HeardOK
  <1>7. Recorded(k)'
    <2>1. Story(k)'
      BY <1>2, <1>3, <1>4, <1>6 DEF Recorded, Story
    <2>2. Live(k)'
      BY <1>2, <1>3, <1>4, <1>6 DEF Recorded, Live
    <2> QED  BY <1>2, <1>4, <2>1, <2>2 DEF Recorded
  <1>8. Heard(k)'
    BY <1>2, <1>3, <1>4, <1>6 DEF Heard
  <1>9. ASSUME NEW c \in Client, c # k PROVE Recorded(c)' /\ Heard(c)'
    <2>1. Recorded(c) /\ Heard(c)  BY <1>1 DEF RecordOK, HeardOK
    <2>2. c \in registry' <=> c \in registry  BY <1>9
    <2> QED  BY <1>2, <1>3, <1>4, <1>9, <2>1, <2>2, RecordFrame, HeardFrame
  <1>10. RecordOK' /\ HeardOK'
    BY <1>7, <1>8, <1>9 DEF RecordOK, HeardOK
  <1> QED  BY <1>3, <1>5, <1>10 DEF Inv

(* Who has a place in the code has a task.                                 *)
LEMMA PlaceNeedsTask ==
  ASSUME Inv, NEW k \in Client, work[k] # "none" \/ cancel[k] # "none"
  PROVE  task[k] # None
  BY DEF Inv, RecordOK, Recorded

LEMMA TakeInv == ASSUME Inv, NEW k \in Client, Take(k) PROVE Inv'
  <1>1. /\ work[k] = "queued" /\ work' = [work EXCEPT ![k] = "taken"]
        /\ UNCHANGED <<task, lock, client, cancel, registry>>
    BY DEF Take, Works
  <1>3. /\ cancel' = [cancel EXCEPT ![k] = cancel[k]]
        /\ cancel[k] \in {"none", "asked", "PENDING", "RUNNING", "answered"}
        /\ Recorded(k)
    BY <1>1 DEF Inv, TypeOK, RecordOK
  <1>4. task[k] # None  BY <1>1, PlaceNeedsTask
  <1>5. (cancel[k] = "RUNNING" => Settled(k).status # "PENDING") /\ (cancel[k] # "none" => k \in registry)
    BY <1>3, <1>4 DEF Recorded, Story
  <1> QED  BY <1>1, <1>3, <1>4, <1>5, LookStep

LEMMA LookFirstInv == ASSUME Inv, NEW k \in Client, LookFirst(k) PROVE Inv'
  <1> DEFINE at == IF task[k].status = "CANCELLED" THEN "done" ELSE "check"
  <1>1. /\ work[k] = "taken" /\ work' = [work EXCEPT ![k] = at]
        /\ UNCHANGED <<task, lock, client, cancel, registry>>
    BY DEF LookFirst, Works
  <1>2. at \in {"done", "check"}  OBVIOUS
  <1>3. /\ cancel' = [cancel EXCEPT ![k] = cancel[k]]
        /\ cancel[k] \in {"none", "asked", "PENDING", "RUNNING", "answered"}
        /\ Recorded(k)
    BY <1>1 DEF Inv, TypeOK, RecordOK
  <1>4. task[k] # None  BY <1>1, PlaceNeedsTask
  <1>5. (cancel[k] = "RUNNING" => Settled(k).status # "PENDING") /\ (cancel[k] # "none" => k \in registry)
    BY <1>3, <1>4 DEF Recorded, Story
  <1> HIDE DEF at
  <1> QED  BY <1>1, <1>2, <1>3, <1>4, <1>5, LookStep

LEMMA PassRegistryInv == ASSUME Inv, NEW k \in Client, PassRegistry(k) PROVE Inv'
  <1>1. /\ work[k] = "check" /\ work' = [work EXCEPT ![k] = "pass"]
        /\ UNCHANGED <<task, lock, client, cancel, registry>>
    BY DEF PassRegistry, Works
  <1>3. /\ cancel' = [cancel EXCEPT ![k] = cancel[k]]
        /\ cancel[k] \in {"none", "asked", "PENDING", "RUNNING", "answered"}
        /\ Recorded(k)
    BY <1>1 DEF Inv, TypeOK, RecordOK
  <1>4. task[k] # None  BY <1>1, PlaceNeedsTask
  <1>5. (cancel[k] = "RUNNING" => Settled(k).status # "PENDING") /\ (cancel[k] # "none" => k \in registry)
    BY <1>3, <1>4 DEF Recorded, Story
  <1> QED  BY <1>1, <1>3, <1>4, <1>5, LookStep

LEMMA AskToCancelInv == ASSUME Inv, NEW k \in Client, AskToCancel(k) PROVE Inv'
  <1>1. /\ cancel' = [cancel EXCEPT ![k] = "asked"] /\ task[k] # None
        /\ registry' = registry \cup {k}
        /\ UNCHANGED <<task, lock, client, work>>
    BY DEF AskToCancel, Cancels
  <1>2. /\ work' = [work EXCEPT ![k] = work[k]]
        /\ work[k] \in {"none", "queued", "taken", "check", "pass", "running", "done"}
        /\ Recorded(k)
    BY <1>1 DEF Inv, TypeOK, RecordOK
  <1>3. work[k] # "none"  BY <1>1, <1>2 DEF Recorded, Story
  <1> QED  BY <1>1, <1>2, <1>3, LookStep

LEMMA LookAtStatusInv == ASSUME Inv, NEW k \in Client, LookAtStatus(k) PROVE Inv'
  <1> DEFINE by == IF task[k].status \in {"PENDING", "RUNNING"} THEN task[k].status ELSE "answered"
  <1>1. /\ cancel[k] = "asked" /\ cancel' = [cancel EXCEPT ![k] = by]
        /\ UNCHANGED <<task, lock, client, work, registry>>
    BY DEF LookAtStatus, Cancels
  <1>2. /\ work' = [work EXCEPT ![k] = work[k]]
        /\ work[k] \in {"none", "queued", "taken", "check", "pass", "running", "done"}
        /\ Recorded(k) /\ UpdateOK
    BY <1>1 DEF Inv, TypeOK, RecordOK
  <1>3. task[k] # None  BY <1>1, PlaceNeedsTask
  <1>4. work[k] # "none" /\ k \in registry  BY <1>1, <1>2, <1>3 DEF Recorded, Story
  <1>5. by \in {"PENDING", "RUNNING", "answered"} /\ (by = "RUNNING" => task[k].status = "RUNNING")
    OBVIOUS
  <1>6. by = "RUNNING" => Settled(k).status # "PENDING"
    <2>1. k # None  BY NoneAssumption
    <2>2. CASE lock.task = k  BY <1>2, <2>1, <2>2 DEF UpdateOK, Locked, Settled
    <2>3. CASE lock.task # k  BY <1>5, <2>3 DEF Settled
    <2> QED  BY <2>2, <2>3
  <1> HIDE DEF by
  <1> QED  BY <1>1, <1>2, <1>3, <1>4, <1>5, <1>6, LookStep

-----------------------------------------------------------------------------
(* The update itself, field by field, and its end.                         *)
LEMMA HolderTypes ==
  ASSUME Inv, Locked
  PROVE  /\ lock.task \in Client /\ lock.todo \in Seq(FieldName) /\ lock.to \in Record
         /\ task[lock.task] \in Record /\ task[lock.task] # None
         /\ \A f \in FieldName :
              (\A i \in DOMAIN lock.todo : lock.todo[i] # f) => task[lock.task][f] = lock.to[f]
         /\ Settled(lock.task) = lock.to
  <1>1. TypeOK /\ UpdateOK  BY DEF Inv
  <1>2. lock.task \in Client /\ lock.todo \in Seq(FieldName) /\ lock.to \in Record \cup {None}
    BY <1>1 DEF TypeOK, Locked
  <1>3. task[lock.task] # None /\ lock.to # None
    BY <1>1 DEF UpdateOK
  <1>4. task[lock.task] \in Record  BY <1>1, <1>2, <1>3 DEF TypeOK
  <1>5. Settled(lock.task) = lock.to  BY DEF Settled
  <1> QED  BY <1>1, <1>2, <1>3, <1>4, <1>5 DEF UpdateOK

LEMMA AssignInv == ASSUME Inv, Assign PROVE Inv'
  <1>a. PICK k \in Client : k = lock.task  BY HolderTypes DEF Assign
  <1>b. PICK f \in FieldName : f = Head(lock.todo)  BY HolderTypes DEF Assign
  <1>c. PICK t : t = [task[k] EXCEPT ![f] = lock.to[f]]  OBVIOUS
  <1>1. /\ Locked /\ lock.todo # <<>>
        /\ task' = [task EXCEPT ![k] = t] /\ lock' = [lock EXCEPT !.todo = Tail(lock.todo)]
        /\ UNCHANGED <<work, cancel, registry, client>>
    BY <1>a, <1>b, <1>c DEF Assign
  <1>2. TypeOK /\ UpdateOK /\ RecordOK /\ HeardOK  BY DEF Inv
  <1>3. /\ k \in Client /\ lock.todo \in Seq(FieldName) /\ lock.to \in Record
        /\ task[k] \in Record /\ task[k] # None
        /\ \A g \in FieldName :
             (\A i \in DOMAIN lock.todo : lock.todo[i] # g) => task[k][g] = lock.to[g]
        /\ Settled(k) = lock.to
    BY <1>a, <1>1, HolderTypes
  <1>4. Tail(lock.todo) \in Seq(FieldName)
    BY <1>1, <1>3
  <1>5. t \in Record /\ \A g \in FieldName : t[g] = IF g = f THEN lock.to[g] ELSE task[k][g]
    BY <1>c, <1>3, AssignField
  <1>6. t # None  BY <1>5, NoneAssumption
  <1>7. /\ task' \in [Client -> Record \cup {None}] /\ task'[k] = t
        /\ \A c \in Client : c # k => task'[c] = task[c]
    BY <1>1, <1>2, <1>5 DEF TypeOK
  <1>8. /\ lock' \in [task : Client \cup {None}, todo : Seq(FieldName), to : Record \cup {None}]
        /\ lock'.task = k /\ lock'.todo = Tail(lock.todo) /\ lock'.to = lock.to
    BY <1>a, <1>1, <1>2, <1>4 DEF TypeOK
  <1>9. TypeOK'  BY <1>1, <1>2, <1>7, <1>8 DEF TypeOK
  <1>10. UpdateOK'
    <2>1. ASSUME NEW g \in FieldName, \A i \in DOMAIN Tail(lock.todo) : Tail(lock.todo)[i] # g
          PROVE  t[g] = lock.to[g]
      <3>1. CASE g = f  BY <1>5, <3>1
      <3>2. CASE g # f
        <4>1. ASSUME NEW i \in DOMAIN lock.todo PROVE lock.todo[i] # g
          <5>1. CASE i = 1  BY <1>b, <1>1, <1>3, <3>2, <5>1
          <5>2. CASE i # 1
            <6>1. i - 1 \in DOMAIN Tail(lock.todo) /\ Tail(lock.todo)[i - 1] = lock.todo[i]
              BY <1>1, <1>3, <5>2
            <6> QED  BY <2>1, <6>1
          <5> QED  BY <5>1, <5>2
        <4>2. task[k][g] = lock.to[g]  BY <1>3, <4>1
        <4> QED  BY <1>5, <3>2, <4>2
      <3> QED  BY <3>1, <3>2
    <2>2. lock.to.status # "PENDING" /\ lock.to # None
      BY <1>1, <1>2 DEF UpdateOK
    <2> QED  BY <1>6, <1>7, <1>8, <2>1, <2>2 DEF UpdateOK
  <1>11. ASSUME NEW c \in Client PROVE Settled(c)' = Settled(c)
    BY <1>a, <1>7, <1>8 DEF Settled
  <1>12. Recorded(k) /\ Heard(k) /\ Story(k) /\ Live(k)
    BY <1>2, <1>3 DEF RecordOK, HeardOK, Recorded
  <1>13. t.status \in {task[k].status, Settled(k).status}
    BY <1>3, <1>5 DEF FieldName
  <1>14. Live(k)'
    <2>1. CASE t.status = task[k].status
      BY <1>1, <1>3, <1>7, <1>11, <1>12, <2>1 DEF Live
    <2>2. CASE t.status = Settled(k).status
      <3>1. /\ t.status = "SUCCEEDED" => Settled(k).result /\ work[k] = "done"
            /\ t.status = "FAILED" => Settled(k).error # "None" /\ work[k] = "done"
            /\ t.status = "CANCELLED" => k \in registry
        <4>1. work[k] \in {"none", "queued", "taken", "check", "pass", "running", "done"}
          BY <1>2, <1>3 DEF TypeOK
        <4> QED  BY <1>12, <2>2, <4>1 DEF Story, Whole, Unasked
      <3> QED  BY <1>1, <1>3, <1>7, <1>11, <2>2, <3>1 DEF Live
    <2> QED  BY <1>13, <2>1, <2>2
  <1>15. Recorded(k)'
    <2>1. Story(k)'  BY <1>1, <1>3, <1>11, <1>12 DEF Story
    <2> QED  BY <1>1, <1>3, <1>6, <1>7, <1>12, <1>14, <2>1 DEF Recorded
  <1>16. task[k].status \in Terminal /\ k \notin registry => t.status = task[k].status
    BY <1>12, <1>13 DEF Live
  <1>17. Heard(k)'
    BY <1>1, <1>3, <1>6, <1>7, <1>11, <1>12, <1>16 DEF Heard, Terminal
  <1>18. ASSUME NEW c \in Client, c # k PROVE Recorded(c)' /\ Heard(c)'
    <2>1. Recorded(c) /\ Heard(c)  BY <1>2 DEF RecordOK, HeardOK
    <2> QED  BY <1>1, <1>7, <1>11, <1>18, <2>1, RecordFrame, HeardFrame
  <1>19. RecordOK' /\ HeardOK'
    BY <1>15, <1>17, <1>18 DEF RecordOK, HeardOK
  <1> QED  BY <1>9, <1>10, <1>19 DEF Inv

LEMMA ReleaseInv == ASSUME Inv, Release PROVE Inv'
  <1>1. /\ Locked /\ lock.todo = <<>> /\ lock' = Free
        /\ UNCHANGED <<task, work, cancel, registry, client>>
    BY DEF Release
  <1>2. TypeOK /\ RecordOK /\ HeardOK  BY DEF Inv
  <1>3. task[lock.task] = lock.to
    <2>1. \A f \in FieldName : task[lock.task][f] = lock.to[f]
      BY <1>1, HolderTypes
    <2> QED  BY <1>1, <2>1, HolderTypes, SameRecord
  <1>4. ASSUME NEW c \in Client PROVE Settled(c)' = Settled(c)
    <2>1. c # None  BY NoneAssumption
    <2> QED  BY <1>1, <1>3, <2>1 DEF Settled, Free
  <1>5. UpdateOK'  BY <1>1 DEF UpdateOK, Locked, Free
  <1>6. TypeOK'
    <2>1. Free \in [task : Client \cup {None}, todo : Seq(FieldName), to : Record \cup {None}]
      <3>1. <<>> \in Seq(FieldName)  OBVIOUS
      <3> QED  BY <3>1 DEF Free
    <2> QED  BY <1>1, <1>2, <2>1 DEF TypeOK
  <1>7. ASSUME NEW c \in Client PROVE Recorded(c)' /\ Heard(c)'
    <2>1. Recorded(c) /\ Heard(c)  BY <1>2 DEF RecordOK, HeardOK
    <2> QED  BY <1>1, <1>4, <2>1, RecordFrame, HeardFrame
  <1> QED  BY <1>5, <1>6, <1>7 DEF Inv, RecordOK, HeardOK

(* A restart forgets the tasks; who was told an answer keeps it.           *)
LEMMA RestartInv == ASSUME Inv, Restart PROVE Inv'
  <1>1. /\ task' = [c \in Client |-> None] /\ lock' = Free /\ registry' = {}
        /\ work' = [c \in Client |-> "none"] /\ cancel' = [c \in Client |-> "none"]
    BY DEF Restart
  <1>a. PICK raised \in SUBSET Client :
          client' = [c \in Client |->
             IF client[c].pc # "read" THEN client[c]
             ELSE IF c \in raised THEN [client[c] EXCEPT !.pc = "ended", !.verdict = "raised"]
             ELSE [client[c] EXCEPT !.pc = "poll", !.answer = <<>>]]
    BY DEF Restart
  <1>2. TypeOK /\ HeardOK  BY DEF Inv
  <1>3. ASSUME NEW c \in Client
        PROVE  /\ client'[c] \in [kind : {"wait", "load"}, pc : {"new", "poll", "read", "ended"},
                                    answer : Seq(Value), late : BOOLEAN, verdict : Told]
               /\ Len(client'[c].answer) <= 5
               /\ client'[c].pc \in {"new", "poll"} => client'[c].answer = <<>>
               /\ client'[c].pc # "ended" => client'[c].verdict = "none"
               /\ client'[c].pc # "read"
    <2>1. client[c] \in [kind : {"wait", "load"}, pc : {"new", "poll", "read", "ended"},
                          answer : Seq(Value), late : BOOLEAN, verdict : Told]
          /\ Len(client[c].answer) <= 5 /\ Heard(c)
      BY <1>2 DEF TypeOK, HeardOK
    <2>2. CASE client[c].pc # "read"
      BY <1>a, <2>1, <2>2 DEF Heard
    <2>3. CASE client[c].pc = "read" /\ c \in raised
      BY <1>a, <2>1, <2>3 DEF Told
    <2>4. CASE client[c].pc = "read" /\ c \notin raised
      <3>1. client'[c] = [client[c] EXCEPT !.pc = "poll", !.answer = <<>>]  BY <1>a, <2>4
      <3>2. <<>> \in Seq(Value) /\ Len(<<>>) = 0  OBVIOUS
      <3>3. client'[c].answer = <<>> /\ client'[c].pc = "poll" /\ client'[c].verdict = client[c].verdict
        BY <2>1, <3>1
      <3>4. Len(client'[c].answer) <= 5  BY <3>2, <3>3
      <3> QED  BY <2>1, <2>4, <3>1, <3>2, <3>3, <3>4 DEF Heard
    <2> QED  BY <2>2, <2>3, <2>4
  <1>4. TypeOK'
    <2>1. <<>> \in Seq(FieldName)  OBVIOUS
    <2>2. Free \in [task : Client \cup {None}, todo : Seq(FieldName), to : Record \cup {None}]
      BY <2>1 DEF Free
    <2>3. client' \in [Client -> [kind : {"wait", "load"}, pc : {"new", "poll", "read", "ended"},
                                 answer : Seq(Value), late : BOOLEAN, verdict : Told]]
      <3>1. DOMAIN client' = Client /\ client' = [c \in Client |-> client'[c]]  BY <1>a
      <3> QED  BY <1>3, <3>1
    <2> QED  BY <1>1, <1>3, <2>2, <2>3 DEF TypeOK
  <1>5. UpdateOK'  BY <1>1 DEF UpdateOK, Locked, Free
  <1>6. RecordOK'  BY <1>1 DEF RecordOK, Recorded
  <1>7. HeardOK'   BY <1>1, <1>3 DEF HeardOK, Heard
  <1> QED  BY <1>4, <1>5, <1>6, <1>7 DEF Inv

-----------------------------------------------------------------------------
(* What clients do is about what they have heard only.                     *)
ClientType == [kind : {"wait", "load"}, pc : {"new", "poll", "read", "ended"},
               answer : Seq(Value), late : BOOLEAN, verdict : Told]

LEMMA HearStep ==
  ASSUME Inv, NEW k \in Client, UNCHANGED server,
         NEW x \in ClientType, client' = [client EXCEPT ![k] = x], Len(x.answer) <= 5,
         x.pc \in {"new", "poll"} => x.answer = <<>>,
         x.pc # "ended" => x.verdict = "none",
         x.pc = "new" => task[k] = None,
         x.pc = "read" => task[k] # None,
         x.pc = "read" /\ x.answer # <<>> =>
           /\ x.answer[1] = "SUCCEEDED" => Settled(k).result /\ work[k] = "done"
           /\ x.answer[1] = "FAILED" => Settled(k).error # "None" /\ work[k] = "done"
           /\ x.answer[1] \in Terminal /\ k \notin registry => task[k].status = x.answer[1],
         x.verdict \in Terminal \cup {"EMPTY"} /\ task[k] # None /\ k \notin registry =>
           task[k].status = IF x.verdict = "EMPTY" THEN "SUCCEEDED" ELSE x.verdict
  PROVE  Inv'
  <1>1. TypeOK /\ UpdateOK /\ RecordOK /\ HeardOK  BY DEF Inv
  <1>2. task' = task /\ lock' = lock /\ work' = work /\ cancel' = cancel /\ registry' = registry
    BY DEF server
  <1>3. UpdateOK' /\ \A c \in Client : Settled(c)' = Settled(c)
    BY <1>1, <1>2, UpdateStays
  <1>4. /\ client \in [Client -> ClientType]
        /\ \A c \in Client : Len(client[c].answer) <= 5
    BY <1>1 DEF TypeOK, ClientType
  <1>5. /\ client' \in [Client -> ClientType] /\ client'[k] = x
        /\ \A c \in Client : c # k => client'[c] = client[c]
    BY <1>4
  <1>6. TypeOK'
    <2>1. \A c \in Client : Len(client'[c].answer) <= 5  BY <1>4, <1>5
    <2> QED  BY <1>1, <1>2, <1>5, <2>1 DEF TypeOK, ClientType
  <1>7. RecordOK'
    <2>1. ASSUME NEW c \in Client PROVE Recorded(c)'
      BY <1>1, <1>2, <1>3, RecordFrame DEF RecordOK
    <2> QED  BY <2>1 DEF RecordOK
  <1>8. Heard(k)'
    BY <1>2, <1>3, <1>5 DEF Heard
  <1>9. ASSUME NEW c \in Client, c # k PROVE Heard(c)'
    <2>1. Heard(c)  BY <1>1 DEF HeardOK
    <2> QED  BY <1>2, <1>3, <1>5, <1>9, <2>1, HeardFrame
  <1> QED  BY <1>3, <1>6, <1>7, <1>8, <1>9 DEF Inv, HeardOK

(* What the invariant says of a client.                                    *)
LEMMA Hearing ==
  ASSUME Inv, NEW k \in Client
  PROVE  /\ client[k] \in ClientType /\ Len(client[k].answer) <= 5 /\ Heard(k)
         /\ client \in [Client -> ClientType]
  BY DEF Inv, TypeOK, HeardOK, ClientType

LEMMA EndsInv ==
  ASSUME Inv, NEW k \in Client, NEW from, NEW v \in {"refused", "timeout", "raised"},
         Ends(k, from, v), UNCHANGED server
  PROVE  Inv'
  <1>1. PICK x : x = [client[k] EXCEPT !.pc = "ended", !.verdict = v]  OBVIOUS
  <1>2. client' = [client EXCEPT ![k] = x]  BY <1>1, Hearing DEF Ends
  <1>3. /\ x \in ClientType /\ x.pc = "ended" /\ x.verdict = v
        /\ x.answer = client[k].answer
    BY <1>1, Hearing DEF ClientType, Told
  <1>4. Len(x.answer) <= 5 /\ x.verdict \notin Terminal \cup {"EMPTY"}
    BY <1>3, Hearing DEF Terminal
  <1> QED  BY <1>2, <1>3, <1>4, HearStep

LEMMA DeadlineInv == ASSUME Inv, NEW k \in Client, Deadline(k) PROVE Inv'
  <1>1. PICK x : x = [client[k] EXCEPT !.late = TRUE]  OBVIOUS
  <1>2. client' = [client EXCEPT ![k] = x] /\ UNCHANGED server
    BY <1>1, Hearing DEF Deadline
  <1>3. /\ x \in ClientType /\ x.pc = client[k].pc /\ x.verdict = client[k].verdict
        /\ x.answer = client[k].answer
    BY <1>1, Hearing DEF ClientType
  <1> QED  BY <1>2, <1>3, Hearing, HearStep DEF Heard

LEMMA GetInv == ASSUME Inv, NEW k \in Client, Get(k) PROVE Inv'
  <1>1. PICK x : x = [client[k] EXCEPT !.pc = "read"]  OBVIOUS
  <1>2. /\ client' = [client EXCEPT ![k] = x] /\ UNCHANGED server
        /\ client[k].pc = "poll" /\ task[k] # None
    BY <1>1, Hearing DEF Get, Goes
  <1>3. /\ x \in ClientType /\ x.pc = "read" /\ x.verdict = client[k].verdict
        /\ x.answer = client[k].answer
    BY <1>1, Hearing DEF ClientType
  <1>4. x.answer = <<>> /\ x.verdict = "none"  BY <1>2, <1>3, Hearing DEF Heard
  <1>5. Len(x.answer) <= 5  BY <1>3, Hearing
  <1> QED  BY <1>2, <1>3, <1>4, <1>5, HearStep DEF Terminal

LEMMA AnsweredFields ==
  /\ Len(Answered) = 5 /\ Answered[1] = "status" /\ Answered[2] = "started"
  /\ Answered[3] = "finished" /\ Answered[4] = "result" /\ Answered[5] = "error"
  BY DEF Answered

LEMMA NextFieldIsOne ==
  ASSUME Inv, NEW k \in Client, Len(client[k].answer) < Len(Answered)
  PROVE  /\ NextField(k) \in FieldName
         /\ client[k].answer = <<>> => NextField(k) = "status"
  <1>1. client[k].answer \in Seq(Value)  BY Hearing DEF ClientType
  <1>2. Len(client[k].answer) + 1 \in 1..5  BY <1>1, AnsweredFields
  <1>3. NextField(k) = Answered[Len(client[k].answer) + 1]  BY DEF NextField
  <1>4. client[k].answer = <<>> => Len(client[k].answer) = 0  BY <1>1
  <1> QED  BY <1>2, <1>3, <1>4, AnsweredFields DEF FieldName

LEMMA ReadInv == ASSUME Inv, NEW k \in Client, Read(k) PROVE Inv'
  <1>1. PICK field : field = NextField(k)  OBVIOUS
  <1>a. PICK value : value = task[k][field]  OBVIOUS
  <1>b. PICK answer : answer = Append(client[k].answer, value)  OBVIOUS
  <1>2. PICK x : x = [client[k] EXCEPT !.answer = answer]  OBVIOUS
  <1>3. /\ client' = [client EXCEPT ![k] = x] /\ UNCHANGED server
        /\ client[k].pc = "read" /\ Len(client[k].answer) < Len(Answered)
    BY <1>1, <1>2, <1>a, <1>b, Hearing DEF Read
  <1>4. /\ field \in FieldName
        /\ client[k].answer = <<>> => field = "status"
    BY <1>1, <1>3, NextFieldIsOne
  <1>5. Heard(k) /\ task[k] # None  BY <1>3, Hearing DEF Heard
  <1>6. task[k] \in Record /\ Live(k)
    BY <1>5 DEF Inv, TypeOK, RecordOK, Recorded
  <1>7. value \in Value
    <2>1. \A f \in FieldName : task[k][f] \in Value  BY <1>6, FieldsOfRecord
    <2> QED  BY <1>4, <1>a, <2>1
  <1>8. client[k].answer \in Seq(Value)  BY Hearing DEF ClientType
  <1>c. /\ answer \in Seq(Value) /\ Len(answer) = Len(client[k].answer) + 1
        /\ client[k].answer = <<>> => answer[1] = value
        /\ client[k].answer # <<>> => answer[1] = client[k].answer[1]
    BY <1>b, <1>7, <1>8
  <1>9. /\ x.answer = answer
        /\ x \in ClientType /\ x.pc = "read" /\ x.verdict = client[k].verdict
    BY <1>2, <1>3, <1>c, Hearing DEF ClientType
  <1>10. /\ Len(x.answer) <= 5
         /\ x.answer[1] = IF client[k].answer = <<>> THEN task[k].status ELSE client[k].answer[1]
    BY <1>3, <1>4, <1>a, <1>c, <1>8, <1>9, AnsweredFields
  <1>11. x.verdict = "none"  BY <1>3, <1>5, <1>9 DEF Heard
  <1> QED  BY <1>3, <1>5, <1>6, <1>9, <1>10, <1>11, HearStep DEF Heard, Live, Terminal

LEMMA AnswerStatus ==
  ASSUME NEW k \in Client
  PROVE  Answer(k).status = client[k].answer[1]
  <1>1. \A i \in 1..Len(Answered) : Answered[i] = "status" <=> i = 1
    BY AnsweredFields
  <1>2. (CHOOSE i \in 1..Len(Answered) : Answered[i] = "status") = 1
    BY <1>1, AnsweredFields
  <1> QED  BY <1>2 DEF Answer

LEMMA JudgeInv == ASSUME Inv, NEW k \in Client, Judge(k) PROVE Inv'
  <1>1. client[k].pc = "read" /\ Len(client[k].answer) = 5 /\ UNCHANGED server
    BY AnsweredFields DEF Judge
  <1>2. Heard(k) /\ client[k].answer # <<>>
    <2>1. Len(<<>>) # 5  OBVIOUS
    <2>2. Len(client[k].answer) = 5  BY <1>1
    <2>3. client[k].answer # <<>>  BY <2>1, <2>2, Zenon
    <2> QED  BY <2>3, Hearing
  <1>3. CASE Answer(k).status \in EndsPolling(k)
    <2>1. PICK v : v = Verdict(k)  OBVIOUS
    <2>2. PICK x : x = [client[k] EXCEPT !.pc = "ended", !.verdict = v]  OBVIOUS
    <2>3. client' = [client EXCEPT ![k] = x]  BY <1>3, <2>1, <2>2, Hearing DEF Judge
    <2>4. client[k].answer[1] \in Terminal
      BY <1>3, AnswerStatus DEF EndsPolling, Terminal
    <2>5. v = client[k].answer[1] \/ (v = "EMPTY" /\ client[k].answer[1] = "SUCCEEDED")
      <3>1. \/ Verdict(k) = Answer(k).status
            \/ (Verdict(k) = "EMPTY" /\ Answer(k).status = "SUCCEEDED")
        BY Zenon DEF Verdict
      <3> QED  BY <2>1, <3>1, AnswerStatus, Zenon
    <2>6. v \in Terminal \cup {"EMPTY"}  BY <2>4, <2>5
    <2>7. /\ x \in ClientType /\ x.pc = "ended" /\ x.verdict = v
          /\ x.answer = client[k].answer
      BY <2>2, <2>6, Hearing DEF ClientType, Told
    <2>8. k \notin registry => task[k].status = client[k].answer[1]
      BY <1>1, <1>2, <2>4 DEF Heard
    <2>9. k \notin registry => task[k].status = IF v = "EMPTY" THEN "SUCCEEDED" ELSE v
      BY <2>4, <2>5, <2>8 DEF Terminal
    <2>10. Len(x.answer) <= 5
      <3>1. Len(x.answer) = Len(client[k].answer)  BY <2>7, Zenon
      <3> QED  BY <1>1, <3>1
    <2>11. k \notin registry =>
             task[k].status = IF x.verdict = "EMPTY" THEN "SUCCEEDED" ELSE x.verdict
      BY <2>7, <2>9
    <2> QED  BY <1>1, <2>3, <2>7, <2>10, <2>11, HearStep
  <1>4. CASE Answer(k).status \notin EndsPolling(k)
    <2>1. PICK x : x = [client[k] EXCEPT !.pc = "poll", !.answer = <<>>]  OBVIOUS
    <2>2. client' = [client EXCEPT ![k] = x]  BY <1>4, <2>1, Hearing DEF Judge
    <2>3. <<>> \in Seq(Value) /\ Len(<<>>) <= 5  OBVIOUS
    <2>4. /\ x \in ClientType /\ x.pc = "poll" /\ x.verdict = client[k].verdict
          /\ x.answer = <<>>
      BY <2>1, <2>3, Hearing DEF ClientType
    <2>5. x.verdict = "none" /\ Len(x.answer) <= 5  BY <1>1, <1>2, <2>3, <2>4 DEF Heard
    <2> QED  BY <1>1, <2>2, <2>4, <2>5, HearStep DEF Terminal
  <1> QED  BY <1>3, <1>4

(* A task is made: nobody has heard of it.                                 *)
LEMMA AcceptStep ==
  ASSUME Inv, NEW k \in Client, client[k].pc = "new", Accepted(k),
         NEW x \in ClientType, client' = [client EXCEPT ![k] = x],
         x.pc = "poll" \/ x.pc = "ended", x.answer = <<>>,
         x.pc = "poll" => x.verdict = "none",
         x.verdict \notin Terminal \cup {"EMPTY"}
  PROVE  Inv'
  <1>1. TypeOK /\ UpdateOK /\ RecordOK /\ HeardOK  BY DEF Inv
  <1>2. /\ ~Locked /\ lock' = lock /\ cancel' = cancel /\ registry' = registry
        /\ task' = [task EXCEPT ![k] = New] /\ work' = [work EXCEPT ![k] = "queued"]
    BY DEF Accepted
  <1>3. Recorded(k) /\ Heard(k)  BY <1>1 DEF RecordOK, HeardOK
  <1>4. task[k] = None /\ cancel[k] = "none" /\ k \notin registry
    BY <1>3 DEF Heard, Recorded
  <1>5. /\ task' \in [Client -> Record \cup {None}] /\ task'[k] = New
        /\ work' \in [Client -> {"none", "queued", "taken", "check", "pass", "running", "done"}]
        /\ work'[k] = "queued"
        /\ \A c \in Client : c # k => task'[c] = task[c] /\ work'[c] = work[c]
    BY <1>1, <1>2, NewIsRecord DEF TypeOK
  <1>6. /\ client' \in [Client -> ClientType] /\ client'[k] = x
        /\ \A c \in Client : c # k => client'[c] = client[c]
    BY Hearing
  <1>7. TypeOK'
    <2>1. ASSUME NEW c \in Client PROVE Len(client'[c].answer) <= 5
      <3>1. CASE c = k
        <4>1. client'[c].answer = <<>> BY <1>6, <3>1
        <4> QED  BY <4>1
      <3>2. CASE c # k  BY <1>6, <3>2, Hearing
      <3> QED  BY <3>1, <3>2
    <2> QED  BY <1>1, <1>2, <1>5, <1>6, <2>1 DEF TypeOK, ClientType
  <1>8. UpdateOK'  BY <1>2 DEF UpdateOK, Locked
  <1>9. ASSUME NEW c \in Client PROVE Settled(c) = task[c] /\ Settled(c)' = task'[c]
    <2>1. lock.task # c  BY <1>2, NoneAssumption DEF Locked
    <2> QED  BY <1>2, <2>1 DEF Settled
  <1>10. Recorded(k)'
    <2>1. Story(k)'
      BY <1>2, <1>4, <1>5, <1>9 DEF Story, Whole, Unasked, New, Terminal
    <2>2. Live(k)'
      BY <1>5, <1>9 DEF Live, New, Terminal
    <2> QED  BY <1>2, <1>4, <1>5, <2>1, <2>2, NewIsRecord DEF Recorded
  <1>11. Heard(k)'
    BY <1>5, <1>6 DEF Heard
  <1>12. ASSUME NEW c \in Client, c # k PROVE Recorded(c)' /\ Heard(c)'
    <2>1. Recorded(c) /\ Heard(c)  BY <1>1 DEF RecordOK, HeardOK
    <2>2. Settled(c)' = Settled(c)  BY <1>5, <1>9, <1>12
    <2> QED  BY <1>2, <1>5, <1>6, <1>12, <2>1, <2>2, RecordFrame, HeardFrame
  <1>13. RecordOK' /\ HeardOK'
    BY <1>10, <1>11, <1>12 DEF RecordOK, HeardOK
  <1> QED  BY <1>7, <1>8, <1>13 DEF Inv

LEMMA SubmitInv ==
  ASSUME Inv, NEW k \in Client, Submit(k) \/ SubmitLost(k)
  PROVE  Inv'
  <1>1. client[k].pc = "new" /\ Accepted(k)
    BY DEF Submit, SubmitLost, Goes, Ends
  <1>2. client[k].answer = <<>> /\ client[k].verdict = "none"
    BY <1>1, Hearing DEF Heard
  <1>3. CASE Submit(k)
    <2>1. PICK x : x = [client[k] EXCEPT !.pc = "poll"]  OBVIOUS
    <2>2. client' = [client EXCEPT ![k] = x]  BY <1>3, <2>1, Hearing DEF Submit, Goes
    <2>3. /\ x \in ClientType /\ x.pc = "poll" /\ x.verdict = "none" /\ x.answer = <<>>
      BY <1>2, <2>1, Hearing DEF ClientType
    <2> QED  BY <1>1, <2>2, <2>3, AcceptStep DEF Terminal
  <1>4. CASE SubmitLost(k)
    <2>1. PICK x : x = [client[k] EXCEPT !.pc = "ended", !.verdict = "refused"]  OBVIOUS
    <2>2. client' = [client EXCEPT ![k] = x]  BY <1>4, <2>1, Hearing DEF SubmitLost, Ends
    <2>3. /\ x \in ClientType /\ x.pc = "ended" /\ x.verdict = "refused" /\ x.answer = <<>>
      BY <1>2, <2>1, Hearing DEF ClientType, Told
    <2> QED  BY <1>1, <2>2, <2>3, AcceptStep DEF Terminal
  <1> QED  BY <1>3, <1>4

LEMMA StutterInv == ASSUME Inv, UNCHANGED <<server, client>> PROVE Inv'
  <1>1. /\ task' = task /\ lock' = lock /\ work' = work /\ cancel' = cancel
        /\ registry' = registry /\ client' = client
    BY DEF server
  <1>2. TypeOK /\ UpdateOK /\ RecordOK /\ HeardOK  BY DEF Inv
  <1>3. UpdateOK' /\ \A c \in Client : Settled(c)' = Settled(c)
    BY <1>1, <1>2, UpdateStays
  <1>4. TypeOK'  BY <1>1, <1>2 DEF TypeOK
  <1>5. ASSUME NEW c \in Client PROVE Recorded(c)' /\ Heard(c)'
    <2>1. Recorded(c) /\ Heard(c)  BY <1>2 DEF RecordOK, HeardOK
    <2> QED  BY <1>1, <1>3, <2>1, RecordFrame, HeardFrame
  <1> QED  BY <1>3, <1>4, <1>5 DEF Inv, RecordOK, HeardOK

LEMMA StepInv == Inv /\ [Next]_vars => Inv'
  <1> SUFFICES ASSUME Inv, [Next]_vars PROVE Inv'
    OBVIOUS
  <1>1. ASSUME NEW k \in Client, Worker(k) PROVE Inv'
    BY <1>1, TakeInv, LookFirstInv, DropInv, PassRegistryInv, StartInv, SucceedInv, FailInv, Zenon DEF Worker
  <1>2. ASSUME NEW k \in Client, Canceller(k) PROVE Inv'
    BY <1>2, AskToCancelInv, LookAtStatusInv, MarkCancelledInv, NoteRequestInv, Zenon DEF Canceller
  <1>3. ASSUME NEW k \in Client, ClientStep(k) PROVE Inv'
    <2>1. CASE Submit(k) \/ SubmitLost(k)  BY <2>1, SubmitInv
    <2>2. CASE SubmitRefused(k)
      <3>1. Ends(k, "new", "refused") /\ UNCHANGED server  BY <2>2 DEF SubmitRefused
      <3> QED  BY <3>1, EndsInv
    <2>3. CASE TimeOut(k)
      <3>1. Ends(k, "poll", "timeout") /\ UNCHANGED server  BY <2>3 DEF TimeOut
      <3> QED  BY <3>1, EndsInv
    <2>4. CASE PollFails(k)
      <3>1. UNCHANGED server /\ (Ends(k, "poll", "raised") \/ UNCHANGED client)
        BY <2>4 DEF PollFails, PollFailed
      <3>2. CASE Ends(k, "poll", "raised")  BY <3>1, <3>2, EndsInv
      <3>3. CASE UNCHANGED client  BY <3>1, <3>3, StutterInv
      <3> QED  BY <3>1, <3>2, <3>3
    <2>5. CASE Get(k)    BY <2>5, GetInv
    <2>6. CASE Read(k)   BY <2>6, ReadInv
    <2>7. CASE Judge(k)  BY <2>7, JudgeInv
    <2> QED  BY <1>3, <2>1, <2>2, <2>3, <2>4, <2>5, <2>6, <2>7, Zenon DEF ClientStep
  <1>4. CASE UNCHANGED vars
    <2>1. UNCHANGED <<server, client>>  BY <1>4 DEF vars
    <2> QED  BY <2>1, StutterInv
  <1> QED  BY <1>1, <1>2, <1>3, <1>4, AssignInv, ReleaseInv, RestartInv, DeadlineInv, Zenon DEF Next

-----------------------------------------------------------------------------
(* The invariant holds of every behaviour.                                 *)
THEOREM InvHolds == Spec => []Inv
  <1> QED  BY InitInv, StepInv, PTL DEF Spec

(* Between two updates the record of every task tells one story: the       *)
(* updates of TaskStore.update, by any number of workers and cancel        *)
(* handlers in any order, never leave a mixture of two endings without a   *)
(* cancellation.                                                           *)
THEOREM RecordsAreWhole == Spec => []RecordIsWhole
  <1>1. Inv => RecordIsWhole
    <2> SUFFICES ASSUME Inv, ~Locked, NEW c \in Client, task[c] # None
                 PROVE  Whole(task[c]) /\ (c \notin registry => Unasked(task[c]))
      BY DEF RecordIsWhole, Whole, Unasked
    <2> QED  BY AtRest
  <1> QED  BY <1>1, InvHolds, PTL

(* What a client of any kind has been told in the end is not contradicted  *)
(* by the record, with any restarts and failing polls, until somebody asks *)
(* for a cancellation.                                                     *)
THEOREM VerdictsStand == Spec => []VerdictStands
  <1>1. Inv => VerdictStands
    <2> SUFFICES ASSUME Inv, NEW c \in Client,
                        client[c].verdict \in Terminal \cup {"EMPTY"}, task[c] # None, c \notin registry
                 PROVE  /\ task[c].status = IF client[c].verdict = "EMPTY" THEN "SUCCEEDED"
                                            ELSE client[c].verdict
                        /\ client[c].verdict = "EMPTY" => task[c].result \/ Locked
      BY DEF VerdictStands
    <2>1. task[c].status = IF client[c].verdict = "EMPTY" THEN "SUCCEEDED" ELSE client[c].verdict
      BY DEF Inv, HeardOK, Heard
    <2>2. ~Locked => Whole(task[c])  BY AtRest
    <2> QED  BY <2>1, <2>2 DEF Whole
  <1> QED  BY <1>1, InvHolds, PTL

(* The answer of a client changes when a field is read, or begins anew.    *)
LEMMA AnswerGrowsByReading ==
  ASSUME Inv, [Next]_vars, NEW c \in Client
  PROVE  client'[c].answer = client[c].answer \/ client'[c].answer = <<>> \/ Read(c)
  <1>1. client \in [Client -> ClientType]  BY Hearing
  <1>2. client[c] \in ClientType  BY <1>1
  <1>3. ASSUME NEW k \in Client, ClientStep(k) \/ Deadline(k)
        PROVE  client'[c].answer = client[c].answer \/ client'[c].answer = <<>> \/ Read(c)
    <2>1. CASE k # c
      <3>1. client'[c] = client[c]
        BY <1>1, <1>3, <2>1
        DEF ClientStep, Deadline, Submit, SubmitLost, SubmitRefused, TimeOut, PollFails, PollFailed,
            Get, Read, Judge, Goes, Ends
      <3> QED  BY <3>1
    <2>2. CASE k = c
      BY <1>1, <1>2, <1>3, <2>2
      DEF ClientStep, Deadline, Submit, SubmitLost, SubmitRefused, TimeOut, PollFails, PollFailed,
          Get, Judge, Goes, Ends, ClientType
    <2> QED  BY <2>1, <2>2
  <1>4. CASE Restart
    <2>1. PICK raised \in SUBSET Client :
            client'[c] = IF client[c].pc # "read" THEN client[c]
                       ELSE IF c \in raised THEN [client[c] EXCEPT !.pc = "ended", !.verdict = "raised"]
                       ELSE [client[c] EXCEPT !.pc = "poll", !.answer = <<>>]
      BY <1>4 DEF Restart
    <2> QED  BY <1>2, <2>1 DEF ClientType
  <1>5. ASSUME client' = client
        PROVE  client'[c].answer = client[c].answer
    BY <1>5
  <1>6. ASSUME NEW k \in Client, Worker(k) \/ Canceller(k) PROVE client' = client
    BY <1>6 DEF Worker, Canceller, Take, LookFirst, Drop, PassRegistry, Start, Succeed, Fail, Works,
                AskToCancel, LookAtStatus, MarkCancelled, NoteRequest, Cancels
  <1>7. CASE Assign \/ Release \/ UNCHANGED vars
    BY <1>5, <1>7 DEF Assign, Release, vars
  <1> QED  BY <1>3, <1>4, <1>5, <1>6, <1>7 DEF Next

LEMMA OneLess == \A n \in Nat : (n + 1 = 4 => n = 3) /\ (n + 1 = 5 => n = 4)
  OBVIOUS

(* What is read of a record nobody is writing to.                          *)
LEMMA ReadAtRest ==
  ASSUME Inv, NEW c \in Client, Read(c), lock.task # c,
         NEW after, after = client'[c].answer
  PROVE  /\ Len(after) = 4 /\ after[1] = "SUCCEEDED" => after[4]
         /\ Len(after) = 5 /\ after[1] = "FAILED" => after[5] # "None"
  <1>1. PICK before : before = client[c].answer  OBVIOUS
  <1>2. PICK value : value = task[c][NextField(c)]  OBVIOUS
  <1>3. after = Append(before, value)
    BY <1>1, <1>2, Hearing DEF Read, ClientType
  <1>4. before \in Seq(Value) /\ Len(before) < 5
    BY <1>1, Hearing, AnsweredFields DEF Read, ClientType
  <1>5. Len(after) = Len(before) + 1 /\ after[Len(after)] = value
        /\ \A i \in 1..Len(before) : after[i] = before[i]
    BY <1>3, <1>4
  <1>6. NextField(c) = Answered[Len(before) + 1]  BY <1>1 DEF NextField
  <1>7. Settled(c) = task[c]  BY DEF Settled
  <1>8. client[c].pc = "read" /\ Heard(c)  BY Hearing DEF Read
  <1>9. before # <<>> =>
          /\ before[1] = "SUCCEEDED" => task[c].result
          /\ before[1] = "FAILED" => task[c].error # "None"
    BY <1>1, <1>7, <1>8 DEF Heard
  <1>a. Len(before) \in Nat  BY <1>4
  <1>b. Len(after) = Len(before) + 1  BY <1>5
  <1>10. Len(<<>>) = 0  OBVIOUS
  <1>11. ASSUME Len(after) = 4, after[1] = "SUCCEEDED" PROVE after[4]
    <2>1. Len(before) = 3  BY <1>a, <1>b, <1>11, OneLess, Zenon
    <2>2. before[1] = after[1] /\ value = after[4]  BY <1>5, <1>11, <2>1
    <2>3. value = task[c].result  BY <1>2, <1>6, <2>1, AnsweredFields
    <2>4. Len(before) # 0  BY <2>1
    <2>5. before # <<>>  BY <1>10, <2>4, Zenon
    <2> QED  BY <1>9, <1>11, <2>2, <2>3, <2>5, Zenon
  <1>12. ASSUME Len(after) = 5, after[1] = "FAILED" PROVE after[5] # "None"
    <2>1. Len(before) = 4  BY <1>a, <1>b, <1>12, OneLess, Zenon
    <2>2. before[1] = after[1] /\ value = after[5]  BY <1>5, <1>12, <2>1
    <2>3. value = task[c].error  BY <1>2, <1>6, <2>1, AnsweredFields
    <2>4. Len(before) # 0  BY <2>1
    <2>5. before # <<>>  BY <1>10, <2>4, Zenon
    <2> QED  BY <1>9, <1>12, <2>2, <2>3, <2>5, Zenon
  <1> QED  BY <1>11, <1>12

(* A torn answer is read in the middle of an update of the task itself: no *)
(* GET of a task that nobody is writing misses the result of a success or  *)
(* the error of a failure.                                                 *)
THEOREM TornAnswersAreTransient == Spec => TornOnlyWhileWriting
  <1> DEFINE Torn(after) ==
               \/ Len(after) = 4 /\ after[1] = "SUCCEEDED" /\ ~after[4]
               \/ Len(after) = 5 /\ after[1] = "FAILED" /\ after[5] = "None"
             Step == \A c \in Client :
                       client[c].answer # client'[c].answer /\ Torn(client'[c].answer) => lock.task = c
  <1>1. Inv /\ [Next]_vars => Step
    <2> SUFFICES ASSUME Inv, [Next]_vars, NEW c \in Client,
                        client[c].answer # client'[c].answer, Torn(client'[c].answer),
                        lock.task # c
                 PROVE  FALSE
      OBVIOUS
    <2>1. Len(<<>>) = 0  OBVIOUS
    <2>2. client'[c].answer # <<>>
      <3>1. Len(client'[c].answer) # 0  OBVIOUS
      <3> QED  BY <2>1, <3>1
    <2>3. Read(c)  BY <2>2, AnswerGrowsByReading
    <2>4. /\ Len(client'[c].answer) = 4 /\ client'[c].answer[1] = "SUCCEEDED" => client'[c].answer[4]
          /\ Len(client'[c].answer) = 5 /\ client'[c].answer[1] = "FAILED" =>
               client'[c].answer[5] # "None"
      BY <2>3, ReadAtRest
    <2> QED  BY <2>4
  <1>2. Step => \A c \in Client :
       LET before == client[c].answer
           after == client'[c].answer
           torn == \/ Len(after) = 4 /\ after[1] = "SUCCEEDED" /\ ~after[4]
                   \/ Len(after) = 5 /\ after[1] = "FAILED" /\ after[5] = "None"
       IN before # after /\ torn => lock.task = c
    OBVIOUS
  <1> HIDE DEF Step
  <1> QED  BY <1>1, <1>2, InvHolds, PTL DEF Spec, TornOnlyWhileWriting
-----------------------------------------------------------------------------
(* The refinement of TaskLifecycle: what a step makes of the abstract      *)
(* status and phase of every task.                                         *)
Places == {"none", "queued", "taken", "check", "pass", "running", "done"}

LEMMA LifeStays ==
  ASSUME registry' = registry,
         \A c \in Client : StatusOf(c)' = StatusOf(c) /\ Phase(c)' = Phase(c)
  PROVE  UNCHANGED Lifecycle!vars
  BY DEF Lifecycle!vars

(* One task moves on.                                                      *)
LEMMA LifeMoves ==
  ASSUME NEW k \in Client, registry' = registry,
         \A c \in Client : c # k => StatusOf(c)' = StatusOf(c) /\ Phase(c)' = Phase(c)
  PROVE  /\ Lifecycle!Write(k, StatusOf(k)')
         /\ Lifecycle!Move(k, Phase(k), Phase(k)')
         /\ StatusOf(k)' = StatusOf(k) => UNCHANGED [c \in Client |-> StatusOf(c)]
  BY DEF Lifecycle!Write, Lifecycle!Move

(* Only the place of the worker makes a phase, and one worker moves.       *)
LEMMA PhaseFollows ==
  ASSUME Inv, NEW k \in Client, NEW at, work' = [work EXCEPT ![k] = at]
  PROVE  /\ work'[k] = at
         /\ \A c \in Client : c # k => Phase(c)' = Phase(c)
  <1>1. work'[k] = at /\ \A c \in Client : c # k => work'[c] = work[c]
    BY DEF Inv, TypeOK
  <1> QED  BY <1>1 DEF Phase

(* A call of the store changes one status, to what the call is about.      *)
LEMMA UpdateShown ==
  ASSUME Inv, NEW k \in Client, NEW order, NEW to,
         Updates(k, order, to), task' = task
  PROVE  /\ StatusOf(k)' = to.status
         /\ \A c \in Client : c # k => StatusOf(c)' = StatusOf(c)
  <1>1. lock' = [task |-> k, todo |-> order, to |-> to] /\ task[k] # None /\ lock.task = None
    BY DEF Updates, Locked
  <1>2. ASSUME NEW c \in Client PROVE c # None
    BY <1>2, NoneAssumption
  <1> QED  BY <1>1, <1>2 DEF StatusOf

(* What the invariant says of the abstract life of a task.                 *)
LEMMA LifeKnown ==
  ASSUME Inv, NEW k \in Client
  PROVE  /\ Phase(k) = "absent" <=> task[k] = None
         /\ task[k] # None => StatusOf(k) = Settled(k).status
         /\ StatusOf(k) = "CANCELLED" => k \in registry
         /\ Phase(k) = "claimed" => StatusOf(k) \in {"PENDING", "CANCELLED"}
         /\ Phase(k) = "running" => StatusOf(k) \in {"RUNNING", "CANCELLED"}
         /\ k \in registry \/ cancel[k] # "none" => Phase(k) # "absent" /\ k \in registry
  <1>1. Recorded(k) /\ work[k] \in Places  BY DEF Inv, RecordOK, TypeOK, Places
  <1>2. CASE task[k] = None  BY <1>1, <1>2 DEF Recorded, StatusOf, Phase
  <1>3. CASE task[k] # None
    <2>1. Story(k) /\ StatusOf(k) = Settled(k).status
      BY <1>1, <1>3 DEF Recorded, StatusOf, Settled
    <2>2. /\ Phase(k) = "absent" <=> work[k] = "none"
          /\ Phase(k) = "claimed" => work[k] \in {"queued", "taken", "check", "pass"}
          /\ Phase(k) = "running" => work[k] = "running"
      BY <1>1 DEF Phase, Places
    <2> QED  BY <1>1, <1>3, <2>1, <2>2 DEF Story, Unasked, Recorded
  <1> QED  BY <1>2, <1>3

LEMMA LifeOfWorker ==
  ASSUME Inv, NEW k \in Client, Worker(k)
  PROVE  [Lifecycle!Next]_(Lifecycle!vars)
  <1>1. task' = task /\ registry' = registry
    BY DEF Worker, Take, LookFirst, Drop, PassRegistry, Start, Succeed, Fail, Works
  <1>2. task[k] # None
    BY PlaceNeedsTask DEF Worker, Take, LookFirst, Drop, PassRegistry, Start, Succeed, Fail, Works
  <1>3. CASE Take(k) \/ LookFirst(k) \/ PassRegistry(k)
    <2>1. lock' = lock  BY <1>3 DEF Take, LookFirst, PassRegistry
    <2>2. \A c \in Client : StatusOf(c)' = StatusOf(c)
      BY <1>1, <2>1 DEF StatusOf
    <2>3. CASE Take(k)
      <3>1. work' = [work EXCEPT ![k] = "taken"] /\ work[k] = "queued"
        BY <2>3 DEF Take, Works
      <3>2. work'[k] = "taken" /\ \A c \in Client : c # k => Phase(c)' = Phase(c)
        BY <3>1, PhaseFollows
      <3>3. Phase(k) = "waiting" /\ Phase(k)' = "claimed"
        BY <3>1, <3>2 DEF Phase
      <3>4. /\ Lifecycle!Move(k, "waiting", "claimed")
            /\ UNCHANGED [c \in Client |-> StatusOf(c)]
        BY <1>1, <2>2, <3>2, <3>3, LifeMoves
      <3>5. Lifecycle!Claim(k)  BY <3>4 DEF Lifecycle!Claim
      <3> QED  BY <3>5 DEF Lifecycle!Next, Lifecycle!Promised
    <2>4. CASE LookFirst(k) /\ task[k].status = "CANCELLED"
      <3>1. work' = [work EXCEPT ![k] = "done"] /\ work[k] = "taken"
        BY <2>4 DEF LookFirst, Works
      <3>2. work'[k] = "done" /\ \A c \in Client : c # k => Phase(c)' = Phase(c)
        BY <3>1, PhaseFollows
      <3>6. Phase(k) = "claimed" /\ Phase(k)' = "closed"
        BY <3>1, <3>2 DEF Phase
      <3>3. k \in registry /\ StatusOf(k) = "CANCELLED"
        <4>1. Live(k) /\ Story(k) /\ UpdateOK  BY <1>2 DEF Inv, RecordOK, Recorded
        <4>2. Settled(k).status # "PENDING"
          BY <1>2, <2>4, <4>1, NoneAssumption DEF Settled, UpdateOK, Locked
        <4> QED  BY <1>2, <2>4, <3>1, <4>1, <4>2, LifeKnown DEF Live, Story
      <3>4. Lifecycle!Move(k, "claimed", "closed") /\ Lifecycle!Write(k, "CANCELLED")
        BY <1>1, <2>2, <3>2, <3>3, <3>6, LifeMoves
      <3>5. Lifecycle!Drop(k)  BY <3>3, <3>4 DEF Lifecycle!Drop
      <3> QED  BY <3>5 DEF Lifecycle!Next, Lifecycle!Promised
    <2>5. CASE PassRegistry(k) \/ (LookFirst(k) /\ task[k].status # "CANCELLED")
      <3>1. /\ work[k] \in {"taken", "check"}
            /\ \E at \in {"check", "pass"} : work' = [work EXCEPT ![k] = at]
        BY <2>5 DEF PassRegistry, LookFirst, Works
      <3>2. work'[k] \in {"check", "pass"} /\ \A c \in Client : c # k => Phase(c)' = Phase(c)
        BY <3>1, PhaseFollows
      <3>3. \A c \in Client : Phase(c)' = Phase(c)  BY <3>1, <3>2 DEF Phase
      <3> QED  BY <1>1, <2>2, <3>3, LifeStays
    <2> QED  BY <1>3, <2>3, <2>4, <2>5
  <1>4. CASE Drop(k)
    <2> DEFINE to == [task[k] EXCEPT !.status = "CANCELLED", !.started = FALSE,
                                     !.finished = TRUE, !.error = "Cancelled"]
    <2>1. /\ work[k] = "check" /\ work' = [work EXCEPT ![k] = "done"] /\ k \in registry
          /\ Updates(k, <<"status", "started", "finished", "error">>, to)
      BY <1>4 DEF Drop, Works
    <2>2. task[k] \in Record  BY <1>2 DEF Inv, TypeOK
    <2>3. to.status = "CANCELLED"  BY <2>2 DEF Record
    <2> HIDE DEF to
    <2>a. StatusOf(k)' = "CANCELLED" /\ \A c \in Client : c # k => StatusOf(c)' = StatusOf(c)
      BY <1>1, <2>1, <2>3, UpdateShown
    <2>b. work'[k] = "done" /\ \A c \in Client : c # k => Phase(c)' = Phase(c)
      BY <2>1, PhaseFollows
    <2>4. Phase(k) = "claimed" /\ Phase(k)' = "closed"
      BY <2>1, <2>b DEF Phase
    <2>5. Lifecycle!Move(k, "claimed", "closed") /\ Lifecycle!Write(k, "CANCELLED")
      BY <1>1, <2>4, <2>a, <2>b, LifeMoves
    <2>6. Lifecycle!Drop(k)  BY <2>1, <2>5 DEF Lifecycle!Drop
    <2> QED  BY <2>6 DEF Lifecycle!Next, Lifecycle!Promised
  <1>5. CASE Start(k)
    <2> DEFINE to == [task[k] EXCEPT !.status = "RUNNING", !.started = TRUE]
    <2>1. /\ work[k] = "pass" /\ work' = [work EXCEPT ![k] = "running"]
          /\ Updates(k, <<"status", "started">>, to)
      BY <1>5 DEF Start, Works
    <2>2. task[k] \in Record  BY <1>2 DEF Inv, TypeOK
    <2>3. to.status = "RUNNING"  BY <2>2 DEF Record
    <2> HIDE DEF to
    <2>a. StatusOf(k)' = "RUNNING" /\ \A c \in Client : c # k => StatusOf(c)' = StatusOf(c)
      BY <1>1, <2>1, <2>3, UpdateShown
    <2>b. work'[k] = "running" /\ \A c \in Client : c # k => Phase(c)' = Phase(c)
      BY <2>1, PhaseFollows
    <2>4. Phase(k) = "claimed" /\ Phase(k)' = "running"
      BY <2>1, <2>b DEF Phase
    <2>5. Lifecycle!Move(k, "claimed", "running") /\ Lifecycle!Write(k, "RUNNING")
      BY <1>1, <2>4, <2>a, <2>b, LifeMoves
    <2>6. Lifecycle!IsOrCancelled(k, "PENDING")
      BY <2>4, LifeKnown DEF Lifecycle!IsOrCancelled
    <2>7. Lifecycle!Start(k)  BY <2>5, <2>6 DEF Lifecycle!Start
    <2> QED  BY <2>7 DEF Lifecycle!Next, Lifecycle!Promised
  <1>6. CASE Succeed(k) \/ Fail(k)
    <2>1. work[k] = "running" /\ work' = [work EXCEPT ![k] = "done"]
      BY <1>6 DEF Succeed, Fail, Works
    <2>2. task[k] \in Record  BY <1>2 DEF Inv, TypeOK
    <2>3. work'[k] = "done" /\ \A c \in Client : c # k => Phase(c)' = Phase(c)
      BY <2>1, PhaseFollows
    <2>4. Phase(k) = "running" /\ Phase(k)' = "closed"
      BY <2>1, <2>3 DEF Phase
    <2>5. Lifecycle!IsOrCancelled(k, "RUNNING")
      BY <2>4, LifeKnown DEF Lifecycle!IsOrCancelled
    <2>6. CASE Succeed(k)
      <3> DEFINE to == [task[k] EXCEPT !.status = "SUCCEEDED", !.finished = TRUE,
                                       !.result = TRUE, !.error = "None"]
      <3>1. Updates(k, <<"status", "finished", "result", "error">>, to)
        BY <2>6 DEF Succeed
      <3>2. to.status = "SUCCEEDED"  BY <2>2 DEF Record
      <3> HIDE DEF to
      <3>3. StatusOf(k)' = "SUCCEEDED" /\ \A c \in Client : c # k => StatusOf(c)' = StatusOf(c)
        BY <1>1, <3>1, <3>2, UpdateShown
      <3>4. Lifecycle!Move(k, "running", "closed") /\ Lifecycle!Write(k, "SUCCEEDED")
        BY <1>1, <2>3, <2>4, <3>3, LifeMoves
      <3>5. Lifecycle!Succeed(k)  BY <2>5, <3>4 DEF Lifecycle!Succeed
      <3> QED  BY <3>5 DEF Lifecycle!Next, Lifecycle!Promised
    <2>7. CASE Fail(k)
      <3> DEFINE to == [task[k] EXCEPT !.status = "FAILED", !.finished = TRUE,
                                       !.error = "Failure"]
      <3>1. Updates(k, <<"status", "finished", "error">>, to)
        BY <2>7 DEF Fail
      <3>2. to.status = "FAILED"  BY <2>2 DEF Record
      <3> HIDE DEF to
      <3>3. StatusOf(k)' = "FAILED" /\ \A c \in Client : c # k => StatusOf(c)' = StatusOf(c)
        BY <1>1, <3>1, <3>2, UpdateShown
      <3>4. Lifecycle!Move(k, "running", "closed") /\ Lifecycle!Write(k, "FAILED")
        BY <1>1, <2>3, <2>4, <3>3, LifeMoves
      <3>5. Lifecycle!Fail(k)  BY <2>5, <3>4 DEF Lifecycle!Fail
      <3> QED  BY <3>5 DEF Lifecycle!Next, Lifecycle!Promised
    <2> QED  BY <1>6, <2>6, <2>7
  <1> QED  BY <1>3, <1>4, <1>5, <1>6 DEF Worker

LEMMA LifeOfCanceller ==
  ASSUME Inv, NEW k \in Client, Canceller(k)
  PROVE  [Lifecycle!Next]_(Lifecycle!vars)
  <1>1. task' = task /\ work' = work
    BY DEF Canceller, AskToCancel, LookAtStatus, MarkCancelled, NoteRequest, Cancels
  <1>2. \A c \in Client : Phase(c)' = Phase(c)  BY <1>1 DEF Phase
  <1>3. CASE AskToCancel(k)
    <2>1. lock' = lock /\ registry' = registry \cup {k} /\ task[k] # None
      BY <1>3 DEF AskToCancel
    <2>2. \A c \in Client : StatusOf(c)' = StatusOf(c)  BY <1>1, <2>1 DEF StatusOf
    <2>3. Phase(k) # "absent"  BY <2>1, LifeKnown
    <2>4. Lifecycle!Request(k)  BY <1>2, <2>1, <2>2, <2>3 DEF Lifecycle!Request
    <2> QED  BY <2>4 DEF Lifecycle!Next, Lifecycle!Promised
  <1>4. CASE LookAtStatus(k)
    <2>1. lock' = lock /\ registry' = registry  BY <1>4 DEF LookAtStatus
    <2>2. \A c \in Client : StatusOf(c)' = StatusOf(c)  BY <1>1, <2>1 DEF StatusOf
    <2> QED  BY <1>2, <2>1, <2>2, LifeStays
  <1>5. CASE MarkCancelled(k)
    <2> DEFINE to == [task[k] EXCEPT !.status = "CANCELLED", !.finished = TRUE,
                                     !.error = "Cancelled"]
    <2>1. /\ registry' = registry /\ cancel[k] # "none"
          /\ Updates(k, <<"status", "finished", "error">>, to)
      BY <1>5 DEF MarkCancelled, Cancels
    <2>2. task[k] \in Record  BY <2>1 DEF Updates, Inv, TypeOK
    <2>3. to.status = "CANCELLED"  BY <2>2 DEF Record
    <2> HIDE DEF to
    <2>4. StatusOf(k)' = "CANCELLED" /\ \A c \in Client : c # k => StatusOf(c)' = StatusOf(c)
      BY <1>1, <2>1, <2>3, UpdateShown
    <2>6. Lifecycle!Write(k, "CANCELLED")  BY <1>2, <2>1, <2>4, LifeMoves
    <2>7. k \in registry  BY <2>1, LifeKnown
    <2>5. Lifecycle!MarkCancelled(k)
      BY <1>2, <2>1, <2>6, <2>7 DEF Lifecycle!MarkCancelled
    <2> QED  BY <2>5 DEF Lifecycle!Next, Lifecycle!Promised
  <1>6. CASE NoteRequest(k)
    <2> DEFINE to == [task[k] EXCEPT !.error = "CancelRequested"]
    <2>1. registry' = registry /\ Updates(k, <<"error">>, to)
      BY <1>6 DEF NoteRequest
    <2>2. task[k] \in Record /\ task[k] # None /\ ~Locked
      BY <2>1 DEF Updates, Inv, TypeOK
    <2>4. to.status = StatusOf(k)
      BY <2>2, LifeKnown, SettledIfFree DEF Record, Inv
    <2> HIDE DEF to
    <2>3. \A c \in Client : StatusOf(c)' = StatusOf(c)
      BY <1>1, <2>1, <2>4, UpdateShown
    <2> QED  BY <1>2, <2>1, <2>3, LifeStays
  <1> QED  BY <1>3, <1>4, <1>5, <1>6 DEF Canceller

(* Field by field an update is nothing new, and neither is its end.        *)
LEMMA LifeOfUpdate ==
  ASSUME Inv, Assign \/ Release
  PROVE  UNCHANGED Lifecycle!vars
  <1>1. /\ lock.task \in Client /\ task[lock.task] \in Record /\ lock.to \in Record
        /\ task[lock.task] # None
    BY HolderTypes DEF Assign, Release
  <1>2. work' = work /\ registry' = registry  BY DEF Assign, Release
  <1>3. Inv'  BY AssignInv, ReleaseInv
  <1>4. ASSUME NEW c \in Client PROVE StatusOf(c)' = StatusOf(c)
    <2>1. CASE Assign
      <3>1. PICK f \in FieldName : f = Head(lock.todo)  BY <2>1, HolderTypes DEF Assign
      <3>2. PICK t : t = [task[lock.task] EXCEPT ![f] = lock.to[f]]  OBVIOUS
      <3>3. t \in Record /\ t # None  BY <1>1, <3>2, AssignField, NoneAssumption
      <3>4. /\ task' = [task EXCEPT ![lock.task] = t]
            /\ lock'.task = lock.task /\ lock'.to = lock.to
        BY <2>1, <3>1, <3>2 DEF Assign, Inv, TypeOK
      <3>5. task'[c] = IF c = lock.task THEN t ELSE task[c]
        BY <3>4 DEF Inv, TypeOK
      <3> QED  BY <1>1, <3>3, <3>4, <3>5 DEF StatusOf
    <2>2. CASE Release
      <3>1. lock' = Free /\ task' = task /\ lock.todo = <<>> /\ Locked
        BY <2>2 DEF Release
      <3>2. task[lock.task].status = lock.to.status
        BY <3>1, HolderTypes DEF FieldName
      <3>3. c # None  BY NoneAssumption
      <3> QED  BY <1>1, <3>1, <3>2, <3>3 DEF StatusOf, Free
    <2> QED  BY <2>1, <2>2
  <1>5. \A c \in Client : Phase(c)' = Phase(c)  BY <1>2 DEF Phase
  <1> QED  BY <1>2, <1>4, <1>5, LifeStays

LEMMA LifeOfSubmit ==
  ASSUME Inv, NEW k \in Client, client[k].pc = "new", Accepted(k)
  PROVE  Lifecycle!Accept(k)
  <1>1. /\ ~Locked /\ lock' = lock /\ registry' = registry
        /\ task' = [task EXCEPT ![k] = New] /\ work' = [work EXCEPT ![k] = "queued"]
    BY DEF Accepted
  <1>2. task[k] = None  BY <1>1, Hearing DEF Heard
  <1>3. ASSUME NEW c \in Client
        PROVE  /\ c = k => StatusOf(c)' = "PENDING"
               /\ c # k => StatusOf(c)' = StatusOf(c)
    <2>1. lock.task # c  BY <1>1, NoneAssumption DEF Locked
    <2>2. task'[c] = IF c = k THEN New ELSE task[c]  BY <1>1 DEF Inv, TypeOK
    <2> QED  BY <1>1, <2>1, <2>2, NewIsRecord DEF StatusOf
  <1>4. Phase(k) = "absent"  BY <1>2, LifeKnown
  <1>7. work'[k] = "queued" /\ \A c \in Client : c # k => Phase(c)' = Phase(c)
    BY <1>1, PhaseFollows
  <1>5. Phase(k)' = "waiting"  BY <1>7 DEF Phase
  <1>6. Lifecycle!Move(k, "absent", "waiting") /\ Lifecycle!Write(k, "PENDING")
    BY <1>1, <1>3, <1>4, <1>5, <1>7, LifeMoves
  <1> QED  BY <1>6 DEF Lifecycle!Accept

LEMMA LifeUnchanged ==
  ASSUME UNCHANGED server
  PROVE  UNCHANGED Lifecycle!vars
  <1>1. registry' = registry /\ \A c \in Client : StatusOf(c)' = StatusOf(c) /\ Phase(c)' = Phase(c)
    BY DEF server, StatusOf, Phase
  <1> QED  BY <1>1, LifeStays

LEMMA LifeStep ==
  ASSUME Inv, [Next]_vars
  PROVE  [Lifecycle!Next \/ Lifecycle!Restart]_(Lifecycle!vars)
  <1>1. ASSUME NEW k \in Client, ClientStep(k) \/ Deadline(k)
        PROVE  [Lifecycle!Next]_(Lifecycle!vars)
    <2>1. CASE Submit(k) \/ SubmitLost(k)
      <3>1. client[k].pc = "new" /\ Accepted(k)
        BY <2>1 DEF Submit, SubmitLost, Goes, Ends
      <3>2. Lifecycle!Accept(k)  BY <3>1, LifeOfSubmit
      <3> QED  BY <3>2 DEF Lifecycle!Next, Lifecycle!Promised
    <2>2. CASE UNCHANGED server  BY <2>2, LifeUnchanged
    <2> QED
      BY <1>1, <2>1, <2>2
      DEF ClientStep, Deadline, SubmitRefused, TimeOut, PollFails, Get, Read, Judge
  <1>2. CASE Restart
    <2>1. /\ task' = [c \in Client |-> None] /\ work' = [c \in Client |-> "none"]
          /\ registry' = {}
      BY <1>2 DEF Restart
    <2>2. \A c \in Client : StatusOf(c)' = "ABSENT" /\ Phase(c)' = "absent"
      BY <2>1 DEF StatusOf, Phase
    <2>3. Lifecycle!Restart
      BY <2>1, <2>2 DEF Lifecycle!Restart, Lifecycle!Init
    <2> QED  BY <2>3
  <1>3. CASE UNCHANGED vars
    <2>1. UNCHANGED server  BY <1>3 DEF vars
    <2> QED  BY <2>1, LifeUnchanged
  <1> QED  BY <1>1, <1>2, <1>3, LifeOfUpdate, LifeOfWorker, LifeOfCanceller DEF Next

(* The life of a task as its clients see it is the one TaskLifecycle       *)
(* promises: the updates of TaskStore.update, made field by field with the *)
(* store's lock held, amount to the atomic writes of it, in an order it    *)
(* allows, whatever the unlocked looks at the status have seen in between, *)
(* and only a restart of the bridge takes a task out of it.                *)
THEOREM PollLifecycleImplemented == Spec => ImplementsLifecycle
  <1>1. Init => Lifecycle!Init
    BY DEF Init, Lifecycle!Init, StatusOf, Phase
  <1>2. Inv /\ [Next]_vars => [Lifecycle!Next \/ Lifecycle!Restart]_(Lifecycle!vars)
    BY LifeStep
  <1> QED
    BY <1>1, <1>2, InvHolds, PTL DEF Spec, ImplementsLifecycle, Lifecycle!SpecWithRestarts
=============================================================================
