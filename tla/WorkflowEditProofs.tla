------------------------ MODULE WorkflowEditProofs ------------------------
(* What holds of every edit, for all workflows, ids, classes and inputs.   *)
EXTENDS WorkflowEdit, FiniteSetTheorems, WellFoundedInduction, TLAPS

(* What an op does to the copy.  Src(p, i) is what input i of p holds.     *)
Src(p, i) == p[i[1]].inputs[i[2]]

LEMMA WriteEffect ==
  ASSUME TypeOK, NEW n \in Id, NEW k \in Key, NEW v \in Input, Write(n, k, v)
  PROVE  /\ IsWorkflow(prompt')
         /\ DOMAIN prompt' = DOMAIN prompt
         /\ \A m \in DOMAIN prompt : m # n => prompt'[m] = prompt[m]
         /\ \A l \in Key : l # k => prompt'[n].inputs[l] = prompt[n].inputs[l]
         /\ prompt'[n].inputs[k] = v
         /\ n \in DOMAIN prompt
  <1>1. /\ n \in DOMAIN prompt
        /\ prompt' = [prompt EXCEPT ![n].inputs[k] = v]
    BY DEF Write
  <1>2. DOMAIN prompt \subseteq Id /\ prompt \in [DOMAIN prompt -> Node]
    BY DEF TypeOK, IsWorkflow
  <1>3. prompt[n] \in Node /\ prompt[n].inputs \in [Key -> Input]
    BY <1>1, <1>2 DEF Node
  <1>4. [prompt[n] EXCEPT !.inputs[k] = v] \in Node
    BY <1>3 DEF Node
  <1>5. prompt' = [prompt EXCEPT ![n] = [prompt[n] EXCEPT !.inputs[k] = v]]
    BY <1>1, <1>2, <1>3 DEF Node
  <1>6. /\ DOMAIN prompt' = DOMAIN prompt
        /\ prompt'[n] = [prompt[n] EXCEPT !.inputs[k] = v]
        /\ \A m \in DOMAIN prompt : m # n => prompt'[m] = prompt[m]
        /\ prompt' \in [DOMAIN prompt -> Node]
    BY <1>1, <1>2, <1>4, <1>5
  <1>7. IsWorkflow(prompt')  BY <1>2, <1>6 DEF IsWorkflow
  <1>8. /\ prompt'[n].inputs[k] = v
        /\ \A l \in Key : l # k => prompt'[n].inputs[l] = prompt[n].inputs[l]
    BY <1>3, <1>6 DEF Node
  <1> QED  BY <1>1, <1>6, <1>7, <1>8

LEMMA AddEffect ==
  ASSUME TypeOK, NEW id, NEW c \in Class, NEW ins \in [Key -> Input],
         AddNode(id, c, ins)
  PROVE  /\ IsWorkflow(prompt')
         /\ id \in Id \ DOMAIN prompt
         /\ DOMAIN prompt' = DOMAIN prompt \cup {id}
         /\ \A m \in DOMAIN prompt : prompt'[m] = prompt[m]
         /\ prompt'[id].inputs = ins
  <1>1. /\ id \in Id \ DOMAIN prompt
        /\ prompt' = [m \in (DOMAIN prompt) \cup {id} |->
                       IF m = id THEN [class |-> c, inputs |-> ins] ELSE prompt[m]]
    BY DEF AddNode
  <1>2. DOMAIN prompt \subseteq Id /\ prompt \in [DOMAIN prompt -> Node]
    BY DEF TypeOK, IsWorkflow
  <1>3. [class |-> c, inputs |-> ins] \in Node  BY DEF Node
  <1>4. prompt' \in [(DOMAIN prompt) \cup {id} -> Node]  BY <1>1, <1>2, <1>3
  <1>5. IsWorkflow(prompt')  BY <1>1, <1>2, <1>4 DEF IsWorkflow
  <1> QED  BY <1>1, <1>5

LEMMA RemoveEffect ==
  ASSUME TypeOK, NEW n \in Id, NEW prune \in BOOLEAN, RemoveNode(n, prune)
  PROVE  /\ IsWorkflow(prompt')
         /\ DOMAIN prompt' = DOMAIN prompt \ {n}
         /\ prune => \A m \in DOMAIN prompt', k \in Key :
                       prompt'[m].inputs[k] =
                         IF prompt[m].inputs[k] = n THEN Absent ELSE prompt[m].inputs[k]
  <1>1. prompt' = [m \in (DOMAIN prompt) \ {n} |->
                    IF prune THEN Pruned(prompt[m], n) ELSE prompt[m]]
    BY DEF RemoveNode
  <1>2. DOMAIN prompt \subseteq Id /\ prompt \in [DOMAIN prompt -> Node]
    BY DEF TypeOK, IsWorkflow
  <1>3. ASSUME NEW m \in DOMAIN prompt
        PROVE  /\ Pruned(prompt[m], n) \in Node
               /\ \A k \in Key : Pruned(prompt[m], n).inputs[k] =
                    IF prompt[m].inputs[k] = n THEN Absent ELSE prompt[m].inputs[k]
    <2>1. prompt[m] \in Node  BY <1>2
    <2>2. [k \in Key |-> IF prompt[m].inputs[k] = n THEN Absent ELSE prompt[m].inputs[k]]
            \in [Key -> Input]
      BY <2>1 DEF Node, Input
    <2> QED  BY <2>1, <2>2 DEF Pruned, Node
  <1>4. prompt' \in [(DOMAIN prompt) \ {n} -> Node]  BY <1>1, <1>2, <1>3
  <1>5. IsWorkflow(prompt')  BY <1>2, <1>4 DEF IsWorkflow
  <1>6. DOMAIN prompt' = DOMAIN prompt \ {n}  BY <1>1
  <1>7. ASSUME prune
        PROVE  \A m \in DOMAIN prompt', k \in Key :
                 prompt'[m].inputs[k] =
                   IF prompt[m].inputs[k] = n THEN Absent ELSE prompt[m].inputs[k]
    BY <1>1, <1>3, <1>6, <1>7
  <1> QED  BY <1>5, <1>6, <1>7

-----------------------------------------------------------------------------
(* The history is kept in step with the copy by Trace, whatever was        *)
(* written.                                                                *)
LEMMA TraceKeeps ==
  ASSUME NEW written, Trace(written)
  PROVE  Dangling(prompt') \subseteq dangled' /\ dangled' \subseteq Links(prompt')
  BY DEF Trace, Dangling

LEMMA TypeInit == Init => TypeOK
  <1> SUFFICES ASSUME Init PROVE TypeOK
    OBVIOUS
  <1>1. IsWorkflow(before) /\ IsWorkflow(prompt)  BY BaseAssumption DEF Init
  <1>2. ops \in 0..MaxOps /\ pc \in {"editing", "applied", "checked", "failed"}
    BY BoundAssumption DEF Init
  <1>3. Dangling(prompt) \subseteq dangled /\ dangled \subseteq Links(prompt)
    BY DEF Init, Dangling
  <1>4. report.safe \in BOOLEAN  BY DEF Init, NoReport
  <1>5. careful \in BOOLEAN /\ removed \in BOOLEAN  BY DEF Init
  <1> QED  BY <1>1, <1>2, <1>3, <1>4, <1>5 DEF TypeOK

LEMMA TypeStep == TypeOK /\ [Next]_vars => TypeOK'
  <1> SUFFICES ASSUME TypeOK, [Next]_vars PROVE TypeOK'
    OBVIOUS
  (* What an op leaves alone, and how it moves the count.                  *)
  <1>1. ASSUME NextOp
        PROVE  /\ IsWorkflow(before') /\ before' = before
               /\ pc' \in {"editing", "applied", "checked", "failed"}
               /\ ops' \in 0..MaxOps
               /\ report' = report
    BY <1>1, BoundAssumption DEF NextOp, TypeOK
  <1>2. report.safe \in BOOLEAN /\ careful \in BOOLEAN /\ removed \in BOOLEAN
    BY DEF TypeOK
  <1>3. ASSUME NextOp, IsWorkflow(prompt'), NEW written, Trace(written),
               careful' \in BOOLEAN, removed' \in BOOLEAN
        PROVE  TypeOK'
    <2>1. report'.safe \in BOOLEAN  BY <1>1, <1>2, <1>3
    <2>2. Dangling(prompt') \subseteq dangled' /\ dangled' \subseteq Links(prompt')
      BY <1>3, TraceKeeps
    <2> QED  BY <1>1, <1>3, <2>1, <2>2 DEF TypeOK
  <1>4. ASSUME NEW n \in Id, NEW k \in Key, NEW v \in Value \cup Id, SetInput(n, k, v)
        PROVE  TypeOK'
    <2>1. NextOp /\ Write(n, k, v) /\ v \in Input  BY <1>4 DEF SetInput, Input
    <2>2. careful' \in BOOLEAN  BY <1>4 DEF SetInput
    <2>3. removed' \in BOOLEAN /\ Trace({<<n, k>>})  BY <1>2, <2>1 DEF Write
    <2> QED  BY <1>3, <2>1, <2>2, <2>3, WriteEffect
  <1>5. ASSUME NEW n \in Id, NEW k \in Key, DeleteInput(n, k)
        PROVE  TypeOK'
    <2>1. NextOp /\ Write(n, k, Absent) /\ Absent \in Input /\ careful' = careful
      BY <1>5 DEF DeleteInput, Input
    <2>2. removed' \in BOOLEAN /\ Trace({<<n, k>>})  BY <1>2, <2>1 DEF Write
    <2>3. careful' \in BOOLEAN  BY <1>2, <2>1
    <2> QED  BY <1>3, <2>1, <2>2, <2>3, WriteEffect
  <1>6. ASSUME NEW src \in Id, NEW n \in Id, NEW k \in Key, Connect(src, n, k)
        PROVE  TypeOK'
    <2>1. NextOp /\ Write(n, k, src) /\ src \in Input /\ careful' = careful
      BY <1>6 DEF Connect, Input
    <2>2. removed' \in BOOLEAN /\ Trace({<<n, k>>})  BY <1>2, <2>1 DEF Write
    <2>3. careful' \in BOOLEAN  BY <1>2, <2>1
    <2> QED  BY <1>3, <2>1, <2>2, <2>3, WriteEffect
  <1>7. ASSUME NEW id, NEW c \in Class, NEW ins \in [Key -> Input], AddNode(id, c, ins)
        PROVE  TypeOK'
    <2>1. NextOp /\ Trace({id} \X Key) /\ removed' = removed  BY <1>7 DEF AddNode
    <2>2. careful' \in BOOLEAN  BY <1>7 DEF AddNode
    <2>3. removed' \in BOOLEAN  BY <1>2, <2>1
    <2>4. IsWorkflow(prompt')  BY <1>7, AddEffect
    <2> QED  BY <1>3, <2>1, <2>2, <2>3, <2>4
  <1>8. ASSUME NEW n \in Id, NEW prune \in BOOLEAN, RemoveNode(n, prune)
        PROVE  TypeOK'
    <2>1. NextOp /\ Trace({n} \X Key)  BY <1>8 DEF RemoveNode
    <2>2. careful' \in BOOLEAN  BY <1>8 DEF RemoveNode
    <2>3. removed' \in BOOLEAN  BY <1>8 DEF RemoveNode
    <2>4. IsWorkflow(prompt')  BY <1>8, RemoveEffect
    <2> QED  BY <1>3, <2>1, <2>2, <2>3, <2>4
  <1>9. ASSUME NEW n \in Id, RemoveMissing(n) PROVE TypeOK'
    <2>1. NextOp /\ UNCHANGED <<prompt, careful, removed, dangled>>
      BY <1>9 DEF RemoveMissing
    <2> QED  BY <1>1, <2>1 DEF TypeOK
  <1>10. CASE OpRaises
    BY <1>10 DEF OpRaises, TypeOK
  <1>11. ASSUME NEW validate \in BOOLEAN, ApplyReturns(validate) PROVE TypeOK'
    BY <1>11 DEF ApplyReturns, TypeOK
  <1>12. ASSUME NEW strict \in BOOLEAN, SelfCheck(strict) PROVE TypeOK'
    <2>1. report'.safe = Valid(prompt, strict) /\ pc' = "checked"
            /\ UNCHANGED <<before, prompt, ops, careful, removed, dangled>>
      BY <1>12 DEF SelfCheck
    <2>2. Valid(prompt, strict) \in BOOLEAN  BY DEF Valid
    <2>3. report'.safe \in BOOLEAN  BY <2>1, <2>2
    <2> QED  BY <2>1, <2>3 DEF TypeOK
  <1>13. CASE UNCHANGED vars
    BY <1>13 DEF vars, TypeOK
  <1> QED
    BY <1>4, <1>5, <1>6, <1>7, <1>8, <1>9, <1>10, <1>11, <1>12, <1>13 DEF Next

(* Every op leaves a workflow; an input that the history names still holds *)
(* a link, and every link without a source is in the history.              *)
THEOREM TypeCorrect == Spec => []TypeOK
  BY TypeInit, TypeStep, PTL DEF Spec

-----------------------------------------------------------------------------
(* Links without a source.  A careful op makes none.                       *)
LEMMA CarefulWrite ==
  ASSUME TypeOK, NEW n \in Id, NEW k \in Key, NEW v \in Input, Write(n, k, v),
         v \in Id => v \in DOMAIN prompt
  PROVE  Dangling(prompt') \subseteq Dangling(prompt)
  <1> SUFFICES ASSUME NEW a \in DOMAIN prompt', NEW b \in Key,
                      <<a, b>> \in Dangling(prompt')
               PROVE  <<a, b>> \in Dangling(prompt)
    BY DEF Dangling, Links
  <1>1. prompt'[a].inputs[b] \in Id \ DOMAIN prompt' /\ DOMAIN prompt' = DOMAIN prompt
    BY WriteEffect DEF Dangling, Links
  <1>2. CASE a = n /\ b = k
    BY <1>1, <1>2, WriteEffect
  <1>3. CASE ~(a = n /\ b = k)
    <2>1. prompt'[a].inputs[b] = prompt[a].inputs[b]
      BY <1>1, <1>3, WriteEffect
    <2> QED  BY <1>1, <2>1 DEF Dangling, Links
  <1> QED  BY <1>2, <1>3

LEMMA CarefulAdd ==
  ASSUME TypeOK, NEW id, NEW c \in Class, NEW ins \in [Key -> Input],
         AddNode(id, c, ins), careful'
  PROVE  Dangling(prompt') \subseteq Dangling(prompt)
  <1> SUFFICES ASSUME NEW a \in DOMAIN prompt', NEW b \in Key,
                      <<a, b>> \in Dangling(prompt')
               PROVE  <<a, b>> \in Dangling(prompt)
    BY DEF Dangling, Links
  <1>1. prompt'[a].inputs[b] \in Id \ DOMAIN prompt'
    BY DEF Dangling, Links
  <1>2. \A k \in Key : ins[k] \in Id => ins[k] \in DOMAIN prompt'
    BY DEF AddNode
  <1>effect.
        /\ DOMAIN prompt' = DOMAIN prompt \cup {id}
        /\ \A m \in DOMAIN prompt : prompt'[m] = prompt[m]
        /\ prompt'[id].inputs = ins
    BY AddEffect
  <1>3. a # id  BY <1>1, <1>2, <1>effect
  <1>4. a \in DOMAIN prompt /\ prompt'[a] = prompt[a] /\ DOMAIN prompt \subseteq DOMAIN prompt'
    BY <1>3, <1>effect
  <1> QED  BY <1>1, <1>4 DEF Dangling, Links

LEMMA CarefulRemove ==
  ASSUME TypeOK, NEW n \in Id, RemoveNode(n, TRUE)
  PROVE  Dangling(prompt') \subseteq Dangling(prompt)
  <1> SUFFICES ASSUME NEW a \in DOMAIN prompt', NEW b \in Key,
                      <<a, b>> \in Dangling(prompt')
               PROVE  <<a, b>> \in Dangling(prompt)
    BY DEF Dangling, Links
  <1>1. prompt'[a].inputs[b] \in Id \ DOMAIN prompt'
    BY DEF Dangling, Links
  <1>effect.
        /\ DOMAIN prompt' = DOMAIN prompt \ {n}
        /\ TRUE => \A m \in DOMAIN prompt', k \in Key :
                     prompt'[m].inputs[k] =
                       IF prompt[m].inputs[k] = n THEN Absent ELSE prompt[m].inputs[k]
    BY RemoveEffect, Zenon
  <1>2. /\ DOMAIN prompt' = DOMAIN prompt \ {n}
        /\ prompt'[a].inputs[b] = IF prompt[a].inputs[b] = n THEN Absent
                                                            ELSE prompt[a].inputs[b]
    BY <1>effect
  <1>3. prompt'[a].inputs[b] # Absent  BY <1>1, InputAssumption
  <1>4. prompt'[a].inputs[b] = prompt[a].inputs[b] /\ prompt[a].inputs[b] # n
    BY <1>2, <1>3
  <1> QED  BY <1>1, <1>2, <1>4 DEF Dangling, Links

LEMMA SourcesStep ==
  TypeOK /\ CarefulEditsKeepSources /\ [Next]_vars => CarefulEditsKeepSources'
  <1> SUFFICES ASSUME TypeOK, CarefulEditsKeepSources, [Next]_vars, careful'
               PROVE  dangled' \subseteq Dangling(before')
    BY DEF CarefulEditsKeepSources
  (* No new link without a source: nothing new in the history.             *)
  <1>1. ASSUME NEW written, Trace(written), NextOp, careful,
               Dangling(prompt') \subseteq Dangling(prompt)
        PROVE  dangled' \subseteq Dangling(before')
    <2>1. before' = before  BY <1>1 DEF NextOp
    <2>2. dangled \subseteq Dangling(before) /\ Dangling(prompt) \subseteq dangled
      BY <1>1 DEF CarefulEditsKeepSources, TypeOK
    <2>3. dangled' \subseteq dangled \cup Dangling(prompt')  BY <1>1 DEF Trace
    <2> QED  BY <1>1, <2>1, <2>2, <2>3
  <1>2. ASSUME NEW n \in Id, NEW k \in Key, NEW v \in Value \cup Id, SetInput(n, k, v)
        PROVE  dangled' \subseteq Dangling(before')
    <2>1. NextOp /\ Write(n, k, v) /\ v \in Input  BY <1>2 DEF SetInput, Input
    <2>2. careful /\ (v \in Id => v \in DOMAIN prompt)  BY <1>2 DEF SetInput
    <2>3. Trace({<<n, k>>})  BY <2>1 DEF Write
    <2> QED  BY <1>1, <2>1, <2>2, <2>3, CarefulWrite
  <1>3. ASSUME NEW n \in Id, NEW k \in Key, DeleteInput(n, k)
        PROVE  dangled' \subseteq Dangling(before')
    <2>1. NextOp /\ Write(n, k, Absent) /\ Absent \in Input /\ careful' = careful
      BY <1>3 DEF DeleteInput, Input
    <2>2. careful /\ (Absent \in Id => Absent \in DOMAIN prompt)
      BY <2>1, InputAssumption
    <2>3. Trace({<<n, k>>})  BY <2>1 DEF Write
    <2> QED  BY <1>1, <2>1, <2>2, <2>3, CarefulWrite
  <1>4. ASSUME NEW src \in Id, NEW n \in Id, NEW k \in Key, Connect(src, n, k)
        PROVE  dangled' \subseteq Dangling(before')
    <2>1. NextOp /\ Write(n, k, src) /\ src \in Input /\ careful' = careful
      BY <1>4 DEF Connect, Input
    <2>2. careful /\ src \in DOMAIN prompt  BY <1>4, <2>1 DEF Connect
    <2>3. Trace({<<n, k>>})  BY <2>1 DEF Write
    <2> QED  BY <1>1, <2>1, <2>2, <2>3, CarefulWrite
  <1>5. ASSUME NEW id, NEW c \in Class, NEW ins \in [Key -> Input], AddNode(id, c, ins)
        PROVE  dangled' \subseteq Dangling(before')
    <2>1. NextOp /\ Trace({id} \X Key) /\ careful  BY <1>5 DEF AddNode
    <2> QED  BY <1>1, <1>5, <2>1, CarefulAdd
  <1>6. ASSUME NEW n \in Id, NEW prune \in BOOLEAN, RemoveNode(n, prune)
        PROVE  dangled' \subseteq Dangling(before')
    <2>1. NextOp /\ Trace({n} \X Key) /\ careful /\ prune  BY <1>6 DEF RemoveNode
    <2>2. prune = TRUE  BY <2>1
    <2> QED  BY <1>1, <1>6, <2>1, <2>2, CarefulRemove
  <1>7. ASSUME UNCHANGED <<before, careful, dangled>>
        PROVE  dangled' \subseteq Dangling(before')
    BY <1>7 DEF CarefulEditsKeepSources
  <1>8. ASSUME NEW n \in Id, RemoveMissing(n) PROVE dangled' \subseteq Dangling(before')
    BY <1>7, <1>8 DEF RemoveMissing, NextOp
  <1>9. CASE OpRaises  BY <1>7, <1>9 DEF OpRaises
  <1>10. ASSUME NEW validate \in BOOLEAN, ApplyReturns(validate)
         PROVE  dangled' \subseteq Dangling(before')
    BY <1>7, <1>10 DEF ApplyReturns
  <1>11. ASSUME NEW strict \in BOOLEAN, SelfCheck(strict)
         PROVE  dangled' \subseteq Dangling(before')
    BY <1>7, <1>11 DEF SelfCheck
  <1>12. CASE UNCHANGED vars  BY <1>7, <1>12 DEF vars
  <1> QED
    BY <1>2, <1>3, <1>4, <1>5, <1>6, <1>8, <1>9, <1>10, <1>11, <1>12 DEF Next

(* While removals prune and no value names a node that is not there, the   *)
(* editor leaves no link without a source, at any time between two ops:    *)
(* connect checks its source, and remove_node drops what pointed there.    *)
THEOREM CarefulEditsAreClosed == Spec => []CarefulEditsKeepSources
  <1>1. Init => CarefulEditsKeepSources  BY DEF Init, CarefulEditsKeepSources
  <1> QED  BY <1>1, TypeInit, TypeStep, SourcesStep, PTL DEF Spec

-----------------------------------------------------------------------------
(* The report.  Nothing is edited once it has been made.                   *)
ReportIsCurrent ==
  pc = "checked" => \E strict \in BOOLEAN : /\ report.safe = Valid(prompt, strict)
                                            /\ report.hints = Hints(strict)

LEMMA ReportStep == ReportIsCurrent /\ [Next]_vars => ReportIsCurrent'
  <1> SUFFICES ASSUME ReportIsCurrent, [Next]_vars, pc' = "checked"
               PROVE  \E strict \in BOOLEAN : /\ report'.safe = Valid(prompt, strict)'
                                              /\ report'.hints = Hints(strict)'
    BY DEF ReportIsCurrent
  <1>1. ~NextOp  BY DEF NextOp
  (* The report is judged by things that stay as they are.                 *)
  <1>2. ASSUME NEW strict \in BOOLEAN, UNCHANGED <<before, prompt, ops>>
        PROVE  Valid(prompt, strict)' = Valid(prompt, strict)
               /\ Hints(strict)' = Hints(strict)
    <2>1. Valid(prompt, strict)' = Valid(prompt, strict)
      BY <1>2 DEF Valid, Dangling, Links, Missing, Unlinked
    <2>2. Valid(prompt, strict)' = Valid(prompt, strict)
            /\ Warned(prompt, strict)' = Warned(prompt, strict)
      BY <1>2, <2>1 DEF Warned, Missing, Unlinked
    <2>3. Changed' = Changed  BY <1>2 DEF Changed, Common, Differs
    <2>4. LinkChanges' = LinkChanges  BY <1>2 DEF LinkChanges, Common, Differs
    <2>5. OverEdit(Cardinality(Changed))' = OverEdit(Cardinality(Changed))
      BY <1>2, <2>3 DEF OverEdit
    <2> QED  BY <1>2, <2>2, <2>4, <2>5 DEF Hints
  <1>3. ASSUME NEW strict \in BOOLEAN, SelfCheck(strict)
        PROVE  report'.safe = Valid(prompt, strict)' /\ report'.hints = Hints(strict)'
    BY <1>2, <1>3 DEF SelfCheck
  <1>4. CASE UNCHANGED vars
    <2>1. UNCHANGED <<before, prompt, ops, pc, report>>  BY <1>4 DEF vars
    <2>2. PICK strict \in BOOLEAN : /\ report.safe = Valid(prompt, strict)
                                    /\ report.hints = Hints(strict)
      BY <2>1 DEF ReportIsCurrent
    <2> QED  BY <1>2, <2>1, <2>2
  <1> QED
    BY <1>1, <1>3, <1>4 DEF Next, SetInput, DeleteInput, Connect, AddNode, RemoveNode,
                            RemoveMissing, OpRaises, ApplyReturns

(* What the absence of hints says of the two workflows.                    *)
LEMMA NoHints ==
  ASSUME NEW strict \in BOOLEAN, Hints(strict) = {}
  PROVE  DOMAIN before = DOMAIN prompt /\ LinkChanges = {}
  <1>1. "structure" \notin Hints(strict) /\ "links" \notin Hints(strict)
    OBVIOUS
  <1> QED  BY <1>1 DEF Hints

LEMMA ReadyGraph == TypeOK /\ ReportIsCurrent => ReadyKeepsTheGraph
  <1> SUFFICES ASSUME ReportIsCurrent, Ready
               PROVE  /\ DOMAIN prompt = DOMAIN before
                      /\ Links(prompt) = Links(before)
                      /\ \A i \in Links(prompt) :
                           /\ prompt[i[1]].inputs[i[2]] = before[i[1]].inputs[i[2]]
                           /\ prompt[i[1]].inputs[i[2]] \in DOMAIN prompt
    BY DEF ReadyKeepsTheGraph
  <1>1. PICK strict \in BOOLEAN : Valid(prompt, strict) /\ Hints(strict) = {}
    BY DEF Ready, ReportIsCurrent
  <1>2. DOMAIN before = DOMAIN prompt /\ LinkChanges = {}  BY <1>1, NoHints
  <1>3. Dangling(prompt) = {}  BY <1>1 DEF Valid
  <1>4. ASSUME NEW i \in (DOMAIN prompt) \X Key,
               Id \cap {before[i[1]].inputs[i[2]], prompt[i[1]].inputs[i[2]]} # {}
        PROVE  before[i[1]].inputs[i[2]] = prompt[i[1]].inputs[i[2]]
    BY <1>2, <1>4 DEF LinkChanges, Common, Differs
  <1>5. Links(prompt) = Links(before)  BY <1>2, <1>4 DEF Links
  <1>6. ASSUME NEW i \in Links(prompt)
        PROVE  /\ prompt[i[1]].inputs[i[2]] = before[i[1]].inputs[i[2]]
               /\ prompt[i[1]].inputs[i[2]] \in DOMAIN prompt
    <2>1. i \in (DOMAIN prompt) \X Key /\ prompt[i[1]].inputs[i[2]] \in Id
      BY DEF Links
    <2>2. prompt[i[1]].inputs[i[2]] \in DOMAIN prompt  BY <1>3 DEF Dangling
    <2> QED  BY <1>4, <2>1, <2>2
  <1> QED  BY <1>2, <1>5, <1>6

(* What the pipeline calls ready to apply has the nodes and the links of   *)
(* the original, whatever ops have led to it.                              *)
THEOREM ReadyMeansSameGraph == Spec => []ReadyKeepsTheGraph
  <1>1. Init => ReportIsCurrent  BY DEF Init, ReportIsCurrent
  <1> QED  BY <1>1, TypeInit, TypeStep, ReportStep, ReadyGraph, PTL DEF Spec

(* The two workflows have the same ids, and the same links from the same   *)
(* sources.                                                                *)
SameGraph ==
  /\ DOMAIN prompt = DOMAIN before
  /\ Links(prompt) = Links(before)
  /\ \A i \in Links(before) : Src(prompt, i) = Src(before, i)

(* The hints on structure and links tell exactly that: nothing that keeps  *)
(* the graph is reported, and nothing that does not is passed over, not    *)
(* even when links and nodes have gone and come back in between.           *)
HintsTellTheGraph ==
  pc = "checked" => ({"structure", "links"} \cap report.hints = {} <=> SameGraph)

LEMMA LinkChangesNone ==
  ASSUME DOMAIN prompt = DOMAIN before
  PROVE  LinkChanges = {} <=> SameGraph
  <1>1. Common = DOMAIN prompt  BY DEF Common
  <1>2. ASSUME LinkChanges = {} PROVE SameGraph
    <2>1. ASSUME NEW i \in (DOMAIN prompt) \X Key,
                 Src(before, i) \in Id \/ Src(prompt, i) \in Id
          PROVE  Src(before, i) = Src(prompt, i)
      <3>1. Id \cap {before[i[1]].inputs[i[2]], prompt[i[1]].inputs[i[2]]} # {}
        BY <2>1 DEF Src
      <3> QED  BY <1>1, <1>2, <3>1 DEF LinkChanges, Differs, Src
    <2>2. Links(prompt) = Links(before)  BY <2>1 DEF Links, Src
    <2>3. \A i \in Links(before) : Src(prompt, i) = Src(before, i)
      BY <2>1 DEF Links, Src
    <2> QED  BY <2>2, <2>3 DEF SameGraph
  <1>3. ASSUME SameGraph PROVE LinkChanges = {}
    <2> SUFFICES ASSUME NEW i \in (DOMAIN prompt) \X Key,
                        Src(before, i) \in Id \/ Src(prompt, i) \in Id
                 PROVE  Src(before, i) = Src(prompt, i)
      BY <1>1 DEF LinkChanges, Differs, Src
    <2>1. i \in Links(before)  BY <1>3 DEF SameGraph, Links, Src
    <2> QED  BY <1>3, <2>1 DEF SameGraph
  <1> QED  BY <1>2, <1>3

(* The self check compares the two workflows and not the ops: whatever ops *)
(* have led to it, it tells whether the graph is the original's.           *)
THEOREM HintsAreExact == Spec => []HintsTellTheGraph
  <1>1. Init => ReportIsCurrent  BY DEF Init, ReportIsCurrent
  <1>2. ReportIsCurrent => HintsTellTheGraph
    <2> SUFFICES ASSUME ReportIsCurrent, pc = "checked"
                 PROVE  {"structure", "links"} \cap report.hints = {} <=> SameGraph
      BY DEF HintsTellTheGraph
    <2>1. PICK strict \in BOOLEAN : report.hints = Hints(strict)  BY DEF ReportIsCurrent
    <2>2. "structure" \in Hints(strict) <=> DOMAIN before # DOMAIN prompt  BY DEF Hints
    <2>3. "links" \in Hints(strict) <=> LinkChanges # {}  BY DEF Hints
    <2>4. CASE DOMAIN before = DOMAIN prompt
      BY <2>1, <2>2, <2>3, <2>4, LinkChangesNone
    <2>5. CASE DOMAIN before # DOMAIN prompt
      BY <2>1, <2>2, <2>5 DEF SameGraph
    <2> QED  BY <2>4, <2>5
  <1> QED  BY <1>1, <1>2, ReportStep, PTL DEF Spec

-----------------------------------------------------------------------------
(* The hint of an over-edit: without a removal, n ops change n nodes of    *)
(* the original at most.                                                   *)
FewChanged == ~removed => /\ DOMAIN before \subseteq DOMAIN prompt
                          /\ IsFiniteSet(Changed)
                          /\ Cardinality(Changed) <= ops

HintsAfterCheck == pc \in {"editing", "applied", "failed"} => report.hints = {}

LEMMA OneMore ==
  ASSUME TypeOK, NEW n, IsFiniteSet(Changed), Cardinality(Changed) <= ops,
         Changed' \subseteq Changed \cup {n}, ops' = ops + 1
  PROVE  IsFiniteSet(Changed') /\ Cardinality(Changed') <= ops'
  <1>1. ops \in Int  BY BoundAssumption DEF TypeOK
  <1>2. Cardinality(Changed) \in Nat  BY FS_CardinalityType
  <1>3. /\ IsFiniteSet(Changed \cup {n})
        /\ Cardinality(Changed \cup {n}) <= Cardinality(Changed) + 1
    BY <1>2, FS_AddElement
  <1>4. IsFiniteSet(Changed') /\ Cardinality(Changed') <= Cardinality(Changed \cup {n})
    BY <1>3, FS_Subset
  <1>5. Cardinality(Changed') \in Nat /\ Cardinality(Changed \cup {n}) \in Nat
    BY <1>3, <1>4, FS_CardinalityType
  <1> QED  BY <1>1, <1>2, <1>3, <1>4, <1>5

LEMMA WriteChangesOne ==
  ASSUME TypeOK, FewChanged, NextOp, NEW n \in Id, NEW k \in Key, NEW v \in Input,
         Write(n, k, v)
  PROVE  FewChanged'
  <1> SUFFICES ASSUME ~removed'
               PROVE  /\ DOMAIN before' \subseteq DOMAIN prompt'
                      /\ IsFiniteSet(Changed')
                      /\ Cardinality(Changed') <= ops'
    BY DEF FewChanged
  <1>1. before' = before /\ ops' = ops + 1 /\ ~removed  BY DEF NextOp, Write
  <1>2. /\ DOMAIN prompt' = DOMAIN prompt
        /\ \A m \in DOMAIN prompt : m # n => prompt'[m] = prompt[m]
    BY WriteEffect
  <1>3. Changed' \subseteq Changed \cup {n}
    BY <1>1, <1>2 DEF Changed, Common, Differs
  <1>4. /\ DOMAIN before \subseteq DOMAIN prompt
        /\ IsFiniteSet(Changed)
        /\ Cardinality(Changed) <= ops
    BY <1>1 DEF FewChanged
  <1> QED  BY <1>1, <1>2, <1>3, <1>4, OneMore

LEMMA AddChangesNone ==
  ASSUME TypeOK, FewChanged, NextOp, NEW id, NEW c \in Class,
         NEW ins \in [Key -> Input], AddNode(id, c, ins)
  PROVE  FewChanged'
  <1> SUFFICES ASSUME ~removed'
               PROVE  /\ DOMAIN before' \subseteq DOMAIN prompt'
                      /\ IsFiniteSet(Changed')
                      /\ Cardinality(Changed') <= ops'
    BY DEF FewChanged
  <1>1. before' = before /\ ops' = ops + 1 /\ ~removed  BY DEF NextOp, AddNode
  <1>2. /\ id \notin DOMAIN prompt
        /\ DOMAIN prompt' = DOMAIN prompt \cup {id}
        /\ \A m \in DOMAIN prompt : prompt'[m] = prompt[m]
    BY AddEffect
  <1>4. /\ DOMAIN before \subseteq DOMAIN prompt
        /\ IsFiniteSet(Changed)
        /\ Cardinality(Changed) <= ops
    BY <1>1 DEF FewChanged
  <1>5. Changed' \subseteq Changed \cup {id}
    BY <1>1, <1>2, <1>4 DEF Changed, Common, Differs
  <1> QED  BY <1>1, <1>2, <1>4, <1>5, OneMore

LEMMA FewChangedStep == TypeOK /\ FewChanged /\ [Next]_vars => FewChanged'
  <1> SUFFICES ASSUME TypeOK, FewChanged, [Next]_vars PROVE FewChanged'
    OBVIOUS
  <1>1. ASSUME NEW n \in Id, NEW k \in Key, NEW v \in Value \cup Id, SetInput(n, k, v)
        PROVE  FewChanged'
    <2>1. NextOp /\ Write(n, k, v) /\ v \in Input  BY <1>1 DEF SetInput, Input
    <2> QED  BY <2>1, WriteChangesOne
  <1>2. ASSUME NEW n \in Id, NEW k \in Key, DeleteInput(n, k) PROVE FewChanged'
    <2>1. NextOp /\ Write(n, k, Absent) /\ Absent \in Input
      BY <1>2 DEF DeleteInput, Input
    <2> QED  BY <2>1, WriteChangesOne
  <1>3. ASSUME NEW src \in Id, NEW n \in Id, NEW k \in Key, Connect(src, n, k)
        PROVE  FewChanged'
    <2>1. NextOp /\ Write(n, k, src) /\ src \in Input  BY <1>3 DEF Connect, Input
    <2> QED  BY <2>1, WriteChangesOne
  <1>4. ASSUME NEW id, NEW c \in Class, NEW ins \in [Key -> Input], AddNode(id, c, ins)
        PROVE  FewChanged'
    <2>1. NextOp  BY <1>4 DEF AddNode
    <2> QED  BY <1>4, <2>1, AddChangesNone
  <1>5. ASSUME NEW n \in Id, NEW prune \in BOOLEAN, RemoveNode(n, prune)
        PROVE  FewChanged'
    BY <1>5 DEF RemoveNode, FewChanged
  <1>6. ASSUME NEW n \in Id, RemoveMissing(n) PROVE FewChanged'
    <2>1. UNCHANGED <<before, prompt, removed>> /\ ops' = ops + 1
      BY <1>6 DEF RemoveMissing, NextOp
    <2>2. Changed' = Changed  BY <2>1 DEF Changed, Common, Differs
    <2> QED  BY <2>1, <2>2, OneMore DEF FewChanged
  <1>7. ASSUME UNCHANGED <<before, prompt, ops, removed>> PROVE FewChanged'
    <2>1. Changed' = Changed  BY <1>7 DEF Changed, Common, Differs
    <2> QED  BY <1>7, <2>1 DEF FewChanged
  <1>8. CASE OpRaises  BY <1>7, <1>8 DEF OpRaises
  <1>9. ASSUME NEW validate \in BOOLEAN, ApplyReturns(validate) PROVE FewChanged'
    BY <1>7, <1>9 DEF ApplyReturns
  <1>10. ASSUME NEW strict \in BOOLEAN, SelfCheck(strict) PROVE FewChanged'
    BY <1>7, <1>10 DEF SelfCheck
  <1>11. CASE UNCHANGED vars  BY <1>7, <1>11 DEF vars
  <1> QED
    BY <1>1, <1>2, <1>3, <1>4, <1>5, <1>6, <1>8, <1>9, <1>10, <1>11 DEF Next

LEMMA OverEditStep ==
  TypeOK /\ FewChanged /\ HintsAfterCheck /\ OverEditNeedsRemoval /\ [Next]_vars
    => HintsAfterCheck' /\ OverEditNeedsRemoval'
  <1> SUFFICES ASSUME TypeOK, FewChanged, HintsAfterCheck, OverEditNeedsRemoval,
                      [Next]_vars
               PROVE  HintsAfterCheck' /\ OverEditNeedsRemoval'
    OBVIOUS
  <1>1. ASSUME NEW strict \in BOOLEAN, SelfCheck(strict)
        PROVE  HintsAfterCheck' /\ OverEditNeedsRemoval'
    <2>1. pc' = "checked" /\ report'.hints = Hints(strict) /\ removed' = removed
      BY <1>1 DEF SelfCheck
    <2>2. ASSUME ~removed PROVE "over_edit" \notin Hints(strict)
      <3>1. IsFiniteSet(Changed) /\ Cardinality(Changed) <= ops
        BY <2>2 DEF FewChanged
      <3>2. Cardinality(Changed) \in Nat  BY <3>1, FS_CardinalityType
      <3>3. ops \in Nat  BY BoundAssumption DEF TypeOK
      <3>4. ~OverEdit(Cardinality(Changed))
        BY <3>1, <3>2, <3>3 DEF OverEdit
      <3> QED  BY <3>4 DEF Hints
    <2> QED  BY <2>1, <2>2 DEF HintsAfterCheck, OverEditNeedsRemoval
  <1>2. ASSUME pc = "editing", report' = report
        PROVE  HintsAfterCheck' /\ OverEditNeedsRemoval'
    BY <1>2 DEF HintsAfterCheck, OverEditNeedsRemoval
  <1>3. CASE UNCHANGED vars
    BY <1>3 DEF vars, HintsAfterCheck, OverEditNeedsRemoval
  <1>4. ASSUME NextOp PROVE pc = "editing" /\ report' = report
    BY <1>4 DEF NextOp
  <1> QED
    BY <1>1, <1>2, <1>3, <1>4 DEF Next, SetInput, DeleteInput, Connect, AddNode,
                                  RemoveNode, RemoveMissing, OpRaises, ApplyReturns

(* n ops without a removal never look like an over-edit, however large the *)
(* workflow.                                                               *)
THEOREM OverEditsComeFromRemovals == Spec => []OverEditNeedsRemoval
  <1>1. Init => FewChanged
    <2> SUFFICES ASSUME Init PROVE FewChanged
      OBVIOUS
    <2>1. Changed = {}  BY DEF Init, Changed, Differs
    <2>2. IsFiniteSet(Changed) /\ Cardinality(Changed) = 0  BY <2>1, FS_EmptySet
    <2> QED  BY <2>2 DEF Init, FewChanged
  <1>2. Init => HintsAfterCheck /\ OverEditNeedsRemoval
    BY DEF Init, NoReport, HintsAfterCheck, OverEditNeedsRemoval
  <1> QED
    BY <1>1, <1>2, TypeInit, TypeStep, FewChangedStep, OverEditStep, PTL DEF Spec

-----------------------------------------------------------------------------
(* _next_node_id.  The ids above all that are taken have a least one.      *)
LEMMA LeastFreeId ==
  ASSUME NEW p, IsWorkflow(p)
  PROVE  \E n \in 1..(MaxId + 1) : /\ \A i \in (DOMAIN p) \ Label : i < n
                                   /\ n = 1 \/ n - 1 \in DOMAIN p
  <1> DEFINE Above == {n \in 1..(MaxId + 1) : \A i \in (DOMAIN p) \ Label : i < n}
  <1>1. (DOMAIN p) \ Label \subseteq 1..MaxId  BY DEF IsWorkflow, Id
  <1>2. MaxId + 1 \in Above  BY <1>1, BoundAssumption
  <1>3. Above \subseteq Nat /\ Above # {}  BY <1>2, BoundAssumption
  <1>4. PICK n \in Above : \A j \in Above : ~ (<<j, n>> \in OpToRel(<, Nat))
    BY <1>3, NatLessThanWellFounded, WFMin
  <1>5. n \in 1..(MaxId + 1) /\ \A i \in (DOMAIN p) \ Label : i < n
    OBVIOUS
  <1>6. ASSUME n # 1 PROVE n - 1 \in DOMAIN p
    <2>1. n - 1 \in 1..MaxId /\ n - 1 \in Nat  BY <1>5, <1>6, BoundAssumption
    <2>2. n - 1 \notin Above
      <3>1. OpToRel(<, Nat) = {ss \in Nat \X Nat : ss[1] < ss[2]}
        BY DEF OpToRel
      <3>2. <<n - 1, n>> \in {ss \in Nat \X Nat : ss[1] < ss[2]}
        BY <1>3, <2>1
      <3>3. <<n - 1, n>> \in OpToRel(<, Nat)  BY <3>1, <3>2
      <3> QED  BY <1>4, <3>3
    <2>3. PICK i \in (DOMAIN p) \ Label : ~(i < n - 1)
      BY <2>1, <2>2, BoundAssumption
    <2>4. i \in 1..MaxId /\ i < n  BY <1>1, <1>5
    <2>5. i = n - 1  BY <2>1, <2>3, <2>4, BoundAssumption
    <2> QED  BY <2>5
  <1> QED  BY <1>5, <1>6

(* add_node without a node_id never finds its id taken.                    *)
THEOREM AllocatedIdIsFree == Spec => []NextIdIsFree
  <1>1. TypeOK => NextIdIsFree
    <2> SUFFICES ASSUME TypeOK PROVE NextIdIsFree
      OBVIOUS
    <2>1. IsWorkflow(prompt)  BY DEF TypeOK
    <2>2. /\ NextId(prompt) \in 1..(MaxId + 1)
          /\ \A i \in (DOMAIN prompt) \ Label : i < NextId(prompt)
      BY <2>1, LeastFreeId DEF NextId
    <2>3. NextId(prompt) \in Int  BY <2>2, BoundAssumption
    <2>4. NextId(prompt) \notin Label  BY <2>3, LabelAssumption
    <2> QED  BY <2>2, <2>3, <2>4 DEF NextIdIsFree
  <1> QED  BY <1>1, TypeCorrect, PTL
=============================================================================
