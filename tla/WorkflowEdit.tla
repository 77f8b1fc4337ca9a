--------------------------- MODULE WorkflowEdit ---------------------------
(***************************************************************************)
(* One call of workflow_ops.apply_ops and the self check of its result.    *)
(* The editor works on a deep copy of the workflow, op after op; an op that *)
(* raises ends the call and the copy is dropped.  workflow_self_check then *)
(* validates the result, compares it with the original, and collects the   *)
(* hints that the agent pipeline takes for risks.                          *)
(*                                                                         *)
(* A workflow maps node ids to nodes; a node has a class and its inputs.   *)
(* An input is absent, holds a value, or is a link, which is reduced to    *)
(* the id of its source.  Output indices are left out, and so are nodes    *)
(* that are not objects: an op on one of them raises.                      *)
(***************************************************************************)
EXTENDS Integers, FiniteSets

CONSTANTS
  Label,        \* ids that are not numbers, such as "11:742"
  Class,        \* class_type
  Key,          \* names of inputs
  Value,        \* input values other than links
  Absent,       \* the input is not there
  Required,     \* the links the node registry wants of a class
  Base,         \* workflows that are edited
  MaxId,        \* bound on numeric ids
  MaxOps        \* bound on the ops of a call

Id == (1..MaxId) \cup Label
Input == Value \cup {Absent} \cup Id
Node == [class : Class, inputs : [Key -> Input]]
IsWorkflow(p) == DOMAIN p \subseteq Id /\ p \in [DOMAIN p -> Node]

ASSUME BoundAssumption == MaxId \in Nat /\ MaxOps \in Nat
ASSUME LabelAssumption == Label \cap Int = {}
ASSUME InputAssumption == (Value \cup {Absent}) \cap Id = {}
ASSUME RequiredAssumption == Required \in [Class -> SUBSET Key]
ASSUME BaseAssumption == \A p \in Base : IsWorkflow(p)

VARIABLES
  before,       \* the workflow that was passed in
  prompt,       \* WorkflowEditor.prompt
  pc,           \* "editing", "applied", "checked", or "failed": an exception
  ops,          \* ops carried out
  report,       \* of the self check: safe_to_submit and the hints
  careful,      \* history: see Careful edits below
  removed,      \* history: a node has been removed
  dangled       \* history: inputs whose link has had no source since it was made

vars == <<before, prompt, pc, ops, report, careful, removed, dangled>>

Links(p) == {i \in (DOMAIN p) \X Key : p[i[1]].inputs[i[2]] \in Id}
Dangling(p) == {i \in Links(p) : p[i[1]].inputs[i[2]] \notin DOMAIN p}

NoReport == [safe |-> FALSE, hints |-> {}]

Init ==
  /\ before \in Base
  /\ prompt = before
  /\ pc = "editing"
  /\ ops = 0
  /\ report = NoReport
  /\ careful = TRUE
  /\ removed = FALSE
  /\ dangled = Dangling(before)

(* What the history keeps of an op that has written some inputs.           *)
Trace(written) ==
  dangled' = ((dangled \ written) \cap Links(prompt')) \cup Dangling(prompt')

NextOp ==
  /\ pc = "editing"
  /\ ops < MaxOps
  /\ ops' = ops + 1
  /\ UNCHANGED <<before, pc, report>>

(* WorkflowEditor.set_input, for set and for the end of connect.           *)
Write(n, k, v) ==
  /\ n \in DOMAIN prompt
  /\ prompt' = [prompt EXCEPT ![n].inputs[k] = v]
  /\ Trace({<<n, k>>})
  /\ UNCHANGED removed

(* set: the value is the client's and may be a link to anything.           *)
SetInput(n, k, v) ==
  /\ NextOp
  /\ Write(n, k, v)
  /\ careful' = (careful /\ (v \in Id => v \in DOMAIN prompt))

DeleteInput(n, k) ==
  /\ NextOp
  /\ Write(n, k, Absent)
  /\ UNCHANGED careful

(* Faulty variant: connect looks at the destination only.                  *)
ConnectUnchecked(src, dst, k) ==
  /\ NextOp
  /\ Write(dst, k, src)
  /\ UNCHANGED careful

Connect(src, dst, k) ==
  /\ NextOp
  /\ src \in DOMAIN prompt
  /\ Write(dst, k, src)
  /\ UNCHANGED careful

(* Faulty variant: the number of nodes taken for the largest id.           *)
CountPlusOne(p) == Cardinality(DOMAIN p) + 1

(* _next_node_id: one more than the largest id that is a number.           *)
NextId(p) ==
  CHOOSE n \in 1..(MaxId + 1) :
    /\ \A i \in (DOMAIN p) \ Label : i < n
    /\ n = 1 \/ n - 1 \in DOMAIN p

AddNode(id, c, ins) ==
  /\ NextOp
  /\ id \in Id \ (DOMAIN prompt)
  /\ prompt' = [n \in (DOMAIN prompt) \cup {id} |->
                  IF n = id THEN [class |-> c, inputs |-> ins] ELSE prompt[n]]
  /\ Trace({id} \X Key)
  /\ careful' = (careful /\ \A k \in Key : ins[k] \in Id => ins[k] \in DOMAIN prompt')
  /\ UNCHANGED removed

(* The inputs of the other nodes, with and without those linked to n.      *)
Pruned(node, n) ==
  [node EXCEPT !.inputs = [k \in Key |-> IF node.inputs[k] = n THEN Absent
                                                               ELSE node.inputs[k]]]

RemoveNode(n, prune) ==
  /\ NextOp
  /\ n \in DOMAIN prompt
  /\ prompt' = [m \in (DOMAIN prompt) \ {n} |->
                  IF prune THEN Pruned(prompt[m], n) ELSE prompt[m]]
  /\ Trace({n} \X Key)
  /\ careful' = (careful /\ prune)
  /\ removed' = TRUE

(* remove_node of an id that is not there returns at once.                 *)
RemoveMissing(n) ==
  /\ NextOp
  /\ n \in Id \ (DOMAIN prompt)
  /\ UNCHANGED <<prompt, careful, removed, dangled>>

(* An unknown op, a missing field, a target that is missing, ambiguous or  *)
(* without an input, an id that is taken: whatever the workflow is, some   *)
(* op raises.                                                              *)
OpRaises ==
  /\ pc = "editing"
  /\ pc' = "failed"
  /\ UNCHANGED <<before, prompt, ops, report, careful, removed, dangled>>

-----------------------------------------------------------------------------
(* validate_workflow.                                                      *)
Unlinked(p) == {i \in (DOMAIN p) \X Key : /\ i[2] \in Required[p[i[1]].class]
                                        /\ p[i[1]].inputs[i[2]] \notin Id}
Missing(p) == {i \in Unlinked(p) : p[i[1]].inputs[i[2]] = Absent}

Valid(p, strict) == Dangling(p) = {} /\ (strict => Missing(p) = {})
Warned(p, strict) == (IF strict THEN Unlinked(p) \ Missing(p) ELSE Unlinked(p)) # {}

(* apply_ops returns; if any op has asked for it, the result is validated. *)
ApplyReturns(validate) ==
  /\ pc = "editing"
  /\ validate => ops > 0
  /\ pc' = IF validate /\ ~Valid(prompt, FALSE) THEN "failed" ELSE "applied"
  /\ UNCHANGED <<before, prompt, ops, report, careful, removed, dangled>>

(* diff_workflows: nodes that are there before and after are compared      *)
(* input by input.                                                         *)
Common == (DOMAIN before) \cap (DOMAIN prompt)
Differs(n, k) == before[n].inputs[k] # prompt[n].inputs[k]
Changed == {n \in Common : before[n].class # prompt[n].class
                             \/ \E k \in Key : Differs(n, k)}

(* Faulty variant: only links that are still there are counted.            *)
LinksMade ==
  {i \in Common \X Key : Differs(i[1], i[2]) /\ prompt[i[1]].inputs[i[2]] \in Id}

LinkChanges ==
  {i \in Common \X Key : Differs(i[1], i[2])
     /\ Id \cap {before[i[1]].inputs[i[2]], prompt[i[1]].inputs[i[2]]} # {}}

(* Faulty variant of the limit: without its floor.                         *)
TooMany(changed) == changed > 0

OverEdit(changed) == changed > 3 /\ changed > 2 * ops

(* _risk_hints.                                                            *)
Hints(strict) ==
  {h \in {"structure", "over_edit", "links", "errors", "warnings", "no_ops"} :
     \/ h = "structure" /\ DOMAIN before # DOMAIN prompt
     \/ h = "over_edit" /\ OverEdit(Cardinality(Changed))
     \/ h = "links" /\ LinkChanges # {}
     \/ h = "errors" /\ ~Valid(prompt, strict)
     \/ h = "warnings" /\ Warned(prompt, strict)
     \/ h = "no_ops" /\ ops = 0}

(* self_check_workflow_edit, after apply_ops.                              *)
SelfCheck(strict) ==
  /\ pc = "applied"
  /\ pc' = "checked"
  /\ report' = [safe |-> Valid(prompt, strict), hints |-> Hints(strict)]
  /\ UNCHANGED <<before, prompt, ops, careful, removed, dangled>>

Next ==
  \/ \E n \in Id, k \in Key, v \in Value \cup Id : SetInput(n, k, v)
  \/ \E n \in Id, k \in Key : DeleteInput(n, k)
  \/ \E src, dst \in Id, k \in Key : Connect(src, dst, k)
  \/ \E id \in Id, c \in Class, ins \in [Key -> Input] : AddNode(id, c, ins)
  \/ \E c \in Class, ins \in [Key -> Input] : AddNode(NextId(prompt), c, ins)
  \/ \E n \in Id, prune \in BOOLEAN : RemoveNode(n, prune)
  \/ \E n \in Id : RemoveMissing(n)
  \/ OpRaises
  \/ \E validate \in BOOLEAN : ApplyReturns(validate)
  \/ \E strict \in BOOLEAN : SelfCheck(strict)

Spec == Init /\ [][Next]_vars

-----------------------------------------------------------------------------
(* The copy stays a workflow, and the history follows it.                  *)
TypeOK ==
  /\ IsWorkflow(before)
  /\ IsWorkflow(prompt)
  /\ pc \in {"editing", "applied", "checked", "failed"}
  /\ ops \in 0..MaxOps
  /\ report.safe \in BOOLEAN
  /\ careful \in BOOLEAN
  /\ removed \in BOOLEAN
  /\ Dangling(prompt) \subseteq dangled
  /\ dangled \subseteq Links(prompt)

(* Careful edits: no removal with prune_links off, and no value that is a  *)
(* link to a node that is not there.  They leave no link without a source, *)
(* not even for a while: a link that has lost its source is taken over by  *)
(* the next node that gets the free id.                                    *)
CarefulEditsKeepSources == careful => dangled \subseteq Dangling(before)

(* add_node without a node_id always finds an id that is free, among       *)
(* numbers with gaps and ids that are not numbers.                         *)
NextIdIsFree == NextId(prompt) \notin DOMAIN prompt

(* workflow_agent_pipeline._dry_run_safe.                                  *)
Ready == pc = "checked" /\ report.safe /\ report.hints = {}

(* What the pipeline calls ready to apply has the node ids and the links   *)
(* of the original, and no link without a source.  Values may differ, and  *)
(* so may classes: a node that is removed and added again under its id     *)
(* gives no hint.                                                          *)
ReadyKeepsTheGraph ==
  Ready =>
    /\ DOMAIN prompt = DOMAIN before
    /\ Links(prompt) = Links(before)
    /\ \A i \in Links(prompt) :
         /\ prompt[i[1]].inputs[i[2]] = before[i[1]].inputs[i[2]]
         /\ prompt[i[1]].inputs[i[2]] \in DOMAIN prompt

(* The hint "possible over-edit" is given only for the links pruned with a *)
(* node: every other op changes one node at most.                          *)
OverEditNeedsRemoval == "over_edit" \in report.hints => removed
=============================================================================
