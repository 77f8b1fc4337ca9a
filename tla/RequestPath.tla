--------------------------- MODULE RequestPath ---------------------------
(***************************************************************************)
(* From the body of a request to the graph ComfyUI is given: defaults,     *)
(* precedence, policy, route, and the patch of the workflow's inputs.  The *)
(* module has no state; Generation runs requests through it.               *)
(*                                                                         *)
(* A value is reduced to where it comes from:                              *)
(*   none      the key is absent, or null                                  *)
(*   null      the key is there and null, where that makes a difference    *)
(*   top       the key of the request itself                               *)
(*   nested    its second place: the prompt object, generation, output     *)
(*   bad       a text int() rejects; a prefix without letter or digit      *)
(*   negative  a seed, or a limit of a task, below 0                       *)
(*   zero      a size, a number of steps or a time-out of 0                *)
(*   default, policy, random, op, file   not from the request's fields     *)
(***************************************************************************)
EXTENDS Integers

CONSTANTS
  File,         \* names of workflow files
  NotJson,      \* those that do not end in .json
  Absolute,     \* those that are absolute paths
  DefaultFile,  \* CONFIG.workflow_path
  Profiles,     \* the profile table of the router
  NoFile,       \* no name given
  NodeId        \* node ids a patch looks for

Number == {"width", "height", "steps", "seed"}
Field == Number \cup {"prompt", "negative", "filename_prefix"}
Input == (Field \ {"prompt", "negative"}) \cup {"text"}
Given == {"none", "top", "nested", "bad", "negative", "zero"}
Limit == {"task_timeout_seconds", "max_retries", "retry_backoff_seconds"}
Path == {"cwd", "base", "root"} \X File

ASSUME FileAssumption ==
  /\ NotJson \subseteq File /\ Absolute \subseteq File
  /\ DefaultFile \in File \ NotJson
  /\ NoFile \notin File
  /\ Profiles \in [{"none", "default", "quality"} -> File]

(* What a key of generation lays over the request: it may be null.         *)
Laid == Given \cup {"null"}

Present(v) == v \notin {"none", "null"}
first_existing(a, b) == IF Present(a) THEN a ELSE IF Present(b) THEN b ELSE "default"

(* to_int and sanitize_filename_prefix fall back to the same default.      *)
Converted(v) == IF v = "bad" THEN "default" ELSE v

(* normalize_request: the top level wins over the second place, and what   *)
(* cannot be converted becomes the default without a second look.          *)
normalize_request(r) == [f \in Field |-> Converted(first_existing(r.top[f], r.nested[f]))]

(* generate_image draws the seed itself.                                   *)
Drawn(values) == [values EXCEPT !.seed = IF @ \in {"negative", "default"} THEN "random" ELSE @]

FirstFile(a, b) == IF a # NoFile THEN a ELSE IF b # NoFile THEN b ELSE DefaultFile

WorkflowName(r) ==
  LET name == FirstFile(r.workflow, r.model) IN IF name \in NotJson THEN DefaultFile ELSE name

(* A relative name is looked up in the directory the process runs in, or   *)
(* in the one of the bridge's source.                                      *)
Located(dir, name) == IF name \in Absolute THEN <<"root", name>> ELSE <<dir, name>>

(* WorkflowRouter.resolve.  normalize_request always names a file, so the  *)
(* profile is only looked at by callers there are none of.                 *)
resolve(profile, override) ==
  IF override # NoFile THEN Located("base", override) ELSE <<"base", Profiles[profile]>>

(* The conversions of /submit are one try block, in this order: what comes *)
(* after a value int() or float() rejects stays as the caller left it.     *)
Before(l) ==
  CASE l = "task_timeout_seconds" -> {}
    [] l = "max_retries" -> {"task_timeout_seconds"}
    [] l = "retry_backoff_seconds" -> Limit \ {"retry_backoff_seconds"}

WithPolicy(limits) ==
  [l \in Limit |-> IF limits[l] = "none" /\ \A k \in Before(l) : limits[k] # "bad"
                   THEN "policy" ELSE limits[l]]

(* What the worker does with them before ComfyUI hears of the task: int()  *)
(* and float() of max_retries and the backoff, even if they are None; no   *)
(* attempt at all if max_retries is below 0; and at the attempt int() of   *)
(* the time-out, unless it is None.                                        *)
Unusable(limits) ==
  \E l \in {"max_retries", "retry_backoff_seconds"} : limits[l] \in {"bad", "none"}
NoAttempt(limits) == ~Unusable(limits) /\ limits["max_retries"] = "negative"
LimitsRaise(limits) == Unusable(limits) \/ limits["task_timeout_seconds"] = "bad"

-----------------------------------------------------------------------------
(* The inputs patch_workflow writes, of the bridge and of run_comfy_once,  *)
(* and those bridge_job._patch_workflow writes.                            *)
SyncSlots ==
  {<<5, "text">>, <<7, "text">>, <<9, "seed">>, <<9, "steps">>, <<4, "width">>,
   <<4, "height">>, <<8, "width">>, <<8, "height">>, <<11, "filename_prefix">>}

AsyncSlots ==
  {<<6, "text">>, <<7, "text">>, <<3, "seed">>, <<3, "steps">>, <<5, "width">>,
   <<5, "height">>, <<9, "filename_prefix">>}

Slot == SyncSlots \cup AsyncSlots

(* A workflow graph: the nodes, those that others have links to, whether a *)
(* link has lost its source, whether the nodes are under a "prompt" key,   *)
(* the inputs that the nodes' classes take (ComfyUI overlooks any other a  *)
(* node is given), and the value of each input.                            *)
Origin == {"top", "nested", "negative", "zero", "default", "random", "op", "file"}
Graph == [nodes : SUBSET NodeId, linked : SUBSET NodeId, dangling : BOOLEAN,
          wrapped : BOOLEAN, takes : SUBSET Slot, val : [Slot -> Origin]]

Put(g, slot, v) == [g EXCEPT !.val[slot] = v]

(* set_if_exists for every line of a patch: a patch is the field that each *)
(* of its inputs is given.  Nodes under a "prompt" key are not found.      *)
Patched(g, patch, values) ==
  IF g.wrapped THEN g
  ELSE [g EXCEPT !.val = [s \in Slot |->
         IF s \in DOMAIN patch /\ s[1] \in g.nodes THEN values[patch[s]] ELSE g.val[s]]]

(* Faulty variant: the two sizes of node 8 change places.                  *)
SwappedPatch ==
  [s \in SyncSlots |-> IF s = <<5, "text">> THEN "prompt"
                       ELSE IF s = <<7, "text">> THEN "negative"
                       ELSE IF s = <<8, "width">> THEN "height"
                       ELSE IF s = <<8, "height">> THEN "width" ELSE s[2]]

SyncPatch ==
  [s \in SyncSlots |-> IF s = <<5, "text">> THEN "prompt"
                       ELSE IF s = <<7, "text">> THEN "negative" ELSE s[2]]

AsyncPatch ==
  [s \in AsyncSlots |-> IF s = <<6, "text">> THEN "prompt"
                        ELSE IF s = <<7, "text">> THEN "negative" ELSE s[2]]

(* run_generation: "or" takes 0 for a missing size or number of steps, and *)
(* patches the default; the result still reports the 0.                    *)
Truthy(values) ==
  [f \in Field |-> IF values[f] = "zero" /\ f # "seed" THEN "default" ELSE values[f]]

-----------------------------------------------------------------------------
(* apply_ops, for one op that stands for the list of them: it sets an      *)
(* input, removes a node and leaves the links to it (prune_links off), or  *)
(* raises.  WorkflowEdit has the ops one by one.                           *)
NoOp == [do |-> "nothing"]
Op == {NoOp, [do |-> "raise"]}
        \cup [do : {"set"}, slot : Slot] \cup [do : {"remove"}, node : NodeId]

OpRaises(g, op) ==
  \/ op.do = "raise"
  \/ op.do = "set" /\ op.slot[1] \notin g.nodes
  \/ op.do = "remove" /\ op.node \notin g.nodes

Applied(g, op) ==
  CASE op.do = "set" -> Put([g EXCEPT !.wrapped = TRUE], op.slot, "op")
    [] op.do = "remove" ->
         [g EXCEPT !.wrapped = TRUE, !.nodes = @ \ {op.node},
                   !.dangling = @ \/ op.node \in g.linked]
    [] OTHER -> [g EXCEPT !.wrapped = TRUE]

(* Faulty variant: the ops of generation are kept if there are any.        *)
MergedKeepingOps(r) ==
  [r EXCEPT !.workflow = FirstFile(r.generation, r.workflow),
            !.op = IF r.generationOp # NoOp THEN r.generationOp ELSE @]

(* agent_service._merge_generation_request: the keys of generation are     *)
(* laid over those of the request, null included, so what is nested there  *)
(* now wins, and a prompt put over the prompt object hides its negative;   *)
(* the ops are the planned ones whatever generation says.                  *)
OfGeneration(r) == [f \in Field |-> IF f \in Number THEN r.nested[f] ELSE r.laid[f]]

Merged(r) ==
  [r EXCEPT
    !.workflow = FirstFile(r.generation, r.workflow),
    !.top = [f \in Field |-> CASE OfGeneration(r)[f] = "none" -> r.top[f]
                               [] OfGeneration(r)[f] = "null" -> "none"
                               [] OTHER -> OfGeneration(r)[f]],
    !.nested = [f \in Field |->
       IF f \in Number \/ (f \in {"prompt", "negative"} /\ r.laid.prompt # "none")
       THEN "none" ELSE r.nested[f]]]
=============================================================================
