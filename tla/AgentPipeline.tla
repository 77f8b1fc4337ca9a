--------------------------- MODULE AgentPipeline ---------------------------
(***************************************************************************)
(* AgentPipeline.run: reason, decide, plan, dry run.  A gate is noted for  *)
(* every stage that was tried; the policy of the request says which stages *)
(* may be skipped and which refusals end the run.                          *)
(*                                                                         *)
(* The parts of the request are read where the code reads them: the goal   *)
(* and the semantics by the reasoner, the thresholds by the decision       *)
(* engine, the rest by the planner.  The dry run of an op that sets a      *)
(* value ends as WorkflowEdit shows; here its verdict is open.  Experience *)
(* memory is left out: what it finds is passed to the reasoner, which does *)
(* not look at it.                                                         *)
(***************************************************************************)
EXTENDS Planner

CONSTANTS
  Workflows,    \* what there is to be observed in the workflows of the runs
  Supplied,     \* what a client's own semantics may show instead
  Policies,     \* decision policies
  Requests      \* what the planner reads of a request

(* What the expressions find in the text: a size with both its sides.      *)
Found == {t \in [width : Nat \cup {None}, height : Nat \cup {None},
                 steps : Nat \cup {None}, cfg : Nat \cup {None}] :
            t.width = None <=> t.height = None}

PlanRequest == [intent : {"none", "size", "steps", "cfg", "prompt", "negative"},
                width : Nat \cup {None}, height : Nat \cup {None},
                steps : Int \cup {None}, cfg : Int \cup {None, NaN},
                said : {None, Text}, text : Found, priority : Priority, maxCandidates : 1..10, allowAppend : BOOLEAN]

ASSUME MarkAssumption == {None, NaN, Text} \cap Int = {} /\ None # NaN /\ None # Text
ASSUME FactsAssumption == Workflows \subseteq Facts /\ Supplied \subseteq Facts
ASSUME PolicyAssumption == Policies \subseteq Policy
ASSUME RequestAssumption == Requests \subseteq PlanRequest

VARIABLES
  pc,           \* the next stage, or "done"
  workflow,     \* the facts about the workflow
  policy,       \* PipelinePolicy
  reasoning,    \* the reasoner's result
  decision,     \* status and selected ops, and the policy they are due to
  plan,         \* the planner's result
  gates,        \* the gates so far: stage and whether it was passed
  answer        \* PipelineResult: status, selected_ops, apply_request

vars == <<pc, workflow, policy, reasoning, decision, plan, gates, answer>>

Stages == {"reason", "decide", "plan", "dry_run"}
Statuses == {"ready", "needs_review", "needs_clarification", "blocked", "error"}
PipelinePolicy == [auto_plan : BOOLEAN, auto_dry_run : BOOLEAN,
                   require_accepted_decision : BOOLEAN, require_plan_success : BOOLEAN]

NoReasoning == [goal |-> "unknown", observations |-> {}, strategy |-> {},
                warned |-> FALSE, safe |-> FALSE]
NoDecision == [status |-> "none", ops |-> {}, policy |-> DefaultPolicy]
NoAnswer == [status |-> "none", ops |-> {}, apply |-> FALSE]

Init ==
  /\ pc = "reason"
  /\ workflow \in Workflows
  /\ policy \in PipelinePolicy
  /\ reasoning = NoReasoning
  /\ decision = NoDecision
  /\ plan = NoPlan
  /\ gates = {}
  /\ answer = NoAnswer

Gate(stage, passed) == gates' = gates \cup {[stage |-> stage, passed |-> passed]}

(* _finish.  apply: an apply_request is part of the answer.                *)
Finish(status, ops, apply) ==
  /\ pc' = "done"
  /\ answer' = [status |-> status, ops |-> ops, apply |-> apply]

(* A malformed context, such as a count that is not a number, raises.      *)
ReasonRaises ==
  /\ pc = "reason"
  /\ Gate("reason", FALSE)
  /\ Finish("error", {}, FALSE)
  /\ UNCHANGED <<workflow, policy, reasoning, decision, plan>>

RunReasoner(goal, facts) ==
  /\ pc = "reason"
  /\ reasoning' = Reason(goal, facts)
  /\ Gate("reason", TRUE)
  /\ pc' = "decide"
  /\ UNCHANGED <<workflow, policy, decision, plan, answer>>

(* int() of an infinite max_decisions raises what from_request does not    *)
(* catch.                                                                  *)
DecideRaises ==
  /\ pc = "decide"
  /\ Gate("decide", FALSE)
  /\ Finish("error", {}, FALSE)
  /\ UNCHANGED <<workflow, policy, reasoning, decision, plan>>

(* Faulty variant of the gate: anything but a request for clarification.   *)
NotUnclear(d) == d.status # "needs_clarification"

Accepted(d) == d.status = "accepted"

RunDecision(p) ==
  /\ pc = "decide"
  /\ LET d == Decide(reasoning, p)
     IN /\ decision' = [status |-> d.status, ops |-> d.ops, policy |-> p]
        /\ Gate("decide", d.status = "accepted")
        /\ IF policy.require_accepted_decision /\ ~Accepted(d)
           THEN Finish(IF d.status = "needs_review" THEN "needs_review"
                                                    ELSE "needs_clarification",
                       d.ops, FALSE)
           ELSE IF ~policy.auto_plan THEN Finish("needs_review", d.ops, FALSE)
           ELSE pc' = "plan" /\ UNCHANGED answer
  /\ UNCHANGED <<workflow, policy, reasoning, plan>>

(* _selected_ops_from_plan_or_decision.                                    *)
PlannedOps(p) == IF p.ops # {} THEN p.ops ELSE decision.ops

(* Faulty variant of _plan_success: it asks for ops only.                  *)
HasOps(p) == p.ops # {}

Succeeded(p) == p.success /\ p.ops # {}

(* What follows the planner, or its failure.                               *)
AfterPlan(p) ==
  /\ plan' = p
  /\ IF policy.require_plan_success /\ ~Succeeded(p)
     THEN Finish("blocked", PlannedOps(p), FALSE)
     ELSE IF ~policy.auto_dry_run THEN Finish("needs_review", PlannedOps(p), TRUE)
     ELSE pc' = "dry_run" /\ UNCHANGED answer
  /\ UNCHANGED <<workflow, policy, reasoning, decision>>

RunPlanner(r) ==
  /\ pc = "plan"
  /\ LET p == PlanResult(r, reasoning.strategy)
     IN Gate("plan", Succeeded(p)) /\ AfterPlan(p)

(* A max_candidates or a width that is no number raises; the plan is made  *)
(* of the decision's ops and counts as one that failed.                    *)
PlannerRaises ==
  /\ pc = "plan"
  /\ Gate("plan", decision.ops # {})
  /\ AfterPlan([success |-> FALSE, ops |-> decision.ops, source |-> "fallback"])

(* apply_ops raises for an append_text; without ops the self check always  *)
(* has the hint no_ops.                                                    *)
CanBeSafe(ops) == ops # {} /\ \A o \in ops : o.op = "set"

DryRun(safe) ==
  /\ pc = "dry_run"
  /\ safe => CanBeSafe(PlannedOps(plan))
  /\ Gate("dry_run", safe)
  /\ Finish(IF safe THEN "ready" ELSE "needs_review", PlannedOps(plan), safe)
  /\ UNCHANGED <<workflow, policy, reasoning, decision, plan>>

Next ==
  \/ ReasonRaises
  \/ \E goal \in Goal : RunReasoner(goal, Inspected(workflow))
  \/ \E goal \in Goal, facts \in Supplied : RunReasoner(goal, facts)
  \/ DecideRaises
  \/ \E p \in Policies : RunDecision(p)
  \/ \E r \in Requests : RunPlanner(r)
  \/ PlannerRaises
  \/ \E safe \in BOOLEAN : DryRun(safe)

Spec == Init /\ [][Next]_vars

-----------------------------------------------------------------------------
Ops == [op : {"set", "append_text"},
        target : {"latent_source.width", "latent_source.height", "sampler.steps",
                  "sampler.cfg", "positive_prompt.text", "negative_prompt.text"},
        value : Int \cup {NaN, Text}]

(* One gate for a stage at most, and ops that the planner knows.           *)
TypeOK ==
  /\ pc \in Stages \cup {"done"}
  /\ workflow \in Workflows
  /\ policy \in PipelinePolicy
  /\ reasoning.goal \in Goal
  /\ decision.status \in {"none", "accepted", "needs_review", "needs_clarification"}
  /\ decision.ops \subseteq Ops
  /\ plan.success \in BOOLEAN
  /\ plan.ops \subseteq Ops
  /\ plan.source \in {"none", "intent", "text", "reasoner", "fallback"}
  /\ gates \subseteq [stage : Stages, passed : BOOLEAN]
  /\ \A g, h \in gates : g.stage = h.stage => g = h
  /\ answer.status \in Statuses \cup {"none"}
  /\ answer.ops \subseteq Ops
  /\ answer.apply \in BOOLEAN

Ready == answer.status = "ready"

InRange(o) ==
  CASE o.target = "sampler.steps" -> o.value \in 1..300
    [] o.target = "sampler.cfg" -> o.value \in 0..5000 \cup {NaN}
    [] o.target \in {"latent_source.width", "latent_source.height"} -> o.value \in 64..4096
    [] OTHER -> TRUE

(* The decision engine and the planner rank the strategy separately, and   *)
(* the planner is not told which op was accepted.  Still, where an accepted*)
(* decision is required, a plan made from the strategy or in place of one  *)
(* is ready only with ops that have passed every guardrail.                *)
ReasonedOpsWereAccepted ==
  Ready /\ policy.require_accepted_decision /\ plan.source \in {"reasoner", "fallback"}
    => answer.ops # {} /\ answer.ops \subseteq decision.ops

(* Where a successful plan is required, nothing outside the planner's      *)
(* limits is ready, wherever the plan came from.  NaN is a CFG the planner *)
(* lets pass.                                                              *)
ReadyValuesInRange ==
  Ready /\ policy.require_plan_success => \A o \in answer.ops : InRange(o)

(* No step with an op gets a confidence above a half, so with a            *)
(* min_confidence above that, the default one included, no decision is     *)
(* accepted: whatever the goal and the workflow are, the pipeline stops    *)
(* before planning.                                                        *)
NothingAcceptedByDefault ==
  decision.policy.min_confidence \in 51..100 => decision.status # "accepted"

(* With an accepted op, a plan made from the strategy is blocked only if   *)
(* the op's value is out of range, as with 6 steps more than 299.          *)
OnlyRangeBlocksAnAcceptedOp ==
  answer.status = "blocked" /\ plan.source = "reasoner" /\ decision.ops # {}
    => \E o \in decision.ops : ~InRange(o)

(* As long as three candidates are kept, a plan that is out of range never *)
(* hides one that is not.  Three are the default; with fewer, an unsafe    *)
(* plan of high confidence may push out the others.                        *)
UsablePlanIsTaken ==
  pc = "plan" =>
    \A r \in Requests :
      /\ r.maxCandidates >= 3
      /\ \E c \in Candidates(r, reasoning.strategy) : c.status # "unsafe"
      => PlanResult(r, reasoning.strategy).success

(* "sharper" sets more steps, and "faster" fewer, unless there are no more *)
(* than the 8 it leaves.                                                   *)
Follows(goal, o, steps) ==
  o.target = "sampler.steps" /\ steps # None /\ steps > 8 =>
    /\ goal = "sharper" => o.value > steps
    /\ goal = "faster" => o.value < steps

(* The step that is accepted moves the steps the way the goal says, seen   *)
(* from the steps that were observed.                                      *)
ObservedStepsFollowTheGoal ==
  pc = "plan" => \A o \in decision.ops :
                   Follows(reasoning.goal, o, reasoning.observations.steps)
=============================================================================
