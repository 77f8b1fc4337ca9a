----------------------------- MODULE Reasoner -----------------------------
(***************************************************************************)
(* WorkflowReasoner.reason: from a goal and what is observed of a workflow *)
(* to a strategy of at most three steps and the ops suggested for them.    *)
(* Confidence, cost and risk are in hundredths, scores in ten-thousandths, *)
(* CFG values in hundredths; Python computes them in floating point.       *)
(*                                                                         *)
(* Every hypothesis starts with confidence 0.5.  The knowledge layer could *)
(* raise it, but workflow_knowledge has no get_goal_advice, so evidence of *)
(* that kind never exists.                                                 *)
(***************************************************************************)
EXTENDS Ranking, FiniteSetsExt

CONSTANTS
  None,         \* Python's None: a value that is not there
  Text          \* some text for a prompt

(* The goals normalize_problem can return that have hypotheses of their    *)
(* own; "unknown" stands for an empty request, "other" for all other text. *)
Goal == {"sharper", "faster", "more_prompt_adherence", "more_natural",
         "anime_style", "photorealistic", "fix_bad_anatomy", "unknown", "other"}

(* What the observer may find in a semantic context.                       *)
Facts == [steps : Nat \cup {None}, cfg : Nat \cup {None}, named : BOOLEAN,
          many : BOOLEAN, unknown : BOOLEAN, upscaler : BOOLEAN, flux : BOOLEAN]

(* What it does find in the context the reasoner makes itself.  The        *)
(* observer looks under "counts" and "main", which WorkflowContext.to_dict *)
(* does not write: only the family of the pipeline is seen.                *)
Inspected(w) ==
  [steps |-> None, cfg |-> None, named |-> FALSE, many |-> FALSE,
   unknown |-> FALSE, upscaler |-> FALSE, flux |-> w.flux]

Given(n) == n \notin {None, 0}
Or(n, default) == IF n = None THEN default ELSE n
AtLeast(n, floor) == IF n < floor THEN floor ELSE n
AtMost(n, top) == IF n > top THEN top ELSE n

H(target, action, base, cost, risk, ord) ==
  [target |-> target, action |-> action, base |-> base, cost |-> cost,
   risk |-> risk, ord |-> ord]

(* generate_default_hypotheses; ord is the order of the ids.               *)
Hypotheses(goal, f) ==
  CASE goal = "sharper" ->
         {H("sampler.steps", "increase",
            IF Given(f.steps) /\ f.steps < 28 THEN 82 ELSE 55, 35, 18, 2),
          H("sampler.sampler_name", "prefer_quality", 58, 55, 35, 3)}
         \cup (IF f.upscaler THEN {} ELSE {H("upscaler", "consider_add", 42, 80, 55, 1)})
    [] goal = "faster" ->
         {H("sampler.steps", "decrease",
            IF Given(f.steps) /\ f.steps > 25 THEN 85 ELSE 60, 20, 25, 2),
          H("latent_source.width,height", "decrease_preview", 62, 35, 35, 1)}
    [] goal = "more_prompt_adherence" ->
         {H("sampler.cfg", "slightly_increase",
            IF Given(f.cfg) /\ f.cfg < 800 THEN 74 ELSE 50, 20, 30, 1)}
    [] goal = "more_natural" ->
         {H("sampler.cfg", "slightly_decrease",
            IF Given(f.cfg) /\ f.cfg > 700 THEN 72 ELSE 45, 20, 25, 1)}
    [] goal = "anime_style" ->
         {H("positive_prompt.text", "append_style_tokens", 65, 20, 22, 2),
          H("lora_loader", "consider_add", 45, 75, 50, 1)}
    [] goal = "photorealistic" ->
         {H("positive_prompt.text", "append_style_tokens", 62, 20, 20, 1)}
    [] goal = "fix_bad_anatomy" ->
         {H("negative_prompt.text", "append_negative_tokens", 55, 20, 25, 2),
          H("controlnet", "consider_add", 48, 85, 55, 1)}
    [] OTHER -> {H("", "ask", 30, 10, 10, 1)}

-----------------------------------------------------------------------------
(* score_hypotheses.                                                       *)
OnSampler(h) == h.target \in {"sampler.steps", "sampler.cfg", "sampler.sampler_name"}
GraphEdit(h) == h.action = "consider_add"
FluxCfg(h, f) == f.flux /\ h.target = "sampler.cfg"
Observed(h, f) ==
  \/ h.target = "sampler.steps" /\ f.steps # None
  \/ h.target = "sampler.cfg" /\ f.cfg # None
  \/ h.target = "sampler.sampler_name" /\ f.named

Points(condition, n) == IF condition THEN n ELSE 0

(* Faulty variant: the knowledge layer answers.                            *)
AdvisedConfidence(h, f, goal) ==
  58 - Points(OnSampler(h) /\ f.many, 8) - Points(FluxCfg(h, f), 10)

Confidence(h, f, goal) ==
  50 - Points(OnSampler(h) /\ f.many, 8) - Points(FluxCfg(h, f), 10)
     + Points(h.action = "ask" /\ goal = "unknown", 20)

(* Warnings are the only evidence that counts against a hypothesis.        *)
Risk(h, f) ==
  h.risk + Points(OnSampler(h) /\ f.many, 18) + Points(GraphEdit(h) /\ f.unknown, 15)
         + Points(f.many \/ f.unknown, 4)

Score(h, f, goal) ==
  Clamp(100 * (h.base + Points(Observed(h, f), 5)
                      - Points(GraphEdit(h) /\ f.unknown, 8)
                      - Points(FluxCfg(h, f), 10)
                      + Points(h.action = "ask" /\ goal = "unknown", 25))
          + 25 * Confidence(h, f, goal) - 15 * h.cost - 25 * Risk(h, f), 10000)

Place(h, f, goal) ==
  LET key(g) == <<-Score(g, f, goal), Risk(g, f), g.cost, g.ord>>
  IN Rank(Hypotheses(goal, f), key, h)

-----------------------------------------------------------------------------
(* Faulty variant: the current steps are not looked up.                    *)
AimFromDefault(h, f) ==
  CASE h.action = "increase" -> 28
    [] h.action = "decrease" -> 14
    [] h.action = "slightly_increase" -> 775
    [] h.action = "slightly_decrease" -> 625
    [] h.action \in {"append_style_tokens", "append_negative_tokens"} -> Text
    [] OTHER -> None

(* _strategy_value.  Seven tenths of the steps are rounded; a half goes    *)
(* up here, and either way in Python.                                      *)
Aim(h, f) ==
  LET steps == Or(f.steps, 20)
      cfg == Or(f.cfg, 700)
  IN CASE h.action = "increase" -> IF steps < 28 THEN AtLeast(steps + 6, 28) ELSE steps + 6
       [] h.action = "decrease" -> AtLeast((7 * steps + 5) \div 10, 8)
       [] h.action = "slightly_increase" -> AtMost(cfg + 75, 1200)
       [] h.action = "slightly_decrease" -> AtLeast(cfg - 75, 100)
       [] h.action \in {"append_style_tokens", "append_negative_tokens"} -> Text
       [] OTHER -> None

(* The levels a step's risk and cost are named by, and what the decision   *)
(* engine takes the names for.                                             *)
Level(n, high) == IF n >= 65 THEN high ELSE IF n >= 35 THEN 48 ELSE 22

(* build_strategy.  No goal has two hypotheses for one target or more than *)
(* three, so every hypothesis becomes a step.                              *)
Strategy(goal, f) ==
  {[target |-> h.target, action |-> h.action, value |-> Aim(h, f),
    priority |-> Place(h, f, goal), confidence |-> Confidence(h, f, goal),
    risk |-> Level(Risk(h, f), 75), cost |-> Level(h.cost, 78)] :
     h \in Hypotheses(goal, f)}

(* strategies_to_semantic_ops.                                             *)
Appends == {"append_style_tokens", "append_negative_tokens"}
Sets == {"increase", "decrease", "slightly_increase", "slightly_decrease"}

Op(kind, target, value) == [op |-> kind, target |-> target, value |-> value]

StepOps(s) ==
  IF s.value = None THEN {}
  ELSE IF s.action \in Sets THEN {Op("set", s.target, s.value)}
  ELSE IF s.action \in Appends THEN {Op("append_text", s.target, s.value)}
  ELSE {}

(* The two best scores are 0.7 on average.                                 *)
Sure(goal, f) ==
  LET best == {h \in Hypotheses(goal, f) : Place(h, f, goal) <= 2}
      sum == MapThenSumSet(LAMBDA h : Score(h, f, goal), best)
  IN goal # "unknown" /\ sum >= 7000 * Cardinality(best)

Warned(goal, f) ==
  f.unknown \/ \E h \in Hypotheses(goal, f) : Place(h, f, goal) = 1 /\ Risk(h, f) >= 65

(* reason.                                                                 *)
Reason(goal, f) ==
  LET strategy == Strategy(goal, f)
  IN [goal |-> goal, observations |-> f, strategy |-> strategy,
      warned |-> Warned(goal, f),
      safe |-> /\ \E s \in strategy : \E o \in StepOps(s) : o.op = "set"
               /\ Sure(goal, f) /\ ~Warned(goal, f)]
=============================================================================
