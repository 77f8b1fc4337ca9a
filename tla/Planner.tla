------------------------------ MODULE Planner ------------------------------
(***************************************************************************)
(* PlannerEngine.plan: up to three candidate plans, from the intent of the *)
(* request, from its text and from the reasoner's strategy, each validated,*)
(* costed and scored; the best usable one of those that are kept is taken. *)
(* The `ops` the pipeline puts into the request are not looked at.         *)
(*                                                                         *)
(* Confidence and costs are in hundredths, totals in ten-thousandths, and  *)
(* scores in twelfths of a millionth, so that averages over up to four     *)
(* actions are whole numbers.                                              *)
(***************************************************************************)
EXTENDS Decision

Priority == {"balanced", "speed", "quality", "safety"}

Action(op, target, value, confidence, source) ==
  [op |-> op, target |-> target, value |-> value,
   confidence |-> confidence, source |-> source]

(* The size, steps, cfg and text of a request are what `or` makes of the   *)
(* names each may have: a zero passes only under the last one, and is None *)
(* under any other.                                                        *)
Size(width, height, confidence, source) ==
  {Action("set", "latent_source.width", width, confidence, source),
   Action("set", "latent_source.height", height, confidence, source)}

(* actions_from_structured_request.                                        *)
IntentActions(r) ==
  CASE r.intent = "size" /\ r.width # None /\ r.height # None ->
         Size(r.width, r.height, 95, "intent")
    [] r.intent = "steps" /\ r.steps # None ->
         {Action("set", "sampler.steps", r.steps, 98, "intent")}
    [] r.intent = "cfg" /\ r.cfg # None ->
         {Action("set", "sampler.cfg", r.cfg, 92, "intent")}
    [] r.intent = "prompt" /\ r.said # None ->
         {Action("set", "positive_prompt.text", r.said, 95, "intent")}
    [] r.intent = "negative" /\ r.said # None ->
         {Action("set", "negative_prompt.text", r.said, 95, "intent")}
    [] OTHER -> {}

(* actions_from_text; t is what the expressions find in the text.          *)
TextActions(t) ==
  (IF t.width = None THEN {} ELSE Size(t.width, t.height, 82, "text"))
  \cup (IF t.steps = None THEN {} ELSE {Action("set", "sampler.steps", t.steps, 82, "text")})
  \cup (IF t.cfg = None THEN {} ELSE {Action("set", "sampler.cfg", t.cfg, 78, "text")})

(* actions_from_strategy, cut to the first two.                            *)
Valued(strategy) == {s \in strategy : s.value # None /\ s.action \notin {"ask", "consider_add"}}

StepAction(s) ==
  Action(IF s.action \in Appends THEN "append_text" ELSE "set",
         s.target, s.value, s.confidence, "reasoner")

ReasonerActions(strategy) ==
  LET valued == Valued(strategy)
      key(s) == <<s.priority>>
  IN {StepAction(s) : s \in {t \in valued : Rank(valued, key, t) <= 2}}

-----------------------------------------------------------------------------
(* validate_actions.  An action has a known operation and a target in a    *)
(* known namespace, and no two of a plan have one target.                  *)
Sized(a) == a.target \in {"latent_source.width", "latent_source.height"}

(* Faulty variant: the limit on the steps lacks a zero.                    *)
OutOfShortRange(a) ==
  \/ Sized(a) /\ a.value \notin 64..4096
  \/ a.target = "sampler.steps" /\ a.value \notin 1..30
  \/ a.target = "sampler.cfg" /\ a.value \notin 0..5000 \cup {NaN}

OutOfRange(a) ==
  \/ Sized(a) /\ a.value \notin 64..4096
  \/ a.target = "sampler.steps" /\ a.value \notin 1..300
  \/ a.target = "sampler.cfg" /\ a.value \notin 0..5000 \cup {NaN}

Doubtful(a, allowAppend) ==
  \/ Sized(a) /\ ~OutOfRange(a) /\ a.value % 8 # 0
  \/ a.op = "append_text" /\ ~allowAppend

(* TARGET_COSTS, for the targets that occur, and estimate_action_cost.     *)
Compute(a) ==
  CASE Sized(a) -> 35
    [] a.target = "sampler.steps" -> 22
    [] a.target = "sampler.cfg" -> 8
    [] OTHER -> 2

Edit(a) == (IF Sized(a) THEN 16 ELSE IF a.target = "sampler.steps" THEN 10 ELSE 8)
           + Points(a.op = "append_text", 6)

ActionRisk(a) ==
  CASE Sized(a) -> 18
    [] a.target = "sampler.steps" -> 8
    [] a.target = "sampler.cfg" -> 12
    [] OTHER -> 10 + Points(a.op = "append_text", 13)

(* The sum of f over the actions of a plan: one for each target at most.   *)
SumOver(as, f) ==
  LET at(t) == IF \E a \in as : a.target = t
               THEN f[CHOOSE a \in as : a.target = t] ELSE 0
  IN at("latent_source.width") + at("latent_source.height")
     + at("sampler.steps") + at("sampler.cfg")
     + at("positive_prompt.text") + at("negative_prompt.text")

(* combine_costs.                                                          *)
ComputeCost(as) == AtMost(SumOver(as, [a \in as |-> Compute(a)]), 100)
EditCost(as) == AtMost(SumOver(as, [a \in as |-> Edit(a)]), 100)
RiskCost(as) == Max({ActionRisk(a) : a \in as})
Confirmation(as) == IF RiskCost(as) >= 45 \/ EditCost(as) >= 65 THEN 20 ELSE 0
Total(as) ==
  Clamp(25 * ComputeCost(as) + 25 * EditCost(as) + 35 * RiskCost(as)
          + 15 * Confirmation(as), 10000)

(* _candidate_from_actions.                                                *)
PlanStatus(as, allowAppend) ==
  IF \E a \in as : OutOfRange(a) THEN "unsafe"
  ELSE IF Confirmation(as) > 0 \/ \E a \in as : Doubtful(a, allowAppend)
       THEN "needs_confirmation"
  ELSE "valid"

(* score_candidate.                                                        *)
PlanScore(as, status, priority) ==
  LET n == Cardinality(as)
      confidence == (12 \div n) * 10000 * SumOver(as, [a \in as |-> a.confidence])
      weigh(compute, edit, risk) ==
        1200 * (compute * ComputeCost(as) + edit * EditCost(as) + risk * RiskCost(as))
      bonus == 360000 * AtMost(n, 3)
      merit == CASE priority = "speed" -> bonus - weigh(45, 15, 20)
                 [] priority = "quality" -> bonus - weigh(10, 15, 25)
                 [] priority = "safety" -> -weigh(10, 25, 45)
                 [] OTHER -> bonus - weigh(0, 0, 20) - 12 * 35 * Total(as)
      penalty == CASE status = "unsafe" -> 6000000
                   [] status = "needs_confirmation" -> 960000
                   [] OTHER -> 0
  IN Clamp(confidence + merit - penalty, 12000000)

Plan(id, as, r) ==
  LET status == PlanStatus(as, r.allowAppend)
  IN [id |-> id, actions |-> as, status |-> status, risk |-> RiskCost(as),
      total |-> Total(as), score |-> PlanScore(as, status, r.priority)]

(* The ids are in the order of plan.intent.direct, plan.reasoner.low_cost, *)
(* plan.text.parsed.  plan.reasoner.quality needs three valued steps,      *)
(* which no strategy has.                                                  *)
Actions(r, strategy) ==
  <<IntentActions(r), ReasonerActions(strategy), TextActions(r.text)>>

Candidates(r, strategy) ==
  {Plan(i, Actions(r, strategy)[i], r) :
     i \in {j \in 1..3 : Actions(r, strategy)[j] # {}}}

PlanKey(c) == <<-c.score, c.risk, c.total, c.id>>

(* rank_candidates, cut to max_candidates.                                 *)
Kept(r, strategy) ==
  LET all == Candidates(r, strategy)
  IN {c \in all : Rank(all, PlanKey, c) <= r.maxCandidates}

(* Faulty variant: the best plan is taken whatever its status is.          *)
BestOf(plans) == CHOOSE c \in Leading(plans, PlanKey) : TRUE

Selected(plans) ==
  LET usable == {c \in plans : c.status # "unsafe"}
  IN CHOOSE c \in Leading(IF usable = {} THEN plans ELSE usable, PlanKey) : TRUE

(* PlanAction.to_op.                                                       *)
PlanOps(c) == {Op(a.op, a.target, a.value) : a \in c.actions}

NoPlan == [success |-> FALSE, ops |-> {}, source |-> "none"]

PlanResult(r, strategy) ==
  IF Candidates(r, strategy) = {} THEN NoPlan
  ELSE LET c == Selected(Kept(r, strategy))
       IN [success |-> c.status # "unsafe", ops |-> PlanOps(c),
           source |-> CHOOSE s \in {a.source : a \in c.actions} : TRUE]
=============================================================================
