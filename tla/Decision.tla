----------------------------- MODULE Decision -----------------------------
(***************************************************************************)
(* select_decisions: the steps of a strategy as candidates, ranked anew,   *)
(* and the guardrails that stand between a candidate and acceptance.       *)
(***************************************************************************)
EXTENDS Reasoner

CONSTANT NaN    \* float("nan"), which clamp01 lets through

(* DecisionPolicy; the thresholds are in hundredths.                       *)
Threshold == 0..100 \cup {NaN}
Policy == [min_confidence : Threshold, min_score : Threshold, max_risk : Threshold,
           max_cost : Threshold, allow_non_executable : BOOLEAN,
           require_reasoner_auto_safe : BOOLEAN, max_decisions : Nat \ {0}]

DefaultPolicy ==
  [min_confidence |-> 55, min_score |-> 62, max_risk |-> 55, max_cost |-> 70,
   allow_non_executable |-> FALSE, require_reasoner_auto_safe |-> FALSE,
   max_decisions |-> 1]

Executable(s) == \E o \in StepOps(s) : o.op = "set"

(* build_decision_candidates.  All suggested ops come from steps, so none  *)
(* of them is left over for a candidate of its own.                        *)
Kind(s) ==
  CASE Executable(s) -> "executable_op"
    [] ~Executable(s) /\ s.target # "" /\ s.value # None -> "planner_intent"
    [] s.target = "" -> "clarification"
    [] OTHER -> "advice_only"

CandidateScore(s) ==
  Clamp(58 * s.confidence + 24 * (100 - s.risk) + 12 * (100 - s.cost)
          + Points(Executable(s), 800) - 250 * AtMost(s.priority - 1, 5), 10000)

CandidateKey(s) == <<-CandidateScore(s), s.risk, s.cost, s.priority>>

(* No comparison with NaN holds, so a threshold that is NaN stops nothing. *)
Under(n, threshold) == threshold # NaN /\ n < threshold
Over(n, threshold) == threshold # NaN /\ n > threshold
ScoreUnder(s, threshold) == threshold # NaN /\ CandidateScore(s) < 100 * threshold

(* _guardrails finds nothing.                                              *)
Admitted(s, reasoning, p) ==
  /\ p.require_reasoner_auto_safe => reasoning.safe
  /\ ~Under(s.confidence, p.min_confidence)
  /\ ~ScoreUnder(s, p.min_score)
  /\ ~Over(s.risk, p.max_risk)
  /\ ~Over(s.cost, p.max_cost)
  /\ Executable(s) \/ p.allow_non_executable
  /\ Kind(s) \in {"executable_op", "planner_intent"}
  /\ ~reasoning.warned

(* _overall_status: the first candidate decides.                           *)
Status(reasoning, p) ==
  LET first == CHOOSE s \in Leading(reasoning.strategy, CandidateKey) : TRUE
  IN IF Admitted(first, reasoning, p) THEN "accepted"
     ELSE IF reasoning.goal = "unknown" \/ Kind(first) = "clarification"
          THEN "needs_clarification"
     ELSE "needs_review"

Considered(reasoning, p) ==
  {s \in reasoning.strategy :
     Rank(reasoning.strategy, CandidateKey, s) <= p.max_decisions}

SelectedOps(reasoning, p) ==
  UNION {{o \in StepOps(s) : o.op = "set"} :
           s \in {t \in Considered(reasoning, p) : Admitted(t, reasoning, p)}}

Decide(reasoning, p) ==
  [status |-> Status(reasoning, p), ops |-> SelectedOps(reasoning, p)]
=============================================================================
