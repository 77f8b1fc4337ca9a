-------------------------- MODULE MCAgentPipeline --------------------------
(* A workflow of many steps; semantics with few, many and too many steps,  *)
(* and with nothing the observer looks for; policies from lenient to the   *)
(* default; requests with one, two and three ways to a plan.               *)
EXTENDS AgentPipeline

Seen(steps, cfg) ==
  [steps |-> steps, cfg |-> cfg, named |-> TRUE, many |-> FALSE,
   unknown |-> FALSE, upscaler |-> FALSE, flux |-> FALSE]

MCWorkflows == {[Seen(40, 600) EXCEPT !.flux = TRUE]}

MCSupplied ==
  {Seen(40, 600), Seen(298, 1150), [Seen(None, None) EXCEPT !.named = FALSE],
   [Seen(25, None) EXCEPT !.many = TRUE, !.named = FALSE],
   [Seen(9, 800) EXCEPT !.many = TRUE, !.flux = TRUE, !.upscaler = TRUE],
   [Seen(0, 100) EXCEPT !.unknown = TRUE]}

Lenient ==
  [DefaultPolicy EXCEPT !.min_confidence = 31, !.min_score = 45]

MCPolicies ==
  {DefaultPolicy,
   Lenient,
   [Lenient EXCEPT !.require_reasoner_auto_safe = TRUE],
   [DefaultPolicy EXCEPT !.min_confidence = NaN, !.min_score = NaN, !.max_decisions = 3],
   [Lenient EXCEPT !.allow_non_executable = TRUE, !.max_risk = 30, !.max_decisions = 2]}

NoText == [width |-> None, height |-> None, steps |-> None, cfg |-> None]
Plain ==
  [intent |-> "none", width |-> None, height |-> None, steps |-> None, cfg |-> None,
   said |-> None, text |-> NoText, priority |-> "balanced", maxCandidates |-> 3, allowAppend |-> FALSE]

Intents ==
  {Plain,
   [Plain EXCEPT !.intent = "size", !.width = 512, !.height = 516],
   [Plain EXCEPT !.intent = "size", !.width = 32, !.height = 512],
   [Plain EXCEPT !.intent = "steps", !.steps = 301],
   [Plain EXCEPT !.intent = "cfg", !.cfg = NaN],
   [Plain EXCEPT !.intent = "cfg", !.cfg = -100],
   [Plain EXCEPT !.intent = "cfg", !.cfg = 0],
   [Plain EXCEPT !.intent = "negative"],
   [Plain EXCEPT !.intent = "prompt", !.said = Text]}

Texts ==
  {NoText,
   [NoText EXCEPT !.steps = 30],
   [width |-> 768, height |-> 9000, steps |-> 0, cfg |-> 450]}

MCRequests ==
  {[r EXCEPT !.text = t] : r \in Intents, t \in Texts}
  \cup {[Plain EXCEPT !.maxCandidates = n, !.intent = "steps", !.steps = 301] : n \in 1..2}
  \cup {[Plain EXCEPT !.priority = p, !.allowAppend = append] :
          p \in Priority, append \in BOOLEAN}
=============================================================================
