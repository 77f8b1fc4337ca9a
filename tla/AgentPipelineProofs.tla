------------------------ MODULE AgentPipelineProofs ------------------------
(* What holds of the pipeline for all workflows, policies and requests.    *)
EXTENDS AgentPipeline, FiniteSetTheorems, TLAPS

-----------------------------------------------------------------------------
(* Sorting.  Keys of four integers are compared without a cycle, so among  *)
(* at most three candidates one comes first.                               *)
IsKey(k) == k \in [1..4 -> Int]

LEMMA Keys ==
  ASSUME NEW a \in Int, NEW b \in Int, NEW c \in Int, NEW d \in Int
  PROVE  IsKey(<<a, b, c, d>>)
  BY DEF IsKey

LEMMA EarlierKeys ==
  ASSUME NEW k, NEW l, IsKey(k), IsKey(l)
  PROVE  Earlier(k, l) <=>
           \/ k[1] < l[1]
           \/ k[1] = l[1] /\ k[2] < l[2]
           \/ k[1] = l[1] /\ k[2] = l[2] /\ k[3] < l[3]
           \/ k[1] = l[1] /\ k[2] = l[2] /\ k[3] = l[3] /\ k[4] < l[4]
  <1>1. DOMAIN k = {1, 2, 3, 4}  BY DEF IsKey
  <1>2. /\ \A j : j \in 1..0 <=> FALSE
        /\ \A j : j \in 1..1 <=> j = 1
        /\ \A j : j \in 1..2 <=> j \in {1, 2}
        /\ \A j : j \in 1..3 <=> j \in {1, 2, 3}
    OBVIOUS
  <1> QED  BY <1>1, <1>2 DEF Earlier

LEMMA EarlierOrders ==
  /\ \A k : IsKey(k) => ~Earlier(k, k)
  /\ \A k, l, m : /\ IsKey(k) /\ IsKey(l) /\ IsKey(m)
                  /\ Earlier(k, l) /\ Earlier(l, m)
                  => Earlier(k, m)
  <1>1. ASSUME NEW k, IsKey(k)
        PROVE  ~Earlier(k, k)
    BY <1>1, EarlierKeys DEF IsKey
  <1>2. ASSUME NEW k, NEW l, NEW m, IsKey(k), IsKey(l), IsKey(m),
               Earlier(k, l), Earlier(l, m)
        PROVE  Earlier(k, m)
    <2>1. \A i \in {1, 2, 3, 4} : k[i] \in Int /\ l[i] \in Int /\ m[i] \in Int
      BY <1>2 DEF IsKey
    <2>2. \/ k[1] < l[1]
          \/ k[1] = l[1] /\ k[2] < l[2]
          \/ k[1] = l[1] /\ k[2] = l[2] /\ k[3] < l[3]
          \/ k[1] = l[1] /\ k[2] = l[2] /\ k[3] = l[3] /\ k[4] < l[4]
      BY <1>2, EarlierKeys
    <2>3. \/ l[1] < m[1]
          \/ l[1] = m[1] /\ l[2] < m[2]
          \/ l[1] = m[1] /\ l[2] = m[2] /\ l[3] < m[3]
          \/ l[1] = m[1] /\ l[2] = m[2] /\ l[3] = m[3] /\ l[4] < m[4]
      BY <1>2, EarlierKeys
    <2>4. \/ k[1] < m[1]
          \/ k[1] = m[1] /\ k[2] < m[2]
          \/ k[1] = m[1] /\ k[2] = m[2] /\ k[3] < m[3]
          \/ k[1] = m[1] /\ k[2] = m[2] /\ k[3] = m[3] /\ k[4] < m[4]
      BY <2>1, <2>2, <2>3
    <2> QED  BY <1>2, <2>4, EarlierKeys
  <1> QED  BY <1>1, <1>2

(* key is a function here; a ranking gives it by its operator.             *)
LEMMA LeaderExists ==
  ASSUME NEW x, NEW y, NEW z, NEW S \in SUBSET {x, y, z}, S # {},
         NEW key, \A s \in S : IsKey(key[s])
  PROVE  \E s \in S : \A t \in S : ~Earlier(key[t], key[s])
  <1>1. /\ \A s \in S : ~Earlier(key[s], key[s])
        /\ \A s, t, u \in S : Earlier(key[s], key[t]) /\ Earlier(key[t], key[u])
                                => Earlier(key[s], key[u])
    BY EarlierOrders
  <1> QED  BY <1>1

LEMMA SmallSets ==
  ASSUME NEW x, NEW y, NEW z, NEW S \in SUBSET {x, y, z}
  PROVE  IsFiniteSet(S) /\ Cardinality(S) \in Nat /\ Cardinality(S) <= 3
  <1>1. IsFiniteSet({x}) /\ Cardinality({x}) = 1  BY FS_Singleton
  <1>2. IsFiniteSet({x} \cup {y}) /\ Cardinality({x} \cup {y}) \in 1..2
    BY <1>1, FS_AddElement
  <1>3. IsFiniteSet(({x} \cup {y}) \cup {z}) /\ Cardinality(({x} \cup {y}) \cup {z}) \in 1..3
    BY <1>2, FS_AddElement
  <1>4. {x, y, z} = ({x} \cup {y}) \cup {z}  OBVIOUS
  <1>5. IsFiniteSet({x, y, z}) /\ Cardinality({x, y, z}) \in 1..3  BY <1>3, <1>4
  <1>6. IsFiniteSet(S) /\ Cardinality(S) <= Cardinality({x, y, z})
    BY <1>5, FS_Subset
  <1>7. Cardinality(S) \in Nat  BY <1>6, FS_CardinalityType
  <1> QED  BY <1>5, <1>6, <1>7

-----------------------------------------------------------------------------
(* The reasoner.  The hypotheses of a goal, and what is asked of each.     *)
Counts == {"sampler.steps", "sampler.cfg"}
Prompts == {"positive_prompt.text", "negative_prompt.text"}

WellAimed(h) ==
  /\ h.base \in Nat /\ h.cost \in Nat /\ h.risk \in Nat /\ h.ord \in Nat
  /\ h.action = "ask" => h.target = ""
  /\ h.action \in Sets => h.target \in Counts
  /\ h.action \in {"increase", "decrease"} => h.target = "sampler.steps"
  /\ h.action \in Appends => h.target \in Prompts
  /\ h.target = "sampler.steps" => h.action \in {"increase", "decrease"}

Speaks(h) == h.action \in Sets \cup Appends

Moves(goal, h) ==
  /\ goal = "sharper" /\ h.target = "sampler.steps" => h.action = "increase"
  /\ goal = "faster" /\ h.target = "sampler.steps" => h.action = "decrease"

Offered(goal, f, x, y, z) ==
  /\ Hypotheses(goal, f) = {x, y, z}
  /\ \A h \in {x, y, z} : WellAimed(h) /\ Moves(goal, h)
  /\ \A g, h \in {x, y, z} : Speaks(g) /\ Speaks(h) => g = h

LEMMA HypothesesShape ==
  ASSUME NEW goal, NEW f \in Facts
  PROVE  \E x, y, z : Offered(goal, f, x, y, z)
  <1> DEFINE faster == IF Given(f.steps) /\ f.steps > 25 THEN 85 ELSE 60
             sharper == IF Given(f.steps) /\ f.steps < 28 THEN 82 ELSE 55
  <1>5. faster \in Nat  OBVIOUS
  <1>6. sharper \in Nat  OBVIOUS
  <1> HIDE DEF faster, sharper
  <1>1. CASE goal = "sharper"
    <2>1. PICK x, y, z :
            /\ x = H("sampler.steps", "increase", sharper, 35, 18, 2)
            /\ y = H("sampler.sampler_name", "prefer_quality", 58, 55, 35, 3)
            /\ z = H("upscaler", "consider_add", 42, 80, 55, 1)
      OBVIOUS
    <2>2. Hypotheses(goal, f) = {x, y} \cup (IF f.upscaler THEN {} ELSE {z})
      BY <1>1, <2>1 DEF Hypotheses, sharper
    <2>7. /\ x.target = "sampler.steps" /\ x.action = "increase"
          /\ y.target = "sampler.sampler_name" /\ y.action = "prefer_quality"
          /\ z.target = "upscaler" /\ z.action = "consider_add"
          /\ \A h \in {x, y, z} : h.base \in Nat /\ h.cost \in Nat /\ h.risk \in Nat
                                                 /\ h.ord \in Nat
      BY <1>6, <2>1 DEF H
    <2>3. \A h \in {x, y, z} : WellAimed(h) /\ Moves(goal, h)
      BY <1>1, <2>7 DEF WellAimed, Moves, Sets, Appends, Counts, Prompts
    <2>4. ~Speaks(y) /\ ~Speaks(z)  BY <2>1 DEF H, Speaks, Sets, Appends
    <2>5. CASE f.upscaler
      <3>1. Offered(goal, f, x, y, y)  BY <2>2, <2>3, <2>4, <2>5 DEF Offered
      <3> QED  BY <3>1
    <2>6. CASE ~f.upscaler
      <3>1. Offered(goal, f, x, y, z)  BY <2>2, <2>3, <2>4, <2>6 DEF Offered
      <3> QED  BY <3>1
    <2> QED  BY <2>5, <2>6
  <1>2. CASE goal = "faster"
    <2>1. PICK x, y :
            /\ x = H("sampler.steps", "decrease", faster, 20, 25, 2)
            /\ y = H("latent_source.width,height", "decrease_preview", 62, 35, 35, 1)
      OBVIOUS
    <2>2. Hypotheses(goal, f) = {x, y}  BY <1>2, <2>1 DEF Hypotheses, faster
    <2>8. x.target = "sampler.steps" /\ x.action = "decrease"  BY <2>1 DEF H
    <2>9. y.target = "latent_source.width,height" /\ y.action = "decrease_preview"
      BY <2>1 DEF H
    <2>7. x.base \in Nat /\ x.cost \in Nat /\ x.risk \in Nat /\ x.ord \in Nat
      BY <1>5, <2>1 DEF H
    <2>10. y.base \in Nat /\ y.cost \in Nat /\ y.risk \in Nat /\ y.ord \in Nat
      BY <2>1 DEF H
    <2>4. \A h \in {x, y} : WellAimed(h) /\ Moves(goal, h)
      BY <1>2, <2>7, <2>8, <2>9, <2>10 DEF WellAimed, Moves, Sets, Appends, Counts, Prompts
    <2>6. ~Speaks(y)  BY <2>9 DEF Speaks, Sets, Appends
    <2>5. Offered(goal, f, x, y, y)  BY <2>2, <2>4, <2>6 DEF Offered
    <2> QED  BY <2>5
  <1>3. CASE goal \in {"anime_style", "fix_bad_anatomy"}
    <2>1. PICK x, y : /\ Hypotheses(goal, f) = {x, y}
                      /\ x \in {H("positive_prompt.text", "append_style_tokens", 65, 20, 22, 2),
                                H("negative_prompt.text", "append_negative_tokens", 55, 20, 25, 2)}
                      /\ y \in {H("lora_loader", "consider_add", 45, 75, 50, 1),
                                H("controlnet", "consider_add", 48, 85, 55, 1)}
      BY <1>3 DEF Hypotheses
    <2>2. /\ x.target \in Prompts /\ x.action \in Appends
          /\ y.target \in {"lora_loader", "controlnet"} /\ y.action = "consider_add"
          /\ \A h \in {x, y} : h.base \in Nat /\ h.cost \in Nat /\ h.risk \in Nat
                                              /\ h.ord \in Nat
      BY <2>1 DEF H, Prompts, Appends
    <2>3. \A h \in {x, y} : WellAimed(h) /\ Moves(goal, h)
      BY <1>3, <2>2 DEF WellAimed, Moves, Sets, Appends, Counts, Prompts
    <2>5. ~Speaks(y)  BY <2>2 DEF Speaks, Sets, Appends
    <2>4. Offered(goal, f, x, y, y)  BY <2>1, <2>3, <2>5 DEF Offered
    <2> QED  BY <2>4
  <1>4. CASE goal \notin {"sharper", "faster", "anime_style", "fix_bad_anatomy"}
    <2> DEFINE more == IF Given(f.cfg) /\ f.cfg < 800 THEN 74 ELSE 50
               less == IF Given(f.cfg) /\ f.cfg > 700 THEN 72 ELSE 45
    <2>1. more \in Nat /\ less \in Nat  OBVIOUS
    <2>6. \/ Hypotheses(goal, f) = {H("sampler.cfg", "slightly_increase", more, 20, 30, 1)}
          \/ Hypotheses(goal, f) = {H("sampler.cfg", "slightly_decrease", less, 20, 25, 1)}
          \/ Hypotheses(goal, f) =
               {H("positive_prompt.text", "append_style_tokens", 62, 20, 20, 1)}
          \/ Hypotheses(goal, f) = {H("", "ask", 30, 10, 10, 1)}
      <3>1. CASE goal = "more_prompt_adherence"  BY <3>1 DEF Hypotheses
      <3>2. CASE goal = "more_natural"  BY <3>2 DEF Hypotheses
      <3>3. CASE goal = "photorealistic"  BY <3>3 DEF Hypotheses
      <3>4. CASE goal \notin {"more_prompt_adherence", "more_natural", "photorealistic"}
        BY <1>4, <3>4 DEF Hypotheses
      <3> QED  BY <3>1, <3>2, <3>3, <3>4
    <2> HIDE DEF more, less
    <2>2. PICK x : /\ Hypotheses(goal, f) = {x}
                   /\ \/ x = H("sampler.cfg", "slightly_increase", more, 20, 30, 1)
                      \/ x = H("sampler.cfg", "slightly_decrease", less, 20, 25, 1)
                      \/ x = H("positive_prompt.text", "append_style_tokens", 62, 20, 20, 1)
                      \/ x = H("", "ask", 30, 10, 10, 1)
      BY <2>6
    <2> DEFINE Fits == /\ \/ x.action \in {"slightly_increase", "slightly_decrease"}
                             /\ x.target = "sampler.cfg"
                          \/ x.action = "append_style_tokens"
                             /\ x.target = "positive_prompt.text"
                          \/ x.action = "ask" /\ x.target = ""
                       /\ x.base \in Nat /\ x.cost \in Nat /\ x.risk \in Nat
                       /\ x.ord \in Nat
    <2>3. Fits
      <3>1. CASE x = H("sampler.cfg", "slightly_increase", more, 20, 30, 1)
        BY <2>1, <3>1 DEF H
      <3>2. CASE x = H("sampler.cfg", "slightly_decrease", less, 20, 25, 1)
        BY <2>1, <3>2 DEF H
      <3>3. CASE x = H("positive_prompt.text", "append_style_tokens", 62, 20, 20, 1)
        BY <3>3 DEF H
      <3>4. CASE x = H("", "ask", 30, 10, 10, 1)  BY <3>4 DEF H
      <3> QED  BY <2>2, <3>1, <3>2, <3>3, <3>4
    <2>4. WellAimed(x) /\ Moves(goal, x)
      BY <1>4, <2>3 DEF WellAimed, Moves, Sets, Appends, Counts, Prompts
    <2>5. Offered(goal, f, x, x, x)  BY <2>2, <2>4 DEF Offered
    <2> QED  BY <2>5
  <1> QED  BY <1>1, <1>2, <1>3, <1>4

-----------------------------------------------------------------------------
(* The steps of a strategy.                                                *)
GoodStep(s, goal, steps) ==
  /\ s.priority \in Int /\ s.confidence \in Int /\ s.risk \in Int /\ s.cost \in Int
  /\ s.action = "ask" => s.target = ""
  /\ s.action # "ask" => s.confidence <= 50
  /\ s.value # None => Speaks(s)
  /\ s.action \in Sets => s.target \in Counts /\ s.value \in Int
  /\ s.action \in Appends => s.target \in Prompts /\ s.value = Text
  /\ s.action \in Sets => Follows(goal, Op("set", s.target, s.value), steps)

GoodStrategy(strategy, goal, steps) ==
  /\ \E x, y, z : strategy = {x, y, z}
  /\ \A s \in strategy : GoodStep(s, goal, steps)
  /\ \A s, t \in strategy : Speaks(s) /\ Speaks(t) => s = t

LEMMA ConfidenceIsAtMostHalf ==
  ASSUME NEW h, NEW f, NEW goal
  PROVE  /\ Confidence(h, f, goal) \in Int
         /\ h.action # "ask" => Confidence(h, f, goal) <= 50
  BY DEF Confidence, Points

LEMMA PlaceIsANumber ==
  ASSUME NEW goal, NEW f \in Facts, NEW h
  PROVE  Place(h, f, goal) \in Int
  <1> DEFINE key(g) == <<-Score(g, f, goal), Risk(g, f), g.cost, g.ord>>
             before == {g \in Hypotheses(goal, f) : Earlier(key(g), key(h))}
  <1>5. PICK x, y, z : Offered(goal, f, x, y, z)  BY HypothesesShape
  <1>1. Hypotheses(goal, f) = {x, y, z}  BY <1>5 DEF Offered
  <1>2. before \in SUBSET {x, y, z}  BY <1>1
  <1>3. Cardinality(before) \in Nat  BY <1>2, SmallSets
  <1>4. Place(h, f, goal) = Cardinality(before) + 1  BY DEF Place, Rank
  <1> QED  BY <1>3, <1>4

LEMMA AimFollows ==
  ASSUME NEW goal, NEW f \in Facts, NEW h, WellAimed(h), Moves(goal, h)
  PROVE  /\ h.action \in Sets => Aim(h, f) \in Int
         /\ h.action \in Appends => Aim(h, f) = Text
         /\ ~Speaks(h) => Aim(h, f) = None
         /\ h.action \in Sets => Follows(goal, Op("set", h.target, Aim(h, f)), f.steps)
  <1> DEFINE steps == Or(f.steps, 20)
             cfg == Or(f.cfg, 700)
  <1>1. steps \in Nat /\ cfg \in Nat /\ (f.steps # None => steps = f.steps)
    BY DEF Or, Facts
  <1>2. CASE h.action \in Appends
    BY <1>2 DEF Aim, Appends, Sets, Speaks
  <1>3. CASE ~Speaks(h)
    BY <1>3 DEF Aim, Appends, Sets, Speaks
  <1>4. CASE h.action = "increase"
    <2>1. Aim(h, f) = IF steps < 28 THEN AtLeast(steps + 6, 28) ELSE steps + 6
      BY <1>4 DEF Aim
    <2>2. Aim(h, f) \in Int /\ Aim(h, f) > steps  BY <1>1, <2>1 DEF AtLeast
    <2>3. goal # "faster"  BY <1>4 DEF WellAimed, Moves
    <2>4. Follows(goal, Op("set", h.target, Aim(h, f)), f.steps)
      BY <1>1, <2>2, <2>3 DEF Follows, Op
    <2> QED  BY <1>4, <2>2, <2>4 DEF Sets, Appends, Speaks
  <1>5. CASE h.action = "decrease"
    <2>1. Aim(h, f) = AtLeast((7 * steps + 5) \div 10, 8)
      BY <1>5 DEF Aim
    <2>2. Aim(h, f) \in Int /\ (steps > 8 => Aim(h, f) < steps)
      BY <1>1, <2>1 DEF AtLeast
    <2>3. goal # "sharper"  BY <1>5 DEF WellAimed, Moves
    <2>4. Follows(goal, Op("set", h.target, Aim(h, f)), f.steps)
      BY <1>1, <2>2, <2>3 DEF Follows, Op
    <2> QED  BY <1>5, <2>2, <2>4 DEF Sets, Appends, Speaks
  <1>6. CASE h.action \in {"slightly_increase", "slightly_decrease"}
    <2>1. Aim(h, f) \in Int  BY <1>1, <1>6 DEF Aim, AtLeast, AtMost
    <2>2. h.target # "sampler.steps"  BY <1>6 DEF WellAimed
    <2>3. Follows(goal, Op("set", h.target, Aim(h, f)), f.steps)
      BY <2>2 DEF Follows, Op
    <2> QED  BY <1>6, <2>1, <2>3 DEF Sets, Appends, Speaks
  <1> QED  BY <1>2, <1>3, <1>4, <1>5, <1>6 DEF Speaks, Sets

LEMMA StrategyIsGood ==
  ASSUME NEW goal, NEW f \in Facts
  PROVE  GoodStrategy(Strategy(goal, f), goal, f.steps)
  <1> DEFINE step(h) ==
        [target |-> h.target, action |-> h.action, value |-> Aim(h, f),
         priority |-> Place(h, f, goal), confidence |-> Confidence(h, f, goal),
         risk |-> Level(Risk(h, f), 75), cost |-> Level(h.cost, 78)]
  <1>1. PICK x, y, z : Offered(goal, f, x, y, z)  BY HypothesesShape
  <1>2. Strategy(goal, f) = {step(x), step(y), step(z)}
    BY <1>1 DEF Strategy, Offered
  <1>3. ASSUME NEW h \in {x, y, z}
        PROVE  GoodStep(step(h), goal, f.steps) /\ (Speaks(step(h)) => Speaks(h))
    <2>1. WellAimed(h) /\ Moves(goal, h)  BY <1>1 DEF Offered
    <2>2. /\ h.action \in Sets => Aim(h, f) \in Int
          /\ h.action \in Appends => Aim(h, f) = Text
          /\ ~Speaks(h) => Aim(h, f) = None
          /\ h.action \in Sets => Follows(goal, Op("set", h.target, Aim(h, f)), f.steps)
      BY <2>1, AimFollows
    <2>3. /\ Confidence(h, f, goal) \in Int
          /\ h.action # "ask" => Confidence(h, f, goal) <= 50
      BY ConfidenceIsAtMostHalf
    <2>4. Place(h, f, goal) \in Int  BY PlaceIsANumber
    <2>5. Level(Risk(h, f), 75) \in Int /\ Level(h.cost, 78) \in Int  BY DEF Level
    <2>6. /\ step(h).target = h.target /\ step(h).action = h.action
          /\ step(h).value = Aim(h, f) /\ step(h).priority = Place(h, f, goal)
          /\ step(h).confidence = Confidence(h, f, goal)
          /\ step(h).risk = Level(Risk(h, f), 75) /\ step(h).cost = Level(h.cost, 78)
      OBVIOUS
    <2> HIDE DEF step
    <2>7. Speaks(step(h)) <=> Speaks(h)  BY <2>6 DEF Speaks
    <2> QED  BY <2>1, <2>2, <2>3, <2>4, <2>5, <2>6, <2>7 DEF GoodStep, WellAimed
  <1> HIDE DEF step
  <1>4. \A g, h \in {x, y, z} : Speaks(g) /\ Speaks(h) => g = h  BY <1>1 DEF Offered
  <1>5. \A s, t \in Strategy(goal, f) : Speaks(s) /\ Speaks(t) => s = t
    BY <1>2, <1>3, <1>4
  <1>6. \A s \in Strategy(goal, f) : GoodStep(s, goal, f.steps)  BY <1>2, <1>3
  <1> QED  BY <1>2, <1>5, <1>6 DEF GoodStrategy
-----------------------------------------------------------------------------
(* The decision engine.                                                    *)
LEMMA CandidateKeys ==
  ASSUME NEW s, NEW goal, NEW steps, GoodStep(s, goal, steps)
  PROVE  IsKey(CandidateKey(s))
  <1>1. s.confidence \in Int /\ s.risk \in Int /\ s.cost \in Int /\ s.priority \in Int
    BY DEF GoodStep
  <1>2. Points(Executable(s), 800) \in Int /\ AtMost(s.priority - 1, 5) \in Int
    BY <1>1 DEF Points, AtMost
  <1>3. CandidateScore(s) \in Int  BY <1>1, <1>2 DEF CandidateScore, Clamp
  <1> QED  BY <1>1, <1>3, Keys DEF CandidateKey

LEMMA AdmittedSpeaks ==
  ASSUME NEW s, NEW goal, NEW steps, GoodStep(s, goal, steps),
         NEW rea, NEW p, Admitted(s, rea, p)
  PROVE  Speaks(s)
  <1>1. Kind(s) \in {"executable_op", "planner_intent"}  BY DEF Admitted
  <1>2. CASE Executable(s)  BY <1>2 DEF Executable, StepOps, GoodStep
  <1>3. CASE ~Executable(s)
    <2>1. s.value # None  BY <1>1, <1>3 DEF Kind
    <2> QED  BY <2>1 DEF GoodStep
  <1> QED  BY <1>2, <1>3

(* What is accepted has passed the guardrails and is among what is        *)
(* considered.                                                             *)
LEMMA AcceptedIsAdmitted ==
  ASSUME NEW rea, NEW goal, NEW steps, GoodStrategy(rea.strategy, goal, steps),
         NEW p \in Policy, Status(rea, p) = "accepted"
  PROVE  \E s \in Considered(rea, p) : s \in rea.strategy /\ Admitted(s, rea, p)
  <1> DEFINE S == rea.strategy
             key == [s \in S |-> CandidateKey(s)]
             L == Leading(S, CandidateKey)
             first == CHOOSE s \in L : TRUE
  <1>1. PICK x, y, z : S = {x, y, z}  BY DEF GoodStrategy
  <1>2. \A s \in S : IsKey(CandidateKey(s))  BY CandidateKeys DEF GoodStrategy
  <1>3. \A s \in S : key[s] = CandidateKey(s)  OBVIOUS
  <1> HIDE DEF key
  <1>4. \A s \in S : IsKey(key[s])  BY <1>2, <1>3
  <1>14. S \in SUBSET {x, y, z} /\ S # {}  BY <1>1
  <1>5. \E s \in S : \A t \in S : ~Earlier(key[t], key[s])
    BY <1>4, <1>14, LeaderExists
  <1>6. L # {}  BY <1>3, <1>5 DEF Leading
  <1>7. first \in L  BY <1>6
  <1>8. first \in S /\ \A t \in S : ~Earlier(CandidateKey(t), CandidateKey(first))
    BY <1>7 DEF Leading
  <1>9. Admitted(first, rea, p)  BY DEF Status
  <1> HIDE DEF first, L
  <1>10. {t \in S : Earlier(CandidateKey(t), CandidateKey(first))} = {}  BY <1>8
  <1>11. Rank(S, CandidateKey, first) = 1  BY <1>10, FS_EmptySet DEF Rank
  <1>12. p.max_decisions >= 1  BY DEF Policy
  <1>13. first \in Considered(rea, p)  BY <1>8, <1>11, <1>12 DEF Considered
  <1> QED  BY <1>8, <1>9, <1>13

LEMMA SelectedOpsComeFromSteps ==
  ASSUME NEW rea, NEW goal, NEW steps, GoodStrategy(rea.strategy, goal, steps),
         NEW p, NEW o \in SelectedOps(rea, p)
  PROVE  \E s \in rea.strategy : /\ s.action \in Sets
                                 /\ o = Op("set", s.target, s.value)
                                 /\ GoodStep(s, goal, steps)
  <1>1. PICK s \in rea.strategy : o \in StepOps(s) /\ o.op = "set"
    BY DEF SelectedOps, Considered
  <1>2. GoodStep(s, goal, steps)  BY DEF GoodStrategy
  <1>3. Op("append_text", s.target, s.value).op = "append_text"  BY DEF Op
  <1>4. s.action \in Sets /\ o = Op("set", s.target, s.value)
    BY <1>1, <1>3 DEF StepOps
  <1> QED  BY <1>2, <1>4

LEMMA AcceptedStepIsSelected ==
  ASSUME NEW rea, NEW goal, NEW steps, GoodStrategy(rea.strategy, goal, steps),
         NEW p \in Policy, Status(rea, p) = "accepted",
         NEW s \in rea.strategy, s.action \in Sets
  PROVE  Op("set", s.target, s.value) \in SelectedOps(rea, p)
  <1>1. PICK t \in Considered(rea, p) : t \in rea.strategy /\ Admitted(t, rea, p)
    BY AcceptedIsAdmitted
  <1>2. Speaks(t)  BY <1>1, AdmittedSpeaks DEF GoodStrategy
  <1>3. Speaks(s)  BY DEF Speaks
  <1>4. s = t  BY <1>1, <1>2, <1>3 DEF GoodStrategy
  <1>5. s.value \in Int  BY DEF GoodStrategy, GoodStep
  <1>6. s.value # None  BY <1>5, MarkAssumption
  <1>7. Op("set", s.target, s.value) \in StepOps(s)  BY <1>6 DEF StepOps
  <1>8. Op("set", s.target, s.value).op = "set"  BY DEF Op
  <1> QED  BY <1>1, <1>4, <1>7, <1>8 DEF SelectedOps

LEMMA AcceptedNeedsHalf ==
  ASSUME NEW rea, NEW goal, NEW steps, GoodStrategy(rea.strategy, goal, steps),
         NEW p \in Policy, Status(rea, p) = "accepted"
  PROVE  p.min_confidence \notin 51..100
  <1>1. PICK t \in rea.strategy : Admitted(t, rea, p)  BY AcceptedIsAdmitted
  <1>2. GoodStep(t, goal, steps)  BY DEF GoodStrategy
  <1>3. Speaks(t)  BY <1>1, <1>2, AdmittedSpeaks
  <1>4. t.action # "ask"  BY <1>3 DEF Speaks, Sets, Appends
  <1>5. t.confidence \in Int /\ t.confidence <= 50  BY <1>2, <1>4 DEF GoodStep
  <1>6. ~Under(t.confidence, p.min_confidence)  BY <1>1 DEF Admitted
  <1> QED  BY <1>5, <1>6, MarkAssumption DEF Under
-----------------------------------------------------------------------------
(* The planner.                                                            *)
Sources == {"intent", "reasoner", "text"}

IsAction(a) ==
  /\ Op(a.op, a.target, a.value) \in Ops
  /\ a.confidence \in Int
  /\ a.source \in Sources

LEMMA IntentActionsAreActions ==
  ASSUME NEW r \in PlanRequest, NEW a \in IntentActions(r)
  PROVE  IsAction(a) /\ a.source = "intent"
  <1>1. /\ r.width \in Nat \cup {None} /\ r.height \in Nat \cup {None}
        /\ r.steps \in Int \cup {None} /\ r.cfg \in Int \cup {None, NaN}
        /\ r.said \in {None, Text}
    BY DEF PlanRequest
  <1>2. CASE r.intent = "size"
    <2>1. /\ r.width # None /\ r.height # None
          /\ a \in Size(r.width, r.height, 95, "intent")
      BY <1>2 DEF IntentActions
    <2>2. r.width \in Int /\ r.height \in Int  BY <1>1, <2>1
    <2>3. CASE a = Action("set", "latent_source.width", r.width, 95, "intent")
      BY <2>2, <2>3 DEF Action, IsAction, Op, Ops, Sources
    <2>4. CASE a = Action("set", "latent_source.height", r.height, 95, "intent")
      BY <2>2, <2>4 DEF Action, IsAction, Op, Ops, Sources
    <2> QED  BY <2>1, <2>3, <2>4 DEF Size
  <1>3. CASE r.intent = "steps"
    <2>1. r.steps # None /\ a = Action("set", "sampler.steps", r.steps, 98, "intent")
      BY <1>3 DEF IntentActions
    <2>2. r.steps \in Int  BY <1>1, <2>1
    <2> QED  BY <2>1, <2>2 DEF Action, IsAction, Op, Ops, Sources
  <1>4. CASE r.intent = "cfg"
    <2>1. r.cfg # None /\ a = Action("set", "sampler.cfg", r.cfg, 92, "intent")
      BY <1>4 DEF IntentActions
    <2>2. r.cfg \in Int \cup {NaN}  BY <1>1, <2>1
    <2> QED  BY <2>1, <2>2 DEF Action, IsAction, Op, Ops, Sources
  <1>5. CASE r.intent = "prompt"
    <2>1. a = Action("set", "positive_prompt.text", Text, 95, "intent")
      BY <1>1, <1>5 DEF IntentActions
    <2> QED  BY <2>1 DEF Action, IsAction, Op, Ops, Sources
  <1>6. CASE r.intent = "negative"
    <2>1. a = Action("set", "negative_prompt.text", Text, 95, "intent")
      BY <1>1, <1>6 DEF IntentActions
    <2> QED  BY <2>1 DEF Action, IsAction, Op, Ops, Sources
  <1>7. CASE r.intent \notin {"size", "steps", "cfg", "prompt", "negative"}
    BY <1>7 DEF IntentActions
  <1> QED  BY <1>2, <1>3, <1>4, <1>5, <1>6, <1>7

LEMMA TextActionsAreActions ==
  ASSUME NEW t \in Found, NEW a \in TextActions(t)
  PROVE  IsAction(a) /\ a.source = "text"
  <1>1. /\ t.width \in Nat \cup {None} /\ t.height \in Nat \cup {None}
        /\ t.steps \in Nat \cup {None} /\ t.cfg \in Nat \cup {None}
        /\ t.width # None => t.height # None
    BY DEF Found
  <1>2. \/ t.width # None /\ a = Action("set", "latent_source.width", t.width, 82, "text")
        \/ t.width # None /\ a = Action("set", "latent_source.height", t.height, 82, "text")
        \/ t.steps # None /\ a = Action("set", "sampler.steps", t.steps, 82, "text")
        \/ t.cfg # None /\ a = Action("set", "sampler.cfg", t.cfg, 78, "text")
    BY DEF TextActions, Size
  <1>3. CASE t.width # None /\ a = Action("set", "latent_source.width", t.width, 82, "text")
    BY <1>1, <1>3 DEF Action, IsAction, Op, Ops, Sources
  <1>4. CASE t.width # None /\ a = Action("set", "latent_source.height", t.height, 82, "text")
    BY <1>1, <1>4 DEF Action, IsAction, Op, Ops, Sources
  <1>5. CASE t.steps # None /\ a = Action("set", "sampler.steps", t.steps, 82, "text")
    BY <1>1, <1>5 DEF Action, IsAction, Op, Ops, Sources
  <1>6. CASE t.cfg # None /\ a = Action("set", "sampler.cfg", t.cfg, 78, "text")
    BY <1>1, <1>6 DEF Action, IsAction, Op, Ops, Sources
  <1> QED  BY <1>2, <1>3, <1>4, <1>5, <1>6

(* Of a strategy at most one step becomes an action.                       *)
LEMMA ReasonerActionsAreActions ==
  ASSUME NEW strategy, NEW goal, NEW steps, GoodStrategy(strategy, goal, steps),
         NEW a \in ReasonerActions(strategy)
  PROVE  \E s \in strategy : /\ Speaks(s) /\ a = StepAction(s)
                             /\ ReasonerActions(strategy) = {a}
                             /\ IsAction(a) /\ a.source = "reasoner"
  <1>1. PICK s \in Valued(strategy) : a = StepAction(s)  BY DEF ReasonerActions
  <1>2. \A t \in Valued(strategy) : t \in strategy /\ Speaks(t)
    BY DEF Valued, GoodStrategy, GoodStep
  <1>3. s \in strategy /\ Speaks(s) /\ GoodStep(s, goal, steps)
    BY <1>1, <1>2 DEF GoodStrategy
  <1>4. \A b \in ReasonerActions(strategy) : \E t \in Valued(strategy) : b = StepAction(t)
    BY DEF ReasonerActions
  <1>5. \A t \in Valued(strategy) : t = s  BY <1>2, <1>3 DEF GoodStrategy
  <1>6. ReasonerActions(strategy) = {a}  BY <1>1, <1>4, <1>5
  <1>7. a.source = "reasoner" /\ a.target = s.target /\ a.value = s.value
        /\ a.confidence = s.confidence
        /\ a.op = IF s.action \in Appends THEN "append_text" ELSE "set"
    BY <1>1 DEF StepAction, Action
  <1>8. a.confidence \in Int /\ a.source \in Sources
    BY <1>3, <1>7 DEF GoodStep, Sources
  <1>9. Op(a.op, a.target, a.value) \in Ops
    BY <1>3, <1>7 DEF GoodStep, Speaks, Counts, Prompts, Op, Ops
  <1> QED  BY <1>3, <1>1, <1>6, <1>7, <1>8, <1>9 DEF IsAction

LEMMA PlannedActions ==
  ASSUME NEW r \in PlanRequest, NEW strategy, NEW goal, NEW steps,
         GoodStrategy(strategy, goal, steps),
         NEW i \in 1..3, NEW a \in Actions(r, strategy)[i]
  PROVE  /\ IsAction(a)
         /\ a.source = <<"intent", "reasoner", "text">>[i]
  <1>1. CASE i = 1
    <2>1. a \in IntentActions(r)  BY <1>1 DEF Actions
    <2> QED  BY <1>1, <2>1, IntentActionsAreActions
  <1>2. CASE i = 2
    <2>1. a \in ReasonerActions(strategy)  BY <1>2 DEF Actions
    <2> QED  BY <1>2, <2>1, ReasonerActionsAreActions
  <1>3. CASE i = 3
    <2>1. a \in TextActions(r.text)  BY <1>3 DEF Actions
    <2>2. r.text \in Found  BY DEF PlanRequest
    <2> QED  BY <1>3, <2>1, <2>2, TextActionsAreActions
  <1> QED  BY <1>1, <1>2, <1>3

LEMMA PlannedActionsAreFinite ==
  ASSUME NEW r \in PlanRequest, NEW strategy, NEW goal, NEW steps,
         GoodStrategy(strategy, goal, steps), NEW i \in 1..3
  PROVE  IsFiniteSet(Actions(r, strategy)[i])
  <1>1. \A x : IsFiniteSet({x})  BY FS_Singleton
  <1>4. ASSUME NEW x, NEW y
        PROVE  IsFiniteSet({x, y})
    <2>1. {x, y} \in SUBSET {x, y, y}  OBVIOUS
    <2> QED  BY <2>1, SmallSets
  <1>5. IsFiniteSet({})  BY FS_EmptySet
  <1>6. CASE i = 1
    <2>1. \/ IntentActions(r) = {}
          \/ \E x, y : IntentActions(r) = {x, y}
          \/ \E x : IntentActions(r) = {x}
      BY DEF IntentActions, Size
    <2>2. IsFiniteSet(IntentActions(r))  BY <1>1, <1>4, <1>5, <2>1
    <2> QED  BY <1>6, <2>2 DEF Actions
  <1>7. CASE i = 2
    <2>1. \/ ReasonerActions(strategy) = {}
          \/ \E x : ReasonerActions(strategy) = {x}
      BY ReasonerActionsAreActions
    <2> QED  BY <1>1, <1>5, <1>7, <2>1 DEF Actions
  <1>8. CASE i = 3
    <2> DEFINE t == r.text
               A == IF t.width = None THEN {} ELSE Size(t.width, t.height, 82, "text")
               B == IF t.steps = None THEN {}
                    ELSE {Action("set", "sampler.steps", t.steps, 82, "text")}
               C == IF t.cfg = None THEN {}
                    ELSE {Action("set", "sampler.cfg", t.cfg, 78, "text")}
    <2>1. IsFiniteSet(A)  BY <1>4, <1>5 DEF Size
    <2>2. IsFiniteSet(B)  BY <1>1, <1>5
    <2>3. IsFiniteSet(C)  BY <1>1, <1>5
    <2>4. TextActions(t) = (A \cup B) \cup C  BY DEF TextActions
    <2> HIDE DEF A, B, C
    <2>5. IsFiniteSet(A \cup B)  BY <2>1, <2>2, FS_Union
    <2>6. IsFiniteSet((A \cup B) \cup C)  BY <2>3, <2>5, FS_Union
    <2> QED  BY <1>8, <2>4, <2>6 DEF Actions
  <1> QED  BY <1>6, <1>7, <1>8

(* Costs and scores are numbers, so plans can be ranked.                   *)
LEMMA SumsAreNumbers ==
  ASSUME NEW as, NEW f \in [as -> Int]
  PROVE  SumOver(as, f) \in Int
  <1> DEFINE at(t) == IF \E a \in as : a.target = t
                      THEN f[CHOOSE a \in as : a.target = t] ELSE 0
  <1>1. ASSUME NEW t
        PROVE  at(t) \in Int
    <2>1. CASE \E a \in as : a.target = t
      <3>1. (CHOOSE a \in as : a.target = t) \in as  BY <2>1
      <3> QED  BY <2>1, <3>1
    <2>2. CASE ~\E a \in as : a.target = t  BY <2>2
    <2> QED  BY <2>1, <2>2
  <1>2. SumOver(as, f) =
          at("latent_source.width") + at("latent_source.height")
          + at("sampler.steps") + at("sampler.cfg")
          + at("positive_prompt.text") + at("negative_prompt.text")
    BY DEF SumOver
  <1> HIDE DEF at
  <1> QED  BY <1>1, <1>2

LEMMA CostsAreNumbers ==
  ASSUME NEW as, \A a \in as : a.confidence \in Int, as # {}
  PROVE  RiskCost(as) \in Int /\ Total(as) \in Int
         /\ ComputeCost(as) \in Int /\ EditCost(as) \in Int
  <1> DEFINE compute == [a \in as |-> Compute(a)]
             edit == [a \in as |-> Edit(a)]
             sumCompute == SumOver(as, compute)
             sumEdit == SumOver(as, edit)
  <1>5. compute \in [as -> Int]  BY DEF Compute
  <1>6. edit \in [as -> Int]  BY DEF Edit, Points
  <1>7. ComputeCost(as) = AtMost(sumCompute, 100)  BY DEF ComputeCost
  <1>8. EditCost(as) = AtMost(sumEdit, 100)  BY DEF EditCost
  <1> HIDE DEF compute, edit
  <1>9. sumCompute \in Int /\ sumEdit \in Int  BY <1>5, <1>6, SumsAreNumbers
  <1> HIDE DEF sumCompute, sumEdit
  <1>1. ComputeCost(as) \in Int /\ EditCost(as) \in Int
    BY <1>7, <1>8, <1>9 DEF AtMost
  <1>2. RiskCost(as) \in Int
    <2> DEFINE risks == {ActionRisk(a) : a \in as}
               highest == Max(risks)
    <2>1. \A a : ActionRisk(a) \in {18, 8, 12, 10, 23}  BY DEF ActionRisk, Points
    <2>2. risks \subseteq {18, 8, 12, 10, 23} /\ risks # {}  BY <2>1
    <2>5. RiskCost(as) = highest  BY DEF RiskCost
    <2> HIDE DEF risks
    <2>3. \E x \in risks : \A y \in risks : x >= y
      <3>1. CASE 23 \in risks  BY <2>2, <3>1
      <3>2. CASE 23 \notin risks /\ 18 \in risks  BY <2>2, <3>2
      <3>3. CASE 23 \notin risks /\ 18 \notin risks /\ 12 \in risks  BY <2>2, <3>3
      <3>4. CASE 23 \notin risks /\ 18 \notin risks /\ 12 \notin risks /\ 10 \in risks
        BY <2>2, <3>4
      <3>5. CASE risks \subseteq {8}
        <4>1. 8 \in risks /\ \A y \in risks : y = 8  BY <2>2, <3>5
        <4> QED  BY <4>1
      <3> QED  BY <2>2, <3>1, <3>2, <3>3, <3>4, <3>5
    <2>4. highest \in risks  BY <2>3 DEF Max
    <2> HIDE DEF highest
    <2> QED  BY <2>2, <2>4, <2>5
  <1>3. Confirmation(as) \in Int  BY DEF Confirmation
  <1>4. Total(as) \in Int
    <2> DEFINE c == ComputeCost(as)
               e == EditCost(as)
               r == RiskCost(as)
               k == Confirmation(as)
               sum == 25 * c + 25 * e + 35 * r + 15 * k
    <2>1. Total(as) = Clamp(sum, 10000)  BY SMT DEF Total
    <2>2. c \in Int /\ e \in Int /\ r \in Int /\ k \in Int  BY <1>1, <1>2, <1>3
    <2> HIDE DEF c, e, r, k
    <2>3. sum \in Int  BY <2>2
    <2> HIDE DEF sum
    <2> QED  BY <2>1, <2>3, SMT DEF Clamp
  <1> QED  BY <1>1, <1>2, <1>4

LEMMA ScoreIsANumber ==
  ASSUME NEW as, IsFiniteSet(as), as # {}, \A a \in as : a.confidence \in Int,
         NEW status, NEW priority
  PROVE  PlanScore(as, status, priority) \in Int
  <1> DEFINE n == Cardinality(as)
             all == [a \in as |-> a.confidence]
             sum == SumOver(as, all)
             share == 12 \div n
             c == ComputeCost(as)
             e == EditCost(as)
             r == RiskCost(as)
             t == Total(as)
             weigh(compute, edit, risk) == 1200 * (compute * c + edit * e + risk * r)
             confidence == share * 10000 * sum
             bonus == 360000 * AtMost(n, 3)
             merit == CASE priority = "speed" -> bonus - weigh(45, 15, 20)
                        [] priority = "quality" -> bonus - weigh(10, 15, 25)
                        [] priority = "safety" -> -weigh(10, 25, 45)
                        [] OTHER -> bonus - weigh(0, 0, 20) - 12 * 35 * t
             penalty == CASE status = "unsafe" -> 6000000
                          [] status = "needs_confirmation" -> 960000
                          [] OTHER -> 0
  <1>1. PlanScore(as, status, priority) = Clamp(confidence + merit - penalty, 12000000)
    BY SMT DEF PlanScore
  <1>2. penalty \in Int  BY SMT
  <1>3. n \in Nat /\ n # 0  BY FS_CardinalityType, FS_EmptySet
  <1>4. all \in [as -> Int]  OBVIOUS
  <1> HIDE DEF n, all, penalty
  <1>5. sum \in Int  BY <1>4, SumsAreNumbers
  <1>6. share \in Int  BY <1>3
  <1>7. AtMost(n, 3) \in Int  BY <1>3 DEF AtMost
  <1>8. c \in Int /\ e \in Int /\ r \in Int /\ t \in Int  BY CostsAreNumbers
  <1> HIDE DEF c, e, r, t
  <1>9. weigh(45, 15, 20) \in Int /\ weigh(10, 15, 25) \in Int
        /\ weigh(10, 25, 45) \in Int /\ weigh(0, 0, 20) \in Int
    BY <1>8, SMT
  <1>10. bonus \in Int  BY <1>7, SMT
  <1> HIDE DEF share, sum, bonus, weigh
  <1>11. confidence \in Int  BY <1>5, <1>6, SMT
  <1>12. merit \in Int  BY <1>8, <1>9, <1>10, SMT
  <1> HIDE DEF confidence, merit
  <1> QED  BY <1>1, <1>2, <1>11, <1>12, SMT DEF Clamp

(* What a plan made of some of the actions is.                             *)
IsPlan(c, as) ==
  /\ as # {} /\ c.actions = as
  /\ c.status = "unsafe" <=> \E a \in as : OutOfRange(a)
  /\ IsKey(PlanKey(c))

LEMMA PlanIsPlan ==
  ASSUME NEW r \in PlanRequest, NEW i \in Int, NEW as, IsFiniteSet(as), as # {},
         \A a \in as : a.confidence \in Int
  PROVE  IsPlan(Plan(i, as, r), as)
  <1> DEFINE status == PlanStatus(as, r.allowAppend)
             risk == RiskCost(as)
             total == Total(as)
             score == PlanScore(as, status, r.priority)
             c == [id |-> i, actions |-> as, status |-> status, risk |-> risk,
                   total |-> total, score |-> score]
  <1>1. Plan(i, as, r) = c  BY Zenon DEF Plan
  <1>2. status = "unsafe" <=> \E a \in as : OutOfRange(a)  BY Zenon DEF PlanStatus
  <1>3. risk \in Int /\ total \in Int  BY CostsAreNumbers
  <1>4. score \in Int  BY ScoreIsANumber
  <1> HIDE DEF status, risk, total, score
  <1>5. /\ c.id = i /\ c.actions = as /\ c.status = status
        /\ c.risk = risk /\ c.total = total /\ c.score = score
    OBVIOUS
  <1> HIDE DEF c
  <1>6. IsKey(PlanKey(c))  BY <1>3, <1>4, <1>5, Keys DEF PlanKey
  <1> QED  BY <1>1, <1>2, <1>5, <1>6 DEF IsPlan

LEMMA CandidatesArePlans ==
  ASSUME NEW r \in PlanRequest, NEW strategy, NEW goal, NEW steps,
         GoodStrategy(strategy, goal, steps)
  PROVE  /\ \E x, y, z : Candidates(r, strategy) \in SUBSET {x, y, z}
         /\ \A c \in Candidates(r, strategy) :
              \E i \in 1..3 : IsPlan(c, Actions(r, strategy)[i])
  <1> DEFINE A == Actions(r, strategy)
             plan_(i) == Plan(i, A[i], r)
  <1>1. Candidates(r, strategy) = {plan_(i) : i \in {j \in 1..3 : A[j] # {}}}
    BY Zenon DEF Candidates
  <1>2. ASSUME NEW i \in 1..3, A[i] # {}
        PROVE  IsPlan(plan_(i), A[i])
    <2>1. IsFiniteSet(A[i])  BY PlannedActionsAreFinite
    <2>2. \A a \in A[i] : a.confidence \in Int  BY PlannedActions DEF IsAction
    <2> QED  BY <1>2, <2>1, <2>2, PlanIsPlan
  <1> HIDE DEF plan_, A
  <1>3. 1..3 = {1, 2, 3}  OBVIOUS
  <1>4. Candidates(r, strategy) \in SUBSET {plan_(1), plan_(2), plan_(3)}
    BY <1>1, <1>3
  <1>5. \A c \in Candidates(r, strategy) : \E i \in 1..3 : IsPlan(c, A[i])
    BY <1>1, <1>2
  <1> QED  BY <1>4, <1>5 DEF A

LEMMA PlansHaveALeader ==
  ASSUME NEW x, NEW y, NEW z, NEW plans \in SUBSET {x, y, z}, plans # {},
         \A c \in plans : IsKey(PlanKey(c))
  PROVE  /\ Leading(plans, PlanKey) # {}
         /\ Leading(plans, PlanKey) \subseteq plans
         /\ \E c \in plans : Rank(plans, PlanKey, c) = 1
  <1> DEFINE key == [c \in plans |-> PlanKey(c)]
  <1>1. \A c \in plans : key[c] = PlanKey(c)  OBVIOUS
  <1> HIDE DEF key
  <1>2. \A c \in plans : IsKey(key[c])  BY <1>1
  <1>3. PICK c \in plans : \A d \in plans : ~Earlier(key[d], key[c])
    BY <1>2, LeaderExists
  <1>4. \A d \in plans : ~Earlier(PlanKey(d), PlanKey(c))  BY <1>1, <1>3
  <1>5. c \in Leading(plans, PlanKey)  BY <1>4 DEF Leading
  <1>6. {d \in plans : Earlier(PlanKey(d), PlanKey(c))} = {}  BY <1>4
  <1>7. Rank(plans, PlanKey, c) = 1  BY <1>6, FS_EmptySet DEF Rank
  <1>8. Leading(plans, PlanKey) \subseteq plans  BY DEF Leading
  <1> QED  BY <1>5, <1>7, <1>8

(* At least one plan is kept, and with room for three, every one.          *)
LEMMA KeptPlans ==
  ASSUME NEW r \in PlanRequest, NEW strategy, NEW goal, NEW steps,
         GoodStrategy(strategy, goal, steps), Candidates(r, strategy) # {}
  PROVE  /\ Kept(r, strategy) # {}
         /\ Kept(r, strategy) \subseteq Candidates(r, strategy)
         /\ r.maxCandidates >= 3 => Kept(r, strategy) = Candidates(r, strategy)
  <1> DEFINE all == Candidates(r, strategy)
  <1>1. PICK x, y, z : all \in SUBSET {x, y, z}  BY CandidatesArePlans
  <1>2. \A c \in all : IsKey(PlanKey(c))  BY CandidatesArePlans DEF IsPlan
  <1>3. r.maxCandidates \in 1..10  BY DEF PlanRequest
  <1>4. Kept(r, strategy) = {c \in all : Rank(all, PlanKey, c) <= r.maxCandidates}
    BY DEF Kept
  <1> HIDE DEF all
  <1>5. PICK c \in all : Rank(all, PlanKey, c) = 1
    BY <1>1, <1>2, PlansHaveALeader DEF all
  <1>6. c \in Kept(r, strategy)  BY <1>3, <1>4, <1>5
  <1>7. ASSUME r.maxCandidates >= 3, NEW d \in all
        PROVE  Rank(all, PlanKey, d) <= r.maxCandidates
    <2> DEFINE before == {b \in all : Earlier(PlanKey(b), PlanKey(d))}
               n == Cardinality(before)
               m == Cardinality(all)
    <2>1. ~Earlier(PlanKey(d), PlanKey(d))  BY <1>2, <1>7, EarlierOrders
    <2>2. before \in SUBSET all /\ before # all  BY <1>7, <2>1
    <2>3. Rank(all, PlanKey, d) = n + 1  BY DEF Rank
    <2> HIDE DEF before
    <2>4. IsFiniteSet(all) /\ m \in Nat /\ m <= 3  BY <1>1, SmallSets
    <2>5. n <= m /\ n # m  BY <2>2, <2>4, FS_Subset
    <2>6. IsFiniteSet(before)  BY <2>2, <2>4, FS_Subset
    <2>7. n \in Nat  BY <2>6, FS_CardinalityType
    <2> HIDE DEF n, m
    <2> QED  BY <1>3, <1>7, <2>3, <2>4, <2>5, <2>7
  <1> QED  BY <1>4, <1>6, <1>7 DEF all

LEMMA SelectedPlan ==
  ASSUME NEW r \in PlanRequest, NEW strategy, NEW goal, NEW steps,
         GoodStrategy(strategy, goal, steps), Candidates(r, strategy) # {}
  PROVE  LET c == Selected(Kept(r, strategy))
         IN  /\ \E i \in 1..3 : IsPlan(c, Actions(r, strategy)[i])
             /\ (\E d \in Kept(r, strategy) : d.status # "unsafe") => c.status # "unsafe"
  <1> DEFINE kept == Kept(r, strategy)
             usable == {c \in kept : c.status # "unsafe"}
             from == IF usable = {} THEN kept ELSE usable
             c == CHOOSE c \in Leading(from, PlanKey) : TRUE
  <1>1. kept # {} /\ kept \subseteq Candidates(r, strategy)  BY KeptPlans
  <1>2. PICK x, y, z : Candidates(r, strategy) \in SUBSET {x, y, z}
    BY CandidatesArePlans
  <1>3. \A d \in Candidates(r, strategy) : IsKey(PlanKey(d))
    BY CandidatesArePlans DEF IsPlan
  <1>4. Selected(kept) = c  BY DEF Selected
  <1>5. from # {} /\ from \subseteq kept /\ (usable # {} => from = usable)  BY <1>1
  <1>6. \A d \in usable : d.status # "unsafe"  OBVIOUS
  <1>7. (\E d \in kept : d.status # "unsafe") => usable # {}  OBVIOUS
  <1> HIDE DEF kept, usable, from
  <1>8. from \in SUBSET {x, y, z} /\ \A d \in from : IsKey(PlanKey(d))
    BY <1>1, <1>2, <1>3, <1>5
  <1>9. Leading(from, PlanKey) # {} /\ Leading(from, PlanKey) \subseteq from
    BY <1>5, <1>8, PlansHaveALeader
  <1>10. c \in from  BY <1>9
  <1> HIDE DEF c
  <1>11. \E i \in 1..3 : IsPlan(c, Actions(r, strategy)[i])
    BY <1>1, <1>5, <1>10, CandidatesArePlans
  <1>12. (\E d \in kept : d.status # "unsafe") => c.status # "unsafe"
    BY <1>5, <1>6, <1>7, <1>10
  <1> QED  BY <1>4, <1>11, <1>12 DEF kept

(* What the planner answers.                                               *)
IsResult(p, as, source) ==
  /\ as # {}
  /\ p.ops = {Op(a.op, a.target, a.value) : a \in as}
  /\ p.source = source
  /\ p.success = ~\E a \in as : OutOfRange(a)

LEMMA PlanResultShape ==
  ASSUME NEW r \in PlanRequest, NEW strategy, NEW goal, NEW steps,
         GoodStrategy(strategy, goal, steps)
  PROVE  \/ PlanResult(r, strategy) = NoPlan
         \/ \E i \in 1..3 : IsResult(PlanResult(r, strategy), Actions(r, strategy)[i],
                                     <<"intent", "reasoner", "text">>[i])
  <1>1. CASE Candidates(r, strategy) = {}  BY <1>1 DEF PlanResult
  <1>2. CASE Candidates(r, strategy) # {}
    <2> DEFINE c == Selected(Kept(r, strategy))
               source == CHOOSE s \in {a.source : a \in c.actions} : TRUE
               success == (c.status # "unsafe")
               p == [success |-> success, ops |-> PlanOps(c), source |-> source]
    <2>1. PlanResult(r, strategy) = p  BY <1>2 DEF PlanResult
    <2>2. PICK i \in 1..3 : IsPlan(c, Actions(r, strategy)[i])  BY <1>2, SelectedPlan
    <2> DEFINE as == Actions(r, strategy)[i]
    <2>3. \A a \in as : a.source = <<"intent", "reasoner", "text">>[i]  BY PlannedActions
    <2>4. c.actions = as /\ as # {} /\ (success <=> ~\E a \in as : OutOfRange(a))
      BY <2>2 DEF IsPlan
    <2> HIDE DEF c
    <2>5. source = <<"intent", "reasoner", "text">>[i]  BY <2>3, <2>4
    <2>6. PlanOps(c) = {Op(a.op, a.target, a.value) : a \in as}  BY <2>4 DEF PlanOps
    <2>7. success = ~\E a \in as : OutOfRange(a)  BY <2>4, Zenon
    <2> HIDE DEF success, source
    <2>8. p.ops = PlanOps(c) /\ p.source = source /\ p.success = success  OBVIOUS
    <2> QED  BY <2>1, <2>4, <2>5, <2>6, <2>7, <2>8 DEF IsResult
  <1> QED  BY <1>1, <1>2
-----------------------------------------------------------------------------
(* The pipeline.  A property of the answer depends on what every stage     *)
(* before it did, so the invariant records for each stage what the later   *)
(* ones may rely on: that the strategy is one the reasoner makes, that the *)
(* decision was made of it under a policy, that the plan is the planner's  *)
(* or the fallback, and what the gates in between have let through.        *)
GoodReasoning ==
  GoodStrategy(reasoning.strategy, reasoning.goal, reasoning.observations.steps)

Decided ==
  /\ decision.policy \in Policies
  /\ decision.status = Status(reasoning, decision.policy)
  /\ decision.ops = SelectedOps(reasoning, decision.policy)

Required == policy.require_accepted_decision => decision.status = "accepted"

Planned ==
  \/ plan.source = "fallback" /\ plan.success = FALSE /\ plan.ops = decision.ops
  \/ \E r \in Requests : plan = PlanResult(r, reasoning.strategy)

Stage(s) ==
  CASE s = "reason" -> 1 [] s = "decide" -> 2 [] s = "plan" -> 3
    [] s = "dry_run" -> 4 [] OTHER -> 5

GatesInOrder == \A g \in gates : Stage(g.stage) < Stage(pc)

StagesRelyOnEarlierOnes ==
  /\ pc # "done" => answer = NoAnswer
  /\ pc \in {"decide", "plan", "dry_run"} => GoodReasoning
  /\ pc \in {"plan", "dry_run"} => Decided /\ Required
  /\ pc = "dry_run" => Planned /\ (policy.require_plan_success => Succeeded(plan))
  /\ pc \in {"reason", "decide"} => decision = NoDecision
  /\ decision = NoDecision \/ (GoodReasoning /\ Decided)

AnswerRests ==
  /\ answer.status \in {"ready", "blocked"} =>
       GoodReasoning /\ Decided /\ Required /\ Planned
  /\ answer.status = "ready" =>
       /\ policy.require_plan_success => Succeeded(plan)
       /\ answer.ops = PlannedOps(plan) /\ CanBeSafe(answer.ops)
  /\ answer.status = "blocked" => ~Succeeded(plan)

IInv == TypeOK /\ GatesInOrder /\ StagesRelyOnEarlierOnes /\ AnswerRests

LEMMA ReasonIsGood ==
  ASSUME NEW goal, NEW f \in Facts
  PROVE  LET rea == Reason(goal, f)
         IN  GoodStrategy(rea.strategy, rea.goal, rea.observations.steps) /\ rea.goal = goal
  <1> DEFINE rea == Reason(goal, f)
  <1>1. rea.goal = goal /\ rea.observations = f /\ rea.strategy = Strategy(goal, f)
    BY Zenon DEF Reason
  <1> HIDE DEF rea
  <1>2. GoodStrategy(rea.strategy, rea.goal, rea.observations.steps)
    BY <1>1, StrategyIsGood
  <1> QED  BY <1>1, <1>2 DEF rea

LEMMA SelectedOpsAreOps ==
  ASSUME NEW rea, NEW goal, NEW steps, GoodStrategy(rea.strategy, goal, steps), NEW p
  PROVE  /\ SelectedOps(rea, p) \subseteq Ops
         /\ Status(rea, p) \in {"accepted", "needs_review", "needs_clarification"}
  <1>1. ASSUME NEW o \in SelectedOps(rea, p)
        PROVE  o \in Ops
    <2>1. PICK s \in rea.strategy : /\ s.action \in Sets
                                    /\ o = Op("set", s.target, s.value)
                                    /\ GoodStep(s, goal, steps)
      BY SelectedOpsComeFromSteps
    <2>2. s.target \in Counts /\ s.value \in Int  BY <2>1 DEF GoodStep
    <2> QED  BY <2>1, <2>2 DEF Op, Ops, Counts
  <1>2. Status(rea, p) \in {"accepted", "needs_review", "needs_clarification"}
    BY Zenon DEF Status
  <1> QED  BY <1>1, <1>2

LEMMA PlanResultIsPlan ==
  ASSUME NEW r \in PlanRequest, NEW strategy, NEW goal, NEW steps,
         GoodStrategy(strategy, goal, steps)
  PROVE  LET p == PlanResult(r, strategy)
         IN  /\ p.success \in BOOLEAN /\ p.ops \subseteq Ops
             /\ p.source \in {"none", "intent", "reasoner", "text"}
  <1> DEFINE p == PlanResult(r, strategy)
  <1>1. CASE p = NoPlan  BY <1>1 DEF NoPlan
  <1>2. ASSUME NEW i \in 1..3, IsResult(p, Actions(r, strategy)[i],
                                        <<"intent", "reasoner", "text">>[i])
        PROVE  /\ p.success \in BOOLEAN /\ p.ops \subseteq Ops
               /\ p.source \in {"none", "intent", "reasoner", "text"}
    <2>1. p.success \in BOOLEAN  BY <1>2, Zenon DEF IsResult
    <2>2. p.source \in {"none", "intent", "reasoner", "text"}  BY <1>2 DEF IsResult
    <2>3. \A a \in Actions(r, strategy)[i] : Op(a.op, a.target, a.value) \in Ops
      BY PlannedActions DEF IsAction
    <2>4. p.ops \subseteq Ops  BY <1>2, <2>3 DEF IsResult
    <2> QED  BY <2>1, <2>2, <2>4
  <1> QED  BY <1>1, <1>2, PlanResultShape

-----------------------------------------------------------------------------
(* The steps.                                                              *)
LEMMA InitHolds == Init => IInv
  <1> SUFFICES ASSUME Init PROVE IInv  OBVIOUS
  <1>1. TypeOK
    BY DEF Init, TypeOK, NoReasoning, NoDecision, NoPlan, NoAnswer, Goal, Stages
  <1>2. GatesInOrder  BY DEF Init, GatesInOrder
  <1>3. StagesRelyOnEarlierOnes  BY DEF Init, StagesRelyOnEarlierOnes
  <1>4. AnswerRests  BY DEF Init, AnswerRests, NoAnswer
  <1> QED  BY <1>1, <1>2, <1>3, <1>4 DEF IInv

LEMMA GateKeepsOrder ==
  ASSUME IInv, NEW stage \in Stages, pc = stage, NEW passed \in BOOLEAN,
         Gate(stage, passed), pc' \in Stages \cup {"done"}, Stage(stage) < Stage(pc')
  PROVE  /\ GatesInOrder'
         /\ gates' \subseteq [stage : Stages, passed : BOOLEAN]
         /\ \A g, h \in gates' : g.stage = h.stage => g = h
  <1> DEFINE new == [stage |-> stage, passed |-> passed]
  <1>1. gates' = gates \cup {new}  BY DEF Gate
  <1>2. new.stage = stage /\ new \in [stage : Stages, passed : BOOLEAN]  OBVIOUS
  <1>3. \A s : Stage(s) \in 1..5  BY DEF Stage
  <1>4. \A g \in gates : g.stage # stage  BY <1>3 DEF IInv, GatesInOrder
  <1> HIDE DEF new
  <1>5. gates' \subseteq [stage : Stages, passed : BOOLEAN]
    BY <1>1, <1>2 DEF IInv, TypeOK
  <1>6. \A g, h \in gates' : g.stage = h.stage => g = h
    BY <1>1, <1>2, <1>4 DEF IInv, TypeOK
  <1>7. \A g \in gates : Stage(g.stage) < Stage(stage)  BY DEF IInv, GatesInOrder
  <1>8. \A g \in gates : Stage(g.stage) < Stage(pc')  BY <1>3, <1>7
  <1>9. GatesInOrder'  BY <1>1, <1>2, <1>8 DEF GatesInOrder
  <1> QED  BY <1>5, <1>6, <1>9

LEMMA RaisingEnds ==
  ASSUME IInv, NEW stage \in Stages, pc = stage,
         Gate(stage, FALSE), Finish("error", {}, FALSE),
         UNCHANGED <<workflow, policy, reasoning, decision, plan>>
  PROVE  IInv'
  <1>1. pc' = "done" /\ answer'.status = "error" /\ answer'.ops = {}
        /\ answer'.apply = FALSE
    BY DEF Finish
  <1>2. Stage(stage) < Stage(pc')  BY <1>1 DEF Stage, Stages
  <1>3. /\ GatesInOrder' /\ gates' \subseteq [stage : Stages, passed : BOOLEAN]
        /\ \A g, h \in gates' : g.stage = h.stage => g = h
    BY <1>1, <1>2, GateKeepsOrder
  <1>4. TypeOK'  BY <1>1, <1>3 DEF IInv, TypeOK, Statuses
  <1>5. StagesRelyOnEarlierOnes'
    BY <1>1 DEF IInv, StagesRelyOnEarlierOnes, GoodReasoning, Decided
  <1>6. AnswerRests'  BY <1>1 DEF AnswerRests
  <1> QED  BY <1>3, <1>4, <1>5, <1>6 DEF IInv

LEMMA ReasonStep ==
  ASSUME IInv, NEW goal \in Goal, NEW f \in Facts, RunReasoner(goal, f)
  PROVE  IInv'
  <1>1. pc = "reason" /\ pc' = "decide" /\ reasoning' = Reason(goal, f)
        /\ UNCHANGED <<workflow, policy, decision, plan, answer>>
        /\ Gate("reason", TRUE)
    BY DEF RunReasoner
  <1>2. GoodReasoning' /\ reasoning'.goal = goal
    BY <1>1, ReasonIsGood DEF GoodReasoning
  <1>3. /\ GatesInOrder' /\ gates' \subseteq [stage : Stages, passed : BOOLEAN]
        /\ \A g, h \in gates' : g.stage = h.stage => g = h
    <2>1. Stage("reason") < Stage(pc')  BY <1>1 DEF Stage
    <2>2. "reason" \in Stages /\ pc' \in Stages \cup {"done"}  BY <1>1 DEF Stages
    <2> QED  BY <1>1, <2>1, <2>2, GateKeepsOrder
  <1>4. TypeOK'  BY <1>1, <1>2, <1>3 DEF IInv, TypeOK, Stages
  <1>5. answer = NoAnswer  BY <1>1 DEF IInv, StagesRelyOnEarlierOnes
  <1>6. decision = NoDecision  BY <1>1 DEF IInv, StagesRelyOnEarlierOnes
  <1>7. StagesRelyOnEarlierOnes'
    BY <1>1, <1>2, <1>5, <1>6 DEF StagesRelyOnEarlierOnes
  <1>8. AnswerRests'  BY <1>1, <1>5 DEF AnswerRests, NoAnswer
  <1> QED  BY <1>3, <1>4, <1>7, <1>8 DEF IInv

LEMMA DecisionStep ==
  ASSUME IInv, NEW p \in Policies, RunDecision(p)
  PROVE  IInv'
  <1> DEFINE status == Status(reasoning, p)
             ops == SelectedOps(reasoning, p)
             passed == (status = "accepted")
  <1>1. /\ pc = "decide" /\ UNCHANGED <<workflow, policy, reasoning, plan>>
        /\ decision' = [status |-> status, ops |-> ops, policy |-> p]
        /\ Gate("decide", passed)
    BY Zenon DEF RunDecision, Decide
  <1>2. \/ /\ pc' = "done"
           /\ answer'.status \in {"needs_review", "needs_clarification"}
           /\ answer'.ops = ops /\ answer'.apply = FALSE
        \/ /\ pc' = "plan" /\ answer' = answer
           /\ policy.require_accepted_decision => status = "accepted"
    <2>1. CASE policy.require_accepted_decision /\ status # "accepted"
      <3>1. Finish(IF status = "needs_review" THEN "needs_review"
                                             ELSE "needs_clarification", ops, FALSE)
        BY <2>1, Zenon DEF RunDecision, Decide, Accepted
      <3> HIDE DEF status, ops
      <3> QED  BY <3>1 DEF Finish
    <2>2. CASE ~(policy.require_accepted_decision /\ status # "accepted")
      <3>1. IF ~policy.auto_plan THEN Finish("needs_review", ops, FALSE)
            ELSE pc' = "plan" /\ UNCHANGED answer
        BY <2>2, Zenon DEF RunDecision, Decide, Accepted
      <3> HIDE DEF status, ops
      <3> QED  BY <2>2, <3>1 DEF Finish
    <2> QED  BY <2>1, <2>2
  <1>3. GoodReasoning /\ answer = NoAnswer
    BY <1>1 DEF IInv, StagesRelyOnEarlierOnes
  <1>4. ops \subseteq Ops /\ status \in {"accepted", "needs_review", "needs_clarification"}
    BY <1>3, SelectedOpsAreOps DEF GoodReasoning
  <1>5. passed \in BOOLEAN  OBVIOUS
  <1>6. Decided' /\ GoodReasoning'  BY <1>1, <1>3 DEF Decided, GoodReasoning
  <1> HIDE DEF status, ops, passed
  <1>7. decision'.status = status /\ decision'.ops = ops  BY <1>1
  <1>8. /\ GatesInOrder' /\ gates' \subseteq [stage : Stages, passed : BOOLEAN]
        /\ \A g, h \in gates' : g.stage = h.stage => g = h
    <2>1. Stage("decide") < Stage(pc')  BY <1>2 DEF Stage
    <2>2. "decide" \in Stages /\ pc' \in Stages \cup {"done"}  BY <1>2 DEF Stages
    <2> QED  BY <1>1, <1>5, <2>1, <2>2, GateKeepsOrder
  <1>9. answer'.status \in Statuses \cup {"none"} /\ answer'.ops \subseteq Ops
        /\ answer'.apply \in BOOLEAN
    <2>1. answer.status = "none" /\ answer.ops = {} /\ answer.apply = FALSE
      BY <1>3 DEF NoAnswer
    <2>2. answer'.status \in Statuses \cup {"none"}  BY <1>2, <2>1 DEF Statuses
    <2>3. answer'.ops \subseteq Ops  BY <1>2, <1>4, <2>1
    <2>4. answer'.apply = FALSE  BY <1>2, <2>1
    <2> QED  BY <2>2, <2>3, <2>4
  <1>10. TypeOK'  BY <1>1, <1>2, <1>4, <1>7, <1>8, <1>9 DEF IInv, TypeOK, Stages
  <1>11. pc' = "plan" => Required'  BY <1>1, <1>2, <1>7 DEF Required
  <1>12. pc' # "done" => answer' = NoAnswer  BY <1>2, <1>3
  <1>13. StagesRelyOnEarlierOnes'
    BY <1>2, <1>6, <1>11, <1>12 DEF StagesRelyOnEarlierOnes
  <1>14. AnswerRests'  BY <1>2, <1>3 DEF AnswerRests, NoAnswer
  <1> QED  BY <1>8, <1>10, <1>13, <1>14 DEF IInv

LEMMA AfterPlanStep ==
  ASSUME IInv, pc = "plan", NEW p, AfterPlan(p), NEW passed \in BOOLEAN,
         Gate("plan", passed), Planned',
         p.success \in BOOLEAN, p.ops \subseteq Ops,
         p.source \in {"none", "intent", "reasoner", "text", "fallback"}
  PROVE  IInv'
  <1>1. plan' = p /\ UNCHANGED <<workflow, policy, reasoning, decision>>
    BY DEF AfterPlan
  <1>2. GoodReasoning /\ Decided /\ Required /\ answer = NoAnswer
    BY DEF IInv, StagesRelyOnEarlierOnes
  <1>3. GoodReasoning' /\ Decided' /\ Required'
    BY <1>1, <1>2 DEF GoodReasoning, Decided, Required
  <1>4. \/ /\ pc' = "done"
           /\ \/ answer'.status = "blocked" /\ ~Succeeded(p)
              \/ answer'.status = "needs_review"
           /\ answer'.ops = PlannedOps(p)
           /\ answer'.apply = TRUE \/ answer'.apply = FALSE
        \/ /\ pc' = "dry_run" /\ answer' = answer
           /\ policy.require_plan_success => Succeeded(p)
    <2>1. CASE policy.require_plan_success /\ ~Succeeded(p)
      <3>1. Finish("blocked", PlannedOps(p), FALSE)  BY <2>1, Zenon DEF AfterPlan
      <3> QED  BY <2>1, <3>1 DEF Finish
    <2>2. CASE ~(policy.require_plan_success /\ ~Succeeded(p))
      <3>1. IF ~policy.auto_dry_run THEN Finish("needs_review", PlannedOps(p), TRUE)
            ELSE pc' = "dry_run" /\ UNCHANGED answer
        BY <2>2, Zenon DEF AfterPlan
      <3> QED  BY <2>2, <3>1 DEF Finish
    <2> QED  BY <2>1, <2>2
  <1>5. PlannedOps(p) \subseteq Ops  BY DEF PlannedOps, IInv, TypeOK
  <1>6. /\ GatesInOrder' /\ gates' \subseteq [stage : Stages, passed : BOOLEAN]
        /\ \A g, h \in gates' : g.stage = h.stage => g = h
    <2>3. pc' \in {"done", "dry_run"}  BY <1>4
    <2>1. Stage("plan") < Stage(pc')  BY <2>3 DEF Stage
    <2>2. "plan" \in Stages /\ pc' \in Stages \cup {"done"}  BY <2>3 DEF Stages
    <2> QED  BY <2>1, <2>2, GateKeepsOrder
  <1>7. answer'.status \in Statuses \cup {"none"} /\ answer'.ops \subseteq Ops
        /\ answer'.apply \in BOOLEAN
    <2>1. answer.status = "none" /\ answer.ops = {} /\ answer.apply = FALSE
      BY <1>2 DEF NoAnswer
    <2>2. answer'.status \in Statuses \cup {"none"}  BY <1>4, <2>1 DEF Statuses
    <2>3. answer'.ops \subseteq Ops  BY <1>4, <1>5, <2>1
    <2>4. answer'.apply = TRUE \/ answer'.apply = FALSE  BY <1>4, <2>1
    <2> QED  BY <2>2, <2>3, <2>4
  <1>8. TypeOK'  BY <1>1, <1>4, <1>6, <1>7 DEF IInv, TypeOK, Stages
  <1>9. pc' = "dry_run" => (policy'.require_plan_success => Succeeded(plan'))
    BY <1>1, <1>4
  <1>10. pc' # "done" => answer' = NoAnswer  BY <1>2, <1>4
  <1>11. StagesRelyOnEarlierOnes'
    BY <1>3, <1>4, <1>9, <1>10 DEF StagesRelyOnEarlierOnes
  <1>15. answer.status = "none"  BY <1>2 DEF NoAnswer
  <1>12. answer'.status = "blocked" => ~Succeeded(plan')  BY <1>1, <1>4, <1>15
  <1>13. answer'.status # "ready"  BY <1>4, <1>15
  <1>14. AnswerRests'  BY <1>3, <1>12, <1>13 DEF AnswerRests
  <1> QED  BY <1>6, <1>8, <1>11, <1>14 DEF IInv

LEMMA PlanStep ==
  ASSUME IInv, NEW r \in Requests, RunPlanner(r)
  PROVE  IInv'
  <1> DEFINE p == PlanResult(r, reasoning.strategy)
             passed == Succeeded(p)
  <1>1. pc = "plan" /\ Gate("plan", passed) /\ AfterPlan(p)  BY DEF RunPlanner
  <1>2. GoodReasoning  BY <1>1 DEF IInv, StagesRelyOnEarlierOnes
  <1>3. r \in PlanRequest  BY RequestAssumption
  <1>4. /\ p.success \in BOOLEAN /\ p.ops \subseteq Ops
        /\ p.source \in {"none", "intent", "reasoner", "text"}
    BY <1>2, <1>3, PlanResultIsPlan DEF GoodReasoning
  <1>5. plan' = p /\ reasoning' = reasoning  BY <1>1 DEF AfterPlan
  <1>6. Planned'  BY <1>5 DEF Planned
  <1> HIDE DEF p
  <1>7. passed \in BOOLEAN  BY <1>4 DEF Succeeded
  <1> HIDE DEF passed
  <1> QED  BY <1>1, <1>4, <1>6, <1>7, AfterPlanStep

LEMMA PlannerRaisesStep ==
  ASSUME IInv, PlannerRaises
  PROVE  IInv'
  <1> DEFINE p == [success |-> FALSE, ops |-> decision.ops, source |-> "fallback"]
             passed == (decision.ops # {})
  <1>1. pc = "plan" /\ Gate("plan", passed) /\ AfterPlan(p)  BY DEF PlannerRaises
  <1>2. p.success = FALSE /\ p.ops = decision.ops /\ p.source = "fallback"  OBVIOUS
  <1>3. passed \in BOOLEAN  OBVIOUS
  <1>4. p.ops \subseteq Ops  BY <1>2 DEF IInv, TypeOK
  <1> HIDE DEF p, passed
  <1>5. Planned'  BY <1>1, <1>2 DEF AfterPlan, Planned
  <1> QED  BY <1>1, <1>2, <1>3, <1>4, <1>5, AfterPlanStep

LEMMA DryRunStep ==
  ASSUME IInv, NEW safe \in BOOLEAN, DryRun(safe)
  PROVE  IInv'
  <1>1. /\ pc = "dry_run" /\ pc' = "done" /\ Gate("dry_run", safe)
        /\ UNCHANGED <<workflow, policy, reasoning, decision, plan>>
        /\ answer'.status = IF safe THEN "ready" ELSE "needs_review"
        /\ answer'.ops = PlannedOps(plan) /\ answer'.apply = safe
        /\ safe => CanBeSafe(PlannedOps(plan))
    BY DEF DryRun, Finish
  <1>2. /\ GoodReasoning /\ Decided /\ Required /\ Planned
        /\ policy.require_plan_success => Succeeded(plan)
    BY <1>1 DEF IInv, StagesRelyOnEarlierOnes
  <1>3. GoodReasoning' /\ Decided' /\ Required' /\ Planned'
    BY <1>1, <1>2 DEF GoodReasoning, Decided, Required, Planned
  <1>4. PlannedOps(plan) \subseteq Ops  BY DEF PlannedOps, IInv, TypeOK
  <1>5. /\ GatesInOrder' /\ gates' \subseteq [stage : Stages, passed : BOOLEAN]
        /\ \A g, h \in gates' : g.stage = h.stage => g = h
    <2>1. Stage("dry_run") < Stage(pc')  BY <1>1 DEF Stage
    <2>2. "dry_run" \in Stages /\ pc' \in Stages \cup {"done"}  BY <1>1 DEF Stages
    <2> QED  BY <1>1, <2>1, <2>2, GateKeepsOrder
  <1>6. answer'.status \in Statuses \cup {"none"} /\ answer'.ops \subseteq Ops
        /\ answer'.apply \in BOOLEAN
    BY <1>1, <1>4 DEF Statuses
  <1>7. TypeOK'  BY <1>1, <1>5, <1>6 DEF IInv, TypeOK, Stages
  <1>8. StagesRelyOnEarlierOnes'  BY <1>1, <1>3 DEF StagesRelyOnEarlierOnes
  <1>9. PlannedOps(plan)' = PlannedOps(plan)  BY <1>1 DEF PlannedOps
  <1>10. answer'.status = "ready" =>
           /\ policy'.require_plan_success => Succeeded(plan')
           /\ answer'.ops = PlannedOps(plan)' /\ CanBeSafe(answer'.ops)
    BY <1>1, <1>2, <1>9
  <1>11. AnswerRests'  BY <1>1, <1>3, <1>10 DEF AnswerRests
  <1> QED  BY <1>5, <1>7, <1>8, <1>11 DEF IInv

LEMMA InvariantIsInductive == IInv /\ [Next]_vars => IInv'
  <1> SUFFICES ASSUME IInv, [Next]_vars PROVE IInv'  OBVIOUS
  <1>1. CASE ReasonRaises
    <2>1. "reason" \in Stages  BY DEF Stages
    <2> QED  BY <1>1, <2>1, RaisingEnds DEF ReasonRaises
  <1>2. ASSUME NEW goal \in Goal, RunReasoner(goal, Inspected(workflow))
        PROVE  IInv'
    <2>1. workflow \in Facts  BY FactsAssumption DEF IInv, TypeOK
    <2>2. Inspected(workflow) \in Facts  BY <2>1 DEF Inspected, Facts
    <2> QED  BY <1>2, <2>2, ReasonStep
  <1>3. ASSUME NEW goal \in Goal, NEW facts \in Supplied, RunReasoner(goal, facts)
        PROVE  IInv'
    <2>1. facts \in Facts  BY FactsAssumption
    <2> QED  BY <1>3, <2>1, ReasonStep
  <1>4. CASE DecideRaises
    <2>1. "decide" \in Stages  BY DEF Stages
    <2> QED  BY <1>4, <2>1, RaisingEnds DEF DecideRaises
  <1>5. ASSUME NEW p \in Policies, RunDecision(p)
        PROVE  IInv'
    BY <1>5, DecisionStep
  <1>6. ASSUME NEW r \in Requests, RunPlanner(r)
        PROVE  IInv'
    BY <1>6, PlanStep
  <1>7. CASE PlannerRaises  BY <1>7, PlannerRaisesStep
  <1>8. ASSUME NEW safe \in BOOLEAN, DryRun(safe)
        PROVE  IInv'
    BY <1>8, DryRunStep
  <1>9. CASE UNCHANGED vars
    BY <1>9 DEF vars, IInv, TypeOK, GatesInOrder, StagesRelyOnEarlierOnes, AnswerRests,
                GoodReasoning, Decided, Required, Planned, PlannedOps
  <1> QED  BY <1>1, <1>2, <1>3, <1>4, <1>5, <1>6, <1>7, <1>8, <1>9 DEF Next

LEMMA InvariantHolds == Spec => []IInv
  BY InitHolds, InvariantIsInductive, PTL DEF Spec

-----------------------------------------------------------------------------
(* What the invariant says of the answers.                                 *)
LEMMA RangeOfAction ==
  ASSUME NEW a
  PROVE  OutOfRange(a) <=> ~InRange(Op(a.op, a.target, a.value))
  <1> DEFINE o == Op(a.op, a.target, a.value)
  <1>1. o.target = a.target /\ o.value = a.value  BY DEF Op
  <1> HIDE DEF o
  <1>2. CASE a.target = "sampler.steps"
    <2>1. InRange(o) <=> a.value \in 1..300  BY <1>1, <1>2 DEF InRange
    <2> QED  BY <1>2, <2>1 DEF OutOfRange, Sized, o
  <1>3. CASE a.target = "sampler.cfg"
    <2>1. InRange(o) <=> a.value \in 0..5000 \cup {NaN}  BY <1>1, <1>3 DEF InRange
    <2> QED  BY <1>3, <2>1 DEF OutOfRange, Sized, o
  <1>4. CASE Sized(a)
    <2>1. a.target \in {"latent_source.width", "latent_source.height"}
      BY <1>4 DEF Sized
    <2>2. InRange(o) <=> a.value \in 64..4096  BY <1>1, <2>1 DEF InRange
    <2>3. a.target # "sampler.steps" /\ a.target # "sampler.cfg"  BY <2>1
    <2> QED  BY <1>4, <2>2, <2>3 DEF OutOfRange, o
  <1>5. CASE a.target \notin {"sampler.steps", "sampler.cfg"} /\ ~Sized(a)
    <2>1. InRange(o)  BY <1>1, <1>5 DEF InRange, Sized
    <2> QED  BY <1>5, <2>1 DEF OutOfRange, o
  <1> QED  BY <1>2, <1>3, <1>4, <1>5 DEF o

(* A plan from the strategy is made of its one step that has a value.      *)
LEMMA PlanFromReasoner ==
  ASSUME IInv, GoodReasoning, Planned, plan.source = "reasoner"
  PROVE  \E s, a :
           /\ s \in reasoning.strategy /\ Speaks(s) /\ a = StepAction(s)
           /\ plan.ops = {Op(a.op, a.target, a.value)}
           /\ plan.success = ~OutOfRange(a)
  <1> DEFINE strategy == reasoning.strategy
             sources == <<"intent", "reasoner", "text">>
  <1>1. PICK r \in Requests : plan = PlanResult(r, strategy)  BY DEF Planned
  <1>2. r \in PlanRequest  BY RequestAssumption
  <1>3. plan # NoPlan  BY DEF NoPlan
  <1>4. PICK i \in 1..3 : IsResult(plan, Actions(r, strategy)[i], sources[i])
    BY <1>1, <1>2, <1>3, PlanResultShape DEF GoodReasoning
  <1>5. i = 2  BY <1>4 DEF IsResult
  <1>6. Actions(r, strategy)[i] = ReasonerActions(strategy)  BY <1>5 DEF Actions
  <1>7. PICK a \in ReasonerActions(strategy) : TRUE  BY <1>4, <1>6 DEF IsResult
  <1>8. PICK s \in strategy : /\ Speaks(s) /\ a = StepAction(s)
                              /\ ReasonerActions(strategy) = {a}
    BY <1>7, ReasonerActionsAreActions DEF GoodReasoning
  <1>9. plan.ops = {Op(a.op, a.target, a.value)}  BY <1>4, <1>6, <1>8 DEF IsResult
  <1>10. plan.success = ~OutOfRange(a)  BY <1>4, <1>6, <1>8, Zenon DEF IsResult
  <1> QED  BY <1>8, <1>9, <1>10

LEMMA AcceptedOpsOfPlan ==
  ASSUME IInv, GoodReasoning, Planned, plan.source = "reasoner",
         NEW o \in plan.ops, o.op = "set"
  PROVE  \E s \in reasoning.strategy : /\ s.action \in Sets
                                       /\ o = Op("set", s.target, s.value)
                                       /\ plan.ops = {o}
  <1>1. PICK s, a :
           /\ s \in reasoning.strategy /\ Speaks(s) /\ a = StepAction(s)
           /\ plan.ops = {Op(a.op, a.target, a.value)}
    BY PlanFromReasoner
  <1>2. /\ a.op = IF s.action \in Appends THEN "append_text" ELSE "set"
        /\ a.target = s.target /\ a.value = s.value
    BY <1>1 DEF StepAction, Action
  <1>3. o = Op(a.op, a.target, a.value)  BY <1>1
  <1>4. o.op = a.op  BY <1>3 DEF Op
  <1>5. s.action \notin Appends /\ a.op = "set"  BY <1>2, <1>4
  <1>6. s.action \in Sets  BY <1>1, <1>5 DEF Speaks
  <1> QED  BY <1>1, <1>2, <1>3, <1>5, <1>6

LEMMA ReadyOpsAreAccepted == IInv => ReasonedOpsWereAccepted
  <1> SUFFICES ASSUME IInv, Ready, policy.require_accepted_decision,
                      plan.source \in {"reasoner", "fallback"}
               PROVE  answer.ops # {} /\ answer.ops \subseteq decision.ops
    BY DEF ReasonedOpsWereAccepted
  <1>1. /\ GoodReasoning /\ Decided /\ Planned /\ decision.status = "accepted"
        /\ answer.ops = PlannedOps(plan) /\ CanBeSafe(answer.ops)
    BY DEF IInv, AnswerRests, Ready, Required
  <1>2. answer.ops # {} /\ \A o \in answer.ops : o.op = "set"
    BY <1>1 DEF CanBeSafe
  <1>3. CASE plan.source = "fallback"
    <2>1. plan.ops = decision.ops \/ \E r \in Requests : plan = PlanResult(r, reasoning.strategy)
      BY <1>1 DEF Planned
    <2>2. ASSUME NEW r \in Requests, plan = PlanResult(r, reasoning.strategy)
          PROVE  FALSE
      <3>1. r \in PlanRequest  BY RequestAssumption
      <3>2. plan.source \in {"none", "intent", "reasoner", "text"}
        BY <1>1, <2>2, <3>1, PlanResultIsPlan DEF GoodReasoning
      <3> QED  BY <1>3, <3>2
    <2>3. plan.ops = decision.ops  BY <2>1, <2>2
    <2> QED  BY <1>1, <1>2, <2>3 DEF PlannedOps
  <1>4. CASE plan.source = "reasoner" /\ plan.ops = {}
    BY <1>1, <1>2, <1>4 DEF PlannedOps
  <1>5. CASE plan.source = "reasoner" /\ plan.ops # {}
    <2>1. answer.ops = plan.ops  BY <1>1, <1>5 DEF PlannedOps
    <2>2. PICK o \in plan.ops : o.op = "set"  BY <1>2, <2>1
    <2>3. PICK s \in reasoning.strategy : /\ s.action \in Sets
                                          /\ o = Op("set", s.target, s.value)
                                          /\ plan.ops = {o}
      BY <1>1, <1>5, <2>2, AcceptedOpsOfPlan
    <2>4. decision.policy \in Policy /\ Status(reasoning, decision.policy) = "accepted"
      BY <1>1, PolicyAssumption DEF Decided
    <2>5. o \in SelectedOps(reasoning, decision.policy)
      BY <1>1, <2>3, <2>4, AcceptedStepIsSelected DEF GoodReasoning
    <2>6. o \in decision.ops  BY <1>1, <2>5 DEF Decided
    <2> QED  BY <1>2, <2>1, <2>3, <2>6
  <1> QED  BY <1>3, <1>4, <1>5

LEMMA ReadyOpsAreInRange == IInv => ReadyValuesInRange
  <1> SUFFICES ASSUME IInv, Ready, policy.require_plan_success, NEW o \in answer.ops
               PROVE  InRange(o)
    BY DEF ReadyValuesInRange
  <1>1. GoodReasoning /\ Planned /\ Succeeded(plan) /\ answer.ops = PlannedOps(plan)
    BY DEF IInv, AnswerRests, Ready
  <1>2. plan.success /\ plan.ops # {} /\ answer.ops = plan.ops
    BY <1>1 DEF Succeeded, PlannedOps
  <1>3. PICK r \in Requests : plan = PlanResult(r, reasoning.strategy)
    BY <1>1, <1>2 DEF Planned
  <1>4. r \in PlanRequest /\ plan # NoPlan  BY <1>2, RequestAssumption DEF NoPlan
  <1>5. PICK i \in 1..3 : IsResult(plan, Actions(r, reasoning.strategy)[i],
                                   <<"intent", "reasoner", "text">>[i])
    BY <1>1, <1>3, <1>4, PlanResultShape DEF GoodReasoning
  <1>6. PICK a \in Actions(r, reasoning.strategy)[i] : o = Op(a.op, a.target, a.value)
    BY <1>2, <1>5 DEF IsResult
  <1>7. ~OutOfRange(a)  BY <1>2, <1>5, <1>6 DEF IsResult
  <1> QED  BY <1>6, <1>7, RangeOfAction

LEMMA DefaultAcceptsNothing == IInv => NothingAcceptedByDefault
  <1> SUFFICES ASSUME IInv, decision.policy.min_confidence \in 51..100,
                      decision.status = "accepted"
               PROVE  FALSE
    BY DEF NothingAcceptedByDefault
  <1>1. GoodReasoning /\ Decided
    BY DEF IInv, StagesRelyOnEarlierOnes, NoDecision
  <1>2. decision.policy \in Policy /\ Status(reasoning, decision.policy) = "accepted"
    BY <1>1, PolicyAssumption DEF Decided
  <1> QED  BY <1>1, <1>2, AcceptedNeedsHalf DEF GoodReasoning

LEMMA OnlyRangeBlocks == IInv => OnlyRangeBlocksAnAcceptedOp
  <1> SUFFICES ASSUME IInv, answer.status = "blocked", plan.source = "reasoner",
                      decision.ops # {}
               PROVE  \E o \in decision.ops : ~InRange(o)
    BY DEF OnlyRangeBlocksAnAcceptedOp
  <1>1. GoodReasoning /\ Decided /\ Planned /\ ~Succeeded(plan)
    BY DEF IInv, AnswerRests
  <1>2. PICK o \in decision.ops : TRUE  OBVIOUS
  <1>11. o \in SelectedOps(reasoning, decision.policy)  BY <1>1, <1>2 DEF Decided
  <1>3. PICK t \in reasoning.strategy : t.action \in Sets /\ o = Op("set", t.target, t.value)
    BY <1>1, <1>11, SelectedOpsComeFromSteps DEF GoodReasoning
  <1>4. PICK s, a :
           /\ s \in reasoning.strategy /\ Speaks(s) /\ a = StepAction(s)
           /\ plan.ops = {Op(a.op, a.target, a.value)}
           /\ plan.success = ~OutOfRange(a)
    BY <1>1, PlanFromReasoner
  <1>5. s = t  BY <1>1, <1>3, <1>4 DEF GoodReasoning, GoodStrategy, Speaks
  <1>6. s.action \notin Appends  BY <1>3, <1>5 DEF Sets, Appends
  <1>7. a.op = "set" /\ a.target = s.target /\ a.value = s.value
    BY <1>4, <1>6 DEF StepAction, Action
  <1>8. o = Op(a.op, a.target, a.value)  BY <1>3, <1>5, <1>7
  <1>9. plan.ops # {} /\ ~plan.success  BY <1>1, <1>4 DEF Succeeded
  <1>10. OutOfRange(a)  BY <1>4, <1>9
  <1> QED  BY <1>8, <1>10, RangeOfAction

LEMMA UsableIsTaken == IInv => UsablePlanIsTaken
  <1> SUFFICES ASSUME IInv, pc = "plan", NEW r \in Requests, r.maxCandidates >= 3,
                      NEW c \in Candidates(r, reasoning.strategy), c.status # "unsafe"
               PROVE  PlanResult(r, reasoning.strategy).success
    BY DEF UsablePlanIsTaken
  <1> DEFINE strategy == reasoning.strategy
             best == Selected(Kept(r, strategy))
             source == CHOOSE s \in {a.source : a \in best.actions} : TRUE
             success == (best.status # "unsafe")
  <1>1. GoodReasoning  BY DEF IInv, StagesRelyOnEarlierOnes
  <1>2. r \in PlanRequest  BY RequestAssumption
  <1>3. c \in Kept(r, strategy)  BY <1>1, <1>2, KeptPlans DEF GoodReasoning
  <1>4. success  BY <1>1, <1>2, <1>3, SelectedPlan DEF GoodReasoning
  <1>5. PlanResult(r, strategy)
          = [success |-> success, ops |-> PlanOps(best), source |-> source]
    BY DEF PlanResult
  <1> HIDE DEF success, source, best
  <1>6. PlanResult(r, strategy).success = success  BY <1>5
  <1> QED  BY <1>4, <1>6

LEMMA StepsFollow == IInv => ObservedStepsFollowTheGoal
  <1> SUFFICES ASSUME IInv, pc = "plan", NEW o \in decision.ops
               PROVE  Follows(reasoning.goal, o, reasoning.observations.steps)
    BY DEF ObservedStepsFollowTheGoal
  <1>1. GoodReasoning /\ Decided  BY DEF IInv, StagesRelyOnEarlierOnes
  <1>2. PICK s \in reasoning.strategy :
          /\ s.action \in Sets /\ o = Op("set", s.target, s.value)
          /\ GoodStep(s, reasoning.goal, reasoning.observations.steps)
    <2>1. o \in SelectedOps(reasoning, decision.policy)  BY <1>1 DEF Decided
    <2> QED  BY <1>1, <2>1, SelectedOpsComeFromSteps DEF GoodReasoning
  <1> QED  BY <1>2 DEF GoodStep

-----------------------------------------------------------------------------
(* The theorems.                                                           *)

(* Whatever the stages raise or refuse, at most one gate is noted for each *)
(* and the answer's ops are ones the planner knows.                        *)
THEOREM TypeCorrect == Spec => []TypeOK
  <1>1. IInv => TypeOK  BY DEF IInv
  <1> QED  BY <1>1, InvariantHolds, PTL

(* No threshold of the default policy has to be known: any min_confidence  *)
(* above a half means that nothing is ever accepted.                       *)
THEOREM NothingAccepted == Spec => []NothingAcceptedByDefault
  BY DefaultAcceptsNothing, InvariantHolds, PTL

(* For every set of decision policies, ready ops made from the strategy    *)
(* have passed the guardrails, although two rankings chose them.           *)
THEOREM ReadyOpsWereAccepted == Spec => []ReasonedOpsWereAccepted
  BY ReadyOpsAreAccepted, InvariantHolds, PTL

(* For every set of requests, ready ops are within the planner's limits.   *)
THEOREM ReadyOpsInRange == Spec => []ReadyValuesInRange
  BY ReadyOpsAreInRange, InvariantHolds, PTL

(* Nothing but its range keeps an accepted op from being planned.          *)
THEOREM BlockedOnlyByRange == Spec => []OnlyRangeBlocksAnAcceptedOp
  BY OnlyRangeBlocks, InvariantHolds, PTL

(* However the plans are costed, room for three keeps a usable one.        *)
THEOREM UsablePlanTaken == Spec => []UsablePlanIsTaken
  BY UsableIsTaken, InvariantHolds, PTL

(* For every number of steps that is observed, the selected op moves it    *)
(* the way the goal says.                                                  *)
THEOREM StepsFollowObserved == Spec => []ObservedStepsFollowTheGoal
  BY StepsFollow, InvariantHolds, PTL

-----------------------------------------------------------------------------
(* Policies.                                                               *)
(* q asks of a step all that p asks: a threshold that is NaN stops nothing *)
(* and is the loosest there is.                                            *)
Stricter(q, p) ==
  /\ \A t \in {<<p.min_confidence, q.min_confidence>>, <<p.min_score, q.min_score>>} :
       t[1] = NaN \/ (t[2] # NaN /\ t[1] <= t[2])
  /\ \A t \in {<<p.max_risk, q.max_risk>>, <<p.max_cost, q.max_cost>>} :
       t[1] = NaN \/ (t[2] # NaN /\ t[2] <= t[1])
  /\ q.allow_non_executable => p.allow_non_executable
  /\ p.require_reasoner_auto_safe => q.require_reasoner_auto_safe
  /\ q.max_decisions <= p.max_decisions

LEMMA StricterAdmitsLess ==
  ASSUME NEW rea, NEW s, NEW goal, NEW steps, GoodStep(s, goal, steps),
         NEW p \in Policy, NEW q \in Policy, Stricter(q, p), Admitted(s, rea, q)
  PROVE  Admitted(s, rea, p)
  <1>1. /\ s.confidence \in Int /\ s.risk \in Int /\ s.cost \in Int /\ s.priority \in Int
    BY DEF GoodStep
  <1>2. CandidateScore(s) \in Int
    <2>1. Points(Executable(s), 800) \in Int /\ AtMost(s.priority - 1, 5) \in Int
      BY <1>1 DEF Points, AtMost
    <2> QED  BY <1>1, <2>1 DEF CandidateScore, Clamp
  <1>3. /\ \A t \in {p.min_confidence, q.min_confidence, p.min_score, q.min_score,
                     p.max_risk, q.max_risk, p.max_cost, q.max_cost} : t = NaN \/ t \in Nat
    BY DEF Policy, Threshold
  <1>4. ~Under(s.confidence, p.min_confidence)
    BY <1>1, <1>3 DEF Stricter, Admitted, Under
  <1>5. ~ScoreUnder(s, p.min_score)
    <2>1. p.min_score = NaN \/ (q.min_score # NaN /\ p.min_score <= q.min_score)
      BY DEF Stricter
    <2>2. ~ScoreUnder(s, q.min_score)  BY DEF Admitted
    <2> QED  BY <1>2, <1>3, <2>1, <2>2 DEF ScoreUnder
  <1>6. ~Over(s.risk, p.max_risk) /\ ~Over(s.cost, p.max_cost)
    <2>1. /\ p.max_risk = NaN \/ (q.max_risk # NaN /\ q.max_risk <= p.max_risk)
          /\ p.max_cost = NaN \/ (q.max_cost # NaN /\ q.max_cost <= p.max_cost)
      BY DEF Stricter
    <2>2. ~Over(s.risk, q.max_risk) /\ ~Over(s.cost, q.max_cost)  BY DEF Admitted
    <2> QED  BY <1>1, <1>3, <2>1, <2>2 DEF Over
  <1> QED  BY <1>4, <1>5, <1>6 DEF Stricter, Admitted

(* Who tightens a decision policy gets no op and no acceptance that the    *)
(* looser policy would have refused, whatever the goal and the facts: the  *)
(* guardrails and the cut after max_decisions work in one direction.       *)
THEOREM StricterAcceptsLess ==
  ASSUME NEW goal, NEW f \in Facts, NEW p \in Policy, NEW q \in Policy, Stricter(q, p)
  PROVE  LET loose == Decide(Reason(goal, f), p)
             strict == Decide(Reason(goal, f), q)
         IN /\ strict.ops \subseteq loose.ops
            /\ strict.status = "accepted" => loose.status = "accepted"
  <1>1. PICK rea : rea = Reason(goal, f)  OBVIOUS
  <1>2. GoodStrategy(rea.strategy, rea.goal, rea.observations.steps)  BY <1>1, ReasonIsGood
  <1>3. Considered(rea, q) \subseteq Considered(rea, p)
    <2>1. PICK x, y, z : rea.strategy = {x, y, z}  BY <1>2 DEF GoodStrategy
    <2>2. ASSUME NEW s \in Considered(rea, q) PROVE s \in Considered(rea, p)
      <3> DEFINE before == {t \in rea.strategy : Earlier(CandidateKey(t), CandidateKey(s))}
      <3>1. before \in SUBSET {x, y, z}  BY <2>1
      <3>2. Cardinality(before) \in Nat  BY <3>1, SmallSets
      <3>3. Rank(rea.strategy, CandidateKey, s) = Cardinality(before) + 1  BY DEF Rank
      <3>4. Rank(rea.strategy, CandidateKey, s) \in Nat  BY <3>2, <3>3
      <3>5. q.max_decisions \in Nat /\ p.max_decisions \in Nat
            /\ q.max_decisions <= p.max_decisions
        BY DEF Policy, Stricter
      <3> HIDE DEF before
      <3> QED  BY <2>2, <3>4, <3>5 DEF Considered
    <2> QED  BY <2>2
  <1>4. \A s \in rea.strategy : Admitted(s, rea, q) => Admitted(s, rea, p)
    BY <1>2, StricterAdmitsLess DEF GoodStrategy
  <1>5. SelectedOps(rea, q) \subseteq SelectedOps(rea, p)
    BY <1>3, <1>4 DEF SelectedOps, Considered
  <1>6. Status(rea, q) = "accepted" => Status(rea, p) = "accepted"
    <2> SUFFICES ASSUME Status(rea, q) = "accepted" PROVE Status(rea, p) = "accepted"
      OBVIOUS
    <2> DEFINE L == Leading(rea.strategy, CandidateKey)
               first == CHOOSE s \in L : TRUE
    <2>1. Admitted(first, rea, q)  BY DEF Status
    <2>2. PICK x, y, z : rea.strategy = {x, y, z}  BY <1>2 DEF GoodStrategy
    <2>3. L # {}
      <3> DEFINE key == [s \in rea.strategy |-> CandidateKey(s)]
      <3>1. \A s \in rea.strategy : IsKey(CandidateKey(s))  BY <1>2, CandidateKeys DEF GoodStrategy
      <3>2. \A s \in rea.strategy : key[s] = CandidateKey(s)  OBVIOUS
      <3> HIDE DEF key
      <3>3. \A s \in rea.strategy : IsKey(key[s])  BY <3>1, <3>2
      <3>4. rea.strategy \in SUBSET {x, y, z} /\ rea.strategy # {}  BY <2>2
      <3>5. \E s \in rea.strategy : \A t \in rea.strategy : ~Earlier(key[t], key[s])
        BY <3>3, <3>4, LeaderExists
      <3> QED  BY <3>2, <3>5 DEF Leading
    <2>4. first \in rea.strategy  BY <2>3 DEF Leading
    <2>5. Admitted(first, rea, p)  BY <1>4, <2>1, <2>4
    <2> QED  BY <2>5 DEF Status
  <1>7. /\ Decide(rea, q).ops = SelectedOps(rea, q) /\ Decide(rea, p).ops = SelectedOps(rea, p)
        /\ Decide(rea, q).status = Status(rea, q) /\ Decide(rea, p).status = Status(rea, p)
    BY DEF Decide
  <1> QED  BY <1>1, <1>5, <1>6, <1>7
=============================================================================
