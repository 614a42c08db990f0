---------------------------- MODULE PolicyReducer ----------------------------
(***************************************************************************)
(* synthesizePolicyInsightV1 and validateSemantic: the advice reduced from *)
(* a market read, a position's plan and the evidence selected, and whether *)
(* the contract lets it be stored.  The ordered scales (risk, confidence,  *)
(* posture, sensitivity) are numbers; texts, references and the values of  *)
(* price levels are left out.                                              *)
(***************************************************************************)
EXTENDS Integers, FiniteSets, FiniteSetsExt

CONSTANTS
  NoPlan,
  Lifetime,     \* maxInsightLifetimeMs
  PositionAge,  \* positionMaxAgeMs
  HardMs        \* hardStaleSeconds of the market read

\* SOL_USDC_POLICY_V1.reasonOrder, and the code without a place in it.
ReasonOrder ==
  <<"DATA_HARD_STALE", "DATA_INSUFFICIENT_SAMPLES", "CLMM_BREACH_LOWER", "CLMM_BREACH_UPPER",
    "CHURN_STAND_DOWN_ACTIVE", "CHURN_COOLDOWN_ACTIVE", "MARKET_REGIME_UP", "MARKET_REGIME_DOWN",
    "MARKET_REGIME_CHOP", "FEATURE_THRESHOLD_BREACHED", "CONTEXTUAL_EVIDENCE_VOTE",
    "RESEARCH_BRIEF_ANALYSIS", "NO_ELIGIBLE_PRICE_LEVELS">>

\* Mutant: the contract puts the evidence before the regime.
EvidenceFirst ==
  <<"CHURN_STAND_DOWN_ACTIVE", "CHURN_COOLDOWN_ACTIVE", "DATA_HARD_STALE",
    "DATA_INSUFFICIENT_SAMPLES", "CLMM_BREACH_LOWER", "CLMM_BREACH_UPPER",
    "FEATURE_THRESHOLD_BREACHED", "CONTEXTUAL_EVIDENCE_VOTE", "RESEARCH_BRIEF_ANALYSIS",
    "MARKET_REGIME_UP", "MARKET_REGIME_DOWN", "MARKET_REGIME_CHOP", "NO_ELIGIBLE_PRICE_LEVELS">>

\* REASON_CODE_PRECEDENCE of the contract.
Precedence ==
  <<"CHURN_STAND_DOWN_ACTIVE", "CHURN_COOLDOWN_ACTIVE", "DATA_HARD_STALE",
    "DATA_INSUFFICIENT_SAMPLES", "CLMM_BREACH_LOWER", "CLMM_BREACH_UPPER", "MARKET_REGIME_UP",
    "MARKET_REGIME_DOWN", "MARKET_REGIME_CHOP", "NO_ELIGIBLE_PRICE_LEVELS",
    "FEATURE_THRESHOLD_BREACHED", "CONTEXTUAL_EVIDENCE_VOTE", "RESEARCH_BRIEF_ANALYSIS">>

\* The table "reasonCode (Ordered Priority)" of the contract's document.
Documented ==
  <<"DATA_HARD_STALE", "DATA_INSUFFICIENT_SAMPLES", "CLMM_BREACH_LOWER", "CLMM_BREACH_UPPER",
    "CHURN_STAND_DOWN_ACTIVE", "CHURN_COOLDOWN_ACTIVE", "MARKET_REGIME_UP", "MARKET_REGIME_DOWN",
    "MARKET_REGIME_CHOP", "FEATURE_THRESHOLD_BREACHED", "CONTEXTUAL_EVIDENCE_VOTE",
    "RESEARCH_BRIEF_ANALYSIS", "NO_ELIGIBLE_PRICE_LEVELS">>

-----------------------------------------------------------------------------
(* evaluateSharedRules, stage by stage                                     *)

\* Risk 0..2, confidence 0..2, posture 0 aggressive..4 paused, sensitivity 0 paused..3.
Baseline(regime) ==
  CASE regime = "UP"   -> [posture |-> 1, sensitivity |-> 3, capital |-> 100, risk |-> 0]
    [] regime = "DOWN" -> [posture |-> 3, sensitivity |-> 1, capital |-> 50, risk |-> 1]
    [] OTHER           -> [posture |-> 2, sensitivity |-> 2, capital |-> 75, risk |-> 0]

Unsafe(market) == market.fresh.hard \/ market.suitability \in {"UNKNOWN", "BLOCKED"}

Asked(plan) == IF plan = NoPlan THEN "nothing" ELSE plan.action

StandDown(at, plan) ==
  plan # NoPlan /\ (plan.action = "stand_down" \/ plan.standDown > at)

Cooling(at, plan) == plan # NoPlan /\ plan.cooldown > at

\* Mutant: a stand-down is looked at before the plan's exit.
StandDownFirst(at, market, plan) ==
  IF Unsafe(market) \/ StandDown(at, plan) THEN "pause"
  ELSE Asked(plan)

\* The first stage that has a say decides.
ActionLock(at, market, plan) ==
  IF Unsafe(market) THEN "pause"
  ELSE IF Asked(plan) \in {"exit", "hold"} THEN Asked(plan)
  ELSE IF StandDown(at, plan) THEN "pause"
  ELSE "nothing"

PostureLocked(at, market, plan) == Unsafe(market) \/ StandDown(at, plan)

AllowClmm(at, market, plan) == ~(PostureLocked(at, market, plan) \/ Asked(plan) = "exit")

\* claims: set of [direction, expires]; hot: a bound feature is over its
\* threshold; thesis: bias of the S/R theses; levels: an eligible one is given.
NoEvidence ==
  [claims |-> {}, conflict |-> FALSE, hot |-> FALSE, brief |-> FALSE, thesis |-> "none", levels |-> FALSE]

\* A claim that ran out before the synthesis has no vote.
Counted(at, evidence) == {c \in evidence.claims : c.expires >= at}

Votes(at, evidence, direction) ==
  Cardinality({c \in Counted(at, evidence) : c.direction = direction})
    + (IF evidence.thesis = direction THEN 1 ELSE 0)

Vote(at, evidence) ==
  LET bull == Votes(at, evidence, "bullish")
      bear == Votes(at, evidence, "bearish")
  IN IF evidence.conflict \/ (bull > 0 /\ bear > 0) THEN "conflict"
     ELSE IF bear > bull THEN "bearish"
     ELSE IF bull > bear THEN "bullish"
     ELSE "none"

Reasons(at, market, plan, evidence) ==
  (IF market.fresh.hard THEN {"DATA_HARD_STALE"} ELSE {})
  \cup (IF market.suitability \in {"UNKNOWN", "BLOCKED"} THEN {"DATA_INSUFFICIENT_SAMPLES"} ELSE {})
  \cup (IF Asked(plan) = "exit" /\ plan.position.range = "below" THEN {"CLMM_BREACH_LOWER"} ELSE {})
  \cup (IF Asked(plan) = "exit" /\ plan.position.range = "above" THEN {"CLMM_BREACH_UPPER"} ELSE {})
  \cup (IF StandDown(at, plan) THEN {"CHURN_STAND_DOWN_ACTIVE"} ELSE {})
  \cup (IF Cooling(at, plan) THEN {"CHURN_COOLDOWN_ACTIVE"} ELSE {})
  \cup {CASE market.regime = "UP" -> "MARKET_REGIME_UP" [] market.regime = "DOWN" -> "MARKET_REGIME_DOWN"
          [] OTHER -> "MARKET_REGIME_CHOP"}
  \cup (IF evidence.hot THEN {"FEATURE_THRESHOLD_BREACHED"} ELSE {})
  \cup (IF Vote(at, evidence) # "none" THEN {"CONTEXTUAL_EVIDENCE_VOTE"} ELSE {})
  \cup (IF evidence.brief THEN {"RESEARCH_BRIEF_ANALYSIS"} ELSE {})
  \cup (IF plan = NoPlan /\ ~evidence.levels THEN {"NO_ELIGIBLE_PRICE_LEVELS"} ELSE {})

\* Mutant: the claims that carry the vote do not bound the advice.
ExpiryOfFacts(at, plan, evidence) ==
  Min({at + Lifetime, at + HardMs} \cup (IF plan = NoPlan THEN {} ELSE {plan.observed + PositionAge}))

\* The market read was generated at the synthesis.
Expiry(at, plan, evidence) ==
  Min({at + Lifetime, at + HardMs}
      \cup (IF plan = NoPlan THEN {} ELSE {plan.observed + PositionAge})
      \cup {c.expires : c \in Counted(at, evidence)})

-----------------------------------------------------------------------------
(* deriveCanonicalRecommendedAction and the composition                    *)

RecommendedAction(at, market, plan) ==
  LET lock    == ActionLock(at, market, plan)
      outside == plan # NoPlan /\ plan.position.range # "in" /\ ~plan.position.qualified
  IN IF lock = "exit"
     THEN IF plan.position.range = "below" THEN "EXIT_TO_USDC" ELSE "EXIT_TO_SOL"
     ELSE IF lock = "pause" \/ PostureLocked(at, market, plan) THEN "STAND_DOWN"
     ELSE IF outside /\ plan.position.range = "below" THEN "MONITOR_LOWER_BOUND"
     ELSE IF outside THEN "MONITOR_UPPER_BOUND"
     ELSE "HOLD"

\* Later stages overwrite the floor of earlier ones.
RiskFloor(at, market, evidence) ==
  IF evidence.hot \/ Vote(at, evidence) \in {"conflict", "bearish"} THEN 1
  ELSE IF Unsafe(market) THEN 2 ELSE 0

Confidence(at, market, evidence) ==
  IF Unsafe(market) \/ Vote(at, evidence) = "conflict" THEN 0
  ELSE IF Vote(at, evidence) = "bullish" THEN 2 ELSE 1

\* A vote moves the posture by a step, unless it is locked.
Leaned(posture, vote) ==
  IF vote = "bearish" THEN Min({4, posture + 1})
  ELSE IF vote = "bullish" THEN Max({0, posture - 1})
  ELSE posture

\* Mutant: the vote moves the posture after the locks.
LeanAfterLocks(at, market, plan, evidence) ==
  Leaned(IF AllowClmm(at, market, plan) THEN Baseline(market.regime).posture ELSE 4, Vote(at, evidence))

Posture(at, market, plan, evidence) ==
  IF AllowClmm(at, market, plan) THEN Leaned(Baseline(market.regime).posture, Vote(at, evidence)) ELSE 4

Capital(at, market, plan, evidence) ==
  LET base == Baseline(market.regime).capital
  IN IF ~AllowClmm(at, market, plan) THEN 0
     ELSE IF Vote(at, evidence) = "bearish" THEN Min({base, 50})
     ELSE base

Reduce(at, scope, market, plan, evidence) ==
  [generated   |-> at,
   asOf        |-> Min({market.fresh.close, at - 1}),
   expires     |-> Expiry(at, plan, evidence),
   scope       |-> scope,
   action      |-> RecommendedAction(at, market, plan),
   risk        |-> Max({Baseline(market.regime).risk, RiskFloor(at, market, evidence)}),
   confidence  |-> Confidence(at, market, evidence),
   posture     |-> Posture(at, market, plan, evidence),
   sensitivity |-> IF AllowClmm(at, market, plan) THEN Baseline(market.regime).sensitivity ELSE 0,
   capital     |-> Capital(at, market, plan, evidence),
   reasons     |-> Reasons(at, market, plan, evidence)]

-----------------------------------------------------------------------------
(* validateSemantic                                                        *)

Rank(order, code) == CHOOSE i \in DOMAIN order : order[i] = code

\* The reducer writes the codes by the ruleset's order, each of them once.
InOrder(codes, order) ==
  \A a, b \in codes : Rank(ReasonOrder, a) < Rank(ReasonOrder, b) => Rank(order, a) < Rank(order, b)

NeedPosition == {"EXIT_TO_SOL", "EXIT_TO_USDC", "MONITOR_LOWER_BOUND", "MONITOR_UPPER_BOUND"}

\* The first rule the advice breaks.
Refusal(out) ==
  IF out.asOf >= out.generated THEN "asOf"
  ELSE IF out.generated >= out.expires THEN "expired"
  ELSE IF out.scope = "pair" /\ out.action \in NeedPosition THEN "position"
  ELSE IF ~InOrder(out.reasons, Precedence) THEN "order"
  ELSE "none"
=============================================================================
