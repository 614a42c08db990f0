------------------------ MODULE PolicyInsightsProofs ------------------------
(***************************************************************************)
(* What advice may be relied on for, whatever the candles, the plans and   *)
(* the evidence: a plan's guards hold, evidence never loosens, an insight  *)
(* ends with its inputs, the contract refuses none but in three cases, and *)
(* a plan's regime changes only when confirmed.  The last relates the      *)
(* client's counters to the regimes its plans wanted; the others are about *)
(* the reducer, and need of the history only that its inputs were a plan   *)
(* and a market as the service makes them.                                 *)
(***************************************************************************)
EXTENDS PolicyInsights, FiniteSetTheorems, SequenceTheorems, TLAPS

-----------------------------------------------------------------------------
(* Sets of numbers                                                         *)

\* A set of naturals has a least member (Min chooses it).
LEMMA NatMin ==
  ASSUME NEW S, S \subseteq Nat, S # {}
  PROVE  Min(S) \in S /\ \A x \in S : Min(S) <= x
<1>1. PICK top \in S : TRUE
  OBVIOUS
<1> DEFINE T        == {y \in S : y <= top}
           Below(y) == {z \in T : z <= y}
           F        == {Below(y) : y \in T}
           R        == StrictSubsetOrdering(T)
<1>2. IsFiniteSet(T)
  BY <1>1, FS_BoundedSetOfNaturals
<1>3. F \subseteq FiniteSubsetsOf(T) /\ F # {}
  <2>1. \A y \in T : IsFiniteSet(Below(y)) /\ Below(y) \in SUBSET T
    BY <1>2, FS_Subset
  <2>2. T # {}
    BY <1>1
  <2> QED
    BY <2>1, <2>2 DEF FiniteSubsetsOf
<1>4. \E U \in F : \A V \in F : ~ (<<V, U>> \in R)
  <2> HIDE DEF F, R
  <2>1. IsWellFoundedOn(R, FiniteSubsetsOf(T))
    BY FS_StrictSubsetOrderingWellFounded DEF R
  <2> QED
    BY <1>3, <2>1, WFMin
<1>5. PICK m \in T : \A V \in F : ~ (<<V, Below(m)>> \in R)
  BY <1>4
<1>6. \A y \in T : m <= y
  <2>0. T \subseteq Nat /\ m \in Nat
    OBVIOUS
  <2> SUFFICES ASSUME NEW y \in T, y < m PROVE FALSE
    BY <2>0
  <2>1. Below(y) \subseteq Below(m) /\ m \in Below(m) /\ m \notin Below(y)
    BY <2>0
  <2>2. <<Below(y), Below(m)>> \in R
    BY <2>1 DEF StrictSubsetOrdering
  <2> QED
    BY <1>5, <2>2
<1>7. m \in S /\ \A y \in S : m <= y
  BY <1>1, <1>6
<1> QED
  BY <1>7 DEF Min

\* And a bounded one has a greatest.
LEMMA NatMax ==
  ASSUME NEW S, S \subseteq Nat, S # {}, NEW top \in Int, \A x \in S : x <= top
  PROVE  Max(S) \in S
<1> DEFINE below == {top - x : x \in S}
<1>0. \A x \in S : top - x \in Nat
  OBVIOUS
<1>1. below \subseteq Nat /\ below # {}
  BY <1>0
<1>2. PICK least \in below : \A y \in below : least <= y
  <2> HIDE DEF below
  <2> QED
    BY <1>1, NatMin
<1>3. PICK m \in S : least = top - m
  BY <1>2
<1>4. \A x \in S : m >= x
  BY <1>2, <1>3
<1> QED
  BY <1>4 DEF Max

-----------------------------------------------------------------------------
(* Markets, plans and answers                                              *)

\* What the service knows of a plan it made.
PlanSound(p) == p # NoPlan =>
  /\ p.position \in Positions /\ p.observed \in Nat /\ p.asOf \in Nat
  /\ p.action \in {"exit", "stand_down", "hold"}
  /\ p.asOf - p.observed \in 0..ObservationAge
  /\ p.action = "stand_down" => p.standDown >= p.asOf
  /\ Breached(p.position) => p.action = "exit"

\* And of a market it read.
MarketSound(m) ==
  /\ m.suitability \in {"UNKNOWN", "BLOCKED", "CAUTION", "ALLOWED"}
  /\ m.fresh.hard => m.suitability = "UNKNOWN"
  /\ m.fresh.close \in Int

\* The advice is the reducer's answer to what was kept of its inputs.
AnswerSound == answer # NoAnswer =>
  /\ Advice = Reducer!Reduce(Advice.generated, Advice.scope, answer.market, answer.plan, answer.evidence)
  /\ answer.refusal = Reducer!Refusal(Advice)
  /\ Advice.generated \in 0..now
  /\ PlanSound(answer.plan) /\ MarketSound(answer.market)
  /\ Advice.scope = "pair" => answer.plan = NoPlan
  /\ answer.plan # NoPlan => Advice.generated - answer.plan.observed <= PositionAge
  /\ \A c \in answer.evidence.claims : c.expires \in Nat

\* The inductive invariant.
InsightInv ==
  /\ now \in 0..MaxTime /\ opens \subseteq Slots /\ tele \in Readings
  /\ PlanSound(plan) /\ (plan # NoPlan => plan.asOf <= now)
  /\ AnswerSound

\* An hour begins at a natural number if its quarters do.
LEMMA HourIsNat ==
  ASSUME NEW o \in Nat, NEW bar \in Nat \ {0}
  PROVE  (o \div bar) * bar \in Nat
<1>1. o \div bar \in Nat
  OBVIOUS
<1> HIDE DEF Nat
<1> QED
  BY <1>1

\* The bars read are closed ones of those stored, so the newest is one of them.
LEMMA NewestBar ==
  ASSUME opens \subseteq Slots, NEW at \in Nat, Bars(Frame, opens, at) # {}
  PROVE  Max(Bars(Frame, opens, at)) \in Nat
<1> DEFINE c == Config[Frame]
           cut == Cutoff(at, c)
<1>1. /\ Frame \in Timeframes /\ Slots \subseteq Nat
      /\ c.bar \in Nat \ {0} /\ c.delay \in Nat /\ Config["1h"].bar \in Nat \ {0}
  BY MarketAssumption, PlanAssumption, InsightAssumption DEF Timeframes
<1>2. cut \in Int
  <2>1. (at - c.delay) \div c.bar \in Int
    BY <1>1
  <2> QED
    BY <1>1, <2>1 DEF Cutoff
<1>3. \A x \in Bars(Frame, opens, at) : x <= cut
  BY <1>1 DEF Bars, Timeframes
<1>4. Bars(Frame, opens, at) \subseteq Nat
  <2>1. \A S : S \subseteq Nat => Aggregate(S) \subseteq Nat
    BY <1>1, HourIsNat DEF Aggregate
  <2> QED
    BY <1>1, <2>1 DEF Bars
<1> HIDE DEF cut
<1> QED
  BY <1>2, <1>3, <1>4, NatMax

\* Every reading leaves a sound market: candles too old to trust say UNKNOWN.
LEMMA MarketIsSound ==
  ASSUME opens \subseteq Slots, NEW at \in Nat, Bars(Frame, opens, at) # {}, NEW regime, NEW reading
  PROVE  MarketSound(MarketAt(at, opens, regime, reading))
<1>1. Config[Frame].bar \in Nat
  BY MarketAssumption, PlanAssumption
<1>2. Max(Bars(Frame, opens, at)) + Config[Frame].bar \in Int
  BY <1>1, NewestBar
<1> QED
  BY <1>2 DEF MarketSound, MarketAt, Suitability, Freshness

\* A stand-down does not end before it begins, whichever counter calls for it.
LEMMA StandDownLasts ==
  ASSUME NEW at \in Nat, NEW churn \in Churn, StandsDown(at, churn)
  PROVE  StandDownUntil(at, churn) >= at
<1> DEFINE cooled == IF churn.cooldown > at THEN churn.cooldown ELSE 0
           spent  == IF churn.spent THEN at + CooldownMs ELSE 0
           ends   == {churn.standDown, cooled, spent}
<1>1. churn.standDown \in Nat /\ cooled \in Nat /\ spent \in Nat
  BY PlanAssumption DEF Churn
<1>2. churn.standDown >= at \/ cooled >= at \/ spent >= at
  BY PlanAssumption DEF StandsDown, Churn
<1> HIDE DEF cooled, spent
<1>3. Max(ends) \in ends /\ \A x \in ends : Max(ends) >= x
  BY <1>1 DEF Max
<1>4. StandDownUntil(at, churn) = Max(ends)
  BY DEF StandDownUntil, cooled, spent
<1> HIDE DEF ends
<1>5. Max(ends) \in Nat /\ Max(ends) >= churn.standDown /\ Max(ends) >= cooled /\ Max(ends) >= spent
  BY <1>1, <1>3 DEF ends
<1> QED
  BY <1>1, <1>2, <1>4, <1>5

\* A plan asks for an exit whenever the position is breached, and is made of a
\* recent observation.
LEMMA PlanIsSound ==
  ASSUME now \in 0..MaxTime, NEW r \in Requests(now), Plannable(now, opens, r.observed), NEW suitability
  PROVE  PlanSound(BuildPlan(now, r.position, r.observed, r.churn, r.active, suitability))
<1> DEFINE p == BuildPlan(now, r.position, r.observed, r.churn, r.active, suitability)
<1>1. r.position \in Positions /\ r.churn \in Churn /\ r.observed \in 0..now /\ now \in Nat
  BY InsightAssumption
<1>2. /\ p.position = r.position /\ p.observed = r.observed /\ p.asOf = now
      /\ p.action = PlanAction(r.position, suitability, r.active, StandsDown(now, r.churn))
      /\ p.standDown = StandDownUntil(now, r.churn)
  BY DEF BuildPlan
<1> HIDE DEF p
<1>3. p.asOf - p.observed \in 0..ObservationAge
  BY <1>1, <1>2, PlanAssumption DEF Plannable
<1>4. p.action = "stand_down" => p.standDown >= p.asOf
  BY <1>1, <1>2, StandDownLasts DEF PlanAction
<1>5. p.action \in {"exit", "stand_down", "hold"} /\ (Breached(p.position) => p.action = "exit")
  BY <1>2 DEF PlanAction
<1> QED
  BY <1>1, <1>2, <1>3, <1>4, <1>5 DEF PlanSound, p

\* Nothing is asked or answered at first.
LEMMA InitInsight == Init => InsightInv
BY InsightAssumption DEF Init, InsightInv, PlanSound, AnswerSound

\* Ticks and candles leave the last answer alone, a request makes a sound plan,
\* and a synthesis is answered by the reducer with what the service holds.
LEMMA StepInsight == InsightInv /\ [Next]_vars => InsightInv'
<1> SUFFICES ASSUME InsightInv, [Next]_vars PROVE InsightInv'
  OBVIOUS
<1> USE DEF InsightInv
<1>1. CASE Tick
  <2>1. now' = now + 1 /\ now' \in 0..MaxTime /\ UNCHANGED <<opens, tele, plan, answer>>
    BY <1>1, InsightAssumption DEF Tick
  <2>2. plan # NoPlan => plan.asOf <= now'
    BY <2>1 DEF PlanSound
  <2>3. answer # NoAnswer => Advice.generated \in 0..now'
    BY <2>1 DEF AnswerSound
  <2> QED
    BY <2>1, <2>2, <2>3 DEF AnswerSound, Advice, PlanSound, MarketSound
<1>2. ASSUME NEW o \in Slots, Store(o) PROVE InsightInv'
  BY <1>2 DEF Store, AnswerSound, PlanSound
<1>3. ASSUME NEW r \in Requests(now), RequestPlan(r) PROVE InsightInv'
  <2>1. PlanSound(plan') /\ plan'.asOf = now
    BY <1>3, PlanIsSound DEF RequestPlan, BuildPlan
  <2> QED
    BY <1>3, <2>1 DEF RequestPlan, AnswerSound, PlanSound
<1>4. ASSUME NEW scope \in {"pair", "position"}, NEW e \in Evidences(now), Synthesize(scope, e)
      PROVE  InsightInv'
  <2> DEFINE used == IF scope = "pair" THEN NoPlan ELSE plan
             out  == Reducer!Reduce(now, scope, CurrentMarket, used, e)
  <2>1. /\ answer'.out = out /\ answer'.market = CurrentMarket /\ answer'.plan = used
        /\ answer'.evidence = e /\ answer'.refusal = Reducer!Refusal(out)
        /\ UNCHANGED <<now, opens, tele, plan>>
    BY <1>4 DEF Synthesize
  <2>2. out.generated = now /\ out.scope = scope
    BY DEF Reducer!Reduce
  <2>3. /\ PlanSound(used) /\ (scope = "pair" => used = NoPlan)
        /\ used # NoPlan => now - used.observed <= PositionAge
    BY <1>4 DEF PlanSound, Synthesize
  <2>4. MarketSound(CurrentMarket)
    BY <1>4, InsightAssumption, MarketIsSound DEF CurrentMarket, Synthesize
  <2> HIDE DEF used, out
  <2>5. AnswerSound'
    BY <2>1, <2>2, <2>3, <2>4, InsightAssumption DEF AnswerSound, Advice, PlanSound, MarketSound, out
  <2> QED
    BY <2>1, <2>5 DEF PlanSound
<1>5. CASE UNCHANGED vars
  BY <1>5 DEF vars, AnswerSound, Advice, PlanSound
<1> QED
  BY <1>1, <1>2, <1>3, <1>4, <1>5 DEF Next

\* So every answer is the reducer's, of sound inputs.
LEMMA InductiveInsight == Spec => []InsightInv
BY InitInsight, StepInsight, PTL DEF Spec

\* A plan's exit and its stand-down hold as long as they apply, and nothing is
\* deployed under either nor in a market that is not fit, for all evidence.
THEOREM GuardsCorrect == Spec => []GuardsHold
<1>1. InsightInv => GuardsHold
  <2> SUFFICES ASSUME InsightInv, answer # NoAnswer, answer.plan # NoPlan PROVE GuardsHold
    BY DEF GuardsHold
  <2>1. /\ PlanSound(answer.plan) /\ MarketSound(answer.market)
        /\ Advice = Reducer!Reduce(Advice.generated, Advice.scope, answer.market, answer.plan, answer.evidence)
    BY DEF InsightInv, AnswerSound
  <2>2. /\ Advice.action = Reducer!RecommendedAction(Advice.generated, answer.market, answer.plan)
        /\ Advice.capital = Reducer!Capital(Advice.generated, answer.market, answer.plan, answer.evidence)
    BY <2>1 DEF Reducer!Reduce
  <2>3. Advice.capital > 0 => Reducer!AllowClmm(Advice.generated, answer.market, answer.plan)
    BY <2>2 DEF Reducer!Capital
  <2> QED
    BY <2>1, <2>2, <2>3 DEF GuardsHold, PlanSound, MarketSound, Breached, Positions,
       Reducer!RecommendedAction, Reducer!ActionLock, Reducer!PostureLocked, Reducer!AllowClmm,
       Reducer!Unsafe, Reducer!Asked, Reducer!StandDown
<1> QED
  BY <1>1, InductiveInsight, PTL

-----------------------------------------------------------------------------
(* How long advice is good for                                             *)

\* Advice ends with the first of its inputs to end.
LEMMA ExpiryBounds ==
  ASSUME NEW at \in Nat, NEW p, PlanSound(p), NEW e, \A c \in e.claims : c.expires \in Nat
  PROVE  LET x == Reducer!Expiry(at, p, e)
         IN /\ x \in Nat
            /\ x <= at + Lifetime /\ x <= at + Config[Frame].hard
            /\ p # NoPlan => x <= p.observed + PositionAge
            /\ \A c \in Reducer!Counted(at, e) : x <= c.expires
            /\ \/ x = at + Lifetime \/ x = at + Config[Frame].hard
               \/ p # NoPlan /\ x = p.observed + PositionAge
               \/ \E c \in Reducer!Counted(at, e) : x = c.expires
<1> DEFINE ends == {at + Lifetime, at + Config[Frame].hard}
                   \cup (IF p = NoPlan THEN {} ELSE {p.observed + PositionAge})
                   \cup {c.expires : c \in Reducer!Counted(at, e)}
<1>1. Config[Frame].hard \in Nat
  BY MarketAssumption, PlanAssumption
<1>2. \A c \in Reducer!Counted(at, e) : c.expires \in Nat
  BY DEF Reducer!Counted
<1>3. ends \subseteq Nat /\ ends # {}
  BY <1>1, <1>2, InsightAssumption DEF PlanSound
<1>4. Min(ends) \in ends /\ \A x \in ends : Min(ends) <= x
  <2> HIDE DEF ends
  <2> QED
    BY <1>3, NatMin
<1>5. Reducer!Expiry(at, p, e) = Min(ends)
  BY DEF Reducer!Expiry, Reducer!Min, Min
<1> QED
  BY <1>3, <1>4, <1>5

\* An insight is not to be used once a claim that voted for it, its position's
\* observation or its own lifetime has ended.
THEOREM LiveInputs == Spec => []LiveAdviceHasLiveInputs
<1>1. InsightInv => LiveAdviceHasLiveInputs
  <2> SUFFICES ASSUME InsightInv, answer # NoAnswer, now < Advice.expires
               PROVE  LiveAdviceHasLiveInputs
    BY DEF LiveAdviceHasLiveInputs
  <2> DEFINE at == Advice.generated
  <2>1. /\ PlanSound(answer.plan) /\ at \in Nat /\ now \in Nat
        /\ \A c \in answer.evidence.claims : c.expires \in Nat
        /\ Advice.expires = Reducer!Expiry(at, answer.plan, answer.evidence)
    BY DEF InsightInv, AnswerSound, Reducer!Reduce
  <2>2. /\ Advice.expires \in Nat /\ Advice.expires <= at + Lifetime
        /\ answer.plan # NoPlan => Advice.expires <= answer.plan.observed + PositionAge
        /\ \A c \in Reducer!Counted(at, answer.evidence) : Advice.expires <= c.expires
    BY <2>1, ExpiryBounds
  <2>3. \A c \in answer.evidence.claims : c.expires >= at => c \in Reducer!Counted(at, answer.evidence)
    BY DEF Reducer!Counted
  <2>4. answer.plan # NoPlan => answer.plan.observed \in Nat
    BY <2>1 DEF PlanSound
  <2> HIDE DEF at
  <2>5. \A c \in answer.evidence.claims : c.expires >= at => now <= c.expires
    BY <2>1, <2>2, <2>3
  <2>6. answer.plan # NoPlan => now - answer.plan.observed < PositionAge
    BY <2>1, <2>2, <2>4, InsightAssumption
  <2>7. now - at < Lifetime
    BY <2>1, <2>2, InsightAssumption
  <2> QED
    BY <2>5, <2>6, <2>7 DEF LiveAdviceHasLiveInputs, at
<1> QED
  BY <1>1, InductiveInsight, PTL

\* Evidence changes no action, reopens nothing that is paused, and makes
\* neither capital, sensitivity nor lifetime grow.
THEOREM EvidenceTightens == Spec => []EvidenceNeverLoosens
<1>1. InsightInv => EvidenceNeverLoosens
  <2> SUFFICES ASSUME InsightInv, answer # NoAnswer PROVE EvidenceNeverLoosens
    BY DEF EvidenceNeverLoosens
  <2> DEFINE at    == Advice.generated
             m     == answer.market
             p     == answer.plan
             e     == answer.evidence
             quiet == Reducer!Reduce(at, Advice.scope, m, p, Reducer!NoEvidence)
  <2>1. /\ PlanSound(p) /\ at \in Nat /\ \A c \in e.claims : c.expires \in Nat
        /\ Advice = Reducer!Reduce(at, Advice.scope, m, p, e)
    BY DEF InsightInv, AnswerSound
  <2>2. Reducer!Counted(at, Reducer!NoEvidence) = {}
    BY DEF Reducer!Counted, Reducer!NoEvidence
  <2>3. Reducer!Vote(at, Reducer!NoEvidence) = "none"
    <3> DEFINE quietly == Reducer!NoEvidence
    <3>1. \A d : {c \in Reducer!Counted(at, quietly) : c.direction = d} = {}
      BY <2>2
    <3>2. \A d : Reducer!Votes(at, quietly, d) = Cardinality({}) + (IF quietly.thesis = d THEN 1 ELSE 0)
      BY <3>1 DEF Reducer!Votes, Reducer!Cardinality, Cardinality
    <3>3. Cardinality({}) = 0 /\ quietly.thesis = "none" /\ ~quietly.conflict
      BY FS_EmptySet DEF Reducer!NoEvidence
    <3> HIDE DEF quietly
    <3>4. Reducer!Votes(at, quietly, "bullish") = 0 /\ Reducer!Votes(at, quietly, "bearish") = 0
      BY <3>2, <3>3
    <3> QED
      BY <3>3, <3>4 DEF Reducer!Vote, quietly
  <2>4. Advice.action = quiet.action /\ Advice.sensitivity = quiet.sensitivity
    BY <2>1 DEF Reducer!Reduce
  <2>5. quiet.posture = 4 => Advice.posture = 4
    BY <2>1, <2>3 DEF Reducer!Reduce, Reducer!Posture, Reducer!Leaned, Reducer!Baseline
  <2>6. quiet.confidence = 0 => Advice.confidence = 0
    BY <2>1, <2>3 DEF Reducer!Reduce, Reducer!Confidence
  <2>7. Advice.capital <= quiet.capital
    <3>1. Reducer!Baseline(m.regime).capital \in Nat
      BY DEF Reducer!Baseline
    <3>2. \A n \in Nat : Reducer!Min({n, 50}) <= n
      <4> SUFFICES ASSUME NEW n \in Nat PROVE Min({n, 50}) <= n
        BY DEF Reducer!Min, Min
      <4> QED
        BY NatMin
    <3> QED
      BY <2>1, <2>3, <3>1, <3>2 DEF Reducer!Reduce, Reducer!Capital
  <2>8. quiet.expires \in Nat /\ Advice.expires \in Nat /\ Advice.expires <= quiet.expires
    <3>1. \A c \in Reducer!NoEvidence.claims : c.expires \in Nat
      BY DEF Reducer!NoEvidence
    <3>2. Advice.expires = Reducer!Expiry(at, p, e) /\ quiet.expires = Reducer!Expiry(at, p, Reducer!NoEvidence)
      BY <2>1 DEF Reducer!Reduce
    <3> HIDE DEF at, p, e, quiet
    <3> QED
      BY <2>1, <2>2, <3>1, <3>2, ExpiryBounds
  <2>9. Advice.sensitivity <= quiet.sensitivity
    <3>1. quiet.sensitivity \in Nat
      BY DEF Reducer!Reduce, Reducer!Baseline
    <3> QED
      BY <2>4, <3>1
  <2> QED
    BY <2>4, <2>5, <2>6, <2>7, <2>8, <2>9 DEF EvidenceNeverLoosens
<1> QED
  BY <1>1, InductiveInsight, PTL

-----------------------------------------------------------------------------
(* The regime a client's plans carry                                       *)

\* What a client carries from one plan to the next.
Carried == [current : Regimes, bars : Nat, pending : Regimes \cup {"none"}, count : Nat]

\* The pending regime is another than the current one, and what the last plans
\* wanted, as many as are counted.
SwitchInv ==
  LET c == Config[Frame] IN
    /\ carried \in Carried /\ carried.count < c.confirm
    /\ carried.pending # carried.current /\ (carried.count = 0 <=> carried.pending = "none")
    /\ carried.count > 0 => carried.bars >= c.hold
    /\ wanted \in Seq(Regimes)
    /\ carried.count <= Len(wanted) /\ Len(wanted) <= c.confirm
    /\ \A i \in DOMAIN wanted : i > Len(wanted) - carried.count => wanted[i] = carried.pending

\* The counts of the configured timeframe are usable.
LEMMA FrameConfig ==
  Config[Frame].confirm \in Nat \ {0} /\ Config[Frame].hold \in Nat
BY MarketAssumption, PlanAssumption

\* What is remembered: the new regime last, and before it the latest ones.
LEMMA Remembered ==
  ASSUME NEW w \in Regimes, wanted \in Seq(Regimes), Len(wanted) <= Config[Frame].confirm
  PROVE  LET r == Remember(w) n == Config[Frame].confirm
         IN /\ r \in Seq(Regimes) /\ Len(r) \in Nat \ {0}
            /\ Len(r) = (IF Len(wanted) + 1 > n THEN n ELSE Len(wanted) + 1)
            /\ r[Len(r)] = w
            /\ \A i \in 1..(Len(r) - 1) : r[i] = wanted[Len(wanted) - (Len(r) - 1) + i]
<1> DEFINE n   == Config[Frame].confirm
           all == Append(wanted, w)
<1>1. n \in Nat \ {0} /\ Len(wanted) \in Nat
  BY FrameConfig
<1>2. /\ all \in Seq(Regimes) /\ Len(all) = Len(wanted) + 1 /\ all[Len(wanted) + 1] = w
      /\ \A i \in 1..Len(wanted) : all[i] = wanted[i]
  OBVIOUS
<1> HIDE DEF all
<1>3. CASE Len(all) > n
  <2>1. Remember(w) = Tail(all) /\ Len(wanted) = n
    BY <1>1, <1>2, <1>3 DEF Remember, all
  <2>2. /\ Tail(all) \in Seq(Regimes) /\ Len(Tail(all)) = Len(wanted)
        /\ \A i \in 1..Len(wanted) : Tail(all)[i] = all[i + 1]
    BY <1>1, <1>2, <1>3
  <2>3. Tail(all)[n] = w
    BY <1>1, <1>2, <2>1, <2>2
  <2>4. \A i \in 1..(n - 1) : Tail(all)[i] = wanted[i + 1] /\ n - (n - 1) + i = i + 1
    BY <1>1, <1>2, <2>1, <2>2
  <2> HIDE DEF n
  <2> QED
    BY <1>1, <2>1, <2>2, <2>3, <2>4 DEF n
<1>4. CASE ~(Len(all) > n)
  BY <1>1, <1>2, <1>4 DEF Remember, all
<1> QED
  BY <1>3, <1>4

\* A change of regime, as this step makes it, is confirmed.
Switched == carried'.current # carried.current =>
  /\ carried.bars >= Config[Frame].hold
  /\ Len(wanted') = Config[Frame].confirm
  /\ \A i \in DOMAIN wanted' : wanted'[i] = carried'.current

\* No plan is carried yet.
LEMMA InitSwitch == Init => SwitchInv
BY FrameConfig DEF Init, SwitchInv, Carried, Initial, Regimes

\* A plan counts on from what the client carries, and starts the count again at
\* every change of mind; when the regime changes the count is complete.
LEMMA StepSwitch == SwitchInv /\ [Next]_vars => SwitchInv' /\ Switched
<1> SUFFICES ASSUME SwitchInv, [Next]_vars PROVE SwitchInv' /\ Switched
  OBVIOUS
<1>1. ASSUME NEW r \in Requests(now), RequestPlan(r) PROVE SwitchInv' /\ Switched
  <2> DEFINE c     == Config[Frame]
             want  == Desired(carried.current, tele)
             count == IF carried.pending = want THEN carried.count + 1 ELSE 1
  <2>1. /\ carried \in Carried /\ carried.count < c.confirm
        /\ carried.pending # carried.current /\ (carried.count = 0 <=> carried.pending = "none")
        /\ carried.count > 0 => carried.bars >= c.hold
        /\ wanted \in Seq(Regimes) /\ carried.count <= Len(wanted) /\ Len(wanted) <= c.confirm
        /\ \A i \in DOMAIN wanted : i > Len(wanted) - carried.count => wanted[i] = carried.pending
    BY DEF SwitchInv
  <2>2. want \in Regimes /\ want # "none"
    BY DEF Desired, Regimes
  <2>3. c.confirm \in Nat \ {0} /\ c.hold \in Nat
    BY FrameConfig
  <2>4. carried' = Classify(carried, tele, c) /\ wanted' = Remember(want)
    BY <1>1 DEF RequestPlan
  <2>5. /\ wanted' \in Seq(Regimes) /\ Len(wanted') \in Nat \ {0}
        /\ Len(wanted') = (IF Len(wanted) + 1 > c.confirm THEN c.confirm ELSE Len(wanted) + 1)
        /\ wanted'[Len(wanted')] = want
        /\ \A i \in 1..(Len(wanted') - 1) : wanted'[i] = wanted[Len(wanted) - (Len(wanted') - 1) + i]
    BY <2>1, <2>2, <2>3, <2>4, Remembered
  <2> HIDE DEF want, c
  <2>6. CASE want = carried.current
    <3>1. carried' = [current |-> want, bars |-> carried.bars + 1, pending |-> "none", count |-> 0]
      BY <2>4, <2>6 DEF Classify, Settle, want
    <3> QED
      BY <2>1, <2>2, <2>3, <2>5, <2>6, <3>1 DEF SwitchInv, Switched, Carried, c
  <2>7. CASE want # carried.current /\ carried.bars < c.hold
    <3>1. carried' = [current |-> carried.current, bars |-> carried.bars + 1,
                      pending |-> carried.pending, count |-> carried.count]
      BY <2>1, <2>4, <2>7 DEF Classify, want, Carried
    <3>2. carried.count = 0
      BY <2>1, <2>3, <2>7 DEF Carried
    <3> QED
      BY <2>1, <2>2, <2>3, <2>5, <3>1, <3>2 DEF SwitchInv, Switched, Carried, c
  <2>8. ASSUME want # carried.current, ~(carried.bars < c.hold)
        PROVE  /\ count \in Nat \ {0} /\ count <= Len(wanted')
               /\ \A i \in DOMAIN wanted' : i > Len(wanted') - count => wanted'[i] = want
    <3>1. CASE carried.pending = want
      <4>1. count = carried.count + 1 /\ carried.count \in Nat /\ Len(wanted) \in Nat
        BY <2>1, <3>1 DEF Carried
      <4>2. \A i \in 1..(Len(wanted') - 1) : i > Len(wanted') - count => wanted'[i] = want
        <5> SUFFICES ASSUME NEW i \in 1..(Len(wanted') - 1), i > Len(wanted') - count
                     PROVE  wanted'[i] = want
          OBVIOUS
        <5> DEFINE j == Len(wanted) - (Len(wanted') - 1) + i
        <5>1. wanted'[i] = wanted[j]
          BY <2>5
        <5>2. j \in DOMAIN wanted /\ j > Len(wanted) - carried.count
          <6>1. /\ Len(wanted') <= Len(wanted) + 1 /\ i \in Nat /\ i >= 1 /\ i <= Len(wanted') - 1
                /\ i > Len(wanted') - (carried.count + 1) /\ Len(wanted') \in Nat
            BY <2>5, <4>1
          <6>2. j \in Nat \ {0} /\ j <= Len(wanted) /\ j > Len(wanted) - carried.count
            BY <4>1, <6>1
          <6> QED
            BY <4>1, <6>2, <2>1 DEF Regimes
        <5> QED
          BY <2>1, <3>1, <5>1, <5>2
      <4> QED
        BY <2>1, <2>3, <2>5, <4>1, <4>2
    <3>2. CASE carried.pending # want
      BY <2>5, <3>2
    <3> QED
      BY <3>1, <3>2
  <2>9. CASE want # carried.current /\ ~(carried.bars < c.hold) /\ count >= c.confirm
    <3>1. carried' = [current |-> want, bars |-> 0, pending |-> "none", count |-> 0]
      BY <2>4, <2>9 DEF Classify, Initial, want, c
    <3>2. Len(wanted') = c.confirm /\ \A i \in DOMAIN wanted' : wanted'[i] = want
      BY <2>1, <2>3, <2>5, <2>8, <2>9 DEF Carried
    <3> QED
      BY <2>1, <2>2, <2>3, <2>5, <2>9, <3>1, <3>2 DEF SwitchInv, Switched, Carried, c
  <2>10. CASE want # carried.current /\ ~(carried.bars < c.hold) /\ ~(count >= c.confirm)
    <3>1. carried' = [current |-> carried.current, bars |-> carried.bars + 1,
                      pending |-> want, count |-> count]
      BY <2>1, <2>4, <2>10 DEF Classify, want, Carried, c
    <3> QED
      BY <2>1, <2>2, <2>3, <2>5, <2>8, <2>10, <3>1 DEF SwitchInv, Switched, Carried, c
  <2> QED
    BY <2>6, <2>7, <2>9, <2>10
<1>2. CASE UNCHANGED <<carried, wanted>>
  BY <1>2 DEF SwitchInv, Switched
<1> QED
  BY <1>1, <1>2 DEF Next, vars, Tick, Store, Synthesize

\* So it is so throughout.
LEMMA InductiveSwitch == Spec => []SwitchInv
BY InitSwitch, StepSwitch, PTL DEF Spec

\* However the readings swing, a plan's regime changes only when as many plans
\* in a row wanted the new one as the configuration asks for, and not before
\* the old one was held long enough.
THEOREM SwitchConfirmed == Spec => SwitchNeedsConfirmation
<1>1. SwitchInv /\ [Next]_vars => [Switched]_vars
  BY StepSwitch
<1> QED
  BY <1>1, InductiveSwitch, PTL DEF Spec, SwitchNeedsConfirmation, Switched

-----------------------------------------------------------------------------
(* Types                                                                   *)

\* Advice is of a market before its own instant.
LEMMA AdviceLooksBack ==
  ASSUME NEW close \in Int, NEW at \in Nat
  PROVE  Reducer!Min({close, at - 1}) \in Int /\ Reducer!Min({close, at - 1}) < at
<1> DEFINE S == {close, at - 1}
<1>1. Min(S) \in S /\ \A x \in S : Min(S) <= x
  BY DEF Min
<1>2. Reducer!Min(S) = Min(S)
  BY DEF Reducer!Min, Min
<1> HIDE DEF S
<1>3. Min(S) \in Int /\ Min(S) <= at - 1
  BY <1>1 DEF S
<1> QED
  BY <1>2, <1>3 DEF S

\* Plans are of recent observations, a stand-down does not end before it begins,
\* what is pending is another regime than the current one and counted from one,
\* and advice is of a market before its own instant.
THEOREM TypeCorrect == Spec => []TypeOK
<1>1. InsightInv /\ SwitchInv => TypeOK
  <2> SUFFICES ASSUME InsightInv, SwitchInv PROVE TypeOK
    OBVIOUS
  <2>1. now \in 0..MaxTime /\ opens \subseteq Slots /\ tele \in Readings
    BY DEF InsightInv
  <2>2. plan # NoPlan =>
          /\ plan.position \in Positions /\ plan.action \in {"exit", "stand_down", "hold"}
          /\ plan.asOf - plan.observed \in 0..ObservationAge /\ plan.asOf <= now
          /\ plan.action = "stand_down" => plan.standDown >= plan.asOf
    BY DEF InsightInv, PlanSound
  <2>3. /\ carried.current \in Regimes /\ carried.bars \in Nat
        /\ carried.pending \in (Regimes \cup {"none"}) \ {carried.current}
        /\ carried.count < Config[Frame].confirm /\ (carried.count = 0 <=> carried.pending = "none")
    BY DEF SwitchInv, Carried
  <2>4. answer # NoAnswer => Advice.generated <= now /\ Advice.asOf < Advice.generated
    <3> SUFFICES ASSUME answer # NoAnswer
                 PROVE  Advice.generated <= now /\ Advice.asOf < Advice.generated
      OBVIOUS
    <3>1. /\ Advice.generated \in Nat /\ Advice.generated <= now
          /\ answer.market.fresh.close \in Int
          /\ Advice.asOf = Reducer!Min({answer.market.fresh.close, Advice.generated - 1})
      BY DEF InsightInv, AnswerSound, MarketSound, Reducer!Reduce
    <3> QED
      BY <3>1, AdviceLooksBack
  <2> QED
    BY <2>1, <2>2, <2>3, <2>4 DEF TypeOK, Advice
<1> QED
  BY <1>1, InductiveInsight, InductiveSwitch, PTL

-----------------------------------------------------------------------------
(* What the contract refuses                                               *)

Churns   == {"CHURN_STAND_DOWN_ACTIVE", "CHURN_COOLDOWN_ACTIVE"}
Breaches == {"CLMM_BREACH_LOWER", "CLMM_BREACH_UPPER"}
BadData  == {"DATA_HARD_STALE", "DATA_INSUFFICIENT_SAMPLES"}
Views    == {"MARKET_REGIME_UP", "MARKET_REGIME_DOWN", "MARKET_REGIME_CHOP"}
Says     == {"FEATURE_THRESHOLD_BREACHED", "CONTEXTUAL_EVIDENCE_VOTE", "RESEARCH_BRIEF_ANALYSIS"}
Codes    == Churns \cup Breaches \cup BadData \cup Views \cup Says \cup {"NO_ELIGIBLE_PRICE_LEVELS"}

\* The place of each code in the ruleset.
LEMMA RulesetRanks ==
  LET rank(code) == Reducer!Rank(Reducer!ReasonOrder, code) IN
  /\ rank("DATA_HARD_STALE") = 1 /\ rank("DATA_INSUFFICIENT_SAMPLES") = 2
  /\ rank("CLMM_BREACH_LOWER") = 3 /\ rank("CLMM_BREACH_UPPER") = 4
  /\ rank("CHURN_STAND_DOWN_ACTIVE") = 5 /\ rank("CHURN_COOLDOWN_ACTIVE") = 6
  /\ rank("MARKET_REGIME_UP") = 7 /\ rank("MARKET_REGIME_DOWN") = 8 /\ rank("MARKET_REGIME_CHOP") = 9
  /\ rank("FEATURE_THRESHOLD_BREACHED") = 10 /\ rank("CONTEXTUAL_EVIDENCE_VOTE") = 11
  /\ rank("RESEARCH_BRIEF_ANALYSIS") = 12 /\ rank("NO_ELIGIBLE_PRICE_LEVELS") = 13
BY DEF Reducer!Rank, Reducer!ReasonOrder

\* And in the contract.
LEMMA ContractRanks ==
  LET rank(code) == Reducer!Rank(Reducer!Precedence, code) IN
  /\ rank("CHURN_STAND_DOWN_ACTIVE") = 1 /\ rank("CHURN_COOLDOWN_ACTIVE") = 2
  /\ rank("DATA_HARD_STALE") = 3 /\ rank("DATA_INSUFFICIENT_SAMPLES") = 4
  /\ rank("CLMM_BREACH_LOWER") = 5 /\ rank("CLMM_BREACH_UPPER") = 6
  /\ rank("MARKET_REGIME_UP") = 7 /\ rank("MARKET_REGIME_DOWN") = 8 /\ rank("MARKET_REGIME_CHOP") = 9
  /\ rank("NO_ELIGIBLE_PRICE_LEVELS") = 10 /\ rank("FEATURE_THRESHOLD_BREACHED") = 11
  /\ rank("CONTEXTUAL_EVIDENCE_VOTE") = 12 /\ rank("RESEARCH_BRIEF_ANALYSIS") = 13
BY DEF Reducer!Rank, Reducer!Precedence

\* The two orders differ on these pairs only.
LEMMA OrdersDiffer ==
  ASSUME NEW a \in Codes, NEW b \in Codes,
         Reducer!Rank(Reducer!ReasonOrder, a) < Reducer!Rank(Reducer!ReasonOrder, b),
         ~(Reducer!Rank(Reducer!Precedence, a) < Reducer!Rank(Reducer!Precedence, b))
  PROVE  \/ a \in BadData \cup Breaches /\ b \in Churns
         \/ a \in Says /\ b = "NO_ELIGIBLE_PRICE_LEVELS"
BY RulesetRanks, ContractRanks DEF Codes, Churns, Breaches, BadData, Views, Says

\* Why a code is among the reasons.
LEMMA ReasonsWhy ==
  ASSUME NEW at, NEW m, NEW p, NEW e, NEW code \in Reducer!Reasons(at, m, p, e)
  PROVE  /\ code \in Codes
         /\ code \in BadData => Reducer!Unsafe(m)
         /\ code \in Breaches => Reducer!Asked(p) = "exit"
         /\ code \in Says => (e.hot \/ e.brief \/ Reducer!Vote(at, e) # "none")
BY DEF Reducer!Reasons, Reducer!Unsafe, Codes, Churns, Breaches, BadData, Views, Says

\* The contract lets advice pass but for the three known cases: whatever the
\* scope, the market and the plan, no other rule of it is ever broken.
THEOREM RefusalsKnown == Spec => []RefusedOnlyHere
<1>1. InsightInv => RefusedOnlyHere
  <2> SUFFICES ASSUME InsightInv, answer # NoAnswer, answer.refusal # "none"
               PROVE  RefusedOnlyHere
    BY DEF RefusedOnlyHere
  <2> DEFINE at == Advice.generated
             m  == answer.market
             p  == answer.plan
             e  == answer.evidence
  <2>1. /\ Advice = Reducer!Reduce(at, Advice.scope, m, p, e) /\ answer.refusal = Reducer!Refusal(Advice)
        /\ at \in Nat /\ PlanSound(p)
        /\ Advice.scope = "pair" => p = NoPlan
        /\ p # NoPlan => at - p.observed <= PositionAge
        /\ \A c \in e.claims : c.expires \in Nat
    BY DEF InsightInv, AnswerSound
  <2>2. /\ Advice.expires = Reducer!Expiry(at, p, e) /\ Advice.reasons = Reducer!Reasons(at, m, p, e)
        /\ Advice.action = Reducer!RecommendedAction(at, m, p)
    BY <2>1 DEF Reducer!Reduce
  <2>3. ~(Advice.asOf >= at)
    <3>1. m.fresh.close \in Int /\ Advice.asOf = Reducer!Min({m.fresh.close, at - 1})
      BY <2>1 DEF InsightInv, AnswerSound, MarketSound, Reducer!Reduce
    <3> HIDE DEF at
    <3>2. Advice.asOf \in Int /\ Advice.asOf < at
      BY <2>1, <3>1, AdviceLooksBack
    <3> QED
      BY <2>1, <3>2
  <2>4. Advice.expires \in Nat /\ Advice.expires >= at
    <3>1. \A c \in Reducer!Counted(at, e) : c.expires >= at
      BY DEF Reducer!Counted
    <3>2. Config[Frame].hard \in Nat /\ Lifetime \in Nat /\ PositionAge \in Nat
      BY MarketAssumption, PlanAssumption, InsightAssumption
    <3>3. p # NoPlan => p.observed + PositionAge >= at
      BY <2>1, <3>2 DEF PlanSound
    <3> HIDE DEF at, p, e
    <3> QED
      BY <2>1, <2>2, <3>1, <3>2, <3>3, ExpiryBounds
  <2>5. ~(Advice.scope = "pair" /\ Advice.action \in Reducer!NeedPosition)
    BY <2>1, <2>2 DEF Reducer!RecommendedAction, Reducer!NeedPosition, Reducer!ActionLock, Reducer!Asked
  <2>6. CASE at >= Advice.expires
    BY <2>1, <2>4, <2>6 DEF RefusedOnlyHere
  <2>7. CASE ~(at >= Advice.expires)
    <3>1. ~Reducer!InOrder(Advice.reasons, Reducer!Precedence)
      BY <2>1, <2>3, <2>5, <2>7 DEF Reducer!Refusal
    <3>2. PICK a \in Advice.reasons, b \in Advice.reasons :
            /\ Reducer!Rank(Reducer!ReasonOrder, a) < Reducer!Rank(Reducer!ReasonOrder, b)
            /\ ~(Reducer!Rank(Reducer!Precedence, a) < Reducer!Rank(Reducer!Precedence, b))
      BY <3>1 DEF Reducer!InOrder
    <3>3. a \in Codes /\ b \in Codes
      BY <2>2, ReasonsWhy
    <3>4. CASE a \in BadData \cup Breaches /\ b \in Churns
      <4>1. Reducer!Unsafe(m) \/ Reducer!Asked(p) = "exit"
        BY <2>2, <3>4, ReasonsWhy
      <4>2. Reducer!Unsafe(m) \/ p.action = "exit"
        BY <4>1 DEF Reducer!Asked
      <4> QED
        BY <3>4, <4>2 DEF RefusedOnlyHere, Churns
    <3>5. CASE a \in Says /\ b = "NO_ELIGIBLE_PRICE_LEVELS"
      <4>1. e.hot \/ e.brief \/ Reducer!Vote(at, e) # "none"
        BY <2>2, <3>5, ReasonsWhy
      <4> QED
        BY <3>5, <4>1 DEF RefusedOnlyHere
    <3> QED
      BY <3>2, <3>3, <3>4, <3>5, OrdersDiffer
  <2> QED
    BY <2>6, <2>7
<1> QED
  BY <1>1, InductiveInsight, PTL
=============================================================================
