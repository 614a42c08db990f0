--------------------------- MODULE PolicyInsights ---------------------------
(***************************************************************************)
(* Advice over time: candles arrive or fail to, a client asks for plans of *)
(* a position, carrying its regime state and churn counters from one to    *)
(* the next, and the service synthesises insights from whatever it then    *)
(* has.  Composes MarketRead, PositionPlan and PolicyReducer; what is      *)
(* selected as evidence is an input (see EvidenceSelection).               *)
(***************************************************************************)
EXTENDS PositionPlan, Sequences

CONSTANTS
  NoPlan, NoAnswer,
  Lifetime, PositionAge,  \* of the ruleset
  Slots, Readings,        \* opens of candles, telemetry they may give (bounds)
  Requests(_),            \* requests of a plan at an instant (bound)
  Evidences(_),           \* what may be selected at an instant (bound)
  MaxTime, MaxBars        \* bounds

ASSUME InsightAssumption ==
  /\ Lifetime \in Nat /\ PositionAge \in Nat /\ MaxTime \in Nat /\ Slots \subseteq Nat
  /\ \A at \in 0..MaxTime :
       /\ \A r \in Requests(at) :
            /\ r.position \in Positions /\ r.churn \in Churn
            /\ r.observed \in 0..at  \* later ones are refused
       /\ \A e \in Evidences(at) : \A c \in e.claims : c.expires \in Nat

Reducer == INSTANCE PolicyReducer WITH HardMs <- Config[Frame].hard

VARIABLES
  now,
  opens, tele,  \* candles stored, and what the indicators make of them
  plan,         \* the position's latest plan
  carried,      \* nextRegimeState the client has from it
  wanted,       \* regimes its latest plans wanted (history)
  answer        \* the insight synthesised last, with what it was made of

vars == <<now, opens, tele, plan, carried, wanted, answer>>

TypeOK ==
  /\ now \in 0..MaxTime /\ opens \subseteq Slots /\ tele \in Readings
  /\ plan # NoPlan =>
       /\ plan.position \in Positions /\ plan.action \in {"exit", "stand_down", "hold"}
       /\ plan.asOf - plan.observed \in 0..ObservationAge /\ plan.asOf <= now
       /\ plan.action = "stand_down" => plan.standDown >= plan.asOf
  /\ carried.current \in Regimes /\ carried.bars \in Nat
  /\ carried.pending \in (Regimes \cup {"none"}) \ {carried.current}
  /\ carried.count < Config[Frame].confirm /\ (carried.count = 0 <=> carried.pending = "none")
  /\ answer # NoAnswer => answer.out.generated <= now /\ answer.out.asOf < answer.out.generated

Init ==
  /\ now = 0 /\ opens = {} /\ tele \in Readings
  /\ plan = NoPlan /\ carried = Initial /\ wanted = <<>> /\ answer = NoAnswer

Tick ==
  /\ now < MaxTime /\ now' = now + 1
  /\ UNCHANGED <<opens, tele, plan, carried, wanted, answer>>

\* A candle is stored or revised, late ones and the one still open included.
Store(o) ==
  /\ o <= now
  /\ opens' = opens \cup {o} /\ tele' \in Readings /\ answer' = NoAnswer
  /\ UNCHANGED <<now, plan, carried, wanted>>

\* Memory enough for the confirmation of a switch.
Remember(w) == LET all == Append(wanted, w)
                   n   == Config[Frame].confirm
               IN IF Len(all) > n THEN Tail(all) ELSE all

\* r: [position, observed, churn, active], made and answered now.
RequestPlan(r) ==
  /\ Plannable(now, opens, r.observed) /\ carried.bars < MaxBars
  /\ carried' = Classify(carried, tele, Config[Frame])
  /\ wanted' = Remember(Desired(carried.current, tele))
  /\ plan' = BuildPlan(now, r.position, r.observed, r.churn, r.active,
                       MarketAt(now, opens, carried'.current, tele).suitability)
  /\ answer' = NoAnswer
  /\ UNCHANGED <<now, opens, tele>>

CurrentMarket == MarketAt(now, opens, MarketRegime(tele, Config[Frame]), tele)

\* An insight of the pair is given no plan; one of a position needs one whose
\* position is not too old.
Synthesize(scope, evidence) ==
  LET used == IF scope = "pair" THEN NoPlan ELSE plan
      out  == Reducer!Reduce(now, scope, CurrentMarket, used, evidence)
  IN /\ Bars(Frame, opens, now) # {}
     /\ scope = "position" => (plan # NoPlan /\ now - plan.observed <= PositionAge)
     /\ answer' = [out |-> out, refusal |-> Reducer!Refusal(out),
                   market |-> CurrentMarket, plan |-> used, evidence |-> evidence]
     /\ UNCHANGED <<now, opens, tele, plan, carried, wanted>>

\* (A synthesis right after another reaches nothing new: the first left no trace.)
Next ==
  \/ Tick
  \/ \E o \in Slots : Store(o)
  \/ \E r \in Requests(now) : RequestPlan(r)
  \/ \E scope \in {"pair", "position"}, e \in Evidences(now) : answer = NoAnswer /\ Synthesize(scope, e)

Spec == Init /\ [][Next]_vars

-----------------------------------------------------------------------------
(* Properties                                                              *)

Advice == answer.out

\* Evidence may only tighten what the market and the plan decided: the action
\* stays, a pause stays, and neither capital, sensitivity nor lifetime grow.
EvidenceNeverLoosens ==
  answer # NoAnswer =>
    LET quiet == Reducer!Reduce(Advice.generated, Advice.scope, answer.market, answer.plan,
                                Reducer!NoEvidence)
    IN /\ Advice.action = quiet.action
       /\ quiet.posture = 4 => Advice.posture = 4
       /\ quiet.confidence = 0 => Advice.confidence = 0
       /\ Advice.capital <= quiet.capital /\ Advice.sensitivity <= quiet.sensitivity
       /\ Advice.expires <= quiet.expires

\* A plan's guards outlive the plan: as long as the market is fit to judge,
\* an exit it asked for is advised, to the side of the breach, and a stand-down
\* is until it ends; no capital is deployed under either, nor in a market that
\* is not fit.
GuardsHold ==
  (answer # NoAnswer /\ answer.plan # NoPlan) =>
    LET p     == answer.plan
        fit   == answer.market.suitability \in {"ALLOWED", "CAUTION"}
        exits == Breached(p.position)
        down  == p.standDown > Advice.generated
    IN /\ (fit /\ exits) =>
            Advice.action = (IF p.position.range = "below" THEN "EXIT_TO_USDC" ELSE "EXIT_TO_SOL")
       /\ (down /\ p.action # "exit") => Advice.action = "STAND_DOWN"
       /\ Advice.capital > 0 => (fit /\ ~exits /\ ~down)
       /\ ~fit => Advice.action = "STAND_DOWN"

\* As long as an insight is to be used, so are a claim that voted for it and
\* the observation of its position.
LiveAdviceHasLiveInputs ==
  (answer # NoAnswer /\ now < Advice.expires) =>
    /\ \A c \in answer.evidence.claims : c.expires >= Advice.generated => now <= c.expires
    /\ answer.plan # NoPlan => now - answer.plan.observed < PositionAge
    /\ now - Advice.generated < Lifetime

\* The contract refuses what the reducer makes in three cases only: a churn
\* guard next to bad data or a breach, a pair without levels that has evidence
\* with a say, and an input that ends at the very instant of the synthesis.
RefusedOnlyHere ==
  (answer # NoAnswer /\ answer.refusal # "none") =>
    \/ Advice.expires = Advice.generated
    \/ /\ Advice.reasons \cap {"CHURN_STAND_DOWN_ACTIVE", "CHURN_COOLDOWN_ACTIVE"} # {}
       /\ Reducer!Unsafe(answer.market) \/ answer.plan.action = "exit"
    \/ /\ "NO_ELIGIBLE_PRICE_LEVELS" \in Advice.reasons
       /\ answer.evidence.hot \/ answer.evidence.brief
          \/ Reducer!Vote(Advice.generated, answer.evidence) # "none"

\* The regime a client's plans carry changes only after so many consecutive
\* plans wanted the new one, and not before the old one was held long enough.
SwitchNeedsConfirmation ==
  [][carried'.current # carried.current =>
       /\ carried.bars >= Config[Frame].hold
       /\ Len(wanted') = Config[Frame].confirm
       /\ \A i \in DOMAIN wanted' : wanted'[i] = carried'.current]_vars

\* "Ordered by decreasing priority. First code is primary driver.": codes that
\* stand in the order the contract's document lists them are not refused.
DocumentedOrderAccepted ==
  (answer # NoAnswer /\ answer.refusal = "order") => ~Reducer!InOrder(Advice.reasons, Reducer!Documented)
=============================================================================
