---------------------------- MODULE PositionPlan ----------------------------
(***************************************************************************)
(* POST /v1/plan: the churn governor and the action a plan asks for, out   *)
(* of a position, the client's churn counters and the market as read at    *)
(* the plan's instant.  The allocation targets are constants of the code   *)
(* and are left out.                                                       *)
(***************************************************************************)
EXTENDS MarketRead

CONSTANTS
  Frame,           \* the timeframe read
  ObservationAge,  \* a plan is refused on a position seen longer ago
  CooldownMs       \* config.churn.cooldownMsAfterStopout

ASSUME PlanAssumption ==
  /\ Frame \in Timeframes /\ ObservationAge \in Nat /\ CooldownMs \in Nat

Positions == [range : {"in", "below", "above"}, qualified : BOOLEAN]

\* The regime is the plan's own, with the hysteresis the client carries.
MarketAt(at, opens, regime, tele) ==
  LET bars  == Bars(Frame, opens, at)
      fresh == Freshness(at, Max(bars), Config[Frame])
  IN [regime |-> regime, fresh |-> fresh,
      suitability |-> Suitability(regime, tele, fresh, Cardinality(bars), Config[Frame])]

\* A plan is made only of enough candles, none too old, and a recent position.
Plannable(at, opens, observed) ==
  LET bars == Bars(Frame, opens, at)
  IN /\ at - observed <= ObservationAge
     /\ bars # {} /\ Cardinality(bars) >= Config[Frame].min
     /\ ~Freshness(at, Max(bars), Config[Frame]).hard

\* Counted by the client: the ends of the two windows, and whether a budget of
\* stop-outs, redeployments or strikes is used up.
Churn == [cooldown : Nat, standDown : Nat, spent : BOOLEAN]

StandsDown(at, churn) == churn.cooldown > at \/ churn.standDown > at \/ churn.spent

\* Mutant: a stand-down for a spent budget sets no end.
StandDownOfWindows(at, churn) ==
  Max({churn.standDown, IF churn.cooldown > at THEN churn.cooldown ELSE 0})

StandDownUntil(at, churn) ==
  Max({churn.standDown, IF churn.cooldown > at THEN churn.cooldown ELSE 0,
       IF churn.spent THEN at + CooldownMs ELSE 0})

Breached(position) == position.range # "in" /\ position.qualified

PlanAction(position, suitability, active, down) ==
  IF Breached(position) \/ (suitability = "BLOCKED" /\ active) THEN "exit"
  ELSE IF down THEN "stand_down"
  ELSE "hold"

BuildPlan(at, position, observed, churn, active, suitability) ==
  [position  |-> position, observed |-> observed, asOf |-> at,
   action    |-> PlanAction(position, suitability, active, StandsDown(at, churn)),
   cooldown  |-> churn.cooldown,
   standDown |-> StandDownUntil(at, churn)]
=============================================================================
