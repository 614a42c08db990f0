----------------------------- MODULE MarketRead -----------------------------
(***************************************************************************)
(* What the service makes of the stored candles at an instant: which of    *)
(* them are closed, the hours derived from quarters, how fresh the newest  *)
(* is, the regime and whether it suits liquidity.  Prices are abstracted   *)
(* to the bands the thresholds of MARKET_REGIME_CONFIG cut them into.      *)
(***************************************************************************)
EXTENDS Integers, FiniteSets, FiniteSetsExt

CONSTANTS
  Config,   \* timeframe -> [bar, delay, soft, hard : times, min : least candles,
            \*               confirm, hold : bars]
  PerHour   \* quarters in an hour

Timeframes == {"15m", "1h"}

ASSUME MarketAssumption ==
  /\ PerHour \in Nat \ {0}
  /\ Config \in [Timeframes -> [bar : Nat \ {0}, delay : Nat, soft : Nat, hard : Nat,
                                min : Nat, confirm : Nat \ {0}, hold : Nat]]
  /\ Config["1h"].bar = PerHour * Config["15m"].bar

Regimes == {"UP", "DOWN", "CHOP"}

\* Trend strength between the thresholds: "rising" is enough to stay UP, not to
\* enter it.  Volatility ratio: "raised" is above what is allowed, "high" above
\* what a trend may have, "wild" extreme.
Telemetry == [trend : {"up", "rising", "flat", "falling", "down"},
              vol : {"calm", "raised", "high", "wild"}, squeezed : BOOLEAN]

-----------------------------------------------------------------------------
(* closedCandleCutoffUnixMs, buildRegimeCandleReadPlan, aggregate15mTo1h   *)

Cutoff(at, c) == ((at - c.delay) \div c.bar) * c.bar - c.bar

\* An hour is derived only from its complete quarters.
Aggregate(opens) ==
  LET quarter == Config["15m"].bar
      hour(o)  == (o \div Config["1h"].bar) * Config["1h"].bar
  IN {h \in {hour(o) : o \in opens} : \A i \in 0..(PerHour - 1) : h + i * quarter \in opens}

\* The opens of the candles that are classified, of those stored.
Bars(tf, opens, at) ==
  LET closed == {o \in opens : o <= Cutoff(at, Config["15m"])}
  IN IF tf = "15m" THEN closed
     ELSE {h \in Aggregate(closed) : h <= Cutoff(at, Config["1h"])}

-----------------------------------------------------------------------------
(* computeFreshness                                                        *)

\* Mutant: the age is counted from the open of the bar.
AgeSinceOpen(at, last, c) == LET age == at - last
  IN [close |-> last + c.bar, generated |-> at, soft |-> age >= c.soft, hard |-> age >= c.hard]

Freshness(at, last, c) ==
  LET age == Max({0, at - (last + c.bar)})
  IN [close |-> last + c.bar, generated |-> at, soft |-> age >= c.soft, hard |-> age >= c.hard]

-----------------------------------------------------------------------------
(* classifyRegime                                                          *)

Initial == [current |-> "CHOP", bars |-> 0, pending |-> "none", count |-> 0]

Desired(current, tele) ==
  IF tele.vol \in {"high", "wild"} THEN "CHOP"
  ELSE IF tele.trend = "up" \/ (current = "UP" /\ tele.trend = "rising") THEN "UP"
  ELSE IF tele.trend = "down" \/ (current = "DOWN" /\ tele.trend = "falling") THEN "DOWN"
  ELSE "CHOP"

\* Mutant: a bar that agrees with the regime leaves a pending one in place.
Unsettled(state, want) == [state EXCEPT !.bars = @ + 1]

Settle(state, want) ==
  [current |-> want, bars |-> state.bars + 1, pending |-> "none", count |-> 0]

Classify(state, tele, c) ==
  LET want  == Desired(state.current, tele)
      count == IF state.pending = want THEN state.count + 1 ELSE 1
  IN IF want = state.current THEN Settle(state, want)
     ELSE IF state.bars < c.hold THEN [state EXCEPT !.bars = @ + 1]
     ELSE IF count >= c.confirm THEN [Initial EXCEPT !.current = want]
     ELSE [state EXCEPT !.bars = @ + 1, !.pending = want, !.count = count]

\* classifyMarketRegime: no state is kept between reads, so the same telemetry
\* is counted as often as a confirmation takes.
MarketRegime(tele, c) ==
  LET after[i \in 0..c.confirm] ==
        IF i = 0 THEN Initial ELSE Classify(after[i - 1], tele, c)
  IN after[c.confirm].current

-----------------------------------------------------------------------------
(* evaluateMarketClmmSuitability                                           *)

Suitability(regime, tele, fresh, count, c) ==
  IF count < c.min \/ fresh.hard THEN "UNKNOWN"
  ELSE IF regime # "CHOP" \/ tele.vol = "wild" \/ tele.squeezed THEN "BLOCKED"
  ELSE IF fresh.soft \/ tele.vol # "calm" THEN "CAUTION"
  ELSE "ALLOWED"
=============================================================================
