-------------------------- MODULE MCPolicyInsights --------------------------
(* Finite instances of PolicyInsights: see the runs policy_*.               *)
EXTENDS PolicyInsights

MCConfig ==
  [tf \in {"15m", "1h"} |->
     IF tf = "15m" THEN [bar |-> 1, delay |-> 0, soft |-> 1, hard |-> 2, min |-> 2, confirm |-> 2, hold |-> 1]
     ELSE [bar |-> 2, delay |-> 0, soft |-> 2, hard |-> 4, min |-> 1, confirm |-> 1, hold |-> 0]]

MCSlots == {0, 1, 2}

Reading(trend, vol, squeezed) == [trend |-> trend, vol |-> vol, squeezed |-> squeezed]

\* Fit for liquidity, or not; "rising" keeps a regime it would not start.
MCReadings ==
  {Reading("flat", "calm", FALSE), Reading("rising", "calm", FALSE), Reading("up", "raised", FALSE),
   Reading("flat", "wild", TRUE)}

Request(range, qualified, observed, churn, active) ==
  [position |-> [range |-> range, qualified |-> qualified], observed |-> observed, churn |-> churn, active |-> active]

\* At rest, in a cooldown, in a longer stand-down, or out of budget.
Calm        == [cooldown |-> 0, standDown |-> 0, spent |-> FALSE]
Cooled(at)  == [Calm EXCEPT !.cooldown = at + 1]
Stopped(at) == [Calm EXCEPT !.standDown = at + 2]
Spent       == [Calm EXCEPT !.spent = TRUE]

\* Every range with every state of the counters that changes the action.
MCRequests(at) ==
  {Request("in", FALSE, at, Calm, TRUE), Request("in", FALSE, at, Cooled(at), FALSE),
   Request("in", FALSE, Max({0, at - 1}), Stopped(at), TRUE),
   Request("below", FALSE, at, Calm, FALSE), Request("above", FALSE, Max({0, at - 1}), Spent, FALSE),
   Request("below", TRUE, Max({0, at - 1}), Calm, TRUE), Request("above", TRUE, at, Cooled(at), TRUE),
   Request("above", FALSE, at, Calm, TRUE), Request("below", TRUE, Max({0, at - 2}), Stopped(at), TRUE)}

Claims(directions, expires) == {[direction |-> d, expires |-> expires] : d \in directions}

Quiet == Reducer!NoEvidence

\* One kind of evidence at a time, one kind with another, and claims that end
\* at once or later.
MCEvidences(at) ==
  {Quiet, [Quiet EXCEPT !.levels = TRUE], [Quiet EXCEPT !.hot = TRUE], [Quiet EXCEPT !.brief = TRUE],
   [Quiet EXCEPT !.thesis = "bearish"]}
  \cup {[Quiet EXCEPT !.claims = Claims(d, e), !.levels = TRUE] :
          d \in {{"bullish"}, {"bearish"}}, e \in {at, at + 1}}
  \cup {[Quiet EXCEPT !.claims = Claims({"bullish", "bearish"}, at + 1), !.conflict = TRUE],
        [Quiet EXCEPT !.claims = Claims({"bullish"}, at + 1), !.thesis = "bearish", !.levels = TRUE]}
=============================================================================
