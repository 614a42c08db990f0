---------------------------- MODULE MCCandleFeed ----------------------------
(* A finite instance of CandleFeed: see the run candle_feed.                *)
EXTENDS CandleFeed

\* Three slots of two ticks, two to an "hour"; the limits stand to the bars as
\* 25 and 75 minutes stand to 15 minutes and an hour.
MCConfig ==
  [tf \in {"15m", "1h"} |->
     IF tf = "15m" THEN [bar |-> 2, delay |-> 1, soft |-> 3, hard |-> 4, min |-> 1, confirm |-> 2, hold |-> 0]
     ELSE [bar |-> 4, delay |-> 1, soft |-> 5, hard |-> 6, min |-> 1, confirm |-> 1, hold |-> 0]]

MCSlots == {0, 2, 4}
=============================================================================
