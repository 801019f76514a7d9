--------------------------- MODULE MCCandleService ---------------------------
(* A small feed for CandleService and what CandleAggregation makes of it. *)
EXTENDS CandleAggregation

At(hour, minute, second, ms) ==
  MINUTE * (60 * hour + minute) + SECOND * second + ms

(* Two ticks in one second, the last second of a minute, the next minutes, *)
(* the closing instant, after hours, and the next morning.                 *)
MCTimes ==
  {At(9, 14, 59, 999),
   At(9, 15, 0, 0), At(9, 15, 0, 500), At(9, 15, 59, 999),
   At(9, 16, 0, 0), At(9, 17, 30, 0),
   At(15, 30, 0, 0), At(15, 30, 0, 1),
   DAY + At(9, 14, 0, 0), DAY + At(9, 15, 1, 0)}

MCPrices == 1 .. 2

(* A timeframe of two minutes, so that a deque of two holds a whole frame. *)
MCTimeframes == [tf \in {"1m", "2m"} |-> IF tf = "1m" THEN 1 ELSE 2]

(* A minute with live candles and one without. *)
MCHistoryTimes == {At(9, 15, 0, 0), At(9, 18, 0, 0)}
=============================================================================
