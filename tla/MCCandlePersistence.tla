------------------------- MODULE MCCandlePersistence -------------------------
(* Minutes that are closed, late ticks, the evening and the next morning.  *)
EXTENDS CandlePersistence

At(hour, minute, second) == MINUTE * (60 * hour + minute) + SECOND * second

MCTimes ==
  {At(9, 15, 0), At(9, 16, 0), At(15, 30, 1), DAY + At(9, 15, 0), DAY + At(9, 16, 0)}

MCPrices == {1, 2}
MCTimeframes == [tf \in {"1m"} |-> 1]
MCHistoryTimes == {}
=============================================================================
