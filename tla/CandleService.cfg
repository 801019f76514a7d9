SPECIFICATION Spec
CONSTANTS
  Times <- MCTimes
  Prices <- MCPrices
  MAX_CANDLES = 2
  None = None
  MaxLateness = 200000
  LateAfterClose = FALSE
  MaxTicks = 4
  TIMEFRAME_MINUTES <- MCTimeframes
  HistoryTimes <- MCHistoryTimes
INVARIANTS TypeOK RollingOrdered CandlesMatchTicks NoMinuteLost
  FramesMatchTicks ClosedFrameHasAllMinutes MergedOrdered
PROPERTIES ClosedCandleFrozen
CHECK_DEADLOCK FALSE
