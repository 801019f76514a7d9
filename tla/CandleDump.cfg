SPECIFICATION PersistSpec
CONSTANTS
  Times <- MCTimes
  Prices <- MCPrices
  MAX_CANDLES = 3
  None = None
  MaxLateness = 120000
  LateAfterClose = FALSE
  MaxTicks = 3
  TIMEFRAME_MINUTES <- MCTimeframes
  HistoryTimes <- MCHistoryTimes
  RedisMayFail = FALSE
  DbMayFail = FALSE
  FlushMayDie = FALSE
  DumpAllowed = TRUE
  FlushInSession = FALSE
  MaxRuns = 3
CHECK_DEADLOCK FALSE
PROPERTY FlushStoresBatch
