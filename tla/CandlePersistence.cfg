SPECIFICATION PersistSpec
CONSTANTS
  Times <- MCTimes
  Prices <- MCPrices
  MAX_CANDLES = 3
  None = None
  MaxLateness = 120000
  LateAfterClose = FALSE
  MaxTicks = 3
  TIMEFRAME_MINUTES <- MCTimeframes
  HistoryTimes <- MCHistoryTimes
  RedisMayFail = TRUE
  DbMayFail = TRUE
  FlushMayDie = TRUE
  DumpAllowed = TRUE
  FlushInSession = FALSE
  MaxRuns = 2
INVARIANTS NothingPushedIsLost FlushCollisions OnlyLastMinuteUnpushed CopiesAgree
CHECK_DEADLOCK FALSE
