SPECIFICATION StoreSpec
CONSTANTS
  Symbols = {a, b}
  Charted = {a}
  Movers = {}
  Clients = {ws1}
  Resolutions <- OneAndFive
  None = None
  MaxTicks = 2
  MaxRequests = 2
INVARIANT StoreTypeOK
INVARIANT NothingLeftBehind
PROPERTY CandleEventsInOrder
PROPERTY NoCandleGap
