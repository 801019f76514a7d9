SPECIFICATION FairStoreSpec
CONSTANTS
  Symbols = {a, b}
  Charted = {}
  Movers = {a}
  Clients = {ws1, ws2}
  Resolutions = {"1m"}
  None = None
  MaxTicks = 2
  MaxRequests = 0
INVARIANT QuotesCaughtUp
PROPERTY QuotesNeverGoBack
PROPERTY QuotesDelivered
