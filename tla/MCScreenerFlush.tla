--------------------------- MODULE MCScreenerFlush ---------------------------
(* Two stocks that enter and leave by the exchange's own figure.           *)
EXTENDS ScreenerFlush, TLC

CONSTANTS s1, s2

MCStocks == {s1, s2}
MCPrices == {100}
InOut == {500, 0}
NoCloses == {}
NoStoredCloses == {None}

StockSymmetry == Permutations(Stocks)
=============================================================================
