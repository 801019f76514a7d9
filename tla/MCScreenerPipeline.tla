------------------------- MODULE MCScreenerPipeline -------------------------
(* Two stocks that enter, stay and leave by the exchange's own figure.     *)
EXTENDS ScreenerPipeline, TLC

CONSTANTS s1, s2

MCStocks == {s1, s2}
MCPrices == {100}
MCChanges == {500, 400, 0}
InOut == {500, 0}
NoCloses == {}
NoStoredCloses == {None}

StockSymmetry == Permutations(Stocks)
=============================================================================
