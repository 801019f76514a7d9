-------------------------- MODULE MCScreenerService --------------------------
(* A small market for ScreenerService.  Against a close of 100 the prices  *)
(* lie on and just inside both thresholds, on both sides.                  *)
EXTENDS ScreenerService, TLC

CONSTANTS s1, s2

MCStocks == {s1, s2}
OneStock == {s1}
MCPrices == {96, 99, 102, 104}
MCChanges == {-400, 399, 150}
MCCloses == {0, 100}
MCStoredCloses == {100, None}

StockSymmetry == Permutations(Stocks)
=============================================================================
