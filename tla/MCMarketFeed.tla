----------------------------- MODULE MCMarketFeed -----------------------------
(* Masters of at most two rows: two equities with either of two tokens, an *)
(* index and a malformed row; one of four rows with a delisted and two     *)
(* untradable symbols; one with more symbols than a socket takes.          *)
EXTENDS MarketFeed

MCEquities == {"A", "B", "C", "D", "E"}
MCDelisted == {"D"}
MCTradable == {"A", "E"}
Row(symbol, token, complete) ==
  [symbol |-> symbol, token |-> token, complete |-> complete]
ShortRows ==
  {Row(s, t, TRUE) : s \in {"A", "B"}, t \in 1 .. 2}
    \cup {Row("INDEX", 1, TRUE), Row("A", 1, FALSE)}
MCMasters ==
  UNION {[1 .. n -> ShortRows] : n \in 0 .. 2}
    \cup {<<Row("C", 1, TRUE), Row("A", 2, TRUE), Row("D", 3, TRUE), Row("B", 4, TRUE)>>,
          <<Row("A", 1, TRUE), Row("B", 2, TRUE), Row("C", 3, TRUE), Row("E", 4, TRUE)>>}
=============================================================================
