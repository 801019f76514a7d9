----------------------------- MODULE MCLiveStore -----------------------------
(* Small instances of LiveStore: two browsers that only watch the quotes of  *)
(* two symbols, and one browser that moves between the charts of two.        *)
EXTENDS LiveStore

(* Events of one minute are sent as they are, those of five merged. *)
OneAndFive == {"1m", "5m"}
=============================================================================
