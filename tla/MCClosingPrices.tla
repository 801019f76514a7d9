-------------------------- MODULE MCClosingPrices ---------------------------
(* The update of four stocks, with a checkpoint after every two prices. *)
EXTENDS ClosingPrices
=============================================================================
