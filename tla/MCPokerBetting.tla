--------------------------- MODULE MCPokerBetting ---------------------------
(* Street list for the model-checked instances of PokerBetting. *)
EXTENDS PokerBetting

TwoStreets == <<TRUE, TRUE>>
=============================================================================
